---------------------------- MODULE KernelIOProofs ----------------------------
(***************************************************************************)
(* Proofs about the kernel's synchronised objects: locks exclude, devices  *)
(* meet their assertions, no signal of the synchronised list is lost, the  *)
(* disk, the list and the files implement what they promise, and what the  *)
(* console reads and writes is in order.                                   *)
(***************************************************************************)
EXTENDS KernelIO, NatLemmas, SequenceTheorems, FiniteSetTheorems, TLAPS

-----------------------------------------------------------------------------
(* The inductive invariant.                                                *)

\* Where the threads are that have a lock, and that have cleared lockHolder
\* and not posted the semaphore yet.
ListHeld == {"append.put", "append.signal", "remove.test", "remove.take", "remove.wait",
             "apply.run", "list.disown"}
ListLeaving == {"list.unlock", "remove.unlock"}
DiskHeld == {"disk.request", "disk.wait", "disk.disown"}
DiskLeaving == {"disk.unlock"}
OutHeld == {"out.put", "out.wait", "out.disown"}
OutLeaving == {"out.unlock"}
InHeld == {"in.wait", "in.get", "in.disown"}
InLeaving == {"in.unlock"}

\* Where a thread is in each kind of call.
ListCode == ListHeld \cup ListLeaving
              \cup {"append.acquire", "remove.acquire", "apply.acquire", "remove.sleep"}
DiskCode == DiskHeld \cup DiskLeaving \cup {"disk.acquire"}
OutCode == OutHeld \cup OutLeaving \cup {"out.acquire"}
InCode == InHeld \cup InLeaving \cup {"in.acquire"}
FileCode == {"file.call", "file.return"}
Place == {"idle"} \cup ListCode \cup DiskCode \cup OutCode \cup InCode \cup FileCode

Named == Lock \cup {"disk.done", "out.done", "in.ready"}

\* The semaphore of a lock is 1 or 0, and 0 while a thread has the lock;
\* one thread has it at most, and lockHolder names it.
LockInv(l, held, leaving) ==
    /\ sem[l].value \in {0, 1}
    /\ \A t \in Thread : pc[t] \in held \cup leaving => sem[l].value = 0
    /\ \A t, u \in Thread : pc[t] \in held \cup leaving /\ pc[u] \in held \cup leaving => t = u
    /\ \A t \in Thread : pc[t] \in held => holder[l] = t

ListLock == LockInv("list", ListHeld, ListLeaving)
DiskLock == LockInv("disk", DiskHeld, DiskLeaving)
OutLock == LockInv("out", OutHeld, OutLeaving)
InLock == LockInv("in", InHeld, InLeaving)

\* The value of a semaphore.
Count(name) == sem[name].value

\* The disk works for the thread that waits for it: there is a request with one
\* interrupt pending, or the semaphore of its completion is 1, or neither.
DiskInv ==
    /\ active <=> diskDue # {}
    /\ Count("disk.done") \in {0, 1}
    /\ active \/ Count("disk.done") = 1 => \E t \in Thread : pc[t] = "disk.wait"
    /\ active => Count("disk.done") = 0
    /\ \A d, e \in diskDue : d = e

\* The display, likewise.
OutInv ==
    /\ writeDue \in {0, 1}
    /\ putBusy <=> writeDue = 1
    /\ Count("out.done") \in {0, 1}
    /\ putBusy \/ Count("out.done") = 1 => \E t \in Thread : pc[t] = "out.wait"
    /\ putBusy => Count("out.done") = 0

\* The keyboard is polled, or it has a character (or the end of the input) for a
\* reader, which may be on its way to it.
InInv ==
    /\ readDue \in {0, 1}
    /\ Count("in.ready") \in {0, 1}
    /\ readDue = 1 => incoming = EOF /\ Count("in.ready") = 0
    /\ \A t \in Thread : pc[t] = "in.get" => readDue = 0 /\ Count("in.ready") = 0
    /\ incoming # EOF => Count("in.ready") = 1 \/ \E t \in Thread : pc[t] = "in.get"

\* A refused transfer moves the offset to -1 at most: the next one aborts.
Offset == {n \in Int : n >= -1}

\* The table has an OpenFile for each of its entries, over a file of the host
\* of its own.
FileInv ==
    /\ hostFiles \in [DOMAIN hostFiles -> Seq(Nat)]
    /\ hostOpen \in [DOMAIN hostOpen -> DOMAIN hostFiles]
    /\ DOMAIN hostOpen \subseteq Nat /\ IsFiniteSet(DOMAIN hostOpen)
    /\ DOMAIN OpenFileTable \subseteq 0 .. NumOpen - 1
    /\ OpenFileTable \in [DOMAIN OpenFileTable -> [file : DOMAIN hostOpen, currentOffset : Offset]]
    /\ \A id, other \in DOMAIN OpenFileTable :
          OpenFileTable[id].file = OpenFileTable[other].file => id = other

\* Where the threads left on the condition are, and that a thread that is about to
\* wait has seen the list empty.
ListInv ==
    /\ list \in Seq(Item)
    /\ waitQueue \in Seq(Thread)
    /\ waiter \in [Thread -> [value : Nat, queue : Seq(Thread)]]
    /\ \A i \in 1 .. Len(waitQueue) :
          /\ pc[waitQueue[i]] \in {"remove.unlock", "remove.sleep"}
          /\ waiter[waitQueue[i]].value = 0
    /\ \A i, j \in 1 .. Len(waitQueue) : waitQueue[i] = waitQueue[j] => i = j
    /\ \A t \in Thread : pc[t] = "remove.wait" => list = <<>>
    /\ \A t \in Thread : pc[t] = "remove.take" => list # <<>>

\* A thread is where its call has brought it.
Runs(op, p) ==
    \/ op = "Append" /\ p \in {"append.acquire", "append.put", "append.signal", "list.disown",
                               "list.unlock"}
    \/ op = "RemoveFront" /\ p \in {"remove.acquire", "remove.test", "remove.take", "remove.wait",
                                    "remove.unlock", "remove.sleep", "list.disown", "list.unlock"}
    \/ op = "Apply" /\ p \in {"apply.acquire", "apply.run", "list.disown", "list.unlock"}
    \/ op \in {"ReadSector", "WriteSector"} /\ p \in DiskCode
    \/ op \in {"PutChar", "PutInt"} /\ p \in OutCode
    \/ op = "GetChar" /\ p \in InCode
    \/ op \in FileOp /\ p \in FileCode

CallInv ==
    /\ pc \in [Thread -> Place] /\ cur = [t \in Thread |-> cur[t]]
    /\ got = [t \in Thread |-> got[t]]
    /\ todo \in [Thread -> Seq(AllCalls)]
    /\ IsFiniteSet({t \in Thread : pc[t] # "idle"})
    /\ \A t \in Thread : pc[t] # "idle" => cur[t] \in AllCalls /\ Runs(cur[t].op, pc[t])

SemInv == /\ sem \in [Named -> [value : Nat, queue : Seq(Thread)]]
          /\ DOMAIN holder = Lock

KernelInv == /\ CallInv /\ SemInv
             /\ ListLock /\ DiskLock /\ OutLock /\ InLock
             /\ ListInv /\ DiskInv /\ OutInv /\ InInv /\ FileInv
             /\ NoLostSignal

-----------------------------------------------------------------------------
(* Semaphores and locks.                                                   *)

\* What the statements of a thread do to its place in the code.
Moves(t, p) == pc' = [pc EXCEPT ![t] = p]

LEMMA UpType ==
    ASSUME NEW s \in [value : Nat, queue : Seq(Thread)]
    PROVE  Up(s) \in [value : Nat, queue : Seq(Thread)] /\ Up(s).value = s.value + 1
<1>1. s.queue \in Seq(Thread) /\ s.value \in Nat
  OBVIOUS
<1>2. s.queue # <<>> => Tail(s.queue) \in Seq(Thread)
  BY <1>1
<1>3. (IF s.queue = <<>> THEN <<>> ELSE Tail(s.queue)) \in Seq(Thread)
  BY <1>2
<1>4. QED
  BY <1>1, <1>3 DEF Up

LEMMA DownType ==
    ASSUME NEW s \in [value : Nat, queue : Seq(Thread)], NEW t \in Thread
    PROVE  /\ Down(s, t) \in [value : Nat, queue : Seq(Thread)]
           /\ Down(s, t).value = IF s.value = 0 THEN 0 ELSE s.value - 1
<1>1. s.queue \in Seq(Thread) /\ s.value \in Nat /\ Append(s.queue, t) \in Seq(Thread)
  OBVIOUS
<1>2. CASE s.value = 0
  BY <1>1, <1>2 DEF Down
<1>3. CASE s.value # 0
  <2>1. s.value - 1 \in Nat
    BY <1>1, <1>3
  <2>2. QED
    BY <1>1, <1>3, <2>1 DEF Down
<1>4. QED
  BY <1>2, <1>3

LEMMA VPosts ==
    ASSUME SemInv, NEW name \in Named, V(name)
    PROVE  /\ sem' \in [Named -> [value : Nat, queue : Seq(Thread)]]
           /\ sem'[name].value = sem[name].value + 1
           /\ \A s \in Named : s # name => sem'[s] = sem[s]
<1>1. sem' = [sem EXCEPT ![name] = Up(sem[name])]
  BY DEF V
<1>2. sem[name] \in [value : Nat, queue : Seq(Thread)]
  BY DEF SemInv
<1>3. QED
  BY <1>1, <1>2, UpType DEF SemInv

LEMMA PTakes ==
    ASSUME SemInv, pc \in [Thread -> Place], NEW t \in Thread, NEW name \in Named,
           NEW next \in Place, P(t, name, next)
    PROVE  /\ sem' \in [Named -> [value : Nat, queue : Seq(Thread)]]
           /\ \A s \in Named : s # name => sem'[s] = sem[s]
           /\ \/ sem[name].value = 0 /\ sem'[name].value = 0 /\ pc' = pc
              \/ /\ sem[name].value # 0 /\ sem'[name].value = sem[name].value - 1
                 /\ Moves(t, next)
<1>1. Down(sem[name], t) \in [value : Nat, queue : Seq(Thread)]
      /\ Down(sem[name], t).value = IF sem[name].value = 0 THEN 0 ELSE sem[name].value - 1
  BY DownType DEF SemInv
<1>2. /\ sem' = [sem EXCEPT ![name] = Down(sem[name], t)]
      /\ pc' = IF sem[name].value = 0 THEN pc ELSE [pc EXCEPT ![t] = next]
  BY DEF P
<1>3. QED
  BY <1>1, <1>2 DEF SemInv, Moves

\* Acquire: a lock is taken, ...
LEMMA LockTaken ==
    ASSUME SemInv, pc \in [Thread -> Place], NEW l \in Lock, NEW held, NEW leaving,
           LockInv(l, held, leaving), NEW t \in Thread, NEW next \in Place,
           next \in held, next \notin leaving, Acquire(t, l, next)
    PROVE  LockInv(l, held, leaving)'
<1>1. l \in Named /\ DOMAIN holder = Lock /\ sem[l].value \in {0, 1}
  BY DEF Named, SemInv, LockInv
<1>2. P(t, l, next) /\ holder' = IF sem[l].value = 0 THEN holder ELSE [holder EXCEPT ![l] = t]
  BY DEF Acquire
<1>3. CASE sem[l].value = 0
  <2>1. sem'[l].value = 0 /\ pc' = pc /\ holder' = holder
    BY <1>1, <1>2, <1>3, PTakes
  <2>2. QED
    BY <1>3, <2>1 DEF LockInv
<1>4. CASE sem[l].value = 1
  <2>1. sem'[l].value = 0 /\ pc' = [pc EXCEPT ![t] = next] /\ holder' = [holder EXCEPT ![l] = t]
    <3>1. sem'[l].value = sem[l].value - 1 /\ pc' = [pc EXCEPT ![t] = next]
      BY <1>1, <1>2, <1>4, PTakes DEF Moves
    <3>2. QED
      BY <1>2, <1>4, <3>1
  <2>2. \A u \in Thread : pc[u] \notin held \cup leaving
    BY <1>4 DEF LockInv
  <2>3. \A u \in Thread : pc'[u] \in held \cup leaving => u = t
    BY <2>1, <2>2
  <2>4. holder'[l] = t
    BY <1>1, <2>1
  <2>5. QED
    BY <2>1, <2>3, <2>4 DEF LockInv
<1>5. QED
  BY <1>1, <1>3, <1>4

\* ... kept, while its holder or any other thread goes on, ...
LEMMA LockKept ==
    ASSUME pc \in [Thread -> Place], NEW l, NEW held, NEW leaving, LockInv(l, held, leaving),
           NEW t \in Thread, NEW p \in Place, Moves(t, p), p \in held => pc[t] \in held,
           p \in leaving => pc[t] \in leaving,
           sem'[l].value = sem[l].value, holder'[l] = holder[l]
    PROVE  LockInv(l, held, leaving)'
<1>1. \A u \in Thread : /\ pc'[u] \in held => pc[u] \in held
                        /\ pc'[u] \in leaving => pc[u] \in leaving
  BY DEF Moves
<1>2. QED
  BY <1>1 DEF LockInv

LEMMA LockStays ==
    ASSUME NEW l, NEW held, NEW leaving, LockInv(l, held, leaving),
           pc' = pc, sem'[l].value = sem[l].value, holder'[l] = holder[l]
    PROVE  LockInv(l, held, leaving)'
BY DEF LockInv

\* ... and released, lockHolder first.
LEMMA LockDisowned ==
    ASSUME SemInv, pc \in [Thread -> Place], NEW l \in Lock, NEW held, NEW leaving,
           LockInv(l, held, leaving),
           NEW t \in Thread, NEW p \in Place, Moves(t, p), pc[t] \in held, p \in leaving, p \notin held,
           Disown(t, l), sem' = sem
    PROVE  LockInv(l, held, leaving)'
<1>1. /\ \A u \in Thread : u # t => pc'[u] = pc[u] /\ pc[u] \notin held \cup leaving
      /\ pc'[t] = p /\ sem[l].value = 0
  BY DEF Moves, LockInv
<1>2. QED
  BY <1>1 DEF LockInv

LEMMA LockFreed ==
    ASSUME SemInv, pc \in [Thread -> Place], NEW l \in Lock, NEW held, NEW leaving,
           LockInv(l, held, leaving),
           NEW t \in Thread, NEW p \in Place, Moves(t, p), pc[t] \in leaving, p \notin held \cup leaving,
           V(l), holder' = holder
    PROVE  LockInv(l, held, leaving)'
<1>1. /\ \A u \in Thread : u # t => pc'[u] = pc[u] /\ pc[u] \notin held \cup leaving
      /\ pc'[t] = p /\ sem[l].value = 0
  BY DEF Moves, LockInv
<1>2. l \in Named
  BY DEF Named
<1>3. sem'[l].value = sem[l].value + 1
  BY <1>2, VPosts
<1>4. QED
  BY <1>1, <1>3 DEF LockInv

-----------------------------------------------------------------------------
(* Calls, and what the actions of one object leave alone.                  *)

LEMMA CallGoesOn ==
    ASSUME CallInv, NEW t \in Thread, NEW p \in Place, Moves(t, p), pc[t] # "idle",
           p = "idle" \/ Runs(cur[t].op, p), UNCHANGED <<cur, todo>>,
           got' = got \/ \E x : Returns(t, x)
    PROVE  CallInv'
<1> DEFINE Busy == {u \in Thread : pc[u] # "idle"}
<1>1. pc' \in [Thread -> Place] /\ pc'[t] = p /\ \A u \in Thread : u # t => pc'[u] = pc[u]
  BY DEF CallInv, Moves
<1>2. got' = [u \in Thread |-> got'[u]]
  BY DEF CallInv, Returns
<1>3. Busy' \subseteq Busy
  BY <1>1
<1>4. IsFiniteSet(Busy')
  BY <1>3, FS_Subset DEF CallInv
<1>5. \A u \in Thread : pc'[u] # "idle" => cur'[u] \in AllCalls /\ Runs(cur'[u].op, pc'[u])
  BY <1>1 DEF CallInv
<1>6. QED
  BY <1>1, <1>2, <1>4, <1>5 DEF CallInv

LEMMA CallWaits ==
    ASSUME CallInv, pc' = pc, UNCHANGED <<cur, got, todo>>
    PROVE  CallInv'
BY DEF CallInv, Runs

\* Thread t runs in `code`, and touches of the semaphores only those named, and
\* of the locks one.
OnlyIn(t, code, names, lock) ==
    /\ \A u \in Thread : u # t => pc'[u] = pc[u]
    /\ pc[t] \in code /\ pc'[t] \in code \cup {"idle"}
    /\ \A s \in Named : s \notin names => sem'[s] = sem[s]
    /\ \A l \in Lock : l # lock => holder'[l] = holder[l]

LEMMA LockApart ==
    ASSUME NEW t \in Thread, NEW code, NEW names, NEW lock, OnlyIn(t, code, names, lock),
           NEW l \in Lock, l \notin names, l # lock, NEW held, NEW leaving,
           LockInv(l, held, leaving), (held \cup leaving) \cap code = {},
           "idle" \notin held \cup leaving
    PROVE  LockInv(l, held, leaving)'
<1>1. sem'[l] = sem[l] /\ holder'[l] = holder[l]
  BY DEF OnlyIn, Named
<1>2. \A u \in Thread : pc'[u] \in held \cup leaving => u # t /\ pc'[u] = pc[u]
  BY DEF OnlyIn
<1>3. QED
  BY <1>1, <1>2 DEF LockInv

LEMMA DiskApart ==
    ASSUME DiskInv, UNCHANGED diskVars, sem'["disk.done"] = sem["disk.done"],
           \A u \in Thread : pc[u] = "disk.wait" => pc'[u] = "disk.wait"
    PROVE  DiskInv'
BY DEF DiskInv, diskVars, Count

LEMMA OutApart ==
    ASSUME OutInv, UNCHANGED outVars, sem'["out.done"] = sem["out.done"],
           \A u \in Thread : pc[u] = "out.wait" => pc'[u] = "out.wait"
    PROVE  OutInv'
BY DEF OutInv, outVars, Count

LEMMA InApart ==
    ASSUME InInv, UNCHANGED inVars, sem'["in.ready"] = sem["in.ready"],
           \A u \in Thread : pc[u] = "in.get" <=> pc'[u] = "in.get"
    PROVE  InInv'
BY DEF InInv, inVars, Count

LEMMA FileApart ==
    ASSUME FileInv, UNCHANGED fileVars
    PROVE  FileInv'
BY DEF FileInv, fileVars, tables

\* The places that ListInv speaks of.
Waiting == {"remove.unlock", "remove.sleep"}

LEMMA ListApart ==
    ASSUME ListInv, UNCHANGED listVars,
           \A u \in Thread : pc[u] \in Waiting => pc'[u] = pc[u],
           \A u \in Thread : pc'[u] \in {"remove.wait", "remove.take"} => pc'[u] = pc[u]
    PROVE  ListInv'
<1>1. list' = list /\ waitQueue' = waitQueue /\ waiter' = waiter
  BY DEF listVars
<1>2. \A i \in 1 .. Len(waitQueue) : waitQueue[i] \in Thread /\ pc[waitQueue[i]] \in Waiting
  BY DEF ListInv, Waiting
<1>3. QED
  BY <1>1, <1>2 DEF ListInv, Waiting

LEMMA CollectingFinite == ASSUME CallInv PROVE IsFiniteSet(Collecting)
<1>1. Collecting \subseteq {t \in Thread : pc[t] # "idle"}
  BY DEF Collecting
<1>2. QED
  BY <1>1, FS_Subset DEF CallInv

\* While no thread that collects goes, no item comes and nobody waits anew.
LEMMA SignalApart ==
    ASSUME CallInv, CallInv', ListInv, NoLostSignal, Collecting \subseteq Collecting',
           list' = list, waitQueue' = waitQueue
    PROVE  NoLostSignal'
<1>1. IsFiniteSet(Collecting) /\ IsFiniteSet(Collecting')
  <2>1. Collecting' \subseteq {t \in Thread : pc'[t] # "idle"}
    BY DEF Collecting
  <2>2. QED
    BY <2>1, CollectingFinite, FS_Subset DEF CallInv
<1>2. Cardinality(Collecting) <= Cardinality(Collecting')
  BY <1>1, FS_Subset
<1>3. /\ Cardinality(Collecting) \in Nat /\ Cardinality(Collecting') \in Nat
      /\ Len(list) \in Nat
  BY <1>1, FS_CardinalityType, LenProperties DEF ListInv
<1>4. QED
  BY <1>2, <1>3 DEF NoLostSignal

-----------------------------------------------------------------------------
(* Which call a place in the code belongs to.                              *)

LEMMA PlaceOfList ==
    ASSUME NEW op, NEW p, Runs(op, p)
    PROVE  /\ p \in {"append.acquire", "append.put", "append.signal"} => op = "Append"
           /\ p \in {"remove.acquire", "remove.test", "remove.take", "remove.wait",
                     "remove.unlock", "remove.sleep"} => op = "RemoveFront"
           /\ p \in {"apply.acquire", "apply.run"} => op = "Apply"
           /\ p \in ListCode => op \in {"Append", "RemoveFront", "Apply"}
BY DEF Runs, ListCode, ListHeld, ListLeaving, DiskCode, DiskHeld, DiskLeaving, OutCode, OutHeld,
       OutLeaving, InCode, InHeld, InLeaving, FileCode, FileOp

LEMMA PlaceOfDisk ==
    ASSUME NEW op, NEW p, Runs(op, p)
    PROVE  /\ p \in DiskCode <=> op \in {"ReadSector", "WriteSector"}
           /\ p \in OutCode <=> op \in {"PutChar", "PutInt"}
           /\ p \in InCode <=> op = "GetChar"
           /\ p \in FileCode <=> op \in FileOp
BY DEF Runs, ListCode, ListHeld, ListLeaving, DiskCode, DiskHeld, DiskLeaving, OutCode, OutHeld,
       OutLeaving, InCode, InHeld, InLeaving, FileCode, FileOp

-----------------------------------------------------------------------------
(* The synchronised list.                                                  *)

ListSide == CallInv /\ SemInv /\ ListLock /\ ListInv /\ NoLostSignal

\* A step that leaves the list and the condition as they are.
LEMMA ListPlain ==
    ASSUME ListSide, CallInv', NEW t \in Thread, NEW p \in Place, Moves(t, p), UNCHANGED <<listVars, cur>>,
           pc[t] \notin Waiting, p \notin {"remove.wait", "remove.take"},
           t \in Collecting => t \in Collecting'
    PROVE  ListInv' /\ NoLostSignal'
<1>1. pc'[t] = p /\ \A u \in Thread : u # t => pc'[u] = pc[u]
  BY DEF ListSide, CallInv, Moves
<1>2. ListInv'
  BY <1>1, ListApart DEF ListSide
<1>3. list' = list /\ waitQueue' = waitQueue
  BY DEF listVars
<1>4. Collecting \subseteq Collecting'
  BY <1>1, <1>3 DEF Collecting
<1>5. QED
  BY <1>2, <1>3, <1>4, SignalApart DEF ListSide

LEMMA ListAcquireStep ==
    ASSUME ListSide, NEW t \in Thread, ListAcquire(t), todo' = todo
    PROVE  ListSide' /\ OnlyIn(t, ListCode, {"list"}, "list")
<1>1. pc \in [Thread -> Place] /\ SemInv /\ ListLock /\ CallInv
  BY DEF ListSide, CallInv
<1>2. PICK p \in {"append.put", "remove.test", "apply.run"} :
         /\ Acquire(t, "list", p)
         /\ \/ p = "append.put" /\ pc[t] = "append.acquire"
            \/ p = "remove.test" /\ pc[t] = "remove.acquire"
            \/ p = "apply.run" /\ pc[t] = "apply.acquire"
  BY DEF ListAcquire, At
<1>3. UNCHANGED <<cur, got, listVars>>
  BY DEF ListAcquire, callVars
<1>4. pc[t] # "idle" /\ Runs(cur[t].op, p) /\ pc[t] \in ListCode /\ p \in ListCode /\ p \in Place
  <2>1. pc[t] # "idle" /\ pc[t] \in ListCode /\ p \in ListCode /\ p \in Place
    <3>1. pc[t] \in {"append.acquire", "remove.acquire", "apply.acquire"}
      BY <1>2
    <3>2. pc[t] # "idle" /\ pc[t] \in ListCode
      BY <3>1 DEF ListCode
    <3>3. p \in ListHeld
      BY DEF ListHeld
    <3>4. QED
      BY <3>2, <3>3 DEF ListCode, Place
  <2>2. Runs(cur[t].op, pc[t])
    BY <1>1, <2>1 DEF CallInv
  <2>3. Runs(cur[t].op, p)
    BY <1>2, <2>2, PlaceOfList DEF Runs
  <2>4. QED
    BY <2>1, <2>3
<1>5. "list" \in Lock /\ "list" \in Named
  BY DEF Lock, Named
<1>6. P(t, "list", p)
  BY <1>2 DEF Acquire
<1>7. /\ SemInv' /\ \A s \in Named : s # "list" => sem'[s] = sem[s]
      /\ \A l \in Lock : l # "list" => holder'[l] = holder[l]
      /\ pc' = pc \/ Moves(t, p)
  <2>1. /\ sem' \in [Named -> [value : Nat, queue : Seq(Thread)]]
        /\ \A s \in Named : s # "list" => sem'[s] = sem[s]
        /\ pc' = pc \/ Moves(t, p)
    BY <1>1, <1>4, <1>5, <1>6, PTakes
  <2>2. DOMAIN holder' = Lock /\ \A l \in Lock : l # "list" => holder'[l] = holder[l]
    BY <1>1, <1>2 DEF Acquire, SemInv
  <2>3. QED
    BY <2>1, <2>2 DEF SemInv
<1>8. ListLock'
  <2>1. p \in ListHeld /\ p \notin ListLeaving
    BY <1>2 DEF ListHeld, ListLeaving
  <2>2. QED
    BY <1>1, <1>2, <1>4, <1>5, <2>1, LockTaken DEF ListLock
<1>9. CASE pc' = pc
  <2>1. CallInv'
    BY <1>1, <1>3, <1>9, CallWaits
  <2>2. ListInv' /\ NoLostSignal'
    BY <1>3, <1>9 DEF ListSide, ListInv, NoLostSignal, Collecting, listVars
  <2>3. OnlyIn(t, ListCode, {"list"}, "list")
    BY <1>4, <1>7, <1>9 DEF OnlyIn
  <2>4. QED
    BY <1>7, <1>8, <2>1, <2>2, <2>3 DEF ListSide
<1>10. CASE Moves(t, p)
  <2>1. CallInv'
    BY <1>1, <1>3, <1>4, <1>10, CallGoesOn
  <2>2. pc'[t] = p /\ \A u \in Thread : u # t => pc'[u] = pc[u]
    BY <1>1, <1>10 DEF Moves
  <2>3. t \in Collecting => t \in Collecting'
    <3>1. cur' = cur /\ waitQueue' = waitQueue
      BY <1>3 DEF listVars
    <3>2. pc'[t] \notin {"idle", "list.disown", "list.unlock"} /\ pc[t] # "append.signal"
      BY <1>2, <2>2
    <3>3. (Contains(waitQueue, t) <=> Contains(waitQueue, t)') /\ cur'[t] = cur[t]
      BY <3>1 DEF Contains
    <3>4. t \in Collecting => cur[t].op = "RemoveFront" /\ ~ Contains(waitQueue, t)
      BY <3>2 DEF Collecting
    <3>5. cur'[t].op = "RemoveFront" /\ ~ Contains(waitQueue, t)' => t \in Collecting'
      BY <3>2 DEF Collecting
    <3>6. QED
      BY <3>3, <3>4, <3>5
  <2>4. ListInv' /\ NoLostSignal'
    <3>1. pc[t] \notin Waiting /\ p \notin {"remove.wait", "remove.take"}
      BY <1>2 DEF Waiting
    <3>2. UNCHANGED <<listVars, cur>>
      BY <1>3
    <3>3. QED
      BY <1>4, <1>10, <2>1, <2>3, <3>1, <3>2, ListPlain
  <2>5. OnlyIn(t, ListCode, {"list"}, "list")
    BY <1>4, <1>7, <2>2 DEF OnlyIn
  <2>6. QED
    BY <1>7, <1>8, <2>1, <2>4, <2>5 DEF ListSide
<1>11. QED
  BY <1>7, <1>9, <1>10

\* What every other statement of a list call has in common: the thread goes on
\* to p, under the lock or having given it back.
LEMMA ListMoves ==
    ASSUME ListSide, NEW t \in Thread, NEW p \in Place, Moves(t, p), pc[t] \in ListCode,
           p \in ListCode \cup {"idle"}, p = "idle" \/ Runs(cur[t].op, p),
           UNCHANGED <<cur, todo>>, got' = got \/ \E x : Returns(t, x),
           \/ UNCHANGED synchVars /\ (p \in ListHeld => pc[t] \in ListHeld)
                                  /\ (p \in ListLeaving => pc[t] \in ListLeaving)
           \/ sem' = sem /\ Disown(t, "list") /\ pc[t] \in ListHeld /\ p \in ListLeaving
           \/ V("list") /\ holder' = holder /\ pc[t] \in ListLeaving
                        /\ p \notin ListHeld \cup ListLeaving
    PROVE  CallInv' /\ SemInv' /\ ListLock' /\ OnlyIn(t, ListCode, {"list"}, "list")
<1>1. pc \in [Thread -> Place] /\ SemInv /\ ListLock /\ CallInv /\ "list" \in Lock /\ "list" \in Named
  BY DEF ListSide, CallInv, Lock, Named
<1>2. pc'[t] = p /\ \A u \in Thread : u # t => pc'[u] = pc[u]
  BY <1>1 DEF Moves
<1>3. pc[t] # "idle"
  BY DEF ListCode, ListHeld, ListLeaving
<1>4. CallInv'
  BY <1>1, <1>3, CallGoesOn
<1>5. CASE UNCHANGED synchVars /\ (p \in ListHeld => pc[t] \in ListHeld)
                               /\ (p \in ListLeaving => pc[t] \in ListLeaving)
  <2>1. sem' = sem /\ holder' = holder
    BY <1>5 DEF synchVars
  <2>2. ListLock'
    BY <1>1, <1>5, <2>1, LockKept DEF ListLock
  <2>3. QED
    BY <1>1, <1>2, <1>4, <2>1, <2>2 DEF SemInv, OnlyIn
<1>6. CASE sem' = sem /\ Disown(t, "list") /\ pc[t] \in ListHeld /\ p \in ListLeaving
  <2>1. p \notin ListHeld
    BY <1>6 DEF ListHeld, ListLeaving
  <2>2. ListLock'
    BY <1>1, <1>6, <2>1, LockDisowned DEF ListLock
  <2>3. /\ DOMAIN holder' = Lock
        /\ \A l \in Lock : l # "list" => holder'[l] = holder[l]
    BY <1>1, <1>6 DEF Disown, SemInv
  <2>4. QED
    BY <1>1, <1>2, <1>4, <1>6, <2>2, <2>3 DEF SemInv, OnlyIn
<1>7. CASE V("list") /\ holder' = holder /\ pc[t] \in ListLeaving
             /\ p \notin ListHeld \cup ListLeaving
  <2>1. ListLock'
    BY <1>1, <1>7, LockFreed DEF ListLock
  <2>2. /\ sem' \in [Named -> [value : Nat, queue : Seq(Thread)]]
        /\ \A s \in Named : s # "list" => sem'[s] = sem[s]
    BY <1>1, <1>7, VPosts
  <2>3. QED
    BY <1>1, <1>2, <1>4, <1>7, <2>1, <2>2 DEF SemInv, OnlyIn
<1>8. QED
  BY <1>5, <1>6, <1>7

\* AppendPut adds an item and a thread that will signal.
LEMMA AppendPutStep ==
    ASSUME ListSide, NEW t \in Thread, AppendPut(t), todo' = todo
    PROVE  ListSide' /\ OnlyIn(t, ListCode, {"list"}, "list")
<1> DEFINE p == "append.signal"
<1>1. /\ pc[t] = "append.put" /\ Moves(t, p) /\ list' = Append(list, cur[t].arg)
      /\ UNCHANGED <<synchVars, cur, got, waitQueue, waiter>>
  BY DEF AppendPut, At, Goto, Moves, callVars
<1>2. /\ pc \in [Thread -> Place] /\ ListInv /\ CallInv /\ NoLostSignal
      /\ Runs(cur[t].op, pc[t]) /\ cur[t] \in AllCalls
  BY <1>1 DEF ListSide, CallInv
<1>3. cur[t].op = "Append"
  BY <1>1, <1>2, PlaceOfList
<1>4. /\ pc[t] \in ListCode /\ p \in ListCode /\ p \in Place /\ Runs(cur[t].op, p)
      /\ pc[t] \in ListHeld
  BY <1>1, <1>3 DEF ListCode, ListHeld, Place, Runs
<1>5. CallInv' /\ SemInv' /\ ListLock' /\ OnlyIn(t, ListCode, {"list"}, "list")
  <2>1. p \notin ListLeaving
    BY DEF ListLeaving
  <2>2. QED
    BY <1>1, <1>4, <2>1, ListMoves
<1>6. pc'[t] = p /\ \A u \in Thread : u # t => pc'[u] = pc[u]
  BY <1>1, <1>2 DEF Moves
<1>7. list \in Seq(Item) /\ list' \in Seq(Item) /\ Len(list') = Len(list) + 1 /\ list' # <<>>
  <2>1. cur[t].arg \in Item
    BY <1>2, <1>3, WorkloadAssumption DEF IsRequest
  <2>2. list \in Seq(Item)
    BY <1>2 DEF ListInv
  <2>3. QED
    BY <1>1, <2>1, <2>2
<1>8. ListInv'
  <2>1. \A u \in Thread : pc'[u] # "remove.wait"
    <3>1. \A u \in Thread : pc[u] = "remove.wait" => u = t
      BY <1>4 DEF ListSide, ListLock, LockInv, ListHeld
    <3>2. QED
      BY <1>1, <1>6, <3>1
  <2>2. \A i \in 1 .. Len(waitQueue) : /\ waitQueue[i] \in Thread
                                       /\ pc[waitQueue[i]] \in {"remove.unlock", "remove.sleep"}
    BY <1>2 DEF ListInv
  <2>3. \A i \in 1 .. Len(waitQueue) : pc'[waitQueue[i]] = pc[waitQueue[i]]
    BY <1>1, <1>6, <2>2
  <2>4. \A i \in 1 .. Len(waitQueue') :
          /\ pc'[waitQueue'[i]] \in {"remove.unlock", "remove.sleep"}
          /\ waiter'[waitQueue'[i]].value = 0
    BY <1>1, <1>2, <2>2, <2>3 DEF ListInv
  <2>5. \A i, j \in 1 .. Len(waitQueue') : waitQueue'[i] = waitQueue'[j] => i = j
    BY <1>1, <1>2 DEF ListInv
  <2>6. waitQueue' \in Seq(Thread) /\ waiter' \in [Thread -> [value : Nat, queue : Seq(Thread)]]
    BY <1>1, <1>2 DEF ListInv
  <2>7. QED
    BY <1>7, <2>1, <2>4, <2>5, <2>6 DEF ListInv
<1>9. NoLostSignal'
  <2>1. t \notin Collecting
    BY <1>1, <1>2, <1>3 DEF Collecting
  <2>2. Collecting' = Collecting \cup {t}
    BY <1>1, <1>6 DEF Collecting
  <2>3. Cardinality(Collecting') = Cardinality(Collecting) + 1 /\ Cardinality(Collecting) \in Nat
    BY <1>2, <2>1, <2>2, CollectingFinite, FS_AddElement, FS_CardinalityType
  <2>4. Len(list) \in Nat
    BY <1>7
  <2>5. QED
    BY <1>1, <1>2, <1>7, <2>3, <2>4 DEF NoLostSignal
<1>10. QED
  BY <1>5, <1>8, <1>9 DEF ListSide

\* The threads on the condition, which are none that collects.
LEMMA Enlisted ==
    ASSUME ListInv
    PROVE  \A t \in Thread : Contains(waitQueue, t) =>
              pc[t] \in {"remove.unlock", "remove.sleep"} /\ waiter[t].value = 0
BY DEF ListInv, Contains

LEMMA WaitersWait ==
    ASSUME ListInv, NEW i \in 1 .. Len(waitQueue)
    PROVE  /\ waitQueue[i] \in Thread
           /\ pc[waitQueue[i]] \in {"remove.unlock", "remove.sleep"}
           /\ waiter[waitQueue[i]].value = 0
<1>1. waitQueue \in Seq(Thread)
  BY DEF ListInv
<1>2. waitQueue[i] \in Thread
  BY <1>1
<1>3. QED
  BY <1>2 DEF ListInv

LEMMA AppendSignalStep ==
    ASSUME ListSide, NEW t \in Thread, AppendSignal(t), todo' = todo
    PROVE  ListSide' /\ OnlyIn(t, ListCode, {"list"}, "list")
<1> DEFINE p == "list.disown"
<1>1. /\ pc[t] = "append.signal" /\ Moves(t, p) /\ list' = list
      /\ UNCHANGED <<synchVars, cur, got>>
  BY DEF AppendSignal, At, Goto, Moves, callVars
<1>2. /\ pc \in [Thread -> Place] /\ ListInv /\ CallInv /\ NoLostSignal
      /\ Runs(cur[t].op, pc[t])
  BY <1>1 DEF ListSide, CallInv
<1>3. cur[t].op = "Append"
  BY <1>1, <1>2, PlaceOfList
<1>4. /\ pc[t] \in ListCode /\ p \in ListCode /\ p \in Place /\ Runs(cur[t].op, p)
      /\ pc[t] \in ListHeld
  BY <1>1, <1>3 DEF ListCode, ListHeld, Place, Runs
<1>5. CallInv' /\ SemInv' /\ ListLock' /\ OnlyIn(t, ListCode, {"list"}, "list")
  <2>1. p \notin ListLeaving
    BY DEF ListLeaving
  <2>2. QED
    BY <1>1, <1>4, <2>1, ListMoves
<1>6. pc'[t] = p /\ \A u \in Thread : u # t => pc'[u] = pc[u]
  BY <1>1, <1>2 DEF Moves
<1>7. CASE waitQueue = <<>>
  <2>1. UNCHANGED <<listVars, cur>> /\ waitQueue' = <<>>
    BY <1>1, <1>7 DEF AppendSignal, listVars
  <2>2. ListInv'
    BY <1>1, <1>2, <1>6, <2>1, ListApart DEF Waiting
  <2>3. QED
    BY <1>5, <2>1, <2>2 DEF ListSide, NoLostSignal
<1>8. CASE waitQueue # <<>>
  <2>0. waitQueue \in Seq(Thread) /\ Len(waitQueue) \in Nat \ {0} /\ Head(waitQueue) \in Thread
    BY <1>2, <1>8 DEF ListInv
  <2> PICK h \in Thread : h = Head(waitQueue)
    BY <2>0
  <2>1. waitQueue' = Tail(waitQueue) /\ waiter' = [waiter EXCEPT ![h] = Up(waiter[h])]
    BY <1>8 DEF AppendSignal
  <2>2. /\ waitQueue \in Seq(Thread) /\ Len(waitQueue) \in Nat \ {0}
        /\ h = waitQueue[1]
        /\ waitQueue' \in Seq(Thread) /\ Len(waitQueue') = Len(waitQueue) - 1
        /\ \A i \in 1 .. Len(waitQueue') : waitQueue'[i] = waitQueue[i + 1]
    BY <1>8, <2>0, <2>1
  <2>3. \A i \in 1 .. Len(waitQueue') : /\ waitQueue'[i] # h
                                        /\ i + 1 \in 1 .. Len(waitQueue)
    <3>1. SUFFICES ASSUME NEW i \in 1 .. Len(waitQueue')
                   PROVE  waitQueue'[i] # h /\ i + 1 \in 1 .. Len(waitQueue)
      OBVIOUS
    <3>2. i + 1 \in 1 .. Len(waitQueue) /\ 1 \in 1 .. Len(waitQueue) /\ i + 1 # 1
      BY <2>2
    <3>3. waitQueue[i + 1] # waitQueue[1]
      BY <1>2, <3>2 DEF ListInv
    <3>4. QED
      BY <2>2, <3>2, <3>3
  <2>4. \A i \in 1 .. Len(waitQueue) : /\ waitQueue[i] \in Thread /\ waitQueue[i] # t
                                       /\ pc[waitQueue[i]] \in {"remove.unlock", "remove.sleep"}
                                       /\ waiter[waitQueue[i]].value = 0
    BY <1>1, <1>2, WaitersWait
  <2>5. ListInv'
    <3>1. waiter' \in [Thread -> [value : Nat, queue : Seq(Thread)]]
      BY <1>2, <2>1, <2>2, UpType DEF ListInv
    <3>2. \A u \in Thread : u # h => waiter'[u] = waiter[u]
      BY <1>2, <2>1 DEF ListInv
    <3>3. \A i \in 1 .. Len(waitQueue') :
             /\ pc'[waitQueue'[i]] \in {"remove.unlock", "remove.sleep"}
             /\ waiter'[waitQueue'[i]].value = 0
      BY <1>6, <2>2, <2>3, <2>4, <3>2
    <3>4. \A i, j \in 1 .. Len(waitQueue') : waitQueue'[i] = waitQueue'[j] => i = j
      <4>1. SUFFICES ASSUME NEW i \in 1 .. Len(waitQueue'), NEW j \in 1 .. Len(waitQueue'),
                            waitQueue[i + 1] = waitQueue[j + 1]
                     PROVE  i = j
        BY <2>2
      <4>2. i + 1 \in 1 .. Len(waitQueue) /\ j + 1 \in 1 .. Len(waitQueue)
        BY <2>3
      <4>3. i + 1 = j + 1
        BY <1>2, <4>1, <4>2 DEF ListInv
      <4>4. QED
        BY <4>3
    <3>5. \A u \in Thread : pc'[u] \in {"remove.wait", "remove.take"} => pc'[u] = pc[u]
      BY <1>6
    <3>6. QED
      BY <1>1, <1>2, <2>2, <3>1, <3>3, <3>4, <3>5 DEF ListInv
  <2>6. NoLostSignal'
    <3>1. t \in Collecting
      BY <1>1 DEF Collecting
    <3>2. h \notin Collecting /\ h # t /\ cur[h].op = "RemoveFront" /\ Contains(waitQueue, h)
      <4>1. pc[h] \in {"remove.unlock", "remove.sleep"} /\ h # t
        BY <2>2, <2>4
      <4>2. Contains(waitQueue, h)
        BY <2>2 DEF Contains
      <4>3. cur[h].op = "RemoveFront"
        <5>1. Runs(cur[h].op, pc[h])
          BY <1>2, <2>2, <4>1 DEF CallInv
        <5>2. QED
          BY <4>1, <5>1, PlaceOfList
      <4>4. QED
        BY <4>1, <4>2, <4>3 DEF Collecting
    <3>3. ~ Contains(waitQueue, h)'
      BY <2>3 DEF Contains
    <3>4. \A u \in Thread : u # h => (Contains(waitQueue, u)' <=> Contains(waitQueue, u))
      <4>1. SUFFICES ASSUME NEW u \in Thread, u # h
                     PROVE  Contains(waitQueue, u)' <=> Contains(waitQueue, u)
        OBVIOUS
      <4>2. ASSUME NEW i \in 1 .. Len(waitQueue), waitQueue[i] = u
            PROVE  \E j \in 1 .. Len(waitQueue') : waitQueue'[j] = u
        <5>1. i # 1
          BY <2>2, <4>1, <4>2
        <5>2. i - 1 \in 1 .. Len(waitQueue')
          BY <2>2, <5>1
        <5>3. waitQueue'[i - 1] = waitQueue[i]
          BY <2>2, <5>2
        <5>4. QED
          BY <4>2, <5>2, <5>3
      <4>3. ASSUME NEW j \in 1 .. Len(waitQueue'), waitQueue'[j] = u
            PROVE  \E i \in 1 .. Len(waitQueue) : waitQueue[i] = u
        BY <2>2, <2>3, <4>3
      <4>4. QED
        BY <4>2, <4>3 DEF Contains
    <3>5. Collecting' = (Collecting \ {t}) \cup {h}
      <4>1. pc'[h] = pc[h] /\ pc[h] \in {"remove.unlock", "remove.sleep"}
        BY <1>6, <2>2, <2>4
      <4>2. h \in Collecting'
        BY <1>1, <2>2, <3>2, <3>3, <4>1 DEF Collecting
      <4>3. t \notin Collecting'
        BY <1>1, <1>3, <1>6 DEF Collecting
      <4>4. \A u \in Thread : u # h /\ u # t => (u \in Collecting' <=> u \in Collecting)
        BY <1>1, <1>6, <3>4 DEF Collecting
      <4>5. QED
        BY <2>2, <3>2, <4>2, <4>3, <4>4 DEF Collecting
    <3>6. IsFiniteSet(Collecting) /\ Cardinality(Collecting) \in Nat
      BY <1>2, CollectingFinite, FS_CardinalityType
    <3>7. /\ IsFiniteSet(Collecting \ {t})
          /\ Cardinality(Collecting \ {t}) = Cardinality(Collecting) - 1
      BY <3>1, <3>6, FS_RemoveElement
    <3>8. Cardinality(Collecting') = Cardinality(Collecting \ {t}) + 1
      BY <3>2, <3>5, <3>7, FS_AddElement
    <3>9. Cardinality(Collecting') = Cardinality(Collecting)
      BY <3>6, <3>7, <3>8
    <3>10. QED
      BY <1>1, <1>2, <1>8, <3>9 DEF NoLostSignal
  <2>7. QED
    BY <1>5, <2>5, <2>6 DEF ListSide
<1>9. QED
  BY <1>7, <1>8

LEMMA RemoveTestStep ==
    ASSUME ListSide, NEW t \in Thread, RemoveTest(t), todo' = todo
    PROVE  ListSide' /\ OnlyIn(t, ListCode, {"list"}, "list")
<1> DEFINE p == IF list = <<>> THEN "remove.wait" ELSE "remove.take"
<1>1. pc[t] = "remove.test" /\ Moves(t, p) /\ UNCHANGED <<synchVars, cur, got, listVars>>
  BY DEF RemoveTest, At, Goto, Moves, callVars
<1>2. /\ pc \in [Thread -> Place] /\ ListInv /\ CallInv /\ NoLostSignal
      /\ Runs(cur[t].op, pc[t])
  BY <1>1 DEF ListSide, CallInv
<1>3. cur[t].op = "RemoveFront"
  BY <1>1, <1>2, PlaceOfList
<1>4. /\ pc[t] \in ListCode /\ p \in ListCode /\ p \in Place /\ Runs(cur[t].op, p)
      /\ pc[t] \in ListHeld
  <2>1. p \in {"remove.wait", "remove.take"}
    OBVIOUS
  <2> HIDE DEF p
  <2>2. QED
    BY <1>1, <1>3, <2>1 DEF ListCode, ListHeld, Place, Runs
<1>5. CallInv' /\ SemInv' /\ ListLock' /\ OnlyIn(t, ListCode, {"list"}, "list")
  <2>1. p \notin ListLeaving
    BY DEF ListLeaving
  <2> HIDE DEF p
  <2>2. QED
    BY <1>1, <1>4, <2>1, ListMoves
<1>6. pc'[t] = p /\ \A u \in Thread : u # t => pc'[u] = pc[u]
  BY <1>1, <1>2 DEF Moves
<1>7. list' = list /\ waitQueue' = waitQueue /\ waiter' = waiter
  BY <1>1 DEF listVars
<1>8. ListInv'
  <2>1. \A i \in 1 .. Len(waitQueue) : /\ waitQueue[i] \in Thread
                                       /\ pc[waitQueue[i]] \in {"remove.unlock", "remove.sleep"}
    BY <1>2 DEF ListInv
  <2>2. \A i \in 1 .. Len(waitQueue) : pc'[waitQueue[i]] = pc[waitQueue[i]]
    BY <1>1, <1>6, <2>1
  <2>3. \A u \in Thread : pc'[u] = "remove.wait" => list = <<>>
    BY <1>2, <1>6 DEF ListInv
  <2>4. \A u \in Thread : pc'[u] = "remove.take" => list # <<>>
    BY <1>2, <1>6 DEF ListInv
  <2>5. QED
    BY <1>2, <1>7, <2>2, <2>3, <2>4 DEF ListInv
<1>9. NoLostSignal'
  <2>1. pc'[t] \in {"remove.wait", "remove.take"}
    BY <1>6
  <2>2. \A u \in Thread : Contains(waitQueue, u)' <=> Contains(waitQueue, u)
    BY <1>7 DEF Contains
  <2>3. t \in Collecting <=> t \in Collecting'
    BY <1>1, <1>3, <2>1, <2>2 DEF Collecting
  <2>4. Collecting \subseteq Collecting'
    BY <1>1, <1>6, <2>2, <2>3 DEF Collecting
  <2>5. QED
    BY <1>2, <1>5, <1>7, <2>4, SignalApart
<1>10. QED
  BY <1>5, <1>8, <1>9 DEF ListSide

LEMMA RemoveTakeStep ==
    ASSUME ListSide, NEW t \in Thread, RemoveTake(t), todo' = todo
    PROVE  ListSide' /\ OnlyIn(t, ListCode, {"list"}, "list")
<1> DEFINE p == "list.disown"
<1>1. /\ pc[t] = "remove.take" /\ Moves(t, p) /\ list' = Tail(list)
      /\ Returns(t, Head(list)) /\ UNCHANGED <<synchVars, cur, waitQueue, waiter>>
  BY DEF RemoveTake, At, Goto, Moves
<1>2. /\ pc \in [Thread -> Place] /\ ListInv /\ CallInv /\ NoLostSignal
      /\ Runs(cur[t].op, pc[t])
  BY <1>1 DEF ListSide, CallInv
<1>3. cur[t].op = "RemoveFront"
  BY <1>1, <1>2, PlaceOfList
<1>4. /\ pc[t] \in ListCode /\ p \in ListCode /\ p \in Place /\ Runs(cur[t].op, p)
      /\ pc[t] \in ListHeld
  BY <1>1, <1>3 DEF ListCode, ListHeld, Place, Runs
<1>5. CallInv' /\ SemInv' /\ ListLock' /\ OnlyIn(t, ListCode, {"list"}, "list")
  <2>1. p \notin ListLeaving
    BY DEF ListLeaving
  <2>2. QED
    BY <1>1, <1>4, <2>1, ListMoves
<1>6. pc'[t] = p /\ \A u \in Thread : u # t => pc'[u] = pc[u]
  BY <1>1, <1>2 DEF Moves
<1>7. /\ list' \in Seq(Item) /\ Len(list') = Len(list) - 1 /\ Len(list) \in Nat \ {0}
  <2>1. list \in Seq(Item) /\ list # <<>>
    BY <1>1, <1>2 DEF ListInv
  <2>2. QED
    BY <1>1, <2>1
<1>8. \A u \in Thread : u # t => pc[u] \notin {"remove.wait", "remove.take"}
  BY <1>4 DEF ListSide, ListLock, LockInv, ListHeld
<1>9. ListInv'
  <2>1. \A i \in 1 .. Len(waitQueue) : /\ waitQueue[i] \in Thread
                                       /\ pc[waitQueue[i]] \in {"remove.unlock", "remove.sleep"}
    BY <1>2 DEF ListInv
  <2>2. \A i \in 1 .. Len(waitQueue) : pc'[waitQueue[i]] = pc[waitQueue[i]]
    BY <1>1, <1>6, <2>1
  <2>3. \A u \in Thread : pc'[u] \notin {"remove.wait", "remove.take"}
    BY <1>6, <1>8
  <2>4. QED
    BY <1>1, <1>2, <1>7, <2>2, <2>3 DEF ListInv
<1>10. NoLostSignal'
  <2>1. \A u \in Thread : Contains(waitQueue, u)' <=> Contains(waitQueue, u)
    BY <1>1 DEF Contains
  <2>2. ~ Contains(waitQueue, t)
    BY <1>1, <1>2, Enlisted
  <2>3. t \in Collecting
    BY <1>1, <1>3, <2>2 DEF Collecting
  <2>4. Collecting' = Collecting \ {t}
    BY <1>1, <1>6, <2>1 DEF Collecting
  <2>5. IsFiniteSet(Collecting) /\ Cardinality(Collecting) \in Nat
    BY <1>2, CollectingFinite, FS_CardinalityType
  <2>6. Cardinality(Collecting') = Cardinality(Collecting) - 1
    BY <2>3, <2>4, <2>5, FS_RemoveElement
  <2>7. QED
    BY <1>1, <1>2, <1>7, <2>5, <2>6 DEF NoLostSignal
<1>11. QED
  BY <1>5, <1>9, <1>10 DEF ListSide

LEMMA RemoveWaitStep ==
    ASSUME ListSide, NEW t \in Thread, RemoveWait(t), todo' = todo
    PROVE  ListSide' /\ OnlyIn(t, ListCode, {"list"}, "list")
<1> DEFINE p == "remove.unlock"
<1>1. /\ pc[t] = "remove.wait" /\ Moves(t, p) /\ list' = list
      /\ waitQueue' = Append(waitQueue, t)
      /\ waiter' = [waiter EXCEPT ![t] = NewSemaphore(0)]
      /\ Disown(t, "list") /\ UNCHANGED <<sem, cur, got>>
  BY DEF RemoveWait, At, Goto, Moves, callVars
<1>2. /\ pc \in [Thread -> Place] /\ ListInv /\ CallInv /\ NoLostSignal
      /\ Runs(cur[t].op, pc[t])
  BY <1>1 DEF ListSide, CallInv
<1>3. cur[t].op = "RemoveFront"
  BY <1>1, <1>2, PlaceOfList
<1>4. /\ pc[t] \in ListCode /\ p \in ListCode /\ p \in Place /\ Runs(cur[t].op, p)
      /\ pc[t] \in ListHeld /\ p \in ListLeaving
  BY <1>1, <1>3 DEF ListCode, ListHeld, ListLeaving, Place, Runs
<1>5. CallInv' /\ SemInv' /\ ListLock' /\ OnlyIn(t, ListCode, {"list"}, "list")
  BY <1>1, <1>4, ListMoves
<1>6. pc'[t] = p /\ \A u \in Thread : u # t => pc'[u] = pc[u]
  BY <1>1, <1>2 DEF Moves
<1>7. list = <<>>
  BY <1>1, <1>2 DEF ListInv
<1>8. ListInv'
  <2>1. /\ waitQueue \in Seq(Thread) /\ waitQueue' \in Seq(Thread)
        /\ Len(waitQueue') = Len(waitQueue) + 1 /\ Len(waitQueue) \in Nat
        /\ waitQueue'[Len(waitQueue) + 1] = t
        /\ \A i \in 1 .. Len(waitQueue) : waitQueue'[i] = waitQueue[i]
    BY <1>1, <1>2 DEF ListInv
  <2>2. waiter' \in [Thread -> [value : Nat, queue : Seq(Thread)]] /\ waiter'[t].value = 0
        /\ \A u \in Thread : u # t => waiter'[u] = waiter[u]
    <3>1. NewSemaphore(0) \in [value : Nat, queue : Seq(Thread)] /\ NewSemaphore(0).value = 0
      BY DEF NewSemaphore
    <3>2. QED
      BY <1>1, <1>2, <3>1 DEF ListInv
  <2>3. \A i \in 1 .. Len(waitQueue) : /\ waitQueue[i] \in Thread /\ waitQueue[i] # t
                                       /\ pc[waitQueue[i]] \in {"remove.unlock", "remove.sleep"}
                                       /\ waiter[waitQueue[i]].value = 0
    BY <1>1, <1>2, WaitersWait
  <2>4. \A i \in 1 .. Len(waitQueue') : i \in 1 .. Len(waitQueue) \/ i = Len(waitQueue) + 1
    BY <2>1
  <2>5. \A i \in 1 .. Len(waitQueue') :
             /\ pc'[waitQueue'[i]] \in {"remove.unlock", "remove.sleep"}
             /\ waiter'[waitQueue'[i]].value = 0
    <3>1. SUFFICES ASSUME NEW i \in 1 .. Len(waitQueue')
                   PROVE  /\ pc'[waitQueue'[i]] \in {"remove.unlock", "remove.sleep"}
                          /\ waiter'[waitQueue'[i]].value = 0
      OBVIOUS
    <3>2. CASE i \in 1 .. Len(waitQueue)
      <4>1. /\ waitQueue[i] \in Thread /\ waitQueue[i] # t /\ waiter[waitQueue[i]].value = 0
            /\ pc[waitQueue[i]] \in {"remove.unlock", "remove.sleep"}
        BY <2>3, <3>2
      <4>2. pc'[waitQueue[i]] = pc[waitQueue[i]] /\ waiter'[waitQueue[i]] = waiter[waitQueue[i]]
        BY <1>6, <2>2, <4>1
      <4>3. QED
        BY <2>1, <3>2, <4>1, <4>2
    <3>3. CASE i = Len(waitQueue) + 1
      BY <1>6, <2>1, <2>2, <3>3
    <3>4. QED
      BY <2>4, <3>2, <3>3
  <2>6. \A i, j \in 1 .. Len(waitQueue') : waitQueue'[i] = waitQueue'[j] => i = j
    <3>1. \A i, j \in 1 .. Len(waitQueue) : waitQueue[i] = waitQueue[j] => i = j
      BY <1>2 DEF ListInv
    <3>2. QED
      BY <2>1, <2>3, <2>4, <3>1
  <2>7. \A u \in Thread : pc'[u] \in {"remove.wait", "remove.take"} => pc'[u] = pc[u]
    BY <1>6
  <2>8. /\ \A u \in Thread : pc'[u] = "remove.wait" => list' = <<>>
        /\ \A u \in Thread : pc'[u] = "remove.take" => list' # <<>>
        /\ list' \in Seq(Item)
    BY <1>1, <1>2, <1>7, <2>7 DEF ListInv
  <2>9. QED
    BY <2>1, <2>2, <2>5, <2>6, <2>8 DEF ListInv
<1>9. NoLostSignal'
  <2>1. Len(list') = 0
    BY <1>1, <1>7
  <2>2. IsFiniteSet(Collecting')
    <3>1. Collecting' \subseteq {u \in Thread : pc'[u] # "idle"}
      BY DEF Collecting
    <3>2. QED
      BY <1>5, <3>1, FS_Subset DEF CallInv
  <2>3. Cardinality(Collecting') \in Nat
    BY <2>2, FS_CardinalityType
  <2>4. QED
    BY <2>1, <2>3 DEF NoLostSignal
<1>10. QED
  BY <1>5, <1>8, <1>9 DEF ListSide

LEMMA RemoveUnlockStep ==
    ASSUME ListSide, NEW t \in Thread, RemoveUnlock(t), todo' = todo
    PROVE  ListSide' /\ OnlyIn(t, ListCode, {"list"}, "list")
<1> DEFINE p == "remove.sleep"
<1>1. /\ pc[t] = "remove.unlock" /\ Moves(t, p) /\ V("list")
      /\ UNCHANGED <<holder, cur, got, listVars>>
  BY DEF RemoveUnlock, At, Goto, Moves, callVars
<1>2. /\ pc \in [Thread -> Place] /\ ListInv /\ CallInv /\ NoLostSignal
      /\ Runs(cur[t].op, pc[t])
  BY <1>1 DEF ListSide, CallInv
<1>3. cur[t].op = "RemoveFront"
  BY <1>1, <1>2, PlaceOfList
<1>4. /\ pc[t] \in ListCode /\ p \in ListCode /\ p \in Place /\ Runs(cur[t].op, p)
      /\ pc[t] \in ListLeaving /\ p \notin ListHeld \cup ListLeaving
  BY <1>1, <1>3 DEF ListCode, ListHeld, ListLeaving, Place, Runs
<1>5. CallInv' /\ SemInv' /\ ListLock' /\ OnlyIn(t, ListCode, {"list"}, "list")
  BY <1>1, <1>4, ListMoves
<1>6. pc'[t] = p /\ \A u \in Thread : u # t => pc'[u] = pc[u]
  BY <1>1, <1>2 DEF Moves
<1>7. list' = list /\ waitQueue' = waitQueue /\ waiter' = waiter
  BY <1>1 DEF listVars
<1>8. ListInv'
  <2>1. \A i \in 1 .. Len(waitQueue) : pc'[waitQueue[i]] \in {"remove.unlock", "remove.sleep"}
    BY <1>2, <1>6, WaitersWait
  <2>2. \A u \in Thread : pc'[u] \in {"remove.wait", "remove.take"} => pc'[u] = pc[u]
    BY <1>6
  <2>3. QED
    BY <1>2, <1>7, <2>1, <2>2 DEF ListInv
<1>9. NoLostSignal'
  <2>1. \A u \in Thread : Contains(waitQueue, u)' <=> Contains(waitQueue, u)
    BY <1>7 DEF Contains
  <2>2. t \in Collecting <=> t \in Collecting'
    BY <1>1, <1>3, <1>6, <2>1 DEF Collecting
  <2>3. Collecting \subseteq Collecting'
    BY <1>1, <1>6, <2>1, <2>2 DEF Collecting
  <2>4. QED
    BY <1>2, <1>5, <1>7, <2>3, SignalApart
<1>10. QED
  BY <1>5, <1>8, <1>9 DEF ListSide

\* A thread that was signalled leaves its semaphore; one that was not sleeps.
LEMMA RemoveSleepStep ==
    ASSUME ListSide, NEW t \in Thread, RemoveSleep(t), todo' = todo
    PROVE  ListSide' /\ OnlyIn(t, ListCode, {"list"}, "list")
<1> DEFINE p == "remove.acquire"
<1>1. /\ pc[t] = "remove.sleep"
      /\ waiter' = [waiter EXCEPT ![t] = Down(waiter[t], t)]
      /\ UNCHANGED <<sem, holder, cur, got, list, waitQueue>>
      /\ \/ waiter[t].value = 0 /\ pc' = pc
         \/ waiter[t].value # 0 /\ Moves(t, p)
  BY DEF RemoveSleep, At, Moves, callVars, synchVars
<1>2. /\ pc \in [Thread -> Place] /\ ListInv /\ CallInv /\ NoLostSignal /\ SemInv /\ ListLock
      /\ Runs(cur[t].op, pc[t])
  BY <1>1 DEF ListSide, CallInv
<1>3. cur[t].op = "RemoveFront"
  BY <1>1, <1>2, PlaceOfList
<1>4. /\ pc[t] \in ListCode /\ p \in ListCode /\ p \in Place /\ Runs(cur[t].op, p)
      /\ p \notin ListHeld /\ p \notin ListLeaving
  BY <1>1, <1>3 DEF ListCode, ListHeld, ListLeaving, Place, Runs
<1>5. /\ waiter' \in [Thread -> [value : Nat, queue : Seq(Thread)]]
      /\ \A u \in Thread : u # t => waiter'[u] = waiter[u]
      /\ waiter'[t].value = IF waiter[t].value = 0 THEN 0 ELSE waiter[t].value - 1
  <2>1. waiter \in [Thread -> [value : Nat, queue : Seq(Thread)]]
    BY <1>2 DEF ListInv
  <2>2. /\ Down(waiter[t], t) \in [value : Nat, queue : Seq(Thread)]
        /\ Down(waiter[t], t).value = IF waiter[t].value = 0 THEN 0 ELSE waiter[t].value - 1
    BY <2>1, DownType
  <2>3. QED
    BY <1>1, <2>1, <2>2
<1>6. \A u \in Thread : Contains(waitQueue, u)' <=> Contains(waitQueue, u)
  BY <1>1 DEF Contains
<1>7. CASE waiter[t].value = 0 /\ pc' = pc
  <2>1. CallInv'
    BY <1>1, <1>2, <1>7, CallWaits
  <2>2. ListLock' /\ SemInv'
    BY <1>1, <1>2, <1>7 DEF ListLock, LockInv, SemInv
  <2>3. OnlyIn(t, ListCode, {"list"}, "list")
    BY <1>1, <1>4, <1>7 DEF OnlyIn
  <2>4. \A u \in Thread : waiter'[u].value = waiter[u].value
    BY <1>5, <1>7
  <2>5. ListInv'
    <3>1. \A i \in 1 .. Len(waitQueue) : waiter'[waitQueue[i]].value = 0
      BY <1>2, <2>4, WaitersWait
    <3>2. QED
      BY <1>1, <1>2, <1>5, <1>7, <3>1 DEF ListInv
  <2>6. NoLostSignal'
    BY <1>1, <1>2, <1>7 DEF NoLostSignal, Collecting
  <2>7. QED
    BY <2>1, <2>2, <2>3, <2>5, <2>6 DEF ListSide
<1>8. CASE waiter[t].value # 0 /\ Moves(t, p)
  <2>1. UNCHANGED synchVars
    BY <1>1 DEF synchVars
  <2>2. CallInv' /\ SemInv' /\ ListLock' /\ OnlyIn(t, ListCode, {"list"}, "list")
    BY <1>1, <1>4, <1>8, <2>1, ListMoves
  <2>3. pc'[t] = p /\ \A u \in Thread : u # t => pc'[u] = pc[u]
    BY <1>2, <1>8 DEF Moves
  <2>4. ListInv'
    <3>1. \A i \in 1 .. Len(waitQueue) : waitQueue[i] # t
      BY <1>2, <1>8, WaitersWait
    <3>2. \A i \in 1 .. Len(waitQueue) :
             /\ pc'[waitQueue[i]] \in {"remove.unlock", "remove.sleep"}
             /\ waiter'[waitQueue[i]].value = 0
      BY <1>2, <1>5, <2>3, <3>1, WaitersWait
    <3>3. \A u \in Thread : pc'[u] \in {"remove.wait", "remove.take"} => pc'[u] = pc[u]
      BY <2>3
    <3>4. QED
      BY <1>1, <1>2, <1>5, <3>2, <3>3 DEF ListInv
  <2>5. NoLostSignal'
    <3>1. ~ Contains(waitQueue, t)
      BY <1>2, <1>8, Enlisted
    <3>2. t \in Collecting'
      BY <1>1, <1>3, <1>6, <2>3, <3>1 DEF Collecting
    <3>3. Collecting \subseteq Collecting'
      BY <1>1, <1>6, <2>3, <3>2 DEF Collecting
    <3>4. QED
      BY <1>1, <1>2, <2>2, <3>3, SignalApart
  <2>6. QED
    BY <2>2, <2>4, <2>5 DEF ListSide
<1>9. QED
  BY <1>1, <1>7, <1>8

LEMMA ApplyRunStep ==
    ASSUME ListSide, NEW t \in Thread, ApplyRun(t), todo' = todo
    PROVE  ListSide' /\ OnlyIn(t, ListCode, {"list"}, "list")
<1> DEFINE p == "list.disown"
<1>1. /\ pc[t] = "apply.run" /\ Moves(t, p) /\ Returns(t, list)
      /\ UNCHANGED <<synchVars, cur, listVars>>
  BY DEF ApplyRun, At, Goto, Moves
<1>2. Runs(cur[t].op, pc[t])
  BY <1>1 DEF ListSide, CallInv
<1>3. cur[t].op = "Apply"
  BY <1>1, <1>2, PlaceOfList
<1>4. /\ pc[t] \in ListCode /\ p \in ListCode /\ p \in Place /\ Runs(cur[t].op, p)
      /\ pc[t] \in ListHeld /\ p \notin ListLeaving
  BY <1>1, <1>3 DEF ListCode, ListHeld, ListLeaving, Place, Runs
<1>5. CallInv' /\ SemInv' /\ ListLock' /\ OnlyIn(t, ListCode, {"list"}, "list")
  BY <1>1, <1>4, ListMoves
<1>6. t \notin Collecting /\ pc[t] \notin Waiting /\ p \notin {"remove.wait", "remove.take"}
  BY <1>1, <1>3 DEF Collecting, Waiting
<1>7. ListInv' /\ NoLostSignal'
  BY <1>1, <1>4, <1>5, <1>6, ListPlain
<1>8. QED
  BY <1>5, <1>7 DEF ListSide

LEMMA ListDisownStep ==
    ASSUME ListSide, NEW t \in Thread, ListDisown(t), todo' = todo
    PROVE  ListSide' /\ OnlyIn(t, ListCode, {"list"}, "list")
<1> DEFINE p == "list.unlock"
<1>1. /\ pc[t] = "list.disown" /\ Moves(t, p) /\ Disown(t, "list")
      /\ UNCHANGED <<sem, cur, got, listVars>>
  BY DEF ListDisown, At, Goto, Moves, callVars
<1>2. Runs(cur[t].op, pc[t])
  BY <1>1 DEF ListSide, CallInv
<1>3. cur[t].op \in {"Append", "RemoveFront", "Apply"} /\ pc[t] \in ListCode
  <2>1. pc[t] \in ListCode
    BY <1>1 DEF ListCode, ListHeld
  <2>2. QED
    BY <1>2, <2>1, PlaceOfList
<1>4. /\ p \in ListCode /\ p \in Place /\ Runs(cur[t].op, p)
      /\ pc[t] \in ListHeld /\ p \in ListLeaving
  BY <1>1, <1>3 DEF ListCode, ListHeld, ListLeaving, Place, Runs
<1>5. CallInv' /\ SemInv' /\ ListLock' /\ OnlyIn(t, ListCode, {"list"}, "list")
  BY <1>1, <1>3, <1>4, ListMoves
<1>6. t \notin Collecting /\ pc[t] \notin Waiting /\ p \notin {"remove.wait", "remove.take"}
  BY <1>1 DEF Collecting, Waiting
<1>7. ListInv' /\ NoLostSignal'
  BY <1>1, <1>4, <1>5, <1>6, ListPlain
<1>8. QED
  BY <1>5, <1>7 DEF ListSide

LEMMA ListUnlockStep ==
    ASSUME ListSide, NEW t \in Thread, ListUnlock(t), todo' = todo
    PROVE  ListSide' /\ OnlyIn(t, ListCode, {"list"}, "list")
<1> DEFINE p == "idle"
<1>1. /\ pc[t] = "list.unlock" /\ Moves(t, p) /\ V("list")
      /\ UNCHANGED <<holder, cur, got, listVars>>
  BY DEF ListUnlock, At, Goto, Moves, callVars
<1>2. /\ pc[t] \in ListCode /\ p \in Place /\ pc[t] \in ListLeaving
      /\ p \notin ListHeld \cup ListLeaving
  BY <1>1 DEF ListCode, ListHeld, ListLeaving, Place
<1>3. CallInv' /\ SemInv' /\ ListLock' /\ OnlyIn(t, ListCode, {"list"}, "list")
  BY <1>1, <1>2, ListMoves
<1>4. t \notin Collecting /\ pc[t] \notin Waiting /\ p \notin {"remove.wait", "remove.take"}
  BY <1>1 DEF Collecting, Waiting
<1>5. ListInv' /\ NoLostSignal'
  BY <1>1, <1>2, <1>3, <1>4, ListPlain
<1>6. QED
  BY <1>3, <1>5 DEF ListSide

LEMMA ListStepKeeps ==
    ASSUME ListSide, NEW t \in Thread, ListStep(t), todo' = todo
    PROVE  ListSide' /\ OnlyIn(t, ListCode, {"list"}, "list")
BY ListAcquireStep, AppendPutStep, AppendSignalStep, RemoveTestStep, RemoveTakeStep,
   RemoveWaitStep, RemoveUnlockStep, RemoveSleepStep, ApplyRunStep, ListDisownStep,
   ListUnlockStep DEF ListStep

-----------------------------------------------------------------------------
(* The statements that the calls of the devices have in common: lock l has  *)
(* its holder between places of `held`, in calls whose code is `code`.      *)

Guards(l, held, leaving, code) ==
    /\ l \in Lock /\ LockInv(l, held, leaving)
    /\ held \cup leaving \subseteq code /\ held \cap leaving = {}
    /\ "idle" \notin code /\ code \subseteq Place

LEMMA LockAcquired ==
    ASSUME CallInv, SemInv, NEW l, NEW held, NEW leaving, NEW code, Guards(l, held, leaving, code),
           NEW names, l \in names, NEW t \in Thread, NEW p \in held, pc[t] \in code,
           Runs(cur[t].op, p), Acquire(t, l, p), UNCHANGED <<cur, todo, got>>
    PROVE  /\ CallInv' /\ SemInv' /\ LockInv(l, held, leaving)' /\ OnlyIn(t, code, names, l)
           /\ \A s \in Named : s # l => sem'[s] = sem[s]
           /\ pc' = pc \/ Moves(t, p)
<1>1. /\ pc \in [Thread -> Place] /\ l \in Lock /\ l \in Named /\ p \in code /\ p \in Place
      /\ p \notin leaving /\ pc[t] # "idle" /\ LockInv(l, held, leaving)
  BY DEF CallInv, Guards, Named
<1>2. P(t, l, p) /\ holder' = IF sem[l].value = 0 THEN holder ELSE [holder EXCEPT ![l] = t]
  BY DEF Acquire
<1>3. /\ sem' \in [Named -> [value : Nat, queue : Seq(Thread)]]
      /\ \A s \in Named : s # l => sem'[s] = sem[s]
      /\ pc' = pc \/ Moves(t, p)
  BY <1>1, <1>2, PTakes
<1>4. DOMAIN holder' = Lock /\ \A k \in Lock : k # l => holder'[k] = holder[k]
  BY <1>1, <1>2 DEF SemInv
<1>5. LockInv(l, held, leaving)'
  BY <1>1, LockTaken
<1>6. CallInv' /\ OnlyIn(t, code, names, l)
  <2>1. CASE pc' = pc
    <3>1. CallInv'
      BY <2>1, CallWaits
    <3>2. QED
      BY <1>3, <1>4, <2>1, <3>1 DEF OnlyIn
  <2>2. CASE Moves(t, p)
    <3>1. CallInv'
      BY <1>1, <2>2, CallGoesOn
    <3>2. pc'[t] = p /\ \A u \in Thread : u # t => pc'[u] = pc[u]
      BY <1>1, <2>2 DEF Moves
    <3>3. QED
      BY <1>1, <1>3, <1>4, <3>1, <3>2 DEF OnlyIn
  <2>3. QED
    BY <1>3, <2>1, <2>2
<1>7. QED
  BY <1>3, <1>4, <1>5, <1>6 DEF SemInv

\* A statement under the lock.
LEMMA LockUsed ==
    ASSUME CallInv, SemInv, NEW l, NEW held, NEW leaving, NEW code, Guards(l, held, leaving, code),
           NEW names, NEW t \in Thread, NEW p \in held, pc[t] \in held,
           Runs(cur[t].op, p), Moves(t, p), UNCHANGED <<cur, todo, synchVars>>,
           got' = got \/ \E x : Returns(t, x)
    PROVE  CallInv' /\ SemInv' /\ LockInv(l, held, leaving)' /\ OnlyIn(t, code, names, l)
<1>1. /\ pc \in [Thread -> Place] /\ l \in Lock /\ p \in code /\ p \in Place
      /\ p \notin leaving /\ pc[t] # "idle" /\ pc[t] \in code /\ LockInv(l, held, leaving)
  BY DEF CallInv, Guards
<1>2. sem' = sem /\ holder' = holder
  BY DEF synchVars
<1>3. pc'[t] = p /\ \A u \in Thread : u # t => pc'[u] = pc[u]
  BY <1>1 DEF Moves
<1>4. CallInv'
  BY <1>1, CallGoesOn
<1>5. LockInv(l, held, leaving)'
  BY <1>1, <1>2, LockKept
<1>6. OnlyIn(t, code, names, l)
  BY <1>1, <1>2, <1>3 DEF OnlyIn
<1>7. QED
  BY <1>2, <1>4, <1>5, <1>6 DEF SemInv

\* Sleep for an interrupt, under the lock; go on when it has come.
GoesOn(t, name, p) == /\ Count(name)' = 0
                      /\ \/ Count(name) = 0 /\ pc' = pc
                         \/ Count(name) # 0 /\ Moves(t, p)

LEMMA LockSleeps ==
    ASSUME CallInv, SemInv, NEW l, NEW held, NEW leaving, NEW code, Guards(l, held, leaving, code),
           NEW name, name \in Named \ Lock, Count(name) \in {0, 1}, NEW names, name \in names,
           NEW t \in Thread, NEW p \in held, pc[t] \in held,
           Runs(cur[t].op, p), P(t, name, p), UNCHANGED <<holder, cur, todo, got>>
    PROVE  /\ CallInv' /\ SemInv' /\ LockInv(l, held, leaving)' /\ OnlyIn(t, code, names, l)
           /\ \A s \in Named : s # name => sem'[s] = sem[s]
           /\ GoesOn(t, name, p)
<1>1. /\ pc \in [Thread -> Place] /\ l \in Lock /\ p \in code /\ p \in Place /\ l \in Named
      /\ p \notin leaving /\ pc[t] # "idle" /\ pc[t] \in code /\ LockInv(l, held, leaving)
      /\ l # name /\ name \in Named
  BY DEF CallInv, Guards, Named
<1>2. /\ sem' \in [Named -> [value : Nat, queue : Seq(Thread)]]
      /\ \A s \in Named : s # name => sem'[s] = sem[s]
      /\ \/ sem[name].value = 0 /\ sem'[name].value = 0 /\ pc' = pc
         \/ /\ sem[name].value # 0 /\ sem'[name].value = sem[name].value - 1
            /\ Moves(t, p)
  BY <1>1, PTakes
<1>3. sem'[l].value = sem[l].value
  BY <1>1, <1>2
<1>4. ASSUME pc' = pc
      PROVE  CallInv' /\ SemInv' /\ LockInv(l, held, leaving)' /\ OnlyIn(t, code, names, l)
  <2>1. CallInv'
    BY <1>4, CallWaits
  <2>2. LockInv(l, held, leaving)'
    BY <1>1, <1>3, <1>4, LockStays
  <2>3. QED
    BY <1>1, <1>2, <1>4, <2>1, <2>2 DEF OnlyIn, SemInv
<1>5. ASSUME Moves(t, p)
      PROVE  CallInv' /\ SemInv' /\ LockInv(l, held, leaving)' /\ OnlyIn(t, code, names, l)
  <2>1. CallInv'
    BY <1>1, <1>5, CallGoesOn
  <2>2. LockInv(l, held, leaving)'
    BY <1>1, <1>3, <1>5, LockKept
  <2>3. pc'[t] = p /\ \A u \in Thread : u # t => pc'[u] = pc[u]
    BY <1>1, <1>5 DEF Moves
  <2>4. OnlyIn(t, code, names, l)
    BY <1>1, <1>2, <2>3 DEF OnlyIn
  <2>5. QED
    BY <1>2, <2>1, <2>2, <2>4 DEF SemInv
<1>6. GoesOn(t, name, p)
  <2>1. CASE sem[name].value = 0
    BY <1>2, <2>1 DEF GoesOn, Count
  <2>2. CASE sem[name].value = 1
    BY <1>2, <2>2 DEF GoesOn, Count
  <2>3. QED
    BY <2>1, <2>2 DEF Count
<1>7. QED
  BY <1>2, <1>4, <1>5, <1>6

\* Release: clear lockHolder, ...
LEMMA LockLeft ==
    ASSUME CallInv, SemInv, NEW l, NEW held, NEW leaving, NEW code, Guards(l, held, leaving, code),
           NEW names, NEW t \in Thread, NEW p \in leaving, pc[t] \in held,
           Runs(cur[t].op, p), Moves(t, p), Disown(t, l), UNCHANGED <<sem, cur, todo, got>>
    PROVE  CallInv' /\ SemInv' /\ LockInv(l, held, leaving)' /\ OnlyIn(t, code, names, l)
<1>1. /\ pc \in [Thread -> Place] /\ l \in Lock /\ p \in code /\ p \in Place
      /\ p \notin held /\ pc[t] # "idle" /\ pc[t] \in code /\ LockInv(l, held, leaving)
  BY DEF CallInv, Guards
<1>2. DOMAIN holder' = Lock /\ \A k \in Lock : k # l => holder'[k] = holder[k]
  BY <1>1 DEF SemInv, Disown
<1>3. pc'[t] = p /\ \A u \in Thread : u # t => pc'[u] = pc[u]
  BY <1>1 DEF Moves
<1>4. CallInv'
  BY <1>1, CallGoesOn
<1>5. LockInv(l, held, leaving)'
  BY <1>1, LockDisowned
<1>6. OnlyIn(t, code, names, l)
  BY <1>1, <1>2, <1>3 DEF OnlyIn
<1>7. QED
  BY <1>2, <1>4, <1>5, <1>6 DEF SemInv

\* ... post the semaphore, and return to the caller.
LEMMA LockReturned ==
    ASSUME CallInv, SemInv, NEW l, NEW held, NEW leaving, NEW code, Guards(l, held, leaving, code),
           NEW names, l \in names, NEW t \in Thread, pc[t] \in leaving,
           Moves(t, "idle"), V(l), UNCHANGED <<holder, cur, todo, got>>
    PROVE  /\ CallInv' /\ SemInv' /\ LockInv(l, held, leaving)' /\ OnlyIn(t, code, names, l)
           /\ \A s \in Named : s # l => sem'[s] = sem[s]
<1>1. /\ pc \in [Thread -> Place] /\ l \in Lock /\ "idle" \in Place /\ l \in Named
      /\ "idle" \notin held \cup leaving /\ pc[t] # "idle" /\ pc[t] \in code
      /\ LockInv(l, held, leaving)
  BY DEF CallInv, Guards, Place, Named
<1>2. /\ sem' \in [Named -> [value : Nat, queue : Seq(Thread)]]
      /\ \A s \in Named : s # l => sem'[s] = sem[s]
  BY <1>1, VPosts
<1>3. pc'[t] = "idle" /\ \A u \in Thread : u # t => pc'[u] = pc[u]
  BY <1>1 DEF Moves
<1>4. CallInv'
  BY <1>1, CallGoesOn
<1>5. LockInv(l, held, leaving)'
  BY <1>1, LockFreed
<1>6. OnlyIn(t, code, names, l)
  BY <1>1, <1>2, <1>3 DEF OnlyIn
<1>7. QED
  BY <1>2, <1>4, <1>5, <1>6 DEF SemInv

LEMMA PostsOne ==
    ASSUME SemInv, NEW name \in Named, V(name), Count(name) = 0
    PROVE  Count(name)' = 1
<1>1. sem'[name].value = sem[name].value + 1
  BY VPosts
<1>2. QED
  BY <1>1 DEF Count

-----------------------------------------------------------------------------
(* The synchronous disk.                                                   *)

DiskSide == CallInv /\ SemInv /\ DiskLock /\ DiskInv

DiskNames == {"disk", "disk.done"}

LEMMA DiskGuards == DiskSide => Guards("disk", DiskHeld, DiskLeaving, DiskCode)
BY DEF DiskSide, DiskLock, Guards, DiskCode, DiskHeld, DiskLeaving, Lock, Place

LEMMA DiskAcquireStep ==
    ASSUME DiskSide, NEW t \in Thread, DiskAcquire(t), todo' = todo
    PROVE  DiskSide' /\ OnlyIn(t, DiskCode, DiskNames, "disk")
<1> DEFINE p == "disk.request"
<1>1. /\ pc[t] = "disk.acquire" /\ Acquire(t, "disk", p) /\ UNCHANGED <<cur, got, diskVars>>
  BY DEF DiskAcquire, At, callVars
<1>2. pc[t] \in DiskCode /\ pc[t] # "idle" /\ p \in DiskHeld /\ "disk" \in DiskNames
      /\ pc \in [Thread -> Place] /\ CallInv /\ SemInv /\ DiskInv
  BY <1>1 DEF DiskCode, DiskHeld, DiskNames, DiskSide, CallInv
<1>3. Runs(cur[t].op, p)
  <2>1. Runs(cur[t].op, pc[t])
    BY <1>2 DEF CallInv
  <2>2. cur[t].op \in {"ReadSector", "WriteSector"}
    BY <1>2, <2>1, PlaceOfDisk
  <2>3. QED
    BY <1>2, <2>2 DEF Runs, DiskCode
<1>4. /\ CallInv' /\ SemInv' /\ DiskLock' /\ OnlyIn(t, DiskCode, DiskNames, "disk")
      /\ \A s \in Named : s # "disk" => sem'[s] = sem[s]
      /\ pc' = pc \/ Moves(t, p)
  BY <1>1, <1>2, <1>3, DiskGuards, LockAcquired DEF DiskLock
<1>5. DiskInv'
  <2>1. sem'["disk.done"] = sem["disk.done"]
    BY <1>4 DEF Named
  <2>2. \A u \in Thread : pc[u] = "disk.wait" => pc'[u] = "disk.wait"
    BY <1>1, <1>2, <1>4 DEF Moves
  <2>3. QED
    BY <1>1, <1>2, <2>1, <2>2, DiskApart
<1>6. QED
  BY <1>4, <1>5 DEF DiskSide

\* The disk is idle, and nothing of an earlier request is left.
LEMMA DiskFree ==
    ASSUME DiskSide, NEW t \in Thread, pc[t] \in DiskHeld \cup DiskLeaving, pc[t] # "disk.wait"
    PROVE  ~ active /\ diskDue = {} /\ Count("disk.done") = 0
<1>1. \A u \in Thread : pc[u] # "disk.wait"
  BY DEF DiskSide, DiskLock, LockInv, DiskHeld
<1>2. QED
  BY <1>1 DEF DiskSide, DiskInv

LEMMA DiskRequestStep ==
    ASSUME DiskSide, NEW t \in Thread, ReadRequest(t) \/ WriteRequest(t), todo' = todo
    PROVE  DiskSide' /\ OnlyIn(t, DiskCode, DiskNames, "disk")
<1> DEFINE p == "disk.wait"
<1>1. /\ pc[t] = "disk.request" /\ Moves(t, p) /\ UNCHANGED <<cur, synchVars>>
      /\ got' = got \/ \E x : Returns(t, x)
      /\ cur[t].op \in {"ReadSector", "WriteSector"}
  BY DEF ReadRequest, WriteRequest, At, Goto, Moves, callVars
<1>2. active' = TRUE /\ \E due : diskDue' = diskDue \cup {due}
  BY DEF ReadRequest, WriteRequest, Request
<1>3. pc[t] \in DiskHeld /\ p \in DiskHeld /\ Runs(cur[t].op, p)
      /\ pc \in [Thread -> Place] /\ CallInv /\ SemInv /\ DiskInv
  BY <1>1 DEF DiskCode, DiskHeld, DiskSide, CallInv, Runs
<1>4. CallInv' /\ SemInv' /\ DiskLock' /\ OnlyIn(t, DiskCode, DiskNames, "disk")
  BY <1>1, <1>3, DiskGuards, LockUsed DEF DiskLock
<1>5. DiskInv'
  <2>1. diskDue = {} /\ Count("disk.done") = 0
    BY <1>1, <1>3, DiskFree
  <2>2. Count("disk.done")' = Count("disk.done") /\ pc'[t] = "disk.wait"
    BY <1>1, <1>3 DEF synchVars, Moves, Count
  <2>3. QED
    BY <1>2, <2>1, <2>2 DEF DiskInv
<1>6. QED
  BY <1>4, <1>5 DEF DiskSide

LEMMA DiskWaitStep ==
    ASSUME DiskSide, NEW t \in Thread, DiskWait(t), todo' = todo
    PROVE  DiskSide' /\ OnlyIn(t, DiskCode, DiskNames, "disk")
<1> DEFINE p == "disk.disown"
<1>1. /\ pc[t] = "disk.wait" /\ P(t, "disk.done", p) /\ UNCHANGED <<holder, cur, got, diskVars>>
  BY DEF DiskWait, At, callVars
<1>2. /\ pc[t] \in DiskHeld /\ p \in DiskHeld /\ pc[t] \in DiskCode /\ pc[t] # "idle"
      /\ pc \in [Thread -> Place] /\ CallInv /\ SemInv /\ DiskInv
      /\ "disk.done" \in Named \ Lock /\ "disk.done" \in DiskNames
      /\ Count("disk.done") \in {0, 1}
  BY <1>1 DEF DiskCode, DiskHeld, DiskSide, DiskInv, CallInv, Named, Lock, DiskNames
<1>3. Runs(cur[t].op, p)
  <2>1. Runs(cur[t].op, pc[t])
    BY <1>2 DEF CallInv
  <2>2. cur[t].op \in {"ReadSector", "WriteSector"}
    BY <1>2, <2>1, PlaceOfDisk
  <2>3. QED
    BY <1>2, <2>2 DEF Runs, DiskCode
<1>4. /\ CallInv' /\ SemInv' /\ DiskLock' /\ OnlyIn(t, DiskCode, DiskNames, "disk")
      /\ GoesOn(t, "disk.done", p)
  BY <1>1, <1>2, <1>3, DiskGuards, LockSleeps DEF DiskLock
<1>5. DiskInv'
  <2>1. active' = active /\ diskDue' = diskDue
    BY <1>1 DEF diskVars
  <2>2. CASE pc' = pc /\ Count("disk.done") = 0
    BY <1>2, <1>4, <2>1, <2>2 DEF DiskInv, GoesOn
  <2>3. CASE Count("disk.done") # 0
    <3>1. ~ active /\ diskDue = {}
      BY <1>2, <2>3 DEF DiskInv
    <3>2. Count("disk.done")' = 0
      BY <1>4 DEF GoesOn
    <3>3. QED
      BY <2>1, <3>1, <3>2 DEF DiskInv
  <2>4. QED
    BY <1>4, <2>2, <2>3 DEF GoesOn
<1>6. QED
  BY <1>4, <1>5 DEF DiskSide

LEMMA DiskDisownStep ==
    ASSUME DiskSide, NEW t \in Thread, DiskDisown(t), todo' = todo
    PROVE  DiskSide' /\ OnlyIn(t, DiskCode, DiskNames, "disk")
<1> DEFINE p == "disk.unlock"
<1>1. /\ pc[t] = "disk.disown" /\ Moves(t, p) /\ Disown(t, "disk")
      /\ UNCHANGED <<sem, cur, got, diskVars>>
  BY DEF DiskDisown, At, Goto, Moves, callVars
<1>2. /\ pc[t] \in DiskHeld /\ p \in DiskLeaving /\ pc[t] \in DiskCode /\ pc[t] # "idle"
      /\ pc \in [Thread -> Place] /\ CallInv /\ SemInv /\ DiskInv
  BY <1>1 DEF DiskCode, DiskHeld, DiskLeaving, DiskSide, CallInv
<1>3. Runs(cur[t].op, p)
  <2>1. Runs(cur[t].op, pc[t])
    BY <1>2 DEF CallInv
  <2>2. cur[t].op \in {"ReadSector", "WriteSector"}
    BY <1>2, <2>1, PlaceOfDisk
  <2>3. QED
    BY <1>2, <2>2 DEF Runs, DiskCode
<1>4. CallInv' /\ SemInv' /\ DiskLock' /\ OnlyIn(t, DiskCode, DiskNames, "disk")
  BY <1>1, <1>2, <1>3, DiskGuards, LockLeft DEF DiskLock
<1>5. DiskInv'
  <2>1. \A u \in Thread : pc[u] = "disk.wait" => pc'[u] = "disk.wait"
    BY <1>1, <1>2 DEF Moves
  <2>2. QED
    BY <1>1, <1>2, <2>1, DiskApart
<1>6. QED
  BY <1>4, <1>5 DEF DiskSide

LEMMA DiskUnlockStep ==
    ASSUME DiskSide, NEW t \in Thread, DiskUnlock(t), todo' = todo
    PROVE  DiskSide' /\ OnlyIn(t, DiskCode, DiskNames, "disk")
<1>1. /\ pc[t] = "disk.unlock" /\ Moves(t, "idle") /\ V("disk")
      /\ UNCHANGED <<holder, cur, got, diskVars>>
  BY DEF DiskUnlock, At, Goto, Moves, callVars
<1>2. /\ pc[t] \in DiskLeaving /\ pc \in [Thread -> Place] /\ CallInv /\ SemInv /\ DiskInv
      /\ "disk" \in DiskNames
  BY <1>1 DEF DiskLeaving, DiskSide, CallInv, DiskNames
<1>3. /\ CallInv' /\ SemInv' /\ DiskLock' /\ OnlyIn(t, DiskCode, DiskNames, "disk")
      /\ \A s \in Named : s # "disk" => sem'[s] = sem[s]
  BY <1>1, <1>2, DiskGuards, LockReturned DEF DiskLock
<1>4. DiskInv'
  <2>1. \A u \in Thread : pc[u] = "disk.wait" => pc'[u] = "disk.wait"
    BY <1>1, <1>2 DEF Moves
  <2>2. sem'["disk.done"] = sem["disk.done"]
    BY <1>3 DEF Named
  <2>3. QED
    BY <1>1, <1>2, <2>1, <2>2, DiskApart
<1>5. QED
  BY <1>3, <1>4 DEF DiskSide

LEMMA DiskStepKeeps ==
    ASSUME DiskSide, NEW t \in Thread, DiskStep(t), todo' = todo
    PROVE  DiskSide' /\ OnlyIn(t, DiskCode, DiskNames, "disk")
BY DiskAcquireStep, DiskRequestStep, DiskWaitStep, DiskDisownStep, DiskUnlockStep DEF DiskStep

\* An interrupt posts one semaphore and moves no thread.
Posted(name) == /\ UNCHANGED <<pc, cur, got, todo, holder>>
                /\ sem' \in [Named -> [value : Nat, queue : Seq(Thread)]]
                /\ \A s \in Named : s # name => sem'[s] = sem[s]

LEMMA DiskInterruptKeeps ==
    ASSUME DiskSide, DiskInterrupt, todo' = todo
    PROVE  DiskInv' /\ Posted("disk.done")
<1>1. PICK due \in diskDue : diskDue' = diskDue \ {due}
  BY DEF DiskInterrupt
<1>2. active' = FALSE /\ V("disk.done") /\ UNCHANGED <<holder, pc, cur, got>>
  BY DEF DiskInterrupt, callVars
<1>3. "disk.done" \in Named /\ SemInv /\ DiskInv
  BY DEF Named, DiskSide
<1>4. active /\ Count("disk.done") = 0 /\ diskDue' = {}
      /\ \E t \in Thread : pc[t] = "disk.wait"
  BY <1>1, <1>3 DEF DiskInv
<1>5. Posted("disk.done") /\ Count("disk.done")' = 1
  <2>1. Posted("disk.done")
    BY <1>2, <1>3, VPosts DEF Posted
  <2>2. QED
    BY <1>2, <1>3, <1>4, <2>1, PostsOne
<1>6. DiskInv'
  BY <1>2, <1>4, <1>5 DEF DiskInv
<1>7. QED
  BY <1>5, <1>6

-----------------------------------------------------------------------------
(* The display.                                                            *)

OutSide == CallInv /\ SemInv /\ OutLock /\ OutInv

OutNames == {"out", "out.done"}

LEMMA OutGuards == OutSide => Guards("out", OutHeld, OutLeaving, OutCode)
BY DEF OutSide, OutLock, Guards, OutCode, OutHeld, OutLeaving, Lock, Place

LEMMA OutRuns ==
    ASSUME OutSide, NEW t \in Thread, pc[t] \in OutCode, NEW p \in OutCode
    PROVE  pc[t] # "idle" /\ Runs(cur[t].op, p)
<1>1. pc[t] # "idle"
  BY DEF OutCode, OutHeld, OutLeaving
<1>2. Runs(cur[t].op, pc[t])
  BY <1>1 DEF OutSide, CallInv
<1>3. cur[t].op \in {"PutChar", "PutInt"}
  BY <1>2, PlaceOfDisk
<1>4. QED
  BY <1>1, <1>3 DEF Runs

LEMMA OutAcquireStep ==
    ASSUME OutSide, NEW t \in Thread, OutAcquire(t), todo' = todo
    PROVE  OutSide' /\ OnlyIn(t, OutCode, OutNames, "out")
<1> DEFINE p == "out.put"
<1>1. /\ pc[t] = "out.acquire" /\ Acquire(t, "out", p) /\ UNCHANGED <<cur, got, putBusy, writeDue>>
  BY DEF OutAcquire, At, callVars
<1>2. pc[t] \in OutCode /\ p \in OutHeld /\ p \in OutCode /\ "out" \in OutNames
      /\ pc \in [Thread -> Place] /\ CallInv /\ SemInv /\ OutInv
  BY <1>1 DEF OutCode, OutHeld, OutNames, OutSide, CallInv
<1>3. Runs(cur[t].op, p)
  BY <1>2, OutRuns
<1>4. /\ CallInv' /\ SemInv' /\ OutLock' /\ OnlyIn(t, OutCode, OutNames, "out")
      /\ \A s \in Named : s # "out" => sem'[s] = sem[s]
      /\ pc' = pc \/ Moves(t, p)
  BY <1>1, <1>2, <1>3, OutGuards, LockAcquired DEF OutLock
<1>5. OutInv'
  <2>1. Count("out.done")' = Count("out.done")
    BY <1>4 DEF Named, Count
  <2>2. \A u \in Thread : pc[u] = "out.wait" => pc'[u] = "out.wait"
    BY <1>1, <1>2, <1>4 DEF Moves
  <2>3. QED
    BY <1>1, <1>2, <2>1, <2>2 DEF OutInv
<1>6. QED
  BY <1>4, <1>5 DEF OutSide

\* The display is idle, and nothing of an earlier character is left.
LEMMA OutFree ==
    ASSUME OutSide, NEW t \in Thread, pc[t] \in OutHeld \cup OutLeaving, pc[t] # "out.wait"
    PROVE  ~ putBusy /\ writeDue = 0 /\ Count("out.done") = 0
<1>1. \A u \in Thread : pc[u] # "out.wait"
  BY DEF OutSide, OutLock, LockInv, OutHeld
<1>2. ~ putBusy /\ Count("out.done") = 0
  BY <1>1 DEF OutSide, OutInv
<1>3. writeDue = 0
  BY <1>2 DEF OutSide, OutInv
<1>4. QED
  BY <1>2, <1>3

LEMMA OutPutStep ==
    ASSUME OutSide, NEW t \in Thread, OutPut(t), todo' = todo
    PROVE  OutSide' /\ OnlyIn(t, OutCode, OutNames, "out")
<1> DEFINE p == "out.wait"
<1>1. /\ pc[t] = "out.put" /\ Moves(t, p) /\ UNCHANGED <<cur, got, synchVars>>
      /\ putBusy' = TRUE /\ writeDue' = writeDue + 1
  BY DEF OutPut, At, Goto, Moves, callVars
<1>2. pc[t] \in OutHeld /\ p \in OutHeld /\ pc[t] \in OutCode /\ p \in OutCode
      /\ pc \in [Thread -> Place] /\ CallInv /\ SemInv /\ OutInv
  BY <1>1 DEF OutCode, OutHeld, OutSide, CallInv
<1>3. Runs(cur[t].op, p)
  BY <1>2, OutRuns
<1>4. CallInv' /\ SemInv' /\ OutLock' /\ OnlyIn(t, OutCode, OutNames, "out")
  BY <1>1, <1>2, <1>3, OutGuards, LockUsed DEF OutLock
<1>5. OutInv'
  <2>1. writeDue = 0 /\ Count("out.done") = 0
    BY <1>1, <1>2, OutFree
  <2>2. Count("out.done")' = Count("out.done") /\ pc'[t] = "out.wait"
    BY <1>1, <1>2 DEF synchVars, Moves, Count
  <2>3. writeDue' = 1
    BY <1>1, <2>1
  <2>4. QED
    BY <1>1, <2>1, <2>2, <2>3 DEF OutInv
<1>6. QED
  BY <1>4, <1>5 DEF OutSide

LEMMA OutWaitStep ==
    ASSUME OutSide, NEW t \in Thread, OutWait(t), todo' = todo
    PROVE  OutSide' /\ OnlyIn(t, OutCode, OutNames, "out")
<1>1. PICK p \in {"out.put", "out.disown"} : P(t, "out.done", p)
  BY DEF OutWait
<1>2. pc[t] = "out.wait" /\ UNCHANGED <<holder, cur, got, putBusy, writeDue>>
  BY DEF OutWait, At, callVars, consoleVars, outVars
<1>3. /\ pc[t] \in OutHeld /\ p \in OutHeld /\ pc[t] \in OutCode /\ p \in OutCode
      /\ pc \in [Thread -> Place] /\ CallInv /\ SemInv /\ OutInv
      /\ "out.done" \in Named \ Lock /\ "out.done" \in OutNames
      /\ Count("out.done") \in {0, 1}
  BY <1>2 DEF OutCode, OutHeld, OutSide, OutInv, CallInv, Named, Lock, OutNames
<1>4. Runs(cur[t].op, p)
  BY <1>3, OutRuns
<1>5. /\ CallInv' /\ SemInv' /\ OutLock' /\ OnlyIn(t, OutCode, OutNames, "out")
      /\ GoesOn(t, "out.done", p)
  BY <1>1, <1>2, <1>3, <1>4, OutGuards, LockSleeps DEF OutLock
<1>6. OutInv'
  <2>1. CASE pc' = pc /\ Count("out.done") = 0
    BY <1>2, <1>3, <1>5, <2>1 DEF OutInv, GoesOn
  <2>2. CASE Count("out.done") # 0
    <3>1. ~ putBusy
      BY <1>3, <2>2 DEF OutInv
    <3>2. Count("out.done")' = 0
      BY <1>5 DEF GoesOn
    <3>3. writeDue \in {0, 1} /\ writeDue # 1
      BY <1>3, <3>1 DEF OutInv
    <3>4. QED
      BY <1>2, <3>1, <3>2, <3>3 DEF OutInv
  <2>3. QED
    BY <1>5, <2>1, <2>2 DEF GoesOn
<1>7. QED
  BY <1>5, <1>6 DEF OutSide

LEMMA OutDisownStep ==
    ASSUME OutSide, NEW t \in Thread, OutDisown(t), todo' = todo
    PROVE  OutSide' /\ OnlyIn(t, OutCode, OutNames, "out")
<1> DEFINE p == "out.unlock"
<1>1. /\ pc[t] = "out.disown" /\ Moves(t, p) /\ Disown(t, "out")
      /\ UNCHANGED <<sem, cur, got, outVars>>
  BY DEF OutDisown, At, Goto, Moves, callVars, consoleVars
<1>2. /\ pc[t] \in OutHeld /\ p \in OutLeaving /\ pc[t] \in OutCode /\ p \in OutCode
      /\ pc \in [Thread -> Place] /\ CallInv /\ SemInv /\ OutInv
  BY <1>1 DEF OutCode, OutHeld, OutLeaving, OutSide, CallInv
<1>3. Runs(cur[t].op, p)
  BY <1>2, OutRuns
<1>4. CallInv' /\ SemInv' /\ OutLock' /\ OnlyIn(t, OutCode, OutNames, "out")
  BY <1>1, <1>2, <1>3, OutGuards, LockLeft DEF OutLock
<1>5. OutInv'
  <2>1. \A u \in Thread : pc[u] = "out.wait" => pc'[u] = "out.wait"
    BY <1>1, <1>2 DEF Moves
  <2>2. QED
    BY <1>1, <1>2, <2>1, OutApart
<1>6. QED
  BY <1>4, <1>5 DEF OutSide

LEMMA OutUnlockStep ==
    ASSUME OutSide, NEW t \in Thread, OutUnlock(t), todo' = todo
    PROVE  OutSide' /\ OnlyIn(t, OutCode, OutNames, "out")
<1>1. /\ pc[t] = "out.unlock" /\ Moves(t, "idle") /\ V("out")
      /\ UNCHANGED <<holder, cur, got, outVars>>
  BY DEF OutUnlock, At, Goto, Moves, callVars, consoleVars
<1>2. /\ pc[t] \in OutLeaving /\ pc \in [Thread -> Place] /\ CallInv /\ SemInv /\ OutInv
      /\ "out" \in OutNames
  BY <1>1 DEF OutLeaving, OutSide, CallInv, OutNames
<1>3. /\ CallInv' /\ SemInv' /\ OutLock' /\ OnlyIn(t, OutCode, OutNames, "out")
      /\ \A s \in Named : s # "out" => sem'[s] = sem[s]
  BY <1>1, <1>2, OutGuards, LockReturned DEF OutLock
<1>4. OutInv'
  <2>1. \A u \in Thread : pc[u] = "out.wait" => pc'[u] = "out.wait"
    BY <1>1, <1>2 DEF Moves
  <2>2. sem'["out.done"] = sem["out.done"]
    BY <1>3 DEF Named
  <2>3. QED
    BY <1>1, <1>2, <2>1, <2>2, OutApart
<1>5. QED
  BY <1>3, <1>4 DEF OutSide

LEMMA WriteInterruptKeeps ==
    ASSUME OutSide, WriteInterrupt, todo' = todo
    PROVE  OutInv' /\ Posted("out.done")
<1>1. /\ writeDue > 0 /\ writeDue' = writeDue - 1 /\ putBusy' = FALSE
      /\ V("out.done") /\ UNCHANGED <<holder, pc, cur, got>>
  BY DEF WriteInterrupt, callVars
<1>2. "out.done" \in Named /\ SemInv /\ OutInv
  BY DEF Named, OutSide
<1>3. writeDue = 1 /\ writeDue' = 0
  BY <1>1, <1>2 DEF OutInv
<1>4. Count("out.done") = 0 /\ \E t \in Thread : pc[t] = "out.wait"
  BY <1>2, <1>3 DEF OutInv
<1>5. Posted("out.done") /\ Count("out.done")' = 1
  <2>1. Posted("out.done")
    BY <1>1, <1>2, VPosts DEF Posted
  <2>2. QED
    BY <1>1, <1>2, <1>4, <2>1, PostsOne
<1>6. OutInv'
  BY <1>1, <1>3, <1>4, <1>5 DEF OutInv
<1>7. QED
  BY <1>5, <1>6

-----------------------------------------------------------------------------
(* The keyboard.                                                           *)

InSide == CallInv /\ SemInv /\ InLock /\ InInv

InNames == {"in", "in.ready"}

LEMMA InGuards == InSide => Guards("in", InHeld, InLeaving, InCode)
BY DEF InSide, InLock, Guards, InCode, InHeld, InLeaving, Lock, Place

LEMMA InRuns ==
    ASSUME InSide, NEW t \in Thread, pc[t] \in InCode, NEW p \in InCode
    PROVE  pc[t] # "idle" /\ Runs(cur[t].op, p)
<1>1. pc[t] # "idle"
  BY DEF InCode, InHeld, InLeaving
<1>2. Runs(cur[t].op, pc[t])
  BY <1>1 DEF InSide, CallInv
<1>3. cur[t].op = "GetChar"
  BY <1>2, PlaceOfDisk
<1>4. QED
  BY <1>1, <1>3 DEF Runs

LEMMA InAcquireStep ==
    ASSUME InSide, NEW t \in Thread, InAcquire(t), todo' = todo
    PROVE  InSide' /\ OnlyIn(t, InCode, InNames, "in")
<1> DEFINE p == "in.wait"
<1>1. pc[t] = "in.acquire" /\ Acquire(t, "in", p) /\ UNCHANGED <<cur, got, inVars>>
  BY DEF InAcquire, At, callVars, consoleVars
<1>2. pc[t] \in InCode /\ p \in InHeld /\ p \in InCode /\ "in" \in InNames
      /\ pc \in [Thread -> Place] /\ CallInv /\ SemInv /\ InInv
  BY <1>1 DEF InCode, InHeld, InNames, InSide, CallInv
<1>3. Runs(cur[t].op, p)
  BY <1>2, InRuns
<1>4. /\ CallInv' /\ SemInv' /\ InLock' /\ OnlyIn(t, InCode, InNames, "in")
      /\ \A s \in Named : s # "in" => sem'[s] = sem[s]
      /\ pc' = pc \/ Moves(t, p)
  BY <1>1, <1>2, <1>3, InGuards, LockAcquired DEF InLock
<1>5. InInv'
  <2>1. sem'["in.ready"] = sem["in.ready"]
    BY <1>4 DEF Named
  <2>2. \A u \in Thread : pc[u] = "in.get" <=> pc'[u] = "in.get"
    BY <1>1, <1>2, <1>4 DEF Moves
  <2>3. QED
    BY <1>1, <1>2, <2>1, <2>2, InApart
<1>6. QED
  BY <1>4, <1>5 DEF InSide

LEMMA InWaitStep ==
    ASSUME InSide, NEW t \in Thread, InWait(t), todo' = todo
    PROVE  InSide' /\ OnlyIn(t, InCode, InNames, "in")
<1> DEFINE p == "in.get"
<1>1. /\ pc[t] = "in.wait" /\ P(t, "in.ready", p) /\ UNCHANGED <<holder, cur, got>>
      /\ readDue' = readDue /\ incoming' = incoming
  BY DEF InWait, At, callVars, consoleVars, inVars
<1>2. /\ pc[t] \in InHeld /\ p \in InHeld /\ pc[t] \in InCode /\ p \in InCode
      /\ pc \in [Thread -> Place] /\ CallInv /\ SemInv /\ InInv
      /\ "in.ready" \in Named \ Lock /\ "in.ready" \in InNames
      /\ Count("in.ready") \in {0, 1}
  BY <1>1 DEF InCode, InHeld, InSide, InInv, CallInv, Named, Lock, InNames
<1>3. Runs(cur[t].op, p)
  BY <1>2, InRuns
<1>4. /\ CallInv' /\ SemInv' /\ InLock' /\ OnlyIn(t, InCode, InNames, "in")
      /\ GoesOn(t, "in.ready", p)
  BY <1>1, <1>2, <1>3, InGuards, LockSleeps DEF InLock
<1>5. InInv'
  <2>1. CASE pc' = pc /\ Count("in.ready") = 0
    BY <1>1, <1>2, <1>4, <2>1 DEF InInv, GoesOn
  <2>2. CASE Moves(t, p) /\ Count("in.ready") # 0
    <3>1. pc'[t] = "in.get"
      BY <1>2, <2>2 DEF Moves
    <3>2. Count("in.ready")' = 0
      BY <1>4 DEF GoesOn
    <3>3. readDue \in {0, 1} /\ readDue # 1
      BY <1>2, <2>2 DEF InInv
    <3>4. readDue' = 0
      BY <1>1, <3>3
    <3>5. QED
      BY <3>1, <3>2, <3>4 DEF InInv
  <2>3. QED
    BY <1>4, <2>1, <2>2 DEF GoesOn
<1>6. QED
  BY <1>4, <1>5 DEF InSide

LEMMA InGetStep ==
    ASSUME InSide, NEW t \in Thread, InGet(t), todo' = todo
    PROVE  InSide' /\ OnlyIn(t, InCode, InNames, "in")
<1> DEFINE p == "in.disown"
<1>1. /\ pc[t] = "in.get" /\ Moves(t, p) /\ UNCHANGED <<cur, synchVars>>
      /\ Returns(t, incoming) /\ incoming' = EOF
      /\ readDue' = IF incoming # EOF THEN readDue + 1 ELSE readDue
  BY DEF InGet, At, Goto, Moves
<1>2. pc[t] \in InHeld /\ p \in InHeld /\ pc[t] \in InCode /\ p \in InCode
      /\ pc \in [Thread -> Place] /\ CallInv /\ SemInv /\ InInv /\ InLock
  BY <1>1 DEF InCode, InHeld, InSide, CallInv
<1>3. Runs(cur[t].op, p)
  BY <1>2, InRuns
<1>4. CallInv' /\ SemInv' /\ InLock' /\ OnlyIn(t, InCode, InNames, "in")
  BY <1>1, <1>2, <1>3, InGuards, LockUsed DEF InLock
<1>5. InInv'
  <2>1. readDue = 0 /\ Count("in.ready") = 0
    BY <1>1, <1>2 DEF InInv
  <2>2. Count("in.ready")' = 0
    BY <1>1, <2>1 DEF synchVars, Count
  <2>3. readDue' \in {0, 1}
    BY <1>1, <2>1
  <2>4. \A u \in Thread : pc'[u] # "in.get"
    <3>1. \A u \in Thread : pc[u] = "in.get" => u = t
      BY <1>2 DEF InLock, LockInv, InHeld
    <3>2. QED
      BY <1>1, <1>2, <3>1 DEF Moves
  <2>5. QED
    BY <1>1, <2>2, <2>3, <2>4 DEF InInv
<1>6. QED
  BY <1>4, <1>5 DEF InSide

LEMMA InDisownStep ==
    ASSUME InSide, NEW t \in Thread, InDisown(t), todo' = todo
    PROVE  InSide' /\ OnlyIn(t, InCode, InNames, "in")
<1> DEFINE p == "in.unlock"
<1>1. /\ pc[t] = "in.disown" /\ Moves(t, p) /\ Disown(t, "in")
      /\ UNCHANGED <<sem, cur, got, inVars>>
  BY DEF InDisown, At, Goto, Moves, callVars, consoleVars
<1>2. /\ pc[t] \in InHeld /\ p \in InLeaving /\ pc[t] \in InCode /\ p \in InCode
      /\ pc \in [Thread -> Place] /\ CallInv /\ SemInv /\ InInv
  BY <1>1 DEF InCode, InHeld, InLeaving, InSide, CallInv
<1>3. Runs(cur[t].op, p)
  BY <1>2, InRuns
<1>4. CallInv' /\ SemInv' /\ InLock' /\ OnlyIn(t, InCode, InNames, "in")
  BY <1>1, <1>2, <1>3, InGuards, LockLeft DEF InLock
<1>5. InInv'
  <2>1. \A u \in Thread : pc[u] = "in.get" <=> pc'[u] = "in.get"
    BY <1>1, <1>2 DEF Moves
  <2>2. QED
    BY <1>1, <1>2, <2>1, InApart
<1>6. QED
  BY <1>4, <1>5 DEF InSide

LEMMA InUnlockStep ==
    ASSUME InSide, NEW t \in Thread, InUnlock(t), todo' = todo
    PROVE  InSide' /\ OnlyIn(t, InCode, InNames, "in")
<1>1. /\ pc[t] = "in.unlock" /\ Moves(t, "idle") /\ V("in")
      /\ UNCHANGED <<holder, cur, got, inVars>>
  BY DEF InUnlock, At, Goto, Moves, callVars, consoleVars
<1>2. /\ pc[t] \in InLeaving /\ pc \in [Thread -> Place] /\ CallInv /\ SemInv /\ InInv
      /\ "in" \in InNames
  BY <1>1 DEF InLeaving, InSide, CallInv, InNames
<1>3. /\ CallInv' /\ SemInv' /\ InLock' /\ OnlyIn(t, InCode, InNames, "in")
      /\ \A s \in Named : s # "in" => sem'[s] = sem[s]
  BY <1>1, <1>2, InGuards, LockReturned DEF InLock
<1>4. InInv'
  <2>1. \A u \in Thread : pc[u] = "in.get" <=> pc'[u] = "in.get"
    BY <1>1, <1>2 DEF Moves
  <2>2. sem'["in.ready"] = sem["in.ready"]
    BY <1>3 DEF Named
  <2>3. QED
    BY <1>1, <1>2, <2>1, <2>2, InApart
<1>5. QED
  BY <1>3, <1>4 DEF InSide

\* A character, or the end of the input.
LEMMA ReadInterruptKeeps ==
    ASSUME InSide, ReadInterrupt \/ EndOfFile, todo' = todo
    PROVE  InInv' /\ Posted("in.ready")
<1>1. /\ readDue > 0 /\ readDue' = readDue - 1
      /\ V("in.ready") /\ UNCHANGED <<holder, pc, cur, got>>
  BY DEF ReadInterrupt, EndOfFile, callVars
<1>2. "in.ready" \in Named /\ SemInv /\ InInv
  BY DEF Named, InSide
<1>3. readDue = 1 /\ readDue' = 0
  BY <1>1, <1>2 DEF InInv
<1>4. Count("in.ready") = 0 /\ \A t \in Thread : pc[t] # "in.get"
  BY <1>2, <1>3 DEF InInv
<1>5. Posted("in.ready") /\ Count("in.ready")' = 1
  <2>1. Posted("in.ready")
    BY <1>1, <1>2, VPosts DEF Posted
  <2>2. QED
    BY <1>1, <1>2, <1>4, <2>1, PostsOne
<1>6. InInv'
  BY <1>1, <1>3, <1>4, <1>5 DEF InInv
<1>7. QED
  BY <1>5, <1>6

LEMMA ConsoleStepKeeps ==
    ASSUME OutSide, InSide, NEW t \in Thread, ConsoleStep(t), todo' = todo
    PROVE  \/ OutSide' /\ OnlyIn(t, OutCode, OutNames, "out") /\ UNCHANGED inVars
           \/ InSide' /\ OnlyIn(t, InCode, InNames, "in") /\ UNCHANGED outVars
<1>1. CASE OutAcquire(t) \/ OutPut(t) \/ OutWait(t) \/ OutDisown(t) \/ OutUnlock(t)
  <2>1. UNCHANGED inVars
    BY <1>1 DEF OutAcquire, OutPut, OutWait, OutDisown, OutUnlock, consoleVars
  <2>2. QED
    BY <1>1, <2>1, OutAcquireStep, OutPutStep, OutWaitStep, OutDisownStep, OutUnlockStep
<1>2. CASE InAcquire(t) \/ InWait(t) \/ InGet(t) \/ InDisown(t) \/ InUnlock(t)
  <2>1. UNCHANGED outVars
    BY <1>2 DEF InAcquire, InWait, InGet, InDisown, InUnlock, consoleVars
  <2>2. QED
    BY <1>2, <2>1, InAcquireStep, InWaitStep, InGetStep, InDisownStep, InUnlockStep
<1>3. QED
  BY <1>1, <1>2 DEF ConsoleStep

-----------------------------------------------------------------------------
(* The files.                                                              *)

LEMMA MinIs ==
    ASSUME NEW T, T \subseteq Nat, T # {}
    PROVE  Min(T) \in T /\ \A y \in T : Min(T) <= y
BY LeastElement DEF Min

LEMMA MaxIs ==
    ASSUME NEW a \in Nat, NEW b \in Nat
    PROVE  Max({a, b}) \in {a, b} /\ Max({a, b}) >= a /\ Max({a, b}) >= b
<1>1. \E x \in {a, b} : \A y \in {a, b} : x >= y
  <2>1. CASE a >= b
    BY <2>1
  <2>2. CASE b >= a
    BY <2>2
  <2>3. QED
    BY <2>1, <2>2
<1>2. QED
  BY <1>1 DEF Max

LEMMA LeastFreeIs ==
    ASSUME NEW S, S \subseteq Nat, IsFiniteSet(S)
    PROVE  LeastFree(S) \in Nat \ S
<1> DEFINE C == Cardinality(S)
<1>1. C \in Nat
  BY FS_CardinalityType
<1>2. IsFiniteSet(0 .. C) /\ Cardinality(0 .. C) = C + 1
  <2>1. 0 \in Int /\ C \in Int /\ ~ (0 > C)
    BY <1>1
  <2>2. IsFiniteSet(0 .. C) /\ Cardinality(0 .. C) = IF 0 > C THEN 0 ELSE C - 0 + 1
    BY <2>1, FS_Interval
  <2>3. QED
    BY <1>1, <2>1, <2>2
<1>3. (0 .. C) \ S # {}
  <2>1. SUFFICES ASSUME 0 .. C \subseteq S PROVE FALSE
    OBVIOUS
  <2>2. Cardinality(0 .. C) <= C
    BY <2>1, FS_Subset
  <2>3. QED
    BY <1>1, <1>2, <2>2
<1>4. (0 .. C) \ S \subseteq Nat
  BY <1>1
<1>5. LeastFree(S) = Min((0 .. C) \ S)
  BY DEF LeastFree
<1> HIDE DEF C
<1>6. Min((0 .. C) \ S) \in (0 .. C) \ S
  BY <1>3, <1>4, MinIs
<1>7. QED
  BY <1>1, <1>5, <1>6

LEMMA PartIs ==
    ASSUME NEW s \in Seq(Nat), NEW m \in Nat \ {0}, NEW n \in Nat, n <= Len(s)
    PROVE  SubSeq(s, m, n) \in Seq(Nat) /\ Len(SubSeq(s, m, n)) \in Nat
OBVIOUS

LEMMA ReadIs ==
    ASSUME NEW content \in Seq(Nat), NEW at \in Nat, NEW size \in Nat
    PROVE  /\ SubSeq(content, at + 1, Min({at + size, Len(content)})) \in Seq(Nat)
           /\ Len(SubSeq(content, at + 1, Min({at + size, Len(content)}))) \in Nat
<1> DEFINE n == Min({at + size, Len(content)})
<1>1. Len(content) \in Nat /\ {at + size, Len(content)} \subseteq Nat
  OBVIOUS
<1>2. n \in {at + size, Len(content)} /\ \A y \in {at + size, Len(content)} : n <= y
  BY <1>1, MinIs
<1>3. n \in Nat /\ n <= Len(content)
  BY <1>1, <1>2
<1> HIDE DEF n
<1>4. at + 1 \in Nat \ {0}
  OBVIOUS
<1>5. SubSeq(content, at + 1, n) \in Seq(Nat) /\ Len(SubSeq(content, at + 1, n)) \in Nat
  BY <1>3, <1>4, PartIs
<1>6. QED
  BY <1>5 DEF n

LEMMA OverwrittenIs ==
    ASSUME NEW content \in Seq(Nat), NEW at \in Nat, NEW bytes \in Seq(Nat)
    PROVE  Overwritten(content, at, bytes) \in Seq(Nat)
<1> DEFINE n == Max({Len(content), at + Len(bytes)})
<1>1. n \in Nat
  <2>1. Len(content) \in Nat /\ at + Len(bytes) \in Nat
    OBVIOUS
  <2>2. n \in {Len(content), at + Len(bytes)}
    BY <2>1, MaxIs
  <2>3. QED
    BY <2>1, <2>2
<1> DEFINE byte(k) == IF k - at \in DOMAIN bytes THEN bytes[k - at]
                      ELSE IF k <= Len(content) THEN content[k] ELSE Hole
<1>2. Overwritten(content, at, bytes) = [k \in 1 .. n |-> byte(k)]
  BY DEF Overwritten
<1> HIDE DEF n
<1>3. \A k \in 1 .. n : byte(k) \in Nat
  <2>1. SUFFICES ASSUME NEW k \in 1 .. n PROVE byte(k) \in Nat
    OBVIOUS
  <2>2. k \in Int /\ k >= 1
    BY <1>1
  <2>3. CASE k - at \in DOMAIN bytes
    BY <2>3
  <2>4. CASE k - at \notin DOMAIN bytes /\ k <= Len(content)
    BY <2>2, <2>4
  <2>5. CASE k - at \notin DOMAIN bytes /\ ~ (k <= Len(content))
    BY <2>5 DEF Hole
  <2>6. QED
    BY <2>3, <2>4, <2>5
<1> HIDE DEF byte
<1>4. [k \in 1 .. n |-> byte(k)] \in [1 .. n -> Nat]
  BY <1>3
<1>5. QED
  BY <1>1, <1>2, <1>4, SeqDef

FileSide == CallInv /\ SemInv /\ FileInv

\* What the statements of the file calls have in common.
LEMMA FileMoves ==
    ASSUME FileSide, NEW t \in Thread, NEW p \in {"file.return", "idle"}, pc[t] \in FileCode,
           Moves(t, p), UNCHANGED <<synchVars, cur, todo>>,
           got' = got \/ \E x : Returns(t, x)
    PROVE  CallInv' /\ SemInv' /\ OnlyIn(t, FileCode, {}, "none")
<1>1. /\ pc[t] # "idle" /\ p \in Place /\ p \in FileCode \cup {"idle"} /\ CallInv /\ SemInv
      /\ pc \in [Thread -> Place]
  BY DEF FileCode, Place, FileSide, CallInv
<1>2. p = "idle" \/ Runs(cur[t].op, p)
  <2>1. Runs(cur[t].op, pc[t])
    BY <1>1 DEF CallInv
  <2>2. cur[t].op \in FileOp
    BY <2>1, PlaceOfDisk
  <2>3. p # "idle" => p \in FileCode
    BY DEF FileCode
  <2>4. QED
    BY <2>2, <2>3 DEF Runs
<1>3. CallInv'
  BY <1>1, <1>2, CallGoesOn
<1>4. pc'[t] = p /\ \A u \in Thread : u # t => pc'[u] = pc[u]
  BY <1>1 DEF Moves
<1>5. sem' = sem /\ holder' = holder
  BY DEF synchVars
<1>6. QED
  BY <1>1, <1>3, <1>4, <1>5 DEF SemInv, OnlyIn

\* What a call of the file system is, and that it is the thread's.
LEMMA FileServes ==
    ASSUME FileSide, NEW t \in Thread, NEW op, Serves(t, op), UNCHANGED <<synchVars, cur, todo>>,
           NEW status, NEW buffer, Reply(t, status, buffer)
    PROVE  /\ CallInv' /\ SemInv' /\ OnlyIn(t, FileCode, {}, "none")
           /\ IsRequest(cur[t]) /\ cur[t].op = op
<1>1. pc[t] = "file.call" /\ Moves(t, "file.return") /\ cur[t].op = op
  BY DEF Serves, Reply, At, Goto, Moves
<1>2. pc[t] \in FileCode /\ pc[t] # "idle"
  BY <1>1 DEF FileCode
<1>3. \E x : Returns(t, x)
  BY DEF Reply
<1>4. CallInv' /\ SemInv' /\ OnlyIn(t, FileCode, {}, "none")
  BY <1>1, <1>2, <1>3, FileMoves
<1>5. cur[t] \in AllCalls
  BY <1>2 DEF FileSide, CallInv
<1>6. QED
  BY <1>1, <1>4, <1>5, WorkloadAssumption

LEMMA FileRefuses ==
    ASSUME FileSide, NEW t \in Thread, NEW op, Serves(t, op), UNCHANGED <<synchVars, cur, todo>>,
           Refuse(t)
    PROVE  FileSide' /\ OnlyIn(t, FileCode, {}, "none")
<1>1. Reply(t, -1, <<>>) /\ UNCHANGED fileVars
  BY DEF Refuse, Reply, fileVars
<1>2. QED
  BY <1>1, FileServes, FileApart DEF FileSide

\* A call that aborts stays where it is.
LEMMA FileAborts ==
    ASSUME FileSide, NEW t \in Thread, NEW op, Serves(t, op), UNCHANGED <<synchVars, cur, todo>>,
           Abort
    PROVE  /\ CallInv' /\ SemInv' /\ OnlyIn(t, FileCode, {}, "none")
           /\ IsRequest(cur[t]) /\ cur[t].op = op
<1>1. /\ pc[t] \in FileCode /\ pc[t] # "idle" /\ cur[t].op = op
      /\ pc' = pc /\ got' = got /\ sem' = sem /\ holder' = holder /\ cur' = cur /\ todo' = todo
  BY DEF Serves, At, Abort, FileCode, synchVars
<1>2. CallInv' /\ SemInv'
  BY <1>1, CallWaits DEF FileSide, SemInv
<1>3. cur[t] \in AllCalls
  BY <1>1 DEF FileSide, CallInv
<1>4. QED
  BY <1>1, <1>2, <1>3, WorkloadAssumption DEF OnlyIn

LEMMA SysCreateStep ==
    ASSUME FileSide, NEW t \in Thread, SysCreate(t), todo' = todo
    PROVE  FileSide' /\ OnlyIn(t, FileCode, {}, "none")
<1>1. /\ Serves(t, "Create") /\ UNCHANGED <<synchVars, cur, todo>>
      /\ \/ hostFiles' = With(hostFiles, cur[t].arg, <<>>) /\ Reply(t, 1, <<>>)
         \/ hostFiles' = hostFiles /\ Abort
      /\ hostOpen' = hostOpen /\ OpenFileTable' = OpenFileTable /\ FileInv
  BY DEF SysCreate, OpenForWrite, FileSide
<1>2. CallInv' /\ SemInv' /\ OnlyIn(t, FileCode, {}, "none")
  BY <1>1, FileServes, FileAborts
<1>3. /\ DOMAIN hostFiles \subseteq DOMAIN hostFiles'
      /\ hostFiles' \in [DOMAIN hostFiles' -> Seq(Nat)]
  <2>1. hostFiles \in [DOMAIN hostFiles -> Seq(Nat)] /\ <<>> \in Seq(Nat)
    BY <1>1 DEF FileInv
  <2>2. CASE hostFiles' = With(hostFiles, cur[t].arg, <<>>)
    BY <2>1, <2>2 DEF With
  <2>3. QED
    BY <1>1, <2>1, <2>2
<1>4. hostOpen' \in [DOMAIN hostOpen' -> DOMAIN hostFiles']
  BY <1>1, <1>3 DEF FileInv
<1>5. FileInv'
  BY <1>1, <1>3, <1>4 DEF FileInv
<1>6. QED
  BY <1>2, <1>5 DEF FileSide

LEMMA SysOpenStep ==
    ASSUME FileSide, NEW t \in Thread, SysOpen(t), todo' = todo
    PROVE  FileSide' /\ OnlyIn(t, FileCode, {}, "none")
<1> DEFINE name == cur[t].arg
           id == LeastFree(DOMAIN OpenFileTable)
           fd == LeastFree(DOMAIN hostOpen)
<1>1. /\ Serves(t, "Open") /\ UNCHANGED <<synchVars, cur, todo>> /\ FileInv
      /\ \/ Refuse(t)
         \/ /\ id < NumOpen /\ name \in DOMAIN hostFiles
            /\ hostOpen' = With(hostOpen, fd, name)
            /\ OpenFileTable' = With(OpenFileTable, id, [file |-> fd, currentOffset |-> 0])
            /\ Reply(t, id, <<>>)
            /\ hostFiles' = hostFiles
  BY DEF SysOpen, OpenForReadWrite, FileSide
<1>2. CASE Refuse(t)
  BY <1>1, <1>2, FileRefuses
<1>3. CASE /\ id < NumOpen /\ name \in DOMAIN hostFiles
           /\ hostOpen' = With(hostOpen, fd, name)
           /\ OpenFileTable' = With(OpenFileTable, id, [file |-> fd, currentOffset |-> 0])
           /\ Reply(t, id, <<>>)
           /\ hostFiles' = hostFiles
  <2>1. fd \in Nat \ DOMAIN hostOpen
    BY <1>1, LeastFreeIs DEF FileInv
  <2>2. id \in Nat \ DOMAIN OpenFileTable
    <3>1. DOMAIN OpenFileTable \subseteq Nat /\ NumOpen \in Nat
      BY <1>1, FileAssumption DEF FileInv
    <3>2. IsFiniteSet(0 .. NumOpen - 1)
      BY <3>1, FS_Interval
    <3>3. IsFiniteSet(DOMAIN OpenFileTable)
      BY <1>1, <3>2, FS_Subset DEF FileInv
    <3>4. QED
      BY <3>1, <3>3, LeastFreeIs
  <2>3. CallInv' /\ SemInv' /\ OnlyIn(t, FileCode, {}, "none")
    BY <1>1, <1>3, FileServes
  <2> HIDE DEF id, fd, name
  <2>4. /\ DOMAIN hostOpen' = DOMAIN hostOpen \cup {fd}
        /\ hostOpen' \in [DOMAIN hostOpen' -> DOMAIN hostFiles']
    <3>1. hostOpen \in [DOMAIN hostOpen -> DOMAIN hostFiles]
      BY <1>1 DEF FileInv
    <3>2. QED
      BY <1>3, <3>1 DEF With
  <2>5. DOMAIN hostOpen' \subseteq Nat /\ IsFiniteSet(DOMAIN hostOpen')
    BY <1>1, <2>1, <2>4, FS_AddElement DEF FileInv
  <2>6. /\ DOMAIN OpenFileTable' = DOMAIN OpenFileTable \cup {id}
        /\ OpenFileTable'[id] = [file |-> fd, currentOffset |-> 0]
        /\ \A x \in DOMAIN OpenFileTable : x # id /\ OpenFileTable'[x] = OpenFileTable[x]
        /\ OpenFileTable' \in
              [DOMAIN OpenFileTable' -> [file : DOMAIN hostOpen', currentOffset : Offset]]
    <3>1. OpenFileTable \in
              [DOMAIN OpenFileTable -> [file : DOMAIN hostOpen, currentOffset : Offset]]
      BY <1>1 DEF FileInv
    <3>2. [file |-> fd, currentOffset |-> 0] \in [file : DOMAIN hostOpen', currentOffset : Offset]
      BY <2>4 DEF Offset
    <3>3. [file : DOMAIN hostOpen, currentOffset : Offset]
            \subseteq [file : DOMAIN hostOpen', currentOffset : Offset]
      BY <2>4
    <3>4. QED
      BY <1>3, <2>2, <3>1, <3>2, <3>3 DEF With
  <2>7. DOMAIN OpenFileTable' \subseteq 0 .. NumOpen - 1
    <3>1. id \in 0 .. NumOpen - 1
      BY <1>3, <2>2, FileAssumption
    <3>2. QED
      BY <1>1, <2>6, <3>1 DEF FileInv
  <2>8. \A x, y \in DOMAIN OpenFileTable' :
           OpenFileTable'[x].file = OpenFileTable'[y].file => x = y
    <3>1. \A x \in DOMAIN OpenFileTable : OpenFileTable[x].file \in DOMAIN hostOpen
      BY <1>1 DEF FileInv
    <3>2. \A x \in DOMAIN OpenFileTable : OpenFileTable[x].file # fd
      BY <2>1, <3>1
    <3>3. OpenFileTable'[id].file = fd
      BY <2>6
    <3>4. \A x, y \in DOMAIN OpenFileTable :
             OpenFileTable[x].file = OpenFileTable[y].file => x = y
      BY <1>1 DEF FileInv
    <3>5. QED
      BY <2>6, <3>2, <3>3, <3>4
  <2>9. FileInv'
    <3>1. hostFiles' \in [DOMAIN hostFiles' -> Seq(Nat)]
      BY <1>1, <1>3 DEF FileInv
    <3>2. QED
      BY <2>4, <2>5, <2>6, <2>7, <2>8, <3>1 DEF FileInv
  <2>10. QED
    BY <2>3, <2>9 DEF FileSide
<1>4. QED
  BY <1>1, <1>2, <1>3

\* The OpenFile of an entry, which has its file of the host.
LEMMA EntryIs ==
    ASSUME FileInv, NEW id \in DOMAIN OpenFileTable
    PROVE  /\ OpenFileTable[id].file \in DOMAIN hostOpen
           /\ OpenFileTable[id].currentOffset \in Offset
           /\ hostOpen[OpenFileTable[id].file] \in DOMAIN hostFiles
           /\ hostFiles[hostOpen[OpenFileTable[id].file]] \in Seq(Nat)
<1>1. OpenFileTable[id] \in [file : DOMAIN hostOpen, currentOffset : Offset]
  BY DEF FileInv
<1>2. hostOpen[OpenFileTable[id].file] \in DOMAIN hostFiles
  BY <1>1 DEF FileInv
<1>3. QED
  BY <1>1, <1>2 DEF FileInv

\* The position of an OpenFile moves, from the file on or back by one.
LEMMA AdvanceKeeps ==
    ASSUME FileInv, NEW id \in DOMAIN OpenFileTable, Lseek(id),
           NEW moved \in Offset, Advance(id, moved),
           hostOpen' = hostOpen, DOMAIN hostFiles' = DOMAIN hostFiles,
           hostFiles' \in [DOMAIN hostFiles' -> Seq(Nat)]
    PROVE  FileInv'
<1>1. /\ OpenFileTable \in
              [DOMAIN OpenFileTable -> [file : DOMAIN hostOpen, currentOffset : Offset]]
      /\ OpenFileTable[id].currentOffset + moved \in Offset
  BY EntryIs DEF FileInv, Lseek, Offset
<1> DEFINE moving == [OpenFileTable[id] EXCEPT !.currentOffset =
                           OpenFileTable[id].currentOffset + moved]
<1>2. OpenFileTable' = [OpenFileTable EXCEPT ![id] = moving]
  BY DEF Advance
<1> moving \in [file : DOMAIN hostOpen, currentOffset : Offset] /\ moving.file = OpenFileTable[id].file
  <2>1. OpenFileTable[id] \in [file : DOMAIN hostOpen, currentOffset : Offset]
    BY <1>1
  <2>2. QED
    BY <1>1, <2>1
<1> HIDE DEF moving
<1>3. /\ DOMAIN OpenFileTable' = DOMAIN OpenFileTable
      /\ OpenFileTable' \in
            [DOMAIN OpenFileTable' -> [file : DOMAIN hostOpen', currentOffset : Offset]]
      /\ \A x \in DOMAIN OpenFileTable : OpenFileTable'[x].file = OpenFileTable[x].file
  BY <1>1, <1>2
<1>4. hostOpen' \in [DOMAIN hostOpen' -> DOMAIN hostFiles']
  BY DEF FileInv
<1>5. QED
  BY <1>3, <1>4 DEF FileInv

\* Files that are written keep their type.
LEMMA WriteKeeps ==
    ASSUME FileInv, NEW id \in DOMAIN OpenFileTable, Lseek(id), NEW bytes \in Seq(Nat),
           WriteFile(OpenFileTable[id].file, bytes, OpenFileTable[id].currentOffset)
    PROVE  /\ DOMAIN hostFiles' = DOMAIN hostFiles
           /\ hostFiles' \in [DOMAIN hostFiles' -> Seq(Nat)]
<1> DEFINE at == OpenFileTable[id].currentOffset
           name == hostOpen[OpenFileTable[id].file]
<1>1. at \in Nat /\ name \in DOMAIN hostFiles /\ hostFiles[name] \in Seq(Nat)
  BY EntryIs DEF Lseek, Offset
<1>2. Overwritten(hostFiles[name], at, bytes) \in Seq(Nat)
  BY <1>1, OverwrittenIs
<1>3. hostFiles' = IF bytes = <<>> THEN hostFiles
                   ELSE [hostFiles EXCEPT ![name] = Overwritten(hostFiles[name], at, bytes)]
  BY DEF WriteFile
<1>4. hostFiles \in [DOMAIN hostFiles -> Seq(Nat)]
  BY DEF FileInv
<1> HIDE DEF name, at
<1>5. QED
  BY <1>2, <1>3, <1>4

\* A refused transfer.
LEMMA SlipStep ==
    ASSUME FileSide, NEW t \in Thread, NEW op, Serves(t, op), UNCHANGED <<synchVars, cur, todo>>,
           NEW id \in DOMAIN OpenFileTable, Lseek(id), Slip(t, id),
           UNCHANGED <<hostFiles, hostOpen>>
    PROVE  FileSide' /\ OnlyIn(t, FileCode, {}, "none")
<1>1. Advance(id, -1) /\ Reply(t, -1, <<>>) /\ FileInv
  BY DEF Slip, FileSide
<1>2. CallInv' /\ SemInv' /\ OnlyIn(t, FileCode, {}, "none")
  BY <1>1, FileServes
<1>3. -1 \in Offset /\ hostFiles' \in [DOMAIN hostFiles' -> Seq(Nat)]
  BY <1>1 DEF Offset, FileInv
<1>4. FileInv'
  BY <1>1, <1>3, AdvanceKeeps
<1>5. QED
  BY <1>2, <1>4 DEF FileSide

LEMMA SysReadStep ==
    ASSUME FileSide, NEW t \in Thread, SysRead(t), todo' = todo
    PROVE  FileSide' /\ OnlyIn(t, FileCode, {}, "none")
<1> DEFINE id == cur[t].arg.id
           at == OpenFileTable[id].currentOffset
           bytes == ReadPartial(OpenFileTable[id].file, cur[t].arg.size, at)
           Gets == /\ id \in DOMAIN OpenFileTable /\ Lseek(id) /\ cur[t].arg.size >= 0
                   /\ Advance(id, Len(bytes)) /\ Reply(t, Transferred(bytes), bytes)
                   /\ UNCHANGED <<hostFiles, hostOpen>>
<1>1. /\ Serves(t, "Read") /\ UNCHANGED <<synchVars, cur, todo>> /\ FileInv
      /\ \/ Refuse(t)
         \/ Abort /\ UNCHANGED tables
         \/ Gets
         \/ /\ id \in DOMAIN OpenFileTable /\ Lseek(id) /\ Slip(t, id)
            /\ UNCHANGED <<hostFiles, hostOpen>>
  BY DEF SysRead, FileSide, tables
<1>2. CASE Refuse(t)
  BY <1>1, <1>2, FileRefuses
<1>3. CASE Gets
  <2>1. /\ CallInv' /\ SemInv' /\ OnlyIn(t, FileCode, {}, "none")
        /\ IsRequest(cur[t]) /\ cur[t].op = "Read"
    BY <1>1, <1>3, FileServes
  <2>2. cur[t].arg.size \in Nat
    BY <1>3, <2>1 DEF IsRequest
  <2>3. Len(bytes) \in Offset
    <3>1. /\ hostFiles[hostOpen[OpenFileTable[id].file]] \in Seq(Nat)
          /\ at \in Nat
      BY <1>1, <1>3, EntryIs DEF Lseek, Offset
    <3>2. Len(bytes) \in Nat
      BY <2>2, <3>1, ReadIs DEF ReadPartial
    <3>3. QED
      BY <3>2 DEF Offset
  <2>4. FileInv'
    <3>1. hostFiles' \in [DOMAIN hostFiles' -> Seq(Nat)]
      BY <1>1, <1>3 DEF FileInv
    <3>2. QED
      BY <1>1, <1>3, <2>3, <3>1, AdvanceKeeps
  <2>5. QED
    BY <2>1, <2>4 DEF FileSide
<1>4. CASE Abort /\ UNCHANGED tables
  BY <1>1, <1>4, FileAborts DEF FileSide, FileInv, tables
<1>5. CASE /\ id \in DOMAIN OpenFileTable /\ Lseek(id) /\ Slip(t, id)
           /\ UNCHANGED <<hostFiles, hostOpen>>
  BY <1>1, <1>5, SlipStep
<1>6. QED
  BY <1>1, <1>2, <1>3, <1>4, <1>5

LEMMA SysWriteStep ==
    ASSUME FileSide, NEW t \in Thread, SysWrite(t), todo' = todo
    PROVE  FileSide' /\ OnlyIn(t, FileCode, {}, "none")
<1> DEFINE id == cur[t].arg.id
           at == OpenFileTable[id].currentOffset
           fd == OpenFileTable[id].file
           bytes == cur[t].arg.bytes
           Open == id \in DOMAIN OpenFileTable /\ Lseek(id) /\ hostOpen' = hostOpen
           Puts == /\ Open /\ WriteFile(fd, bytes, at)
                   /\ Advance(id, Len(bytes)) /\ Reply(t, Transferred(bytes), <<>>)
           Cuts == /\ Open /\ Abort /\ OpenFileTable' = OpenFileTable
                   /\ \E k \in 0 .. Len(bytes) : WriteFile(fd, SubSeq(bytes, 1, k), at)
<1>1. /\ Serves(t, "Write") /\ UNCHANGED <<synchVars, cur, todo>> /\ FileInv
      /\ \/ Refuse(t)
         \/ Abort /\ UNCHANGED tables
         \/ Puts
         \/ Open /\ Slip(t, id) /\ hostFiles' = hostFiles
         \/ Cuts
  BY DEF SysWrite, FileSide, tables
<1>2. bytes \in Seq(Nat) /\ Len(bytes) \in Offset
  <2>1. cur[t] \in AllCalls /\ cur[t].op = "Write"
    BY <1>1 DEF Serves, At, FileSide, CallInv
  <2>2. bytes \in Seq(Nat)
    BY <2>1, WorkloadAssumption DEF IsRequest
  <2>3. QED
    BY <2>2 DEF Offset
<1>3. CASE Refuse(t)
  BY <1>1, <1>3, FileRefuses
<1>4. CASE Puts
  <2>1. CallInv' /\ SemInv' /\ OnlyIn(t, FileCode, {}, "none")
    BY <1>1, <1>4, FileServes
  <2>2. FileInv'
    BY <1>1, <1>2, <1>4, WriteKeeps, AdvanceKeeps
  <2>3. QED
    BY <2>1, <2>2 DEF FileSide
<1>5. CASE Abort /\ UNCHANGED tables
  BY <1>1, <1>5, FileAborts DEF FileSide, FileInv, tables
<1>6. CASE Open /\ Slip(t, id) /\ hostFiles' = hostFiles
  BY <1>1, <1>6, SlipStep
<1>7. CASE Cuts
  <2>1. CallInv' /\ SemInv' /\ OnlyIn(t, FileCode, {}, "none")
    BY <1>1, <1>7, FileAborts
  <2>2. PICK k \in 0 .. Len(bytes) : WriteFile(fd, SubSeq(bytes, 1, k), at)
    BY <1>7
  <2>3. SubSeq(bytes, 1, k) \in Seq(Nat)
    <3>1. k \in Nat /\ k <= Len(bytes) /\ Len(bytes) \in Nat
      BY <1>2, <2>2
    <3>2. QED
      BY <1>2, <3>1, PartIs
  <2>4. DOMAIN hostFiles' = DOMAIN hostFiles /\ hostFiles' \in [DOMAIN hostFiles' -> Seq(Nat)]
    BY <1>1, <1>7, <2>2, <2>3, WriteKeeps
  <2>5. FileInv'
    BY <1>1, <1>7, <2>4 DEF FileInv
  <2>6. QED
    BY <2>1, <2>5 DEF FileSide
<1>8. QED
  BY <1>1, <1>3, <1>4, <1>5, <1>6, <1>7

LEMMA SysCloseStep ==
    ASSUME FileSide, NEW t \in Thread, SysClose(t), todo' = todo
    PROVE  FileSide' /\ OnlyIn(t, FileCode, {}, "none")
<1> DEFINE id == cur[t].arg.id
           fd == OpenFileTable[id].file
<1>1. /\ Serves(t, "Close") /\ UNCHANGED <<synchVars, cur, todo>> /\ FileInv
      /\ \/ Refuse(t)
         \/ /\ id \in DOMAIN OpenFileTable
            /\ hostOpen' = Without(hostOpen, fd)
            /\ OpenFileTable' = Without(OpenFileTable, id)
            /\ Reply(t, 1, <<>>)
            /\ hostFiles' = hostFiles
  BY DEF SysClose, CloseHost, FileSide
<1>2. CASE Refuse(t)
  BY <1>1, <1>2, FileRefuses
<1>3. CASE /\ id \in DOMAIN OpenFileTable
           /\ hostOpen' = Without(hostOpen, fd)
           /\ OpenFileTable' = Without(OpenFileTable, id)
           /\ Reply(t, 1, <<>>)
           /\ hostFiles' = hostFiles
  <2>1. CallInv' /\ SemInv' /\ OnlyIn(t, FileCode, {}, "none")
    BY <1>1, <1>3, FileServes
  <2>2. \A x \in DOMAIN OpenFileTable : x # id => OpenFileTable[x].file # fd
    BY <1>1, <1>3 DEF FileInv
  <2> HIDE DEF id, fd
  <2>3. /\ DOMAIN hostOpen' = DOMAIN hostOpen \ {fd}
        /\ hostOpen' \in [DOMAIN hostOpen' -> DOMAIN hostFiles']
    <3>1. hostOpen \in [DOMAIN hostOpen -> DOMAIN hostFiles]
      BY <1>1 DEF FileInv
    <3>2. QED
      BY <1>3, <3>1 DEF Without
  <2>4. DOMAIN hostOpen' \subseteq Nat /\ IsFiniteSet(DOMAIN hostOpen')
    BY <1>1, <2>3, FS_Subset DEF FileInv
  <2>5. /\ DOMAIN OpenFileTable' = DOMAIN OpenFileTable \ {id}
        /\ \A x \in DOMAIN OpenFileTable' : OpenFileTable'[x] = OpenFileTable[x]
    BY <1>3 DEF Without
  <2>6. OpenFileTable' \in
            [DOMAIN OpenFileTable' -> [file : DOMAIN hostOpen', currentOffset : Offset]]
    <3>1. \A x \in DOMAIN OpenFileTable :
             OpenFileTable[x] \in [file : DOMAIN hostOpen, currentOffset : Offset]
      BY <1>1 DEF FileInv
    <3>2. \A x \in DOMAIN OpenFileTable' :
             OpenFileTable[x] \in [file : DOMAIN hostOpen', currentOffset : Offset]
      BY <2>2, <2>3, <2>5, <3>1
    <3>3. OpenFileTable' = [x \in DOMAIN OpenFileTable' |-> OpenFileTable[x]]
      BY <1>3, <2>5 DEF Without
    <3>4. QED
      BY <3>2, <3>3
  <2>7. \A x, y \in DOMAIN OpenFileTable' :
           OpenFileTable'[x].file = OpenFileTable'[y].file => x = y
    BY <1>1, <2>5 DEF FileInv
  <2>8. FileInv'
    BY <1>1, <1>3, <2>3, <2>4, <2>5, <2>6, <2>7 DEF FileInv
  <2>9. QED
    BY <2>1, <2>8 DEF FileSide
<1>4. QED
  BY <1>1, <1>2, <1>3

LEMMA FileStepKeeps ==
    ASSUME FileSide, NEW t \in Thread, FileStep(t), todo' = todo
    PROVE  FileSide' /\ OnlyIn(t, FileCode, {}, "none")
<1>1. CASE SysReturn(t)
  <2>1. /\ pc[t] = "file.return" /\ Moves(t, "idle")
        /\ UNCHANGED <<synchVars, cur, got, todo, fileVars>>
    BY <1>1 DEF SysReturn, At, Goto, Moves, callVars
  <2>2. pc[t] \in FileCode
    BY <2>1 DEF FileCode
  <2>3. QED
    BY <2>1, <2>2, FileMoves, FileApart DEF FileSide
<1>2. QED
  BY <1>1, SysCreateStep, SysOpenStep, SysReadStep, SysWriteStep, SysCloseStep DEF FileStep

-----------------------------------------------------------------------------
(* A step of one object leaves the others alone.                           *)

LEMMA DiskSideApart ==
    ASSUME NEW t \in Thread, NEW code, NEW names, NEW lock, OnlyIn(t, code, names, lock),
           DiskLock, DiskInv, code \cap DiskCode = {}, names \cap DiskNames = {},
           lock # "disk", UNCHANGED diskVars
    PROVE  DiskLock' /\ DiskInv'
<1>1. /\ "disk" \in Lock /\ "disk" \notin names /\ "disk.done" \notin names
      /\ "disk.done" \in Named /\ (DiskHeld \cup DiskLeaving) \cap code = {}
      /\ "idle" \notin DiskHeld \cup DiskLeaving /\ "disk.wait" \notin code
  BY DEF Lock, Named, DiskNames, DiskCode, DiskHeld, DiskLeaving
<1>2. DiskLock'
  BY <1>1, LockApart DEF DiskLock
<1>3. sem'["disk.done"] = sem["disk.done"]
  BY <1>1 DEF OnlyIn
<1>4. \A u \in Thread : pc[u] = "disk.wait" => pc'[u] = "disk.wait"
  BY <1>1 DEF OnlyIn
<1>5. QED
  BY <1>2, <1>3, <1>4, DiskApart

LEMMA OutSideApart ==
    ASSUME NEW t \in Thread, NEW code, NEW names, NEW lock, OnlyIn(t, code, names, lock),
           OutLock, OutInv, code \cap OutCode = {}, names \cap OutNames = {},
           lock # "out", UNCHANGED outVars
    PROVE  OutLock' /\ OutInv'
<1>1. /\ "out" \in Lock /\ "out" \notin names /\ "out.done" \notin names
      /\ "out.done" \in Named /\ (OutHeld \cup OutLeaving) \cap code = {}
      /\ "idle" \notin OutHeld \cup OutLeaving /\ "out.wait" \notin code
  BY DEF Lock, Named, OutNames, OutCode, OutHeld, OutLeaving
<1>2. OutLock'
  BY <1>1, LockApart DEF OutLock
<1>3. sem'["out.done"] = sem["out.done"]
  BY <1>1 DEF OnlyIn
<1>4. \A u \in Thread : pc[u] = "out.wait" => pc'[u] = "out.wait"
  BY <1>1 DEF OnlyIn
<1>5. QED
  BY <1>2, <1>3, <1>4, OutApart

LEMMA InSideApart ==
    ASSUME NEW t \in Thread, NEW code, NEW names, NEW lock, OnlyIn(t, code, names, lock),
           InLock, InInv, code \cap InCode = {}, names \cap InNames = {},
           lock # "in", UNCHANGED inVars
    PROVE  InLock' /\ InInv'
<1>1. /\ "in" \in Lock /\ "in" \notin names /\ "in.ready" \notin names
      /\ "in.ready" \in Named /\ (InHeld \cup InLeaving) \cap code = {}
      /\ "idle" \notin InHeld \cup InLeaving /\ "in.get" \notin code \cup {"idle"}
  BY DEF Lock, Named, InNames, InCode, InHeld, InLeaving
<1>2. InLock'
  BY <1>1, LockApart DEF InLock
<1>3. sem'["in.ready"] = sem["in.ready"]
  BY <1>1 DEF OnlyIn
<1>4. \A u \in Thread : pc[u] = "in.get" <=> pc'[u] = "in.get"
  BY <1>1 DEF OnlyIn
<1>5. QED
  BY <1>2, <1>3, <1>4, InApart

\* A thread that collects is in the code of a list.
LEMMA CollectingRuns ==
    ASSUME CallInv, NEW t \in Collecting
    PROVE  pc[t] \in ListCode
<1>1. pc[t] # "idle" /\ t \in Thread /\ (cur[t].op = "RemoveFront" \/ pc[t] = "append.signal")
  BY DEF Collecting
<1>2. Runs(cur[t].op, pc[t])
  BY <1>1 DEF CallInv
<1>3. CASE pc[t] = "append.signal"
  BY <1>3 DEF ListCode, ListHeld
<1>4. CASE cur[t].op = "RemoveFront"
  BY <1>2, <1>4 DEF Runs, ListCode, ListHeld, ListLeaving, FileOp
<1>5. QED
  BY <1>1, <1>3, <1>4

LEMMA ListSideApart ==
    ASSUME CallInv, CallInv', NEW t \in Thread, NEW code, NEW names, NEW lock,
           OnlyIn(t, code, names, lock), ListLock, ListInv, NoLostSignal,
           code \cap ListCode = {}, "list" \notin names, lock # "list",
           UNCHANGED <<cur, listVars>>
    PROVE  ListLock' /\ ListInv' /\ NoLostSignal'
<1>1. /\ "list" \in Lock /\ (ListHeld \cup ListLeaving) \cap code = {}
      /\ "idle" \notin ListHeld \cup ListLeaving /\ Waiting \cap code = {}
      /\ "remove.wait" \notin code \cup {"idle"} /\ "remove.take" \notin code \cup {"idle"}
  BY DEF Lock, ListCode, ListHeld, ListLeaving, Waiting
<1>2. ListLock'
  BY <1>1, LockApart DEF ListLock
<1>3. /\ \A u \in Thread : pc[u] \in Waiting => pc'[u] = pc[u]
      /\ \A u \in Thread : pc'[u] \in {"remove.wait", "remove.take"} => pc'[u] = pc[u]
  BY <1>1 DEF OnlyIn
<1>4. ListInv'
  BY <1>3, ListApart
<1>5. list' = list /\ waitQueue' = waitQueue /\ cur' = cur
  BY DEF listVars
<1>6. Collecting \subseteq Collecting'
  <2>1. SUFFICES ASSUME NEW u \in Collecting PROVE u \in Collecting'
    OBVIOUS
  <2>2. u \in Thread /\ pc[u] \in ListCode
    BY CollectingRuns DEF Collecting
  <2>3. pc'[u] = pc[u]
    BY <2>2 DEF OnlyIn
  <2>4. QED
    BY <1>5, <2>2, <2>3 DEF Collecting
<1>7. QED
  BY <1>2, <1>4, <1>5, <1>6, SignalApart

LEMMA CurKept ==
    ASSUME NEW t \in Thread, ListStep(t) \/ DiskStep(t) \/ ConsoleStep(t) \/ FileStep(t)
    PROVE  cur' = cur
<1>1. CASE ListStep(t)
  BY <1>1 DEF ListStep, ListAcquire, AppendPut, AppendSignal, RemoveTest, RemoveTake, RemoveWait,
              RemoveUnlock, RemoveSleep, ApplyRun, ListDisown, ListUnlock, callVars
<1>2. CASE DiskStep(t)
  BY <1>2 DEF DiskStep, DiskAcquire, ReadRequest, WriteRequest, DiskWait, DiskDisown, DiskUnlock,
              callVars
<1>3. CASE ConsoleStep(t)
  BY <1>3 DEF ConsoleStep, OutAcquire, OutPut, OutWait, OutDisown, OutUnlock, InAcquire, InWait,
              InGet, InDisown, InUnlock, callVars
<1>4. CASE FileStep(t)
  BY <1>4 DEF FileStep, SysCreate, SysOpen, SysRead, SysWrite, SysClose, SysReturn, callVars
<1>5. QED
  BY <1>1, <1>2, <1>3, <1>4

LEMMA CodesApart ==
    /\ ListCode \cap DiskCode = {} /\ ListCode \cap OutCode = {} /\ ListCode \cap InCode = {}
    /\ DiskCode \cap OutCode = {} /\ DiskCode \cap InCode = {} /\ OutCode \cap InCode = {}
    /\ FileCode \cap ListCode = {} /\ FileCode \cap DiskCode = {}
    /\ FileCode \cap OutCode = {} /\ FileCode \cap InCode = {}
    /\ DiskCode \cap ListCode = {} /\ OutCode \cap ListCode = {} /\ InCode \cap ListCode = {}
    /\ OutCode \cap DiskCode = {} /\ InCode \cap DiskCode = {} /\ InCode \cap OutCode = {}
BY DEF ListCode, ListHeld, ListLeaving, DiskCode, DiskHeld, DiskLeaving, OutCode, OutHeld,
       OutLeaving, InCode, InHeld, InLeaving, FileCode

LEMMA NamesApart ==
    /\ {"list"} \cap DiskNames = {} /\ {"list"} \cap OutNames = {} /\ {"list"} \cap InNames = {}
    /\ DiskNames \cap OutNames = {} /\ DiskNames \cap InNames = {} /\ OutNames \cap InNames = {}
    /\ OutNames \cap DiskNames = {} /\ InNames \cap DiskNames = {} /\ InNames \cap OutNames = {}
    /\ "list" \notin DiskNames /\ "list" \notin OutNames /\ "list" \notin InNames
BY DEF DiskNames, OutNames, InNames

-----------------------------------------------------------------------------
(* The steps of the system.                                                *)

LEMMA InitKernel == Init => KernelInv
<1> SUFFICES ASSUME Init PROVE KernelInv
  OBVIOUS
<1>1. CallInv
  <2>1. pc \in [Thread -> Place] /\ \A t \in Thread : pc[t] = "idle"
    BY DEF Init, Place
  <2>2. {t \in Thread : pc[t] # "idle"} = {}
    BY <2>1
  <2>3. IsFiniteSet({t \in Thread : pc[t] # "idle"})
    BY <2>2, FS_EmptySet
  <2>4. todo \in [Thread -> Seq(AllCalls)]
    BY WorkloadAssumption DEF Init
  <2>5. cur = [t \in Thread |-> cur[t]] /\ got = [t \in Thread |-> got[t]]
    BY DEF Init
  <2>6. QED
    BY <2>1, <2>3, <2>4, <2>5 DEF CallInv
<1>2. SemInv /\ \A s \in Named : sem[s].value = IF s \in Lock THEN 1 ELSE 0
  BY DEF Init, SemInv, Named, NewSemaphore
<1>3. \A t \in Thread : pc[t] = "idle"
  BY DEF Init
<1>4. ListLock /\ DiskLock /\ OutLock /\ InLock
  <2>1. \A l \in Lock : sem[l].value = 1
    BY <1>2 DEF Named
  <2>2. /\ sem["list"].value = 1 /\ sem["disk"].value = 1 /\ sem["out"].value = 1
        /\ sem["in"].value = 1
    BY <2>1 DEF Lock
  <2>3. QED
    BY <1>3, <2>2 DEF ListLock, DiskLock, OutLock, InLock, LockInv, ListHeld, ListLeaving, DiskHeld,
                      DiskLeaving, OutHeld, OutLeaving, InHeld, InLeaving
<1>5. Count("disk.done") = 0 /\ Count("out.done") = 0 /\ Count("in.ready") = 0
  BY <1>2 DEF Named, Lock, Count
<1>6. DiskInv /\ OutInv /\ InInv
  BY <1>3, <1>5 DEF Init, DiskInit, ConsoleInit, DiskInv, OutInv, InInv
<1>7. ListInv /\ NoLostSignal
  BY <1>3 DEF Init, ListInit, ListInv, NoLostSignal, NewSemaphore
<1>8. FileInv
  <2>1. /\ hostFiles = Existing /\ hostOpen = <<>> /\ OpenFileTable = <<>>
        /\ DOMAIN hostOpen = {} /\ DOMAIN OpenFileTable = {}
    BY DEF Init, FileInit
  <2>2. IsFiniteSet(DOMAIN hostOpen)
    BY <2>1, FS_EmptySet
  <2>3. hostOpen \in [{} -> DOMAIN hostFiles]
        /\ OpenFileTable \in [{} -> [file : DOMAIN hostOpen, currentOffset : Offset]]
    BY <2>1
  <2>4. QED
    BY <2>1, <2>2, <2>3, FileAssumption DEF FileInv
<1>9. QED
  BY <1>1, <1>2, <1>4, <1>6, <1>7, <1>8 DEF KernelInv

\* Where a call begins.
LEMMA EntryRuns ==
    ASSUME NEW c, IsRequest(c)
    PROVE  /\ Entry(c.op) \in {"append.acquire", "remove.acquire", "apply.acquire", "disk.acquire",
                               "out.acquire", "in.acquire", "file.call"}
           /\ Runs(c.op, Entry(c.op))
BY DEF IsRequest, Entry, Runs, DiskCode, OutCode, InCode, FileCode, FileOp

LEMMA CallKeeps ==
    ASSUME KernelInv, NEW t \in Thread, Call(t)
    PROVE  KernelInv'
<1> DEFINE c == Head(todo[t])
           p == Entry(c.op)
<1>1. /\ pc[t] = "idle" /\ todo[t] # <<>> /\ Moves(t, p)
      /\ cur' = [cur EXCEPT ![t] = c]
      /\ todo' = [todo EXCEPT ![t] = Tail(todo[t])]
      /\ got' = [got EXCEPT ![t] = NoItem]
      /\ UNCHANGED <<sem, holder, listVars, diskVars, outVars, inVars, fileVars>>
  BY DEF Call, At, Goto, Moves, synchVars, consoleVars
<1>2. /\ pc \in [Thread -> Place] /\ CallInv /\ SemInv /\ todo[t] \in Seq(AllCalls)
  BY DEF KernelInv, CallInv
<1>3. c \in AllCalls /\ Tail(todo[t]) \in Seq(AllCalls)
  BY <1>1, <1>2
<1>4. /\ p \in {"append.acquire", "remove.acquire", "apply.acquire", "disk.acquire",
                "out.acquire", "in.acquire", "file.call"}
      /\ Runs(c.op, p)
  BY <1>3, WorkloadAssumption, EntryRuns
<1> HIDE DEF c, p
<1>5. /\ p \in Place /\ p # "idle"
      /\ p \notin ListHeld \cup ListLeaving \cup DiskHeld \cup DiskLeaving
                    \cup OutHeld \cup OutLeaving \cup InHeld \cup InLeaving
      /\ p \notin {"remove.wait", "remove.take", "in.get", "append.signal", "list.disown",
                   "list.unlock"}
      /\ p \notin Waiting
  BY <1>4 DEF Place, ListCode, ListHeld, ListLeaving, DiskCode, DiskHeld, DiskLeaving, OutCode,
              OutHeld, OutLeaving, InCode, InHeld, InLeaving, FileCode, Waiting
<1>6. pc'[t] = p /\ \A u \in Thread : u # t => pc'[u] = pc[u]
  BY <1>1, <1>2 DEF Moves
<1>7. CallInv'
  <2>1. cur'[t] = c /\ \A u \in Thread : u # t => cur'[u] = cur[u]
    BY <1>1, <1>2 DEF CallInv
  <2>2. /\ pc' \in [Thread -> Place] /\ todo' \in [Thread -> Seq(AllCalls)]
        /\ cur' = [u \in Thread |-> cur'[u]] /\ got' = [u \in Thread |-> got'[u]]
    BY <1>1, <1>2, <1>3, <1>5 DEF CallInv, Moves
  <2> DEFINE Busy == {u \in Thread : pc[u] # "idle"}
  <2>3. Busy' = Busy \cup {t} /\ IsFiniteSet(Busy)
    <3>1. \A u \in Thread : pc'[u] # "idle" <=> pc[u] # "idle" \/ u = t
      BY <1>5, <1>6
    <3>2. QED
      BY <1>2, <3>1 DEF CallInv
  <2>4. IsFiniteSet(Busy')
    <3> HIDE DEF Busy
    <3>1. QED
      BY <2>3, FS_AddElement
  <2>5. \A u \in Thread : pc'[u] # "idle" => cur'[u] \in AllCalls /\ Runs(cur'[u].op, pc'[u])
    BY <1>2, <1>3, <1>4, <1>6, <2>1 DEF CallInv
  <2>6. QED
    BY <2>2, <2>4, <2>5 DEF CallInv
<1>8. SemInv' /\ sem' = sem /\ holder' = holder
  BY <1>1, <1>2 DEF SemInv
<1>9. ListLock' /\ DiskLock' /\ OutLock' /\ InLock'
  BY <1>1, <1>2, <1>5, <1>8, LockKept DEF KernelInv, ListLock, DiskLock, OutLock, InLock
<1>10. DiskInv' /\ OutInv' /\ InInv' /\ FileInv'
  <2>1. /\ \A u \in Thread : pc[u] = "disk.wait" => pc'[u] = "disk.wait"
        /\ \A u \in Thread : pc[u] = "out.wait" => pc'[u] = "out.wait"
        /\ \A u \in Thread : pc[u] = "in.get" <=> pc'[u] = "in.get"
    BY <1>1, <1>5, <1>6
  <2>2. QED
    BY <1>1, <1>8, <2>1, DiskApart, OutApart, InApart, FileApart DEF KernelInv
<1>11. ListInv'
  <2>1. /\ \A u \in Thread : pc[u] \in Waiting => pc'[u] = pc[u]
        /\ \A u \in Thread : pc'[u] \in {"remove.wait", "remove.take"} => pc'[u] = pc[u]
    BY <1>1, <1>5, <1>6 DEF Waiting
  <2>2. QED
    BY <1>1, <2>1, ListApart DEF KernelInv
<1>12. NoLostSignal'
  <2>1. list' = list /\ waitQueue' = waitQueue
    BY <1>1 DEF listVars
  <2>2. \A u \in Thread : u # t => cur'[u] = cur[u]
    BY <1>1, <1>2 DEF CallInv
  <2>3. t \notin Collecting
    BY <1>1 DEF Collecting
  <2>4. Collecting \subseteq Collecting'
    BY <1>6, <2>1, <2>2, <2>3 DEF Collecting
  <2>5. QED
    BY <1>7, <2>1, <2>4, SignalApart DEF KernelInv
<1>13. QED
  BY <1>7, <1>8, <1>9, <1>10, <1>11, <1>12 DEF KernelInv

LEMMA ThreadStepKeeps ==
    ASSUME KernelInv, NEW t \in Thread, ThreadStep(t)
    PROVE  KernelInv'
<1>1. CASE Call(t)
  BY <1>1, CallKeeps
<1>2. CASE ListStep(t) /\ UNCHANGED <<diskVars, consoleVars, fileVars, todo>>
  <2>1. ListSide' /\ OnlyIn(t, ListCode, {"list"}, "list")
    BY <1>2, ListStepKeeps DEF KernelInv, ListSide
  <2>2. UNCHANGED diskVars /\ UNCHANGED outVars /\ UNCHANGED inVars /\ UNCHANGED fileVars
    BY <1>2 DEF consoleVars
  <2>3. DiskLock' /\ DiskInv'
    BY <2>1, <2>2, DiskSideApart, CodesApart, NamesApart DEF KernelInv
  <2>4. OutLock' /\ OutInv'
    BY <2>1, <2>2, OutSideApart, CodesApart, NamesApart DEF KernelInv
  <2>5. InLock' /\ InInv'
    BY <2>1, <2>2, InSideApart, CodesApart, NamesApart DEF KernelInv
  <2>6. FileInv'
    BY <2>2, FileApart DEF KernelInv
  <2>7. QED
    BY <2>1, <2>3, <2>4, <2>5, <2>6 DEF KernelInv, ListSide
<1>3. CASE DiskStep(t) /\ UNCHANGED <<listVars, consoleVars, fileVars, todo>>
  <2>1. DiskSide' /\ OnlyIn(t, DiskCode, DiskNames, "disk") /\ cur' = cur
    BY <1>3, DiskStepKeeps, CurKept DEF KernelInv, DiskSide
  <2>2. UNCHANGED listVars /\ UNCHANGED outVars /\ UNCHANGED inVars /\ UNCHANGED fileVars
    BY <1>3 DEF consoleVars
  <2>3. ListLock' /\ ListInv' /\ NoLostSignal'
    BY <2>1, <2>2, ListSideApart, CodesApart, NamesApart DEF KernelInv, DiskSide
  <2>4. OutLock' /\ OutInv'
    BY <2>1, <2>2, OutSideApart, CodesApart, NamesApart DEF KernelInv
  <2>5. InLock' /\ InInv'
    BY <2>1, <2>2, InSideApart, CodesApart, NamesApart DEF KernelInv
  <2>6. FileInv'
    BY <2>2, FileApart DEF KernelInv
  <2>7. QED
    BY <2>1, <2>3, <2>4, <2>5, <2>6 DEF KernelInv, DiskSide
<1>4. CASE ConsoleStep(t) /\ UNCHANGED <<listVars, diskVars, fileVars, todo>>
  <2>1. UNCHANGED listVars /\ UNCHANGED diskVars /\ UNCHANGED fileVars /\ cur' = cur /\ todo' = todo
    BY <1>4, CurKept
  <2>2. FileInv'
    BY <2>1, FileApart DEF KernelInv
  <2>3. \/ OutSide' /\ OnlyIn(t, OutCode, OutNames, "out") /\ UNCHANGED inVars
        \/ InSide' /\ OnlyIn(t, InCode, InNames, "in") /\ UNCHANGED outVars
    BY <1>4, ConsoleStepKeeps DEF KernelInv, OutSide, InSide
  <2>4. CASE OutSide' /\ OnlyIn(t, OutCode, OutNames, "out") /\ UNCHANGED inVars
    <3>1. ListLock' /\ ListInv' /\ NoLostSignal'
      BY <2>1, <2>4, ListSideApart, CodesApart, NamesApart DEF KernelInv, OutSide
    <3>2. DiskLock' /\ DiskInv'
      BY <2>1, <2>4, DiskSideApart, CodesApart, NamesApart DEF KernelInv
    <3>3. InLock' /\ InInv'
      BY <2>4, InSideApart, CodesApart, NamesApart DEF KernelInv
    <3>4. QED
      BY <2>2, <2>4, <3>1, <3>2, <3>3 DEF KernelInv, OutSide
  <2>5. CASE InSide' /\ OnlyIn(t, InCode, InNames, "in") /\ UNCHANGED outVars
    <3>1. ListLock' /\ ListInv' /\ NoLostSignal'
      BY <2>1, <2>5, ListSideApart, CodesApart, NamesApart DEF KernelInv, InSide
    <3>2. DiskLock' /\ DiskInv'
      BY <2>1, <2>5, DiskSideApart, CodesApart, NamesApart DEF KernelInv
    <3>3. OutLock' /\ OutInv'
      BY <2>5, OutSideApart, CodesApart, NamesApart DEF KernelInv
    <3>4. QED
      BY <2>2, <2>5, <3>1, <3>2, <3>3 DEF KernelInv, InSide
  <2>6. QED
    BY <2>3, <2>4, <2>5
<1>5. CASE FileStep(t) /\ UNCHANGED <<listVars, diskVars, consoleVars, todo>>
  <2>1. FileSide' /\ OnlyIn(t, FileCode, {}, "none") /\ cur' = cur
    BY <1>5, FileStepKeeps, CurKept DEF KernelInv, FileSide
  <2>2. UNCHANGED listVars /\ UNCHANGED diskVars /\ UNCHANGED outVars /\ UNCHANGED inVars
    BY <1>5 DEF consoleVars
  <2>3. ListLock' /\ ListInv' /\ NoLostSignal'
    BY <2>1, <2>2, ListSideApart, CodesApart DEF KernelInv, FileSide
  <2>4. DiskLock' /\ DiskInv'
    BY <2>1, <2>2, DiskSideApart, CodesApart DEF KernelInv
  <2>5. OutLock' /\ OutInv'
    BY <2>1, <2>2, OutSideApart, CodesApart DEF KernelInv
  <2>6. InLock' /\ InInv'
    BY <2>1, <2>2, InSideApart, CodesApart DEF KernelInv
  <2>7. QED
    BY <2>1, <2>3, <2>4, <2>5, <2>6 DEF KernelInv, FileSide
<1>6. QED
  BY <1>1, <1>2, <1>3, <1>4, <1>5 DEF ThreadStep

\* An interrupt leaves the calls, the locks and the list as they are.
LEMMA PostedKeeps ==
    ASSUME KernelInv, NEW name, name \notin Lock, Posted(name), UNCHANGED <<listVars, fileVars>>
    PROVE  /\ CallInv' /\ SemInv' /\ ListLock' /\ DiskLock' /\ OutLock' /\ InLock'
           /\ ListInv' /\ NoLostSignal' /\ FileInv'
<1>1. /\ pc' = pc /\ cur' = cur /\ got' = got /\ todo' = todo /\ holder' = holder
      /\ \A l \in Lock : sem'[l] = sem[l]
      /\ list' = list /\ waitQueue' = waitQueue /\ waiter' = waiter
  BY DEF Posted, Named, listVars
<1>2. CallInv' /\ SemInv'
  BY <1>1, CallWaits DEF KernelInv, SemInv, Posted
<1>3. ListLock' /\ DiskLock' /\ OutLock' /\ InLock'
  <2>1. /\ sem'["list"].value = sem["list"].value /\ sem'["disk"].value = sem["disk"].value
        /\ sem'["out"].value = sem["out"].value /\ sem'["in"].value = sem["in"].value
    BY <1>1 DEF Lock
  <2>2. QED
    BY <1>1, <2>1, LockStays DEF KernelInv, ListLock, DiskLock, OutLock, InLock
<1>4. ListInv' /\ NoLostSignal'
  BY <1>1 DEF KernelInv, ListInv, NoLostSignal, Collecting
<1>5. FileInv'
  BY FileApart DEF KernelInv
<1>6. QED
  BY <1>2, <1>3, <1>4, <1>5

LEMMA InterruptKeeps ==
    ASSUME KernelInv,
           Interrupt \/ (EndOfFile /\ UNCHANGED <<listVars, diskVars, fileVars, todo>>)
    PROVE  KernelInv'
<1>1. CASE DiskInterrupt /\ UNCHANGED <<listVars, consoleVars, fileVars, todo>>
  <2>1. DiskInv' /\ Posted("disk.done") /\ UNCHANGED <<listVars, fileVars, outVars, inVars>>
    BY <1>1, DiskInterruptKeeps DEF KernelInv, DiskSide, consoleVars
  <2>2. "disk.done" \notin Lock /\ sem'["out.done"] = sem["out.done"]
        /\ sem'["in.ready"] = sem["in.ready"] /\ pc' = pc
    BY <2>1 DEF Lock, Posted, Named
  <2>3. OutInv' /\ InInv'
    BY <2>1, <2>2, OutApart, InApart DEF KernelInv
  <2>4. QED
    BY <2>1, <2>2, <2>3, PostedKeeps DEF KernelInv
<1>2. CASE WriteInterrupt /\ UNCHANGED <<listVars, diskVars, fileVars, todo>>
  <2>1. OutInv' /\ Posted("out.done") /\ UNCHANGED <<listVars, fileVars, diskVars, inVars>>
    BY <1>2, WriteInterruptKeeps DEF KernelInv, OutSide, WriteInterrupt
  <2>2. "out.done" \notin Lock /\ sem'["disk.done"] = sem["disk.done"]
        /\ sem'["in.ready"] = sem["in.ready"] /\ pc' = pc
    BY <2>1 DEF Lock, Posted, Named
  <2>3. DiskInv' /\ InInv'
    BY <2>1, <2>2, DiskApart, InApart DEF KernelInv
  <2>4. QED
    BY <2>1, <2>2, <2>3, PostedKeeps DEF KernelInv
<1>3. CASE /\ ReadInterrupt \/ EndOfFile
           /\ UNCHANGED <<listVars, diskVars, fileVars, todo>>
  <2>1. InInv' /\ Posted("in.ready") /\ UNCHANGED <<listVars, fileVars, diskVars, outVars>>
    BY <1>3, ReadInterruptKeeps DEF KernelInv, InSide, ReadInterrupt, EndOfFile
  <2>2. "in.ready" \notin Lock /\ sem'["disk.done"] = sem["disk.done"]
        /\ sem'["out.done"] = sem["out.done"] /\ pc' = pc
    BY <2>1 DEF Lock, Posted, Named
  <2>3. DiskInv' /\ OutInv'
    BY <2>1, <2>2, DiskApart, OutApart DEF KernelInv
  <2>4. QED
    BY <2>1, <2>2, <2>3, PostedKeeps DEF KernelInv
<1>4. QED
  BY <1>1, <1>2, <1>3 DEF Interrupt, DiskDue, WriteDue, ReadDue

LEMMA NextKernel == KernelInv /\ [Next]_vars => KernelInv'
<1> SUFFICES ASSUME KernelInv, [Next]_vars PROVE KernelInv'
  OBVIOUS
<1>1. ASSUME NEW t \in Thread, ThreadStep(t) PROVE KernelInv'
  BY <1>1, ThreadStepKeeps
<1>2. CASE Interrupt \/ (EndOfFile /\ UNCHANGED <<listVars, diskVars, fileVars, todo>>)
  BY <1>2, InterruptKeeps
<1>3. CASE UNCHANGED vars
  <2>1. /\ UNCHANGED <<sem, holder, pc, cur, got, todo>>
        /\ UNCHANGED listVars /\ UNCHANGED diskVars /\ UNCHANGED outVars /\ UNCHANGED inVars
        /\ UNCHANGED fileVars
    BY <1>3 DEF vars, synchVars, callVars, consoleVars
  <2>2. CallInv' /\ SemInv'
    BY <2>1, CallWaits DEF KernelInv, SemInv
  <2>3. ListLock' /\ DiskLock' /\ OutLock' /\ InLock'
    BY <2>1, LockStays DEF KernelInv, ListLock, DiskLock, OutLock, InLock
  <2>4. DiskInv' /\ OutInv' /\ InInv' /\ FileInv'
    BY <2>1, DiskApart, OutApart, InApart, FileApart DEF KernelInv
  <2>5. ListInv' /\ NoLostSignal'
    BY <2>1 DEF KernelInv, ListInv, NoLostSignal, Collecting, listVars
  <2>6. QED
    BY <2>2, <2>3, <2>4, <2>5 DEF KernelInv
<1>4. QED
  BY <1>1, <1>2, <1>3 DEF Next

-----------------------------------------------------------------------------
(* The theorems.                                                           *)

\* The inductive invariant holds in every reachable state, for any threads,
\* calls, input, disk and files.
THEOREM KernelInvHolds == Spec => []KernelInv
<1>1. QED
  BY InitKernel, NextKernel, PTL DEF Spec

\* NachOS has aborted in a call on files only: a step that aborts is the last.
LEMMA AbortNext == KernelInv /\ AbortsInFiles /\ [Next]_vars => AbortsInFiles'
<1> SUFFICES ASSUME KernelInv, AbortsInFiles, [Next]_vars PROVE AbortsInFiles'
  OBVIOUS
<1>1. CASE UNCHANGED vars
  BY <1>1 DEF vars, callVars, fileVars, tables, AbortsInFiles, ReadsBefore
<1>2. CASE UNCHANGED fileVars /\ ~ aborted
  BY <1>2 DEF fileVars, AbortsInFiles
<1>3. ASSUME NEW t \in Thread, FileStep(t), ~ aborted PROVE AbortsInFiles'
  <2>1. CASE aborted' = aborted
    BY <1>3, <2>1 DEF AbortsInFiles
  <2>2. ASSUME Abort, cur' = cur, OpenFileTable' = OpenFileTable,
               \/ Serves(t, "Create") \/ Serves(t, "Write")
               \/ Serves(t, "Read") /\ ReadsBefore(t)
        PROVE  AbortsInFiles'
    BY <2>2 DEF Abort, Serves, At, AbortsInFiles, ReadsBefore
  <2>3. CASE SysCreate(t)
    BY <2>1, <2>2, <2>3 DEF SysCreate, Reply
  <2>4. CASE SysOpen(t)
    BY <2>1, <2>4 DEF SysOpen, Refuse, Reply
  <2>5. CASE SysRead(t)
    <3> DEFINE id == cur[t].arg.id
    <3>1. CASE aborted' = aborted
      BY <2>1, <3>1
    <3>2. CASE /\ Serves(t, "Read") /\ id \in DOMAIN OpenFileTable /\ ~ Lseek(id)
               /\ Abort /\ cur' = cur /\ OpenFileTable' = OpenFileTable
      <4>1. OpenFileTable[id].currentOffset = -1
        BY <3>2, EntryIs DEF Lseek, Offset, KernelInv
      <4>2. ReadsBefore(t)
        BY <3>2, <4>1 DEF ReadsBefore, Serves
      <4>3. QED
        BY <2>2, <3>2, <4>2
    <3>3. QED
      BY <2>5, <3>1, <3>2 DEF SysRead, Refuse, Slip, Reply
  <2>6. CASE SysWrite(t)
    BY <2>1, <2>2, <2>6 DEF SysWrite, Refuse, Slip, Reply
  <2>7. CASE SysClose(t)
    BY <2>1, <2>7 DEF SysClose, Refuse, Reply
  <2>8. CASE SysReturn(t)
    BY <2>1, <2>8 DEF SysReturn, fileVars
  <2>9. QED
    BY <1>3, <2>3, <2>4, <2>5, <2>6, <2>7, <2>8 DEF FileStep
<1>4. QED
  BY <1>1, <1>2, <1>3 DEF Next, ThreadStep, Call, Interrupt, DiskDue, WriteDue, ReadDue

\* Every ASSERT of the kernel and of the devices holds: a lock is released and a
\* condition used by the lock's holder only (synch.cc), a request finds its
\* device idle (disk.cc, console.cc), and an open file has a file of the host
\* for itself to close (openfile.h).  The ASSERTs of OpenForWrite, WriteFile and
\* Lseek (sysdep.cc) can fail, and no abort happens anywhere else: NachOS ends
\* in a Create or a Write, or in the Read of an entry at offset -1.
THEOREM AssertionsAlwaysHold == Spec => []AssertionsHold
<1>1. KernelInv /\ AbortsInFiles => AssertionsHold
  <2> SUFFICES ASSUME KernelInv, AbortsInFiles PROVE AssertionsHold
    OBVIOUS
  <2>1. ASSUME NEW t \in Thread
        PROVE  /\ pc[t] \in {"append.signal", "remove.wait", "list.disown"} =>
                      HeldByCurrentThread(t, "list")
               /\ pc[t] = "disk.disown" => HeldByCurrentThread(t, "disk")
               /\ pc[t] = "out.disown" => HeldByCurrentThread(t, "out")
               /\ pc[t] = "in.disown" => HeldByCurrentThread(t, "in")
    BY DEF KernelInv, ListLock, DiskLock, OutLock, InLock, LockInv, ListHeld, DiskHeld, OutHeld,
           InHeld, HeldByCurrentThread
  <2>2. ASSUME NEW t \in Thread, pc[t] \in {"disk.request", "disk.disown"} PROVE ~ active
    BY <2>2, DiskFree DEF KernelInv, DiskSide, DiskHeld
  <2>3. ASSUME NEW t \in Thread, pc[t] \in {"out.put", "out.disown"} PROVE ~ putBusy
    BY <2>3, OutFree DEF KernelInv, OutSide, OutHeld
  <2>4. readDue > 0 => incoming = EOF
    BY DEF KernelInv, InInv
  <2>5. ASSUME NEW id \in DOMAIN OpenFileTable PROVE OpenFileTable[id].file \in DOMAIN hostOpen
    BY EntryIs DEF KernelInv
  <2>6. \A id, other \in DOMAIN OpenFileTable :
           OpenFileTable[id].file = OpenFileTable[other].file => id = other
    BY DEF KernelInv, FileInv
  <2>7. QED
    BY <2>1, <2>2, <2>3, <2>4, <2>5, <2>6 DEF AssertionsHold
<1>2. Init => AbortsInFiles
  BY DEF Init, FileInit, AbortsInFiles
<1>3. QED
  BY <1>1, <1>2, AbortNext, KernelInvHolds, PTL DEF Spec

\* No signal of the synchronised list is lost (synchlist.cc): while threads are
\* left on the condition, there is a thread on its way to every item.
THEOREM SignalsKept == Spec => []NoLostSignal
<1>1. KernelInv => NoLostSignal
  BY DEF KernelInv
<1>2. QED
  BY <1>1, KernelInvHolds, PTL

-----------------------------------------------------------------------------
(* How the calls look to their callers.                                    *)

\* Thread t moves: the others stay where they are, with what they were told.
Moving(t) == \A u \in Thread : u # t => pc'[u] = pc[u] /\ cur'[u] = cur[u] /\ got'[u] = got[u]

LEMMA MovingOne ==
    ASSUME CallInv, NEW t \in Thread, UNCHANGED cur,
           pc' = pc \/ \E p : Moves(t, p), got' = got \/ \E x : Returns(t, x)
    PROVE  Moving(t)
<1>1. pc \in [Thread -> Place] /\ got = [u \in Thread |-> got[u]]
  BY DEF CallInv
<1>2. \A u \in Thread : u # t => pc'[u] = pc[u]
  BY <1>1 DEF Moves
<1>3. \A u \in Thread : u # t => got'[u] = got[u]
  BY <1>1 DEF Returns
<1>4. QED
  BY <1>2, <1>3 DEF Moving

LEMMA MovesOrWaits ==
    ASSUME NEW t, NEW name, NEW next, P(t, name, next)
    PROVE  pc' = pc \/ \E p : Moves(t, p)
BY DEF P, Moves

\* A thread inside a service moves alone, from a place in the code of that service.
LEMMA ListMovesOne ==
    ASSUME CallInv, NEW t \in Thread, ListStep(t)
    PROVE  Moving(t) /\ pc[t] \in ListCode /\ UNCHANGED cur
<1>1. UNCHANGED cur
  BY CurKept
<1>2. pc[t] \in ListCode
  BY DEF ListStep, ListAcquire, AppendPut, AppendSignal, RemoveTest, RemoveTake, RemoveWait,
         RemoveUnlock, RemoveSleep, ApplyRun, ListDisown, ListUnlock, At, ListCode, ListHeld,
         ListLeaving
<1>3. pc' = pc \/ \E p : Moves(t, p)
  BY MovesOrWaits DEF ListStep, ListAcquire, AppendPut, AppendSignal, RemoveTest, RemoveTake,
         RemoveWait, RemoveUnlock, RemoveSleep, ApplyRun, ListDisown, ListUnlock, Goto, Moves,
         Acquire
<1>4. got' = got \/ \E x : Returns(t, x)
  BY DEF ListStep, ListAcquire, AppendPut, AppendSignal, RemoveTest, RemoveTake, RemoveWait,
         RemoveUnlock, RemoveSleep, ApplyRun, ListDisown, ListUnlock, callVars
<1>5. QED
  BY <1>1, <1>2, <1>3, <1>4, MovingOne

LEMMA DiskMovesOne ==
    ASSUME CallInv, NEW t \in Thread, DiskStep(t)
    PROVE  Moving(t) /\ pc[t] \in DiskCode /\ UNCHANGED cur
<1>1. UNCHANGED cur
  BY CurKept
<1>2. pc[t] \in DiskCode
  BY DEF DiskStep, DiskAcquire, ReadRequest, WriteRequest, DiskWait, DiskDisown, DiskUnlock, At,
         DiskCode, DiskHeld, DiskLeaving
<1>3. pc' = pc \/ \E p : Moves(t, p)
  BY MovesOrWaits DEF DiskStep, DiskAcquire, ReadRequest, WriteRequest, DiskWait, DiskDisown,
         DiskUnlock, Goto, Moves, Acquire
<1>4. got' = got \/ \E x : Returns(t, x)
  BY DEF DiskStep, DiskAcquire, ReadRequest, WriteRequest, DiskWait, DiskDisown, DiskUnlock,
         callVars
<1>5. QED
  BY <1>1, <1>2, <1>3, <1>4, MovingOne

LEMMA ConsoleMovesOne ==
    ASSUME CallInv, NEW t \in Thread, ConsoleStep(t)
    PROVE  Moving(t) /\ pc[t] \in OutCode \cup InCode /\ UNCHANGED cur
<1>1. UNCHANGED cur
  BY CurKept
<1>2. pc[t] \in OutCode \cup InCode
  BY DEF ConsoleStep, OutAcquire, OutPut, OutWait, OutDisown, OutUnlock, InAcquire, InWait, InGet,
         InDisown, InUnlock, At, OutCode, OutHeld, OutLeaving, InCode, InHeld, InLeaving
<1>3. pc' = pc \/ \E p : Moves(t, p)
  BY MovesOrWaits DEF ConsoleStep, OutAcquire, OutPut, OutWait, OutDisown, OutUnlock, InAcquire,
         InWait, InGet, InDisown, InUnlock, Goto, Moves, Acquire
<1>4. got' = got \/ \E x : Returns(t, x)
  BY DEF ConsoleStep, OutAcquire, OutPut, OutWait, OutDisown, OutUnlock, InAcquire, InWait, InGet,
         InDisown, InUnlock, callVars
<1>5. QED
  BY <1>1, <1>2, <1>3, <1>4, MovingOne

LEMMA FileMovesOne ==
    ASSUME CallInv, NEW t \in Thread, FileStep(t)
    PROVE  Moving(t) /\ pc[t] \in FileCode /\ UNCHANGED cur
<1>1. UNCHANGED cur
  BY CurKept
<1>2. pc[t] \in FileCode
  BY DEF FileStep, SysCreate, SysOpen, SysRead, SysWrite, SysClose, SysReturn, Serves, At, FileCode
<1>3. pc' = pc \/ \E p : Moves(t, p)
  BY DEF FileStep, SysCreate, SysOpen, SysRead, SysWrite, SysClose, SysReturn, Refuse, Slip, Reply,
         Abort, Goto, Moves
<1>4. got' = got \/ \E x : Returns(t, x)
  BY DEF FileStep, SysCreate, SysOpen, SysRead, SysWrite, SysClose, SysReturn, Refuse, Slip, Reply,
         Abort, callVars
<1>5. QED
  BY <1>1, <1>2, <1>3, <1>4, MovingOne

\* A call is made by its thread, and it has a place where it begins.
LEMMA CallMovesOne ==
    ASSUME KernelInv, NEW t \in Thread, Call(t)
    PROVE  /\ Moving(t) /\ pc[t] = "idle" /\ pc'[t] # "idle" /\ pc'[t] = Entry(cur'[t].op)
           /\ IsRequest(cur'[t]) /\ cur'[t] \in AllCalls /\ got'[t] = NoItem
           /\ UNCHANGED <<listVars, diskVars, consoleVars, fileVars>>
<1> DEFINE c == Head(todo[t])
           p == Entry(c.op)
<1>1. /\ pc[t] = "idle" /\ todo[t] # <<>> /\ Moves(t, p)
      /\ cur' = [cur EXCEPT ![t] = c]
      /\ got' = [got EXCEPT ![t] = NoItem]
      /\ UNCHANGED <<listVars, diskVars, consoleVars, fileVars>>
  BY DEF Call, At, Goto, Moves
<1>2. /\ pc \in [Thread -> Place] /\ todo[t] \in Seq(AllCalls)
      /\ cur = [u \in Thread |-> cur[u]] /\ got = [u \in Thread |-> got[u]]
  BY DEF KernelInv, CallInv
<1>3. c \in AllCalls
  BY <1>1, <1>2
<1>4. IsRequest(c)
  BY <1>3, WorkloadAssumption
<1>5. Runs(c.op, p)
  BY <1>4, EntryRuns
<1>6. p # "idle"
  BY <1>5 DEF Runs, DiskCode, DiskHeld, DiskLeaving, OutCode, OutHeld, OutLeaving, InCode, InHeld,
              InLeaving, FileCode
<1>7. pc'[t] = p /\ cur'[t] = c /\ got'[t] = NoItem
  BY <1>1, <1>2 DEF Moves
<1>8. Moving(t)
  BY <1>1, <1>2 DEF Moves, Moving
<1>9. QED
  BY <1>1, <1>3, <1>4, <1>6, <1>7, <1>8

-----------------------------------------------------------------------------
(* The disk implements AtomicStore.                                        *)

DiskOp == {"ReadSector", "WriteSector"}
NoDiskCall == [op |-> "none", sector |-> NoItem]

LEMMA DiskViewElsewhere ==
    ASSUME NEW u, pc'[u] = pc[u], cur'[u] = cur[u], got'[u] = got[u]
    PROVE  DiskCall(u)' = DiskCall(u) /\ DiskVal(u)' = DiskVal(u)
BY DEF DiskCall, DiskVal

\* The step of a thread is one of its call.
LEMMA DiskViewMoves ==
    ASSUME NEW t \in Thread, Moving(t)
    PROVE  /\ DiskCalls' = [DiskCalls EXCEPT ![t] = DiskCall(t)']
           /\ DiskVals' = [DiskVals EXCEPT ![t] = DiskVal(t)']
           /\ DiskCalls[t] = DiskCall(t) /\ DiskVals[t] = DiskVal(t)
<1>1. \A u \in Thread : u # t => DiskCall(u)' = DiskCall(u) /\ DiskVal(u)' = DiskVal(u)
  BY DiskViewElsewhere DEF Moving
<1>2. QED
  BY <1>1 DEF DiskCalls, DiskVals

LEMMA DiskViewStays ==
    ASSUME NEW t \in Thread, Moving(t), DiskCall(t)' = DiskCall(t), DiskVal(t)' = DiskVal(t)
    PROVE  DiskCalls' = DiskCalls /\ DiskVals' = DiskVals
<1>1. \A u \in Thread : DiskCall(u)' = DiskCall(u) /\ DiskVal(u)' = DiskVal(u)
  BY DiskViewElsewhere DEF Moving
<1>2. QED
  BY <1>1 DEF DiskCalls, DiskVals

\* A thread that does not call the disk is not seen by it.
LEMMA NotOfDisk ==
    ASSUME NEW t, pc[t] = "idle" \/ cur[t].op \notin DiskOp
    PROVE  DiskCall(t) = NoDiskCall /\ DiskVal(t) = NoItem
BY DEF DiskCall, DiskVal, DiskOp, NoDiskCall

LEMMA OtherThanDisk ==
    ASSUME CallInv, NEW t \in Thread, Moving(t), cur' = cur, NEW code, pc[t] \in code,
           code \cap DiskCode = {}, "idle" \notin code
    PROVE  DiskCalls' = DiskCalls /\ DiskVals' = DiskVals
<1>1. Runs(cur[t].op, pc[t])
  BY DEF CallInv
<1>2. cur[t].op \notin DiskOp /\ cur'[t].op \notin DiskOp
  BY <1>1, PlaceOfDisk DEF DiskOp
<1>3. DiskCall(t) = NoDiskCall /\ DiskVal(t) = NoItem
  BY <1>2, NotOfDisk
<1>4. DiskCall(t)' = NoDiskCall /\ DiskVal(t)' = NoItem
  BY <1>2 DEF DiskCall, DiskVal, DiskOp, NoDiskCall
<1>5. QED
  BY <1>3, <1>4, DiskViewStays

\* What a call to the disk looks like while it lasts.
LEMMA OfDisk ==
    ASSUME NEW t, pc[t] # "idle", cur[t].op \in DiskOp
    PROVE  /\ DiskCall(t) = [op |-> IF pc[t] \notin {"disk.acquire", "disk.request"} THEN "done"
                                    ELSE IF cur[t].op = "ReadSector" THEN "read" ELSE "write",
                             sector |-> cur[t].arg.sector]
           /\ DiskVal(t) = IF cur[t].op = "WriteSector" THEN cur[t].arg.value ELSE got[t]
BY DEF DiskCall, DiskVal, DiskOp

\* Where the calls to the disk begin, and their arguments.
LEMMA DiskEntry ==
    ASSUME NEW c, IsRequest(c), c.op \in DiskOp
    PROVE  /\ Entry(c.op) = "disk.acquire" /\ c.arg.sector \in Sector
           /\ c.op = "WriteSector" => c.arg.value \in Content
<1>1. c.arg.sector \in Sector /\ (c.op = "WriteSector" => c.arg.value \in Content)
  BY DEF IsRequest, DiskOp
<1>2. Runs(c.op, Entry(c.op)) /\ Entry(c.op) \in {"append.acquire", "remove.acquire", "apply.acquire",
                                 "disk.acquire", "out.acquire", "in.acquire", "file.call"}
  BY EntryRuns
<1>3. Entry(c.op) \in DiskCode
  BY <1>2, PlaceOfDisk DEF DiskOp
<1>4. QED
  BY <1>1, <1>2, <1>3 DEF DiskCode, DiskHeld, DiskLeaving

\* Making the call.
LEMMA StoreCall ==
    ASSUME KernelInv, NEW t \in Thread, Call(t)
    PROVE  Store!Next \/ UNCHANGED <<sector, DiskCalls, DiskVals>>
<1>1. /\ Moving(t) /\ pc[t] = "idle" /\ pc'[t] # "idle" /\ pc'[t] = Entry(cur'[t].op)
      /\ IsRequest(cur'[t]) /\ got'[t] = NoItem /\ sector' = sector
  BY CallMovesOne DEF diskVars
<1>2. DiskCall(t) = NoDiskCall /\ DiskVal(t) = NoItem
  BY <1>1, NotOfDisk
<1>3. CASE cur'[t].op \notin DiskOp
  <2>1. DiskCall(t)' = NoDiskCall /\ DiskVal(t)' = NoItem
    BY <1>3 DEF DiskCall, DiskVal, DiskOp, NoDiskCall
  <2>2. QED
    BY <1>1, <1>2, <2>1, DiskViewStays
<1>4. CASE cur'[t].op = "ReadSector"
  <2>1. pc'[t] = "disk.acquire" /\ cur'[t].arg.sector \in Sector
    <3>1. IsRequest(cur'[t]) /\ cur'[t].op \in DiskOp
      BY <1>1, <1>4 DEF DiskOp
    <3>2. QED
      BY <1>1, <3>1, DiskEntry
  <2>2. DiskCall(t)' = [op |-> "read", sector |-> cur'[t].arg.sector] /\ DiskVal(t)' = NoItem
    BY <1>1, <1>4, <2>1 DEF DiskCall, DiskVal
  <2>3. Store!CallRead(t, cur'[t].arg.sector)
    <3>1. DiskVals' = DiskVals
      BY <1>1, <1>2, <2>2, DiskViewMoves DEF DiskVals
    <3>2. QED
      BY <1>1, <1>2, <2>2, <3>1, DiskViewMoves DEF Store!CallRead, Store!None, NoDiskCall
  <2>4. QED
    BY <2>1, <2>3 DEF Store!Next
<1>5. CASE cur'[t].op = "WriteSector"
  <2>1. /\ pc'[t] = "disk.acquire" /\ cur'[t].arg.sector \in Sector
        /\ cur'[t].arg.value \in Content \cup {Blank}
    <3>1. IsRequest(cur'[t]) /\ cur'[t].op \in DiskOp
      BY <1>1, <1>5 DEF DiskOp
    <3>2. QED
      BY <1>1, <1>5, <3>1, DiskEntry
  <2>2. /\ DiskCall(t)' = [op |-> "write", sector |-> cur'[t].arg.sector]
        /\ DiskVal(t)' = cur'[t].arg.value
    BY <1>1, <1>5, <2>1 DEF DiskCall, DiskVal
  <2>3. Store!CallWrite(t, cur'[t].arg.sector, cur'[t].arg.value)
    BY <1>1, <1>2, <2>2, DiskViewMoves DEF Store!CallWrite, Store!None, NoDiskCall
  <2>4. QED
    BY <2>1, <2>3 DEF Store!Next
<1>6. QED
  BY <1>3, <1>4, <1>5 DEF DiskOp

\* The statements of the call.
LEMMA StoreStep ==
    ASSUME KernelInv, NEW t \in Thread, DiskStep(t)
    PROVE  Store!Next \/ UNCHANGED <<sector, DiskCalls, DiskVals>>
<1>1. Moving(t) /\ pc[t] \in DiskCode /\ cur' = cur /\ CallInv /\ pc \in [Thread -> Place]
      /\ got = [u \in Thread |-> got[u]]
  BY DiskMovesOne DEF KernelInv, CallInv
<1>2. pc[t] # "idle" /\ cur[t].op \in DiskOp /\ cur'[t].op \in DiskOp
  <2>1. pc[t] # "idle"
    BY <1>1 DEF DiskCode, DiskHeld, DiskLeaving
  <2>2. Runs(cur[t].op, pc[t])
    BY <1>1, <2>1 DEF CallInv
  <2>3. QED
    BY <1>1, <2>1, <2>2, PlaceOfDisk DEF DiskOp
<1>3. /\ DiskCall(t) = [op |-> IF pc[t] \notin {"disk.acquire", "disk.request"} THEN "done"
                               ELSE IF cur[t].op = "ReadSector" THEN "read" ELSE "write",
                        sector |-> cur[t].arg.sector]
      /\ DiskVal(t) = IF cur[t].op = "WriteSector" THEN cur[t].arg.value ELSE got[t]
  BY <1>2, OfDisk
<1>4. pc'[t] # "idle" =>
        /\ DiskCall(t)' = [op |-> IF pc'[t] \notin {"disk.acquire", "disk.request"} THEN "done"
                                  ELSE IF cur[t].op = "ReadSector" THEN "read" ELSE "write",
                           sector |-> cur[t].arg.sector]
        /\ DiskVal(t)' = IF cur[t].op = "WriteSector" THEN cur[t].arg.value ELSE got'[t]
  BY <1>1, <1>2 DEF DiskCall, DiskVal, DiskOp
<1>5. CASE DiskAcquire(t) \/ DiskWait(t) \/ DiskDisown(t)
  <2>1. /\ pc'[t] # "idle" /\ got' = got /\ sector' = sector
        /\ pc[t] \in {"disk.acquire", "disk.request"} <=> pc'[t] \in {"disk.acquire", "disk.request"}
    BY <1>1, <1>5 DEF DiskAcquire, DiskWait, DiskDisown, At, Goto, Acquire, P, callVars, diskVars
  <2>2. DiskCall(t)' = DiskCall(t) /\ DiskVal(t)' = DiskVal(t)
    BY <1>3, <1>4, <2>1
  <2>3. QED
    BY <1>1, <2>1, <2>2, DiskViewStays
<1>6. CASE ReadRequest(t)
  <2>1. /\ pc[t] = "disk.request" /\ pc'[t] = "disk.wait" /\ cur[t].op = "ReadSector"
        /\ got'[t] = sector[cur[t].arg.sector] /\ sector' = sector
    BY <1>1, <1>6 DEF ReadRequest, At, Goto, Returns
  <2>2. DiskCall(t) = [op |-> "read", sector |-> cur[t].arg.sector]
    BY <1>3, <2>1
  <2>3. /\ DiskCall(t)' = [op |-> "done", sector |-> cur[t].arg.sector]
        /\ DiskVal(t)' = sector[cur[t].arg.sector]
    BY <1>4, <2>1
  <2>4. DiskCalls' = [DiskCalls EXCEPT ![t].op = "done"]
    BY <1>1, <2>2, <2>3, DiskViewMoves DEF DiskCalls
  <2>5. DiskCalls[t] = [op |-> "read", sector |-> cur[t].arg.sector]
    BY <1>1, <2>2, DiskViewMoves
  <2>6. DiskVals' = [DiskVals EXCEPT ![t] = sector[DiskCalls[t].sector]]
    BY <1>1, <2>3, <2>5, DiskViewMoves
  <2>7. Store!Read(t)
    BY <2>1, <2>4, <2>5, <2>6 DEF Store!Read
  <2>8. QED
    BY <2>7 DEF Store!Next
<1>7. CASE WriteRequest(t)
  <2>1. /\ pc[t] = "disk.request" /\ pc'[t] = "disk.wait" /\ cur[t].op = "WriteSector"
        /\ sector' = [sector EXCEPT ![cur[t].arg.sector] = cur[t].arg.value]
    BY <1>1, <1>7 DEF WriteRequest, At, Goto
  <2>2. /\ DiskCall(t) = [op |-> "write", sector |-> cur[t].arg.sector]
        /\ DiskVal(t) = cur[t].arg.value
    BY <1>3, <2>1
  <2>3. /\ DiskCall(t)' = [op |-> "done", sector |-> cur[t].arg.sector]
        /\ DiskVal(t)' = DiskVal(t)
    BY <1>3, <1>4, <2>1
  <2>4. DiskCalls' = [DiskCalls EXCEPT ![t].op = "done"]
    BY <1>1, <2>2, <2>3, DiskViewMoves DEF DiskCalls
  <2>5. DiskVals' = DiskVals
    BY <1>1, <2>3, DiskViewMoves DEF DiskVals
  <2>6. /\ DiskCalls[t] = [op |-> "write", sector |-> cur[t].arg.sector]
        /\ DiskVals[t] = cur[t].arg.value
    BY <1>1, <2>2, DiskViewMoves
  <2>7. sector' = [sector EXCEPT ![DiskCalls[t].sector] = DiskVals[t]]
    BY <2>1, <2>6
  <2>8. Store!Write(t)
    BY <2>4, <2>5, <2>6, <2>7 DEF Store!Write
  <2>9. QED
    BY <2>8 DEF Store!Next
<1>8. CASE DiskUnlock(t)
  <2>1. pc[t] = "disk.unlock" /\ pc'[t] = "idle" /\ sector' = sector
    BY <1>1, <1>8 DEF DiskUnlock, At, Goto, diskVars
  <2>2. DiskCall(t).op = "done"
    BY <1>3, <2>1
  <2>3. DiskCall(t)' = NoDiskCall /\ DiskVal(t)' = NoItem
    BY <2>1 DEF DiskCall, DiskVal, NoDiskCall
  <2>4. Store!Return(t)
    BY <1>1, <2>1, <2>2, <2>3, DiskViewMoves DEF Store!Return, Store!None, NoDiskCall
  <2>5. QED
    BY <2>4 DEF Store!Next
<1>9. QED
  BY <1>5, <1>6, <1>7, <1>8 DEF DiskStep

LEMMA StoreNext == KernelInv /\ [Next]_vars => [Store!Next]_(Store!vars)
<1> SUFFICES ASSUME KernelInv, [Next]_vars
             PROVE  Store!Next \/ UNCHANGED <<sector, DiskCalls, DiskVals>>
  BY DEF Store!vars
<1>1. CallInv
  BY DEF KernelInv
<1>2. ASSUME NEW t \in Thread, ThreadStep(t)
      PROVE  Store!Next \/ UNCHANGED <<sector, DiskCalls, DiskVals>>
  <2>1. CASE Call(t)
    BY <2>1, StoreCall
  <2>2. CASE DiskStep(t)
    BY <2>2, StoreStep
  <2>3. CASE /\ ListStep(t) \/ ConsoleStep(t) \/ FileStep(t)
             /\ UNCHANGED diskVars
    <3>1. PICK code : /\ Moving(t) /\ cur' = cur /\ pc[t] \in code
                      /\ code \cap DiskCode = {} /\ "idle" \notin code
      <4>1. "idle" \notin ListCode /\ "idle" \notin OutCode \cup InCode /\ "idle" \notin FileCode
        BY DEF ListCode, ListHeld, ListLeaving, OutCode, OutHeld, OutLeaving, InCode, InHeld,
               InLeaving, FileCode
      <4>2. (OutCode \cup InCode) \cap DiskCode = {}
        BY CodesApart
      <4>3. QED
        BY <1>1, <2>3, <4>1, <4>2, ListMovesOne, ConsoleMovesOne, FileMovesOne, CodesApart
    <3>2. QED
      BY <1>1, <2>3, <3>1, OtherThanDisk DEF diskVars
  <2>4. QED
    BY <1>2, <2>1, <2>2, <2>3 DEF ThreadStep
<1>3. CASE \/ Interrupt \/ UNCHANGED vars
           \/ EndOfFile /\ UNCHANGED <<listVars, diskVars, fileVars, todo>>
  <2>1. UNCHANGED <<pc, cur, got, sector>>
    BY <1>3 DEF Interrupt, DiskDue, WriteDue, ReadDue, DiskInterrupt, WriteInterrupt, ReadInterrupt, EndOfFile, vars, callVars,
                diskVars
  <2>2. QED
    BY <2>1 DEF DiskCalls, DiskVals, DiskCall, DiskVal
<1>4. QED
  BY <1>2, <1>3 DEF Next

\* The synchronous disk (synchdisk.cc over disk.cc) implements a store of
\* sectors that are read and written at one instant, for any number of threads
\* and whatever the geometry and the calls of the other services.
THEOREM DiskRefines == Spec => ImplementsStore
<1>1. Init => Store!Init
  <2> SUFFICES ASSUME Init PROVE Store!Init
    OBVIOUS
  <2>1. sector = [s \in Sector |-> Blank] /\ \A t \in Thread : pc[t] = "idle"
    BY DEF Init, DiskInit
  <2>2. DiskCalls = [t \in Thread |-> NoDiskCall] /\ DiskVals = [t \in Thread |-> NoItem]
    BY <2>1, NotOfDisk DEF DiskCalls, DiskVals
  <2>3. QED
    BY <2>1, <2>2 DEF Store!Init, Store!None, NoDiskCall
<1>2. QED
  BY <1>1, StoreNext, KernelInvHolds, PTL DEF Spec, ImplementsStore, Store!Spec

-----------------------------------------------------------------------------
(* The synchronised list implements an unbounded BoundedFifo.              *)

QueueOp == {"Append", "RemoveFront"}
ListDone == {"append.signal", "list.disown", "list.unlock"}

LEMMA ListViewElsewhere ==
    ASSUME NEW u, pc'[u] = pc[u], cur'[u] = cur[u], got'[u] = got[u]
    PROVE  ListCall(u)' = ListCall(u) /\ ListVal(u)' = ListVal(u)
BY DEF ListCall, ListVal

LEMMA ListViewMoves ==
    ASSUME NEW t \in Thread, Moving(t)
    PROVE  /\ ListCalls' = [ListCalls EXCEPT ![t] = ListCall(t)']
           /\ ListVals' = [ListVals EXCEPT ![t] = ListVal(t)']
           /\ ListCalls[t] = ListCall(t) /\ ListVals[t] = ListVal(t)
<1>1. \A u \in Thread : u # t => ListCall(u)' = ListCall(u) /\ ListVal(u)' = ListVal(u)
  BY ListViewElsewhere DEF Moving
<1>2. QED
  BY <1>1 DEF ListCalls, ListVals

LEMMA ListViewStays ==
    ASSUME NEW t \in Thread, Moving(t), ListCall(t)' = ListCall(t), ListVal(t)' = ListVal(t)
    PROVE  ListCalls' = ListCalls /\ ListVals' = ListVals
<1>1. \A u \in Thread : ListCall(u)' = ListCall(u) /\ ListVal(u)' = ListVal(u)
  BY ListViewElsewhere DEF Moving
<1>2. QED
  BY <1>1 DEF ListCalls, ListVals

LEMMA NotOfList ==
    ASSUME NEW t, pc[t] = "idle" \/ cur[t].op \notin QueueOp
    PROVE  ListCall(t) = "none" /\ ListVal(t) = NoItem
BY DEF ListCall, ListVal, QueueOp

\* A thread whose call is not one of the list's two is not seen by it.
LEMMA OtherThanList ==
    ASSUME NEW t \in Thread, Moving(t), cur' = cur, cur[t].op \notin QueueOp
    PROVE  ListCalls' = ListCalls /\ ListVals' = ListVals
<1>1. ListCall(t) = "none" /\ ListVal(t) = NoItem
  BY NotOfList
<1>2. ListCall(t)' = "none" /\ ListVal(t)' = NoItem
  BY DEF ListCall, ListVal, QueueOp
<1>3. QED
  BY <1>1, <1>2, ListViewStays

\* What a call to the list looks like while it lasts.
LEMMA OfList ==
    ASSUME NEW t, pc[t] # "idle", cur[t].op \in QueueOp
    PROVE  /\ ListCall(t) = IF pc[t] \in ListDone THEN "done"
                            ELSE IF cur[t].op = "Append" THEN "enqueue" ELSE "dequeue"
           /\ ListVal(t) = IF cur[t].op = "Append" THEN cur[t].arg ELSE got[t]
<1>1. ListCall(t) = IF pc[t] \in ListDone THEN "done"
                    ELSE IF cur[t].op = "Append" THEN "enqueue" ELSE "dequeue"
  BY DEF ListCall, QueueOp, ListDone
<1>2. ListCall(t) # "none"
  BY <1>1
<1>3. QED
  BY <1>1, <1>2 DEF ListVal

LEMMA FifoCall ==
    ASSUME KernelInv, NEW t \in Thread, Call(t)
    PROVE  Fifo!Next \/ UNCHANGED <<list, ListCalls, ListVals>>
<1>1. /\ Moving(t) /\ pc[t] = "idle" /\ pc'[t] # "idle" /\ pc'[t] = Entry(cur'[t].op)
      /\ IsRequest(cur'[t]) /\ got'[t] = NoItem /\ list' = list
  BY CallMovesOne DEF listVars
<1>2. ListCall(t) = "none" /\ ListVal(t) = NoItem
  BY <1>1, NotOfList
<1>3. pc'[t] \notin ListDone
  <2>1. Entry(cur'[t].op) \in {"append.acquire", "remove.acquire", "apply.acquire", "disk.acquire",
                               "out.acquire", "in.acquire", "file.call"}
    BY <1>1, EntryRuns
  <2>2. QED
    BY <1>1, <2>1 DEF ListDone
<1>4. CASE cur'[t].op \notin QueueOp
  <2>1. ListCall(t)' = "none" /\ ListVal(t)' = NoItem
    BY <1>4 DEF ListCall, ListVal, QueueOp
  <2>2. QED
    BY <1>1, <1>2, <2>1, ListViewStays
<1>5. CASE cur'[t].op = "RemoveFront"
  <2>1. ListCall(t)' = "dequeue"
    BY <1>1, <1>3, <1>5 DEF ListCall, ListDone
  <2>2. ListVal(t)' = NoItem
    BY <1>1, <1>5, <2>1 DEF ListVal
  <2>3. ListVals' = ListVals
    BY <1>1, <1>2, <2>2, ListViewMoves DEF ListVals
  <2>4. Fifo!CallDequeue(t)
    BY <1>1, <1>2, <2>1, <2>3, ListViewMoves DEF Fifo!CallDequeue
  <2>5. QED
    BY <2>4 DEF Fifo!Next
<1>6. CASE cur'[t].op = "Append"
  <2>1. ListCall(t)' = "enqueue"
    BY <1>1, <1>3, <1>6 DEF ListCall, ListDone
  <2>2. ListVal(t)' = cur'[t].arg
    BY <1>6, <2>1 DEF ListVal
  <2>3. cur'[t].arg \in Item
    BY <1>1, <1>6 DEF IsRequest
  <2>4. Fifo!CallEnqueue(t, cur'[t].arg)
    BY <1>1, <1>2, <2>1, <2>2, ListViewMoves DEF Fifo!CallEnqueue
  <2>5. QED
    BY <2>3, <2>4 DEF Fifo!Next
<1>7. QED
  BY <1>4, <1>5, <1>6 DEF QueueOp

LEMMA FifoStep ==
    ASSUME KernelInv, NEW t \in Thread, ListStep(t)
    PROVE  Fifo!Next \/ UNCHANGED <<list, ListCalls, ListVals>>
<1>1. /\ Moving(t) /\ pc[t] \in ListCode /\ cur' = cur /\ CallInv /\ pc \in [Thread -> Place]
      /\ got = [u \in Thread |-> got[u]]
  BY ListMovesOne DEF KernelInv, CallInv
<1>2. pc[t] # "idle" /\ Runs(cur[t].op, pc[t])
  <2>1. pc[t] # "idle"
    BY <1>1 DEF ListCode, ListHeld, ListLeaving
  <2>2. QED
    BY <1>1, <2>1 DEF CallInv
<1>3. CASE cur[t].op \notin QueueOp
  <2>1. pc[t] \notin {"append.put", "remove.take"}
    BY <1>2, <1>3, PlaceOfList DEF QueueOp
  <2>2. list' = list
    BY <2>1 DEF ListStep, ListAcquire, AppendPut, AppendSignal, RemoveTest, RemoveTake, RemoveWait,
           RemoveUnlock, RemoveSleep, ApplyRun, ListDisown, ListUnlock, At, listVars
  <2>3. QED
    BY <1>1, <1>3, <2>2, OtherThanList
<1>4. CASE cur[t].op \in QueueOp
  <2>1. /\ ListCall(t) = IF pc[t] \in ListDone THEN "done"
                         ELSE IF cur[t].op = "Append" THEN "enqueue" ELSE "dequeue"
        /\ ListVal(t) = IF cur[t].op = "Append" THEN cur[t].arg ELSE got[t]
    BY <1>2, <1>4, OfList
  <2>2. ASSUME pc'[t] # "idle"
        PROVE  /\ ListCall(t)' = IF pc'[t] \in ListDone THEN "done"
                                 ELSE IF cur[t].op = "Append" THEN "enqueue" ELSE "dequeue"
               /\ ListVal(t)' = IF cur[t].op = "Append" THEN cur[t].arg ELSE got'[t]
    <3>1. ListCall(t)' = IF pc'[t] \in ListDone THEN "done"
                         ELSE IF cur[t].op = "Append" THEN "enqueue" ELSE "dequeue"
      BY <1>1, <1>4, <2>2 DEF ListCall, QueueOp, ListDone
    <3>2. ListCall(t)' # "none"
      BY <3>1
    <3>3. QED
      BY <1>1, <3>1, <3>2 DEF ListVal
  <2>3. CASE AppendPut(t)
    <3>1. /\ pc[t] = "append.put" /\ pc'[t] = "append.signal" /\ got' = got
          /\ list' = Append(list, cur[t].arg) /\ cur[t].op = "Append"
      BY <1>1, <1>2, <2>3, PlaceOfList DEF AppendPut, At, Goto, callVars
    <3>2. ListCall(t) = "enqueue" /\ ListVal(t) = cur[t].arg
      BY <2>1, <3>1 DEF ListDone
    <3>3. ListCall(t)' = "done" /\ ListVal(t)' = ListVal(t)
      BY <2>1, <2>2, <3>1 DEF ListDone
    <3>4. ListVals' = ListVals
      BY <1>1, <3>3, ListViewMoves DEF ListVals
    <3>5. Len(list) \in Nat
      BY DEF KernelInv, ListInv
    <3>6. Fifo!Enqueue(t)
      BY <1>1, <3>1, <3>2, <3>3, <3>4, <3>5, ListViewMoves DEF Fifo!Enqueue
    <3>7. QED
      BY <3>6 DEF Fifo!Next
  <2>4. CASE RemoveTake(t)
    <3>1. /\ pc[t] = "remove.take" /\ pc'[t] = "list.disown" /\ got'[t] = Head(list)
          /\ list' = Tail(list) /\ cur[t].op = "RemoveFront"
      BY <1>1, <1>2, <2>4, PlaceOfList DEF RemoveTake, At, Goto, Returns
    <3>2. list # <<>>
      BY <3>1 DEF KernelInv, ListInv
    <3>3. ListCall(t) = "dequeue"
      BY <2>1, <3>1 DEF ListDone
    <3>4. ListCall(t)' = "done" /\ ListVal(t)' = Head(list)
      BY <2>2, <3>1 DEF ListDone
    <3>5. Fifo!Dequeue(t)
      BY <1>1, <3>1, <3>2, <3>3, <3>4, ListViewMoves DEF Fifo!Dequeue
    <3>6. QED
      BY <3>5 DEF Fifo!Next
  <2>5. CASE ListUnlock(t)
    <3>1. pc[t] = "list.unlock" /\ pc'[t] = "idle" /\ list' = list
      BY <1>1, <2>5 DEF ListUnlock, At, Goto, listVars
    <3>2. ListCall(t) = "done"
      BY <2>1, <3>1 DEF ListDone
    <3>3. ListCall(t)' = "none" /\ ListVal(t)' = NoItem
      BY <3>1 DEF ListCall, ListVal
    <3>4. Fifo!Return(t)
      BY <1>1, <3>1, <3>2, <3>3, ListViewMoves DEF Fifo!Return
    <3>5. QED
      BY <3>4 DEF Fifo!Next
  <2>6. CASE AppendSignal(t) \/ ListDisown(t)
    <3>1. pc[t] \in ListDone /\ pc'[t] \in ListDone /\ pc'[t] # "idle" /\ got' = got /\ list' = list
      BY <1>1, <2>6 DEF AppendSignal, ListDisown, At, Goto, callVars, listVars, ListDone
    <3>2. ListCall(t)' = ListCall(t) /\ ListVal(t)' = ListVal(t)
      BY <2>1, <2>2, <3>1
    <3>3. QED
      BY <1>1, <3>1, <3>2, ListViewStays
  <2>7. CASE ListAcquire(t) \/ RemoveTest(t) \/ RemoveWait(t) \/ RemoveUnlock(t) \/ RemoveSleep(t)
    <3>1. pc[t] \notin ListDone /\ pc'[t] \notin ListDone
      BY <1>1, <2>7 DEF ListAcquire, RemoveTest, RemoveWait, RemoveUnlock, RemoveSleep, At, Goto,
             Acquire, P, ListDone
    <3>2. pc'[t] # "idle"
      BY <1>1, <1>2, <2>7 DEF ListAcquire, RemoveTest, RemoveWait, RemoveUnlock, RemoveSleep, At, Goto,
             Acquire, P
    <3>3. got' = got /\ list' = list
      BY <2>7 DEF ListAcquire, RemoveTest, RemoveWait, RemoveUnlock, RemoveSleep, callVars, listVars
    <3>4. ListCall(t)' = ListCall(t) /\ ListVal(t)' = ListVal(t)
      BY <2>1, <2>2, <3>1, <3>2, <3>3
    <3>5. QED
      BY <1>1, <3>3, <3>4, ListViewStays
  <2>8. CASE ApplyRun(t)
    <3>1. pc[t] = "apply.run"
      BY <2>8 DEF ApplyRun, At
    <3>2. cur[t].op = "Apply"
      BY <1>2, <3>1, PlaceOfList
    <3>3. QED
      BY <1>4, <3>2 DEF QueueOp
  <2>9. QED
    BY <2>3, <2>4, <2>5, <2>6, <2>7, <2>8 DEF ListStep
<1>5. QED
  BY <1>3, <1>4

LEMMA FifoNext == KernelInv /\ [Next]_vars => [Fifo!Next]_(Fifo!vars)
<1> SUFFICES ASSUME KernelInv, [Next]_vars
             PROVE  Fifo!Next \/ UNCHANGED <<list, ListCalls, ListVals>>
  BY DEF Fifo!vars
<1>1. CallInv
  BY DEF KernelInv
<1>2. ASSUME NEW t \in Thread, ThreadStep(t)
      PROVE  Fifo!Next \/ UNCHANGED <<list, ListCalls, ListVals>>
  <2>1. CASE Call(t)
    BY <2>1, FifoCall
  <2>2. CASE ListStep(t)
    BY <2>2, FifoStep
  <2>3. CASE /\ DiskStep(t) \/ ConsoleStep(t) \/ FileStep(t)
             /\ UNCHANGED listVars
    <3>1. /\ Moving(t) /\ cur' = cur /\ pc[t] \in DiskCode \cup OutCode \cup InCode \cup FileCode
      BY <1>1, <2>3, DiskMovesOne, ConsoleMovesOne, FileMovesOne
    <3>2. pc[t] # "idle"
      BY <3>1 DEF DiskCode, DiskHeld, DiskLeaving, OutCode, OutHeld, OutLeaving, InCode, InHeld,
                  InLeaving, FileCode
    <3>3. Runs(cur[t].op, pc[t])
      BY <1>1, <3>2 DEF CallInv
    <3>4. cur[t].op \notin QueueOp
      BY <3>1, <3>3, PlaceOfDisk DEF QueueOp, FileOp
    <3>5. QED
      BY <2>3, <3>1, <3>4, OtherThanList DEF listVars
  <2>4. QED
    BY <1>2, <2>1, <2>2, <2>3 DEF ThreadStep
<1>3. CASE \/ Interrupt \/ UNCHANGED vars
           \/ EndOfFile /\ UNCHANGED <<listVars, diskVars, fileVars, todo>>
  <2>1. UNCHANGED <<pc, cur, got, list>>
    BY <1>3 DEF Interrupt, DiskDue, WriteDue, ReadDue, DiskInterrupt, WriteInterrupt, ReadInterrupt, EndOfFile, vars, callVars,
                listVars
  <2>2. QED
    BY <2>1 DEF ListCalls, ListVals, ListCall, ListVal
<1>4. QED
  BY <1>2, <1>3 DEF Next

\* The synchronised list (synchlist.cc over Mesa conditions) implements a
\* first-in-first-out queue: for any number of threads, Append and RemoveFront
\* take effect at one instant, and RemoveFront only while there is an item.
THEOREM ListRefines == Spec => ImplementsFifo
<1>1. Init => Fifo!Init
  <2> SUFFICES ASSUME Init PROVE Fifo!Init
    OBVIOUS
  <2>1. list = <<>> /\ \A t \in Thread : pc[t] = "idle"
    BY DEF Init, ListInit
  <2>2. ListCalls = [t \in Thread |-> "none"] /\ ListVals = [t \in Thread |-> NoItem]
    BY <2>1, NotOfList DEF ListCalls, ListVals
  <2>3. QED
    BY <2>1, <2>2 DEF Fifo!Init
<1>2. QED
  BY <1>1, FifoNext, KernelInvHolds, PTL DEF Spec, ImplementsFifo, Fifo!Spec

-----------------------------------------------------------------------------
(* The files implement UnixFiles.                                          *)

\* The view of one thread's call.
LEMMA FileViewMoves ==
    ASSUME NEW t \in Thread, Moving(t)
    PROVE  /\ CallsOfFiles' = [CallsOfFiles EXCEPT ![t] = FileCall(t)']
           /\ ValsOfFiles' = [ValsOfFiles EXCEPT ![t] = FileVal(t)']
           /\ CallsOfFiles[t] = FileCall(t) /\ ValsOfFiles[t] = FileVal(t)
<1>1. \A u \in Thread : u # t => FileCall(u)' = FileCall(u) /\ FileVal(u)' = FileVal(u)
  BY DEF Moving, FileCall, FileVal, InFileCall
<1>2. QED
  BY <1>1 DEF CallsOfFiles, ValsOfFiles

LEMMA FileViewStays ==
    ASSUME NEW t \in Thread, Moving(t), FileCall(t)' = FileCall(t), FileVal(t)' = FileVal(t)
    PROVE  CallsOfFiles' = CallsOfFiles /\ ValsOfFiles' = ValsOfFiles
<1>1. \A u \in Thread : u # t => FileCall(u)' = FileCall(u) /\ FileVal(u)' = FileVal(u)
  BY DEF Moving, FileCall, FileVal, InFileCall
<1>2. \A u \in Thread : FileCall(u)' = FileCall(u) /\ FileVal(u)' = FileVal(u)
  BY <1>1
<1>3. QED
  BY <1>2 DEF CallsOfFiles, ValsOfFiles

LEMMA NotOfFiles ==
    ASSUME NEW t, pc[t] = "idle" \/ cur[t].op \notin FileOp
    PROVE  FileCall(t) = NoCall /\ FileVal(t) = NoItem
BY DEF FileCall, FileVal, InFileCall

LEMMA OtherThanFiles ==
    ASSUME NEW t \in Thread, Moving(t), cur' = cur, cur[t].op \notin FileOp
    PROVE  CallsOfFiles' = CallsOfFiles /\ ValsOfFiles' = ValsOfFiles
<1>1. FileCall(t) = NoCall /\ FileVal(t) = NoItem
  BY NotOfFiles
<1>2. FileCall(t)' = NoCall /\ FileVal(t)' = NoItem
  BY DEF FileCall, FileVal, InFileCall
<1>3. QED
  BY <1>1, <1>2, FileViewStays

\* The files, and what the table makes of them, only depend on fileVars.
LEMMA OpenedStays == UNCHANGED fileVars => hostFiles' = hostFiles /\ Opened' = Opened
BY DEF fileVars, tables, Opened, BehindDescriptor

\* What UnixFiles knows of an entry.
LEMMA OpenedIs ==
    ASSUME FileInv
    PROVE  /\ DOMAIN Opened = DOMAIN OpenFileTable
           /\ \A id \in DOMAIN OpenFileTable :
                 Opened[id] = [name |-> hostOpen[OpenFileTable[id].file],
                               at |-> OpenFileTable[id].currentOffset]
<1>1. \A id \in DOMAIN OpenFileTable : OpenFileTable[id].file \in DOMAIN hostOpen
  BY EntryIs
<1>2. QED
  BY <1>1 DEF Opened, BehindDescriptor

\* Descriptors are the least that are free.
LEMMA LeastFreeBelow ==
    ASSUME NEW S, S \subseteq Nat, IsFiniteSet(S)
    PROVE  \A k \in 0 .. LeastFree(S) - 1 : k \in S
<1> DEFINE C == Cardinality(S)
           F == (0 .. C) \ S
<1>1. C \in Nat /\ LeastFree(S) = Min(F) /\ F \subseteq Nat
  BY FS_CardinalityType DEF LeastFree
<1>2. F # {}
  <2>1. 0 \in Int /\ C \in Int /\ ~ (0 > C)
    BY <1>1
  <2>2. IsFiniteSet(0 .. C) /\ Cardinality(0 .. C) = IF 0 > C THEN 0 ELSE C - 0 + 1
    BY <2>1, FS_Interval
  <2>3. SUFFICES ASSUME 0 .. C \subseteq S PROVE FALSE
    OBVIOUS
  <2>4. Cardinality(0 .. C) <= C
    BY <2>3, FS_Subset
  <2>5. QED
    BY <1>1, <2>1, <2>2, <2>4
<1> HIDE DEF C
<1>3. Min(F) \in F /\ \A y \in F : Min(F) <= y
  <2> HIDE DEF F
  <2>1. QED
    BY <1>1, <1>2, MinIs
<1>4. SUFFICES ASSUME NEW k \in 0 .. Min(F) - 1, k \notin S PROVE FALSE
  BY <1>1
<1>5. k \in F /\ ~ (Min(F) <= k)
  BY <1>1, <1>3, <1>4
<1>6. QED
  BY <1>3, <1>5

\* A call of the file system as UnixFiles sees it before and after its effect.
LEMMA UnixServed ==
    ASSUME KernelInv, NEW t \in Thread, NEW op \in FileOp, Serves(t, op), cur' = cur,
           NEW status, NEW buffer, Reply(t, status, buffer)
    PROVE  /\ CallsOfFiles[t] = cur[t] /\ cur[t].op = op /\ IsRequest(cur[t])
           /\ CallsOfFiles' = [CallsOfFiles EXCEPT ![t].op = "done"]
           /\ ValsOfFiles' = [ValsOfFiles EXCEPT ![t] = [status |-> status, buffer |-> buffer]]
<1>1. /\ pc[t] = "file.call" /\ Moves(t, "file.return") /\ cur[t].op = op
      /\ Returns(t, [status |-> status, buffer |-> buffer])
  BY DEF Serves, At, Goto, Moves, Reply
<1>2. CallInv
  BY DEF KernelInv
<1>3. Moving(t)
  BY <1>1, <1>2, MovingOne
<1>4. /\ pc'[t] = "file.return" /\ got'[t] = [status |-> status, buffer |-> buffer]
      /\ cur[t] \in AllCalls
  BY <1>1, <1>2 DEF CallInv, Moves, Returns
<1>5. FileCall(t) = cur[t]
  BY <1>1 DEF FileCall, InFileCall
<1>6. FileCall(t)' = [cur[t] EXCEPT !.op = "done"] /\ FileVal(t)' = got'[t]
  BY <1>1, <1>4 DEF FileCall, FileVal, InFileCall
<1>7. IsRequest(cur[t])
  BY <1>4, WorkloadAssumption
<1>8. CallsOfFiles[t] = cur[t]
  BY <1>3, <1>5, FileViewMoves
<1>9. CallsOfFiles' = [CallsOfFiles EXCEPT ![t].op = "done"]
  BY <1>3, <1>6, <1>8, FileViewMoves
<1>10. ValsOfFiles' = [ValsOfFiles EXCEPT ![t] = [status |-> status, buffer |-> buffer]]
  BY <1>3, <1>4, <1>6, FileViewMoves
<1>11. QED
  BY <1>1, <1>7, <1>8, <1>9, <1>10

\* ... that is, the call is done there with the same result.
LEMMA UnixDone ==
    ASSUME KernelInv, NEW t \in Thread, NEW op \in FileOp, Serves(t, op), cur' = cur,
           NEW status, NEW buffer, Reply(t, status, buffer)
    PROVE  /\ CallsOfFiles[t] = cur[t] /\ cur[t].op = op /\ IsRequest(cur[t])
           /\ Unix!Done(t, status, buffer)
BY UnixServed DEF Unix!Done

LEMMA UnixRefused ==
    ASSUME KernelInv, NEW t \in Thread, NEW op \in FileOp, Serves(t, op), cur' = cur, Refuse(t)
    PROVE  /\ CallsOfFiles[t] = cur[t] /\ cur[t].op = op /\ IsRequest(cur[t])
           /\ Unix!Fail(t)
<1>1. Reply(t, -1, <<>>) /\ UNCHANGED fileVars
  BY DEF Refuse, Reply, fileVars
<1>2. QED
  BY <1>1, UnixDone, OpenedStays DEF Unix!Fail

\* A call that aborts is not done there.
LEMMA UnixAborts ==
    ASSUME Abort, cur' = cur
    PROVE  CallsOfFiles' = CallsOfFiles /\ ValsOfFiles' = ValsOfFiles
BY DEF Abort, CallsOfFiles, ValsOfFiles, FileCall, FileVal, InFileCall

\* What a step of a call on files is there.
FilesNext == Unix!Next \/ Departs
FilesSame == UNCHANGED <<hostFiles, Opened, CallsOfFiles, ValsOfFiles>>

LEMMA UnixCreate ==
    ASSUME KernelInv, NEW t \in Thread, SysCreate(t)
    PROVE  FilesNext \/ FilesSame
<1>1. /\ Serves(t, "Create") /\ cur' = cur
      /\ \/ hostFiles' = With(hostFiles, cur[t].arg, <<>>) /\ Reply(t, 1, <<>>)
         \/ hostFiles' = hostFiles /\ Abort
      /\ hostOpen' = hostOpen /\ OpenFileTable' = OpenFileTable
  BY DEF SysCreate, OpenForWrite
<1>2. Opened' = Opened
  BY <1>1 DEF Opened, BehindDescriptor
<1>3. CASE hostFiles' = With(hostFiles, cur[t].arg, <<>>) /\ Reply(t, 1, <<>>)
  <2>1. CallsOfFiles[t] = cur[t] /\ cur[t].op = "Create" /\ Unix!Done(t, 1, <<>>)
    BY <1>1, <1>3, UnixDone DEF FileOp
  <2>2. hostFiles' = Unix!With(hostFiles, CallsOfFiles[t].arg, <<>>)
    BY <1>3, <2>1 DEF With, Unix!With
  <2>3. Unix!Create(t)
    BY <1>2, <2>1, <2>2 DEF Unix!Create
  <2>4. QED
    BY <2>3 DEF FilesNext, Unix!Next
<1>4. CASE hostFiles' = hostFiles /\ Abort
  BY <1>1, <1>2, <1>4, UnixAborts DEF FilesSame
<1>5. QED
  BY <1>1, <1>3, <1>4

LEMMA UnixOpen ==
    ASSUME KernelInv, NEW t \in Thread, SysOpen(t)
    PROVE  FilesNext
<1> DEFINE name == cur[t].arg
           all == 0 .. NumOpen - 1
<1>0. PICK id, fd : id = LeastFree(DOMAIN OpenFileTable) /\ fd = LeastFree(DOMAIN hostOpen)
  OBVIOUS
<1>1. FileInv /\ NumOpen \in Nat
  BY FileAssumption DEF KernelInv
<1>2. DOMAIN Opened = DOMAIN OpenFileTable
  BY <1>1, OpenedIs
<1>3. DOMAIN OpenFileTable \subseteq Nat /\ IsFiniteSet(DOMAIN OpenFileTable)
  <2>1. DOMAIN OpenFileTable \subseteq 0 .. NumOpen - 1
    BY <1>1 DEF FileInv
  <2>2. IsFiniteSet(0 .. NumOpen - 1)
    BY <1>1, FS_Interval
  <2>3. QED
    BY <1>1, <2>1, <2>2, FS_Subset
<1>4. /\ id \in Nat /\ id \notin DOMAIN OpenFileTable
      /\ \A k \in 0 .. id - 1 : k \in DOMAIN OpenFileTable
  BY <1>0, <1>3, LeastFreeIs, LeastFreeBelow
<1>5. fd \in Nat /\ fd \notin DOMAIN hostOpen
  BY <1>0, <1>1, LeastFreeIs DEF FileInv
<1>6. /\ Serves(t, "Open") /\ cur' = cur
      /\ \/ /\ id = NumOpen \/ name \notin DOMAIN hostFiles
            /\ Refuse(t)
         \/ /\ id < NumOpen /\ name \in DOMAIN hostFiles
            /\ hostOpen' = With(hostOpen, fd, name)
            /\ OpenFileTable' = With(OpenFileTable, id, [file |-> fd, currentOffset |-> 0])
            /\ Reply(t, id, <<>>)
            /\ hostFiles' = hostFiles
  BY <1>0 DEF SysOpen, OpenForReadWrite
<1>7. CASE (id = NumOpen \/ name \notin DOMAIN hostFiles) /\ Refuse(t)
  <2>1. CallsOfFiles[t] = cur[t] /\ cur[t].op = "Open" /\ Unix!Fail(t)
    BY <1>6, <1>7, UnixRefused DEF FileOp
  <2>2. name \notin DOMAIN hostFiles \/ all \ SysConsole \subseteq DOMAIN Opened
    BY <1>2, <1>4, <1>7
  <2>3. Unix!Open(t)
    BY <2>1, <2>2 DEF Unix!Open
  <2>4. QED
    BY <2>3 DEF FilesNext, Unix!Next
<1>8. CASE /\ id < NumOpen /\ name \in DOMAIN hostFiles
           /\ hostOpen' = With(hostOpen, fd, name)
           /\ OpenFileTable' = With(OpenFileTable, id, [file |-> fd, currentOffset |-> 0])
           /\ Reply(t, id, <<>>)
           /\ hostFiles' = hostFiles
  <2>1. CallsOfFiles[t] = cur[t] /\ cur[t].op = "Open" /\ Unix!Done(t, id, <<>>)
    BY <1>6, <1>8, UnixDone DEF FileOp
  <2>2. id \in all \ DOMAIN Opened
    BY <1>1, <1>2, <1>4, <1>8
  <2>3. /\ DOMAIN OpenFileTable' = DOMAIN OpenFileTable \cup {id}
        /\ OpenFileTable'[id] = [file |-> fd, currentOffset |-> 0]
        /\ \A x \in DOMAIN OpenFileTable : OpenFileTable'[x] = OpenFileTable[x]
    BY <1>4, <1>8 DEF With
  <2>4. /\ DOMAIN hostOpen' = DOMAIN hostOpen \cup {fd}
        /\ hostOpen'[fd] = name
        /\ \A d \in DOMAIN hostOpen : hostOpen'[d] = hostOpen[d]
    BY <1>5, <1>8 DEF With
  <2>5. \A x \in DOMAIN OpenFileTable :
           /\ OpenFileTable[x].file \in DOMAIN hostOpen
           /\ Opened[x] = [name |-> hostOpen[OpenFileTable[x].file],
                           at |-> OpenFileTable[x].currentOffset]
    BY <1>1, EntryIs, OpenedIs
  <2> DEFINE entry(x) == [name |-> BehindDescriptor(OpenFileTable[x].file),
                          at |-> OpenFileTable[x].currentOffset]
  <2>6. Opened' = [x \in DOMAIN OpenFileTable' |-> entry(x)']
    BY DEF Opened
  <2>7. entry(id)' = [name |-> name, at |-> 0]
    BY <2>3, <2>4 DEF BehindDescriptor
  <2>8. ASSUME NEW x \in DOMAIN OpenFileTable PROVE entry(x)' = Opened[x]
    <3>1. OpenFileTable'[x] = OpenFileTable[x] /\ OpenFileTable[x].file \in DOMAIN hostOpen
      BY <2>3, <2>5
    <3>2. BehindDescriptor(OpenFileTable[x].file)' = hostOpen[OpenFileTable[x].file]
      BY <2>4, <3>1 DEF BehindDescriptor
    <3>3. QED
      BY <2>5, <3>1, <3>2
  <2> HIDE DEF entry
  <2>9. Opened' = Unix!With(Opened, id, [name |-> name, at |-> 0])
    BY <1>2, <1>4, <2>3, <2>6, <2>7, <2>8 DEF Unix!With
  <2>10. ASSUME NEW D, id \in D PROVE Unix!OpenAs(t, D)
    BY <1>8, <2>1, <2>2, <2>9, <2>10 DEF Unix!OpenAs
  <2>11. CASE id \in SysConsole
    <3>1. ConsoleIsFile(t)
      BY <2>10, <2>11 DEF ConsoleIsFile
    <3>2. QED
      BY <3>1 DEF FilesNext, Departs
  <2>12. CASE id \notin SysConsole
    <3>1. Unix!Open(t)
      BY <2>2, <2>10, <2>12 DEF Unix!Open
    <3>2. QED
      BY <3>1 DEF FilesNext, Unix!Next
  <2>13. QED
    BY <2>11, <2>12
<1>9. QED
  BY <1>6, <1>7, <1>8

\* Descriptors that are not open.
LEMMA UnixBad ==
    ASSUME KernelInv, NEW t \in Thread, NEW op \in {"Read", "Write", "Close"}, Serves(t, op),
           cur' = cur, Refuse(t), cur[t].arg.id \notin DOMAIN OpenFileTable
    PROVE  FilesNext
<1>1. CallsOfFiles[t] = cur[t] /\ cur[t].op = op /\ Unix!Fail(t)
  BY UnixRefused DEF FileOp
<1>2. cur[t].arg.id \notin DOMAIN Opened
  BY OpenedIs DEF KernelInv
<1>3. Unix!Unopened(t)
  BY <1>1, <1>2 DEF Unix!Unopened
<1>4. Unix!Bad(t) \/ ConsoleIsFile(t)
  BY <1>1, <1>3 DEF Unix!Bad, ConsoleIsFile
<1>5. QED
  BY <1>4 DEF FilesNext, Unix!Next, Departs

\* The position of an open descriptor moves.
LEMMA UnixMoves ==
    ASSUME FileInv, NEW id \in DOMAIN OpenFileTable, NEW moved \in Int, Advance(id, moved),
           hostOpen' = hostOpen
    PROVE  Unix!Move(id, moved)
<1>1. /\ OpenFileTable[id].currentOffset \in Int
      /\ OpenFileTable \in
              [DOMAIN OpenFileTable -> [file : DOMAIN hostOpen, currentOffset : Offset]]
  BY EntryIs DEF FileInv, Offset
<1>2. /\ DOMAIN OpenFileTable' = DOMAIN OpenFileTable
      /\ \A x \in DOMAIN OpenFileTable : x # id => OpenFileTable'[x] = OpenFileTable[x]
      /\ OpenFileTable'[id].file = OpenFileTable[id].file
      /\ OpenFileTable'[id].currentOffset = OpenFileTable[id].currentOffset + moved
  <2>1. OpenFileTable' = [OpenFileTable EXCEPT ![id] =
                             [OpenFileTable[id] EXCEPT !.currentOffset =
                                 OpenFileTable[id].currentOffset + moved]]
    BY DEF Advance
  <2>2. OpenFileTable[id] \in [file : DOMAIN hostOpen, currentOffset : Offset]
    BY <1>1
  <2>3. QED
    BY <1>1, <2>1, <2>2
<1> DEFINE entry(x) == [name |-> BehindDescriptor(OpenFileTable[x].file),
                        at |-> OpenFileTable[x].currentOffset]
<1>3. Opened = [x \in DOMAIN OpenFileTable |-> entry(x)]
      /\ Opened' = [x \in DOMAIN OpenFileTable' |-> entry(x)']
  BY DEF Opened
<1>4. \A x \in DOMAIN OpenFileTable : x # id => entry(x)' = entry(x)
  BY <1>2 DEF BehindDescriptor
<1>5. entry(id)' = [entry(id) EXCEPT !.at = entry(id).at + moved]
  BY <1>2 DEF BehindDescriptor
<1> HIDE DEF entry
<1>6. Opened' = [Opened EXCEPT ![id] = [entry(id) EXCEPT !.at = entry(id).at + moved]]
  BY <1>2, <1>3, <1>4, <1>5
<1>7. Opened[id] = entry(id)
  BY <1>3
<1>8. QED
  BY <1>6, <1>7 DEF Unix!Move

\* Moving by nothing leaves the table as it is.
LEMMA UnixRests ==
    ASSUME FileInv, NEW id \in DOMAIN OpenFileTable, Advance(id, 0), hostOpen' = hostOpen
    PROVE  Opened' = Opened
<1>1. OpenFileTable[id].currentOffset \in Int
      /\ OpenFileTable[id] \in [file : DOMAIN hostOpen, currentOffset : Offset]
      /\ OpenFileTable \in
              [DOMAIN OpenFileTable -> [file : DOMAIN hostOpen, currentOffset : Offset]]
  BY EntryIs DEF FileInv, Offset
<1>2. OpenFileTable[id].currentOffset + 0 = OpenFileTable[id].currentOffset
  BY <1>1
<1>3. OpenFileTable' = [OpenFileTable EXCEPT ![id] =
                             [OpenFileTable[id] EXCEPT !.currentOffset =
                                 OpenFileTable[id].currentOffset]]
  BY <1>2 DEF Advance
<1>4. OpenFileTable' = OpenFileTable
  BY <1>1, <1>3
<1>5. QED
  BY <1>4 DEF Opened, BehindDescriptor

\* What ReadPartial gets: the bytes from the position on, not more than are asked
\* for and not more than there are.
LEMMA ReadSame ==
    ASSUME NEW content \in Seq(Nat), NEW at \in Nat, NEW size \in Nat
    PROVE  LET rest == SubSeq(content, at + 1, Len(content))
               n == IF size < Len(rest) THEN size ELSE Len(rest)
               bytes == SubSeq(content, at + 1, Min({at + size, Len(content)}))
           IN  n \in Nat /\ Len(bytes) = n /\ bytes = SubSeq(rest, 1, n)
<1> DEFINE rest == SubSeq(content, at + 1, Len(content))
           n == IF size < Len(rest) THEN size ELSE Len(rest)
           last == Min({at + size, Len(content)})
           bytes == SubSeq(content, at + 1, last)
<1>1. Len(content) \in Nat /\ {at + size, Len(content)} \subseteq Nat
  OBVIOUS
<1>2. last \in {at + size, Len(content)} /\ \A y \in {at + size, Len(content)} : last <= y
  BY <1>1, MinIs
<1>3. last \in Nat /\ last <= Len(content) /\ last <= at + size
      /\ (last = at + size \/ last = Len(content))
  BY <1>1, <1>2
<1> HIDE DEF last
<1>4. /\ rest = [i \in 1 .. (IF at < Len(content) THEN Len(content) - at ELSE 0) |-> content[at + i]]
      /\ Len(rest) = IF at < Len(content) THEN Len(content) - at ELSE 0
  OBVIOUS
<1>5. /\ bytes = [i \in 1 .. (IF at < last THEN last - at ELSE 0) |-> content[at + i]]
      /\ Len(bytes) = IF at < last THEN last - at ELSE 0
  BY <1>3
<1>6. n \in Nat /\ n <= Len(rest) /\ n = IF at < last THEN last - at ELSE 0
  BY <1>3, <1>4
<1>7. rest \in Seq(Nat)
  OBVIOUS
<1> HIDE DEF rest, bytes, n
<1>8. SubSeq(rest, 1, n) = [i \in 1 .. n |-> rest[i]]
  BY <1>6, <1>7
<1>9. \A i \in 1 .. n : rest[i] = content[at + i]
  BY <1>4, <1>6
<1>10. bytes = [i \in 1 .. n |-> content[at + i]] /\ Len(bytes) = n
  BY <1>5, <1>6
<1>11. bytes = SubSeq(rest, 1, n)
  BY <1>8, <1>9, <1>10
<1>12. QED
  BY <1>6, <1>10, <1>11 DEF rest, n, bytes, last

\* Two sequences one after the other.
LEMMA Joined ==
    ASSUME NEW s \in Seq(Nat), NEW u \in Seq(Nat)
    PROVE  /\ s \o u \in Seq(Nat) /\ Len(s \o u) = Len(s) + Len(u)
           /\ \A i \in 1 .. Len(s) + Len(u) :
                 (s \o u)[i] = IF i <= Len(s) THEN s[i] ELSE u[i - Len(s)]
OBVIOUS

LEMMA RowOf ==
    ASSUME NEW n \in Nat, NEW s \in [1 .. n -> Nat]
    PROVE  s \in Seq(Nat) /\ Len(s) = n
OBVIOUS

\* What WriteFile leaves: the bytes at the position, zeros in a gap before it,
\* and the rest as it was.
LEMMA WriteSame ==
    ASSUME NEW old \in Seq(Nat), NEW at \in Nat, NEW bytes \in Seq(Nat), bytes # <<>>
    PROVE  Overwritten(old, at, bytes) =
             SubSeq(old \o [k \in 1 .. at - Len(old) |-> 0], 1, at) \o bytes
                 \o SubSeq(old, at + Len(bytes) + 1, Len(old))
<1> DEFINE gap == [k \in 1 .. at - Len(old) |-> 0]
           front == SubSeq(old \o gap, 1, at)
           back == SubSeq(old, at + Len(bytes) + 1, Len(old))
           new == Overwritten(old, at, bytes)
<1>1. Len(old) \in Nat /\ Len(bytes) \in Nat \ {0}
  OBVIOUS
<1>2. gap \in Seq(Nat) /\ Len(gap) = IF at > Len(old) THEN at - Len(old) ELSE 0
  <2> DEFINE n == IF at > Len(old) THEN at - Len(old) ELSE 0
  <2>1. n \in Nat /\ 1 .. at - Len(old) = 1 .. n
    BY <1>1
  <2>2. gap \in [1 .. n -> Nat]
    BY <2>1
  <2> HIDE DEF gap, n
  <2>3. gap \in Seq(Nat) /\ Len(gap) = n
    BY <2>1, <2>2, RowOf
  <2>4. QED
    BY <2>3 DEF n
<1>3. \A k \in 1 .. Len(gap) : gap[k] = 0
  <2>1. \A k \in 1 .. at - Len(old) : gap[k] = 0
    OBVIOUS
  <2> HIDE DEF gap
  <2>2. Len(gap) = 0 \/ Len(gap) = at - Len(old)
    BY <1>2
  <2>3. QED
    BY <2>1, <2>2
<1> HIDE DEF gap
<1>4. /\ old \o gap \in Seq(Nat) /\ Len(old \o gap) = Len(old) + Len(gap)
      /\ \A i \in 1 .. Len(old) + Len(gap) :
            (old \o gap)[i] = IF i <= Len(old) THEN old[i] ELSE gap[i - Len(old)]
  BY <1>2, Joined
<1>5. at <= Len(old) + Len(gap)
  BY <1>1, <1>2
<1>6. /\ front \in Seq(Nat) /\ Len(front) = at
      /\ \A i \in 1 .. at : front[i] = IF i <= Len(old) THEN old[i] ELSE 0
  <2>1. front = [i \in 1 .. at |-> (old \o gap)[i]]
    BY <1>4, <1>5
  <2>2. \A i \in 1 .. at : (old \o gap)[i] = IF i <= Len(old) THEN old[i] ELSE 0
    <3>1. SUFFICES ASSUME NEW i \in 1 .. at
                   PROVE  (old \o gap)[i] = IF i <= Len(old) THEN old[i] ELSE 0
      OBVIOUS
    <3>2. i \in 1 .. Len(old) + Len(gap)
      BY <1>1, <1>2, <1>5
    <3>3. ~ (i <= Len(old)) => i - Len(old) \in 1 .. Len(gap)
      BY <1>1, <1>2, <3>2
    <3>4. QED
      BY <1>3, <1>4, <3>2, <3>3
  <2>3. front \in Seq(Nat)
    <3> DEFINE whole == old \o gap
    <3>1. whole \in Seq(Nat) /\ at <= Len(whole)
      BY <1>4, <1>5
    <3> HIDE DEF whole
    <3>2. SubSeq(whole, 1, at) \in Seq(Nat)
      BY <3>1, PartIs
    <3>3. QED
      BY <3>2 DEF whole
  <2>4. Len(front) = at /\ \A i \in 1 .. at : front[i] = (old \o gap)[i]
    <3>1. \A i \in 1 .. at : (old \o gap)[i] \in Nat
      BY <1>4, <1>5
    <3>2. front \in [1 .. at -> Nat]
      BY <2>1, <3>1
    <3>3. Len(front) = at
      <4> HIDE DEF front
      <4>1. QED
        BY <3>2, RowOf
    <3>4. QED
      BY <2>1, <3>3
  <2>5. QED
    BY <2>2, <2>3, <2>4
<1>7. /\ back \in Seq(Nat)
      /\ Len(back) = IF at + Len(bytes) < Len(old) THEN Len(old) - (at + Len(bytes)) ELSE 0
      /\ \A i \in 1 .. Len(back) : back[i] = old[at + Len(bytes) + i]
  BY <1>1
<1> HIDE DEF front, back
<1>8. /\ front \o bytes \o back \in Seq(Nat)
      /\ Len(front \o bytes \o back) = at + Len(bytes) + Len(back)
      /\ \A i \in 1 .. at + Len(bytes) + Len(back) :
            (front \o bytes \o back)[i] =
               IF i <= at THEN front[i]
               ELSE IF i <= at + Len(bytes) THEN bytes[i - at]
               ELSE back[i - (at + Len(bytes))]
  <2>1. /\ front \o bytes \in Seq(Nat) /\ Len(front \o bytes) = at + Len(bytes)
        /\ \A i \in 1 .. at + Len(bytes) :
              (front \o bytes)[i] = IF i <= at THEN front[i] ELSE bytes[i - at]
    BY <1>6, Joined
  <2> DEFINE both == front \o bytes
  <2>2. both \in Seq(Nat) /\ Len(both) = at + Len(bytes) /\ back \in Seq(Nat)
    BY <1>7, <2>1
  <2> HIDE DEF both
  <2>3. /\ both \o back \in Seq(Nat) /\ Len(both \o back) = at + Len(bytes) + Len(back)
        /\ \A i \in 1 .. at + Len(bytes) + Len(back) :
              (both \o back)[i] = IF i <= at + Len(bytes) THEN both[i]
                                  ELSE back[i - (at + Len(bytes))]
    <3>1. /\ both \o back \in Seq(Nat) /\ Len(both \o back) = Len(both) + Len(back)
          /\ \A i \in 1 .. Len(both) + Len(back) :
                (both \o back)[i] = IF i <= Len(both) THEN both[i] ELSE back[i - Len(both)]
      BY <2>2, Joined
    <3>2. QED
      BY <2>2, <3>1
  <2>4. \A i \in 1 .. at + Len(bytes) + Len(back) :
           i <= at + Len(bytes) => i \in 1 .. at + Len(bytes)
    BY <1>1, <1>7
  <2>5. \A i \in 1 .. at + Len(bytes) + Len(back) : i <= at => i <= at + Len(bytes)
    BY <1>1, <1>7
  <2>6. QED
    BY <2>1, <2>3, <2>4, <2>5 DEF both
<1>9. Max({Len(old), at + Len(bytes)}) = at + Len(bytes) + Len(back)
  <2>1. at + Len(bytes) \in Nat
    BY <1>1
  <2>2. /\ Max({Len(old), at + Len(bytes)}) \in {Len(old), at + Len(bytes)}
        /\ Max({Len(old), at + Len(bytes)}) >= Len(old)
        /\ Max({Len(old), at + Len(bytes)}) >= at + Len(bytes)
    BY <1>1, <2>1, MaxIs
  <2>3. CASE at + Len(bytes) < Len(old)
    BY <1>1, <1>7, <2>1, <2>2, <2>3
  <2>4. CASE ~ (at + Len(bytes) < Len(old))
    <3>1. at + Len(bytes) + Len(back) = at + Len(bytes)
      BY <1>1, <1>7, <2>4
    <3>2. QED
      BY <1>1, <2>1, <2>2, <2>4, <3>1
  <2>5. QED
    BY <2>3, <2>4
<1> DEFINE m == at + Len(bytes) + Len(back)
<1>10. m \in Nat
  <2>1. Len(back) \in Nat
    BY <1>7
  <2>2. QED
    BY <1>1, <2>1
<1>11. /\ new = [k \in 1 .. m |-> IF k - at \in DOMAIN bytes THEN bytes[k - at]
                                  ELSE IF k <= Len(old) THEN old[k] ELSE 0]
  BY <1>9 DEF Overwritten, Hole
<1>12. ASSUME NEW k \in 1 .. m
       PROVE  (IF k - at \in DOMAIN bytes THEN bytes[k - at]
               ELSE IF k <= Len(old) THEN old[k] ELSE 0) = (front \o bytes \o back)[k]
  <2>1. k \in Int /\ k >= 1 /\ k <= m
    BY <1>10
  <2>2. DOMAIN bytes = 1 .. Len(bytes)
    OBVIOUS
  <2>3. CASE k <= at
    <3>1. k - at \notin DOMAIN bytes /\ k \in 1 .. at
      BY <1>1, <2>1, <2>2, <2>3
    <3>2. QED
      BY <1>6, <1>8, <2>3, <3>1
  <2>4. CASE ~ (k <= at) /\ k <= at + Len(bytes)
    <3>1. k - at \in DOMAIN bytes
      BY <1>1, <2>1, <2>2, <2>4
    <3>2. QED
      BY <1>8, <2>4, <3>1
  <2>5. CASE ~ (k <= at + Len(bytes))
    <3>1. k - at \notin DOMAIN bytes /\ ~ (k <= at)
      BY <1>1, <2>1, <2>2, <2>5
    <3>2. k - (at + Len(bytes)) \in 1 .. Len(back) /\ k <= Len(old)
      <4>1. Len(back) \in Nat /\ (Len(back) = 0 \/ Len(back) = Len(old) - (at + Len(bytes)))
        BY <1>7
      <4>2. QED
        BY <1>1, <2>1, <2>5, <4>1
    <3>3. at + Len(bytes) + (k - (at + Len(bytes))) = k
      BY <1>1, <2>1
    <3>4. back[k - (at + Len(bytes))] = old[k]
      BY <1>7, <3>2, <3>3
    <3>5. QED
      BY <1>8, <2>5, <3>1, <3>2, <3>4
  <2>6. QED
    BY <2>3, <2>4, <2>5
<1>13. front \o bytes \o back = [k \in 1 .. m |-> (front \o bytes \o back)[k]]
  <2> DEFINE whole == front \o bytes \o back
  <2>1. whole \in Seq(Nat) /\ Len(whole) = m
    BY <1>8
  <2> HIDE DEF whole, m
  <2>2. whole = [k \in 1 .. m |-> whole[k]]
    BY <2>1
  <2>3. QED
    BY <2>2 DEF whole
<1> HIDE DEF m, new
<1>14. new = front \o bytes \o back
  BY <1>11, <1>12, <1>13
<1>15. QED
  BY <1>14 DEF new, front, back, gap

\* The bytes that a read of UnixFiles gets.
Rest(d) == SubSeq(hostFiles[Opened[d].name], Opened[d].at + 1, Len(hostFiles[Opened[d].name]))
Least(m, n) == IF m < n THEN m ELSE n

\* An open descriptor whose offset is in the file or past it.
LEMMA Transferring ==
    ASSUME FileInv, NEW t \in Thread, NEW op, CallsOfFiles[t] = cur[t], cur[t].op = op,
           NEW id \in DOMAIN OpenFileTable, id = cur[t].arg.id, Lseek(id)
    PROVE  /\ OpenFileTable[id].currentOffset \in Nat
           /\ Unix!Transfers(t, op, id)
<1>1. OpenFileTable[id].currentOffset \in Nat
  BY EntryIs DEF Lseek, Offset
<1>2. id \in DOMAIN Opened /\ Opened[id].at = OpenFileTable[id].currentOffset
  BY OpenedIs
<1>3. QED
  BY <1>1, <1>2 DEF Unix!Transfers, Unix!Uses

\* A refused transfer.
LEMMA UnixSlips ==
    ASSUME KernelInv, NEW t \in Thread, NEW op \in {"Read", "Write"}, Serves(t, op), cur' = cur,
           NEW id \in DOMAIN OpenFileTable, id = cur[t].arg.id, Lseek(id), Slip(t, id),
           UNCHANGED <<hostFiles, hostOpen>>
    PROVE  FilesNext
<1>1. Advance(id, -1) /\ Reply(t, -1, <<>>) /\ FileInv
  BY DEF Slip, KernelInv
<1>2. CallsOfFiles[t] = cur[t] /\ cur[t].op = op /\ Unix!Done(t, -1, <<>>)
  BY <1>1, UnixDone DEF FileOp
<1>3. Unix!Transfers(t, op, id)
  BY <1>1, <1>2, Transferring
<1>4. Unix!Move(id, -1)
  BY <1>1, UnixMoves
<1>5. Slips(t, id)
  BY <1>2, <1>3, <1>4 DEF Slips
<1>6. QED
  BY <1>5 DEF FilesNext, Departs

LEMMA UnixRead ==
    ASSUME KernelInv, NEW t \in Thread, SysRead(t)
    PROVE  FilesNext \/ FilesSame
<1>0. PICK id, at, fd, size : /\ id = cur[t].arg.id /\ size = cur[t].arg.size
                              /\ at = OpenFileTable[id].currentOffset
                              /\ fd = OpenFileTable[id].file
  OBVIOUS
<1> DEFINE content == hostFiles[hostOpen[fd]]
<1>1. PICK bytes : bytes = SubSeq(content, at + 1, Min({at + size, Len(content)}))
  OBVIOUS
<1>2. /\ Serves(t, "Read") /\ cur' = cur /\ FileInv
      /\ \/ id \notin DOMAIN OpenFileTable /\ Refuse(t)
         \/ Abort /\ UNCHANGED tables
         \/ /\ id \in DOMAIN OpenFileTable /\ Lseek(id) /\ size >= 0
            /\ Advance(id, Len(bytes)) /\ Reply(t, Transferred(bytes), bytes)
            /\ hostFiles' = hostFiles /\ hostOpen' = hostOpen
         \/ /\ id \in DOMAIN OpenFileTable /\ Lseek(id) /\ Slip(t, id)
            /\ hostFiles' = hostFiles /\ hostOpen' = hostOpen
  BY <1>0, <1>1 DEF SysRead, ReadPartial, KernelInv, tables
<1>3. CASE id \notin DOMAIN OpenFileTable /\ Refuse(t)
  BY <1>0, <1>2, <1>3, UnixBad
<1>4. CASE /\ id \in DOMAIN OpenFileTable /\ Lseek(id) /\ size >= 0
           /\ Advance(id, Len(bytes)) /\ Reply(t, Transferred(bytes), bytes)
           /\ hostFiles' = hostFiles /\ hostOpen' = hostOpen
  <2>1. /\ CallsOfFiles[t] = cur[t] /\ cur[t].op = "Read" /\ IsRequest(cur[t])
        /\ Unix!Done(t, Transferred(bytes), bytes)
    BY <1>2, <1>4, UnixDone DEF FileOp
  <2>2. size \in Nat
    BY <1>0, <1>4, <2>1 DEF IsRequest
  <2>3. content \in Seq(Nat) /\ at \in Nat /\ Unix!Transfers(t, "Read", id)
    BY <1>0, <1>2, <1>4, <2>1, EntryIs, Transferring
  <2>4. Opened[id] = [name |-> hostOpen[fd], at |-> at]
    BY <1>0, <1>2, <1>4, OpenedIs
  <2>5. Rest(id) = SubSeq(content, at + 1, Len(content))
    <3>1. Opened[id].name = hostOpen[fd] /\ Opened[id].at = at
      BY <2>4
    <3>2. QED
      BY <3>1 DEF Rest
  <2> DEFINE n == Least(size, Len(Rest(id)))
  <2>6. n \in Nat /\ Len(bytes) = n /\ bytes = SubSeq(Rest(id), 1, n)
    <3> HIDE DEF content
    <3>1. LET rest == SubSeq(content, at + 1, Len(content))
              m == IF size < Len(rest) THEN size ELSE Len(rest)
              part == SubSeq(content, at + 1, Min({at + size, Len(content)}))
          IN  m \in Nat /\ Len(part) = m /\ part = SubSeq(rest, 1, m)
      BY <2>2, <2>3, ReadSame
    <3>2. QED
      BY <1>1, <2>5, <3>1 DEF Least
  <2>7. id \in 0 .. NumOpen - 1
    BY <1>2, <1>4 DEF FileInv
  <2>8. CallsOfFiles[t].arg.size = size
    BY <1>0, <2>1
  <2>9. Unix!Available(t, id) = bytes
    BY <2>6, <2>8 DEF Unix!Available, Rest, Least
  <2> HIDE DEF n, content
  <2>10. CASE n = 0
    <3>1. bytes = <<>>
      BY <2>6, <2>10
    <3>2. Opened' = Opened
      BY <1>2, <1>4, <2>6, <2>10, UnixRests
    <3>3. Unix!Fail(t)
      BY <1>4, <2>1, <3>1, <3>2 DEF Unix!Fail, Transferred
    <3>4. NothingFails(t, id)
      BY <1>4, <2>3, <2>8, <2>9, <3>1, <3>3 DEF NothingFails, Unix!Nothing
    <3>5. QED
      BY <1>4, <3>4 DEF FilesNext, Departs
  <2>11. CASE n # 0
    <3>1. bytes # <<>>
      <4>1. n \in Nat /\ Len(bytes) = n
        BY <2>6
      <4>2. QED
        BY <2>11, <4>1
    <3>2. Unix!Move(id, Len(bytes))
      BY <1>2, <1>4, <2>6, UnixMoves
    <3>3. Unix!Done(t, Len(bytes), bytes)
      BY <2>1, <3>1 DEF Transferred
    <3>4. Unix!Read(t, id)
      BY <1>4, <2>3, <2>8, <2>9, <3>2, <3>3 DEF Unix!Read
    <3>5. QED
      BY <2>7, <3>4 DEF FilesNext, Unix!Next
  <2>12. QED
    BY <2>10, <2>11
<1>5. CASE Abort /\ UNCHANGED tables
  BY <1>2, <1>5, UnixAborts DEF FilesSame, tables, Opened, BehindDescriptor
<1>6. CASE /\ id \in DOMAIN OpenFileTable /\ Lseek(id) /\ Slip(t, id)
           /\ hostFiles' = hostFiles /\ hostOpen' = hostOpen
  BY <1>0, <1>2, <1>6, UnixSlips
<1>7. QED
  BY <1>2, <1>3, <1>4, <1>5, <1>6

\* What WriteFile does to the file of an entry.
LEMMA UnixPuts ==
    ASSUME FileInv, NEW id \in DOMAIN OpenFileTable, Lseek(id),
           NEW bytes \in Seq(Nat), bytes # <<>>,
           WriteFile(OpenFileTable[id].file, bytes, OpenFileTable[id].currentOffset)
    PROVE  Unix!Put(id, bytes)
<1>0. PICK at, name, old : /\ at = OpenFileTable[id].currentOffset
                           /\ name = hostOpen[OpenFileTable[id].file]
                           /\ old = hostFiles[name]
  OBVIOUS
<1>1. at \in Nat /\ old \in Seq(Nat)
  BY <1>0, EntryIs DEF Lseek, Offset
<1>2. hostFiles' = [hostFiles EXCEPT ![name] = Overwritten(old, at, bytes)]
  BY <1>0 DEF WriteFile
<1>3. Opened[id].name = name /\ Opened[id].at = at
  BY <1>0, OpenedIs
<1>4. Overwritten(old, at, bytes) =
         SubSeq(old \o [k \in 1 .. at - Len(old) |-> 0], 1, at) \o bytes
             \o SubSeq(old, at + Len(bytes) + 1, Len(old))
  BY <1>1, WriteSame
<1>5. QED
  BY <1>0, <1>2, <1>3, <1>4 DEF Unix!Put

LEMMA UnixWrite ==
    ASSUME KernelInv, NEW t \in Thread, SysWrite(t)
    PROVE  FilesNext \/ FilesSame
<1>0. PICK id, at, fd, bytes, size :
          /\ id = cur[t].arg.id /\ bytes = cur[t].arg.bytes /\ size = cur[t].arg.size
          /\ at = OpenFileTable[id].currentOffset /\ fd = OpenFileTable[id].file
  OBVIOUS
<1> DEFINE Open == id \in DOMAIN OpenFileTable /\ Lseek(id) /\ hostOpen' = hostOpen
           Puts == /\ Open /\ size >= 0 /\ WriteFile(fd, bytes, at)
                   /\ Advance(id, Len(bytes)) /\ Reply(t, Transferred(bytes), <<>>)
           Cuts == /\ Open /\ Abort /\ OpenFileTable' = OpenFileTable
                   /\ \E k \in 0 .. Len(bytes) : /\ k = 0 \/ k < Len(bytes)
                                                /\ WriteFile(fd, SubSeq(bytes, 1, k), at)
<1>1. /\ Serves(t, "Write") /\ cur' = cur /\ FileInv
      /\ \/ id \notin DOMAIN OpenFileTable /\ Refuse(t)
         \/ Abort /\ UNCHANGED tables
         \/ Puts
         \/ Open /\ Slip(t, id) /\ hostFiles' = hostFiles
         \/ Cuts
  BY <1>0 DEF SysWrite, KernelInv, tables
<1>2. /\ pc[t] = "file.call" /\ cur[t].op = "Write" /\ cur[t] \in AllCalls /\ CallsOfFiles[t] = cur[t]
  <2>1. pc[t] = "file.call" /\ cur[t].op = "Write"
    BY <1>1 DEF Serves, At
  <2>2. QED
    BY <2>1 DEF KernelInv, CallInv, CallsOfFiles, FileCall, InFileCall, FileOp
<1>3. /\ bytes \in Seq(Nat) /\ size \in Int /\ Len(bytes) \in Nat
      /\ Len(bytes) = IF size < 0 THEN 0 ELSE size
  <2>1. IsRequest(cur[t])
    BY <1>2, WorkloadAssumption
  <2>2. /\ bytes \in Seq(Nat) /\ size \in Int
        /\ Len(bytes) = IF size < 0 THEN 0 ELSE size
    BY <1>0, <1>2, <2>1 DEF IsRequest
  <2>3. QED
    BY <2>2
<1>4. CASE id \notin DOMAIN OpenFileTable /\ Refuse(t)
  BY <1>0, <1>1, <1>4, UnixBad
<1>5. CASE Puts
  <2>1. Unix!Done(t, Transferred(bytes), <<>>)
    BY <1>1, <1>5, UnixDone DEF FileOp
  <2>2. id \in 0 .. NumOpen - 1 /\ Unix!Transfers(t, "Write", id)
    BY <1>0, <1>1, <1>2, <1>5, Transferring DEF FileInv
  <2>3. CallsOfFiles[t].arg.bytes = bytes /\ CallsOfFiles[t].arg.size = size
    BY <1>0, <1>2
  <2>4. CASE bytes = <<>>
    <3>1. Opened' = Opened
      BY <1>1, <1>5, <2>4, UnixRests
    <3>2. size = 0 /\ hostFiles' = hostFiles
      BY <1>3, <1>5, <2>4 DEF WriteFile
    <3>3. Unix!Fail(t)
      BY <2>1, <2>4, <3>1, <3>2 DEF Unix!Fail, Transferred
    <3>4. NothingFails(t, id)
      BY <2>2, <2>3, <3>2, <3>3 DEF NothingFails, Unix!Nothing
    <3>5. QED
      BY <1>5, <3>4 DEF FilesNext, Departs
  <2>5. CASE bytes # <<>>
    <3>1. Unix!Move(id, Len(bytes))
      BY <1>1, <1>3, <1>5, UnixMoves
    <3>2. Unix!Done(t, Len(bytes), <<>>)
      BY <2>1, <2>5 DEF Transferred
    <3>3. Unix!Put(id, bytes)
      BY <1>0, <1>1, <1>3, <1>5, <2>5, UnixPuts
    <3>4. Unix!Write(t, id)
      BY <1>5, <2>2, <2>3, <3>1, <3>2, <3>3 DEF Unix!Write
    <3>5. QED
      BY <2>2, <3>4 DEF FilesNext, Unix!Next
  <2>6. QED
    BY <2>4, <2>5
<1>6. CASE Abort /\ UNCHANGED tables
  BY <1>1, <1>6, UnixAborts DEF FilesSame, tables, Opened, BehindDescriptor
<1>7. CASE Open /\ Slip(t, id) /\ hostFiles' = hostFiles
  BY <1>0, <1>1, <1>7, UnixSlips
<1>8. CASE Cuts
  <2>1. PICK k \in 0 .. Len(bytes) : /\ k = 0 \/ k < Len(bytes)
                                    /\ WriteFile(fd, SubSeq(bytes, 1, k), at)
    BY <1>8
  <2>2. /\ CallsOfFiles' = CallsOfFiles /\ ValsOfFiles' = ValsOfFiles
        /\ Opened' = Opened
    BY <1>1, <1>8, UnixAborts DEF Opened, BehindDescriptor
  <2>3. CASE k = 0
    <3>1. SubSeq(bytes, 1, k) = <<>>
      BY <1>3, <2>3
    <3>2. hostFiles' = hostFiles
      BY <2>1, <3>1 DEF WriteFile
    <3>3. QED
      BY <2>2, <3>2 DEF FilesSame
  <2>4. CASE k # 0
    <3>1. /\ k \in 1 .. Len(bytes) - 1 /\ k \in Nat \ {0} /\ k <= Len(bytes)
      BY <1>3, <2>1, <2>4
    <3>2. SubSeq(bytes, 1, k) \in Seq(Nat) /\ SubSeq(bytes, 1, k) # <<>>
      <4>1. SubSeq(bytes, 1, k) \in Seq(Nat)
        BY <1>3, <3>1, PartIs
      <4>2. Len(SubSeq(bytes, 1, k)) = k
        BY <1>3, <3>1
      <4>3. QED
        BY <3>1, <4>1, <4>2
    <3>3. Unix!Put(id, SubSeq(bytes, 1, k))
      BY <1>0, <1>1, <1>8, <2>1, <3>2, UnixPuts
    <3>4. Unix!Transfers(t, "Write", id)
      BY <1>0, <1>1, <1>2, <1>8, Transferring
    <3>5. aborted'
      BY <1>8 DEF Abort
    <3>6. CutShort(t, id)
      BY <1>0, <2>2, <3>1, <3>3, <3>4, <3>5 DEF CutShort
    <3>7. QED
      BY <1>8, <3>6 DEF FilesNext, Departs
  <2>5. QED
    BY <2>3, <2>4
<1>9. QED
  BY <1>1, <1>4, <1>5, <1>6, <1>7, <1>8

LEMMA UnixClose ==
    ASSUME KernelInv, NEW t \in Thread, SysClose(t)
    PROVE  FilesNext
<1>0. PICK id, fd : id = cur[t].arg.id /\ fd = OpenFileTable[id].file
  OBVIOUS
<1>1. /\ Serves(t, "Close") /\ cur' = cur /\ FileInv
      /\ \/ id \notin DOMAIN OpenFileTable /\ Refuse(t)
         \/ /\ id \in DOMAIN OpenFileTable
            /\ hostOpen' = Without(hostOpen, fd)
            /\ OpenFileTable' = Without(OpenFileTable, id)
            /\ Reply(t, 1, <<>>)
            /\ hostFiles' = hostFiles
  BY <1>0 DEF SysClose, CloseHost, KernelInv
<1>2. CASE id \notin DOMAIN OpenFileTable /\ Refuse(t)
  BY <1>0, <1>1, <1>2, UnixBad
<1>3. CASE /\ id \in DOMAIN OpenFileTable
           /\ hostOpen' = Without(hostOpen, fd)
           /\ OpenFileTable' = Without(OpenFileTable, id)
           /\ Reply(t, 1, <<>>)
           /\ hostFiles' = hostFiles
  <2>1. /\ CallsOfFiles[t] = cur[t] /\ cur[t].op = "Close"
        /\ Unix!Done(t, 1, <<>>)
    BY <1>1, <1>3, UnixDone DEF FileOp
  <2>2. /\ DOMAIN Opened = DOMAIN OpenFileTable
        /\ \A x \in DOMAIN OpenFileTable :
              Opened[x] = [name |-> hostOpen[OpenFileTable[x].file],
                           at |-> OpenFileTable[x].currentOffset]
    BY <1>1, OpenedIs
  <2>3. id \in 0 .. NumOpen - 1
    BY <1>1, <1>3 DEF FileInv
  <2>4. Unix!Uses(t, "Close", id)
    BY <1>0, <1>3, <2>1, <2>2 DEF Unix!Uses
  <2>5. \A x \in DOMAIN OpenFileTable :
           x # id => OpenFileTable[x].file # fd /\ OpenFileTable[x].file \in DOMAIN hostOpen
    <3>1. \A x \in DOMAIN OpenFileTable : x # id => OpenFileTable[x].file # fd
      BY <1>0, <1>1, <1>3 DEF FileInv
    <3>2. QED
      BY <1>1, <3>1, EntryIs
  <2>6. /\ DOMAIN OpenFileTable' = DOMAIN OpenFileTable \ {id}
        /\ \A x \in DOMAIN OpenFileTable' : OpenFileTable'[x] = OpenFileTable[x]
    BY <1>3 DEF Without
  <2>7. /\ DOMAIN hostOpen' = DOMAIN hostOpen \ {fd}
        /\ \A d \in DOMAIN hostOpen' : hostOpen'[d] = hostOpen[d]
    BY <1>3 DEF Without
  <2> DEFINE entry(x) == [name |-> BehindDescriptor(OpenFileTable[x].file),
                          at |-> OpenFileTable[x].currentOffset]
  <2>8. Opened' = [x \in DOMAIN OpenFileTable' |-> entry(x)']
    BY DEF Opened
  <2>9. ASSUME NEW x \in DOMAIN OpenFileTable' PROVE entry(x)' = Opened[x]
    <3>1. /\ OpenFileTable'[x] = OpenFileTable[x]
          /\ OpenFileTable[x].file \in DOMAIN hostOpen'
          /\ x \in DOMAIN OpenFileTable
      BY <2>5, <2>6, <2>7
    <3>2. BehindDescriptor(OpenFileTable[x].file)' = hostOpen[OpenFileTable[x].file]
      BY <2>7, <3>1 DEF BehindDescriptor
    <3>3. QED
      BY <2>2, <3>1, <3>2
  <2> HIDE DEF entry
  <2>10. Opened' = [e \in DOMAIN Opened \ {id} |-> Opened[e]]
    BY <2>2, <2>6, <2>8, <2>9
  <2>11. Unix!Close(t, id)
    BY <1>3, <2>1, <2>4, <2>10 DEF Unix!Close
  <2>12. QED
    BY <2>3, <2>11 DEF FilesNext, Unix!Next
<1>4. QED
  BY <1>1, <1>2, <1>3

LEMMA UnixReturn ==
    ASSUME KernelInv, NEW t \in Thread, SysReturn(t)
    PROVE  FilesNext
<1>1. pc[t] = "file.return" /\ Moves(t, "idle") /\ cur' = cur /\ got' = got /\ UNCHANGED fileVars
  BY DEF SysReturn, At, Goto, Moves, callVars
<1>2. CallInv
  BY DEF KernelInv
<1>3. Moving(t)
  BY <1>1, <1>2, MovingOne
<1>4. cur[t].op \in FileOp
  <2>1. Runs(cur[t].op, pc[t]) /\ pc[t] \in FileCode
    BY <1>1, <1>2 DEF CallInv, FileCode
  <2>2. QED
    BY <2>1, PlaceOfDisk
<1>5. cur[t] \in AllCalls
  BY <1>1, <1>2 DEF CallInv
<1>6. IsRequest(cur[t])
  BY <1>5, WorkloadAssumption
<1>7. FileCall(t).op = "done"
  BY <1>1, <1>4, <1>6 DEF FileCall, InFileCall, IsRequest
<1>8. pc'[t] = "idle"
  BY <1>1, <1>2 DEF Moves, CallInv
<1>9. FileCall(t)' = NoCall /\ FileVal(t)' = NoItem
  BY <1>8 DEF FileCall, FileVal, InFileCall
<1>10. /\ CallsOfFiles' = [CallsOfFiles EXCEPT ![t] = NoCall]
       /\ ValsOfFiles' = [ValsOfFiles EXCEPT ![t] = NoItem]
       /\ CallsOfFiles[t].op = "done"
  BY <1>3, <1>7, <1>9, FileViewMoves
<1>11. Unix!Return(t)
  BY <1>1, <1>10, OpenedStays DEF Unix!Return, Unix!None, NoCall
<1>12. QED
  BY <1>11 DEF FilesNext, Unix!Next

LEMMA FileEntry == ASSUME NEW op \in FileOp PROVE Entry(op) = "file.call"
BY DEF FileOp, Entry

LEMMA UnixCall ==
    ASSUME KernelInv, NEW t \in Thread, Call(t)
    PROVE  FilesNext \/ FilesSame
<1>1. /\ Moving(t) /\ pc[t] = "idle" /\ pc'[t] # "idle" /\ pc'[t] = Entry(cur'[t].op)
      /\ cur'[t] \in AllCalls /\ got'[t] = NoItem /\ UNCHANGED fileVars
  BY CallMovesOne
<1>2. FileCall(t) = NoCall /\ FileVal(t) = NoItem
  BY <1>1, NotOfFiles
<1>3. FileVal(t)' = NoItem
  BY <1>1 DEF FileVal, InFileCall
<1>4. ValsOfFiles' = ValsOfFiles
  BY <1>1, <1>2, <1>3, FileViewMoves DEF ValsOfFiles
<1>5. hostFiles' = hostFiles /\ Opened' = Opened
  BY <1>1, OpenedStays
<1>6. CASE cur'[t].op \notin FileOp
  <2>1. FileCall(t)' = NoCall
    BY <1>6 DEF FileCall, InFileCall
  <2>2. QED
    BY <1>1, <1>2, <1>3, <1>5, <2>1, FileViewStays DEF FilesSame
<1>7. CASE cur'[t].op \in FileOp
  <2>1. pc'[t] = "file.call"
    BY <1>1, <1>7, FileEntry
  <2>2. FileCall(t)' = cur'[t]
    BY <1>7, <2>1 DEF FileCall, InFileCall
  <2>3. cur'[t] \in FileCalls
    BY <1>1, <1>7 DEF FileCalls
  <2>4. CallsOfFiles' = [CallsOfFiles EXCEPT ![t] = cur'[t]] /\ CallsOfFiles[t] = NoCall
    BY <1>1, <1>2, <2>2, FileViewMoves
  <2>5. Unix!Make(t)
    BY <1>4, <1>5, <2>3, <2>4 DEF Unix!Make, Unix!None, NoCall
  <2>6. QED
    BY <2>5 DEF FilesNext, Unix!Next
<1>8. QED
  BY <1>6, <1>7

LEMMA UnixNext == KernelInv /\ [Next]_vars => [Unix!Next \/ Departs]_(Unix!vars)
<1> SUFFICES ASSUME KernelInv, [Next]_vars
             PROVE  FilesNext \/ FilesSame
  BY DEF FilesNext, FilesSame, Unix!vars
<1>1. CallInv
  BY DEF KernelInv
<1>2. ASSUME NEW t \in Thread, ThreadStep(t)
      PROVE  FilesNext \/ FilesSame
  <2>1. CASE Call(t)
    BY <2>1, UnixCall
  <2>2. CASE FileStep(t)
    BY <2>2, UnixCreate, UnixOpen, UnixRead, UnixWrite, UnixClose, UnixReturn DEF FileStep
  <2>3. CASE /\ ListStep(t) \/ DiskStep(t) \/ ConsoleStep(t)
             /\ UNCHANGED fileVars
    <3>1. /\ Moving(t) /\ cur' = cur /\ pc[t] \in ListCode \cup DiskCode \cup OutCode \cup InCode
      BY <1>1, <2>3, ListMovesOne, DiskMovesOne, ConsoleMovesOne
    <3>2. pc[t] # "idle" /\ pc[t] \notin FileCode
      BY <3>1 DEF ListCode, ListHeld, ListLeaving, DiskCode, DiskHeld, DiskLeaving, OutCode,
                  OutHeld, OutLeaving, InCode, InHeld, InLeaving, FileCode
    <3>3. Runs(cur[t].op, pc[t])
      BY <1>1, <3>2 DEF CallInv
    <3>4. cur[t].op \notin FileOp
      BY <3>2, <3>3, PlaceOfDisk
    <3>5. QED
      BY <2>3, <3>1, <3>4, OtherThanFiles, OpenedStays DEF FilesSame
  <2>4. QED
    BY <1>2, <2>1, <2>2, <2>3 DEF ThreadStep
<1>3. CASE \/ Interrupt \/ UNCHANGED vars
           \/ EndOfFile /\ UNCHANGED <<listVars, diskVars, fileVars, todo>>
  <2>1. UNCHANGED <<pc, cur, got, fileVars>>
    BY <1>3 DEF Interrupt, DiskDue, WriteDue, ReadDue, DiskInterrupt, WriteInterrupt, ReadInterrupt, EndOfFile, vars, callVars
  <2>2. CallsOfFiles' = CallsOfFiles /\ ValsOfFiles' = ValsOfFiles
    BY <2>1 DEF CallsOfFiles, ValsOfFiles, FileCall, FileVal, InFileCall
  <2>3. QED
    BY <2>1, <2>2, OpenedStays DEF FilesSame
<1>4. QED
  BY <1>2, <1>3 DEF Next

\* The files of MP1 (filesys.h, openfile.h over the host) implement UnixFiles but
\* for the steps of Departs: for any number of programs that share the table,
\* whatever its length, the sizes and what the host refuses, an OpenFileId is
\* one file and one position from Open to Close.
THEOREM FilesRefine == Spec => ImplementsUnixButDeparts
<1>1. Init => Unix!Init
  <2> SUFFICES ASSUME Init PROVE Unix!Init
    OBVIOUS
  <2>1. /\ hostFiles = Existing /\ DOMAIN OpenFileTable = {}
        /\ \A t \in Thread : pc[t] = "idle"
    BY DEF Init, FileInit
  <2>2. CallsOfFiles = [t \in Thread |-> NoCall] /\ ValsOfFiles = [t \in Thread |-> NoItem]
    BY <2>1, NotOfFiles DEF CallsOfFiles, ValsOfFiles
  <2>3. Opened = <<>>
    BY <2>1 DEF Opened
  <2>4. QED
    BY <2>1, <2>2, <2>3 DEF Unix!Init, Unix!None, NoCall
<1>2. QED
  BY <1>1, UnixNext, KernelInvHolds, PTL DEF Spec, ImplementsUnixButDeparts

-----------------------------------------------------------------------------
(* The streams of the console.                                             *)

\* A string is on the display to its end.
Ended == screen = <<>> \/ screen[Len(screen)].at = screen[Len(screen)].of

\* Between two strings nobody writes; the writer has written what idx says.
OutStream ==
    /\ screen \in Seq([by : Thread, at : Nat, of : Nat])
    /\ idx \in [Thread -> Nat]
    /\ OutputUnbroken
    /\ (\A t \in Thread : pc[t] \notin {"out.put", "out.wait"}) => Ended
    /\ \A t \in Thread : pc[t] = "out.put" =>
          /\ idx[t] < cur[t].arg
          /\ idx[t] = 0 => Ended
          /\ idx[t] # 0 => /\ screen # <<>>
                           /\ screen[Len(screen)] = [by |-> t, at |-> idx[t], of |-> cur[t].arg]
    /\ \A t \in Thread : pc[t] = "out.wait" =>
          /\ idx[t] # 0 /\ idx[t] <= cur[t].arg
          /\ screen # <<>>
          /\ screen[Len(screen)] = [by |-> t, at |-> idx[t], of |-> cur[t].arg]

\* Steps that neither write nor begin or end a string.
LEMMA OutStreamApart ==
    ASSUME OutStream, screen' = screen, idx' = idx,
           \A u \in Thread : pc'[u] \in {"out.put", "out.wait"} =>
                                pc[u] = pc'[u] /\ cur'[u] = cur[u],
           \A u \in Thread : pc[u] \in {"out.put", "out.wait"} => pc'[u] = pc[u]
    PROVE  OutStream'
<1>1. OutputUnbroken' /\ Ended' = Ended
  BY DEF OutStream, OutputUnbroken, Ended
<1>2. QED
  BY <1>1 DEF OutStream

\* A thread that writes has a string of at least one character.
LEMMA StringOf ==
    ASSUME CallInv, NEW t \in Thread, pc[t] \in OutCode
    PROVE  cur[t].arg \in Nat \ {0}
<1>1. pc[t] # "idle"
  BY DEF OutCode, OutHeld, OutLeaving
<1>2. cur[t] \in AllCalls /\ Runs(cur[t].op, pc[t])
  BY <1>1 DEF CallInv
<1>3. cur[t].op \in {"PutChar", "PutInt"} /\ IsRequest(cur[t])
  BY <1>2, PlaceOfDisk, WorkloadAssumption
<1>4. QED
  BY <1>3 DEF IsRequest

LEMMA StreamAcquire ==
    ASSUME KernelInv, OutStream, NEW t \in Thread, OutAcquire(t)
    PROVE  OutStream'
<1>1. /\ pc[t] = "out.acquire" /\ cur' = cur /\ screen' = screen
      /\ P(t, "out", "out.put") /\ idx' = [idx EXCEPT ![t] = 0]
  BY DEF OutAcquire, At, Acquire, callVars
<1>2. /\ CallInv /\ OutLock /\ pc \in [Thread -> Place] /\ idx \in [Thread -> Nat]
  BY DEF KernelInv, CallInv, OutStream
<1>3. OutputUnbroken' /\ Ended' = Ended
  BY <1>1 DEF OutStream, OutputUnbroken, Ended
<1>4. idx' \in [Thread -> Nat] /\ idx'[t] = 0 /\ \A u \in Thread : u # t => idx'[u] = idx[u]
  BY <1>1, <1>2
<1>5. CASE pc' = pc
  BY <1>1, <1>3, <1>4, <1>5 DEF OutStream
<1>6. CASE sem["out"].value # 0 /\ Moves(t, "out.put")
  <2>1. \A u \in Thread : pc[u] \notin {"out.put", "out.wait"}
    BY <1>2, <1>6 DEF OutLock, LockInv, OutHeld
  <2>2. Ended
    BY <2>1 DEF OutStream
  <2>3. pc'[t] = "out.put" /\ \A u \in Thread : u # t => pc'[u] = pc[u]
    BY <1>2, <1>6 DEF Moves
  <2>4. cur[t].arg \in Nat \ {0}
    BY <1>1, <1>2, StringOf DEF OutCode
  <2>5. idx'[t] < cur'[t].arg
    BY <1>1, <1>4, <2>4
  <2>6. screen' \in Seq([by : Thread, at : Nat, of : Nat])
    BY <1>1 DEF OutStream
  <2>7. QED
    BY <1>3, <1>4, <2>1, <2>2, <2>3, <2>5, <2>6 DEF OutStream
<1>7. QED
  BY <1>1, <1>5, <1>6 DEF P, Moves

LEMMA StreamPut ==
    ASSUME KernelInv, OutStream, NEW t \in Thread, OutPut(t)
    PROVE  OutStream'
<1>0. PICK n, arg : n = idx[t] /\ arg = cur[t].arg
  OBVIOUS
<1> DEFINE new == [by |-> t, at |-> n + 1, of |-> arg]
<1>1. /\ pc[t] = "out.put" /\ cur' = cur /\ Moves(t, "out.wait")
      /\ screen' = Append(screen, new) /\ idx' = [idx EXCEPT ![t] = n + 1]
  BY <1>0 DEF OutPut, At, Goto, Moves, callVars
<1>2. /\ CallInv /\ OutLock /\ pc \in [Thread -> Place] /\ idx \in [Thread -> Nat]
      /\ screen \in Seq([by : Thread, at : Nat, of : Nat])
  BY DEF KernelInv, CallInv, OutStream
<1>3. n \in Nat /\ n < arg /\ arg \in Nat
  <2>1. cur[t].arg \in Nat
    BY <1>1, <1>2, StringOf DEF OutCode, OutHeld
  <2>2. QED
    BY <1>0, <1>1, <1>2, <2>1 DEF OutStream
<1>4. new \in [by : Thread, at : Nat, of : Nat]
  BY <1>3
<1>5. /\ pc'[t] = "out.wait" /\ \A u \in Thread : u # t => pc'[u] = pc[u]
      /\ \A u \in Thread : pc[u] \in {"out.put", "out.wait"} => u = t
  <2>1. \A u \in Thread : pc[u] \in {"out.put", "out.wait"} => u = t
    BY <1>1, <1>2 DEF OutLock, LockInv, OutHeld
  <2>2. QED
    BY <1>1, <1>2, <2>1 DEF Moves
<1>6. n = 0 => Ended
  BY <1>0, <1>1 DEF OutStream
<1>7. n # 0 => screen # <<>> /\ screen[Len(screen)] = [by |-> t, at |-> n, of |-> arg]
  BY <1>0, <1>1 DEF OutStream
<1>8. /\ new.at = n + 1 /\ [new EXCEPT !.at = new.at - 1] = [by |-> t, at |-> n, of |-> arg]
  BY <1>3
<1>9. (n + 1 = 1 <=> n = 0) /\ n + 1 # 0 /\ n + 1 <= arg /\ n + 1 \in Nat
  BY <1>3
<1> HIDE DEF new
<1>10. /\ Len(screen) \in Nat /\ Len(screen') = Len(screen) + 1
       /\ \A i \in 1 .. Len(screen) : screen'[i] = screen[i]
       /\ screen'[Len(screen) + 1] = new
       /\ screen' \in Seq([by : Thread, at : Nat, of : Nat]) /\ screen' # <<>>
  BY <1>1, <1>2, <1>4, AppendProperties
<1>11. ASSUME NEW i \in 1 .. Len(screen')
       PROVE  IF screen'[i].at = 1
              THEN i = 1 \/ screen'[i - 1].at = screen'[i - 1].of
              ELSE i > 1 /\ screen'[i - 1] = [screen'[i] EXCEPT !.at = screen'[i].at - 1]
  <2>1. CASE i \in 1 .. Len(screen)
    <3>1. screen'[i] = screen[i] /\ (i > 1 => screen'[i - 1] = screen[i - 1]) /\ (i > 1 \/ i = 1)
      <4>1. Len(screen) \in Nat
        BY <1>10
      <4>2. (i > 1 => i - 1 \in 1 .. Len(screen)) /\ (i > 1 \/ i = 1)
        BY <2>1, <4>1
      <4>3. QED
        BY <1>10, <2>1, <4>2
    <3>2. IF screen[i].at = 1
          THEN i = 1 \/ screen[i - 1].at = screen[i - 1].of
          ELSE i > 1 /\ screen[i - 1] = [screen[i] EXCEPT !.at = screen[i].at - 1]
      BY <2>1 DEF OutStream, OutputUnbroken
    <3>3. QED
      BY <3>1, <3>2
  <2>2. CASE i = Len(screen) + 1
    <3>1. screen'[i] = new /\ i - 1 = Len(screen)
      BY <1>10, <2>2
    <3>2. screen # <<>> => Len(screen) # 0 /\ screen'[i - 1] = screen[Len(screen)] /\ i > 1
      <4>1. screen # <<>> => Len(screen) # 0
        BY <1>2
      <4>2. Len(screen) # 0 => Len(screen) \in 1 .. Len(screen) /\ i > 1
        BY <1>10, <2>2
      <4>3. QED
        BY <1>10, <3>1, <4>1, <4>2
    <3>3. CASE n = 0
      <4>1. new.at = 1
        BY <1>8, <1>9, <3>3
      <4>2. screen = <<>> => i = 1
        BY <2>2
      <4>3. i = 1 \/ screen'[i - 1].at = screen'[i - 1].of
        BY <1>6, <3>2, <3>3, <4>2 DEF Ended
      <4>4. QED
        BY <3>1, <4>1, <4>3
    <3>4. CASE n # 0
      <4>1. new.at # 1
        BY <1>8, <1>9, <3>4
      <4>2. i > 1 /\ screen'[i - 1] = [by |-> t, at |-> n, of |-> arg]
        BY <1>7, <3>2, <3>4
      <4>3. QED
        BY <1>8, <3>1, <4>1, <4>2
    <3>5. QED
      BY <3>3, <3>4
  <2>3. QED
    BY <1>10, <2>1, <2>2
<1>12. OutputUnbroken'
  BY <1>11 DEF OutputUnbroken
<1>13. screen'[Len(screen')] = [by |-> t, at |-> n + 1, of |-> arg]
  BY <1>10 DEF new
<1>14. idx' \in [Thread -> Nat] /\ idx'[t] = n + 1
  BY <1>1, <1>2, <1>9
<1>15. QED
  BY <1>0, <1>1, <1>5, <1>9, <1>10, <1>12, <1>13, <1>14 DEF OutStream

LEMMA StreamWait ==
    ASSUME KernelInv, OutStream, NEW t \in Thread, OutWait(t)
    PROVE  OutStream'
<1>0. PICK p : p = IF idx[t] < cur[t].arg THEN "out.put" ELSE "out.disown"
  OBVIOUS
<1>1. /\ pc[t] = "out.wait" /\ cur' = cur /\ screen' = screen /\ idx' = idx
      /\ pc' = pc \/ Moves(t, p)
  BY <1>0 DEF OutWait, At, P, Moves, callVars, consoleVars, outVars
<1>2. /\ CallInv /\ OutLock /\ pc \in [Thread -> Place] /\ idx[t] \in Nat
  BY DEF KernelInv, CallInv, OutStream
<1>3. OutputUnbroken' /\ Ended' = Ended
  BY <1>1 DEF OutStream, OutputUnbroken, Ended
<1>4. CASE pc' = pc
  BY <1>1, <1>4, OutStreamApart
<1>5. CASE Moves(t, p)
  <2>1. /\ pc'[t] = p /\ \A u \in Thread : u # t => pc'[u] = pc[u]
        /\ \A u \in Thread : pc[u] \in {"out.put", "out.wait"} => u = t
    <3>1. \A u \in Thread : pc[u] \in {"out.put", "out.wait"} => u = t
      BY <1>1, <1>2 DEF OutLock, LockInv, OutHeld
    <3>2. QED
      BY <1>2, <1>5, <3>1 DEF Moves
  <2>2. cur[t].arg \in Nat
    BY <1>1, <1>2, StringOf DEF OutCode, OutHeld
  <2>3. /\ idx[t] # 0 /\ idx[t] <= cur[t].arg /\ screen # <<>>
        /\ screen[Len(screen)] = [by |-> t, at |-> idx[t], of |-> cur[t].arg]
    BY <1>1 DEF OutStream
  <2>4. CASE idx[t] < cur[t].arg
    <3>1. p = "out.put"
      BY <1>0, <2>4
    <3>2. QED
      BY <1>1, <1>3, <2>1, <2>3, <2>4, <3>1 DEF OutStream
  <2>5. CASE ~ (idx[t] < cur[t].arg)
    <3>1. p = "out.disown"
      BY <1>0, <2>5
    <3>2. idx[t] = cur[t].arg
      BY <1>2, <2>2, <2>3, <2>5
    <3>3. Ended
      BY <2>3, <3>2 DEF Ended
    <3>4. QED
      BY <1>1, <1>3, <2>1, <3>1, <3>3 DEF OutStream
  <2>6. QED
    BY <2>4, <2>5
<1>6. QED
  BY <1>1, <1>4, <1>5

LEMMA StreamLeaves ==
    ASSUME KernelInv, OutStream, NEW t \in Thread, OutDisown(t) \/ OutUnlock(t)
    PROVE  OutStream'
<1>1. /\ pc[t] \in {"out.disown", "out.unlock"} /\ cur' = cur /\ screen' = screen /\ idx' = idx
      /\ Moves(t, "out.unlock") \/ Moves(t, "idle")
  BY DEF OutDisown, OutUnlock, At, Goto, Moves, callVars, consoleVars, outVars
<1>2. pc \in [Thread -> Place]
  BY DEF KernelInv, CallInv
<1>3. pc'[t] \in {"out.unlock", "idle"} /\ \A u \in Thread : u # t => pc'[u] = pc[u]
  BY <1>1, <1>2 DEF Moves
<1>4. QED
  BY <1>1, <1>3, OutStreamApart

\* A character, or the end of the input, is there for a reader.
Pending == readDue = 0 /\ (Count("in.ready") = 1 \/ \E t \in Thread : pc[t] = "in.get")

\* What has been read, what is in the buffer and what is left in the file make
\* up the input; an EOF at its end comes last.
InStream ==
    /\ given \in Seq(Char) /\ typed \in Seq(Char) /\ taken \in Seq(Char) /\ incoming \in Char
    /\ readDue = 1 => taken \o typed = given
    /\ Pending => \/ taken \o <<incoming>> \o typed = given
                  \/ taken = given /\ typed = <<>> /\ incoming = EOF
    /\ readDue = 0 /\ ~ Pending => \/ taken \o typed = given
                                   \/ taken = given \o <<EOF>> /\ typed = <<>>

LEMMA InStreamApart ==
    ASSUME InStream, UNCHANGED inVars, sem'["in.ready"] = sem["in.ready"],
           \A u \in Thread : pc[u] = "in.get" <=> pc'[u] = "in.get"
    PROVE  InStream'
<1>1. Pending' <=> Pending
  BY DEF Pending, Count, inVars
<1>2. QED
  BY <1>1 DEF InStream, inVars

LEMMA StreamGetWait ==
    ASSUME KernelInv, InStream, NEW t \in Thread, InWait(t)
    PROVE  InStream'
<1>1. pc[t] = "in.wait" /\ P(t, "in.ready", "in.get") /\ UNCHANGED inVars
  BY DEF InWait, At, consoleVars
<1>2. /\ pc \in [Thread -> Place] /\ SemInv /\ InInv
      /\ "in.ready" \in Named /\ "in.get" \in Place
  BY DEF KernelInv, CallInv, Named, Place, InCode, InHeld
<1>3. \/ sem["in.ready"].value = 0 /\ sem'["in.ready"].value = 0 /\ pc' = pc
      \/ sem["in.ready"].value # 0 /\ Moves(t, "in.get")
  BY <1>1, <1>2, PTakes
<1>4. CASE sem["in.ready"].value = 0 /\ sem'["in.ready"].value = 0 /\ pc' = pc
  <2>1. Pending' <=> Pending
    BY <1>1, <1>4 DEF Pending, Count, inVars
  <2>2. QED
    BY <1>1, <2>1 DEF InStream, inVars
<1>5. CASE sem["in.ready"].value # 0 /\ Moves(t, "in.get")
  <2>1. Count("in.ready") = 1 /\ readDue = 0
    BY <1>2, <1>5 DEF InInv, Count
  <2>2. pc'[t] = "in.get" /\ readDue' = 0
    BY <1>1, <1>2, <1>5, <2>1 DEF Moves, inVars
  <2>3. Pending /\ Pending'
    BY <2>1, <2>2 DEF Pending
  <2>4. QED
    BY <1>1, <2>2, <2>3 DEF InStream, inVars
<1>6. QED
  BY <1>3, <1>4, <1>5

LEMMA StreamGet ==
    ASSUME KernelInv, InStream, NEW t \in Thread, InGet(t)
    PROVE  InStream'
<1>1. /\ pc[t] = "in.get" /\ Moves(t, "in.disown") /\ sem' = sem
      /\ taken' = Append(taken, incoming) /\ incoming' = EOF
      /\ readDue' = IF incoming # EOF THEN readDue + 1 ELSE readDue
      /\ given' = given /\ typed' = typed
  BY DEF InGet, At, Goto, Moves, synchVars
<1>2. /\ pc \in [Thread -> Place] /\ InInv /\ InLock /\ EOF \in Char
      /\ given \in Seq(Char) /\ typed \in Seq(Char) /\ taken \in Seq(Char) /\ incoming \in Char
  BY InputAssumption DEF KernelInv, CallInv, InStream
<1>3. readDue = 0 /\ Count("in.ready") = 0 /\ Pending
  BY <1>1, <1>2 DEF InInv, Pending
<1>4. taken' = taken \o <<incoming>> /\ taken' \in Seq(Char)
  BY <1>1, <1>2, AppendIsConcat, AppendProperties
<1>5. \A u \in Thread : pc'[u] # "in.get"
  <2>1. \A u \in Thread : pc[u] = "in.get" => u = t
    BY <1>1, <1>2 DEF InLock, LockInv, InHeld
  <2>2. QED
    BY <1>1, <1>2, <2>1 DEF Moves
<1>6. ~ Pending' /\ Count("in.ready")' = 0
  BY <1>1, <1>3, <1>5 DEF Pending, Count
<1>7. CASE taken \o <<incoming>> \o typed = given
  <2>1. taken' \o typed' = given'
    BY <1>1, <1>4, <1>7
  <2>2. QED
    BY <1>1, <1>2, <1>4, <1>6, <2>1 DEF InStream
<1>8. CASE taken = given /\ typed = <<>> /\ incoming = EOF
  <2>1. taken' = given' \o <<EOF>> /\ typed' = <<>> /\ readDue' = 0
    BY <1>1, <1>3, <1>4, <1>8
  <2>2. QED
    BY <1>1, <1>2, <1>4, <1>6, <2>1 DEF InStream
<1>9. QED
  BY <1>3, <1>7, <1>8 DEF InStream

\* The first of a sequence moves to the end of the one before it.
LEMMA Passed ==
    ASSUME NEW S, NEW s \in Seq(S), NEW u \in Seq(S), u # <<>>
    PROVE  /\ Head(u) \in S /\ Tail(u) \in Seq(S)
           /\ s \o <<Head(u)>> \o Tail(u) = s \o u
<1>1. Head(u) \in S /\ Tail(u) \in Seq(S) /\ <<Head(u)>> \in Seq(S)
  OBVIOUS
<1>2. <<Head(u)>> \o Tail(u) = u
  OBVIOUS
<1>3. (s \o <<Head(u)>>) \o Tail(u) = s \o (<<Head(u)>> \o Tail(u))
  BY <1>1, ConcatAssociative
<1>4. QED
  BY <1>1, <1>2, <1>3

LEMMA StreamTyped ==
    ASSUME KernelInv, InStream, ReadInterrupt \/ EndOfFile
    PROVE  InStream'
<1>1. /\ readDue > 0 /\ readDue' = readDue - 1 /\ V("in.ready")
      /\ given' = given /\ taken' = taken
  BY DEF ReadInterrupt, EndOfFile
<1>2. /\ InInv /\ SemInv /\ "in.ready" \in Named
      /\ given \in Seq(Char) /\ typed \in Seq(Char) /\ taken \in Seq(Char) /\ incoming \in Char
  BY DEF KernelInv, InStream, Named
<1>3. readDue = 1 /\ readDue' = 0
  BY <1>1, <1>2 DEF InInv
<1>4. Count("in.ready") = 0 /\ incoming = EOF /\ taken \o typed = given
  BY <1>2, <1>3 DEF InInv, InStream
<1>5. Count("in.ready")' = 1
  BY <1>1, <1>2, <1>4, PostsOne
<1>6. Pending'
  BY <1>3, <1>5 DEF Pending
<1>7. CASE ReadInterrupt
  <2>1. typed # <<>> /\ incoming' = Head(typed) /\ typed' = Tail(typed)
    BY <1>7 DEF ReadInterrupt
  <2>2. Head(typed) \in Char /\ Tail(typed) \in Seq(Char)
        /\ taken \o <<Head(typed)>> \o Tail(typed) = taken \o typed
    BY <1>2, <2>1, Passed
  <2>3. taken' \o <<incoming'>> \o typed' = given'
    BY <1>1, <1>4, <2>1, <2>2
  <2>4. QED
    BY <1>1, <1>2, <1>3, <1>6, <2>1, <2>2, <2>3 DEF InStream
<1>8. CASE EndOfFile
  <2>1. typed = <<>> /\ typed' = typed /\ incoming' = incoming
    BY <1>8 DEF EndOfFile
  <2>2. taken = given
    BY <1>2, <1>4, <2>1
  <2>3. QED
    BY <1>1, <1>2, <1>3, <1>4, <1>6, <2>1, <2>2 DEF InStream
<1>9. QED
  BY <1>7, <1>8

\* A thread in another part of the kernel leaves the console alone.
LEMMA StreamsApart ==
    ASSUME OutStream, InStream, NEW t \in Thread, NEW code, NEW names, NEW lock,
           OnlyIn(t, code, names, lock), cur' = cur, UNCHANGED consoleVars,
           code \cap {"out.put", "out.wait", "in.get"} = {}, "in.ready" \notin names
    PROVE  OutStream' /\ InStream'
<1>1. \A u \in Thread : \/ pc'[u] = pc[u]
                        \/ /\ pc[u] \notin {"out.put", "out.wait", "in.get"}
                           /\ pc'[u] \notin {"out.put", "out.wait", "in.get"}
  BY DEF OnlyIn
<1>2. screen' = screen /\ idx' = idx /\ UNCHANGED inVars
  BY DEF consoleVars, outVars
<1>3. sem'["in.ready"] = sem["in.ready"]
  BY DEF OnlyIn, Named
<1>4. OutStream'
  BY <1>1, <1>2, OutStreamApart
<1>5. InStream'
  BY <1>1, <1>2, <1>3, InStreamApart
<1>6. QED
  BY <1>4, <1>5

LEMMA StreamsConsole ==
    ASSUME KernelInv, OutStream, InStream, NEW t \in Thread, ConsoleStep(t), todo' = todo
    PROVE  OutStream' /\ InStream'
<1>1. OutSide /\ InSide /\ cur' = cur
  BY CurKept DEF KernelInv, OutSide, InSide
<1>2. CASE OutAcquire(t) \/ OutPut(t) \/ OutWait(t) \/ OutDisown(t) \/ OutUnlock(t)
  <2>1. OutStream'
    BY <1>2, StreamAcquire, StreamPut, StreamWait, StreamLeaves
  <2>2. UNCHANGED inVars /\ OnlyIn(t, OutCode, OutNames, "out")
    BY <1>1, <1>2, OutAcquireStep, OutPutStep, OutWaitStep, OutDisownStep, OutUnlockStep
       DEF OutAcquire, OutPut, OutWait, OutDisown, OutUnlock, consoleVars
  <2>3. \A u \in Thread : pc[u] = "in.get" <=> pc'[u] = "in.get"
    BY <2>2 DEF OnlyIn, OutCode, OutHeld, OutLeaving
  <2>4. sem'["in.ready"] = sem["in.ready"]
    BY <2>2 DEF OnlyIn, OutNames, Named
  <2>5. QED
    BY <2>1, <2>2, <2>3, <2>4, InStreamApart
<1>3. CASE InAcquire(t) \/ InWait(t) \/ InGet(t) \/ InDisown(t) \/ InUnlock(t)
  <2>1. UNCHANGED outVars /\ OnlyIn(t, InCode, InNames, "in")
    BY <1>1, <1>3, InAcquireStep, InWaitStep, InGetStep, InDisownStep, InUnlockStep
       DEF InAcquire, InWait, InGet, InDisown, InUnlock, consoleVars
  <2>2. \A u \in Thread : \/ pc'[u] = pc[u]
                          \/ /\ pc[u] \notin {"out.put", "out.wait"}
                             /\ pc'[u] \notin {"out.put", "out.wait"}
    BY <2>1 DEF OnlyIn, InCode, InHeld, InLeaving
  <2>3. OutStream'
    BY <1>1, <2>1, <2>2, OutStreamApart DEF outVars
  <2>4. CASE InWait(t) \/ InGet(t)
    BY <2>3, <2>4, StreamGetWait, StreamGet
  <2>5. CASE InAcquire(t) \/ InDisown(t) \/ InUnlock(t)
    <3>1. UNCHANGED inVars
      BY <2>5 DEF InAcquire, InDisown, InUnlock, consoleVars
    <3>2. SemInv /\ pc \in [Thread -> Place]
      BY DEF KernelInv, CallInv
    <3>3. sem'["in.ready"] = sem["in.ready"]
      <4>1. "in" \in Named /\ "in.ready" \in Named /\ "in.wait" \in Place
        BY DEF Named, Lock, Place, InCode, InHeld
      <4>2. CASE InAcquire(t)
        BY <3>2, <4>1, <4>2, PTakes DEF InAcquire, Acquire
      <4>3. CASE InDisown(t)
        BY <4>3 DEF InDisown
      <4>4. CASE InUnlock(t)
        BY <3>2, <4>1, <4>4, VPosts DEF InUnlock
      <4>5. QED
        BY <2>5, <4>2, <4>3, <4>4
    <3>4. \A u \in Thread : pc[u] = "in.get" <=> pc'[u] = "in.get"
      <4>1. pc[t] # "in.get" /\ (pc' = pc \/ \E p \in {"in.wait", "in.unlock", "idle"} : Moves(t, p))
        BY <2>5 DEF InAcquire, InDisown, InUnlock, At, Goto, Acquire, P, Moves
      <4>2. QED
        BY <3>2, <4>1 DEF Moves
    <3>5. QED
      BY <2>3, <3>1, <3>3, <3>4, InStreamApart
  <2>6. QED
    BY <1>3, <2>4, <2>5
<1>4. QED
  BY <1>2, <1>3 DEF ConsoleStep

LEMMA StreamsCall ==
    ASSUME KernelInv, OutStream, InStream, NEW t \in Thread, Call(t)
    PROVE  OutStream' /\ InStream'
<1>1. /\ Moving(t) /\ pc[t] = "idle" /\ pc'[t] = Entry(cur'[t].op) /\ IsRequest(cur'[t])
      /\ UNCHANGED consoleVars
  BY CallMovesOne
<1>2. pc'[t] \notin {"out.put", "out.wait", "in.get"}
  <2>1. Entry(cur'[t].op) \in {"append.acquire", "remove.acquire", "apply.acquire", "disk.acquire",
                               "out.acquire", "in.acquire", "file.call"}
    BY <1>1, EntryRuns
  <2>2. QED
    BY <1>1, <2>1
<1>3. \A u \in Thread : u # t => pc'[u] = pc[u] /\ cur'[u] = cur[u]
  BY <1>1 DEF Moving
<1>4. screen' = screen /\ idx' = idx /\ UNCHANGED inVars /\ sem' = sem
  BY <1>1 DEF consoleVars, outVars, Call, synchVars
<1>5. OutStream'
  BY <1>1, <1>2, <1>3, <1>4, OutStreamApart
<1>6. InStream'
  BY <1>1, <1>2, <1>3, <1>4, InStreamApart
<1>7. QED
  BY <1>5, <1>6

StreamInv == OutStream /\ InStream

LEMMA StreamsNext == KernelInv /\ StreamInv /\ [Next]_vars => StreamInv'
<1> SUFFICES ASSUME KernelInv, OutStream, InStream, [Next]_vars PROVE OutStream' /\ InStream'
  BY DEF StreamInv
<1>1. ASSUME NEW t \in Thread, ThreadStep(t) PROVE OutStream' /\ InStream'
  <2>1. CASE Call(t)
    BY <2>1, StreamsCall
  <2>2. CASE ListStep(t) /\ UNCHANGED <<diskVars, consoleVars, fileVars, todo>>
    <3>1. OnlyIn(t, ListCode, {"list"}, "list") /\ cur' = cur /\ UNCHANGED consoleVars
      BY <2>2, ListStepKeeps, CurKept DEF KernelInv, ListSide
    <3>2. ListCode \cap {"out.put", "out.wait", "in.get"} = {} /\ "in.ready" \notin {"list"}
      BY DEF ListCode, ListHeld, ListLeaving
    <3>3. QED
      BY <3>1, <3>2, StreamsApart
  <2>3. CASE DiskStep(t) /\ UNCHANGED <<listVars, consoleVars, fileVars, todo>>
    <3>1. OnlyIn(t, DiskCode, DiskNames, "disk") /\ cur' = cur /\ UNCHANGED consoleVars
      BY <2>3, DiskStepKeeps, CurKept DEF KernelInv, DiskSide
    <3>2. DiskCode \cap {"out.put", "out.wait", "in.get"} = {} /\ "in.ready" \notin DiskNames
      BY DEF DiskCode, DiskHeld, DiskLeaving, DiskNames
    <3>3. QED
      BY <3>1, <3>2, StreamsApart
  <2>4. CASE FileStep(t) /\ UNCHANGED <<listVars, diskVars, consoleVars, todo>>
    <3>1. OnlyIn(t, FileCode, {}, "none") /\ cur' = cur /\ UNCHANGED consoleVars
      BY <2>4, FileStepKeeps, CurKept DEF KernelInv, FileSide
    <3>2. FileCode \cap {"out.put", "out.wait", "in.get"} = {}
      BY DEF FileCode
    <3>3. QED
      BY <3>1, <3>2, StreamsApart
  <2>5. CASE ConsoleStep(t) /\ UNCHANGED <<listVars, diskVars, fileVars, todo>>
    BY <2>5, StreamsConsole
  <2>6. QED
    BY <1>1, <2>1, <2>2, <2>3, <2>4, <2>5 DEF ThreadStep
<1>2. CASE Interrupt \/ (EndOfFile /\ UNCHANGED <<listVars, diskVars, fileVars, todo>>)
  <2>1. pc' = pc /\ cur' = cur /\ screen' = screen /\ idx' = idx
    BY <1>2 DEF Interrupt, DiskDue, WriteDue, ReadDue, DiskInterrupt, WriteInterrupt, ReadInterrupt, EndOfFile, callVars,
                consoleVars, outVars
  <2>2. OutStream'
    BY <2>1, OutStreamApart
  <2>3. CASE ReadInterrupt \/ EndOfFile
    BY <2>2, <2>3, StreamTyped
  <2>4. CASE /\ DiskInterrupt \/ WriteInterrupt
             /\ UNCHANGED inVars
    <3>1. V("disk.done") \/ V("out.done")
      BY <2>4 DEF DiskInterrupt, WriteInterrupt
    <3>2. sem'["in.ready"] = sem["in.ready"]
      BY <3>1, VPosts DEF KernelInv, Named
    <3>3. QED
      BY <2>1, <2>2, <2>4, <3>2, InStreamApart
  <2>5. QED
    BY <1>2, <2>3, <2>4 DEF Interrupt, DiskDue, WriteDue, ReadDue, WriteInterrupt, consoleVars
<1>3. CASE UNCHANGED vars
  <2>1. UNCHANGED <<pc, cur, sem, screen, idx>> /\ UNCHANGED inVars
    BY <1>3 DEF vars, synchVars, callVars, consoleVars, outVars
  <2>2. QED
    BY <2>1, OutStreamApart, InStreamApart
<1>4. QED
  BY <1>1, <1>2, <1>3 DEF Next

\* What is written and typed arrives in order and unbroken (synchconsole.cc over
\* console.cc): the strings of PutInt and PutChar are not interleaved, and
\* GetChar returns every character typed, once, in the order typed; for any
\* number of threads, any strings and any input.
THEOREM StreamsInOrder == Spec => []ConsoleStreams
<1>1. Init => StreamInv
  <2> SUFFICES ASSUME Init PROVE OutStream /\ InStream
    BY DEF StreamInv
  <2>1. PICK input \in Input : ConsoleInit(input)
    BY DEF Init
  <2>2. /\ given = input /\ typed = input /\ incoming = EOF /\ readDue = 1 /\ taken = <<>>
        /\ idx = [t \in Thread |-> 0] /\ screen = <<>>
    BY <2>1 DEF ConsoleInit
  <2>3. input \in Seq(Char) /\ EOF \in Char
    BY InputAssumption
  <2>4. \A t \in Thread : pc[t] = "idle"
    BY DEF Init
  <2>5. OutStream
    <3>1. Len(screen) = 0 /\ screen \in Seq([by : Thread, at : Nat, of : Nat])
      BY <2>2
    <3>2. OutputUnbroken /\ Ended
      BY <2>2, <3>1 DEF OutputUnbroken, Ended
    <3>3. QED
      BY <2>2, <2>4, <3>1, <3>2 DEF OutStream
  <2>6. InStream
    <3>1. taken \o typed = given /\ taken \in Seq(Char)
      BY <2>2, <2>3
    <3>2. ~ Pending
      BY <2>2 DEF Pending
    <3>3. QED
      BY <2>2, <2>3, <3>1, <3>2 DEF InStream
  <2>7. QED
    BY <2>5, <2>6
<1>2. KernelInv /\ StreamInv => ConsoleStreams
  <2> SUFFICES ASSUME KernelInv, OutStream, InStream PROVE InputInOrder
    BY DEF StreamInv, OutStream, ConsoleStreams
  <2>1. InInv
    BY DEF KernelInv
  <2>2. CASE readDue = 1
    BY <2>1, <2>2 DEF InInv, InStream, InputInOrder
  <2>3. CASE Pending
    <3>1. taken = given /\ typed = <<>> => taken \o typed = given
      BY DEF InStream
    <3>2. QED
      BY <2>3, <3>1 DEF InStream, InputInOrder
  <2>4. CASE readDue = 0 /\ ~ Pending
    <3>1. incoming = EOF
      BY <2>1, <2>4 DEF InInv, Pending
    <3>2. QED
      BY <2>4, <3>1 DEF InStream, InputInOrder
  <2>5. QED
    BY <2>1, <2>2, <2>3, <2>4 DEF InInv
<1>3. QED
  BY <1>1, <1>2, StreamsNext, KernelInvHolds, PTL DEF Spec

-----------------------------------------------------------------------------
(* When requests of the disk are complete.                                 *)

\* The next multiple of r, from x on.
Multiple(x, r) == x + (IF x % r > 0 THEN r - (x % r) ELSE 0)

\* Its slot n is the first that is not before x.
IsSlot(n, y, x, r) == /\ y = n * r /\ y \div r = n /\ y >= x /\ n <= x \div r + 1
                      /\ \A k \in Int : k * r >= x <=> k >= n

\* Every number has one.
LEMMA NextMultiple ==
    ASSUME NEW x \in Nat, NEW r \in Nat \ {0}
    PROVE  \E n \in Nat : IsSlot(n, Multiple(x, r), x, r)
<1> DEFINE y == Multiple(x, r)
           q == x \div r
           m == x % r
           n == IF m > 0 THEN q + 1 ELSE q
<1>1. q \in Int /\ m \in 0 .. r - 1 /\ x = q * r + m
  BY ONLY x \in Nat, r \in Nat \ {0}, Division
<1>2. y = x + (IF m > 0 THEN r - m ELSE 0)
  BY DEF Multiple
<1> HIDE DEF q, m, y
<1>3. n \in Int
  BY <1>1
<1>4. y = n * r /\ y >= x
  BY <1>1, <1>2
<1>5. n \in Nat
  <2>1. q >= 0
    <3>1. SUFFICES ASSUME q <= -1 PROVE FALSE
      BY <1>1
    <3>2. q * r <= -r
      BY <1>1, <3>1
    <3>3. QED
      BY <1>1, <3>2
  <2>2. QED
    BY <1>1, <2>1
<1>6. y \div r = n
  <2>1. n * r + 0 = n * r /\ 0 \in 0 .. r - 1
    BY <1>3
  <2>2. (n * r + 0) \div r = n
    BY <1>3, <2>1, DivisionIs
  <2>3. QED
    BY <1>4, <2>1, <2>2
<1>7. ASSUME NEW k \in Int PROVE k * r >= x <=> k >= n
  <2>1. k >= n => k * r >= x
    <3>1. k >= n => (k - n) * r >= 0
      BY <1>3
    <3>2. (k - n) * r = k * r - n * r /\ k * r \in Int /\ n * r \in Int
      BY <1>3
    <3> HIDE DEF n
    <3>3. QED
      BY <1>4, <3>1, <3>2
  <2>2. k < n => k * r < x
    <3>1. ASSUME k < n PROVE k <= n - 1
      BY <1>3, <3>1
    <3>2. k < n => (n - 1 - k) * r >= 0
      BY <1>3, <3>1
    <3>3. (n - 1 - k) * r = n * r - r - k * r /\ k * r \in Int /\ n * r \in Int
      BY <1>3
    <3>4. n * r - r < x
      BY <1>1
    <3> HIDE DEF n
    <3>5. QED
      BY <3>2, <3>3, <3>4
  <2>3. QED
    BY <1>3, <2>1, <2>2
<1>8. n <= q + 1
  BY <1>1
<1> HIDE DEF n
<1>9. QED
  BY <1>4, <1>5, <1>6, <1>7, <1>8 DEF q, y, IsSlot

\* The number of slots until the next one with the remainder of `to`.
Until(to, from, s) == ((to % s) - (from % s) + s) % s

\* It has, and none before it.
LEMMA NextSlot ==
    ASSUME NEW s \in Nat \ {0}, NEW to \in Nat, NEW from \in Nat
    PROVE  /\ Until(to, from, s) \in 0 .. s - 1
           /\ (from + Until(to, from, s)) % s = to % s
           /\ \A k \in Int : k >= from /\ k % s = to % s => k >= from + Until(to, from, s)
<1> DEFINE d == Until(to, from, s)
           p == to % s
           b == from \div s
           q == from % s
<1>1. p \in 0 .. s - 1 /\ b \in Int /\ q \in 0 .. s - 1 /\ from = b * s + q
  BY Division
<1>2. d = (p - q + s) % s
  BY DEF Until
<1> HIDE DEF d, p, b, q
<1>3. d = IF p >= q THEN p - q ELSE p - q + s
  <2>1. CASE p >= q
    <3>1. p - q \in 0 .. s - 1 /\ p - q + s = 1 * s + (p - q) /\ 1 \in Int
      BY <1>1, <2>1
    <3>2. (1 * s + (p - q)) % s = p - q
      BY <3>1, DivisionIs
    <3>3. QED
      BY <1>2, <2>1, <3>1, <3>2
  <2>2. CASE ~ (p >= q)
    <3>1. p - q + s \in 0 .. s - 1
      BY <1>1, <2>2
    <3>2. (p - q + s) % s = p - q + s
      BY <3>1, ModSmall
    <3>3. QED
      BY <1>2, <2>2, <3>2
  <2>3. QED
    BY <2>1, <2>2
<1> DEFINE c == IF p >= q THEN b ELSE b + 1
<1>4. c \in Int /\ from + d = c * s + p
  BY <1>1, <1>3
<1>5. (c * s + p) % s = p
  <2> HIDE DEF c
  <2>1. QED
    BY <1>1, <1>4, DivisionIs
<1>6. ASSUME NEW k \in Int, k >= from, k % s = p PROVE k >= from + d
  <2> DEFINE e == k \div s
  <2>1. e \in Int /\ k = e * s + p
    BY <1>6, Division
  <2> HIDE DEF e
  <2>2. SUFFICES ASSUME e <= c - 1 PROVE FALSE
    <3>1. e >= c => (e - c) * s >= 0
      BY <1>4, <2>1
    <3>2. (e - c) * s = e * s - c * s
      BY <1>4, <2>1
    <3> HIDE DEF c
    <3>3. QED
      BY <1>1, <1>4, <2>1, <2>2, <3>1, <3>2
  <2>3. (c - 1 - e) * s >= 0 /\ (c - 1 - e) * s = c * s - s - e * s
    BY <1>4, <2>1, <2>2
  <2>4. c * s - s + p < from
    BY <1>1
  <2> HIDE DEF c
  <2>5. QED
    BY <1>1, <1>4, <1>6, <2>1, <2>3, <2>4
<1>7. d \in 0 .. s - 1
  BY <1>1, <1>3
<1>8. QED
  BY <1>4, <1>5, <1>6, <1>7 DEF p, d

\* A boundary of sectors, at which the track buffer begins.
Boundary(x) == x \in Nat /\ \E n \in Nat : x = n * RotationTime

\* The disk's clock is at a boundary when it begins to load the track buffer.
LEMMA TimeAfterIs ==
    ASSUME NEW s \in Sector, lastSector \in Sector, NEW now \in Nat
    PROVE  /\ Seek(s) \in Nat /\ TimeAfter(s, now) \in Nat
           /\ \E n \in Nat :
                /\ TimeAfter(s, now) = n * RotationTime /\ TimeAfter(s, now) \div RotationTime = n
                /\ TimeAfter(s, now) >= now + Seek(s)
                /\ n <= (now + Seek(s)) \div RotationTime + 1
                /\ \A k \in Int : k * RotationTime >= now + Seek(s) <=> k >= n
<1> DEFINE x == now + Seek(s)
           y == TimeAfter(s, now)
<1>1. Seek(s) \in Nat
  <2> DEFINE a == s \div SectorsPerTrack
             b == lastSector \div SectorsPerTrack
  <2>1. a \in Int /\ b \in Int
    BY DiskAssumption, Division DEF Sector
  <2>2. Seek(s) = (IF a - b < 0 THEN -(a - b) ELSE a - b) * SeekTime
    BY DEF Seek
  <2> HIDE DEF a, b
  <2> DEFINE c == IF a - b < 0 THEN -(a - b) ELSE a - b
  <2>3. c \in Nat
    BY <2>1
  <2> HIDE DEF c
  <2>4. c * SeekTime \in Nat
    BY <2>3, DiskAssumption
  <2>5. QED
    BY <2>2, <2>4 DEF c
<1>2. x \in Nat /\ RotationTime \in Nat \ {0}
  BY <1>1, DiskAssumption
<1>3. y = x + (IF x % RotationTime > 0 THEN RotationTime - (x % RotationTime) ELSE 0)
  BY DEF TimeAfter, Rotation
<1> HIDE DEF x, y
<1>4. \E n \in Nat : /\ y = n * RotationTime /\ y \div RotationTime = n /\ y >= x
                     /\ n <= x \div RotationTime + 1
                     /\ \A k \in Int : k * RotationTime >= x <=> k >= n
  <2>1. \E n \in Nat : IsSlot(n, Multiple(x, RotationTime), x, RotationTime)
    BY <1>2, NextMultiple
  <2>2. QED
    BY <1>3, <2>1 DEF IsSlot, Multiple
<1>5. y \in Nat
  BY <1>2, <1>4
<1>6. QED
  BY <1>1, <1>4, <1>5 DEF x, y

\* Disk::ComputeLatency is what the mechanics give.
LEMMA LatencyIs ==
    ASSUME NEW s \in Sector, lastSector \in Sector, Boundary(bufferInit), NEW now \in Nat,
           NEW writing \in BOOLEAN
    PROVE  ComputeLatency(s, writing, now) = Mechanical(s, writing, now)
<1> DEFINE R == RotationTime
           S == SectorsPerTrack
           x == now + Seek(s)
           y == TimeAfter(s, now)
           slots == 0 .. x \div R + S + 1
           next == {k \in slots : Passes(k, s) /\ k * R >= x}
           past == {k \in slots : Passes(k, s) /\ bufferInit <= k * R /\ k * R < now}
           least == CHOOSE k \in next : \A j \in next : k <= j
<1>1. R \in Nat \ {0} /\ S \in Nat \ {0} /\ s \in Nat /\ Seek(s) \in Nat /\ x \in Nat
  BY TimeAfterIs, DiskAssumption DEF Sector
<1>2. PICK n \in Nat : /\ y = n * R /\ y \div R = n /\ n <= x \div R + 1
                      /\ \A k \in Int : k * R >= x <=> k >= n
  BY TimeAfterIs
<1>3. PICK b \in Nat : bufferInit = b * R
  BY DEF Boundary
<1>4. /\ ComputeLatency(s, writing, now)
          = IF ~ writing /\ InTrackBuffer(s, now) THEN R ELSE (y - now) + ModuloDiff(s, n) * R + R
      /\ Mechanical(s, writing, now)
          = IF ~ writing /\ Seek(s) = 0 /\ past # {} THEN R ELSE least * R + R - now
  BY <1>2 DEF ComputeLatency, Mechanical
<1>5. InTrackBuffer(s, now) <=> Seek(s) = 0 /\ (y - bufferInit) \div R > ModuloDiff(s, bufferInit \div R)
  BY DEF InTrackBuffer
<1>6. \A from \in Nat : /\ ModuloDiff(s, from) \in 0 .. S - 1 /\ Passes(from + ModuloDiff(s, from), s)
                        /\ \A k \in Int : k >= from /\ Passes(k, s) => k >= from + ModuloDiff(s, from)
  <2> SUFFICES ASSUME NEW from \in Nat
               PROVE  /\ ModuloDiff(s, from) \in 0 .. S - 1
                      /\ Passes(from + ModuloDiff(s, from), s)
                      /\ \A k \in Int : k >= from /\ Passes(k, s) => k >= from + ModuloDiff(s, from)
    OBVIOUS
  <2>1. ModuloDiff(s, from) = Until(s, from, S)
    BY DEF ModuloDiff, Until
  <2> DEFINE d == Until(s, from, S)
  <2> HIDE DEF S
  <2>2. /\ d \in 0 .. S - 1 /\ (from + d) % S = s % S
        /\ \A k \in Int : k >= from /\ k % S = s % S => k >= from + d
    BY <1>1, NextSlot
  <2> HIDE DEF d
  <2>3. QED
    BY <2>1, <2>2 DEF d, S, Passes
<1>7. x \div R \in Int
  BY <1>1, Division
<1> DEFINE top == x \div R
<1> HIDE DEF R, S, x, y, top
<1>8. least = n + ModuloDiff(s, n)
  <2> DEFINE k == n + ModuloDiff(s, n)
  <2>1. k \in Int /\ k >= n /\ Passes(k, s) /\ k >= 0 /\ k <= x \div R + S + 1
    BY <1>1, <1>2, <1>6, <1>7
  <2>2. k \in next
    BY <1>2, <2>1, <1>7, <1>1
  <2>3. ASSUME NEW j \in next PROVE k <= j
    BY <1>2, <1>6, <1>7, <1>1
  <2> HIDE DEF k, next
  <2>4. \A j \in next : j \in Int
    BY <1>7, <1>1 DEF next
  <2>5. \A j \in next : (\A i \in next : j <= i) => j = k
    BY <2>1, <2>2, <2>3, <2>4
  <2>6. least \in next /\ \A i \in next : least <= i
    BY <2>2, <2>3
  <2>7. QED
    BY <2>5, <2>6 DEF k
<1>9. y - now + ModuloDiff(s, n) * R + R = least * R + R - now
  <2> DEFINE d == ModuloDiff(s, n)
  <2>1. d \in Int
    BY <1>6
  <2> HIDE DEF d, least
  <2>2. least = n + d
    BY <1>8 DEF d
  <2>3. (n + d) * R = n * R + d * R
    BY <1>1, <2>1
  <2>4. y \in Int /\ n * R \in Int /\ d * R \in Int /\ R \in Int
    BY <1>1, <1>2, <2>1
  <2>5. y - now + d * R + R = (n + d) * R + R - now
    BY <1>2, <2>3, <2>4
  <2>6. QED
    BY <2>2, <2>5 DEF d
<1>10. Seek(s) = 0 => (past # {} <=> InTrackBuffer(s, now))
  <2> SUFFICES ASSUME Seek(s) = 0 PROVE past # {} <=> InTrackBuffer(s, now)
    OBVIOUS
  <2>1. x = now
    BY DEF x
  <2> DEFINE d == ModuloDiff(s, b)
  <2>2. d \in 0 .. S - 1 /\ Passes(b + d, s)
        /\ \A k \in Int : k >= b /\ Passes(k, s) => k >= b + d
    BY <1>6
  <2>3. bufferInit \div R = b
    <3>1. (b * R + 0) \div R = b
      BY <1>1, DivisionIs
    <3>2. QED
      BY <1>1, <1>3, <3>1
  <2>4. (y - bufferInit) \div R = n - b
    <3>1. ((n - b) * R + 0) \div R = n - b
      BY <1>1, DivisionIs
    <3>2. (n - b) * R + 0 = y - bufferInit
      BY <1>1, <1>2, <1>3
    <3>3. QED
      BY <3>1, <3>2
  <2>5. InTrackBuffer(s, now) <=> n - b > d
    BY <1>5, <2>3, <2>4
  <2>6. \A k \in Int : k * R < now <=> k < n
    BY <1>1, <1>2, <2>1
  <2>7. \A k \in Int : bufferInit <= k * R <=> b <= k
    <3>1. ASSUME NEW k \in Int PROVE bufferInit <= k * R <=> b <= k
      <4>1. b <= k => (k - b) * R >= 0
        BY <1>1
      <4>2. b > k => (b - k) * R > 0
        BY <1>1
      <4>3. (k - b) * R = k * R - b * R /\ (b - k) * R = b * R - k * R
        BY <1>1
      <4>4. k * R \in Int /\ b * R \in Int
        BY <1>1
      <4>5. QED
        BY <1>3, <4>1, <4>2, <4>3, <4>4
    <3>2. QED
      BY <3>1
  <2> HIDE DEF d
  <2>8. n - b > d => b + d \in past
    <3>1. SUFFICES ASSUME n - b > d PROVE b + d \in past
      OBVIOUS
    <3>2. b + d \in Int /\ b <= b + d /\ b + d < n /\ b + d >= 0
      BY <2>2, <3>1
    <3>3. b + d \in slots
      BY <1>1, <1>2, <1>7, <3>2
    <3>4. bufferInit <= (b + d) * R /\ (b + d) * R < now
      BY <2>6, <2>7, <3>2
    <3>5. QED
      BY <2>2, <3>3, <3>4
  <2>9. ASSUME NEW k \in past PROVE n - b > d
    <3>1. k \in Int /\ Passes(k, s) /\ bufferInit <= k * R /\ k * R < now
      BY <1>1, <1>7
    <3>2. k >= b /\ k < n
      BY <2>6, <2>7, <3>1
    <3>3. k >= b + d
      BY <2>2, <3>1, <3>2
    <3>4. QED
      BY <2>2, <3>1, <3>2, <3>3
  <2> HIDE DEF past
  <2>10. QED
    BY <2>5, <2>8, <2>9
<1> HIDE DEF least, past
<1>11. QED
  BY <1>4, <1>5, <1>9, <1>10

\* It is a time to come.
LEMMA LatencyNat ==
    ASSUME NEW s \in Sector, lastSector \in Sector, NEW now \in Nat, NEW writing \in BOOLEAN
    PROVE  ComputeLatency(s, writing, now) \in Nat
<1> DEFINE y == TimeAfter(s, now)
           n == y \div RotationTime
           m == ModuloDiff(s, n) * RotationTime
<1>1. y \in Nat /\ y >= now /\ n \in Nat
  <2>1. PICK k \in Nat : y \div RotationTime = k /\ y >= now + Seek(s)
    BY TimeAfterIs
  <2>2. Seek(s) \in Nat /\ y \in Nat
    BY TimeAfterIs
  <2> HIDE DEF y
  <2>3. QED
    BY <2>1, <2>2
<1>2. ModuloDiff(s, n) \in Nat /\ RotationTime \in Nat
  <2>1. s \in Nat /\ n \in Nat
    BY <1>1 DEF Sector
  <2>2. SectorsPerTrack \in Nat \ {0} /\ RotationTime \in Nat
    BY DiskAssumption
  <2> HIDE DEF n, y
  <2>3. Until(s, n, SectorsPerTrack) \in 0 .. SectorsPerTrack - 1
    BY <2>1, <2>2, NextSlot
  <2>4. QED
    BY <2>2, <2>3 DEF ModuloDiff, Until
<1>3. m \in Nat
  <2> DEFINE d == ModuloDiff(s, n)
  <2>1. d \in Nat /\ RotationTime \in Nat
    BY <1>2
  <2> HIDE DEF d
  <2>2. d * RotationTime \in Nat
    BY <2>1
  <2>3. QED
    BY <2>2 DEF d
<1>4. ComputeLatency(s, writing, now)
        = IF ~ writing /\ InTrackBuffer(s, now) THEN RotationTime ELSE (y - now) + m + RotationTime
  BY DEF ComputeLatency
<1> HIDE DEF y, m
<1>5. QED
  BY <1>1, <1>2, <1>3, <1>4

\* What the latency rests on: the simulated time and that of the interrupts are
\* numbers, the arm is at a track, and the buffer began at a boundary.
ClockInv == /\ totalTicks \in Nat /\ diskDue \subseteq Nat
            /\ lastSector \in Sector /\ Boundary(bufferInit)

\* The sector of a request is one of the disk's.
LEMMA RequestedSector ==
    ASSUME KernelInv, NEW t \in Thread, ReadRequest(t) \/ WriteRequest(t)
    PROVE  cur[t].arg.sector \in Sector
<1>1. pc[t] # "idle"
  BY DEF ReadRequest, WriteRequest, At
<1>2. IsRequest(cur[t])
  BY <1>1, WorkloadAssumption DEF KernelInv, CallInv
<1>3. cur[t].op \in {"ReadSector", "WriteSector"}
  BY DEF ReadRequest, WriteRequest
<1>4. QED
  BY <1>2, <1>3 DEF IsRequest

\* A request finds the clock as it should be, and leaves it so; it is the only
\* interrupt that is due.
LEMMA RequestDoes ==
    ASSUME KernelInv, ClockInv, NEW t \in Thread, ReadRequest(t) \/ WriteRequest(t)
    PROVE  /\ ClockInv'
           /\ diskDue' = {totalTicks' + Mechanical(cur[t].arg.sector,
                                                  cur[t].op = "WriteSector", totalTicks')}
<1> DEFINE s == cur[t].arg.sector
           writing == cur[t].op = "WriteSector"
<1>1. s \in Sector
  BY RequestedSector
<1>2. PICK d \in Pauses : Request(s, writing, totalTicks + d)
  BY DEF ReadRequest, WriteRequest
<1>3. diskDue = {}
  <2>1. pc[t] = "disk.request"
    BY DEF ReadRequest, WriteRequest, At
  <2>2. QED
    BY <2>1, DiskFree DEF KernelInv, DiskSide, DiskHeld
<1> DEFINE now == totalTicks + d
<1>4. now \in Nat /\ totalTicks' = now
  BY <1>2, DiskAssumption DEF ClockInv, Request
<1> HIDE DEF s, writing, now
<1>5. writing \in BOOLEAN
  BY DEF writing
<1>6. Request(s, writing, now)
  BY <1>2 DEF now
<1>7. diskDue' = {now + ComputeLatency(s, writing, now)}
  BY <1>3, <1>6 DEF Request
<1>8. ComputeLatency(s, writing, now) = Mechanical(s, writing, now)
  BY <1>1, <1>4, <1>5, LatencyIs DEF ClockInv
<1>9. ClockInv'
  <2>1. ComputeLatency(s, writing, now) \in Nat
    BY <1>1, <1>4, <1>5, LatencyNat DEF ClockInv
  <2>2. diskDue' \subseteq Nat
    BY <1>4, <1>7, <2>1
  <2>3. /\ lastSector' = s
        /\ bufferInit' = IF Seek(s) # 0 THEN TimeAfter(s, now) ELSE bufferInit
    BY <1>6 DEF Request, UpdateLast
  <2>4. Boundary(TimeAfter(s, now))
    BY <1>1, <1>4, TimeAfterIs DEF ClockInv, Boundary
  <2>5. Boundary(bufferInit')
    BY <2>3, <2>4 DEF ClockInv
  <2>6. Boundary(bufferInit)'
    BY <2>5 DEF Boundary
  <2>7. QED
    BY <1>1, <1>4, <2>2, <2>3, <2>6 DEF ClockInv
<1>10. QED
  BY <1>4, <1>7, <1>8, <1>9 DEF s, writing

\* Only a request brings a thread to wait for the disk.
LEMMA OnlyRequests ==
    ASSUME KernelInv, [Next]_vars, NEW t \in Thread, pc[t] = "disk.request", pc'[t] = "disk.wait"
    PROVE  ReadRequest(t) \/ WriteRequest(t)
<1>1. CallInv /\ pc'[t] # pc[t]
  BY DEF KernelInv
<1>2. PICK u \in Thread : ThreadStep(u)
  BY <1>1 DEF Next, Interrupt, DiskDue, WriteDue, ReadDue, DiskInterrupt, WriteInterrupt, ReadInterrupt, EndOfFile, vars, callVars
<1>3. u = t /\ DiskStep(t)
  <2>1. CASE Call(u)
    <3>1. u # t
      BY <2>1 DEF Call, At
    <3>2. pc' = [pc EXCEPT ![u] = Entry(Head(todo[u]).op)]
      BY <2>1 DEF Call, Goto
    <3>3. pc'[t] = pc[t]
      BY <1>1, <3>1, <3>2 DEF CallInv
    <3>4. QED
      BY <1>1, <3>3
  <2>2. CASE DiskStep(u)
    BY <1>1, <2>2, DiskMovesOne DEF Moving
  <2>3. CASE ListStep(u) \/ ConsoleStep(u) \/ FileStep(u)
    <3>1. PICK code : Moving(u) /\ pc[u] \in code /\ code \cap DiskCode = {}
      <4>1. (OutCode \cup InCode) \cap DiskCode = {}
        BY CodesApart
      <4>2. QED
        BY <1>1, <2>3, <4>1, ListMovesOne, ConsoleMovesOne, FileMovesOne, CodesApart
    <3>2. pc[t] \in DiskCode
      BY DEF DiskCode, DiskHeld
    <3>3. QED
      BY <1>1, <3>1, <3>2 DEF Moving
  <2>4. QED
    BY <1>2, <2>1, <2>2, <2>3 DEF ThreadStep
<1>4. QED
  BY <1>3 DEF DiskStep, DiskAcquire, DiskWait, DiskDisown, DiskUnlock, At

\* It holds at first, when the arm is at sector 0 and the time is 0.
LEMMA ClockInit == Init => ClockInv
<1> SUFFICES ASSUME Init PROVE ClockInv
  OBVIOUS
<1>1. totalTicks = 0 /\ diskDue = {} /\ lastSector = 0 /\ bufferInit = 0
  BY DEF Init, DiskInit
<1>2. 0 * RotationTime = 0
  BY DiskAssumption
<1>3. QED
  BY <1>1, <1>2, DiskAssumption DEF ClockInv, Boundary, Sector

\* Requests keep it, and the disk's interrupt only moves the time on.
LEMMA ClockNext == KernelInv /\ ClockInv /\ [Next]_vars => ClockInv'
<1> SUFFICES ASSUME KernelInv, ClockInv, [Next]_vars PROVE ClockInv'
  OBVIOUS
<1>1. ASSUME UNCHANGED diskVars PROVE ClockInv'
  BY <1>1 DEF ClockInv, diskVars, Boundary
<1>2. ASSUME NEW t \in Thread, ThreadStep(t) PROVE ClockInv'
  <2>1. CASE ReadRequest(t) \/ WriteRequest(t)
    BY <2>1, RequestDoes
  <2>2. CASE UNCHANGED diskVars
    BY <1>1, <2>2
  <2>3. QED
    BY <1>2, <2>1, <2>2 DEF ThreadStep, Call, DiskStep, DiskAcquire, DiskWait, DiskDisown, DiskUnlock
<1>3. ASSUME DiskInterrupt PROVE ClockInv'
  <2>1. PICK due \in diskDue :
          /\ diskDue' = diskDue \ {due} /\ totalTicks' = IF totalTicks < due THEN due ELSE totalTicks
          /\ UNCHANGED <<lastSector, bufferInit>>
    BY <1>3 DEF DiskInterrupt
  <2>2. QED
    BY <2>1 DEF ClockInv, Boundary
<1>4. CASE UNCHANGED vars
  BY <1>1, <1>4 DEF vars
<1>5. QED
  BY <1>1, <1>2, <1>3, <1>4 DEF Next, Interrupt, DiskDue, WriteDue, ReadDue

\* Disk::ComputeLatency, with TimeToSeek, ModuloDiff and the track buffer, is the
\* mechanics of the disk: whatever the geometry, the speeds, the requests and the
\* pauses between them, each request is complete when the first slot of its sector
\* has passed under the head after the arm arrived, or a sector's time later if the
\* track buffer has it.
THEOREM DiskIsMechanical == Spec => LatencyIsMechanical
<1> DEFINE Step == \A t \in Thread : pc[t] = "disk.request" /\ pc'[t] = "disk.wait" =>
                      diskDue' = {totalTicks' + Mechanical(cur[t].arg.sector,
                                                   cur[t].op = "WriteSector", totalTicks')}
<1>1. KernelInv /\ ClockInv /\ [Next]_vars => Step
  BY OnlyRequests, RequestDoes
<1>2. KernelInv /\ ClockInv /\ [Next]_vars => [Step]_vars
  BY <1>1
<1> HIDE DEF Step
<1>3. Spec => [][Step]_vars
  BY <1>2, ClockInit, ClockNext, KernelInvHolds, PTL DEF Spec
<1>4. QED
  BY <1>3 DEF LatencyIsMechanical, Step

=============================================================================
