-------------------------- MODULE AddrSpaceProofs ---------------------------
(***************************************************************************)
(* For any programs, any page size and any amount of memory: no two        *)
(* programs share a frame, each has its frames in a row, user code runs    *)
(* under its own page table, and a program keeps what it loaded and        *)
(* stored.                                                                 *)
(***************************************************************************)
EXTENDS AddrSpace, SequenceTheorems, TLAPS

-----------------------------------------------------------------------------
\* A positive number of cells takes at least one page.
LEMMA PagesPositive ==
    ASSUME NEW n \in Nat \ {0}, NEW s \in Nat \ {0}
    PROVE  divRoundUp(n, s) \in Nat \ {0}
<1>1. n + s - 1 \in Nat /\ n + s - 1 >= s
  OBVIOUS
<1>2. (n + s - 1) \div s \in Int
  BY <1>1
<1>3. (n + s - 1) \div s >= 1
  BY <1>1
<1>4. QED
  BY <1>2, <1>3 DEF divRoundUp

\* So does every program, with its stack.
LEMMA NumPagesPositive ==
    ASSUME NEW t \in Thread, Program[t] # Missing
    PROVE  NumPages(t) \in Nat \ {0}
<1>1. Program[t].size \in Nat
  BY ProgramAssumption DEF IsImage
<1>2. Program[t].size + UserStackSize \in Nat \ {0}
  BY <1>1, MemoryAssumption
<1>3. QED
  BY <1>2, PagesPositive, MemoryAssumption DEF NumPages

-----------------------------------------------------------------------------
(* Frames.  The free list is always the rest of 0 .. NumPhysPages - 1 in    *)
(* order, so every table is a run of frames below the ones that are free.   *)

HandedOut == NumPhysPages - Len(available)

FreeInOrder ==
    /\ available \in Seq(Nat)
    /\ Len(available) <= NumPhysPages
    /\ \A i \in 1 .. Len(available) : available[i] = HandedOut + i - 1

TablesInOrder ==
    /\ pageTable \in [Thread -> Seq(Nat)]
    /\ \A t \in Thread : \A i \in 1 .. Len(pageTable[t]) :
          /\ pageTable[t][i] = pageTable[t][1] + i - 1
          /\ pageTable[t][i] < HandedOut

TablesDisjoint ==
    \A t, u \in Thread : t # u =>
      \A i \in 1 .. Len(pageTable[t]), j \in 1 .. Len(pageTable[u]) :
        pageTable[t][i] # pageTable[u][j]

FramesInv == FreeInOrder /\ TablesInOrder /\ TablesDisjoint

\* All frames are free at first.
LEMMA FramesInit == Init => FramesInv
<1> SUFFICES ASSUME Init PROVE FramesInv
  OBVIOUS
<1>1. /\ available \in Seq(Nat) /\ Len(available) = NumPhysPages
      /\ \A i \in 1 .. NumPhysPages : available[i] = i - 1
  BY MemoryAssumption DEF Init
<1>2. FreeInOrder
  BY <1>1, MemoryAssumption DEF FreeInOrder, HandedOut
<1>3. \A t \in Thread : pageTable[t] = <<>>
  BY DEF Init
<1>4. TablesInOrder /\ TablesDisjoint
  BY <1>3 DEF TablesInOrder, TablesDisjoint, Init
<1>5. QED
  BY <1>2, <1>4 DEF FramesInv

\* What FrameTable::Allocate hands out, and what it leaves.
LEMMA AllocateInOrder ==
    ASSUME FreeInOrder, NEW n \in Nat \ {0}, n <= Len(available)
    PROVE  /\ Allocate(n).table \in Seq(Nat) /\ Len(Allocate(n).table) = n
           /\ \A i \in 1 .. n : Allocate(n).table[i] = HandedOut + i - 1
           /\ Allocate(n).rest \in Seq(Nat)
           /\ Len(Allocate(n).rest) = Len(available) - n
           /\ \A i \in 1 .. Len(available) - n :
                 Allocate(n).rest[i] = HandedOut + n + i - 1
<1> DEFINE len == Len(available)
<1>1. available \in Seq(Nat) /\ len \in Nat /\ DOMAIN available = 1 .. len
  BY LenProperties DEF FreeInOrder
<1>2. /\ SubSeq(available, 1, n) \in Seq(Nat)
      /\ Len(SubSeq(available, 1, n)) = n
      /\ \A i \in 1 .. n : SubSeq(available, 1, n)[i] = available[i]
  <2>1. \A i \in 1 .. n : available[i] \in Nat
    BY <1>1
  <2>2. 1 \in Int /\ n \in Int /\ 1 <= n
    OBVIOUS
  <2>3. QED
    BY <2>1, <2>2, SubSeqProperties
<1> DEFINE first == SubSeq(available, 1, n)
           rest == SubSeq(available, n + 1, len)
<1>3. /\ rest \in Seq(Nat) /\ Len(rest) = len - n
      /\ \A i \in 1 .. len - n : rest[i] = available[n + i]
  <2>1. \A i \in n + 1 .. len : available[i] \in Nat
    BY <1>1
  <2>2. n + 1 \in Int /\ len \in Int
    BY <1>1
  <2>3. /\ rest \in Seq(Nat)
        /\ Len(rest) = IF n + 1 <= len THEN len - (n + 1) + 1 ELSE 0
        /\ \A i \in 1 .. len - (n + 1) + 1 : rest[i] = available[(n + 1) + i - 1]
    BY <2>1, <2>2, SubSeqProperties
  <2> HIDE DEF rest
  <2>4. Len(rest) = len - n
    <3>1. len \in Nat /\ n <= len
      BY <1>1
    <3>2. CASE n + 1 <= len
      BY <2>3, <3>1, <3>2
    <3>3. CASE n = len
      BY <2>3, <3>1, <3>3
    <3>4. QED
      BY <3>1, <3>2, <3>3
  <2>5. ASSUME NEW i \in 1 .. len - n PROVE rest[i] = available[n + i]
    <3>1. i \in 1 .. len - (n + 1) + 1 /\ (n + 1) + i - 1 = n + i
      BY <1>1
    <3>2. QED
      BY <2>3, <3>1
  <2>6. QED
    BY <2>3, <2>4, <2>5
<1>4. \A i \in 1 .. len : available[i] = HandedOut + i - 1
  BY DEF FreeInOrder
<1>5. HandedOut \in Int
  BY <1>1, MemoryAssumption DEF HandedOut
<1>6. Allocate(n).table = first /\ Allocate(n).rest = rest
  BY DEF Allocate
<1> HIDE DEF first, rest
<1>7. \A i \in 1 .. n : first[i] = HandedOut + i - 1
  BY <1>1, <1>2, <1>4 DEF first
<1>8. ASSUME NEW i \in 1 .. len - n PROVE rest[i] = HandedOut + n + i - 1
  <2>1. rest[i] = available[n + i] /\ n + i \in 1 .. len
    BY <1>1, <1>3
  <2>2. available[n + i] = HandedOut + (n + i) - 1
    BY <1>4, <2>1
  <2>3. QED
    BY <1>5, <2>1, <2>2
<1>9. QED
  BY <1>2, <1>3, <1>6, <1>7, <1>8 DEF first

\* Handing out n more frames keeps everything in order.
LEMMA HandOutInOrder ==
    ASSUME FramesInv, NEW t \in Thread,
           NEW n \in Nat \ {0}, n <= Len(available),
           available' = Allocate(n).rest,
           pageTable' = [pageTable EXCEPT ![t] = Allocate(n).table]
    PROVE  FramesInv' /\ pageTable'[t] # <<>>
<1> DEFINE new == Allocate(n)
<1>1. /\ new.table \in Seq(Nat) /\ Len(new.table) = n
      /\ \A i \in 1 .. n : new.table[i] = HandedOut + i - 1
      /\ new.rest \in Seq(Nat) /\ Len(new.rest) = Len(available) - n
      /\ \A i \in 1 .. Len(available) - n : new.rest[i] = HandedOut + n + i - 1
  BY AllocateInOrder DEF FramesInv
<1> HIDE DEF new
<1>2. /\ Len(available) \in Nat /\ HandedOut \in Nat
      /\ HandedOut = NumPhysPages - Len(available)
  BY MemoryAssumption, LenProperties DEF FramesInv, FreeInOrder, HandedOut
<1>3. HandedOut' = HandedOut + n
  BY <1>1, <1>2, MemoryAssumption DEF HandedOut, new
<1>4. FreeInOrder'
  <2>1. available' = new.rest
    BY DEF new
  <2>2. Len(available') = Len(available) - n /\ Len(available') <= NumPhysPages
    BY <1>1, <1>2, <2>1, MemoryAssumption
  <2>3. \A i \in 1 .. Len(available') : available'[i] = HandedOut' + i - 1
    BY <1>1, <1>2, <1>3, <2>1, <2>2
  <2>4. QED
    BY <1>1, <2>1, <2>2, <2>3 DEF FreeInOrder
<1>5. /\ pageTable \in [Thread -> Seq(Nat)]
      /\ pageTable' = [pageTable EXCEPT ![t] = new.table]
      /\ pageTable'[t] = new.table
      /\ \A u \in Thread : u # t => pageTable'[u] = pageTable[u]
  BY DEF FramesInv, TablesInOrder, new
<1>6. \A u \in Thread : \A i \in 1 .. Len(pageTable[u]) :
         /\ pageTable[u][i] = pageTable[u][1] + i - 1
         /\ pageTable[u][i] < HandedOut
  BY DEF FramesInv, TablesInOrder
<1>7. \A u \in Thread : Len(pageTable[u]) \in Nat
  BY <1>5, LenProperties
<1>8. \A u \in Thread : \A i \in 1 .. Len(pageTable[u]) : pageTable[u][i] \in Nat
  BY <1>5, ElementOfSeq
<1>9. TablesInOrder'
  <2>1. pageTable' \in [Thread -> Seq(Nat)]
    BY <1>1, <1>5
  <2>2. ASSUME NEW u \in Thread, NEW i \in 1 .. Len(pageTable'[u])
        PROVE  /\ pageTable'[u][i] = pageTable'[u][1] + i - 1
               /\ pageTable'[u][i] < HandedOut'
    <3>1. CASE u = t
      <4>1. i \in 1 .. n /\ 1 \in 1 .. n
        BY <1>1, <1>5, <2>2, <3>1
      <4>2. new.table[i] = HandedOut + i - 1 /\ new.table[1] = HandedOut + 1 - 1
        BY <1>1, <4>1
      <4>3. pageTable'[u] = new.table
        BY <1>5, <3>1
      <4>4. HandedOut \in Int /\ n \in Int /\ i <= n
        BY <1>1, <1>2, <4>1
      <4>5. QED
        BY <1>3, <4>1, <4>2, <4>3, <4>4
    <3>2. CASE u # t
      <4>1. pageTable'[u] = pageTable[u]
        BY <1>5, <3>2
      <4>2. i \in 1 .. Len(pageTable[u])
        BY <2>2, <4>1
      <4>3. QED
        BY <1>2, <1>3, <1>6, <1>8, <4>1, <4>2
    <3>3. QED
      BY <3>1, <3>2
  <2>3. QED
    BY <2>1, <2>2 DEF TablesInOrder
<1>10. TablesDisjoint'
  <2>1. ASSUME NEW u \in Thread, u # t,
               NEW i \in 1 .. Len(pageTable[u]), NEW j \in 1 .. n
        PROVE  pageTable[u][i] # new.table[j]
    BY <1>1, <1>2, <1>6, <1>8, <2>1
  <2>2. ASSUME NEW u \in Thread, NEW w \in Thread, u # w,
               NEW i \in 1 .. Len(pageTable'[u]), NEW j \in 1 .. Len(pageTable'[w])
        PROVE  pageTable'[u][i] # pageTable'[w][j]
    <3>1. CASE u = t
      <4>1. pageTable'[w] = pageTable[w] /\ pageTable'[u] = new.table
        BY <1>5, <2>2, <3>1
      <4>2. i \in 1 .. n /\ j \in 1 .. Len(pageTable[w])
        BY <1>1, <2>2, <4>1
      <4>3. QED
        BY <2>1, <2>2, <3>1, <4>1, <4>2
    <3>2. CASE w = t
      <4>1. pageTable'[u] = pageTable[u] /\ pageTable'[w] = new.table
        BY <1>5, <2>2, <3>2
      <4>2. i \in 1 .. Len(pageTable[u]) /\ j \in 1 .. n
        BY <1>1, <2>2, <4>1
      <4>3. QED
        BY <2>1, <2>2, <3>2, <4>1, <4>2
    <3>3. CASE u # t /\ w # t
      <4>1. pageTable'[u] = pageTable[u] /\ pageTable'[w] = pageTable[w]
        BY <1>5, <3>3
      <4>2. QED
        BY <2>2, <4>1 DEF FramesInv, TablesDisjoint
    <3>4. QED
      BY <3>1, <3>2, <3>3
  <2>3. QED
    BY <2>2 DEF TablesDisjoint
<1>11. pageTable'[t] # <<>>
  <2>1. Len(pageTable'[t]) # 0
    BY <1>1, <1>5
  <2>2. QED
    BY <2>1
<1>12. QED
  BY <1>4, <1>9, <1>10, <1>11 DEF FramesInv

-----------------------------------------------------------------------------
(* Running.  Only a thread that has its table is loading or running, and   *)
(* the table register is its own whenever it runs.                         *)

RunInv ==
    /\ pc \in [Thread -> {"new", "begun", "loading", "user", "finished"}]
    /\ currentThread \in Thread \cup {NoThread}
    /\ \A t \in Thread : pc[t] \in {"loading", "user"} => pageTable[t] # <<>>
    /\ At("user") => machineTable = currentThread

AddrInv == FramesInv /\ RunInv

\* No thread runs at first.
LEMMA AddrInit == Init => AddrInv
<1> SUFFICES ASSUME Init PROVE AddrInv
  OBVIOUS
<1>1. FramesInv
  BY FramesInit
<1>2. RunInv
  BY DEF Init, RunInv, At
<1>3. QED
  BY <1>1, <1>2 DEF AddrInv

\* A step that leaves the tables alone.
LEMMA FramesKept ==
    FramesInv /\ UNCHANGED <<available, pageTable>> => FramesInv'
BY DEF FramesInv, FreeInOrder, TablesInOrder, TablesDisjoint, HandedOut

\* A step that ends the current thread.
LEMMA LeavesKeeps ==
    ASSUME AddrInv, At("user") \/ At("begun"), Leaves(currentThread),
           UNCHANGED <<machineTable, tables>>
    PROVE  AddrInv'
<1>1. FramesInv'
  BY FramesKept DEF AddrInv, tables
<1>2. RunInv'
  BY DEF AddrInv, RunInv, Leaves, At, tables
<1>3. QED
  BY <1>1, <1>2 DEF AddrInv

\* A step that neither switches threads nor moves any of them on.
LEMMA StaysKeeps ==
    ASSUME AddrInv, UNCHANGED <<pc, currentThread, machineTable, available, pageTable>>
    PROVE  AddrInv'
<1>1. FramesInv'
  BY FramesKept DEF AddrInv
<1>2. RunInv'
  BY DEF AddrInv, RunInv, At
<1>3. QED
  BY <1>1, <1>2 DEF AddrInv

\* Every step keeps the frames in order and the table register right.
LEMMA AddrNext == AddrInv /\ [Next]_vars => AddrInv'
<1> SUFFICES ASSUME AddrInv, [Next]_vars PROVE AddrInv'
  OBVIOUS
<1>1. ASSUME NEW t \in Thread, Run(t) PROVE AddrInv'
  <2>1. FramesInv'
    BY <1>1, FramesKept DEF AddrInv, Run, tables
  <2>2. /\ pc \in [Thread -> {"new", "begun", "loading", "user", "finished"}]
        /\ pc[t] \in {"new", "begun", "user"}
        /\ pc' = [pc EXCEPT ![t] = IF pc[t] = "new" THEN "begun" ELSE pc[t]]
        /\ currentThread' = t
        /\ pageTable' = pageTable
        /\ \A u \in Thread : pc[u] \in {"loading", "user"} => pageTable[u] # <<>>
    BY <1>1 DEF AddrInv, RunInv, Run, tables
  <2>3. /\ pc' \in [Thread -> {"new", "begun", "loading", "user", "finished"}]
        /\ pc'[t] = IF pc[t] = "new" THEN "begun" ELSE pc[t]
        /\ \A u \in Thread : u # t => pc'[u] = pc[u]
    BY <2>2
  <2>4. pc'[t] = "user" => machineTable' = t
    BY <1>1, <2>2, <2>3 DEF Run, RestoreState
  <2>5. \A u \in Thread : pc'[u] \in {"loading", "user"} => pageTable'[u] # <<>>
    BY <2>2, <2>3
  <2>6. RunInv'
    BY <2>2, <2>3, <2>4, <2>5 DEF RunInv, At
  <2>7. QED
    BY <2>1, <2>6 DEF AddrInv
<1>2. CASE LoadMissing
  BY <1>2, LeavesKeeps DEF LoadMissing, tables
<1>3. CASE LoadBegin
  <2> DEFINE t == currentThread
             n == NumPages(currentThread)
  <2>1. /\ t \in Thread /\ pc[t] = "begun" /\ Program[t] # Missing
        /\ n <= Len(available)
        /\ available' = Allocate(n).rest
        /\ pageTable' = [pageTable EXCEPT ![t] = Allocate(n).table]
    BY <1>3, ThreadAssumption DEF LoadBegin, At, AddrInv, RunInv
  <2>2. n \in Nat \ {0}
    BY <2>1, NumPagesPositive
  <2>3. FramesInv' /\ pageTable'[t] # <<>>
    <3> HIDE DEF n, t
    <3>1. QED
      BY <2>1, <2>2, HandOutInOrder DEF AddrInv
  <2>4. RunInv'
    <3>1. /\ pc' = [pc EXCEPT ![t] = "loading"] /\ currentThread' = t
          /\ pc \in [Thread -> {"new", "begun", "loading", "user", "finished"}]
          /\ pageTable \in [Thread -> Seq(Nat)]
          /\ \A u \in Thread : pc[u] \in {"loading", "user"} => pageTable[u] # <<>>
      BY <1>3 DEF LoadBegin, AddrInv, RunInv, FramesInv, TablesInOrder
    <3>2. pc'[t] = "loading"
      BY <2>1, <3>1
    <3>3. \A u \in Thread : pc'[u] \in {"loading", "user"} => pageTable'[u] # <<>>
      BY <2>1, <2>3, <3>1
    <3>4. QED
      BY <2>1, <3>1, <3>2, <3>3 DEF RunInv, At
  <2>5. QED
    BY <2>3, <2>4 DEF AddrInv
<1>4. CASE LoadExhausted
  BY <1>4, StaysKeeps DEF LoadExhausted, Aborts, tables
<1>5. CASE LoadChunk
  BY <1>5, StaysKeeps DEF LoadChunk
<1>6. CASE Execute
  <2>1. FramesInv'
    BY <1>6, FramesKept DEF AddrInv, Execute, tables
  <2>2. /\ currentThread \in Thread /\ pc[currentThread] = "loading"
        /\ pageTable[currentThread] # <<>>
    BY <1>6 DEF Execute, At, AddrInv, RunInv
  <2>3. machineTable' = currentThread
    BY <1>6, <2>2 DEF Execute, RestoreState
  <2>4. RunInv'
    BY <1>6, <2>2, <2>3 DEF Execute, AddrInv, RunInv, At, tables
  <2>5. QED
    BY <2>1, <2>4 DEF AddrInv
<1>7. ASSUME NEW v, WriteMem(v) \/ WriteFaults(v) \/ SysRead(v) PROVE AddrInv'
  BY <1>7, StaysKeeps DEF WriteMem, WriteFaults, SysRead, Aborts, tables
<1>8. CASE Finish
  BY <1>8, LeavesKeeps DEF Finish, InUser
<1>9. CASE UNCHANGED vars
  BY <1>9, StaysKeeps DEF vars, tables
<1>10. QED
  BY <1>1, <1>2, <1>3, <1>4, <1>5, <1>6, <1>7, <1>8, <1>9 DEF Next

\* What holds of every reachable state, whatever the programs are.
THEOREM AddrInvHolds == Spec => []AddrInv
<1>1. QED
  BY AddrInit, AddrNext, PTL DEF Spec

-----------------------------------------------------------------------------
\* No frame is ever in two page tables, twice in one, or both in use and
\* free: FrameTable::Allocate hands out each frame once.
THEOREM FramesExclusive == Spec => []FramesAreExclusive
<1>1. AddrInv => FramesAreExclusive
  <2> SUFFICES ASSUME AddrInv PROVE FramesAreExclusive
    OBVIOUS
  <2>1. /\ pageTable \in [Thread -> Seq(Nat)] /\ available \in Seq(Nat)
        /\ \A t \in Thread : DOMAIN pageTable[t] = 1 .. Len(pageTable[t])
        /\ DOMAIN available = 1 .. Len(available)
    BY LenProperties DEF AddrInv, FramesInv, TablesInOrder, FreeInOrder
  <2>2. \A t \in Thread : \A i \in 1 .. Len(pageTable[t]) :
          /\ pageTable[t][i] \in Nat
          /\ pageTable[t][1] \in Nat
          /\ pageTable[t][i] = pageTable[t][1] + i - 1
          /\ pageTable[t][i] < HandedOut
    <3>1. \A t \in Thread : \A i \in 1 .. Len(pageTable[t]) :
             i \in Int /\ 1 \in 1 .. Len(pageTable[t])
      BY <2>1, LenProperties
    <3>2. QED
      BY <2>1, <3>1, ElementOfSeq DEF AddrInv, FramesInv, TablesInOrder
  <2>3. HandedOut \in Int
    BY <2>1, LenProperties, MemoryAssumption DEF HandedOut
  <2>4. \A t, u \in Thread : t # u => Held(t) \cap Held(u) = {}
    BY <2>1 DEF AddrInv, FramesInv, TablesDisjoint, Held
  <2>5. \A t \in Thread : \A i, j \in DOMAIN pageTable[t] :
          i # j => pageTable[t][i] # pageTable[t][j]
    <3>1. ASSUME NEW t \in Thread, NEW i \in 1 .. Len(pageTable[t]),
                 NEW j \in 1 .. Len(pageTable[t]), i # j
          PROVE  pageTable[t][i] # pageTable[t][j]
      <4>1. /\ pageTable[t][1] \in Nat
            /\ pageTable[t][i] = pageTable[t][1] + i - 1
            /\ pageTable[t][j] = pageTable[t][1] + j - 1
        BY <2>2
      <4>2. i \in Int /\ j \in Int
        OBVIOUS
      <4>3. QED
        BY <3>1, <4>1, <4>2
    <3>2. QED
      BY <2>1, <3>1
  <2>6. \A t \in Thread : \A i \in DOMAIN available : available[i] \notin Held(t)
    <3>1. \A i \in DOMAIN available : available[i] >= HandedOut
      BY <2>1, <2>3 DEF AddrInv, FramesInv, FreeInOrder
    <3>2. \A t \in Thread : \A f \in Held(t) : f \in Nat /\ f < HandedOut
      BY <2>1, <2>2 DEF Held
    <3>3. \A i \in DOMAIN available : available[i] \in Nat
      BY <2>1, <2>3 DEF AddrInv, FramesInv, FreeInOrder
    <3>4. QED
      BY <2>3, <3>1, <3>2, <3>3
  <2>7. QED
    BY <2>4, <2>5, <2>6 DEF FramesAreExclusive
<1>2. QED
  BY <1>1, AddrInvHolds, PTL

\* Every program's frames follow one another, so that the chunks that Load
\* reads across the end of a page land where Translate looks for them.
THEOREM FramesContiguous == Spec => []FramesAreContiguous
<1>1. AddrInv => FramesAreContiguous
  <2> SUFFICES ASSUME AddrInv PROVE FramesAreContiguous
    OBVIOUS
  <2>1. \A t \in Thread : DOMAIN pageTable[t] = 1 .. Len(pageTable[t])
    BY LenProperties DEF AddrInv, FramesInv, TablesInOrder
  <2>2. QED
    BY <2>1 DEF AddrInv, FramesInv, TablesInOrder, FramesAreContiguous
<1>2. QED
  BY <1>1, AddrInvHolds, PTL

\* A thread that runs user code has its own page table in the machine, for
\* any number of threads and whenever they are switched.
THEOREM OwnTable == Spec => []RunsUnderOwnTable
<1>1. AddrInv => RunsUnderOwnTable
  BY DEF AddrInv, RunInv, RunsUnderOwnTable, InUser
<1>2. QED
  BY <1>1, AddrInvHolds, PTL

-----------------------------------------------------------------------------
(* Addresses.                                                              *)

\* A cell is at an offset in its page.
LEMMA InPage ==
    ASSUME NEW v \in Nat, NEW s \in Nat \ {0}
    PROVE  /\ v \div s \in Nat /\ v % s \in Nat /\ v % s < s
           /\ v = (v \div s) * s + (v % s)
OBVIOUS

\* ... and there is only one way to write it so.
LEMMA PageOf ==
    ASSUME NEW s \in Nat \ {0}, NEW q \in Nat, NEW r \in Nat, r < s
    PROVE  (q * s + r) \div s = q
OBVIOUS

\* A cell of n pages is in one of them.
LEMMA PageBelow ==
    ASSUME NEW s \in Nat \ {0}, NEW n \in Nat, NEW v \in Nat, v < n * s
    PROVE  v \div s < n
OBVIOUS

\* Pages are counted from any page on.
LEMMA Distributes ==
    ASSUME NEW s \in Nat, NEW a \in Nat, NEW q \in Nat
    PROVE  (a + q) * s = a * s + q * s /\ a * s \in Nat /\ q * s \in Nat
OBVIOUS

\* A cell of one of the first n pages is among their cells.
LEMMA CellBelow ==
    ASSUME NEW s \in Nat \ {0}, NEW f \in Nat, NEW n \in Nat, f < n, NEW r \in Nat, r < s
    PROVE  f * s + r < n * s /\ f * s + r \in Nat
OBVIOUS

-----------------------------------------------------------------------------
(* Memory.  A program's image is as large as its page table, and its cells *)
(* follow one another from the first frame on.                             *)

Loaded(t) == pc[t] \in {"loading", "user"}

Layout ==
    /\ DOMAIN mainMemory = 0 .. NumPhysPages * PageSize - 1
    /\ image = [t \in Thread |-> image[t]]
    /\ \A t \in Thread : Loaded(t) =>
          /\ Program[t] # Missing
          /\ Len(pageTable[t]) = NumPages(t)
          /\ DOMAIN image[t] = 0 .. NumPages(t) * PageSize - 1

LoadInOrder ==
    /\ segment \in Nat /\ offset \in Nat
    /\ At("loading") /\ segment \in DOMAIN Segments(currentThread)
          => offset < Segments(currentThread)[segment].size

MemInv == Layout /\ LoadInOrder /\ MemoryHolds

\* Where a cell of a program is: the program's cells follow one another, in
\* its frames.
LEMMA Mapped ==
    ASSUME AddrInv, NEW t \in Thread, NEW n \in Nat \ {0}, Len(pageTable[t]) = n,
           NEW v \in 0 .. n * PageSize - 1
    PROVE  /\ v \div PageSize + 1 \in 1 .. Len(pageTable[t])
           /\ Translate(t, v) = pageTable[t][1] * PageSize + v
           /\ Translate(t, v) \div PageSize = pageTable[t][v \div PageSize + 1]
           /\ Translate(t, v) \in 0 .. NumPhysPages * PageSize - 1
           /\ pageTable[t][1] * PageSize \in Nat
<1> DEFINE q == v \div PageSize
           r == v % PageSize
           base == pageTable[t][1]
<1>1. PageSize \in Nat \ {0} /\ PageSize \in Nat /\ NumPhysPages \in Nat \ {0}
  BY MemoryAssumption
<1>2. n * PageSize \in Nat
  BY <1>1, Distributes
<1>3. v \in Nat /\ v < n * PageSize
  BY <1>2
<1>4. q \in Nat /\ r \in Nat /\ r < PageSize /\ v = q * PageSize + r
  BY <1>1, <1>3, InPage
<1>5. q < n
  BY <1>1, <1>3, PageBelow
<1> HIDE DEF q, r
<1>6. q + 1 \in 1 .. n /\ 1 \in 1 .. n
  BY <1>4, <1>5
<1>7. /\ pageTable[t] \in Seq(Nat)
      /\ pageTable[t][q + 1] = base + (q + 1) - 1 /\ pageTable[t][q + 1] < HandedOut
  BY <1>6 DEF AddrInv, FramesInv, TablesInOrder
<1>8. base \in Nat
  BY <1>6, <1>7, ElementOfSeq
<1>9. /\ pageTable[t][q + 1] = base + q /\ base + q \in Nat /\ base + q < NumPhysPages
  <2>1. HandedOut \in Int /\ HandedOut <= NumPhysPages
    <3>1. Len(available) \in Nat
      BY LenProperties DEF AddrInv, FramesInv, FreeInOrder
    <3>2. QED
      BY <1>1, <3>1 DEF HandedOut
  <2> HIDE DEF base
  <2>2. pageTable[t][q + 1] = base + q
    BY <1>4, <1>7, <1>8
  <2>3. QED
    BY <1>1, <1>4, <1>7, <1>8, <2>1, <2>2
<1> HIDE DEF base
<1>10. Translate(t, v) = (base + q) * PageSize + r
  BY <1>9 DEF Translate, q, r
<1>11. (base + q) * PageSize = base * PageSize + q * PageSize
       /\ base * PageSize \in Nat /\ q * PageSize \in Nat
  BY <1>1, <1>4, <1>8, Distributes
<1>12. Translate(t, v) = base * PageSize + v
  BY <1>4, <1>10, <1>11
<1>13. Translate(t, v) \div PageSize = base + q
  BY <1>1, <1>4, <1>9, <1>10, PageOf
<1>14. Translate(t, v) < NumPhysPages * PageSize /\ Translate(t, v) \in Nat
  <2> DEFINE f == base + q
  <2>1. f \in Nat /\ f < NumPhysPages /\ NumPhysPages \in Nat
    BY <1>1, <1>9
  <2> HIDE DEF f
  <2>2. f * PageSize + r < NumPhysPages * PageSize /\ f * PageSize + r \in Nat
    BY <1>1, <1>4, <2>1, CellBelow
  <2>3. Translate(t, v) = f * PageSize + r
    BY <1>10 DEF f
  <2>4. QED
    BY <2>2, <2>3
<1>15. NumPhysPages * PageSize \in Nat
  BY <1>1, Distributes
<1>16. Translate(t, v) \in 0 .. NumPhysPages * PageSize - 1
  BY <1>14, <1>15
<1>17. QED
  BY <1>6, <1>9, <1>11, <1>12, <1>13, <1>16 DEF q, base

Base(t) == pageTable[t][1] * PageSize

\* The cells of the programs in memory.
LEMMA Places ==
    ASSUME AddrInv, Layout, NEW t \in Thread, Loaded(t), NEW v \in DOMAIN image[t]
    PROVE  /\ v \in Nat /\ Base(t) \in Nat
           /\ Translate(t, v) = Base(t) + v
           /\ Translate(t, v) \in DOMAIN mainMemory
           /\ v \div PageSize + 1 \in 1 .. Len(pageTable[t])
           /\ Translate(t, v) \div PageSize = pageTable[t][v \div PageSize + 1]
<1>1. /\ Program[t] # Missing
      /\ Len(pageTable[t]) = NumPages(t)
      /\ v \in 0 .. NumPages(t) * PageSize - 1
      /\ DOMAIN mainMemory = 0 .. NumPhysPages * PageSize - 1
  BY DEF Layout
<1>2. NumPages(t) \in Nat \ {0}
  BY <1>1, NumPagesPositive
<1>3. v \in Nat
  BY <1>1
<1>4. QED
  BY <1>1, <1>2, <1>3, Mapped DEF Base

\* Two programs have no cell in common ...
LEMMA Apart ==
    ASSUME AddrInv, Layout, NEW t \in Thread, NEW u \in Thread, t # u,
           Loaded(t), Loaded(u), NEW v \in DOMAIN image[t], NEW w \in DOMAIN image[u]
    PROVE  Translate(t, v) # Translate(u, w)
<1>1. /\ v \div PageSize + 1 \in 1 .. Len(pageTable[t])
      /\ Translate(t, v) \div PageSize = pageTable[t][v \div PageSize + 1]
  BY Places
<1>2. /\ w \div PageSize + 1 \in 1 .. Len(pageTable[u])
      /\ Translate(u, w) \div PageSize = pageTable[u][w \div PageSize + 1]
  BY Places
<1>3. pageTable[t][v \div PageSize + 1] # pageTable[u][w \div PageSize + 1]
  BY <1>1, <1>2 DEF AddrInv, FramesInv, TablesDisjoint
<1>4. QED
  BY <1>1, <1>2, <1>3

\* ... and a program has each of its cells once.
LEMMA Once ==
    ASSUME AddrInv, Layout, NEW t \in Thread, Loaded(t),
           NEW v \in DOMAIN image[t], NEW w \in DOMAIN image[t], v # w
    PROVE  Translate(t, v) # Translate(t, w)
<1>1. v \in Nat /\ Base(t) \in Nat /\ Translate(t, v) = Base(t) + v
  BY Places
<1>2. w \in Nat /\ Translate(t, w) = Base(t) + w
  BY Places
<1>3. QED
  BY <1>1, <1>2

\* A step that leaves the tables, memory and the programs in it alone.
LEMMA MemoryKept ==
    ASSUME MemoryHolds, UNCHANGED <<pageTable, mainMemory, image, overwritten>>,
           \A t \in Thread : Loaded(t)' => Loaded(t)
    PROVE  MemoryHolds'
<1>1. \A t \in Thread : \A v : Translate(t, v)' = Translate(t, v)
  BY DEF Translate
<1>2. QED
  BY <1>1 DEF MemoryHolds, Loaded

\* One cell of a program that is in memory gets a new value, in memory and in
\* its image.
LEMMA CellSet ==
    ASSUME AddrInv, Layout, MemoryHolds, NEW t \in Thread, Loaded(t),
           NEW v \in DOMAIN image[t], NEW x,
           mainMemory' = [mainMemory EXCEPT ![Translate(t, v)] = x],
           image' = [image EXCEPT ![t][v] = x],
           UNCHANGED <<pc, pageTable, overwritten>>
    PROVE  MemoryHolds'
<1>1. \A u \in Thread : \A w : Translate(u, w)' = Translate(u, w)
  BY DEF Translate
<1>2. image = [u \in Thread |-> image[u]]
  BY DEF Layout
<1>3. /\ DOMAIN image'[t] = DOMAIN image[t] /\ image'[t][v] = x
      /\ \A w \in DOMAIN image[t] : w # v => image'[t][w] = image[t][w]
      /\ \A u \in Thread : u # t => image'[u] = image[u]
  BY <1>2
<1>4. SUFFICES ASSUME NEW u \in Thread, Loaded(u), NEW w \in DOMAIN image[u],
                      Translate(u, w) \notin overwritten
               PROVE  mainMemory'[Translate(u, w)] = image'[u][w]
  BY <1>1, <1>3 DEF MemoryHolds, Loaded
<1>5. /\ Translate(u, w) \in DOMAIN mainMemory
      /\ Translate(t, v) \in DOMAIN mainMemory
      /\ mainMemory[Translate(u, w)] = image[u][w]
  BY <1>4, Places DEF MemoryHolds, Loaded
<1>6. CASE u = t /\ w = v
  BY <1>3, <1>5, <1>6
<1>7. CASE u = t /\ w # v
  <2>1. Translate(u, w) # Translate(t, v)
    BY <1>4, <1>7, Once
  <2>2. QED
    BY <1>3, <1>4, <1>5, <1>7, <2>1
<1>8. CASE u # t
  <2>1. Translate(u, w) # Translate(t, v)
    BY <1>4, <1>8, Apart
  <2>2. QED
    BY <1>3, <1>4, <1>5, <1>8, <2>1
<1>9. QED
  BY <1>6, <1>7, <1>8

\* A system call fills the cell at v, wherever the program's cell v is: both
\* count as overwritten unless they are the same.
LEMMA CellMisplaced ==
    ASSUME AddrInv, Layout, MemoryHolds, NEW t \in Thread, Loaded(t),
           NEW v \in DOMAIN image[t], NEW x,
           mainMemory' = [mainMemory EXCEPT ![v] = x],
           image' = [image EXCEPT ![t][v] = x],
           overwritten' = overwritten \cup {v, Translate(t, v)},
           UNCHANGED <<pc, pageTable>>
    PROVE  MemoryHolds'
<1>1. \A u \in Thread : \A w : Translate(u, w)' = Translate(u, w)
  BY DEF Translate
<1>2. image = [u \in Thread |-> image[u]]
  BY DEF Layout
<1>3. /\ DOMAIN image'[t] = DOMAIN image[t]
      /\ \A w \in DOMAIN image[t] : w # v => image'[t][w] = image[t][w]
      /\ \A u \in Thread : u # t => image'[u] = image[u]
  BY <1>2
<1>4. SUFFICES ASSUME NEW u \in Thread, Loaded(u), NEW w \in DOMAIN image[u],
                      Translate(u, w) \notin overwritten \cup {v, Translate(t, v)}
               PROVE  mainMemory'[Translate(u, w)] = image'[u][w]
  BY <1>1, <1>3 DEF MemoryHolds, Loaded
<1>5. /\ Translate(u, w) \in DOMAIN mainMemory
      /\ mainMemory[Translate(u, w)] = image[u][w]
  BY <1>4, Places DEF MemoryHolds, Loaded
<1>6. mainMemory'[Translate(u, w)] = mainMemory[Translate(u, w)]
  BY <1>4, <1>5
<1>7. ~(u = t /\ w = v)
  BY <1>4
<1>8. image'[u][w] = image[u][w]
  BY <1>3, <1>4, <1>7
<1>9. QED
  BY <1>5, <1>6, <1>8

-----------------------------------------------------------------------------
(* Loading.                                                                *)

\* The pages of a program are enough for it.
LEMMA PagesEnough ==
    ASSUME NEW n \in Nat \ {0}, NEW s \in Nat \ {0}
    PROVE  n <= divRoundUp(n, s) * s
<1> DEFINE m == n + s - 1
<1>1. m \in Nat /\ s \in Nat
  OBVIOUS
<1>2. m \div s \in Nat /\ m % s < s /\ m % s \in Nat /\ m = (m \div s) * s + (m % s)
  BY <1>1, InPage
<1>3. (m \div s) * s \in Nat
  BY <1>1, <1>2, Distributes
<1> HIDE DEF m
<1>4. n <= (m \div s) * s
  <2>1. m = n + s - 1
    BY DEF m
  <2> DEFINE a == (m \div s) * s
             b == m % s
  <2>2. m = a + b /\ a \in Nat /\ b \in Nat /\ b < s
    BY <1>2, <1>3
  <2> HIDE DEF a, b
  <2>3. n <= a
    BY <2>1, <2>2
  <2>4. QED
    BY <2>3 DEF a
<1>5. QED
  BY <1>4 DEF m, divRoundUp

\* A program has room in its pages, and for its stack after it.
LEMMA ProgramFits ==
    ASSUME NEW t \in Thread, Program[t] # Missing
    PROVE  /\ Program[t].size \in Nat /\ NumPages(t) * PageSize \in Nat
           /\ Program[t].size < NumPages(t) * PageSize
<1>1. /\ Program[t].size \in Nat /\ UserStackSize \in Nat \ {0}
      /\ PageSize \in Nat \ {0} /\ PageSize \in Nat
  BY MemoryAssumption, ProgramAssumption DEF IsImage
<1>2. Program[t].size + UserStackSize \in Nat \ {0}
  BY <1>1
<1>3. Program[t].size + UserStackSize <= NumPages(t) * PageSize
  BY <1>1, <1>2, PagesEnough DEF NumPages
<1>4. NumPages(t) \in Nat
  BY NumPagesPositive
<1>5. NumPages(t) * PageSize \in Nat
  BY <1>1, <1>4, Distributes
<1>6. QED
  BY <1>1, <1>3, <1>5

\* What NoffHeader says of a segment is within the program.
LEMMA SegmentFits ==
    ASSUME NEW t \in Thread, Program[t] # Missing, NEW i \in DOMAIN Segments(t)
    PROVE  /\ Segments(t)[i].virtualAddr \in Nat
           /\ Segments(t)[i].size \in Nat \ {0}
           /\ Segments(t)[i].virtualAddr + Segments(t)[i].size <= Program[t].size
<1>1. /\ Program[t].segments \in Seq(Segment)
      /\ \A j \in DOMAIN Program[t].segments :
            Program[t].segments[j].virtualAddr + Program[t].segments[j].size
               <= Program[t].size
  BY ProgramAssumption DEF IsImage
<1>2. Program[t].segments[i] \in Segment
  BY <1>1 DEF Segments
<1>3. QED
  BY <1>1, <1>2 DEF Segments, Segment

\* Where the cells of every program are, for use after a step.
Placed ==
    \A t \in Thread : Loaded(t) => \A v \in DOMAIN image[t] :
      /\ Translate(t, v) \in DOMAIN mainMemory
      /\ v \div PageSize + 1 \in 1 .. Len(pageTable[t])
      /\ Translate(t, v) \div PageSize = pageTable[t][v \div PageSize + 1]

LEMMA PlacedAlways == AddrInv /\ Layout => Placed
BY Places DEF Placed

\* Load zeroes the new frames: the new program finds zeros in all of its
\* cells, and the other programs lose none of theirs.
LEMMA BeginHolds ==
    ASSUME AddrInv, Layout, MemoryHolds, LoadBegin, AddrInv', Layout'
    PROVE  MemoryHolds'
<1>0. PICK t \in Thread : t = currentThread
  BY ThreadAssumption DEF LoadBegin, At, AddrInv, RunInv
<1> DEFINE table == Allocate(NumPages(t)).table
<1>1. /\ pc[t] = "begun"
      /\ pageTable' = [pageTable EXCEPT ![t] = table]
      /\ mainMemory' = [a \in DOMAIN mainMemory |->
            IF InFrames(a, table) THEN Zero ELSE mainMemory[a]]
      /\ image' = [image EXCEPT ![t] =
                     [v \in 0 .. NumPages(t) * PageSize - 1 |-> Zero]]
      /\ pc' = [pc EXCEPT ![t] = "loading"]
      /\ overwritten' = overwritten
  BY <1>0, ThreadAssumption DEF LoadBegin, At, AddrInv, RunInv
<1> HIDE DEF table
<1>2. /\ pc \in [Thread -> {"new", "begun", "loading", "user", "finished"}]
      /\ pageTable \in [Thread -> Seq(Nat)]
      /\ image = [u \in Thread |-> image[u]]
  BY DEF AddrInv, RunInv, FramesInv, TablesInOrder, Layout
<1>3. /\ pc'[t] = "loading" /\ pageTable'[t] = table
      /\ image'[t] = [v \in 0 .. NumPages(t) * PageSize - 1 |-> Zero]
      /\ \A u \in Thread : u # t => /\ pc'[u] = pc[u]
                                    /\ pageTable'[u] = pageTable[u]
                                    /\ image'[u] = image[u]
  BY <1>1, <1>2
<1>4. Placed'
  <2>1. AddrInv' /\ Layout' => Placed'
    BY PlacedAlways, PTL
  <2>2. QED
    BY <2>1
<1>5. \A u \in Thread : Loaded(u)' => \A v \in DOMAIN image'[u] :
         /\ Translate(u, v)' \in DOMAIN mainMemory'
         /\ v \div PageSize + 1 \in 1 .. Len(pageTable'[u])
         /\ Translate(u, v)' \div PageSize = pageTable'[u][v \div PageSize + 1]
  BY <1>4 DEF Placed
<1>6. \A u \in Thread : \A v : u # t => Translate(u, v)' = Translate(u, v)
  BY <1>3 DEF Translate
<1>7. ASSUME NEW v \in DOMAIN image'[t]
      PROVE  mainMemory'[Translate(t, v)'] = image'[t][v]
  <2>1. Loaded(t)'
    BY <1>3 DEF Loaded
  <2>2. /\ Translate(t, v)' \in DOMAIN mainMemory'
        /\ v \div PageSize + 1 \in 1 .. Len(table)
        /\ Translate(t, v)' \div PageSize = table[v \div PageSize + 1]
    BY <1>1, <1>3, <1>5, <1>7, <2>1
  <2>3. DOMAIN table = 1 .. Len(table)
    BY <1>1, <1>3, LenProperties DEF AddrInv, FramesInv, TablesInOrder
  <2>4. InFrames(Translate(t, v)', table)
    BY <2>2, <2>3 DEF InFrames
  <2>5. mainMemory'[Translate(t, v)'] = Zero
    BY <1>1, <2>2, <2>4
  <2>6. QED
    BY <1>3, <1>7, <2>5
<1>8. ASSUME NEW u \in Thread, u # t, Loaded(u)', NEW v \in DOMAIN image'[u],
             Translate(u, v)' \notin overwritten'
      PROVE  mainMemory'[Translate(u, v)'] = image'[u][v]
  <2>1. Loaded(u) /\ v \in DOMAIN image[u] /\ Translate(u, v)' = Translate(u, v)
        /\ image'[u][v] = image[u][v]
    BY <1>3, <1>6, <1>8 DEF Loaded
  <2>2. mainMemory[Translate(u, v)] = image[u][v]
    BY <1>1, <1>8, <2>1 DEF MemoryHolds, Loaded
  <2>3. /\ Translate(u, v)' \in DOMAIN mainMemory'
        /\ v \div PageSize + 1 \in 1 .. Len(pageTable'[u])
        /\ Translate(u, v)' \div PageSize = pageTable'[u][v \div PageSize + 1]
    BY <1>5, <1>8
  <2>4. DOMAIN table = 1 .. Len(table)
    BY <1>1, <1>3, LenProperties DEF AddrInv, FramesInv, TablesInOrder
  <2>5. \A i \in 1 .. Len(pageTable'[u]), j \in 1 .. Len(table) :
           pageTable'[u][i] # table[j]
    BY <1>1, <1>3, <1>8 DEF AddrInv, FramesInv, TablesDisjoint
  <2>6. ~InFrames(Translate(u, v)', table)
    BY <2>3, <2>4, <2>5 DEF InFrames
  <2>7. mainMemory'[Translate(u, v)'] = mainMemory[Translate(u, v)']
    BY <1>1, <2>3, <2>6
  <2>8. QED
    BY <2>1, <2>2, <2>7
<1>9. \A u \in Thread : Loaded(u)' => \A v \in DOMAIN image'[u] :
         Translate(u, v)' \notin overwritten'
           => mainMemory'[Translate(u, v)'] = image'[u][v]
  BY <1>7, <1>8
<1>10. QED
  BY <1>9 DEF MemoryHolds, Loaded

\* A chunk is read to where the first of its bytes is; the others follow it in
\* the program's frames, into the next page too.
LEMMA ChunkHolds ==
    ASSUME AddrInv, Layout, LoadInOrder, MemoryHolds, LoadChunk
    PROVE  MemoryHolds'
<1>1. PICK t \in Thread : t = currentThread
  BY ThreadAssumption DEF LoadChunk, At, AddrInv, RunInv
<1> DEFINE s == Segments(t)[segment]
           v == s.virtualAddr + offset
           len == IF offset + PageSize < s.size THEN PageSize ELSE s.size - offset
           paddr == Translate(t, v)
<1>2. /\ pc[t] = "loading" /\ segment \in DOMAIN Segments(t)
      /\ mainMemory' = [a \in DOMAIN mainMemory |->
            IF a \in paddr .. paddr + len - 1
            THEN Cell(t, v + a - paddr) ELSE mainMemory[a]]
      /\ image' = [image EXCEPT ![t] = [w \in DOMAIN image[t] |->
            IF w \in v .. v + len - 1 THEN Cell(t, w) ELSE image[t][w]]]
      /\ pc' = pc /\ pageTable' = pageTable /\ overwritten' = overwritten
  BY <1>1 DEF LoadChunk, At
<1>3. /\ Program[t] # Missing /\ Loaded(t)
      /\ DOMAIN image[t] = 0 .. NumPages(t) * PageSize - 1
      /\ image = [u \in Thread |-> image[u]]
  BY <1>2 DEF Layout, Loaded
<1>4. /\ s.virtualAddr \in Nat /\ s.size \in Nat \ {0}
      /\ s.virtualAddr + s.size <= Program[t].size
  BY <1>2, <1>3, SegmentFits
<1>5. offset \in Nat /\ offset < s.size
  BY <1>1, <1>2 DEF LoadInOrder, At, LoadChunk
<1>6. PageSize \in Nat \ {0}
  BY MemoryAssumption
<1> HIDE DEF s
<1>7. v \in Nat /\ len \in Nat \ {0} /\ v + len <= Program[t].size
  <2>1. Program[t].size \in Nat
    BY <1>3, ProgramFits
  <2>2. len \in Nat \ {0} /\ offset + len <= s.size
    BY <1>4, <1>5, <1>6
  <2> HIDE DEF len
  <2>3. QED
    BY <1>4, <1>5, <2>1, <2>2
<1> HIDE DEF v, len
<1>8. \A w \in v .. v + len - 1 : w \in DOMAIN image[t]
  <2> DEFINE top == NumPages(t) * PageSize
  <2>1. Program[t].size \in Nat /\ top \in Nat /\ Program[t].size < top
    BY <1>3, ProgramFits
  <2> HIDE DEF top
  <2>2. \A w \in v .. v + len - 1 : w \in 0 .. top - 1
    BY <1>7, <2>1
  <2>3. QED
    BY <1>3, <2>2 DEF top
<1>9. v \in v .. v + len - 1
  BY <1>7
<1>10. Base(t) \in Nat /\ paddr = Base(t) + v
  BY <1>3, <1>8, <1>9, Places
<1>11. \A w \in DOMAIN image[t] : w \in Nat /\ Translate(t, w) = Base(t) + w
                                  /\ Translate(t, w) \in DOMAIN mainMemory
  BY <1>3, Places
<1> HIDE DEF paddr
<1>12. /\ DOMAIN image'[t] = DOMAIN image[t]
       /\ \A w \in DOMAIN image[t] : image'[t][w] =
             IF w \in v .. v + len - 1 THEN Cell(t, w) ELSE image[t][w]
       /\ \A u \in Thread : u # t => image'[u] = image[u]
  BY <1>2, <1>3
<1>13. \A u \in Thread : \A w : Translate(u, w)' = Translate(u, w)
  BY <1>2 DEF Translate
<1>14. SUFFICES ASSUME NEW u \in Thread, Loaded(u), NEW w \in DOMAIN image[u],
                       Translate(u, w) \notin overwritten
                PROVE  mainMemory'[Translate(u, w)] = image'[u][w]
  <2>1. \A u \in Thread : DOMAIN image'[u] = DOMAIN image[u]
    BY <1>12
  <2>2. QED
    BY <1>2, <1>13, <1>14, <2>1 DEF MemoryHolds, Loaded
<1>15. /\ Translate(u, w) \in DOMAIN mainMemory
       /\ mainMemory[Translate(u, w)] = image[u][w]
  BY <1>14, Places DEF MemoryHolds, Loaded
<1>16. CASE u = t
  <2>1. w \in Nat /\ Translate(t, w) = Base(t) + w
    BY <1>11, <1>14, <1>16
  <2>2. Translate(t, w) \in paddr .. paddr + len - 1 <=> w \in v .. v + len - 1
    BY <1>7, <1>10, <2>1
  <2>3. v + Translate(t, w) - paddr = w
    BY <1>7, <1>10, <2>1
  <2>4. CASE w \in v .. v + len - 1
    BY <1>2, <1>12, <1>14, <1>15, <1>16, <2>2, <2>3, <2>4
  <2>5. CASE w \notin v .. v + len - 1
    BY <1>2, <1>12, <1>14, <1>15, <1>16, <2>2, <2>5
  <2>6. QED
    BY <2>4, <2>5
<1>17. CASE u # t
  <2>1. Translate(u, w) \notin paddr .. paddr + len - 1
    <3> SUFFICES ASSUME Translate(u, w) \in paddr .. paddr + len - 1 PROVE FALSE
      OBVIOUS
    <3> DEFINE x == Translate(u, w) - Base(t)
    <3>1. x \in v .. v + len - 1 /\ Translate(u, w) = Base(t) + x
      BY <1>7, <1>10
    <3> HIDE DEF x
    <3>2. x \in DOMAIN image[t] /\ Translate(t, x) = Base(t) + x
      BY <1>8, <1>11, <3>1
    <3>3. Translate(t, x) # Translate(u, w)
      BY <1>3, <1>14, <1>17, <3>2, Apart
    <3>4. QED
      BY <3>1, <3>2, <3>3
  <2>2. mainMemory'[Translate(u, w)] = mainMemory[Translate(u, w)]
    BY <1>2, <1>15, <2>1
  <2>3. QED
    BY <1>12, <1>15, <1>17, <2>2
<1>18. QED
  BY <1>16, <1>17

-----------------------------------------------------------------------------
\* Memory keeps its size, and an image that of its page table.
LEMMA LayoutKept ==
    ASSUME Layout, UNCHANGED pageTable,
           DOMAIN mainMemory' = DOMAIN mainMemory,
           image' = [t \in Thread |-> image'[t]],
           \A t \in Thread : /\ Loaded(t)' => Loaded(t)
                             /\ DOMAIN image'[t] = DOMAIN image[t]
    PROVE  Layout'
BY DEF Layout, Loaded, NumPages

\* Nothing is loaded after the step.
LEMMA NotLoading ==
    ASSUME LoadInOrder, segment' \in Nat, offset' \in Nat, ~At("loading")'
    PROVE  LoadInOrder'
BY DEF LoadInOrder

\* No program is in memory at first.
LEMMA MemInit == Init => MemInv
<1> SUFFICES ASSUME Init PROVE MemInv
  OBVIOUS
<1>1. \A t \in Thread : ~Loaded(t)
  BY DEF Init, Loaded
<1>2. Layout
  BY <1>1 DEF Init, Layout
<1>3. LoadInOrder
  BY DEF Init, LoadInOrder, At
<1>4. MemoryHolds
  BY <1>1 DEF MemoryHolds, Loaded
<1>5. QED
  BY <1>2, <1>3, <1>4 DEF MemInv

\* A step that moves no program into memory and changes neither memory nor
\* what the programs in it should find there.
LEMMA StillHolds ==
    ASSUME MemInv, UNCHANGED <<pageTable, mainMemory, image, overwritten>>,
           \A t \in Thread : Loaded(t)' => Loaded(t)
    PROVE  Layout' /\ MemoryHolds'
<1>1. image' = [t \in Thread |-> image'[t]]
  BY DEF MemInv, Layout
<1>2. QED
  BY <1>1, LayoutKept, MemoryKept DEF MemInv

\* Every step keeps memory and the programs' images in agreement.
LEMMA MemNext == AddrInv /\ AddrInv' /\ MemInv /\ [Next]_vars => MemInv'
<1> SUFFICES ASSUME AddrInv, AddrInv', MemInv, [Next]_vars PROVE MemInv'
  OBVIOUS
<1>1. /\ Layout /\ LoadInOrder /\ MemoryHolds /\ NoThread \notin Thread
      /\ pc \in [Thread -> {"new", "begun", "loading", "user", "finished"}]
      /\ segment \in Nat /\ offset \in Nat
      /\ currentThread \in Thread \cup {NoThread}
      /\ image = [t \in Thread |-> image[t]]
  BY ThreadAssumption DEF MemInv, Layout, LoadInOrder, AddrInv, RunInv
<1>2. ASSUME NEW t \in Thread, Run(t) PROVE MemInv'
  <2>1. /\ pc[t] \in {"new", "begun", "user"}
        /\ pc' = [pc EXCEPT ![t] = IF pc[t] = "new" THEN "begun" ELSE pc[t]]
        /\ currentThread' = t
        /\ UNCHANGED <<pageTable, mainMemory, image, overwritten, segment, offset>>
    BY <1>2 DEF Run, tables, ghost, load
  <2>2. \A u \in Thread : Loaded(u)' => Loaded(u)
    BY <1>1, <2>1 DEF Loaded
  <2>3. ~At("loading")'
    BY <1>1, <2>1 DEF At
  <2>4. LoadInOrder'
    BY <1>1, <2>1, <2>3, NotLoading
  <2>5. QED
    BY <2>1, <2>2, <2>4, StillHolds DEF MemInv
<1>3. ASSUME Leaves(currentThread), At("begun") \/ At("user"),
             UNCHANGED <<tables, mainMemory, load, ghost>>
      PROVE  MemInv'
  <2>1. \A u \in Thread : Loaded(u)' => Loaded(u)
    BY <1>1, <1>3 DEF Leaves, Loaded, At
  <2>2. LoadInOrder'
    BY <1>1, <1>3, NotLoading DEF Leaves, At, load
  <2>3. QED
    BY <1>3, <2>1, <2>2, StillHolds DEF MemInv, tables, ghost
<1>4. CASE LoadBegin
  <2>1. PICK t \in Thread : t = currentThread
    BY <1>1, <1>4 DEF LoadBegin, At
  <2> DEFINE new == Allocate(NumPages(t))
             top == NumPages(t) * PageSize - 1
  <2>2. /\ pc[t] = "begun" /\ Program[t] # Missing
        /\ pageTable' = [pageTable EXCEPT ![t] = new.table]
        /\ mainMemory' = [a \in DOMAIN mainMemory |->
              IF InFrames(a, new.table) THEN Zero ELSE mainMemory[a]]
        /\ image' = [image EXCEPT ![t] = [v \in 0 .. top |-> Zero]]
        /\ pc' = [pc EXCEPT ![t] = "loading"]
        /\ currentThread' = t /\ segment' = 1 /\ offset' = 0
        /\ NumPages(t) <= Len(available)
    BY <1>1, <1>4, <2>1 DEF LoadBegin, At
  <2>3. Len(new.table) = NumPages(t)
    <3>1. NumPages(t) \in Nat \ {0}
      BY <2>2, NumPagesPositive
    <3>2. QED
      BY <2>2, <3>1, AllocateInOrder DEF AddrInv, FramesInv
  <2> HIDE DEF new, top
  <2>4. /\ pc'[t] = "loading" /\ pageTable'[t] = new.table
        /\ image'[t] = [v \in 0 .. top |-> Zero]
        /\ \A u \in Thread : u # t => /\ pc'[u] = pc[u]
                                      /\ pageTable'[u] = pageTable[u]
                                      /\ image'[u] = image[u]
    BY <1>1, <2>2 DEF AddrInv, FramesInv, TablesInOrder
  <2>5. image' = [u \in Thread |-> image'[u]]
    BY <1>1, <2>2
  <2>6. DOMAIN mainMemory' = DOMAIN mainMemory
    BY <2>2
  <2>7. ASSUME NEW u \in Thread, Loaded(u)'
        PROVE  /\ Program[u] # Missing
               /\ Len(pageTable'[u]) = NumPages(u)
               /\ DOMAIN image'[u] = 0 .. NumPages(u) * PageSize - 1
    <3>1. CASE u = t
      BY <2>2, <2>3, <2>4, <3>1 DEF top
    <3>2. CASE u # t
      BY <1>1, <2>4, <2>7, <3>2 DEF Layout, Loaded
    <3>3. QED
      BY <3>1, <3>2
  <2>8. Layout'
    <3>1. \A u \in Thread : NumPages(u)' = NumPages(u)
      BY DEF NumPages
    <3>2. QED
      BY <1>1, <2>5, <2>6, <2>7, <3>1 DEF Layout
  <2>9. LoadInOrder'
    <3>1. segment' \in DOMAIN Segments(t) => offset' < Segments(t)[segment'].size
      BY <2>2, SegmentFits
    <3>2. QED
      BY <1>1, <2>2, <3>1 DEF LoadInOrder, Segments
  <2>10. MemoryHolds'
    BY <1>1, <1>4, <2>8, BeginHolds
  <2>11. QED
    BY <2>8, <2>9, <2>10 DEF MemInv
<1>5. CASE LoadChunk
  <2>1. PICK t \in Thread : t = currentThread
    BY <1>1, <1>5 DEF LoadChunk, At
  <2> DEFINE s == Segments(t)[segment]
  <2>2. /\ pc[t] = "loading" /\ Program[t] # Missing
        /\ segment \in DOMAIN Segments(t)
        /\ UNCHANGED <<pc, currentThread, pageTable>>
        /\ NextChunk(s)
        /\ DOMAIN mainMemory' = DOMAIN mainMemory
    BY <1>1, <1>5, <2>1 DEF LoadChunk, At, Layout, Loaded
  <2>3. /\ \A u \in Thread : DOMAIN image'[u] = DOMAIN image[u]
        /\ image' = [u \in Thread |-> image'[u]]
    <3>1. PICK f : image' = [image EXCEPT ![t] = [w \in DOMAIN image[t] |-> f[w]]]
      <4> DEFINE v == s.virtualAddr + offset
                 n == IF offset + PageSize < s.size THEN PageSize ELSE s.size - offset
                 f == [w \in DOMAIN image[t] |->
                         IF w \in v .. v + n - 1 THEN Cell(t, w) ELSE image[t][w]]
      <4>1. image' = [image EXCEPT ![t] = f]
        BY <1>5, <2>1 DEF LoadChunk
      <4> HIDE DEF v, n
      <4>2. f = [w \in DOMAIN image[t] |-> f[w]]
        OBVIOUS
      <4> HIDE DEF f
      <4>3. QED
        BY <4>1, <4>2
    <3>2. QED
      BY <1>1, <3>1
  <2>4. Layout'
    BY <1>1, <2>2, <2>3, LayoutKept DEF Loaded
  <2>5. LoadInOrder'
    <3>1. /\ segment' \in Nat /\ offset' \in Nat
          /\ segment' = segment => offset' = offset \/ offset' < s.size
          /\ segment' # segment => offset' = 0
      BY <1>1, <2>2, SegmentFits, MemoryAssumption DEF NextChunk
    <3>2. QED
      BY <1>1, <2>1, <2>2, <3>1, SegmentFits DEF LoadInOrder, Segments, At
  <2>6. QED
    BY <1>1, <1>5, <2>4, <2>5, ChunkHolds DEF MemInv
<1>6. CASE Execute
  <2>1. /\ \A u \in Thread : Loaded(u)' => Loaded(u)
        /\ UNCHANGED <<pageTable, mainMemory, image, overwritten>>
    BY <1>1, <1>6 DEF Execute, At, Loaded, tables, ghost
  <2>2. LoadInOrder'
    BY <1>1, <1>6, NotLoading DEF Execute, At
  <2>3. QED
    BY <2>1, <2>2, StillHolds DEF MemInv
<1>7. ASSUME ~At("loading") \/ UNCHANGED vars,
             UNCHANGED <<pc, currentThread, pageTable, mainMemory, load, ghost>>
      PROVE  MemInv'
  <2>1. \A u \in Thread : Loaded(u)' => Loaded(u)
    BY <1>7 DEF Loaded
  <2>2. LoadInOrder'
    BY <1>1, <1>7 DEF LoadInOrder, Segments, At, load
  <2>3. QED
    BY <1>7, <2>1, <2>2, StillHolds DEF MemInv, ghost
<1>8. ASSUME NEW v, WriteMem(v) \/ SysRead(v) PROVE MemInv'
  <2>1. PICK t \in Thread : t = currentThread
    BY <1>1, <1>8 DEF WriteMem, SysRead, InUser, At
  <2>2. /\ pc[t] = "user" /\ v \in DOMAIN image[t]
        /\ UNCHANGED <<pc, currentThread, pageTable, segment, offset>>
        /\ machineTable = t
        /\ DOMAIN mainMemory' = DOMAIN mainMemory
    BY <1>1, <1>8, <2>1
       DEF WriteMem, SysRead, InUser, At, Variables, tables, load, AddrInv, RunInv
  <2>3. /\ \A u \in Thread : DOMAIN image'[u] = DOMAIN image[u]
        /\ image' = [u \in Thread |-> image'[u]]
    <3>1. PICK x : image' = [image EXCEPT ![t][v] = x]
      BY <1>8, <2>1 DEF WriteMem, SysRead
    <3>2. QED
      BY <1>1, <3>1
  <2>4. Layout'
    BY <1>1, <2>2, <2>3, LayoutKept DEF Loaded
  <2>5. LoadInOrder'
    BY <1>1, <2>1, <2>2, NotLoading DEF At
  <2>6. Loaded(t)
    BY <2>2 DEF Loaded
  <2>7. CASE WriteMem(v)
    <3>1. /\ mainMemory' = [mainMemory EXCEPT ![Translate(t, v)] = Stored(t, v)]
          /\ image' = [image EXCEPT ![t][v] = Stored(t, v)]
          /\ overwritten' = overwritten
      BY <2>1, <2>2, <2>7 DEF WriteMem
    <3>2. MemoryHolds'
      BY <1>1, <2>2, <2>6, <3>1, CellSet
    <3>3. QED
      BY <2>4, <2>5, <3>2 DEF MemInv
  <2>8. CASE SysRead(v)
    <3>1. /\ mainMemory' = [mainMemory EXCEPT ![v] = Input(t, v)]
          /\ image' = [image EXCEPT ![t][v] = Input(t, v)]
          /\ overwritten' = overwritten \cup
                IF Translate(t, v) = v THEN {} ELSE {v, Translate(t, v)}
      BY <2>1, <2>8 DEF SysRead
    <3>2. CASE Translate(t, v) = v
      <4>1. overwritten' = overwritten
        BY <3>1, <3>2
      <4>2. MemoryHolds'
        BY <1>1, <2>2, <2>6, <3>1, <3>2, <4>1, CellSet
      <4>3. QED
        BY <2>4, <2>5, <4>2 DEF MemInv
    <3>3. CASE Translate(t, v) # v
      <4>1. MemoryHolds'
        BY <1>1, <2>2, <2>6, <3>1, <3>3, CellMisplaced
      <4>2. QED
        BY <2>4, <2>5, <4>1 DEF MemInv
    <3>4. QED
      BY <3>2, <3>3
  <2>9. QED
    BY <1>8, <2>7, <2>8
<1>9. CASE LoadMissing
  BY <1>3, <1>9 DEF LoadMissing
<1>10. CASE LoadExhausted
  BY <1>7, <1>10 DEF LoadExhausted, Aborts, At, tables
<1>11. ASSUME NEW v, WriteFaults(v) PROVE MemInv'
  BY <1>7, <1>11 DEF WriteFaults, Aborts, InUser, At, tables
<1>12. CASE Finish
  BY <1>3, <1>12 DEF Finish, InUser
<1>13. CASE UNCHANGED vars
  BY <1>7, <1>13 DEF vars, tables
<1>14. QED
  BY <1>2, <1>4, <1>5, <1>6, <1>8, <1>9, <1>10, <1>11, <1>12, <1>13 DEF Next

\* A program finds in its memory what was loaded and what it stored, for any
\* programs, page size and memory, but for the cells that a system call has
\* misplaced: chunks land in the program's own frames, and no other program's
\* load or store reaches them.
THEOREM MemoryIsKept == Spec => []MemoryHolds
<1>1. Init => AddrInv /\ MemInv
  BY AddrInit, MemInit
<1>2. AddrInv /\ MemInv /\ [Next]_vars => (AddrInv /\ MemInv)'
  BY AddrNext, MemNext
<1>3. MemInv => MemoryHolds
  BY DEF MemInv
<1>4. QED
  BY <1>1, <1>2, <1>3, PTL DEF Spec
=============================================================================
