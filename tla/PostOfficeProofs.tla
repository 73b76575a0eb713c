--------------------------- MODULE PostOfficeProofs --------------------------
(***************************************************************************)
(* For any machines, threads, mailboxes and calls, and however often       *)
(* machines are stopped and started: the semaphores of a machine count     *)
(* what they stand for, and mail is lost or delivered once and in order.   *)
(***************************************************************************)
EXTENDS PostOffice, FiniteSetTheorems, SequenceTheorems, TLAPS

-----------------------------------------------------------------------------
(* The inductive invariant.                                                *)

AllMail == [from : User, no : Nat, to : Machine, box : Box]

\* Where a thread has the semaphore of the send lock of its machine.
Inside == {"send.packet", "send.wait", "send.disown", "send.unlock"}
UserPlace == {"idle", "send.acquire", "receive.get"} \cup Inside
WorkerPlace == {"idle", "worker.wait", "worker.receive", "worker.put"}

TypeInv ==
    /\ sem \in [Semaphore -> [value : Nat, queue : Seq(Thread)]]
    /\ pc \in [Thread -> UserPlace \cup WorkerPlace]
    /\ \A t \in User : pc[t] \in UserPlace
    /\ \A m \in Machine : pc[Worker[m]] \in WorkerPlace
    /\ up \in [Machine -> BOOLEAN]
    /\ socket \in [Machine -> Seq(AllMail)]
    /\ inbox \in [Machine -> AllMail \cup {NoMail}]
    /\ desk \in [Machine -> AllMail \cup {NoMail}]
    /\ boxes \in [Machine -> [Box -> Seq(AllMail)]]
    /\ sendDue \in [Machine -> Nat]
    /\ sent \subseteq AllMail /\ lost \subseteq sent
    /\ taken \in [Machine -> Seq(AllMail)]

\* The calls a thread has still to make, and the mail it is sending, have
\* higher numbers than the mail it has sent.
CallInv ==
    /\ cur = [t \in Thread |-> cur[t]]
    /\ DOMAIN todo = User
    /\ \A t \in User :
          /\ todo[t] \in Seq(CallOf(t)) /\ Numbered(todo[t])
          /\ pc[t] = "receive.get" => cur[t].box \in Box
          /\ pc[t] \in {"send.acquire", "send.packet"} =>
                /\ cur[t] \in MailFrom(t)
                /\ \A i \in DOMAIN todo[t] :
                      todo[t][i].op = "Send" => cur[t].no < todo[t][i].arg.no
                /\ \A x \in sent : x.from = t => x.no < cur[t].no
          /\ \A x \in sent : x.from = t =>
                \A i \in DOMAIN todo[t] :
                   todo[t][i].op = "Send" => x.no < todo[t][i].arg.no

Calls(m)  == sem[Available(m)].value
Done(m)   == sem[Sent(m)].value
Free(m)   == sem[SendLock(m)].value
Sender(m) == {t \in User : Home[t] = m /\ pc[t] \in Inside}

\* One thread of a machine sends at a time.
LockInv(m) ==
    /\ Free(m) \in {0, 1}
    /\ Sender(m) # {} => Free(m) = 0
    /\ \A t, u \in Sender(m) : t = u

\* The worker is called for the packet in the device, if there is one; it runs
\* on machines that are up.
DeviceInv(m) ==
    /\ Calls(m) + (IF pc[Worker[m]] = "worker.receive" THEN 1 ELSE 0)
          = IF inbox[m] = NoMail THEN 0 ELSE 1
    /\ pc[Worker[m]] = "worker.put" => desk[m] # NoMail
    /\ ~ up[m] => pc[Worker[m]] = "idle"

\* An interrupt is pending, or its signal is there, for the thread that waits.
SentInv(m) ==
    /\ sendDue[m] + Done(m) \in {0, 1}
    /\ sendDue[m] + Done(m) = 1 <=> \E t \in User : Home[t] = m /\ pc[t] = "send.wait"

SignalInv == \A m \in Machine : LockInv(m) /\ DeviceInv(m) /\ SentInv(m)

PostInv == TypeInv /\ CallInv /\ SignalInv /\ InOrderOrLost

-----------------------------------------------------------------------------
(* Semaphores.                                                             *)

\* Each machine has its own three.
LEMMA Names ==
    /\ \A m \in Machine : /\ Available(m) \in Semaphore /\ Sent(m) \in Semaphore
                          /\ SendLock(m) \in Semaphore
    /\ \A m, n \in Machine :
          /\ Available(m) # Sent(n) /\ Available(m) # SendLock(n) /\ Sent(m) # SendLock(n)
          /\ m # n => /\ Available(m) # Available(n) /\ Sent(m) # Sent(n)
                      /\ SendLock(m) # SendLock(n)
BY DEF Available, Sent, SendLock, Semaphore, Lock

\* The workers are no users, and each machine has its own.
LEMMA Workers ==
    /\ \A m \in Machine : Worker[m] \in Thread /\ Worker[m] \notin User
    /\ \A m, n \in Machine : m # n => Worker[m] # Worker[n]
    /\ \A t \in User : t \in Thread /\ Home[t] \in Machine
BY PostAssumption DEF User

\* What V and P make of a semaphore.
LEMMA UpType ==
    ASSUME NEW s \in [value : Nat, queue : Seq(Thread)]
    PROVE  Up(s) \in [value : Nat, queue : Seq(Thread)] /\ Up(s).value = s.value + 1
<1>1. s.queue \in Seq(Thread) /\ s.value \in Nat
  OBVIOUS
<1>2. (IF s.queue = <<>> THEN <<>> ELSE Tail(s.queue)) \in Seq(Thread)
  BY <1>1
<1>3. QED
  BY <1>1, <1>2 DEF Up

\* P takes one, if there is one, or queues the thread.
LEMMA DownType ==
    ASSUME NEW s \in [value : Nat, queue : Seq(Thread)], NEW t \in Thread
    PROVE  /\ Down(s, t) \in [value : Nat, queue : Seq(Thread)]
           /\ Down(s, t).value = IF s.value = 0 THEN 0 ELSE s.value - 1
<1>1. s.queue \in Seq(Thread) /\ s.value \in Nat /\ Append(s.queue, t) \in Seq(Thread)
  OBVIOUS
<1>2. CASE s.value = 0
  BY <1>1, <1>2 DEF Down
<1>3. CASE s.value # 0
  <2>1. s.value - 1 \in Nat
    BY <1>1, <1>3
  <2>2. QED
    BY <1>1, <1>3, <2>1 DEF Down
<1>4. QED
  BY <1>2, <1>3

\* V adds one to a semaphore, and moves no thread.
LEMMA VPosts ==
    ASSUME TypeInv, NEW name \in Semaphore, V(name)
    PROVE  /\ sem' \in [Semaphore -> [value : Nat, queue : Seq(Thread)]]
           /\ sem'[name].value = sem[name].value + 1
           /\ \A s \in Semaphore : s # name => sem'[s] = sem[s]
<1>1. sem' = [sem EXCEPT ![name] = Up(sem[name])]
  BY DEF V
<1>2. sem[name] \in [value : Nat, queue : Seq(Thread)]
  BY DEF TypeInv
<1>3. QED
  BY <1>1, <1>2, UpType DEF TypeInv

\* P takes one and goes on, or waits.
LEMMA PTakes ==
    ASSUME TypeInv, NEW t \in Thread, NEW name \in Semaphore, NEW next, P(t, name, next)
    PROVE  /\ sem' \in [Semaphore -> [value : Nat, queue : Seq(Thread)]]
           /\ \A s \in Semaphore : s # name => sem'[s] = sem[s]
           /\ \/ sem[name].value = 0 /\ sem'[name].value = 0 /\ pc' = pc
              \/ /\ sem[name].value # 0 /\ sem'[name].value = sem[name].value - 1
                 /\ pc' = [pc EXCEPT ![t] = next]
<1>1. /\ Down(sem[name], t) \in [value : Nat, queue : Seq(Thread)]
      /\ Down(sem[name], t).value = IF sem[name].value = 0 THEN 0 ELSE sem[name].value - 1
  BY DownType DEF TypeInv
<1>2. /\ sem' = [sem EXCEPT ![name] = Down(sem[name], t)]
      /\ pc' = IF sem[name].value = 0 THEN pc ELSE [pc EXCEPT ![t] = next]
  BY DEF P
<1>3. QED
  BY <1>1, <1>2 DEF TypeInv

\* A lock's semaphore starts at one, the others at zero.
LEMMA Initial ==
    \A s \in Semaphore : /\ InitialSemaphore(s) \in [value : Nat, queue : Seq(Thread)]
                         /\ InitialSemaphore(s).value = IF s \in Lock THEN 1 ELSE 0
BY DEF InitialSemaphore, NewSemaphore

-----------------------------------------------------------------------------
(* Threads.                                                                *)

\* The thread that a step moves, from its code to its code.
Moves(t, p) == pc' = [pc EXCEPT ![t] = p]

\* A user has its new place, and all other threads the old ones.
LEMMA UserMoves ==
    ASSUME TypeInv, NEW t \in User, NEW p \in UserPlace, Moves(t, p)
    PROVE  /\ pc' \in [Thread -> UserPlace \cup WorkerPlace]
           /\ \A u \in User : pc'[u] \in UserPlace
           /\ \A m \in Machine : pc'[Worker[m]] \in WorkerPlace
           /\ \A m \in Machine : pc'[Worker[m]] = pc[Worker[m]]
           /\ pc'[t] = p /\ \A u \in User : u # t => pc'[u] = pc[u]
BY Workers DEF TypeInv, Moves

\* So it is with a worker.
LEMMA WorkerMoves ==
    ASSUME TypeInv, NEW m \in Machine, NEW p \in WorkerPlace, Moves(Worker[m], p)
    PROVE  /\ pc' \in [Thread -> UserPlace \cup WorkerPlace]
           /\ \A u \in User : pc'[u] \in UserPlace
           /\ \A n \in Machine : pc'[Worker[n]] \in WorkerPlace
           /\ \A n \in Machine : n # m => pc'[Worker[n]] = pc[Worker[n]]
           /\ pc'[Worker[m]] = p /\ \A u \in User : pc'[u] = pc[u]
BY Workers DEF TypeInv, Moves

-----------------------------------------------------------------------------
(* Types.                                                                  *)

\* The parts of TypeInv that hold of the semaphores and places, and of mail.
Places == /\ sem \in [Semaphore -> [value : Nat, queue : Seq(Thread)]]
          /\ pc \in [Thread -> UserPlace \cup WorkerPlace]
          /\ \A t \in User : pc[t] \in UserPlace
          /\ \A m \in Machine : pc[Worker[m]] \in WorkerPlace

Mails == /\ socket \in [Machine -> Seq(AllMail)]
         /\ inbox \in [Machine -> AllMail \cup {NoMail}]
         /\ desk \in [Machine -> AllMail \cup {NoMail}]
         /\ boxes \in [Machine -> [Box -> Seq(AllMail)]]
         /\ sendDue \in [Machine -> Nat]
         /\ sent \subseteq AllMail /\ lost \subseteq sent
         /\ taken \in [Machine -> Seq(AllMail)]

\* What a step of user t, of worker w and of a device does to the threads.
LEMMA UserPlaces ==
    ASSUME TypeInv, NEW t \in User, NEW p \in UserPlace,
           \/ Moves(t, p) /\ UNCHANGED sem
           \/ \E name \in Semaphore : V(name) /\ Moves(t, p)
           \/ \E name \in Semaphore : P(t, name, p)
    PROVE  Places'
<1>1. CASE Moves(t, p) /\ UNCHANGED sem
  BY <1>1, UserMoves DEF TypeInv, Places
<1>2. ASSUME NEW name \in Semaphore, V(name), Moves(t, p) PROVE Places'
  BY <1>2, UserMoves, VPosts DEF Places
<1>3. ASSUME NEW name \in Semaphore, P(t, name, p) PROVE Places'
  <2>1. t \in Thread
    BY Workers
  <2>2. sem' \in [Semaphore -> [value : Nat, queue : Seq(Thread)]]
        /\ (pc' = pc \/ Moves(t, p))
    BY <1>3, <2>1, PTakes DEF Moves
  <2>3. CASE pc' = pc
    BY <2>2, <2>3 DEF TypeInv, Places
  <2>4. CASE Moves(t, p)
    BY <2>2, <2>4, UserMoves DEF Places
  <2>5. QED
    BY <2>2, <2>3, <2>4
<1>4. QED
  BY <1>1, <1>2, <1>3

\* A worker moves, also through P.
LEMMA WorkerPlaces ==
    ASSUME TypeInv, NEW m \in Machine, NEW p \in WorkerPlace,
           \/ Moves(Worker[m], p) /\ UNCHANGED sem
           \/ \E name \in Semaphore : P(Worker[m], name, p)
    PROVE  Places'
<1>1. CASE Moves(Worker[m], p) /\ UNCHANGED sem
  BY <1>1, WorkerMoves DEF TypeInv, Places
<1>2. ASSUME NEW name \in Semaphore, P(Worker[m], name, p) PROVE Places'
  <2>1. Worker[m] \in Thread
    BY Workers
  <2>2. sem' \in [Semaphore -> [value : Nat, queue : Seq(Thread)]]
        /\ (pc' = pc \/ Moves(Worker[m], p))
    BY <1>2, <2>1, PTakes DEF Moves
  <2>3. CASE pc' = pc
    BY <2>2, <2>3 DEF TypeInv, Places
  <2>4. CASE Moves(Worker[m], p)
    BY <2>2, <2>4, WorkerMoves DEF Places
  <2>5. QED
    BY <2>2, <2>3, <2>4
<1>3. QED
  BY <1>1, <1>2

\* A device moves no thread.
LEMMA DevicePlaces ==
    ASSUME TypeInv, NEW name \in Semaphore, V(name), UNCHANGED pc
    PROVE  Places'
BY VPosts DEF TypeInv, Places

\* A step that leaves network, boxes and history alone moves no mail.
LEMMA MailsKept ==
    ASSUME TypeInv, UNCHANGED <<netVars, postVars, history>>
    PROVE  Mails'
BY DEF TypeInv, Mails, netVars, postVars, history

\* Mail of a user is mail, and the empty buffer is none.
LEMMA MailFromAll == \A t \in User : MailFrom(t) \subseteq AllMail
BY DEF MailFrom, AllMail

\* The empty buffer is no mail.
LEMMA NoMailApart == NoMail \notin AllMail
<1>1. ASSUME NoMail \in AllMail PROVE FALSE
  <2>1. NoMail \in MailFrom(NoMail.from) /\ NoMail.from \in User
    BY <1>1 DEF AllMail, MailFrom
  <2>2. QED
    BY <2>1, PostAssumption DEF User
<1>2. QED
  BY <1>1

\* Only a start and a stop change which machines run.
LEMMA UpStep ==
    ASSUME up \in [Machine -> BOOLEAN], [Next]_vars
    PROVE  up' \in [Machine -> BOOLEAN]
<1>1. CASE UNCHANGED up
  BY <1>1
<1>2. ASSUME NEW m \in Machine, Start(m) \/ Stop(m)
      PROVE  up' \in [Machine -> BOOLEAN]
  BY <1>2 DEF Start, Stop
<1>3. QED
  BY <1>1, <1>2 DEF Next, vars, hostVars, Poll, SendInterrupt, WorkerStep, WorkerWait,
     WorkerReceive, WorkerPut, UserStep, Call, SendAcquire, SendPacket, SendWait,
     SendDisown, SendUnlock, Receive

\* Every step keeps the types: a stop loses only mail that was sent.
LEMMA TypeStep == PostInv /\ [Next]_vars => TypeInv'
<1> SUFFICES ASSUME PostInv, [Next]_vars PROVE Places' /\ Mails'
  BY UpStep DEF PostInv, TypeInv, Places, Mails
<1>1. TypeInv /\ CallInv
  BY DEF PostInv
<1> USE DEF TypeInv, Mails, netVars, postVars, history
<1>2. ASSUME NEW m \in Machine, Poll(m) PROVE Places' /\ Mails'
  <2>1. Head(socket[m]) \in AllMail /\ Tail(socket[m]) \in Seq(AllMail)
    BY <1>1, <1>2 DEF Poll
  <2>2. QED
    BY <1>1, <1>2, <2>1, Names, DevicePlaces DEF Poll
<1>3. ASSUME NEW m \in Machine, SendInterrupt(m) PROVE Places' /\ Mails'
  <2>1. Places'
    BY <1>1, <1>3, Names, DevicePlaces DEF SendInterrupt
  <2>2. sendDue[m] - 1 \in Nat
    BY <1>1, <1>3 DEF SendInterrupt
  <2>3. QED
    BY <1>1, <1>3, <2>1, <2>2 DEF SendInterrupt
<1>4. ASSUME NEW m \in Machine, WorkerWait(m) PROVE Places' /\ Mails'
  BY <1>1, <1>4, Names, WorkerPlaces, MailsKept DEF WorkerWait, WorkerPlace
<1>5. ASSUME NEW m \in Machine, WorkerReceive(m) PROVE Places' /\ Mails'
  <2>1. Places'
    BY <1>1, <1>5, WorkerPlaces DEF WorkerReceive, WorkerPlace, Goto, Moves, synchVars
  <2>2. QED
    BY <1>1, <1>5, <2>1 DEF WorkerReceive
<1>6. ASSUME NEW m \in Machine, WorkerPut(m) PROVE Places' /\ Mails'
  <2>1. Places'
    BY <1>1, <1>6, WorkerPlaces DEF WorkerPut, WorkerPlace, Goto, Moves, synchVars
  <2>2. desk[m] \in AllMail
    <3>1. pc[Worker[m]] = "worker.put"
      BY <1>6 DEF WorkerPut, At
    <3>2. desk[m] # NoMail
      BY <3>1 DEF PostInv, SignalInv, DeviceInv
    <3>3. QED
      BY <1>1, <3>2
  <2>3. desk[m].box \in Box /\ Append(boxes[m][desk[m].box], desk[m]) \in Seq(AllMail)
    <3>1. desk[m].box \in Box
      BY <2>2 DEF AllMail
    <3>2. boxes[m][desk[m].box] \in Seq(AllMail)
      BY <1>1, <3>1
    <3>3. QED
      BY <2>2, <3>1, <3>2
  <2>4. boxes' \in [Machine -> [Box -> Seq(AllMail)]]
    BY <1>1, <1>6, <2>3 DEF WorkerPut
  <2>5. QED
    BY <1>1, <1>6, <2>1, <2>4 DEF WorkerPut
<1>7. ASSUME NEW t \in User, Call(t) PROVE Places' /\ Mails'
  <2>1. PICK p \in {"send.acquire", "receive.get"} : Moves(t, p)
    BY <1>7 DEF Call, Goto, Moves
  <2>2. p \in UserPlace
    BY DEF UserPlace
  <2>3. QED
    BY <1>1, <1>7, <2>1, <2>2, UserPlaces, MailsKept DEF Call, synchVars
<1>8. ASSUME NEW t \in User, SendAcquire(t) PROVE Places' /\ Mails'
  <2>1. SendLock(Home[t]) \in Semaphore /\ "send.packet" \in UserPlace
    BY Names, Workers DEF UserPlace, Inside
  <2>2. QED
    BY <1>1, <1>8, <2>1, UserPlaces, MailsKept DEF SendAcquire, Acquire
<1>9. ASSUME NEW t \in User, SendPacket(t) PROVE Places' /\ Mails'
  <2>1. Places'
    BY <1>1, <1>9, UserPlaces DEF SendPacket, Goto, Moves, UserPlace, Inside, synchVars
  <2>2. /\ cur[t] \in AllMail /\ cur[t].to \in Machine
        /\ Home[t] \in Machine /\ sendDue[Home[t]] + 1 \in Nat
    <3>1. cur[t] \in MailFrom(t)
      BY <1>1, <1>9 DEF CallInv, SendPacket, At
    <3>2. cur[t] \in AllMail
      BY <3>1, MailFromAll
    <3>3. cur[t].to \in Machine
      BY <3>2 DEF AllMail
    <3>4. QED
      BY <1>1, <3>2, <3>3, Workers
  <2>3. Append(socket[cur[t].to], cur[t]) \in Seq(AllMail)
    BY <1>1, <2>2
  <2>4. sendDue' \in [Machine -> Nat] /\ sent' = sent \cup {cur[t]}
    BY <1>1, <1>9, <2>2 DEF SendPacket
  <2>5. \/ lost' = lost \cup {cur[t]} /\ socket' = socket
        \/ /\ lost' = lost
           /\ socket' = [socket EXCEPT ![cur[t].to] = Append(socket[cur[t].to], cur[t])]
    BY <1>9 DEF SendPacket
  <2>6. socket' \in [Machine -> Seq(AllMail)]
    BY <1>1, <2>2, <2>3, <2>5
  <2>7. lost' \subseteq sent'
    BY <1>1, <2>4, <2>5
  <2>8. QED
    BY <1>1, <1>9, <2>1, <2>2, <2>4, <2>6, <2>7 DEF SendPacket
<1>10. ASSUME NEW t \in User, SendWait(t) PROVE Places' /\ Mails'
  <2>1. Sent(Home[t]) \in Semaphore /\ "send.disown" \in UserPlace
    BY Names, Workers DEF UserPlace, Inside
  <2>2. QED
    BY <1>1, <1>10, <2>1, UserPlaces, MailsKept DEF SendWait
<1>11. ASSUME NEW t \in User, SendDisown(t) PROVE Places' /\ Mails'
  BY <1>1, <1>11, UserPlaces, MailsKept DEF SendDisown, Goto, Moves, UserPlace, Inside
<1>12. ASSUME NEW t \in User, SendUnlock(t) PROVE Places' /\ Mails'
  <2>1. SendLock(Home[t]) \in Semaphore /\ "idle" \in UserPlace
    BY Names, Workers DEF UserPlace
  <2>2. QED
    BY <1>1, <1>12, <2>1, UserPlaces, MailsKept DEF SendUnlock, Goto, Moves
<1>13. ASSUME NEW t \in User, Receive(t) PROVE Places' /\ Mails'
  <2>1. PICK m \in Machine, b \in Box : m = Home[t] /\ b = cur[t].box
    BY <1>1, <1>13, Workers DEF Receive, CallInv, At
  <2>2. Places'
    BY <1>1, <1>13, UserPlaces DEF Receive, Goto, Moves, UserPlace, synchVars
  <2>3. /\ boxes[m][b] \in Seq(AllMail) /\ boxes[m][b] # <<>>
        /\ taken' = [taken EXCEPT ![m] = Append(taken[m], Head(boxes[m][b]))]
        /\ boxes' = [boxes EXCEPT ![m][b] = Tail(boxes[m][b])]
    BY <1>1, <1>13, <2>1 DEF Receive
  <2>4. /\ Append(taken[m], Head(boxes[m][b])) \in Seq(AllMail)
        /\ Tail(boxes[m][b]) \in Seq(AllMail)
    BY <1>1, <2>3
  <2>5. taken' \in [Machine -> Seq(AllMail)]
    BY <1>1, <2>3, <2>4
  <2>6. boxes' \in [Machine -> [Box -> Seq(AllMail)]]
    BY <1>1, <2>3, <2>4
  <2>7. QED
    BY <1>1, <1>13, <2>2, <2>5, <2>6 DEF Receive
<1>14. ASSUME NEW m \in Machine, Start(m) PROVE Places' /\ Mails'
  BY <1>1, <1>14, WorkerPlaces, MailsKept DEF Start, Goto, Moves, WorkerPlace, synchVars
<1>15. ASSUME NEW m \in Machine, Stop(m) PROVE Places' /\ Mails'
  <2>1. Places'
    <3>1. /\ pc' = [t \in Thread |-> IF Home[t] = m THEN "idle" ELSE pc[t]]
          /\ sem' = [s \in Semaphore |->
                       IF s[1] = m THEN InitialSemaphore(s) ELSE sem[s]]
      BY <1>1, <1>15 DEF Stop
    <3>2. sem' \in [Semaphore -> [value : Nat, queue : Seq(Thread)]]
      BY <1>1, <3>1, Initial
    <3>3. "idle" \in UserPlace /\ "idle" \in WorkerPlace
      BY DEF UserPlace, WorkerPlace
    <3>4. QED
      BY <1>1, <3>1, <3>2, <3>3, Workers DEF Places
  <2>2. InQueue(socket[m]) \cup Buffered(m) \cup OnDesk(m) \cup InBoxes(m) \subseteq sent
    <3>1. UNION {Route(m)[i] : i \in 1 .. 5} \subseteq sent
      BY DEF PostInv, InOrderOrLost
    <3>2. \A i \in 1 .. 5 : Route(m)[i] \subseteq sent
      BY <3>1
    <3>3. /\ Route(m)[2] = InBoxes(m) /\ Route(m)[3] = OnDesk(m)
          /\ Route(m)[4] = Buffered(m) /\ Route(m)[5] = InQueue(socket[m])
      BY DEF Route
    <3>4. QED
      BY <3>2, <3>3
  <2>3. <<>> \in Seq(AllMail) /\ [b \in Box |-> <<>>] \in [Box -> Seq(AllMail)]
    OBVIOUS
  <2>4. QED
    BY <1>1, <1>15, <2>1, <2>2, <2>3 DEF Stop
<1>16. CASE UNCHANGED vars
  BY <1>1, <1>16, MailsKept DEF vars, Places, synchVars
<1>17. QED
  BY <1>2, <1>3, <1>4, <1>5, <1>6, <1>7, <1>8, <1>9, <1>10, <1>11, <1>12, <1>13,
     <1>14, <1>15, <1>16 DEF Next, WorkerStep, UserStep

-----------------------------------------------------------------------------
(* Calls.                                                                  *)

\* The calls of one thread, with the mail it has sent so far.
CallsOfInv(t, place, mail, rest, done) ==
    /\ rest \in Seq(CallOf(t)) /\ Numbered(rest)
    /\ place = "receive.get" => mail.box \in Box
    /\ place \in {"send.acquire", "send.packet"} =>
          /\ mail \in MailFrom(t)
          /\ \A i \in DOMAIN rest : rest[i].op = "Send" => mail.no < rest[i].arg.no
          /\ \A x \in done : x.from = t => x.no < mail.no
    /\ \A x \in done : x.from = t =>
          \A i \in DOMAIN rest : rest[i].op = "Send" => x.no < rest[i].arg.no

\* CallInv is about each thread apart.
LEMMA CallInvParts ==
    CallInv <=> /\ cur = [t \in Thread |-> cur[t]] /\ DOMAIN todo = User
                /\ \A t \in User : CallsOfInv(t, pc[t], cur[t], todo[t], sent)
BY DEF CallInv, CallsOfInv

\* A call is begun: the first of those to make.
LEMMA CallBegun ==
    ASSUME NEW t \in User, NEW rest, NEW done, NEW mail,
           CallsOfInv(t, "idle", mail, rest, done), rest # <<>>
    PROVE  CallsOfInv(t, IF Head(rest).op = "Send" THEN "send.acquire" ELSE "receive.get",
                      Head(rest).arg, Tail(rest), done)
<1>1. rest \in Seq(CallOf(t)) /\ Numbered(rest) /\ rest # <<>>
      /\ \A x \in done : x.from = t =>
          \A i \in DOMAIN rest : rest[i].op = "Send" => x.no < rest[i].arg.no
  BY DEF CallsOfInv
<1>2. /\ Head(rest) = rest[1] /\ 1 \in DOMAIN rest /\ Head(rest) \in CallOf(t)
      /\ Tail(rest) \in Seq(CallOf(t))
      /\ \A i \in DOMAIN Tail(rest) :
            i + 1 \in DOMAIN rest /\ Tail(rest)[i] = rest[i + 1] /\ i \in Nat /\ 1 < i + 1
  BY <1>1
<1>3. Numbered(Tail(rest))
  BY <1>1, <1>2 DEF Numbered
<1>4. Head(rest).op = "Send" =>
         /\ Head(rest).arg \in MailFrom(t)
         /\ \A i \in DOMAIN Tail(rest) :
               Tail(rest)[i].op = "Send" => Head(rest).arg.no < Tail(rest)[i].arg.no
         /\ \A x \in done : x.from = t => x.no < Head(rest).arg.no
  <2>1. Head(rest).op = "Send" => Head(rest).arg \in MailFrom(t)
    BY <1>2 DEF CallOf
  <2>2. QED
    BY <1>1, <1>2, <2>1 DEF Numbered
<1>5. Head(rest).op # "Send" => Head(rest).arg.box \in Box
  BY <1>2 DEF CallOf
<1>6. \A x \in done : x.from = t =>
         \A i \in DOMAIN Tail(rest) : Tail(rest)[i].op = "Send" => x.no < Tail(rest)[i].arg.no
  BY <1>1, <1>2
<1>7. CASE Head(rest).op = "Send"
  BY <1>2, <1>3, <1>4, <1>6, <1>7 DEF CallsOfInv
<1>8. CASE Head(rest).op # "Send"
  BY <1>2, <1>3, <1>5, <1>6, <1>8 DEF CallsOfInv
<1>9. QED
  BY <1>7, <1>8

\* It goes on, and another one is not affected.
LEMMA CallGoesOn ==
    ASSUME NEW t, NEW place, NEW place2, NEW mail, NEW rest, NEW done,
           CallsOfInv(t, place, mail, rest, done),
           \/ place2 = place
           \/ place2 \notin {"receive.get", "send.acquire", "send.packet"}
           \/ place = "send.acquire" /\ place2 = "send.packet"
    PROVE  CallsOfInv(t, place2, mail, rest, done)
BY DEF CallsOfInv

\* Its mail is sent.
LEMMA CallSends ==
    ASSUME NEW t \in User, NEW u \in User, NEW place, NEW mail, NEW rest, NEW done,
           CallsOfInv(u, place, mail, rest, done), NEW x, x \in MailFrom(t),
           u = t => place = "send.packet" /\ mail = x
    PROVE  CallsOfInv(u, IF u = t THEN "send.wait" ELSE place, mail, rest, done \cup {x})
BY DEF CallsOfInv, MailFrom

\* Every step keeps the calls in the order of their numbers.
LEMMA CallStep == PostInv /\ [Next]_vars => CallInv'
<1> SUFFICES ASSUME PostInv, [Next]_vars PROVE CallInv'
  OBVIOUS
<1>1. /\ TypeInv /\ cur = [t \in Thread |-> cur[t]] /\ DOMAIN todo = User
      /\ \A t \in User : CallsOfInv(t, pc[t], cur[t], todo[t], sent)
  BY CallInvParts DEF PostInv
<1>2. SUFFICES /\ cur' = [t \in Thread |-> cur'[t]] /\ DOMAIN todo' = User
               /\ \A t \in User : CallsOfInv(t, pc'[t], cur'[t], todo'[t], sent')
  BY DEF CallInv, CallsOfInv
\* Users go on, or stay where they are.
<1>3. ASSUME UNCHANGED <<cur, todo, sent>>,
             \A t \in User :
                \/ pc'[t] = pc[t]
                \/ pc'[t] \notin {"receive.get", "send.acquire", "send.packet"}
                \/ pc[t] = "send.acquire" /\ pc'[t] = "send.packet"
      PROVE  /\ cur' = [t \in Thread |-> cur'[t]] /\ DOMAIN todo' = User
             /\ \A t \in User : CallsOfInv(t, pc'[t], cur'[t], todo'[t], sent')
  BY <1>1, <1>3, CallGoesOn
<1> USE DEF history, callVars
<1>4. ASSUME NEW m \in Machine, Poll(m) \/ SendInterrupt(m)
      PROVE  UNCHANGED <<cur, todo, sent>> /\ \A t \in User : pc'[t] = pc[t]
  BY <1>4 DEF Poll, SendInterrupt
<1>5. ASSUME NEW m \in Machine, WorkerWait(m)
      PROVE  UNCHANGED <<cur, todo, sent>> /\ \A t \in User : pc'[t] = pc[t]
  <2>1. Worker[m] \in Thread /\ Available(m) \in Semaphore
    BY Workers, Names
  <2>2. pc' = pc \/ Moves(Worker[m], "worker.receive")
    BY <1>1, <1>5, <2>1, PTakes DEF WorkerWait, Moves
  <2>3. QED
    BY <1>1, <1>5, <2>2, WorkerMoves DEF WorkerWait, WorkerPlace
<1>6. ASSUME NEW m \in Machine, WorkerReceive(m) \/ WorkerPut(m) \/ Start(m)
      PROVE  UNCHANGED <<cur, todo, sent>> /\ \A t \in User : pc'[t] = pc[t]
  <2>1. PICK p \in {"worker.put", "worker.wait"} : Moves(Worker[m], p)
    BY <1>6 DEF WorkerReceive, WorkerPut, Start, Goto, Moves
  <2>2. QED
    BY <1>1, <1>6, <2>1, WorkerMoves DEF WorkerReceive, WorkerPut, Start, WorkerPlace
<1>7. ASSUME NEW t \in User, Call(t)
      PROVE  /\ cur' = [u \in Thread |-> cur'[u]] /\ DOMAIN todo' = User
             /\ \A u \in User : CallsOfInv(u, pc'[u], cur'[u], todo'[u], sent')
  <2>1. PICK p \in {"send.acquire", "receive.get"} :
           /\ Moves(t, p)
           /\ p = IF Head(todo[t]).op = "Send" THEN "send.acquire" ELSE "receive.get"
    BY <1>7 DEF Call, Goto, Moves
  <2>2. /\ pc'[t] = p /\ \A u \in User : u # t => pc'[u] = pc[u]
        /\ pc[t] = "idle" /\ todo[t] # <<>> /\ sent' = sent
    BY <1>1, <1>7, <2>1, UserMoves DEF Call, UserPlace, At
  <2>3. /\ cur' = [u \in Thread |-> cur'[u]] /\ cur'[t] = Head(todo[t]).arg
        /\ \A u \in User : u # t => cur'[u] = cur[u]
    BY <1>1, <1>7, Workers DEF Call
  <2>4. /\ DOMAIN todo' = User /\ todo'[t] = Tail(todo[t])
        /\ \A u \in User : u # t => todo'[u] = todo[u]
    BY <1>1, <1>7 DEF Call
  <2>5. CallsOfInv(t, p, cur'[t], todo'[t], sent')
    BY <1>1, <2>1, <2>2, <2>3, <2>4, CallBegun
  <2>6. QED
    BY <1>1, <2>2, <2>3, <2>4, <2>5
<1>8. ASSUME NEW t \in User, SendAcquire(t) \/ SendWait(t)
      PROVE  /\ UNCHANGED <<cur, todo, sent>>
             /\ \A u \in User : \/ pc'[u] = pc[u]
                                \/ pc[u] = "send.acquire" /\ pc'[u] = "send.packet"
                                \/ pc'[u] = "send.disown"
  <2>1. t \in Thread /\ SendLock(Home[t]) \in Semaphore /\ Sent(Home[t]) \in Semaphore
    BY Workers, Names
  <2>2. /\ UNCHANGED <<cur, todo, sent>>
        /\ \/ pc' = pc
           \/ pc[t] = "send.acquire" /\ Moves(t, "send.packet")
           \/ Moves(t, "send.disown")
    BY <1>1, <1>8, <2>1, PTakes DEF SendAcquire, SendWait, Acquire, At, Moves
  <2>3. QED
    BY <1>1, <2>2, UserMoves DEF UserPlace, Inside
<1>9. ASSUME NEW t \in User, SendPacket(t)
      PROVE  /\ cur' = [u \in Thread |-> cur'[u]] /\ DOMAIN todo' = User
             /\ \A u \in User : CallsOfInv(u, pc'[u], cur'[u], todo'[u], sent')
  <2>1. /\ Moves(t, "send.wait") /\ pc[t] = "send.packet"
        /\ cur' = cur /\ todo' = todo /\ sent' = sent \cup {cur[t]}
    BY <1>9 DEF SendPacket, Goto, Moves, At
  <2>2. pc'[t] = "send.wait" /\ \A u \in User : u # t => pc'[u] = pc[u]
    BY <1>1, <2>1, UserMoves DEF UserPlace, Inside
  <2>3. cur[t] \in MailFrom(t)
    BY <1>1, <2>1 DEF CallsOfInv
  <2>4. ASSUME NEW u \in User PROVE CallsOfInv(u, pc'[u], cur[u], todo[u], sent \cup {cur[t]})
    <3>1. CallsOfInv(u, pc[u], cur[u], todo[u], sent)
      BY <1>1
    <3>2. CallsOfInv(u, IF u = t THEN "send.wait" ELSE pc[u], cur[u], todo[u],
                     sent \cup {cur[t]})
      BY <2>1, <2>3, <3>1, CallSends
    <3>3. QED
      BY <2>2, <3>2
  <2>5. QED
    BY <1>1, <2>1, <2>4
<1>10. ASSUME NEW t \in User, SendDisown(t) \/ SendUnlock(t) \/ Receive(t)
       PROVE  /\ UNCHANGED <<cur, todo, sent>>
              /\ \A u \in User : pc'[u] = pc[u] \/ pc'[u] \in {"send.unlock", "idle"}
  <2>1. PICK p \in {"send.unlock", "idle"} : Moves(t, p)
    BY <1>10 DEF SendDisown, SendUnlock, Receive, Goto, Moves
  <2>2. UNCHANGED <<cur, todo, sent>>
    BY <1>10 DEF SendDisown, SendUnlock, Receive
  <2>3. QED
    BY <1>1, <2>1, <2>2, UserMoves DEF UserPlace, Inside
<1>11. ASSUME NEW m \in Machine, Stop(m)
       PROVE  /\ UNCHANGED <<cur, todo, sent>>
              /\ \A u \in User : pc'[u] = pc[u] \/ pc'[u] = "idle"
  BY <1>11, Workers DEF Stop
<1>12. CASE UNCHANGED vars
  BY <1>3, <1>12 DEF vars
<1>13. QED
  BY <1>3, <1>4, <1>5, <1>6, <1>7, <1>8, <1>9, <1>10, <1>11, <1>12
     DEF Next, WorkerStep, UserStep

-----------------------------------------------------------------------------
(* Semaphores and what they count.                                         *)

\* A step keeps these of a machine whose semaphores and threads it leaves alone.
LEMMA LockKept ==
    ASSUME NEW n \in Machine, LockInv(n), Free(n)' = Free(n),
           \A u \in User : Home[u] = n /\ pc'[u] \in Inside => pc[u] \in Inside
    PROVE  LockInv(n)'
<1>1. Sender(n)' \subseteq Sender(n)
  BY DEF Sender
<1>2. QED
  BY <1>1 DEF LockInv

\* So it keeps the worker's signals ...
LEMMA DeviceKept ==
    ASSUME NEW n \in Machine, DeviceInv(n), Calls(n)' = Calls(n),
           pc'[Worker[n]] = pc[Worker[n]], inbox'[n] = inbox[n], desk'[n] = desk[n],
           up'[n] = up[n]
    PROVE  DeviceInv(n)'
BY DEF DeviceInv, Calls

\* ... and the signals of its senders.
LEMMA SentKept ==
    ASSUME NEW n \in Machine, SentInv(n), Done(n)' = Done(n), sendDue'[n] = sendDue[n],
           \A u \in User : Home[u] = n => (pc'[u] = "send.wait" <=> pc[u] = "send.wait")
    PROVE  SentInv(n)'
BY DEF SentInv, Done

\* The values of a machine's semaphores are numbers.
LEMMA Values ==
    ASSUME TypeInv, NEW n \in Machine
    PROVE  Calls(n) \in Nat /\ Done(n) \in Nat /\ Free(n) \in Nat /\ sendDue[n] \in Nat
<1>1. \A s \in Semaphore : sem[s].value \in Nat
  BY DEF TypeInv
<1>2. QED
  BY <1>1, Names DEF TypeInv, Calls, Done, Free

\* A step that moves no user, of a machine or of its worker.
LEMMA UsersStay ==
    ASSUME NEW n \in Machine, LockInv(n), SentInv(n), \A u \in User : pc'[u] = pc[u]
    PROVE  /\ Free(n)' = Free(n) => LockInv(n)'
           /\ Done(n)' = Done(n) /\ sendDue'[n] = sendDue[n] => SentInv(n)'
BY LockKept, SentKept

\* A packet is buffered with one signal for the worker, which takes both.
LEMMA DeviceStep ==
    ASSUME PostInv, NEW m \in Machine, Poll(m) \/ WorkerWait(m) \/ WorkerReceive(m) \/ WorkerPut(m),
           NEW n \in Machine
    PROVE  LockInv(n)' /\ DeviceInv(n)' /\ SentInv(n)'
<1>1. TypeInv /\ LockInv(n) /\ DeviceInv(n) /\ SentInv(n)
  BY DEF PostInv, SignalInv
<1>2. /\ Available(n) \in Semaphore /\ Sent(n) \in Semaphore /\ SendLock(n) \in Semaphore
      /\ Available(m) \in Semaphore /\ Sent(n) # Available(m) /\ SendLock(n) # Available(m)
      /\ n # m => Available(n) # Available(m)
  BY Names
<1>3. Worker[m] \in Thread /\ Calls(n) \in Nat
  BY <1>1, Workers, Values
<1>4. CASE Poll(m)
  <2>1. /\ \A s \in Semaphore : s # Available(m) => sem'[s] = sem[s]
        /\ sem'[Available(m)].value = sem[Available(m)].value + 1
        /\ pc' = pc /\ sendDue' = sendDue /\ desk' = desk /\ up' = up
    BY <1>1, <1>2, <1>4, VPosts DEF Poll, postVars, hostVars
  <2>2. LockInv(n)' /\ SentInv(n)'
    BY <1>1, <1>2, <2>1, UsersStay DEF Free, Done
  <2>3. inbox[m] = NoMail /\ inbox'[m] # NoMail /\ (n # m => inbox'[n] = inbox[n])
    <3>1. Head(socket[m]) \in AllMail
      BY <1>1, <1>4 DEF Poll, TypeInv
    <3>2. inbox' = [inbox EXCEPT ![m] = Head(socket[m])] /\ inbox[m] = NoMail
      BY <1>4 DEF Poll
    <3>3. QED
      BY <1>1, <3>1, <3>2, NoMailApart DEF TypeInv
  <2>4. CASE n = m
    <3>1. Calls(n) = 0 /\ pc[Worker[n]] # "worker.receive"
      BY <1>1, <1>3, <2>3, <2>4 DEF DeviceInv
    <3>2. Calls(n)' = 1
      BY <2>1, <2>4, <3>1 DEF Calls
    <3>3. QED
      BY <1>1, <2>1, <2>2, <2>3, <2>4, <3>1, <3>2 DEF DeviceInv
  <2>5. CASE n # m
    BY <1>1, <1>2, <2>1, <2>2, <2>3, <2>5, DeviceKept DEF Calls
  <2>6. QED
    BY <2>4, <2>5
<1>5. CASE WorkerWait(m)
  <2>1. /\ \A s \in Semaphore : s # Available(m) => sem'[s] = sem[s]
        /\ \/ /\ sem[Available(m)].value = 0 /\ sem'[Available(m)].value = 0 /\ pc' = pc
           \/ /\ sem[Available(m)].value # 0
              /\ sem'[Available(m)].value = sem[Available(m)].value - 1
              /\ Moves(Worker[m], "worker.receive")
        /\ pc[Worker[m]] = "worker.wait"
    BY <1>1, <1>2, <1>3, <1>5, PTakes DEF WorkerWait, At, Moves
  <2>2. UNCHANGED <<inbox, desk, sendDue, up>>
    BY <1>5 DEF WorkerWait, netVars, postVars, hostVars
  <2>3. "worker.receive" \in WorkerPlace
    BY DEF WorkerPlace
  <2>4. \A u \in User : pc'[u] = pc[u]
    BY <1>1, <2>1, <2>3, WorkerMoves
  <2>5. LockInv(n)' /\ SentInv(n)'
    BY <1>1, <1>2, <2>1, <2>2, <2>4, UsersStay DEF Free, Done
  <2>6. CASE n # m \/ pc' = pc
    <3>1. Calls(n)' = Calls(n) /\ pc'[Worker[n]] = pc[Worker[n]]
      BY <1>1, <1>2, <2>1, <2>3, <2>6, WorkerMoves DEF Calls
    <3>2. QED
      BY <1>1, <2>2, <2>5, <3>1, DeviceKept
  <2>7. CASE n = m /\ pc' # pc
    <3>1. pc'[Worker[n]] = "worker.receive" /\ Calls(n) # 0 /\ Calls(n)' = Calls(n) - 1
      BY <1>1, <2>1, <2>3, <2>7, WorkerMoves DEF Calls
    <3>2. Calls(n) = 1 /\ inbox[n] # NoMail /\ up[n]
      BY <1>1, <1>3, <2>1, <2>7, <3>1 DEF DeviceInv
    <3>3. QED
      BY <1>1, <2>2, <2>5, <3>1, <3>2 DEF DeviceInv
  <2>8. QED
    BY <2>6, <2>7
<1>6. ASSUME WorkerReceive(m) \/ WorkerPut(m)
      PROVE  /\ sem' = sem /\ LockInv(n)' /\ SentInv(n)' /\ up' = up
             /\ n # m => pc'[Worker[n]] = pc[Worker[n]]
  <2>1. PICK p \in WorkerPlace : Moves(Worker[m], p)
    BY <1>6 DEF WorkerReceive, WorkerPut, WorkerPlace, Goto, Moves
  <2>2. /\ \A u \in User : pc'[u] = pc[u]
        /\ n # m => pc'[Worker[n]] = pc[Worker[n]]
    BY <1>1, <2>1, WorkerMoves
  <2>3. sem' = sem /\ sendDue' = sendDue /\ up' = up
    BY <1>6 DEF WorkerReceive, WorkerPut, synchVars, netVars, hostVars
  <2>4. QED
    BY <1>1, <2>2, <2>3, UsersStay DEF Free, Done
<1>7. CASE WorkerReceive(m)
  <2>1. /\ pc[Worker[m]] = "worker.receive" /\ Moves(Worker[m], "worker.put")
        /\ inbox' = [inbox EXCEPT ![m] = NoMail]
        /\ desk' = [desk EXCEPT ![m] = IF inbox[m] = NoMail THEN desk[m] ELSE inbox[m]]
    BY <1>7 DEF WorkerReceive, Goto, Moves, At
  <2>2. "worker.put" \in WorkerPlace
    BY DEF WorkerPlace
  <2>3. CASE n = m
    <3>1. Calls(n) = 0 /\ inbox[n] # NoMail /\ up[n]
      BY <1>1, <1>3, <2>1, <2>3 DEF DeviceInv
    <3>2. pc'[Worker[n]] = "worker.put" /\ inbox'[n] = NoMail /\ desk'[n] # NoMail
      BY <1>1, <2>1, <2>2, <2>3, <3>1, WorkerMoves DEF TypeInv
    <3>3. Calls(n)' = Calls(n)
      BY <1>6, <1>7 DEF Calls
    <3>4. QED
      BY <1>6, <1>7, <3>1, <3>2, <3>3 DEF DeviceInv
  <2>4. CASE n # m
    <3>1. /\ inbox'[n] = inbox[n] /\ desk'[n] = desk[n] /\ pc'[Worker[n]] = pc[Worker[n]]
          /\ Calls(n)' = Calls(n)
      BY <1>1, <1>6, <1>7, <2>1, <2>4 DEF TypeInv, Calls
    <3>2. QED
      BY <1>1, <1>6, <1>7, <3>1, DeviceKept
  <2>5. QED
    BY <2>3, <2>4
<1>8. CASE WorkerPut(m)
  <2>1. /\ pc[Worker[m]] = "worker.put" /\ Moves(Worker[m], "worker.wait")
        /\ inbox' = inbox /\ desk' = desk
    BY <1>8 DEF WorkerPut, Goto, Moves, At, netVars
  <2>2. "worker.wait" \in WorkerPlace /\ Calls(n)' = Calls(n)
    BY <1>6, <1>8 DEF WorkerPlace, Calls
  <2>3. CASE n = m
    <3>1. pc'[Worker[n]] = "worker.wait" /\ up[n]
      BY <1>1, <2>1, <2>2, <2>3, WorkerMoves DEF DeviceInv
    <3>2. QED
      BY <1>1, <1>6, <1>8, <2>1, <2>2, <2>3, <3>1 DEF DeviceInv
  <2>4. CASE n # m
    BY <1>1, <1>6, <1>8, <2>1, <2>2, <2>4, DeviceKept
  <2>5. QED
    BY <2>3, <2>4
<1>9. QED
  BY <1>4, <1>5, <1>7, <1>8

\* The interrupt of a packet becomes a signal.
LEMMA InterruptStep ==
    ASSUME PostInv, NEW m \in Machine, SendInterrupt(m), NEW n \in Machine
    PROVE  LockInv(n)' /\ DeviceInv(n)' /\ SentInv(n)'
<1>1. TypeInv /\ LockInv(n) /\ DeviceInv(n) /\ SentInv(n)
  BY DEF PostInv, SignalInv
<1>2. /\ Available(n) \in Semaphore /\ Sent(n) \in Semaphore /\ SendLock(n) \in Semaphore
      /\ Sent(m) \in Semaphore /\ Available(n) # Sent(m) /\ SendLock(n) # Sent(m)
      /\ n # m => Sent(n) # Sent(m)
  BY Names
<1>3. /\ \A s \in Semaphore : s # Sent(m) => sem'[s] = sem[s]
      /\ sem'[Sent(m)].value = sem[Sent(m)].value + 1
      /\ pc' = pc /\ inbox' = inbox /\ desk' = desk /\ up' = up
  BY <1>1, <1>2, VPosts DEF SendInterrupt, postVars, hostVars
<1>4. LockInv(n)' /\ DeviceInv(n)'
  BY <1>1, <1>2, <1>3, LockKept, DeviceKept DEF Free, Calls
<1>5. /\ sendDue'[m] = sendDue[m] - 1 /\ sendDue[m] > 0
      /\ n # m => sendDue'[n] = sendDue[n]
  BY <1>1 DEF SendInterrupt, TypeInv
<1>6. CASE n = m
  <2>1. Done(n)' = Done(n) + 1
    BY <1>3, <1>6 DEF Done
  <2>2. sendDue'[n] + Done(n)' = sendDue[n] + Done(n)
    BY <1>1, <1>5, <1>6, <2>1, Values
  <2>3. QED
    BY <1>1, <1>3, <1>4, <2>2 DEF SentInv
<1>7. CASE n # m
  BY <1>1, <1>2, <1>3, <1>4, <1>5, <1>7, SentKept DEF Done
<1>8. QED
  BY <1>6, <1>7

\* A step of user t: it leaves the workers alone, the senders of other
\* machines, and the other users of its own.
LEMMA UserKeeps ==
    ASSUME TypeInv, NEW t \in User, NEW p \in UserPlace, pc' = pc \/ Moves(t, p),
           NEW n \in Machine, LockInv(n), DeviceInv(n), SentInv(n),
           inbox' = inbox, desk' = desk, up' = up, Calls(n)' = Calls(n)
    PROVE  /\ DeviceInv(n)'
           /\ Free(n)' = Free(n) /\ (Home[t] # n \/ p \notin Inside \/ pc[t] \in Inside)
                => LockInv(n)'
           /\ /\ Done(n)' = Done(n) /\ sendDue'[n] = sendDue[n]
              /\ \/ Home[t] # n
                 \/ p # "send.wait" /\ pc[t] # "send.wait"
              => SentInv(n)'
<1>1. /\ \A u \in User : pc'[u] = pc[u] \/ (u = t /\ pc'[u] = p)
      /\ pc'[Worker[n]] = pc[Worker[n]]
  <2>1. CASE pc' = pc
    BY <2>1
  <2>2. CASE Moves(t, p)
    BY <2>2, UserMoves
  <2>3. QED
    BY <2>1, <2>2
<1>2. DeviceInv(n)'
  BY <1>1, DeviceKept
<1>3. Free(n)' = Free(n) /\ (Home[t] # n \/ p \notin Inside \/ pc[t] \in Inside)
        => LockInv(n)'
  BY <1>1, LockKept
<1>4. /\ Done(n)' = Done(n) /\ sendDue'[n] = sendDue[n]
      /\ \/ Home[t] # n
         \/ p # "send.wait" /\ pc[t] # "send.wait"
      => SentInv(n)'
  BY <1>1, SentKept
<1>5. QED
  BY <1>2, <1>3, <1>4

\* A sender takes the lock, has one interrupt due, takes its signal and leaves.
LEMMA UserStepSignals ==
    ASSUME PostInv, NEW t \in User, UserStep(t), NEW n \in Machine
    PROVE  LockInv(n)' /\ DeviceInv(n)' /\ SentInv(n)'
<1>1. TypeInv /\ LockInv(n) /\ DeviceInv(n) /\ SentInv(n)
  BY DEF PostInv, SignalInv
<1>2. PICK m \in Machine : m = Home[t]
  BY Workers
<1>3. /\ Available(n) \in Semaphore /\ Sent(n) \in Semaphore /\ SendLock(n) \in Semaphore
      /\ Sent(m) \in Semaphore /\ SendLock(m) \in Semaphore
      /\ Available(n) # Sent(m) /\ SendLock(n) # Sent(m) /\ (n # m => Sent(n) # Sent(m))
      /\ Available(n) # SendLock(m) /\ Sent(n) # SendLock(m)
      /\ n # m => SendLock(n) # SendLock(m)
  BY Names
<1>4. /\ Free(n) \in Nat /\ Done(n) \in Nat /\ sendDue[n] \in Nat
      /\ t \in Thread /\ t \in User
  BY <1>1, Values, Workers
<1>5. CASE Call(t) \/ Receive(t)
  <2>1. PICK p \in {"send.acquire", "receive.get", "idle"} : Moves(t, p)
    BY <1>5 DEF Call, Receive, Goto, Moves
  <2>2. p \in UserPlace /\ p \notin Inside /\ p # "send.wait" /\ pc[t] # "send.wait"
    BY <1>5, <2>1 DEF UserPlace, Inside, Call, Receive, At
  <2>3. sem' = sem /\ inbox' = inbox /\ desk' = desk /\ up' = up /\ sendDue' = sendDue
    BY <1>5 DEF Call, Receive, synchVars, netVars, postVars, hostVars
  <2>4. QED
    BY <1>1, <2>1, <2>2, <2>3, UserKeeps DEF Calls, Done, Free
<1>6. CASE SendAcquire(t)
  <2>1. /\ \A s \in Semaphore : s # SendLock(m) => sem'[s] = sem[s]
        /\ \/ /\ sem[SendLock(m)].value = 0 /\ sem'[SendLock(m)].value = 0 /\ pc' = pc
           \/ /\ sem[SendLock(m)].value # 0
              /\ sem'[SendLock(m)].value = sem[SendLock(m)].value - 1
              /\ Moves(t, "send.packet")
        /\ pc[t] = "send.acquire"
        /\ inbox' = inbox /\ desk' = desk /\ up' = up /\ sendDue' = sendDue
    BY <1>1, <1>2, <1>3, <1>4, <1>6, PTakes
       DEF SendAcquire, Acquire, At, Moves, netVars, postVars, hostVars
  <2>2. "send.packet" \in UserPlace
    BY DEF UserPlace, Inside
  <2>3. Calls(n)' = Calls(n) /\ Done(n)' = Done(n)
    BY <1>3, <2>1 DEF Calls, Done
  <2>4. DeviceInv(n)' /\ SentInv(n)'
    BY <1>1, <2>1, <2>2, <2>3, UserKeeps
  <2>5. CASE n # m
    BY <1>1, <1>2, <1>3, <2>1, <2>2, <2>3, <2>4, <2>5, UserKeeps DEF Free
  <2>6. CASE pc' = pc /\ sem[SendLock(m)].value = 0 /\ n = m
    <3>1. Free(n)' = Free(n)
      BY <2>1, <2>6 DEF Free
    <3>2. QED
      BY <1>1, <2>4, <2>6, <3>1, LockKept
  <2>7. CASE sem[SendLock(m)].value # 0 /\ n = m
    <3>1. Free(n) = 1 /\ Sender(n) = {}
      BY <1>1, <2>7 DEF LockInv, Free
    <3>2. Free(n)' = 0
      BY <2>1, <2>7, <3>1 DEF Free
    <3>3. \A u \in User : u # t => pc'[u] = pc[u]
      BY <1>1, <2>1, <2>2, <2>7, UserMoves
    <3>4. \A u \in Sender(n)' : u = t
      BY <3>1, <3>3 DEF Sender
    <3>5. QED
      BY <2>4, <3>2, <3>4 DEF LockInv
  <2>8. QED
    BY <2>1, <2>5, <2>6, <2>7
<1>7. CASE SendPacket(t)
  <2>1. /\ pc[t] = "send.packet" /\ Moves(t, "send.wait") /\ sem' = sem
        /\ inbox' = inbox /\ desk' = desk /\ up' = up
        /\ sendDue' = [sendDue EXCEPT ![m] = sendDue[m] + 1]
    BY <1>2, <1>7 DEF SendPacket, At, Goto, Moves, synchVars, postVars, hostVars
  <2>2. "send.wait" \in UserPlace /\ pc[t] \in Inside
    BY <2>1 DEF UserPlace, Inside
  <2>3. Calls(n)' = Calls(n) /\ Done(n)' = Done(n) /\ Free(n)' = Free(n)
    BY <2>1 DEF Calls, Done, Free
  <2>4. DeviceInv(n)' /\ LockInv(n)'
    BY <1>1, <2>1, <2>2, <2>3, UserKeeps
  <2>5. CASE n # m
    <3>1. sendDue'[n] = sendDue[n]
      BY <1>1, <2>1, <2>5 DEF TypeInv
    <3>2. QED
      BY <1>1, <1>2, <2>1, <2>2, <2>3, <2>4, <2>5, <3>1, UserKeeps
  <2>6. CASE n = m
    <3>1. t \in Sender(n)
      BY <1>2, <2>2, <2>6 DEF Sender
    <3>2. \A u \in User : Home[u] = n /\ pc[u] = "send.wait" => u \in Sender(n)
      BY DEF Sender, Inside
    <3>3. ~ \E u \in User : Home[u] = n /\ pc[u] = "send.wait"
      BY <1>1, <2>1, <3>1, <3>2 DEF LockInv
    <3>4. sendDue[n] + Done(n) = 0
      BY <1>1, <3>3 DEF SentInv
    <3>5. sendDue'[n] + Done(n)' = 1
      <4>1. sendDue'[n] = sendDue[n] + 1
        BY <1>1, <2>1, <2>6 DEF TypeInv
      <4>2. QED
        BY <1>4, <2>3, <3>4, <4>1
    <3>6. pc'[t] = "send.wait"
      BY <1>1, <2>1, <2>2, UserMoves
    <3>7. QED
      BY <1>2, <2>4, <2>6, <3>5, <3>6 DEF SentInv
  <2>7. QED
    BY <2>5, <2>6
<1>8. CASE SendWait(t)
  <2>1. /\ \A s \in Semaphore : s # Sent(m) => sem'[s] = sem[s]
        /\ \/ /\ sem[Sent(m)].value = 0 /\ sem'[Sent(m)].value = 0 /\ pc' = pc
           \/ /\ sem[Sent(m)].value # 0
              /\ sem'[Sent(m)].value = sem[Sent(m)].value - 1
              /\ Moves(t, "send.disown")
        /\ pc[t] = "send.wait"
        /\ inbox' = inbox /\ desk' = desk /\ up' = up /\ sendDue' = sendDue
    BY <1>1, <1>2, <1>3, <1>4, <1>8, PTakes
       DEF SendWait, At, Moves, netVars, postVars, hostVars
  <2>2. "send.disown" \in UserPlace /\ pc[t] \in Inside
    BY <2>1 DEF UserPlace, Inside
  <2>3. Calls(n)' = Calls(n) /\ Free(n)' = Free(n)
    BY <1>3, <2>1 DEF Calls, Free
  <2>4. DeviceInv(n)' /\ LockInv(n)'
    BY <1>1, <2>1, <2>2, <2>3, UserKeeps
  <2>5. CASE n # m
    BY <1>1, <1>2, <1>3, <2>1, <2>2, <2>3, <2>4, <2>5, UserKeeps DEF Done
  <2>6. CASE pc' = pc /\ sem[Sent(m)].value = 0 /\ n = m
    <3>1. Done(n)' = Done(n)
      BY <2>1, <2>6 DEF Done
    <3>2. QED
      BY <1>1, <2>1, <2>4, <2>6, <3>1, SentKept
  <2>7. CASE sem[Sent(m)].value # 0 /\ n = m
    <3>1. Done(n) = 1 /\ sendDue[n] = 0
      <4>1. Done(n) # 0
        BY <2>7 DEF Done
      <4>2. QED
        BY <1>1, <1>4, <4>1 DEF SentInv
    <3>2. Done(n)' = 0 /\ sendDue'[n] = 0
      BY <2>1, <2>7, <3>1 DEF Done
    <3>3. pc'[t] = "send.disown" /\ \A u \in User : u # t => pc'[u] = pc[u]
      BY <1>1, <2>1, <2>2, <2>7, UserMoves
    <3>4. \A u \in User : Home[u] = n /\ pc[u] = "send.wait" => u = t
      <4>1. \A u \in User : Home[u] = n /\ pc[u] = "send.wait" => u \in Sender(n)
        BY DEF Sender, Inside
      <4>2. t \in Sender(n)
        BY <1>2, <2>1, <2>7, <4>1
      <4>3. QED
        BY <1>1, <4>1, <4>2 DEF LockInv
    <3>5. ~ \E u \in User : Home[u] = n /\ pc'[u] = "send.wait"
      BY <3>3, <3>4
    <3>6. sendDue'[n] + Done(n)' = 0
      BY <3>2
    <3>7. QED
      BY <2>4, <3>5, <3>6 DEF SentInv
  <2>8. QED
    BY <2>1, <2>5, <2>6, <2>7
<1>9. CASE SendDisown(t)
  <2>1. /\ pc[t] = "send.disown" /\ Moves(t, "send.unlock") /\ sem' = sem
        /\ inbox' = inbox /\ desk' = desk /\ up' = up /\ sendDue' = sendDue
    BY <1>9 DEF SendDisown, At, Goto, Moves, netVars, postVars, hostVars
  <2>2. "send.unlock" \in UserPlace /\ pc[t] \in Inside /\ pc[t] # "send.wait"
    BY <2>1 DEF UserPlace, Inside
  <2>3. QED
    BY <1>1, <2>1, <2>2, UserKeeps DEF Calls, Done, Free
<1>10. CASE SendUnlock(t)
  <2>1. /\ \A s \in Semaphore : s # SendLock(m) => sem'[s] = sem[s]
        /\ sem'[SendLock(m)].value = sem[SendLock(m)].value + 1
        /\ pc[t] = "send.unlock" /\ Moves(t, "idle")
        /\ inbox' = inbox /\ desk' = desk /\ up' = up /\ sendDue' = sendDue
    BY <1>1, <1>2, <1>3, <1>10, VPosts
       DEF SendUnlock, At, Goto, Moves, netVars, postVars, hostVars
  <2>2. "idle" \in UserPlace /\ pc[t] \in Inside
    BY <2>1 DEF UserPlace, Inside
  <2>3. Calls(n)' = Calls(n) /\ Done(n)' = Done(n)
    BY <1>3, <2>1 DEF Calls, Done
  <2>4. DeviceInv(n)' /\ SentInv(n)'
    BY <1>1, <2>1, <2>2, <2>3, UserKeeps
  <2>5. CASE n # m
    BY <1>1, <1>2, <1>3, <2>1, <2>2, <2>3, <2>4, <2>5, UserKeeps DEF Free
  <2>6. CASE n = m
    <3>1. t \in Sender(n)
      BY <1>2, <2>2, <2>6 DEF Sender
    <3>2. Free(n) = 0 /\ \A u \in Sender(n) : u = t
      BY <1>1, <3>1 DEF LockInv
    <3>3. Free(n)' = 1
      BY <2>1, <2>6, <3>2 DEF Free
    <3>4. pc'[t] = "idle" /\ \A u \in User : u # t => pc'[u] = pc[u]
      BY <1>1, <2>1, <2>2, UserMoves
    <3>5. Sender(n)' = {}
      BY <3>2, <3>4 DEF Sender, Inside
    <3>6. QED
      BY <2>4, <3>3, <3>5 DEF LockInv
  <2>7. QED
    BY <2>5, <2>6
<1>11. QED
  BY <1>5, <1>6, <1>7, <1>8, <1>9, <1>10 DEF UserStep

\* A machine is started with its worker before the first packet; it is stopped
\* with its semaphores as new.
LEMMA HostStep ==
    ASSUME PostInv, NEW m \in Machine, Start(m) \/ Stop(m), NEW n \in Machine
    PROVE  LockInv(n)' /\ DeviceInv(n)' /\ SentInv(n)'
<1>1. TypeInv /\ LockInv(n) /\ DeviceInv(n) /\ SentInv(n)
  BY DEF PostInv, SignalInv
<1>2. CASE Start(m)
  <2>1. /\ Moves(Worker[m], "worker.wait") /\ sem' = sem /\ ~ up[m]
        /\ inbox' = inbox /\ desk' = desk /\ sendDue' = sendDue
        /\ up' = [up EXCEPT ![m] = TRUE]
    BY <1>2 DEF Start, Goto, Moves, synchVars, netVars, postVars
  <2>2. "worker.wait" \in WorkerPlace
    BY DEF WorkerPlace
  <2>3. /\ \A u \in User : pc'[u] = pc[u]
        /\ pc'[Worker[m]] = "worker.wait"
        /\ n # m => pc'[Worker[n]] = pc[Worker[n]] /\ up'[n] = up[n]
        /\ up'[m]
    BY <1>1, <2>1, <2>2, WorkerMoves DEF TypeInv
  <2>4. LockInv(n)' /\ SentInv(n)'
    BY <1>1, <2>1, <2>3, UsersStay DEF Free, Done
  <2>5. Calls(n)' = Calls(n)
    BY <2>1 DEF Calls
  <2>6. CASE n = m
    BY <1>1, <2>1, <2>3, <2>4, <2>5, <2>6 DEF DeviceInv
  <2>7. CASE n # m
    BY <1>1, <2>1, <2>3, <2>4, <2>5, <2>7, DeviceKept
  <2>8. QED
    BY <2>6, <2>7
<1>3. CASE Stop(m)
  <2>1. /\ pc' = [t \in Thread |-> IF Home[t] = m THEN "idle" ELSE pc[t]]
        /\ sem' = [s \in Semaphore |-> IF s[1] = m THEN InitialSemaphore(s) ELSE sem[s]]
        /\ inbox' = [inbox EXCEPT ![m] = NoMail] /\ desk' = [desk EXCEPT ![m] = NoMail]
        /\ sendDue' = [sendDue EXCEPT ![m] = 0] /\ up' = [up EXCEPT ![m] = FALSE]
    BY <1>1, <1>3 DEF Stop, TypeInv
  <2>2. /\ Available(n)[1] = n /\ Sent(n)[1] = n /\ SendLock(n)[1] = n
        /\ Available(n) \notin Lock /\ Sent(n) \notin Lock /\ SendLock(n) \in Lock
    BY DEF Available, Sent, SendLock, Lock
  <2>3. /\ Available(n) \in Semaphore /\ Sent(n) \in Semaphore /\ SendLock(n) \in Semaphore
    BY Names
  <2>4. /\ \A u \in User : pc'[u] = IF Home[u] = m THEN "idle" ELSE pc[u]
        /\ pc'[Worker[n]] = IF n = m THEN "idle" ELSE pc[Worker[n]]
    BY <2>1, Workers, PostAssumption
  <2>5. CASE n = m
    <3>1. Calls(n)' = 0 /\ Done(n)' = 0 /\ Free(n)' = 1
      BY <2>1, <2>2, <2>3, <2>5, Initial DEF Calls, Done, Free
    <3>2. inbox'[n] = NoMail /\ sendDue'[n] = 0 /\ ~ up'[n]
      BY <1>1, <2>1, <2>5 DEF TypeInv
    <3>3. Sender(n)' = {} /\ ~ \E u \in User : Home[u] = n /\ pc'[u] = "send.wait"
      BY <2>4, <2>5 DEF Sender, Inside
    <3>4. sendDue'[n] + Done(n)' = 0
      BY <3>1, <3>2
    <3>5. DeviceInv(n)'
      BY <2>4, <2>5, <3>1, <3>2 DEF DeviceInv
    <3>6. LockInv(n)'
      BY <3>1, <3>3 DEF LockInv
    <3>7. SentInv(n)'
      BY <3>3, <3>4 DEF SentInv
    <3>8. QED
      BY <3>5, <3>6, <3>7
  <2>6. CASE n # m
    <3>1. Calls(n)' = Calls(n) /\ Done(n)' = Done(n) /\ Free(n)' = Free(n)
      BY <2>1, <2>2, <2>3, <2>6 DEF Calls, Done, Free
    <3>2. /\ inbox'[n] = inbox[n] /\ desk'[n] = desk[n]
          /\ sendDue'[n] = sendDue[n] /\ up'[n] = up[n]
      BY <1>1, <2>1, <2>6 DEF TypeInv
    <3>3. \A u \in User : Home[u] = n => pc'[u] = pc[u]
      BY <2>4, <2>6
    <3>4. LockInv(n)' /\ SentInv(n)'
      BY <1>1, <3>1, <3>2, <3>3, LockKept, SentKept
    <3>5. QED
      BY <1>1, <2>4, <2>6, <3>1, <3>2, <3>4, DeviceKept
  <2>7. QED
    BY <2>5, <2>6
<1>4. QED
  BY <1>2, <1>3

\* Every step keeps the semaphores and what they count together.
LEMMA SignalStep == PostInv /\ [Next]_vars => SignalInv'
<1> SUFFICES ASSUME PostInv, [Next]_vars, NEW n \in Machine
             PROVE  LockInv(n)' /\ DeviceInv(n)' /\ SentInv(n)'
  BY DEF SignalInv
<1>1. CASE UNCHANGED vars
  <2>1. /\ sem' = sem /\ pc' = pc /\ inbox' = inbox /\ desk' = desk /\ up' = up
        /\ sendDue' = sendDue
    BY <1>1 DEF vars, synchVars, netVars, postVars, hostVars
  <2>2. LockInv(n) /\ DeviceInv(n) /\ SentInv(n)
    BY DEF PostInv, SignalInv
  <2>3. QED
    BY <2>1, <2>2 DEF LockInv, DeviceInv, SentInv, Sender, Free, Done, Calls
<1>2. QED
  BY <1>1, DeviceStep, InterruptStep, UserStepSignals, HostStep DEF Next, WorkerStep

-----------------------------------------------------------------------------
(* The route of mail.                                                      *)

Before(A, B) == \A x \in A, y \in B : InTurn(x, y)

\* A queue loses its first mail, which is before the others.
LEMMA HeadTail ==
    ASSUME NEW q \in Seq(AllMail), q # <<>>, InOrder(q)
    PROVE  /\ Head(q) \in AllMail /\ Tail(q) \in Seq(AllMail) /\ InOrder(Tail(q))
           /\ InQueue(q) = {Head(q)} \cup InQueue(Tail(q))
           /\ Before({Head(q)}, InQueue(Tail(q)))
<1>1. /\ Head(q) = q[1] /\ q[1] \in AllMail /\ Tail(q) \in Seq(AllMail)
      /\ DOMAIN q = 1 .. Len(q) /\ Len(q) \in Nat /\ Len(q) # 0
      /\ DOMAIN Tail(q) = 1 .. (Len(q) - 1)
      /\ \A i \in 1 .. (Len(q) - 1) : Tail(q)[i] = q[i + 1]
  OBVIOUS
<1>2. ASSUME NEW i \in DOMAIN Tail(q)
      PROVE  i \in Nat /\ i + 1 \in DOMAIN q /\ Tail(q)[i] = q[i + 1] /\ 1 < i + 1
  BY <1>1
<1>3. InOrder(Tail(q))
  BY <1>1, <1>2 DEF InOrder
<1>4. /\ 1 \in DOMAIN q
      /\ \A i \in DOMAIN q : i # 1 => i - 1 \in DOMAIN Tail(q) /\ i = (i - 1) + 1
  BY <1>1
<1>5. InQueue(q) = {Head(q)} \cup InQueue(Tail(q))
  <2>1. ASSUME NEW x \in InQueue(q) PROVE x \in {Head(q)} \cup InQueue(Tail(q))
    <3>1. PICK i \in DOMAIN q : x = q[i]
      BY DEF InQueue
    <3>2. CASE i = 1
      BY <1>1, <3>1, <3>2
    <3>3. CASE i # 1
      <4>1. i - 1 \in DOMAIN Tail(q) /\ i = (i - 1) + 1
        BY <1>4, <3>3
      <4>2. Tail(q)[i - 1] = q[(i - 1) + 1]
        BY <1>2, <4>1
      <4>3. Tail(q)[i - 1] = x
        BY <3>1, <4>1, <4>2
      <4>4. QED
        BY <4>1, <4>3 DEF InQueue
    <3>4. QED
      BY <3>2, <3>3
  <2>2. ASSUME NEW x \in {Head(q)} \cup InQueue(Tail(q)) PROVE x \in InQueue(q)
    BY <1>1, <1>2, <1>4 DEF InQueue
  <2>3. QED
    BY <2>1, <2>2
<1>6. Before({Head(q)}, InQueue(Tail(q)))
  BY <1>1, <1>2, <1>4 DEF Before, InQueue, InOrder
<1>7. QED
  BY <1>1, <1>3, <1>5, <1>6

\* A queue gets mail after all the others.
LEMMA Appended ==
    ASSUME NEW q \in Seq(AllMail), NEW x \in AllMail, InOrder(q), Before(InQueue(q), {x})
    PROVE  /\ Append(q, x) \in Seq(AllMail) /\ InOrder(Append(q, x))
           /\ InQueue(Append(q, x)) = InQueue(q) \cup {x}
<1> DEFINE r == Append(q, x)
<1>1. /\ r \in Seq(AllMail) /\ Len(q) \in Nat /\ DOMAIN q = 1 .. Len(q)
      /\ DOMAIN r = 1 .. (Len(q) + 1) /\ r[Len(q) + 1] = x
      /\ \A i \in 1 .. Len(q) : r[i] = q[i]
  OBVIOUS
<1> HIDE DEF r
<1>2. /\ \A i \in DOMAIN r : i # Len(q) + 1 => i \in DOMAIN q /\ r[i] = q[i]
      /\ Len(q) + 1 \in DOMAIN r /\ \A i \in DOMAIN q : i \in DOMAIN r /\ r[i] = q[i]
      /\ \A i, j \in DOMAIN r : i < j => i # Len(q) + 1
  <2>1. \A i \in DOMAIN r : i # Len(q) + 1 => i \in DOMAIN q
    BY <1>1
  <2>2. Len(q) + 1 \in DOMAIN r /\ \A i \in DOMAIN q : i \in DOMAIN r
    BY <1>1
  <2>3. \A i, j \in DOMAIN r : i < j => i # Len(q) + 1
    BY <1>1
  <2>4. QED
    BY <1>1, <2>1, <2>2, <2>3
<1>3. InQueue(r) = InQueue(q) \cup {x}
  BY <1>1, <1>2 DEF InQueue
<1>4. ASSUME NEW i \in DOMAIN r, NEW j \in DOMAIN r, i < j PROVE InTurn(r[i], r[j])
  <2>1. i \in DOMAIN q /\ r[i] = q[i]
    BY <1>2, <1>4
  <2>2. CASE j = Len(q) + 1
    BY <1>1, <2>1, <2>2 DEF Before, InQueue
  <2>3. CASE j # Len(q) + 1
    BY <1>2, <1>4, <2>1, <2>3 DEF InOrder
  <2>4. QED
    BY <2>2, <2>3
<1>5. QED
  BY <1>1, <1>3, <1>4 DEF InOrder, r

\* The queues of a machine just started.
LEMMA EmptyQueue == InQueue(<<>>) = {} /\ InOrder(<<>>) /\ <<>> \in Seq(AllMail)
BY DEF InQueue, InOrder

\* The mail in the boxes bx.
Filed(bx) == UNION {InQueue(bx[b]) : b \in Box}

\* The route of one machine: mail read, in the boxes, on the desk, buffered and
\* on its way; together the mail `alive`.
RouteInv(read, bx, onDesk, buffered, way, alive) ==
    /\ alive = InQueue(read) \cup Filed(bx) \cup onDesk \cup buffered \cup InQueue(way)
    /\ InOrder(read) /\ InOrder(way)
    /\ \A b \in Box : InOrder(bx[b]) /\ \A x \in InQueue(bx[b]) : x.box = b
    /\ Before(InQueue(read), Filed(bx)) /\ Before(InQueue(read), onDesk)
    /\ Before(InQueue(read), buffered) /\ Before(InQueue(read), InQueue(way))
    /\ Before(Filed(bx), onDesk) /\ Before(Filed(bx), buffered)
    /\ Before(Filed(bx), InQueue(way))
    /\ Before(onDesk, buffered) /\ Before(onDesk, InQueue(way))
    /\ Before(buffered, InQueue(way))

Alive(m) == {mail \in sent \ lost : mail.to = m}

\* InOrderOrLost is about the route of each machine, stage by stage.
LEMMA RouteParts ==
    InOrderOrLost <=> \A m \in Machine : RouteInv(taken[m], boxes[m], OnDesk(m), Buffered(m),
                                                  socket[m], Alive(m))
<1>1. \A m \in Machine : /\ Route(m)[1] = InQueue(taken[m]) /\ Route(m)[2] = Filed(boxes[m])
                         /\ Route(m)[3] = OnDesk(m) /\ Route(m)[4] = Buffered(m)
                         /\ Route(m)[5] = InQueue(socket[m])
  BY DEF Route, InBoxes, Filed
<1>2. 1 .. 5 = {1, 2, 3, 4, 5}
  OBVIOUS
<1>3. ASSUME NEW m \in Machine
      PROVE  /\ UNION {Route(m)[i] : i \in 1 .. 5}
                  = InQueue(taken[m]) \cup Filed(boxes[m]) \cup OnDesk(m) \cup Buffered(m)
                       \cup InQueue(socket[m])
             /\ (\A i, j \in 1 .. 5 : i < j => Before(Route(m)[i], Route(m)[j]))
                <=> /\ Before(Route(m)[1], Route(m)[2]) /\ Before(Route(m)[1], Route(m)[3])
                    /\ Before(Route(m)[1], Route(m)[4]) /\ Before(Route(m)[1], Route(m)[5])
                    /\ Before(Route(m)[2], Route(m)[3]) /\ Before(Route(m)[2], Route(m)[4])
                    /\ Before(Route(m)[2], Route(m)[5]) /\ Before(Route(m)[3], Route(m)[4])
                    /\ Before(Route(m)[3], Route(m)[5]) /\ Before(Route(m)[4], Route(m)[5])
  <2>1. {Route(m)[i] : i \in 1 .. 5}
          = {Route(m)[1], Route(m)[2], Route(m)[3], Route(m)[4], Route(m)[5]}
    BY <1>2
  <2>2. UNION {Route(m)[i] : i \in 1 .. 5}
          = Route(m)[1] \cup Route(m)[2] \cup Route(m)[3] \cup Route(m)[4] \cup Route(m)[5]
    BY <2>1
  <2>3. (\A i, j \in 1 .. 5 : i < j => Before(Route(m)[i], Route(m)[j]))
         <=> /\ Before(Route(m)[1], Route(m)[2]) /\ Before(Route(m)[1], Route(m)[3])
             /\ Before(Route(m)[1], Route(m)[4]) /\ Before(Route(m)[1], Route(m)[5])
             /\ Before(Route(m)[2], Route(m)[3]) /\ Before(Route(m)[2], Route(m)[4])
             /\ Before(Route(m)[2], Route(m)[5]) /\ Before(Route(m)[3], Route(m)[4])
             /\ Before(Route(m)[3], Route(m)[5]) /\ Before(Route(m)[4], Route(m)[5])
    BY <1>2
  <2>4. QED
    BY <1>1, <2>2, <2>3
<1>4. InOrderOrLost <=>
        \A m \in Machine :
          /\ Alive(m) = UNION {Route(m)[i] : i \in 1 .. 5}
          /\ InOrder(taken[m]) /\ InOrder(socket[m])
          /\ \A b \in Box : InOrder(boxes[m][b]) /\ \A x \in InQueue(boxes[m][b]) : x.box = b
          /\ \A i, j \in 1 .. 5 : i < j => Before(Route(m)[i], Route(m)[j])
  BY DEF InOrderOrLost, Alive, Before
<1>5. ASSUME NEW m \in Machine
      PROVE  (/\ Alive(m) = UNION {Route(m)[i] : i \in 1 .. 5}
              /\ InOrder(taken[m]) /\ InOrder(socket[m])
              /\ \A b \in Box : InOrder(boxes[m][b]) /\ \A x \in InQueue(boxes[m][b]) : x.box = b
              /\ \A i, j \in 1 .. 5 : i < j => Before(Route(m)[i], Route(m)[j]))
             <=> RouteInv(taken[m], boxes[m], OnDesk(m), Buffered(m), socket[m], Alive(m))
  BY <1>1, <1>3 DEF RouteInv
<1>6. QED
  BY <1>4, <1>5

\* Mail before two sets is before each of them, and after likewise.
LEMMA BeforeAll ==
    /\ \A A, B, C : Before(A \cup B, C) <=> Before(A, C) /\ Before(B, C)
    /\ \A A, B, C : Before(A, B \cup C) <=> Before(A, B) /\ Before(A, C)
    /\ \A A : Before({}, A) /\ Before(A, {})
BY DEF Before

\* A datagram is buffered.
LEMMA Polled ==
    ASSUME NEW read, NEW bx, NEW onDesk, NEW way \in Seq(AllMail), NEW alive,
           RouteInv(read, bx, onDesk, {}, way, alive), way # <<>>
    PROVE  RouteInv(read, bx, onDesk, {Head(way)}, Tail(way), alive)
<1>1. /\ InOrder(Tail(way)) /\ Before({Head(way)}, InQueue(Tail(way)))
      /\ InQueue(way) = {Head(way)} \cup InQueue(Tail(way))
  BY HeadTail DEF RouteInv
<1> DEFINE h == {Head(way)} r == InQueue(Tail(way)) w == InQueue(way)
<1>2. w = h \cup r /\ Before(h, r)
  BY <1>1
<1>3. /\ alive = InQueue(read) \cup Filed(bx) \cup onDesk \cup {} \cup w
      /\ Before(InQueue(read), w) /\ Before(Filed(bx), w) /\ Before(onDesk, w)
  BY DEF RouteInv
<1> HIDE DEF h, r, w
<1>4. /\ alive = InQueue(read) \cup Filed(bx) \cup onDesk \cup h \cup r
      /\ Before(InQueue(read), h) /\ Before(Filed(bx), h) /\ Before(onDesk, h)
      /\ Before(InQueue(read), r) /\ Before(Filed(bx), r) /\ Before(onDesk, r)
  BY <1>2, <1>3, BeforeAll
<1>5. QED
  BY <1>1, <1>2, <1>4 DEF RouteInv, h, r

\* The worker has the packet from the device.
LEMMA Fetched ==
    ASSUME NEW read, NEW bx, NEW buffered, NEW way, NEW alive,
           RouteInv(read, bx, {}, buffered, way, alive)
    PROVE  RouteInv(read, bx, buffered, {}, way, alive)
BY BeforeAll DEF RouteInv

\* It puts the packet into its box.
LEMMA PutInBox ==
    ASSUME NEW read, NEW bx \in [Box -> Seq(AllMail)], NEW x \in AllMail, NEW buffered,
           NEW way, NEW alive, RouteInv(read, bx, {x}, buffered, way, alive)
    PROVE  RouteInv(read, [bx EXCEPT ![x.box] = Append(@, x)], {}, buffered, way, alive)
<1> DEFINE by == [bx EXCEPT ![x.box] = Append(bx[x.box], x)]
<1>1. x.box \in Box
  BY DEF AllMail
<1>2. /\ by[x.box] = Append(bx[x.box], x)
      /\ \A b \in Box : b # x.box => by[b] = bx[b]
  BY <1>1
<1> HIDE DEF by
<1>3. Before(Filed(bx), {x}) /\ \A b \in Box : InQueue(bx[b]) \subseteq Filed(bx)
  BY DEF RouteInv, Filed
<1>4. Before(InQueue(bx[x.box]), {x})
  BY <1>1, <1>3 DEF Before
<1>5. /\ InOrder(by[x.box]) /\ InQueue(by[x.box]) = InQueue(bx[x.box]) \cup {x}
  BY <1>1, <1>2, <1>4, Appended DEF RouteInv
<1>6. Filed(by) = Filed(bx) \cup {x}
  <2>1. ASSUME NEW b \in Box PROVE InQueue(by[b]) \subseteq Filed(bx) \cup {x}
    <3>1. CASE b = x.box
      BY <1>3, <1>5, <3>1
    <3>2. CASE b # x.box
      BY <1>2, <1>3, <3>2
    <3>3. QED
      BY <3>1, <3>2
  <2>2. \A b \in Box : InQueue(bx[b]) \subseteq InQueue(by[b])
    BY <1>2, <1>5
  <2>3. x \in Filed(by) /\ \A y : y \in Filed(bx) => y \in Filed(by)
    BY <1>1, <1>5, <2>2 DEF Filed
  <2>4. \A y : y \in Filed(by) => y \in Filed(bx) \cup {x}
    BY <2>1 DEF Filed
  <2>5. QED
    BY <2>3, <2>4
<1>7. \A b \in Box : InOrder(by[b]) /\ \A y \in InQueue(by[b]) : y.box = b
  BY <1>2, <1>5 DEF RouteInv
<1>8. /\ Before(InQueue(read), Filed(by)) /\ Before(Filed(by), buffered)
      /\ Before(Filed(by), InQueue(way))
  BY <1>6, BeforeAll DEF RouteInv
<1>9. alive = InQueue(read) \cup Filed(by) \cup {} \cup buffered \cup InQueue(way)
  BY <1>6 DEF RouteInv
<1>10. RouteInv(read, by, {}, buffered, way, alive)
  BY <1>7, <1>8, <1>9, BeforeAll DEF RouteInv
<1>11. QED
  BY <1>10 DEF by

\* The oldest mail of box b is read: only mail of that box can be in turn with it.
LEMMA ReadFromBox ==
    ASSUME NEW read \in Seq(AllMail), NEW bx \in [Box -> Seq(AllMail)], NEW onDesk,
           NEW buffered, NEW way, NEW alive, NEW b \in Box,
           RouteInv(read, bx, onDesk, buffered, way, alive), bx[b] # <<>>
    PROVE  RouteInv(Append(read, Head(bx[b])), [bx EXCEPT ![b] = Tail(@)],
                    onDesk, buffered, way, alive)
<1> DEFINE by == [bx EXCEPT ![b] = Tail(bx[b])]
           x == Head(bx[b])
           q == bx[b]
<1>1. q \in Seq(AllMail) /\ by[b] = Tail(q) /\ \A c \in Box : c # b => by[c] = bx[c]
  OBVIOUS
<1>2. /\ x \in AllMail /\ InOrder(Tail(q)) /\ InQueue(q) = {x} \cup InQueue(Tail(q))
      /\ Before({x}, InQueue(Tail(q)))
  BY <1>1, HeadTail DEF RouteInv
<1>3. q = bx[b]
  OBVIOUS
<1> HIDE DEF by, x, q
<1>4. x \in Filed(bx) /\ x.box = b
  BY <1>2, <1>3 DEF RouteInv, Filed
<1>5. Filed(bx) = {x} \cup Filed(by)
  <2>1. \A c \in Box : InQueue(by[c]) \subseteq InQueue(bx[c])
    BY <1>1, <1>2, <1>3
  <2>2. \A y : y \in Filed(by) => y \in Filed(bx)
    BY <2>1 DEF Filed
  <2>3. \A c \in Box : InQueue(bx[c]) \subseteq {x} \cup InQueue(by[c])
    BY <1>1, <1>2, <1>3
  <2>4. \A y : y \in Filed(bx) => y \in {x} \cup Filed(by)
    BY <2>3 DEF Filed
  <2>5. QED
    BY <1>4, <2>2, <2>4
<1>6. \A c \in Box : InOrder(by[c]) /\ \A y \in InQueue(by[c]) : y.box = c
  BY <1>1, <1>2, <1>3 DEF RouteInv
<1>7. Before({x}, Filed(by))
  <2>1. ASSUME NEW c \in Box, NEW y \in InQueue(by[c]) PROVE InTurn(x, y)
    <3>1. CASE c = b
      BY <1>1, <1>2, <2>1, <3>1 DEF Before
    <3>2. CASE c # b
      BY <1>4, <1>6, <2>1, <3>2 DEF InTurn
    <3>3. QED
      BY <3>1, <3>2
  <2>2. QED
    BY <2>1 DEF Before, Filed
<1>8. /\ Before(InQueue(read), {x}) /\ Before(InQueue(read), Filed(by))
      /\ Before({x}, onDesk) /\ Before(Filed(by), onDesk)
      /\ Before({x}, buffered) /\ Before(Filed(by), buffered)
      /\ Before({x}, InQueue(way)) /\ Before(Filed(by), InQueue(way))
  BY <1>5, BeforeAll DEF RouteInv
<1>9. InOrder(Append(read, x)) /\ InQueue(Append(read, x)) = InQueue(read) \cup {x}
  BY <1>2, <1>8, Appended DEF RouteInv
<1>10. alive = InQueue(Append(read, x)) \cup Filed(by) \cup onDesk \cup buffered
                  \cup InQueue(way)
  BY <1>5, <1>9 DEF RouteInv
<1>11. /\ Before(InQueue(Append(read, x)), Filed(by)) /\ Before(InQueue(Append(read, x)), onDesk)
       /\ Before(InQueue(Append(read, x)), buffered)
       /\ Before(InQueue(Append(read, x)), InQueue(way))
  BY <1>7, <1>8, <1>9, BeforeAll DEF RouteInv
<1>12. RouteInv(Append(read, x), by, onDesk, buffered, way, alive)
  BY <1>6, <1>8, <1>9, <1>10, <1>11 DEF RouteInv
<1>13. QED
  BY <1>12 DEF by, x

\* Mail is sent after all that its sender sent before.
LEMMA Dispatched ==
    ASSUME NEW read, NEW bx, NEW onDesk, NEW buffered, NEW way \in Seq(AllMail), NEW alive,
           RouteInv(read, bx, onDesk, buffered, way, alive), NEW x \in AllMail,
           \A y \in alive : y.from = x.from => y.no < x.no
    PROVE  RouteInv(read, bx, onDesk, buffered, Append(way, x), alive \cup {x})
<1>1. Before(alive, {x})
  BY DEF Before, InTurn
<1>2. /\ Before(InQueue(read), {x}) /\ Before(Filed(bx), {x}) /\ Before(onDesk, {x})
      /\ Before(buffered, {x}) /\ Before(InQueue(way), {x})
  BY <1>1, BeforeAll DEF RouteInv
<1>3. InOrder(Append(way, x)) /\ InQueue(Append(way, x)) = InQueue(way) \cup {x}
  BY <1>2, Appended DEF RouteInv
<1>4. alive \cup {x} = InQueue(read) \cup Filed(bx) \cup onDesk \cup buffered
                           \cup InQueue(Append(way, x))
  BY <1>3 DEF RouteInv
<1>5. /\ Before(InQueue(read), InQueue(Append(way, x)))
      /\ Before(Filed(bx), InQueue(Append(way, x))) /\ Before(onDesk, InQueue(Append(way, x)))
      /\ Before(buffered, InQueue(Append(way, x)))
  BY <1>2, <1>3, BeforeAll DEF RouteInv
<1>6. QED
  BY <1>3, <1>4, <1>5 DEF RouteInv

\* What was not read is lost, and nothing that was read.
LEMMA Destroyed ==
    ASSUME NEW read \in Seq(AllMail), NEW bx, NEW onDesk, NEW buffered, NEW way, NEW alive,
           RouteInv(read, bx, onDesk, buffered, way, alive)
    PROVE  RouteInv(read, [b \in Box |-> <<>>], {}, {}, <<>>,
                    alive \ (InQueue(way) \cup buffered \cup onDesk \cup Filed(bx)))
<1>1. InQueue(read) \subseteq AllMail /\ \A x \in AllMail : ~ InTurn(x, x)
  <2>1. \A x \in AllMail : x.no \in Nat
    BY DEF AllMail
  <2>2. QED
    BY <2>1 DEF InQueue, InTurn
<1>2. ASSUME NEW x \in InQueue(read)
      PROVE  x \notin InQueue(way) \cup buffered \cup onDesk \cup Filed(bx)
  <2>1. ~ InTurn(x, x)
    BY <1>1, <1>2
  <2>2. QED
    BY <1>2, <2>1 DEF RouteInv, Before
<1>3. Filed([b \in Box |-> <<>>]) = {}
  BY EmptyQueue DEF Filed
<1>4. alive \ (InQueue(way) \cup buffered \cup onDesk \cup Filed(bx)) = InQueue(read)
  BY <1>2 DEF RouteInv
<1>5. \A b \in Box : [c \in Box |-> <<>>][b] = <<>>
  OBVIOUS
<1>6. QED
  BY <1>3, <1>4, <1>5, EmptyQueue, BeforeAll DEF RouteInv

-----------------------------------------------------------------------------
(* Mail in each step.                                                      *)

RoutesInv == \A m \in Machine : RouteInv(taken[m], boxes[m], OnDesk(m), Buffered(m),
                                         socket[m], Alive(m))

\* The same, of a state and of the next.
LEMMA RoutesEverywhere == InOrderOrLost <=> RoutesInv
BY RouteParts DEF RoutesInv

\* The same, of the next state.
LEMMA RoutesNext == RoutesInv' => InOrderOrLost'
BY RoutesEverywhere, PTL

RouteOf(n) == <<taken[n], boxes[n], OnDesk(n), Buffered(n), socket[n], Alive(n)>>

\* A step keeps the route of a machine of which it moves no mail.
LEMMA RouteKept ==
    ASSUME NEW n \in Machine, RoutesInv, RouteOf(n)' = RouteOf(n)
    PROVE  RouteInv(taken[n], boxes[n], OnDesk(n), Buffered(n), socket[n], Alive(n))'
BY DEF RoutesInv, RouteOf, RouteInv

\* What is buffered and what is on the desk follow from the device and the worker.
LEMMA SamePlaces ==
    ASSUME NEW n \in Machine
    PROVE  /\ inbox'[n] = inbox[n] => Buffered(n)' = Buffered(n)
           /\ desk'[n] = desk[n] /\ pc'[Worker[n]] = pc[Worker[n]] => OnDesk(n)' = OnDesk(n)
           /\ sent' = sent /\ lost' = lost => Alive(n)' = Alive(n)
BY DEF Buffered, OnDesk, Alive

\* The device and the worker move a packet along the route of their machine.
LEMMA DeviceRoute ==
    ASSUME PostInv, RoutesInv, NEW m \in Machine, NEW n \in Machine,
           Poll(m) \/ SendInterrupt(m) \/ WorkerStep(m)
    PROVE  RouteInv(taken[n], boxes[n], OnDesk(n), Buffered(n), socket[n], Alive(n))'
<1>1. /\ TypeInv /\ DeviceInv(m)
      /\ RouteInv(taken[n], boxes[n], OnDesk(n), Buffered(n), socket[n], Alive(n))
  BY DEF PostInv, SignalInv, RoutesInv
<1>2. taken' = taken /\ Alive(n)' = Alive(n)
  BY SamePlaces DEF Poll, SendInterrupt, WorkerStep, WorkerWait, WorkerReceive, WorkerPut, history
<1>3. CASE Poll(m)
  <2>1. /\ inbox[m] = NoMail /\ socket[m] # <<>> /\ pc' = pc /\ desk' = desk /\ boxes' = boxes
        /\ inbox' = [inbox EXCEPT ![m] = Head(socket[m])]
        /\ socket' = [socket EXCEPT ![m] = Tail(socket[m])]
    BY <1>3 DEF Poll, postVars
  <2>2. OnDesk(n)' = OnDesk(n)
    BY <2>1, SamePlaces
  <2>3. CASE n # m
    <3>1. socket'[n] = socket[n] /\ Buffered(n)' = Buffered(n)
      BY <1>1, <2>1, <2>3, SamePlaces DEF TypeInv
    <3>2. QED
      BY <1>2, <2>1, <2>2, <3>1, RouteKept DEF RouteOf
  <2>4. CASE n = m
    <3>1. /\ socket[n] \in Seq(AllMail) /\ Head(socket[n]) \in AllMail
          /\ socket'[n] = Tail(socket[n]) /\ inbox'[n] = Head(socket[n])
      BY <1>1, <2>1, <2>4 DEF TypeInv
    <3>2. Buffered(n) = {} /\ Buffered(n)' = {Head(socket[n])}
      BY <2>1, <2>4, <3>1, NoMailApart DEF Buffered
    <3>3. RouteInv(taken[n], boxes[n], OnDesk(n), {Head(socket[n])}, Tail(socket[n]), Alive(n))
      BY <1>1, <2>1, <2>4, <3>1, <3>2, Polled
    <3>4. QED
      BY <1>2, <2>1, <2>2, <3>1, <3>2, <3>3 DEF RouteInv
  <2>5. QED
    BY <2>3, <2>4
<1>4. CASE SendInterrupt(m)
  <2>1. UNCHANGED <<pc, desk, boxes, inbox, socket>>
    BY <1>4 DEF SendInterrupt, postVars
  <2>2. OnDesk(n)' = OnDesk(n) /\ Buffered(n)' = Buffered(n)
    BY <2>1, SamePlaces
  <2>3. QED
    BY <1>2, <2>1, <2>2, RouteKept DEF RouteOf
<1>5. CASE WorkerWait(m)
  <2>1. UNCHANGED <<desk, boxes, inbox, socket>> /\ pc[Worker[m]] = "worker.wait"
    BY <1>5 DEF WorkerWait, postVars, netVars, At
  <2>2. Worker[m] \in Thread /\ Available(m) \in Semaphore /\ "worker.receive" \in WorkerPlace
    BY Workers, Names DEF WorkerPlace
  <2>3. pc' = pc \/ Moves(Worker[m], "worker.receive")
    BY <1>1, <1>5, <2>2, PTakes DEF WorkerWait, Moves
  <2>4. pc'[Worker[n]] # pc[Worker[n]] =>
           pc[Worker[n]] = "worker.wait" /\ pc'[Worker[n]] = "worker.receive"
    <3>1. CASE pc' = pc
      BY <3>1
    <3>2. CASE Moves(Worker[m], "worker.receive")
      <4>1. /\ n # m => pc'[Worker[n]] = pc[Worker[n]]
            /\ pc'[Worker[m]] = "worker.receive"
        BY <1>1, <2>2, <3>2, WorkerMoves
      <4>2. QED
        BY <2>1, <4>1
    <3>3. QED
      BY <2>3, <3>1, <3>2
  <2>5. OnDesk(n)' = OnDesk(n) /\ Buffered(n)' = Buffered(n)
    BY <2>1, <2>4 DEF OnDesk, Buffered
  <2>6. QED
    BY <1>2, <2>1, <2>5, RouteKept DEF RouteOf
<1>6. CASE WorkerReceive(m)
  <2>1. /\ pc[Worker[m]] = "worker.receive" /\ Moves(Worker[m], "worker.put")
        /\ desk' = [desk EXCEPT ![m] = IF inbox[m] = NoMail THEN desk[m] ELSE inbox[m]]
        /\ inbox' = [inbox EXCEPT ![m] = NoMail] /\ socket' = socket /\ boxes' = boxes
    BY <1>6 DEF WorkerReceive, At, Goto, Moves
  <2>2. "worker.put" \in WorkerPlace
    BY DEF WorkerPlace
  <2>3. CASE n # m
    <3>1. desk'[n] = desk[n] /\ inbox'[n] = inbox[n] /\ pc'[Worker[n]] = pc[Worker[n]]
      BY <1>1, <2>1, <2>2, <2>3, WorkerMoves DEF TypeInv
    <3>2. OnDesk(n)' = OnDesk(n) /\ Buffered(n)' = Buffered(n)
      BY <3>1, SamePlaces
    <3>3. QED
      BY <1>2, <2>1, <3>2, RouteKept DEF RouteOf
  <2>4. CASE n = m
    <3>1. inbox[n] # NoMail
      BY <1>1, <2>1, <2>4, Values DEF DeviceInv
    <3>2. desk'[n] = inbox[n] /\ inbox'[n] = NoMail /\ pc'[Worker[n]] = "worker.put"
      BY <1>1, <2>1, <2>2, <2>4, <3>1, WorkerMoves DEF TypeInv
    <3>3. /\ OnDesk(n) = {} /\ Buffered(n) = {inbox[n]}
          /\ OnDesk(n)' = {inbox[n]} /\ Buffered(n)' = {}
      BY <2>1, <2>4, <3>1, <3>2 DEF OnDesk, Buffered
    <3>4. RouteInv(taken[n], boxes[n], {inbox[n]}, {}, socket[n], Alive(n))
      BY <1>1, <3>3, Fetched
    <3>5. QED
      BY <1>2, <2>1, <3>3, <3>4 DEF RouteInv
  <2>5. QED
    BY <2>3, <2>4
<1>7. CASE WorkerPut(m)
  <2>1. /\ pc[Worker[m]] = "worker.put" /\ Moves(Worker[m], "worker.wait")
        /\ boxes' = [boxes EXCEPT ![m][desk[m].box] = Append(@, desk[m])]
        /\ UNCHANGED <<desk, inbox, socket>>
    BY <1>7 DEF WorkerPut, At, Goto, Moves, netVars
  <2>2. "worker.wait" \in WorkerPlace
    BY DEF WorkerPlace
  <2>3. Buffered(n)' = Buffered(n)
    BY <2>1, SamePlaces
  <2>4. CASE n # m
    <3>1. pc'[Worker[n]] = pc[Worker[n]] /\ boxes'[n] = boxes[n]
      BY <1>1, <2>1, <2>2, <2>4, WorkerMoves DEF TypeInv
    <3>2. OnDesk(n)' = OnDesk(n)
      BY <2>1, <3>1, SamePlaces
    <3>3. QED
      BY <1>2, <2>1, <2>3, <3>1, <3>2, RouteKept DEF RouteOf
  <2>5. CASE n = m
    <3>1. desk[n] \in AllMail /\ boxes[n] \in [Box -> Seq(AllMail)]
      BY <1>1, <2>1, <2>5 DEF DeviceInv, TypeInv
    <3>2. pc'[Worker[n]] = "worker.wait"
      BY <1>1, <2>1, <2>2, <2>5, WorkerMoves
    <3>3. OnDesk(n) = {desk[n]} /\ OnDesk(n)' = {}
      BY <2>1, <2>5, <3>2 DEF OnDesk
    <3>4. boxes'[n] = [boxes[n] EXCEPT ![desk[n].box] = Append(@, desk[n])]
      BY <1>1, <2>1, <2>5 DEF TypeInv
    <3>5. RouteInv(taken[n], [boxes[n] EXCEPT ![desk[n].box] = Append(@, desk[n])], {},
                   Buffered(n), socket[n], Alive(n))
      BY <1>1, <3>1, <3>3, PutInBox
    <3>6. QED
      BY <1>2, <2>1, <2>3, <3>3, <3>4, <3>5 DEF RouteInv
  <2>6. QED
    BY <2>4, <2>5
<1>8. QED
  BY <1>3, <1>4, <1>5, <1>6, <1>7 DEF WorkerStep

\* Mail on the route of a machine is addressed to it, sent and not lost.
LEMMA UserRoute ==
    ASSUME PostInv, RoutesInv, NEW t \in User, UserStep(t), NEW n \in Machine
    PROVE  RouteInv(taken[n], boxes[n], OnDesk(n), Buffered(n), socket[n], Alive(n))'
<1>1. /\ TypeInv /\ CallInv
      /\ RouteInv(taken[n], boxes[n], OnDesk(n), Buffered(n), socket[n], Alive(n))
  BY DEF PostInv, RoutesInv
<1>2. PICK p \in UserPlace : pc' = pc \/ Moves(t, p)
  <2>1. /\ "send.acquire" \in UserPlace /\ "receive.get" \in UserPlace /\ "idle" \in UserPlace
        /\ "send.packet" \in UserPlace /\ "send.wait" \in UserPlace
        /\ "send.disown" \in UserPlace /\ "send.unlock" \in UserPlace
    BY DEF UserPlace, Inside
  <2>2. CASE Call(t)
    BY <2>1, <2>2 DEF Call, Goto, Moves
  <2>3. CASE SendAcquire(t)
    BY <2>1, <2>3 DEF SendAcquire, Acquire, P, Moves
  <2>4. CASE SendPacket(t)
    BY <2>1, <2>4 DEF SendPacket, Goto, Moves
  <2>5. CASE SendWait(t)
    BY <2>1, <2>5 DEF SendWait, P, Moves
  <2>6. CASE SendDisown(t)
    BY <2>1, <2>6 DEF SendDisown, Goto, Moves
  <2>7. CASE SendUnlock(t)
    BY <2>1, <2>7 DEF SendUnlock, Goto, Moves
  <2>8. CASE Receive(t)
    BY <2>1, <2>8 DEF Receive, Goto, Moves
  <2>9. QED
    BY <2>2, <2>3, <2>4, <2>5, <2>6, <2>7, <2>8 DEF UserStep
<1>3. pc'[Worker[n]] = pc[Worker[n]]
  <2>1. CASE pc' = pc
    BY <2>1
  <2>2. CASE Moves(t, p)
    BY <1>1, <2>2, UserMoves
  <2>3. QED
    BY <1>2, <2>1, <2>2
<1>4. inbox' = inbox /\ desk' = desk
  BY DEF UserStep, Call, SendAcquire, SendPacket, SendWait, SendDisown, SendUnlock, Receive,
         netVars, postVars
<1>5. OnDesk(n)' = OnDesk(n) /\ Buffered(n)' = Buffered(n)
  BY <1>3, <1>4, SamePlaces
<1>6. CASE Call(t) \/ SendAcquire(t) \/ SendWait(t) \/ SendDisown(t) \/ SendUnlock(t)
  <2>1. UNCHANGED <<boxes, socket, sent, lost, taken>>
    BY <1>6 DEF Call, SendAcquire, SendWait, SendDisown, SendUnlock, netVars, postVars, history
  <2>2. QED
    BY <1>5, <2>1, SamePlaces, RouteKept DEF RouteOf
<1>7. CASE SendPacket(t)
  <2>1. /\ pc[t] = "send.packet" /\ taken' = taken /\ boxes' = boxes
        /\ sent' = sent \cup {cur[t]}
        /\ \/ lost' = lost \cup {cur[t]} /\ socket' = socket
           \/ /\ lost' = lost
              /\ socket' = [socket EXCEPT ![cur[t].to] = Append(socket[cur[t].to], cur[t])]
    BY <1>7 DEF SendPacket, At, postVars
  <2>2. /\ cur[t] \in AllMail /\ cur[t].from = t
        /\ \A x \in sent : x.from = t => x.no < cur[t].no
    <3>1. cur[t] \in MailFrom(t) /\ \A x \in sent : x.from = t => x.no < cur[t].no
      BY <1>1, <2>1 DEF CallInv
    <3>2. cur[t].from = t
      BY <3>1 DEF MailFrom
    <3>3. QED
      BY <3>1, <3>2, MailFromAll
  <2>3. cur[t] \notin sent /\ cur[t] \notin lost /\ cur[t].to \in Machine
    <3>1. cur[t].no \in Nat /\ cur[t].to \in Machine
      BY <2>2 DEF AllMail
    <3>2. ~ (cur[t].no < cur[t].no)
      BY <3>1
    <3>3. QED
      BY <1>1, <2>2, <3>1, <3>2 DEF TypeInv
  <2>4. CASE lost' = lost \cup {cur[t]} /\ socket' = socket
    <3>1. Alive(n)' = Alive(n)
      BY <2>1, <2>3, <2>4 DEF Alive
    <3>2. QED
      BY <1>5, <2>1, <2>4, <3>1, RouteKept DEF RouteOf
  <2>5. CASE /\ lost' = lost
             /\ socket' = [socket EXCEPT ![cur[t].to] = Append(socket[cur[t].to], cur[t])]
    <3>1. CASE n # cur[t].to
      <4>1. Alive(n)' = Alive(n) /\ socket'[n] = socket[n]
        BY <1>1, <2>1, <2>5, <3>1 DEF Alive, TypeInv
      <4>2. QED
        BY <1>5, <2>1, <4>1, RouteKept DEF RouteOf
    <3>2. CASE n = cur[t].to
      <4>1. Alive(n)' = Alive(n) \cup {cur[t]}
        BY <2>1, <2>3, <2>5, <3>2 DEF Alive
      <4>2. socket'[n] = Append(socket[n], cur[t]) /\ socket[n] \in Seq(AllMail)
        BY <1>1, <2>5, <3>2 DEF TypeInv
      <4>3. \A y \in Alive(n) : y.from = cur[t].from => y.no < cur[t].no
        BY <2>2 DEF Alive
      <4>4. RouteInv(taken[n], boxes[n], OnDesk(n), Buffered(n), Append(socket[n], cur[t]),
                     Alive(n) \cup {cur[t]})
        BY <1>1, <2>2, <4>2, <4>3, Dispatched
      <4>5. QED
        BY <1>5, <2>1, <4>1, <4>2, <4>4 DEF RouteInv
    <3>3. QED
      BY <3>1, <3>2
  <2>6. QED
    BY <2>1, <2>4, <2>5
<1>8. CASE Receive(t)
  <2>1. PICK m \in Machine, b \in Box : m = Home[t] /\ b = cur[t].box
    BY <1>1, <1>8, Workers DEF Receive, CallInv, At
  <2>2. /\ boxes[m][b] # <<>>
        /\ taken' = [taken EXCEPT ![m] = Append(taken[m], Head(boxes[m][b]))]
        /\ boxes' = [boxes EXCEPT ![m][b] = Tail(@)]
        /\ UNCHANGED <<socket, sent, lost>>
    BY <1>8, <2>1 DEF Receive, netVars
  <2>3. Alive(n)' = Alive(n)
    BY <2>2, SamePlaces
  <2>4. CASE n # m
    <3>1. taken'[n] = taken[n] /\ boxes'[n] = boxes[n]
      BY <1>1, <2>2, <2>4 DEF TypeInv
    <3>2. QED
      BY <1>5, <2>2, <2>3, <3>1, RouteKept DEF RouteOf
  <2>5. CASE n = m
    <3>1. /\ taken'[n] = Append(taken[n], Head(boxes[n][b]))
          /\ boxes'[n] = [boxes[n] EXCEPT ![b] = Tail(@)]
          /\ taken[n] \in Seq(AllMail) /\ boxes[n] \in [Box -> Seq(AllMail)]
      BY <1>1, <2>2, <2>5 DEF TypeInv
    <3>2. RouteInv(Append(taken[n], Head(boxes[n][b])), [boxes[n] EXCEPT ![b] = Tail(@)],
                   OnDesk(n), Buffered(n), socket[n], Alive(n))
      BY <1>1, <2>2, <2>5, <3>1, ReadFromBox
    <3>3. QED
      BY <1>5, <2>2, <2>3, <3>1, <3>2 DEF RouteInv
  <2>6. QED
    BY <2>4, <2>5
<1>9. QED
  BY <1>6, <1>7, <1>8 DEF UserStep

\* A start moves no mail; a stop loses what had not been read.
LEMMA HostRoute ==
    ASSUME PostInv, RoutesInv, NEW m \in Machine, Start(m) \/ Stop(m), NEW n \in Machine
    PROVE  RouteInv(taken[n], boxes[n], OnDesk(n), Buffered(n), socket[n], Alive(n))'
<1>1. /\ TypeInv /\ DeviceInv(m)
      /\ RouteInv(taken[m], boxes[m], OnDesk(m), Buffered(m), socket[m], Alive(m))
  BY DEF PostInv, SignalInv, RoutesInv
<1>2. CASE Start(m)
  <2>1. /\ Moves(Worker[m], "worker.wait") /\ "worker.wait" \in WorkerPlace /\ ~ up[m]
        /\ UNCHANGED <<boxes, desk, inbox, socket, sent, lost, taken>>
    BY <1>2 DEF Start, Goto, Moves, WorkerPlace, netVars, postVars, history
  <2>2. /\ pc'[Worker[m]] = "worker.wait" /\ pc[Worker[m]] = "idle"
        /\ n # m => pc'[Worker[n]] = pc[Worker[n]]
    BY <1>1, <2>1, WorkerMoves DEF DeviceInv
  <2>3. OnDesk(n)' = OnDesk(n)
    BY <2>1, <2>2 DEF OnDesk
  <2>4. QED
    BY <2>1, <2>3, SamePlaces, RouteKept DEF RouteOf
<1>3. CASE Stop(m)
  <2>1. /\ pc' = [t \in Thread |-> IF Home[t] = m THEN "idle" ELSE pc[t]]
        /\ lost' = lost \cup (InQueue(socket[m]) \cup Buffered(m) \cup OnDesk(m)
                                \cup Filed(boxes[m]))
        /\ socket' = [socket EXCEPT ![m] = <<>>] /\ inbox' = [inbox EXCEPT ![m] = NoMail]
        /\ desk' = [desk EXCEPT ![m] = NoMail]
        /\ boxes' = [boxes EXCEPT ![m] = [b \in Box |-> <<>>]]
        /\ sent' = sent /\ taken' = taken
    BY <1>3 DEF Stop, InBoxes, Filed
  <2> DEFINE gone == InQueue(socket[m]) \cup Buffered(m) \cup OnDesk(m) \cup Filed(boxes[m])
  <2>2. gone \subseteq Alive(m)
    BY <1>1 DEF RouteInv
  <2>3. pc'[Worker[n]] = IF n = m THEN "idle" ELSE pc[Worker[n]]
    BY <2>1, Workers, PostAssumption
  <2>4. CASE n # m
    <3>1. /\ socket'[n] = socket[n] /\ inbox'[n] = inbox[n] /\ desk'[n] = desk[n]
          /\ boxes'[n] = boxes[n]
      BY <1>1, <2>1, <2>4 DEF TypeInv
    <3>2. \A x \in gone : x.to = m
      BY <2>2 DEF Alive
    <3>3. Alive(n)' = Alive(n)
      BY <2>1, <2>4, <3>2 DEF Alive
    <3>4. QED
      BY <2>1, <2>3, <2>4, <3>1, <3>3, SamePlaces, RouteKept DEF RouteOf
  <2>5. CASE n = m
    <3>1. /\ socket'[n] = <<>> /\ inbox'[n] = NoMail /\ boxes'[n] = [b \in Box |-> <<>>]
          /\ taken[n] \in Seq(AllMail)
      BY <1>1, <2>1, <2>5 DEF TypeInv
    <3>2. Buffered(n)' = {} /\ OnDesk(n)' = {}
      BY <2>3, <2>5, <3>1 DEF Buffered, OnDesk
    <3>3. Alive(n)' = Alive(n) \ gone
      BY <2>1, <2>5 DEF Alive
    <3>4. RouteInv(taken[n], [b \in Box |-> <<>>], {}, {}, <<>>, Alive(n) \ gone)
      BY <1>1, <2>5, <3>1, Destroyed
    <3>5. QED
      BY <2>1, <3>1, <3>2, <3>3, <3>4 DEF RouteInv
  <2>6. QED
    BY <2>4, <2>5
<1>4. QED
  BY <1>2, <1>3

\* Every step keeps mail in order on its route.
LEMMA RouteStep == PostInv /\ [Next]_vars => InOrderOrLost'
<1> SUFFICES ASSUME PostInv, [Next]_vars PROVE RoutesInv'
  BY RoutesNext
<1>1. RoutesInv
  BY RoutesEverywhere DEF PostInv
<1>2. SUFFICES ASSUME NEW n \in Machine
               PROVE  RouteInv(taken[n], boxes[n], OnDesk(n), Buffered(n), socket[n], Alive(n))'
  BY DEF RoutesInv
<1>3. CASE UNCHANGED vars
  <2>1. RouteOf(n)' = RouteOf(n)
    BY <1>3 DEF vars, RouteOf, OnDesk, Buffered, Alive, netVars, postVars, history
  <2>2. QED
    BY <1>1, <2>1, RouteKept
<1>4. QED
  BY <1>1, <1>3, DeviceRoute, UserRoute, HostRoute DEF Next

-----------------------------------------------------------------------------
(* The theorems.                                                           *)

\* The program starts with no mail and all machines down.
LEMMA PostInit == Init => PostInv
<1> SUFFICES ASSUME Init PROVE PostInv
  OBVIOUS
<1>1. TypeInv
  <2>1. "idle" \in UserPlace /\ "idle" \in WorkerPlace
    BY DEF UserPlace, WorkerPlace
  <2>2. sem \in [Semaphore -> [value : Nat, queue : Seq(Thread)]]
    BY Initial DEF Init
  <2>3. <<>> \in Seq(AllMail)
    OBVIOUS
  <2>4. QED
    BY <2>1, <2>2, <2>3, Workers DEF Init, TypeInv
<1>2. CallInv
  <2>1. /\ todo \in Workload /\ sent = {} /\ cur = [t \in Thread |-> NoMail]
        /\ \A t \in Thread : pc[t] = "idle"
    BY DEF Init
  <2>2. /\ DOMAIN todo = User
        /\ \A t \in User : todo[t] \in Seq(CallOf(t)) /\ Numbered(todo[t])
    BY <2>1, WorkloadAssumption
  <2>3. \A x : LET f == [t \in Thread |-> x] IN f = [t \in Thread |-> f[t]]
    OBVIOUS
  <2>4. \A t \in User : pc[t] \notin {"receive.get", "send.acquire", "send.packet"}
    BY <2>1, Workers
  <2>5. QED
    BY <2>1, <2>2, <2>3, <2>4 DEF CallInv
<1>3. ASSUME NEW m \in Machine PROVE LockInv(m) /\ DeviceInv(m) /\ SentInv(m)
  <2>1. /\ Available(m) \in Semaphore /\ Sent(m) \in Semaphore /\ SendLock(m) \in Semaphore
        /\ Available(m) \notin Lock /\ Sent(m) \notin Lock /\ SendLock(m) \in Lock
    BY Names DEF Available, Sent, SendLock, Lock
  <2>2. Calls(m) = 0 /\ Done(m) = 0 /\ Free(m) = 1
    BY <2>1, Initial DEF Init, Calls, Done, Free
  <2>3. \A t \in Thread : pc[t] = "idle"
    BY DEF Init
  <2>4. inbox[m] = NoMail /\ sendDue[m] = 0
    BY DEF Init
  <2>5. Sender(m) = {} /\ ~ \E t \in User : Home[t] = m /\ pc[t] = "send.wait"
    BY <2>3, Workers DEF Sender, Inside
  <2>6. sendDue[m] + Done(m) = 0
    BY <2>2, <2>4
  <2>7. LockInv(m)
    BY <2>2, <2>5 DEF LockInv
  <2>8. DeviceInv(m)
    BY <2>2, <2>3, <2>4, Workers DEF DeviceInv
  <2>9. SentInv(m)
    BY <2>5, <2>6 DEF SentInv
  <2>10. QED
    BY <2>7, <2>8, <2>9
<1>4. ASSUME NEW m \in Machine
      PROVE  RouteInv(taken[m], boxes[m], OnDesk(m), Buffered(m), socket[m], Alive(m))
  <2>1. /\ taken[m] = <<>> /\ boxes[m] = [b \in Box |-> <<>>] /\ socket[m] = <<>>
        /\ inbox[m] = NoMail /\ pc[Worker[m]] = "idle" /\ sent = {}
    BY Workers DEF Init
  <2>2. OnDesk(m) = {} /\ Buffered(m) = {} /\ Alive(m) = {}
    BY <2>1 DEF OnDesk, Buffered, Alive
  <2>3. Filed(boxes[m]) = {} /\ \A b \in Box : boxes[m][b] = <<>>
    BY <2>1, EmptyQueue DEF Filed
  <2>4. QED
    BY <2>1, <2>2, <2>3, EmptyQueue, BeforeAll DEF RouteInv
<1>5. QED
  BY <1>1, <1>2, <1>3, <1>4, RouteParts DEF PostInv, SignalInv

\* Every step keeps the invariant.
LEMMA PostNext == PostInv /\ [Next]_vars => PostInv'
BY TypeStep, CallStep, SignalStep, RouteStep DEF PostInv

\* The inductive invariant: types, the calls and the mail handed on in the order
\* of their numbers, the semaphores with what they count, and the mail on its
\* route.
THEOREM PostInvHolds == Spec => []PostInv
BY PostInit, PostNext, PTL DEF Spec

\* Mail handed to the network is lost, or at one place on the route of its machine
\* and in order behind what its sender sent before (network.h: "in order but
\* unreliably"), through any stops and starts.
THEOREM MailInOrder == Spec => []InOrderOrLost
<1>1. PostInv => InOrderOrLost
  BY DEF PostInv
<1>2. QED
  BY <1>1, PostInvHolds, PTL

\* One waiting sender and one packet are sets of one element.
LEMMA Counted == PostInv => SignalsMatch
<1> SUFFICES ASSUME PostInv, NEW m \in Machine
             PROVE  /\ Calls(m) + (IF pc[Worker[m]] = "worker.receive" THEN 1 ELSE 0)
                          = Cardinality(Buffered(m))
                    /\ sendDue[m] + Done(m)
                          = Cardinality({t \in User : Home[t] = m /\ pc[t] = "send.wait"})
                    /\ sendDue[m] + Done(m) <= 1
  BY DEF SignalsMatch, Calls, Done
<1>1. LockInv(m) /\ DeviceInv(m) /\ SentInv(m)
  BY DEF PostInv, SignalInv
<1>2. Cardinality(Buffered(m)) = IF inbox[m] = NoMail THEN 0 ELSE 1
  BY FS_EmptySet, FS_Singleton DEF Buffered
<1> DEFINE W == {t \in User : Home[t] = m /\ pc[t] = "send.wait"}
<1>3. \A t, u \in W : t = u
  BY <1>1 DEF LockInv, Sender, Inside
<1>4. sendDue[m] + Done(m) = 1 <=> W # {}
  BY <1>1 DEF SentInv
<1>5. sendDue[m] + Done(m) = Cardinality(W)
  <2>1. CASE W = {}
    <3>1. sendDue[m] + Done(m) = 0
      BY <1>1, <1>4, <2>1 DEF SentInv
    <3>2. QED
      BY <2>1, <3>1, FS_EmptySet
  <2>2. CASE W # {}
    <3>1. PICK t \in W : W = {t}
      BY <1>3, <2>2
    <3>2. QED
      BY <1>4, <2>2, <3>1, FS_Singleton
  <2>3. QED
    BY <2>1, <2>2
<1>6. QED
  BY <1>1, <1>2, <1>5 DEF DeviceInv, SentInv

\* The worker is called once for each packet in the device, and the interrupt of
\* a packet wakes its own sender, of which there is one at a time.
THEOREM SignalsCorrect == Spec => []SignalsMatch
BY Counted, PostInvHolds, PTL
=============================================================================
