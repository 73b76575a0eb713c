----------------------------- MODULE PostOffice -----------------------------
(***************************************************************************)
(* Machines that exchange mail: the simulated network device               *)
(* (machine/network.cc) and the post office above it (network/post.cc).    *)
(* A machine is one NachOS program; it may be stopped and started again.   *)
(* The wire is a socket of the host for each machine: datagrams, in order. *)
(* A mailbox is a SynchList, of which run kernel_io shows that it is a     *)
(* first-in-first-out queue; here it is that queue.                        *)
(***************************************************************************)
EXTENDS Synch, FiniteSets

CONSTANTS Machine,    \* hostName of each program
          Home,       \* the machine of each thread
          Worker,     \* the postal worker of each machine, a thread
          Box,        \* the mailboxes of a post office
          Workload,   \* what the user threads are to call
          NoMail,     \* an empty buffer, no argument
          MaxStarts   \* bound: how often machines are started in all

User == Thread \ {Worker[m] : m \in Machine}

\* Mail carries the number its sender gives it, which no code looks at.
Mail(t, n, m, b) == [from |-> t, no |-> n, to |-> m, box |-> b]
MailFrom(t) == [from : {t}, no : Nat, to : Machine, box : Box]

CallOf(t) == [op : {"Send"}, arg : MailFrom(t)]
                \cup [op : {"Receive"}, arg : [box : Box]]

\* The sends of q are numbered one after the other.
Numbered(q) == \A i, j \in DOMAIN q :
    i < j /\ q[i].op = "Send" /\ q[j].op = "Send" => q[i].arg.no < q[j].arg.no

ASSUME PostAssumption == /\ Home \in [Thread -> Machine]
                         /\ Worker \in [Machine -> Thread]
                         /\ \A m \in Machine : Home[Worker[m]] = m
                         /\ \A t \in Thread : NoMail \notin MailFrom(t)
                         /\ MaxStarts \in Nat
ASSUME WorkloadAssumption ==
    \A w \in Workload : /\ DOMAIN w = User
                         /\ \A t \in User : w[t] \in Seq(CallOf(t)) /\ Numbered(w[t])

VARIABLES todo,      \* the calls each user thread has still to make
          starts,    \* how often machines have been started
          up,        \* the machine is running: its socket has its name
          socket,    \* datagrams on their way to each machine
          inbox,     \* NetworkInput: the buffered packet (inHdr.length # 0)
          desk,      \* the worker's buffer: the last packet it was given
          boxes,     \* the mailboxes of each machine
          sendDue,   \* number of pending NetworkSendInt of each machine
          sent,      \* mail handed to the network (a history)
          lost,      \* mail the network dropped or a stop destroyed (a history)
          taken      \* mail received on each machine, in order (a history)

netVars  == <<socket, inbox, sendDue>>
postVars == <<desk, boxes>>
hostVars == <<starts, up>>
history  == <<sent, lost, taken>>
vars == <<synchVars, pc, callVars, todo, hostVars, netVars, postVars, history>>

Available(m) == <<m, "messageAvailable">>
Sent(m)      == <<m, "messageSent">>
SendLock(m)  == <<m, "sendLock">>

Lock      == Machine \X {"sendLock"}
Semaphore == Machine \X {"messageAvailable", "messageSent"} \cup Lock

InitialSemaphore(s) == NewSemaphore(IF s \in Lock THEN 1 ELSE 0)

Init == /\ sem = [s \in Semaphore |-> InitialSemaphore(s)]
        /\ holder = [l \in Lock |-> NoThread]
        /\ pc = [t \in Thread |-> "idle"]
        /\ cur = [t \in Thread |-> NoMail]
        /\ got = [t \in Thread |-> NoMail]
        /\ todo \in Workload
        /\ starts = 0
        /\ up = [m \in Machine |-> FALSE]
        /\ socket = [m \in Machine |-> <<>>]
        /\ inbox = [m \in Machine |-> NoMail]
        /\ desk = [m \in Machine |-> NoMail]
        /\ boxes = [m \in Machine |-> [b \in Box |-> <<>>]]
        /\ sendDue = [m \in Machine |-> 0]
        /\ sent = {}
        /\ lost = {}
        /\ taken = [m \in Machine |-> <<>>]

InQueue(q) == {q[i] : i \in DOMAIN q}
Buffered(m) == IF inbox[m] = NoMail THEN {} ELSE {inbox[m]}
OnDesk(m) == IF pc[Worker[m]] = "worker.put" THEN {desk[m]} ELSE {}
InBoxes(m) == UNION {InQueue(boxes[m][b]) : b \in Box}

-----------------------------------------------------------------------------
\* Mutant: a datagram is read although the last packet is still buffered.
PollAlways(m) ==
    /\ up[m] /\ socket[m] # <<>>
    /\ inbox' = [inbox EXCEPT ![m] = Head(socket[m])]
    /\ socket' = [socket EXCEPT ![m] = Tail(@)]
    /\ V(Available(m))
    /\ UNCHANGED <<holder, pc, callVars, todo, hostVars, sendDue, postVars, history>>

\* NetworkInput::CallBack, when there is a datagram and nothing is buffered.
\* It reschedules itself first in any case, so that it always comes again.
Poll(m) == /\ up[m] /\ inbox[m] = NoMail /\ socket[m] # <<>>
           /\ inbox' = [inbox EXCEPT ![m] = Head(socket[m])]
           /\ socket' = [socket EXCEPT ![m] = Tail(@)]
           /\ V(Available(m))
           /\ UNCHANGED <<holder, pc, callVars, todo, hostVars, sendDue, postVars, history>>

\* NetworkOutput::CallBack and PostOfficeOutput::CallBack.
SendInterrupt(m) ==
    /\ up[m] /\ sendDue[m] > 0
    /\ sendDue' = [sendDue EXCEPT ![m] = @ - 1]
    /\ V(Sent(m))
    /\ UNCHANGED <<holder, pc, callVars, todo, hostVars, socket, inbox, postVars, history>>

-----------------------------------------------------------------------------
\* The postal worker: wait for a packet, take it from the device, put it
\* into its mailbox.
WorkerWait(m) ==
    /\ At(Worker[m], "worker.wait")
    /\ P(Worker[m], Available(m), "worker.receive")
    /\ UNCHANGED <<holder, callVars, todo, hostVars, netVars, postVars, history>>

\* NetworkInput::Receive leaves the buffer alone when nothing is there.
WorkerReceive(m) ==
    /\ At(Worker[m], "worker.receive") /\ Goto(Worker[m], "worker.put")
    /\ desk' = [desk EXCEPT ![m] = IF inbox[m] = NoMail THEN @ ELSE inbox[m]]
    /\ inbox' = [inbox EXCEPT ![m] = NoMail]
    /\ UNCHANGED <<synchVars, callVars, todo, hostVars, socket, sendDue, boxes, history>>

WorkerPut(m) ==
    /\ At(Worker[m], "worker.put") /\ Goto(Worker[m], "worker.wait")
    /\ boxes' = [boxes EXCEPT ![m][desk[m].box] = Append(@, desk[m])]
    /\ UNCHANGED <<synchVars, callVars, todo, hostVars, netVars, desk, history>>

WorkerStep(m) == WorkerWait(m) \/ WorkerReceive(m) \/ WorkerPut(m)

-----------------------------------------------------------------------------
Call(t) == /\ At(t, "idle") /\ up[Home[t]]
           /\ todo[t] # <<>>
           /\ cur' = [cur EXCEPT ![t] = Head(todo[t]).arg]
           /\ todo' = [todo EXCEPT ![t] = Tail(@)]
           /\ Goto(t, IF Head(todo[t]).op = "Send" THEN "send.acquire" ELSE "receive.get")
           /\ UNCHANGED <<synchVars, got, hostVars, netVars, postVars, history>>

\* Mutant: messages are sent without the lock.
SendAcquireNothing(t) ==
    /\ At(t, "send.acquire") /\ Goto(t, "send.packet")
    /\ UNCHANGED <<synchVars, callVars, todo, hostVars, netVars, postVars, history>>

\* PostOfficeOutput::Send.
SendAcquire(t) ==
    /\ At(t, "send.acquire")
    /\ Acquire(t, SendLock(Home[t]), "send.packet")
    /\ UNCHANGED <<callVars, todo, hostVars, netVars, postVars, history>>

\* Mutant: a lost packet returns before the interrupt is scheduled.
SendScheduledLast(t) ==
    LET mail == cur[t]
    IN /\ At(t, "send.packet") /\ Goto(t, "send.wait")
       /\ sent' = sent \cup {mail}
       /\ \/ /\ lost' = lost \cup {mail}
             /\ UNCHANGED <<socket, sendDue>>
          \/ /\ up[mail.to]
             /\ sendDue' = [sendDue EXCEPT ![Home[t]] = @ + 1]
             /\ socket' = [socket EXCEPT ![mail.to] = Append(@, mail)]
             /\ UNCHANGED lost
       /\ UNCHANGED <<synchVars, callVars, todo, hostVars, inbox, postVars, taken>>

\* NetworkOutput::Send.  The interrupt is scheduled in any case; the packet
\* is lost by chance, or because no machine has the address: the host tries
\* for ten seconds, so that a machine started by then still gets it.
SendPacket(t) ==
    LET mail == cur[t]
    IN /\ At(t, "send.packet") /\ Goto(t, "send.wait")
       /\ sendDue' = [sendDue EXCEPT ![Home[t]] = @ + 1]
       /\ sent' = sent \cup {mail}
       /\ \/ /\ lost' = lost \cup {mail}
             /\ UNCHANGED socket
          \/ /\ up[mail.to]
             /\ socket' = [socket EXCEPT ![mail.to] = Append(@, mail)]
             /\ UNCHANGED lost
       /\ UNCHANGED <<synchVars, callVars, todo, hostVars, inbox, postVars, taken>>

SendWait(t) == /\ At(t, "send.wait")
               /\ P(t, Sent(Home[t]), "send.disown")
               /\ UNCHANGED <<holder, callVars, todo, hostVars, netVars, postVars, history>>

SendDisown(t) == /\ At(t, "send.disown") /\ Goto(t, "send.unlock")
                 /\ Disown(t, SendLock(Home[t]))
                 /\ UNCHANGED <<sem, callVars, todo, hostVars, netVars, postVars, history>>

SendUnlock(t) == /\ At(t, "send.unlock") /\ Goto(t, "idle")
                 /\ V(SendLock(Home[t]))
                 /\ UNCHANGED <<holder, callVars, todo, hostVars, netVars, postVars, history>>

\* PostOfficeInput::Receive: the oldest mail of a box, waiting for one.
Receive(t) == LET m == Home[t] b == cur[t].box
              IN /\ At(t, "receive.get") /\ Goto(t, "idle")
                 /\ boxes[m][b] # <<>>
                 /\ Returns(t, Head(boxes[m][b]))
                 /\ taken' = [taken EXCEPT ![m] = Append(@, Head(boxes[m][b]))]
                 /\ boxes' = [boxes EXCEPT ![m][b] = Tail(@)]
                 /\ UNCHANGED <<synchVars, cur, todo, hostVars, netVars, desk, sent, lost>>

UserStep(t) == \/ Call(t)
               \/ SendAcquire(t) \/ SendPacket(t) \/ SendWait(t)
               \/ SendDisown(t) \/ SendUnlock(t)
               \/ Receive(t)

-----------------------------------------------------------------------------
\* The program of machine m is started: its socket gets its name, the post
\* office is constructed and its worker runs.
Start(m) == /\ ~ up[m] /\ starts < MaxStarts
            /\ up' = [up EXCEPT ![m] = TRUE]
            /\ starts' = starts + 1
            /\ Goto(Worker[m], "worker.wait")
            /\ UNCHANGED <<synchVars, callVars, todo, netVars, postVars, history>>

\* It halts or is killed.  Its socket and its memory are gone, with the mail
\* in them; the next program makes the calls not begun yet.
Stop(m) == /\ up[m] /\ starts < MaxStarts
           /\ up' = [up EXCEPT ![m] = FALSE]
           /\ pc' = [t \in Thread |-> IF Home[t] = m THEN "idle" ELSE pc[t]]
           /\ sem' = [s \in DOMAIN sem |-> IF s[1] = m THEN InitialSemaphore(s) ELSE sem[s]]
           /\ holder' = [holder EXCEPT ![SendLock(m)] = NoThread]
           /\ lost' = lost \cup InQueue(socket[m]) \cup Buffered(m) \cup OnDesk(m) \cup InBoxes(m)
           /\ socket' = [socket EXCEPT ![m] = <<>>]
           /\ inbox' = [inbox EXCEPT ![m] = NoMail]
           /\ desk' = [desk EXCEPT ![m] = NoMail]
           /\ boxes' = [boxes EXCEPT ![m] = [b \in Box |-> <<>>]]
           /\ sendDue' = [sendDue EXCEPT ![m] = 0]
           /\ UNCHANGED <<callVars, todo, starts, sent, taken>>

Next == \/ \E m \in Machine : \/ Poll(m) \/ SendInterrupt(m) \/ WorkerStep(m)
                              \/ Start(m) \/ Stop(m)
        \/ \E t \in User : UserStep(t)

\* A running machine runs its ready threads and delivers its interrupts;
\* nobody need start a machine.
Fairness == /\ \A m \in Machine : /\ WF_vars(Poll(m))
                                  /\ WF_vars(SendInterrupt(m))
                                  /\ WF_vars(WorkerStep(m))
            /\ \A t \in User : WF_vars(UserStep(t))

Spec == Init /\ [][Next]_vars /\ Fairness

-----------------------------------------------------------------------------
\* Where mail for machine m may be, from the mail read there to the datagrams
\* on their way.
Route(m) ==
    <<InQueue(taken[m]), InBoxes(m), OnDesk(m), Buffered(m), InQueue(socket[m])>>

\* The mail of one sender to one box is in the order sent.
InTurn(x, y) == x.from = y.from /\ x.box = y.box => x.no < y.no
InOrder(q) == \A i, j \in DOMAIN q : i < j => InTurn(q[i], q[j])

\* "Fixed size packets, in order but unreliably" (network.h): mail handed to
\* the network is lost or at one place on the route of its machine, never at
\* two nor elsewhere; it is put into its own box, and the mail of one sender to
\* one box is never overtaken.
InOrderOrLost ==
    \A m \in Machine :
      /\ {mail \in sent \ lost : mail.to = m} = UNION {Route(m)[i] : i \in 1 .. 5}
      /\ InOrder(taken[m]) /\ InOrder(socket[m])
      /\ \A b \in Box : InOrder(boxes[m][b]) /\ \A x \in InQueue(boxes[m][b]) : x.box = b
      /\ \A i, j \in 1 .. 5 : i < j =>
            \A x \in Route(m)[i], y \in Route(m)[j] : InTurn(x, y)

\* The two semaphores of a machine count what they stand for: the worker is
\* called once for each packet it finds in the device, and a packet is sent
\* only when the last has left, so that its interrupt wakes its own sender.
SignalsMatch ==
    \A m \in Machine : up[m] =>
        /\ sem[Available(m)].value + (IF pc[Worker[m]] = "worker.receive" THEN 1 ELSE 0)
             = Cardinality(Buffered(m))
        /\ sendDue[m] + sem[Sent(m)].value
             = Cardinality({t \in User : Home[t] = m /\ pc[t] = "send.wait"})
        /\ sendDue[m] + sem[Sent(m)].value <= 1

Arriving(m) == InQueue(socket[m]) \cup Buffered(m) \cup OnDesk(m)

\* Mail that reached a socket gets into its mailbox, past any number of
\* other packets, and a Send returns even if its packet was dropped; unless
\* the machine is stopped.
MailArrives ==
    /\ \A m \in Machine : Arriving(m) # {} ~> (Arriving(m) = {} \/ ~ up[m])
    /\ \A t \in User : pc[t] = "send.acquire" ~> pc[t] = "idle"
=============================================================================
