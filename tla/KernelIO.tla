------------------------------ MODULE KernelIO ------------------------------
(***************************************************************************)
(* Kernel threads that call the synchronised list, the synchronous disk    *)
(* and the synchronous console, with the interrupts of the devices, and    *)
(* the file system of MP1: the composition of SynchList, SynchDisk,        *)
(* SynchConsole and StubFileSystem over the kernel's semaphores.  Each     *)
(* thread has a list of calls to make.                                     *)
(***************************************************************************)
EXTENDS SynchList, SynchDisk, SynchConsole, StubFileSystem

CONSTANTS Workload,    \* what the threads are to call: functions of Thread
          Input,       \* what may be typed: sequences of Char
          Content      \* what is written to sectors

VARIABLE todo          \* the calls each thread has still to make

vars == <<synchVars, pc, callVars, listVars, diskVars, consoleVars, fileVars, todo>>

\* The calls that are made, and the arguments that they have.
AllCalls == UNION {Range(w[t]) : w \in Workload, t \in Thread}

IsRequest(c) ==
    /\ c = [op |-> c.op, arg |-> c.arg]
    /\ \/ c.op = "Append" /\ c.arg \in Item
       \/ c.op \in {"RemoveFront", "Apply", "GetChar"}
       \/ c.op = "ReadSector" /\ c.arg.sector \in Sector
       \/ c.op = "WriteSector" /\ c.arg.sector \in Sector /\ c.arg.value \in Content
       \/ c.op \in {"PutChar", "PutInt"} /\ c.arg \in Nat \ {0}
       \/ c.op \in {"Create", "Open"}
       \/ c.op = "Read" /\ c.arg.size \in Int
       \/ /\ c.op = "Write" /\ c.arg.size \in Int /\ c.arg.bytes \in Seq(Nat)
          /\ Len(c.arg.bytes) = IF c.arg.size < 0 THEN 0 ELSE c.arg.size
       \/ c.op = "Close"

ASSUME WorkloadAssumption == /\ Workload \subseteq [Thread -> Seq(AllCalls)]
                             /\ \A c \in AllCalls : IsRequest(c)

ASSUME InputAssumption == EOF \in Char /\ Input \subseteq Seq(Char)

ASSUME FileAssumption == /\ NumOpen \in Nat
                         /\ Existing \in [DOMAIN Existing -> Seq(Nat)]

Lock == {"list", "disk", "out", "in"}

NoCall == [op |-> "none", arg |-> NoItem]

Init == /\ sem = [s \in Lock \cup {"disk.done", "out.done", "in.ready"} |->
                     NewSemaphore(IF s \in Lock THEN 1 ELSE 0)]
        /\ holder = [l \in Lock |-> NoThread]
        /\ pc = [t \in Thread |-> "idle"]
        /\ cur = [t \in Thread |-> NoCall]
        /\ got = [t \in Thread |-> NoItem]
        /\ ListInit
        /\ DiskInit
        /\ FileInit
        /\ \E input \in Input : ConsoleInit(input)
        /\ todo \in Workload

\* Where the code of a call begins.
Entry(op) == CASE op = "Append"      -> "append.acquire"
               [] op = "RemoveFront" -> "remove.acquire"
               [] op = "Apply"       -> "apply.acquire"
               [] op \in {"ReadSector", "WriteSector"} -> "disk.acquire"
               [] op \in {"PutChar", "PutInt"}         -> "out.acquire"
               [] op = "GetChar"     -> "in.acquire"
               [] op \in FileOp      -> "file.call"

Call(t) == /\ At(t, "idle")
           /\ todo[t] # <<>>
           /\ cur' = [cur EXCEPT ![t] = Head(todo[t])]
           /\ todo' = [todo EXCEPT ![t] = Tail(@)]
           /\ got' = [got EXCEPT ![t] = NoItem]
           /\ Goto(t, Entry(Head(todo[t]).op))
           /\ UNCHANGED <<synchVars, listVars, diskVars, consoleVars, fileVars>>

\* Nothing runs any more once a call has aborted NachOS.
ThreadStep(t) ==
    /\ ~ aborted
    /\ \/ Call(t)
       \/ ListStep(t)    /\ UNCHANGED <<diskVars, consoleVars, fileVars, todo>>
       \/ DiskStep(t)    /\ UNCHANGED <<listVars, consoleVars, fileVars, todo>>
       \/ ConsoleStep(t) /\ UNCHANGED <<listVars, diskVars, fileVars, todo>>
       \/ FileStep(t)    /\ UNCHANGED <<listVars, diskVars, consoleVars, todo>>

DiskDue  == ~ aborted /\ DiskInterrupt  /\ UNCHANGED <<listVars, consoleVars, fileVars, todo>>
WriteDue == ~ aborted /\ WriteInterrupt /\ UNCHANGED <<listVars, diskVars, fileVars, todo>>
ReadDue  == ~ aborted /\ ReadInterrupt  /\ UNCHANGED <<listVars, diskVars, fileVars, todo>>

Interrupt == DiskDue \/ WriteDue \/ ReadDue

Next == \/ \E t \in Thread : ThreadStep(t)
        \/ Interrupt
        \/ ~ aborted /\ EndOfFile /\ UNCHANGED <<listVars, diskVars, fileVars, todo>>

\* The scheduler runs every ready thread and the machine delivers every
\* interrupt that is due; only the end of the input need never be reached.
Fairness == /\ \A t \in Thread : WF_vars(ThreadStep(t))
            /\ WF_vars(DiskDue) /\ WF_vars(WriteDue) /\ WF_vars(ReadDue)

Spec == Init /\ [][Next]_vars /\ Fairness

-----------------------------------------------------------------------------
\* The offset of the file that a thread is to read is in front of it.
ReadsBefore(t) == /\ cur[t].op = "Read"
                  /\ cur[t].arg.id \in DOMAIN OpenFileTable
                  /\ OpenFileTable[cur[t].arg.id].currentOffset = -1

AbortsInFiles == aborted => \E t \in Thread : /\ pc[t] = "file.call"
                                              /\ cur[t].op \in {"Create", "Write"} \/ ReadsBefore(t)

\* Every ASSERT of the kernel and the devices: Lock::Release, Condition::Wait
\* and Condition::Signal run in the thread that holds the lock; a request
\* finds the disk idle and a character the display idle; a keystroke finds
\* the input buffer empty.  And the disk and the display are idle again when
\* their callers go on: nobody returns before the completion interrupt.  Of
\* the files, the ASSERT of Close: every entry has a descriptor of the host for
\* itself.  The other three do fail, in a program's Create (OpenForWrite,
\* sysdep.cc:312) or Write (WriteFile, :368) that the host refuses or cuts
\* short, and in its Read or Write of an entry whose offset an earlier
\* refusal has moved in front of the file (Lseek, :380): nowhere else does
\* NachOS abort.
AssertionsHold ==
    /\ \A t \in Thread :
         /\ pc[t] \in {"append.signal", "remove.wait", "list.disown"} =>
                HeldByCurrentThread(t, "list")
         /\ pc[t] = "disk.disown" => HeldByCurrentThread(t, "disk")
         /\ pc[t] = "out.disown" => HeldByCurrentThread(t, "out")
         /\ pc[t] = "in.disown" => HeldByCurrentThread(t, "in")
         /\ pc[t] \in {"disk.request", "disk.disown"} => ~ active
         /\ pc[t] \in {"out.put", "out.disown"} => ~ putBusy
    /\ readDue > 0 => incoming = EOF
    /\ \A id \in DOMAIN OpenFileTable : OpenFileTable[id].file \in DOMAIN hostOpen
    /\ \A id, other \in DOMAIN OpenFileTable :
           OpenFileTable[id].file = OpenFileTable[other].file => id = other
    /\ AbortsInFiles

\* The threads inside RemoveFront that are not enlisted on the condition,
\* and the thread that has appended an item and not signalled yet.
Collecting == {t \in Thread : \/ /\ pc[t] # "idle" /\ cur[t].op = "RemoveFront"
                                 /\ pc[t] \notin {"list.disown", "list.unlock"}
                                 /\ ~ Contains(waitQueue, t)
                              \/ pc[t] = "append.signal"}

\* Condition::Wait releases the lock before it sleeps, and a third thread may
\* take the item before the one that was woken: still, while some thread is
\* left on the condition, there is a thread on its way to every item.
NoLostSignal == waitQueue # <<>> => Len(list) <= Cardinality(Collecting)

\* Strings on the display are not interleaved: PutInt keeps the lock from its
\* first character to its last, although it sleeps after each.
OutputUnbroken ==
    \A i \in 1 .. Len(screen) :
        IF screen[i].at = 1
        THEN i = 1 \/ screen[i - 1].at = screen[i - 1].of
        ELSE i > 1 /\ screen[i - 1] = [screen[i] EXCEPT !.at = @ - 1]

\* Every character typed is returned by exactly one GetChar, in the order
\* typed, or is still in the buffer or in the file; an EOF that nobody typed
\* comes after all of them.
InputInOrder ==
    \/ taken \o typed = given /\ incoming = EOF
    \/ taken \o <<incoming>> \o typed = given
    \/ taken = given \o <<EOF>> /\ typed = <<>> /\ incoming = EOF

ConsoleStreams == OutputUnbroken /\ InputInOrder

-----------------------------------------------------------------------------
\* How a list call looks to its caller: made, done or not there.
ListCall(t) ==
    IF pc[t] = "idle" \/ cur[t].op \notin {"Append", "RemoveFront"} THEN "none"
    ELSE IF pc[t] \in {"append.signal", "list.disown", "list.unlock"} THEN "done"
    ELSE IF cur[t].op = "Append" THEN "enqueue" ELSE "dequeue"

ListVal(t) == IF ListCall(t) = "none" THEN NoItem
              ELSE IF cur[t].op = "Append" THEN cur[t].arg ELSE got[t]

ListCalls == [t \in Thread |-> ListCall(t)]
ListVals == [t \in Thread |-> ListVal(t)]

Fifo == INSTANCE BoundedFifo
            WITH fifo <- list, Room <- Nat, call <- ListCalls, val <- ListVals

\* The synchronised list is a first-in-first-out queue, without a bound, whose
\* calls take effect atomically; RemoveFront returns only with an item.
ImplementsFifo == Fifo!Spec

DiskCall(t) ==
    IF pc[t] = "idle" \/ cur[t].op \notin {"ReadSector", "WriteSector"}
    THEN [op |-> "none", sector |-> NoItem]
    ELSE [op |-> IF pc[t] \notin {"disk.acquire", "disk.request"} THEN "done"
                 ELSE IF cur[t].op = "ReadSector" THEN "read" ELSE "write",
          sector |-> cur[t].arg.sector]

DiskVal(t) == IF DiskCall(t).op = "none" THEN NoItem
              ELSE IF cur[t].op = "WriteSector" THEN cur[t].arg.value ELSE got[t]

DiskCalls == [t \in Thread |-> DiskCall(t)]
DiskVals == [t \in Thread |-> DiskVal(t)]

Store == INSTANCE AtomicStore
             WITH store <- sector, Value <- Content \cup {Blank}, NoValue <- NoItem,
                  call <- DiskCalls, val <- DiskVals

\* The synchronous disk is a store of sectors read and written atomically.
ImplementsStore == Store!Spec

FileCalls == {c \in AllCalls : c.op \in FileOp}

BehindDescriptor(fd) == IF fd \in DOMAIN hostOpen THEN hostOpen[fd] ELSE NoItem

InFileCall(t) == pc[t] # "idle" /\ cur[t].op \in FileOp

Opened == [id \in DOMAIN OpenFileTable |->
              [name |-> BehindDescriptor(OpenFileTable[id].file),
               at   |-> OpenFileTable[id].currentOffset]]

FileCall(t) == IF ~ InFileCall(t) THEN NoCall
               ELSE IF pc[t] = "file.call" THEN cur[t] ELSE [cur[t] EXCEPT !.op = "done"]
FileVal(t) == IF InFileCall(t) THEN got[t] ELSE NoItem

CallsOfFiles == [t \in Thread |-> FileCall(t)]
ValsOfFiles == [t \in Thread |-> FileVal(t)]

\* SysConsoleInput and SysConsoleOutput.
SysConsole == {0, 1}

Unix == INSTANCE UnixFiles
            WITH files <- hostFiles, InitialFiles <- Existing, NoResult <- NoItem,
                 Requests <- FileCalls, Descriptor <- 0 .. NumOpen - 1, Console <- SysConsole,
                 opened <- Opened, call <- CallsOfFiles, result <- ValsOfFiles

\* Where the code departs from that.  A refused Read, or Write of -1 bytes,
\* fails and moves the position back by one (openfile.h:46, 51).
Slips(t, d) == /\ Unix!Transfers(t, "Read", d) \/ Unix!Transfers(t, "Write", d)
               /\ Unix!Move(d, -1) /\ Unix!Done(t, -1, <<>>)
               /\ UNCHANGED hostFiles

\* A transfer with nothing to transfer fails (filesys.h:98, 111), although a
\* Read is to "return whatever is available" (syscall.h:138).
NothingFails(t, d) == Unix!Nothing(t, d) /\ Unix!Fail(t)

\* Open gives out the descriptors of the keyboard and the display, and they
\* are refused while no file has them (syscall.h:107-114).
ConsoleIsFile(t) == \/ Unix!OpenAs(t, SysConsole)
                    \/ Unix!Unopened(t) /\ Unix!Fail(t)

\* NachOS ends with a part of a Write in the file.
CutShort(t, d) == /\ aborted' /\ Unix!Transfers(t, "Write", d)
                  /\ \E k \in 1 .. Len(cur[t].arg.bytes) - 1 :
                         Unix!Put(d, SubSeq(cur[t].arg.bytes, 1, k))
                  /\ UNCHANGED <<Opened, CallsOfFiles, ValsOfFiles>>

Departs == \E t \in Thread :
              \/ ConsoleIsFile(t)
              \/ \E d \in DOMAIN OpenFileTable : \/ Slips(t, d) \/ NothingFails(t, d)
                                                \/ CutShort(t, d)

\* An OpenFileId stands for its file and a position of its own from Open to
\* Close, for whichever programs use it, and is refused after that: "these
\* functions are patterned after UNIX" (syscall.h:96), but for the four
\* departures above.
ImplementsUnixButDeparts == Unix!Init /\ [][Unix!Next \/ Departs]_(Unix!vars)

-----------------------------------------------------------------------------
\* When a request made at `now` is complete, from the mechanics: slot k of
\* the rotation passes sector k % SectorsPerTrack under the head, the arm has
\* arrived after Seek ticks, and a whole slot of the sector is needed.  A
\* read is shorter if such a slot has passed since the track buffer began.
Passes(k, s) == k % SectorsPerTrack = s % SectorsPerTrack

Mechanical(s, writing, now) ==
    LET slots == 0 .. (now + Seek(s)) \div RotationTime + SectorsPerTrack + 1
        next  == {k \in slots : Passes(k, s) /\ k * RotationTime >= now + Seek(s)}
        past  == {k \in slots : /\ Passes(k, s)
                                /\ bufferInit <= k * RotationTime
                                /\ k * RotationTime < now}
    IN  IF ~ writing /\ Seek(s) = 0 /\ past # {} THEN RotationTime
        ELSE (CHOOSE k \in next : \A j \in next : k <= j) * RotationTime
                 + RotationTime - now

\* Every disk interrupt is scheduled for the moment the mechanics give.
LatencyIsMechanical ==
    [][\A t \in Thread : pc[t] = "disk.request" /\ pc'[t] = "disk.wait" =>
           diskDue' = {totalTicks' + Mechanical(cur[t].arg.sector,
                                                cur[t].op = "WriteSector", totalTicks')}]_vars

\* A thread that may wait for ever: for an item nobody appends, or for a
\* character when the input is exhausted or has delivered an EOF, after
\* which the console never polls again.
WaitsForItem(t) == pc[t] = "remove.sleep" /\ list = <<>>

WaitsForInput(t) == /\ pc[t] \in {"in.acquire", "in.wait"}
                    /\ incoming = EOF
                    /\ typed = <<>> \/ Contains(taken, EOF)

\* Every call returns, unless what it waits for never comes: no wakeup is
\* lost, and no thread waits for a lock for ever.  Or a call aborts NachOS.
CallsReturn ==
    \A t \in Thread : <>[]( \/ aborted
                            \/ pc[t] = "idle" /\ todo[t] = <<>>
                            \/ WaitsForItem(t)
                            \/ WaitsForInput(t) )
=============================================================================
