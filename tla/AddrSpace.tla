----------------------------- MODULE AddrSpace ------------------------------
(***************************************************************************)
(* Memory of user programs in the MP2 and MP3 projects (userprog/          *)
(* addrspace.cc): a table of free frames, a page table for each program,   *)
(* the chunk-by-chunk loading of an executable whose segments need not     *)
(* start at a page, and the user instructions and system calls that change *)
(* memory.  Memory is a function from physical addresses to cells; a cell  *)
(* is named by the program and the virtual address that it was meant for.  *)
(***************************************************************************)
EXTENDS Integers, Sequences

CONSTANTS Thread, NoThread,
          Program,             \* of each thread: size in cells without the
                               \* stack, and the segments as Load reads them;
                               \* Missing if there is no such file
          Missing,
          PageSize, NumPhysPages, UserStackSize

Segment == [virtualAddr : Nat, size : Nat \ {0}, readOnly : BOOLEAN]

IsImage(p) == /\ p.size \in Nat
              /\ p.segments \in Seq(Segment)
              /\ \A i \in DOMAIN p.segments :
                    p.segments[i].virtualAddr + p.segments[i].size <= p.size

ASSUME ThreadAssumption == NoThread \notin Thread
ASSUME MemoryAssumption ==
    PageSize \in Nat \ {0} /\ NumPhysPages \in Nat \ {0} /\ UserStackSize \in Nat \ {0}
ASSUME ProgramAssumption ==
    /\ DOMAIN Program = Thread
    /\ \A t \in Thread : Program[t] = Missing \/ IsImage(Program[t])

VARIABLES
    pc,                        \* of each thread
    currentThread,             \* NoThread: main or the idle machine
    machineTable,              \* whose page table Machine::pageTable is
    available,                 \* the FrameTable
    pageTable,                 \* of each thread, <<>> until it is allocated
    readOnly,                  \* the pages marked so
    mainMemory,
    segment, offset,           \* of the Load that runs
    down,                      \* the simulator has aborted
    \* History:
    image,                     \* what each program has at each address
    overwritten                \* cells hit by a system call of another thread

tables == <<available, pageTable, readOnly>>
load   == <<segment, offset>>
ghost  == <<image, overwritten>>
vars   == <<pc, currentThread, machineTable, tables, mainMemory, load, down, ghost>>

divRoundUp(n, s) == (n + s - 1) \div s
NumPages(t) == divRoundUp(Program[t].size + UserStackSize, PageSize)
Segments(t) == Program[t].segments

Zero == <<NoThread, 0, "zero">>
Cell(t, v) == <<t, v, "file">>
Stored(t, v) == <<t, v, "stored">>
Input(t, v) == <<t, v, "input">>

-----------------------------------------------------------------------------
\* AddrSpace::Translate and Machine::Translate of a page that is in the table.
Translate(t, v) == pageTable[t][v \div PageSize + 1] * PageSize + (v % PageSize)

Init == /\ pc = [t \in Thread |-> "new"]
        /\ currentThread = NoThread /\ machineTable = NoThread
        /\ available = [i \in 1 .. NumPhysPages |-> i - 1]
        /\ pageTable = [t \in Thread |-> <<>>]
        /\ readOnly = [t \in Thread |-> {}]
        /\ mainMemory = [a \in 0 .. NumPhysPages * PageSize - 1 |-> Zero]
        /\ segment = 1 /\ offset = 0
        /\ down = FALSE
        /\ image = [t \in Thread |-> <<>>]
        /\ overwritten = {}

\* The current thread is a user program's, and is there.
At(stage) == currentThread # NoThread /\ pc[currentThread] = stage

\* Mutant: the page table register is left alone.
RestoreStateForgotten(t) == machineTable' = machineTable

\* AddrSpace::RestoreState
RestoreState(t) == machineTable' = IF pageTable[t] = <<>> THEN NoThread ELSE t

\* Scheduler::Run: a thread that is new goes to ForkExecute, any other is back
\* from SWITCH.  Load is not preempted.
Run(t) == /\ ~down
          /\ currentThread # t
          /\ ~At("loading")
          /\ pc[t] \in {"new", "begun", "user"}
          /\ currentThread' = t
          /\ pc' = [pc EXCEPT ![t] = IF @ = "new" THEN "begun" ELSE @]
          /\ IF pc[t] = "new" THEN UNCHANGED machineTable ELSE RestoreState(t)
          /\ UNCHANGED <<tables, mainMemory, load, down, ghost>>

Leaves(t) == /\ pc' = [pc EXCEPT ![t] = "finished"]
             /\ currentThread' = NoThread

\* AddrSpace::Load finds no file, and ForkExecute returns to ThreadFinish.
LoadMissing == /\ ~down
               /\ At("begun")
               /\ Program[currentThread] = Missing
               /\ Leaves(currentThread)
               /\ UNCHANGED <<machineTable, tables, mainMemory, load, down, ghost>>

\* Mutant: the frames stay in the list.
AllocateCopies(n) == [table |-> SubSeq(available, 1, n), rest |-> available]

\* FrameTable::Allocate, of n frames when there are as many.
Allocate(n) == [table |-> SubSeq(available, 1, n),
                rest  |-> SubSeq(available, n + 1, Len(available))]

InFrames(a, frames) == \E i \in DOMAIN frames : a \div PageSize = frames[i]

\* Load up to the first segment.
LoadBegin ==
    LET t == currentThread
        new == Allocate(NumPages(t))
    IN /\ ~down
       /\ At("begun") /\ Program[t] # Missing
       /\ Len(available) >= NumPages(t)
       /\ pageTable' = [pageTable EXCEPT ![t] = new.table]
       /\ available' = new.rest
       /\ mainMemory' = [a \in DOMAIN mainMemory |->
             IF InFrames(a, new.table) THEN Zero ELSE mainMemory[a]]
       /\ image' = [image EXCEPT ![t] =
                      [v \in 0 .. NumPages(t) * PageSize - 1 |-> Zero]]
       /\ pc' = [pc EXCEPT ![t] = "loading"]
       /\ segment' = 1 /\ offset' = 0
       /\ UNCHANGED <<currentThread, machineTable, readOnly, down, overwritten>>

\* A MemoryLimitException, or a ReadOnlyException of the user program, is not
\* known to ExceptionHandler, which ends at ASSERTNOTREACHED.
Aborts == /\ down' = TRUE
          /\ UNCHANGED <<pc, currentThread, machineTable, tables, mainMemory, load, ghost>>

LoadExhausted ==
    /\ ~down
    /\ At("begun")
    /\ Program[currentThread] # Missing
    /\ Len(available) < NumPages(currentThread)
    /\ Aborts

\* The pages that Load marks for a read-only segment.
ReadOnlyPages(s) ==
    LET from == s.virtualAddr \div PageSize
    IN  from .. from + divRoundUp(s.size, PageSize) - 1

\* The next turn of the loop over segment s, or the next segment.
NextChunk(s) ==
    IF offset + PageSize >= s.size
    THEN segment' = segment + 1 /\ offset' = 0
    ELSE segment' = segment /\ offset' = offset + PageSize

\* One turn of the loop over a segment: at most a page is read from the file
\* to where the first of its bytes translates to.
LoadChunk ==
    LET t == currentThread
        s == Segments(t)[segment]
        v == s.virtualAddr + offset
        paddr == Translate(t, v)
        to_load == IF offset + PageSize < s.size THEN PageSize ELSE s.size - offset
    IN /\ ~down
       /\ At("loading") /\ segment \in DOMAIN Segments(t)
       /\ mainMemory' = [a \in DOMAIN mainMemory |->
             IF a \in paddr .. paddr + to_load - 1
             THEN Cell(t, v + a - paddr) ELSE mainMemory[a]]
       /\ image' = [image EXCEPT ![t] = [w \in DOMAIN image[t] |->
             IF w \in v .. v + to_load - 1 THEN Cell(t, w) ELSE image[t][w]]]
       /\ readOnly' = [readOnly EXCEPT ![t] =
             @ \cup IF s.readOnly THEN ReadOnlyPages(s) ELSE {}]
       /\ NextChunk(s)
       /\ UNCHANGED <<pc, currentThread, machineTable, available, pageTable,
                      down, overwritten>>

\* Load returns TRUE, and AddrSpace::Execute jumps to the user program.
Execute == /\ ~down
           /\ At("loading")
           /\ segment \notin DOMAIN Segments(currentThread)
           /\ pc' = [pc EXCEPT ![currentThread] = "user"]
           /\ RestoreState(currentThread)
           /\ segment' = 1 /\ offset' = 0
           /\ UNCHANGED <<currentThread, tables, mainMemory, down, ghost>>

-----------------------------------------------------------------------------
InUser == ~down /\ At("user")

\* A program stores to its variables and stack: not to its code (the first
\* segment) or to what it has in read-only segments.
Variables(t) == {v \in DOMAIN image[t] :
    \A i \in DOMAIN Segments(t) :
      LET s == Segments(t)[i]
      IN  i = 1 \/ s.readOnly => v \notin s.virtualAddr .. s.virtualAddr + s.size - 1}

\* Machine::WriteMem, through Machine::pageTable.
WriteMem(v) ==
    /\ InUser /\ v \in Variables(currentThread)
    /\ v \div PageSize \notin readOnly[machineTable]
    /\ mainMemory' = [mainMemory EXCEPT ![Translate(machineTable, v)] =
                        Stored(currentThread, v)]
    /\ image' = [image EXCEPT ![currentThread][v] = Stored(currentThread, v)]
    /\ UNCHANGED <<pc, currentThread, machineTable, tables, load, down, overwritten>>

\* A variable may share its page with a read-only segment.
WriteFaults(v) ==
    /\ InUser /\ v \in Variables(currentThread)
    /\ v \div PageSize \in readOnly[machineTable]
    /\ Aborts

\* ExceptionHandler, SC_Read of one cell into the buffer at v: the address is
\* used as it is, without translation.
SysRead(v) ==
    LET t == currentThread
    IN /\ InUser /\ v \in Variables(t)
       /\ mainMemory' = [mainMemory EXCEPT ![v] = Input(t, v)]
       /\ image' = [image EXCEPT ![t][v] = Input(t, v)]
       /\ overwritten' = overwritten \cup
             IF Translate(t, v) = v THEN {} ELSE {v, Translate(t, v)}
       /\ UNCHANGED <<pc, currentThread, machineTable, tables, load, down>>

\* Mutant: the address space is deleted with its thread.
FinishReleases ==
    /\ InUser
    /\ Leaves(currentThread)
    /\ available' = available \o pageTable[currentThread]
    /\ pageTable' = [pageTable EXCEPT ![currentThread] = <<>>]
    /\ UNCHANGED <<machineTable, readOnly, mainMemory, load, down, ghost>>

\* SC_Exit.  Nothing deletes the AddrSpace: its frames are never released.
Finish == /\ InUser
          /\ Leaves(currentThread)
          /\ UNCHANGED <<machineTable, tables, mainMemory, load, down, ghost>>

Next == \/ \E t \in Thread : Run(t)
        \/ LoadMissing \/ LoadBegin \/ LoadExhausted \/ LoadChunk \/ Execute
        \/ \E v \in 0 .. NumPhysPages * PageSize - 1 :
              WriteMem(v) \/ WriteFaults(v) \/ SysRead(v)
        \/ Finish

Spec == Init /\ [][Next]_vars

-----------------------------------------------------------------------------
Frames == 0 .. NumPhysPages - 1

TypeOK ==
    /\ pc \in [Thread -> {"new", "begun", "loading", "user", "finished"}]
    /\ {currentThread, machineTable} \subseteq Thread \cup {NoThread}
    /\ available \in Seq(Frames)
    /\ pageTable \in [Thread -> Seq(Frames)]
    /\ readOnly \in [Thread -> SUBSET Nat]
    /\ DOMAIN mainMemory = 0 .. NumPhysPages * PageSize - 1
    /\ segment \in Nat /\ offset \in Nat
    /\ At("loading") /\ segment \in DOMAIN Segments(currentThread)
         => offset < Segments(currentThread)[segment].size
    /\ down \in BOOLEAN

Held(t) == {pageTable[t][i] : i \in DOMAIN pageTable[t]}

\* Frames are handed out once: no two programs share a frame, none that is in
\* use is in the free list, and none appears twice.
FramesAreExclusive ==
    /\ \A t, u \in Thread : t # u => Held(t) \cap Held(u) = {}
    /\ \A t \in Thread : \A i, j \in DOMAIN pageTable[t] :
          i # j => pageTable[t][i] # pageTable[t][j]
    /\ \A t \in Thread : \A i \in DOMAIN available : available[i] \notin Held(t)

\* A program's frames follow one another, which the loading of a chunk that
\* crosses a page needs and Load does not check.  It holds because the frame
\* list is in order and no frame ever comes back.
FramesAreContiguous ==
    \A t \in Thread : \A i \in DOMAIN pageTable[t] :
      pageTable[t][i] = pageTable[t][1] + i - 1

\* A program sees what it loaded and stored, whatever else is loaded, stored
\* and finished meanwhile, but for cells that a system call has misplaced.
MemoryHolds ==
    \A t \in Thread : pc[t] \in {"loading", "user"} =>
      \A v \in DOMAIN image[t] :
        Translate(t, v) \notin overwritten => mainMemory[Translate(t, v)] = image[t][v]

\* User instructions run with the page table of their own thread, however
\* threads are switched before, during and after they are loaded.
RunsUnderOwnTable == InUser => machineTable = currentThread

\* 'Read "size" bytes from the open file into "buffer"' (syscall.h): a program
\* finds in its buffer what was read, and nothing else changes for any program.
ReadFillsBuffer ==
    \A t \in Thread : pc[t] = "user" =>
      \A v \in DOMAIN image[t] : mainMemory[Translate(t, v)] = image[t][v]
=============================================================================
