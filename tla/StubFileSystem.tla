--------------------------- MODULE StubFileSystem ---------------------------
(***************************************************************************)
(* The file system calls of MP1 (filesys/filesys.h, openfile.h, sysdep.cc  *)
(* with FILESYS_STUB): one table of open files for all programs, over      *)
(* files of the host.  Nothing in a call enables interrupts, so that it is *)
(* one step.  A file is a sequence of bytes.  The size of a transfer and   *)
(* its buffer come from the program unchecked, so that the host may refuse *)
(* a transfer; what it does to memory outside the buffer is left out.      *)
(***************************************************************************)
EXTENDS Synch, Integers, SequencesExt

CONSTANTS NumOpen,   \* 20: the length of OpenFileTable
          Existing   \* the files of the host that NachOS may open, before
                     \* it starts

VARIABLES hostFiles,     \* the contents of each file, by name
          hostOpen,      \* the file behind each descriptor of the host
          OpenFileTable, \* the entries that are not NULL
          aborted        \* an ASSERT of a call has failed and ended NachOS

tables   == <<hostFiles, hostOpen, OpenFileTable>>
fileVars == <<tables, aborted>>

FileOp == {"Create", "Open", "Read", "Write", "Close"}

FileInit == /\ hostFiles = Existing
            /\ hostOpen = <<>>
            /\ OpenFileTable = <<>>
            /\ aborted = FALSE

-----------------------------------------------------------------------------
\* The host gives out the least descriptor, the table its first free entry.
LeastFree(taken) == Min((0 .. Cardinality(taken)) \ taken)

Hole == 0   \* what the host reads where nothing was written

\* A file after bytes were written at offset `at`.
Overwritten(content, at, bytes) ==
    [k \in 1 .. Max({Len(content), at + Len(bytes)}) |->
        IF k - at \in DOMAIN bytes THEN bytes[k - at]
        ELSE IF k <= Len(content) THEN content[k] ELSE Hole]

Serves(t, op) == At(t, "file.call") /\ cur[t].op = op

\* What the call leaves in register 2 and in the buffer of the program.
Reply(t, status, buffer) == /\ Goto(t, "file.return")
                            /\ Returns(t, [status |-> status, buffer |-> buffer])
                            /\ UNCHANGED aborted
Refuse(t) == Reply(t, -1, <<>>) /\ UNCHANGED tables

\* An ASSERT fails in the middle of the call.
Abort == aborted' = TRUE /\ UNCHANGED <<pc, got>>

With(f, x, y) == [z \in DOMAIN f \cup {x} |-> IF z = x THEN y ELSE f[z]]
Without(f, x) == [y \in DOMAIN f \ {x} |-> f[y]]

OpenForWrite(name) == hostFiles' = With(hostFiles, name, <<>>)

OpenForReadWrite(fd, name) == hostOpen' = With(hostOpen, fd, name)

\* FileSystem::Create: OpenForWrite, which truncates a file that exists, and
\* Close of the descriptor it returned.  A file the host cannot create ends
\* NachOS in OpenForWrite; the test for -1 that follows never finds it.
SysCreate(t) ==
    /\ Serves(t, "Create")
    /\ \/ OpenForWrite(cur[t].arg) /\ Reply(t, 1, <<>>)
       \/ UNCHANGED hostFiles /\ Abort
    /\ UNCHANGED <<synchVars, cur, hostOpen, OpenFileTable>>

\* FileSystem::OpenAFile.
SysOpen(t) ==
    LET name == cur[t].arg
        id == LeastFree(DOMAIN OpenFileTable)
        fd == LeastFree(DOMAIN hostOpen)
    IN  /\ Serves(t, "Open")
        /\ \/ /\ id = NumOpen \/ name \notin DOMAIN hostFiles
              /\ Refuse(t)
           \/ /\ id < NumOpen /\ name \in DOMAIN hostFiles
              /\ OpenForReadWrite(fd, name)
              /\ OpenFileTable' = With(OpenFileTable, id, [file |-> fd, currentOffset |-> 0])
              /\ Reply(t, id, <<>>)
              /\ UNCHANGED hostFiles
        /\ UNCHANGED <<synchVars, cur>>

\* The host seeks to the offset of an OpenFile, if it has the file open and
\* the offset is not negative; the ASSERT ends NachOS otherwise.
Lseek(id) == /\ OpenFileTable[id].file \in DOMAIN hostOpen
             /\ OpenFileTable[id].currentOffset >= 0

Advance(id, moved) == OpenFileTable' = [OpenFileTable EXCEPT ![id].currentOffset = @ + moved]

\* The -1 of a transfer that the host refuses is taken for bytes moved.
Slip(t, id) == Advance(id, -1) /\ Reply(t, -1, <<>>)

ReadPartial(fd, nBytes, at) ==
    LET content == hostFiles[hostOpen[fd]]
    IN  SubSeq(content, at + 1, Min({at + nBytes, Len(content)}))

WriteFile(fd, bytes, at) ==
    hostFiles' = IF bytes = <<>> THEN hostFiles
                 ELSE [hostFiles EXCEPT ![hostOpen[fd]] = Overwritten(@, at, bytes)]

\* A transfer of no bytes is reported as a failure.
Transferred(bytes) == IF bytes = <<>> THEN -1 ELSE Len(bytes)

\* FileSystem::ReadAFile.  read() refuses a negative size, and any size for a
\* buffer that is not memory of NachOS.
SysRead(t) ==
    LET id == cur[t].arg.id
        size == cur[t].arg.size
        bytes == ReadPartial(OpenFileTable[id].file, size, OpenFileTable[id].currentOffset)
    IN  /\ Serves(t, "Read")
        /\ \/ id \notin DOMAIN OpenFileTable /\ Refuse(t)
           \/ /\ id \in DOMAIN OpenFileTable
              /\ \/ ~ Lseek(id) /\ Abort /\ UNCHANGED OpenFileTable
                 \/ /\ Lseek(id) /\ size >= 0
                    /\ Advance(id, Len(bytes))
                    /\ Reply(t, Transferred(bytes), bytes)
                 \/ Lseek(id) /\ Slip(t, id)
              /\ UNCHANGED <<hostFiles, hostOpen>>
        /\ UNCHANGED <<synchVars, cur>>

\* FileSystem::WriteAFile.  The ASSERT of WriteFile ends NachOS unless write()
\* returns the size: it may refuse the call or write a part of the bytes.  A
\* size of -1 is refused and passes the ASSERT.
SysWrite(t) ==
    LET id == cur[t].arg.id
        size == cur[t].arg.size
        bytes == cur[t].arg.bytes
        fd == OpenFileTable[id].file
        at == OpenFileTable[id].currentOffset
    IN  /\ Serves(t, "Write")
        /\ \/ id \notin DOMAIN OpenFileTable /\ Refuse(t)
           \/ /\ id \in DOMAIN OpenFileTable
              /\ \/ ~ Lseek(id) /\ Abort /\ UNCHANGED <<hostFiles, OpenFileTable>>
                 \/ /\ Lseek(id) /\ size >= 0
                    /\ WriteFile(fd, bytes, at)
                    /\ Advance(id, Len(bytes))
                    /\ Reply(t, Transferred(bytes), <<>>)
                 \/ Lseek(id) /\ size = -1 /\ Slip(t, id) /\ UNCHANGED hostFiles
                 \/ /\ Lseek(id) /\ size # -1
                    /\ \E k \in 0 .. Len(bytes) : /\ k = 0 \/ k < Len(bytes)
                                                 /\ WriteFile(fd, SubSeq(bytes, 1, k), at)
                    /\ Abort /\ UNCHANGED OpenFileTable
              /\ UNCHANGED hostOpen
        /\ UNCHANGED <<synchVars, cur>>

\* Close, of the host.
CloseHost(fd) == hostOpen' = Without(hostOpen, fd)

\* Mutant: the file is closed and its entry stays.
CloseKeepsEntry(t) ==
    LET id == cur[t].arg.id
    IN  /\ Serves(t, "Close")
        /\ \/ id \notin DOMAIN OpenFileTable /\ Refuse(t)
           \/ /\ id \in DOMAIN OpenFileTable
              /\ CloseHost(OpenFileTable[id].file)
              /\ Reply(t, 1, <<>>)
              /\ UNCHANGED <<hostFiles, OpenFileTable>>
        /\ UNCHANGED <<synchVars, cur>>

\* FileSystem::CloseAFile: ~OpenFile closes the host's file.
SysClose(t) ==
    LET id == cur[t].arg.id
    IN  /\ Serves(t, "Close")
        /\ \/ id \notin DOMAIN OpenFileTable /\ Refuse(t)
           \/ /\ id \in DOMAIN OpenFileTable
              /\ CloseHost(OpenFileTable[id].file)
              /\ OpenFileTable' = Without(OpenFileTable, id)
              /\ Reply(t, 1, <<>>)
              /\ UNCHANGED hostFiles
        /\ UNCHANGED <<synchVars, cur>>

\* ExceptionHandler: the result goes to the register, the program goes on.
SysReturn(t) == /\ At(t, "file.return") /\ Goto(t, "idle")
                /\ UNCHANGED <<synchVars, callVars, fileVars>>

FileStep(t) == \/ SysCreate(t) \/ SysOpen(t) \/ SysRead(t) \/ SysWrite(t)
               \/ SysClose(t) \/ SysReturn(t)
=============================================================================
