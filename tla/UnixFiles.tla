------------------------------ MODULE UnixFiles ------------------------------
(***************************************************************************)
(* Files "patterned after UNIX" (userprog/syscall.h): a descriptor stands  *)
(* for a file and a position in it from the Open that returns it to the    *)
(* Close; all programs share the files and the descriptors.  A call is     *)
(* made, takes effect at one instant, and returns; a call that fails       *)
(* changes nothing and returns a negative code.  Two descriptors are the   *)
(* keyboard and the display and never stand for a file; what Read and      *)
(* Write do with them is not said here.                                    *)
(***************************************************************************)
EXTENDS Integers, Sequences

CONSTANTS Thread,      \* the programs
          Requests,    \* the calls they may make: records of op and arg
          Descriptor,  \* the descriptors
          Console,     \* those of the keyboard and the display
          InitialFiles, NoResult

VARIABLES files,    \* the bytes of each file, by name
          opened,   \* name and position of each descriptor in use
          call,     \* the call of each program and how far it has come
          result    \* what it returns

vars == <<files, opened, call, result>>

None == [op |-> "none", arg |-> NoResult]

Init == /\ files = InitialFiles
        /\ opened = <<>>
        /\ call = [t \in Thread |-> None]
        /\ result = [t \in Thread |-> NoResult]

Make(t) == /\ call[t] = None
           /\ \E c \in Requests : call' = [call EXCEPT ![t] = c]
           /\ UNCHANGED <<files, opened, result>>

Done(t, status, buffer) ==
    /\ call' = [call EXCEPT ![t].op = "done"]
    /\ result' = [result EXCEPT ![t] = [status |-> status, buffer |-> buffer]]

With(f, x, y) == [z \in DOMAIN f \cup {x} |-> IF z = x THEN y ELSE f[z]]

Fail(t) == Done(t, -1, <<>>) /\ UNCHANGED <<files, opened>>

Create(t) == /\ call[t].op = "Create"
             /\ \/ /\ files' = With(files, call[t].arg, <<>>)
                   /\ Done(t, 1, <<>>)
                   /\ UNCHANGED opened
                \/ Fail(t)

\* Open of a file that exists returns one of the given descriptors.
OpenAs(t, free) ==
    LET name == call[t].arg
    IN  /\ call[t].op = "Open" /\ name \in DOMAIN files
        /\ \E d \in free \ DOMAIN opened :
               /\ opened' = With(opened, d, [name |-> name, at |-> 0])
               /\ Done(t, d, <<>>)
        /\ UNCHANGED files

Open(t) == \/ OpenAs(t, Descriptor \ Console)
           \/ /\ call[t].op = "Open"
              /\ call[t].arg \notin DOMAIN files \/ Descriptor \ Console \subseteq DOMAIN opened
              /\ Fail(t)

\* The call is for descriptor d, which is open.
Uses(t, op, d) == call[t].op = op /\ call[t].arg.id = d /\ d \in DOMAIN opened

\* The call is for a descriptor that is not open: of no file, that is, and a
\* mistake unless it is the keyboard or the display.
Unopened(t) == /\ call[t].op \in {"Read", "Write", "Close"}
               /\ call[t].arg.id \notin DOMAIN opened

Bad(t) == Unopened(t) /\ call[t].arg.id \notin Console /\ Fail(t)

\* A transfer from or to the position of d.
Transfers(t, op, d) == Uses(t, op, d) /\ opened[d].at >= 0

Move(d, n) == opened' = [opened EXCEPT ![d].at = @ + n]

\* The bytes that a Read gets: as many as it asks for, if the file has them.
Available(t, d) ==
    LET rest == SubSeq(files[opened[d].name], opened[d].at + 1, Len(files[opened[d].name]))
        n == IF call[t].arg.size < Len(rest) THEN call[t].arg.size ELSE Len(rest)
    IN  SubSeq(rest, 1, n)

\* There is nothing to transfer, which is no failure.
Nothing(t, d) == \/ Transfers(t, "Read", d) /\ call[t].arg.size >= 0 /\ Available(t, d) = <<>>
                 \/ Transfers(t, "Write", d) /\ call[t].arg.size = 0

Read(t, d) == /\ Transfers(t, "Read", d)
              /\ \/ /\ call[t].arg.size >= 0
                    /\ Move(d, Len(Available(t, d)))
                    /\ Done(t, Len(Available(t, d)), Available(t, d))
                    /\ UNCHANGED files
                 \/ ~ Nothing(t, d) /\ Fail(t)

\* The new contents agree with the bytes at the position and with the old
\* elsewhere; a gap is filled with zeros.
Put(d, bytes) ==
    LET at == opened[d].at
        old == files[opened[d].name]
        gap == [k \in 1 .. at - Len(old) |-> 0]
    IN  files' = [files EXCEPT ![opened[d].name] =
                    IF bytes = <<>> THEN old
                    ELSE SubSeq(old \o gap, 1, at) \o bytes
                             \o SubSeq(old, at + Len(bytes) + 1, Len(old))]

Write(t, d) == /\ Transfers(t, "Write", d)
               /\ \/ /\ call[t].arg.size >= 0
                     /\ Put(d, call[t].arg.bytes)
                     /\ Move(d, Len(call[t].arg.bytes))
                     /\ Done(t, Len(call[t].arg.bytes), <<>>)
                  \/ ~ Nothing(t, d) /\ Fail(t)

Close(t, d) == /\ Uses(t, "Close", d)
               /\ opened' = [e \in DOMAIN opened \ {d} |-> opened[e]]
               /\ Done(t, 1, <<>>)
               /\ UNCHANGED files

Return(t) == /\ call[t].op = "done"
             /\ call' = [call EXCEPT ![t] = None]
             /\ result' = [result EXCEPT ![t] = NoResult]
             /\ UNCHANGED <<files, opened>>

Next == \E t \in Thread : \/ Make(t) \/ Create(t) \/ Open(t) \/ Bad(t) \/ Return(t)
                         \/ \E d \in Descriptor : Read(t, d) \/ Write(t, d) \/ Close(t, d)

Spec == Init /\ [][Next]_vars
=============================================================================
