----------------------------- MODULE Namespace ------------------------------
(***************************************************************************)
(* What the file system promises of its names: a tree of directories and   *)
(* files in which a name appears or disappears, with all that is below it, *)
(* in one step, whatever the order of the writes and wherever a crash      *)
(* falls among them.                                                       *)
(***************************************************************************)
EXTENDS SequencesExt

CONSTANT Path                  \* non-empty sequences of names

VARIABLE names                 \* the pairs <<path, isDir>> that exist

Init == names = {}

Below(path) == {n \in names : IsStrictPrefix(path, n[1])}

Add(path, isDir) ==
    /\ <<path, isDir>> \notin names
    /\ Len(path) = 1 \/ <<Front(path), TRUE>> \in names
    /\ names' = names \cup {<<path, isDir>>}

Delete(path, isDir) ==
    /\ <<path, isDir>> \in names
    /\ names' = names \ ({<<path, isDir>>} \cup IF isDir THEN Below(path) ELSE {})

Next == \E path \in Path, isDir \in BOOLEAN : Add(path, isDir) \/ Delete(path, isDir)

Spec == Init /\ [][Next]_names
=============================================================================
