---------------------------- MODULE MCFileSystem ----------------------------
(***************************************************************************)
(* FileSystem for TLC: two names at the root and one level below it.  A    *)
(* directory has two entries on two sectors, and the edge between these    *)
(* lies in the second entry, behind its flags.                             *)
(***************************************************************************)
EXTENDS FileSystem

CONSTANTS a, d

Paths == {<<a>>, <<d>>, <<d, a>>}

TwoSectors == [c \in (1 .. 2) \X {"isDir", "inUse", "sector", "name"} |->
                 IF c \in {<<2, "sector">>, <<2, "name">>} THEN 2 ELSE 1]
=============================================================================
