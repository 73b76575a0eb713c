---------------------------- MODULE MCAddrSpace -----------------------------
(***************************************************************************)
(* AddrSpace for TLC: pages of two cells, seven frames.  The first program *)
(* needs four frames, the second two, the third two (so that the three do  *)
(* not fit), and the fourth is not on disk.  Segments start and end in the *)
(* middle of pages, as they do in the test programs' NOFF files.           *)
(***************************************************************************)
EXTENDS AddrSpace, TLC

CONSTANTS t1, t2, t3, t4

Seg(vaddr, size, ro) == [virtualAddr |-> vaddr, size |-> size, readOnly |-> ro]

Programs ==
    (t1 :> [size |-> 6, segments |-> <<Seg(0, 4, FALSE), Seg(5, 1, FALSE), Seg(4, 1, TRUE)>>])
 @@ (t2 :> [size |-> 3, segments |-> <<Seg(0, 1, FALSE), Seg(1, 2, TRUE)>>])
 @@ (t3 :> [size |-> 3, segments |-> <<Seg(0, 1, FALSE), Seg(1, 2, TRUE)>>])
 @@ (t4 :> Missing)
=============================================================================
