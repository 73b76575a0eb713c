----------------------------- MODULE MCTSQueue -----------------------------
(***************************************************************************)
(* TSQueue for TLC.  Three threads let two of them compete for the signal  *)
(* sent by a third; two items make a swapped order visible.                *)
(***************************************************************************)
EXTENDS TSQueue

=============================================================================
