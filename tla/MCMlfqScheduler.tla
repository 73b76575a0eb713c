-------------------------- MODULE MCMlfqScheduler --------------------------
(***************************************************************************)
(* MlfqScheduler for TLC: the main thread and two others, a timer that is  *)
(* not aligned with the aging period, and both kinds of tick.              *)
(***************************************************************************)
EXTENDS MlfqScheduler, TLC

CONSTANTS main, t1, t2

\* All levels: one thread ages from L3 to L2, one from L2 to L1 and one starts
\* in L1, so that two come to be in L1 together.
AcrossLevels == (main :> 45) @@ (t1 :> 95) @@ (t2 :> 145)
=============================================================================
