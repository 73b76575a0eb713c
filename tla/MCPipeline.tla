---------------------------- MODULE MCPipeline ----------------------------
(***************************************************************************)
(* Pipeline for TLC.  Two producers race for one input slot, two consumers *)
(* are enough to be scaled up and down, and two SIGALRMs may be handled at *)
(* once.  The thresholds for scaling up are 0, which any line exceeds; 1,  *)
(* which the last line does not; and 3, which so few lines never exceed.   *)
(***************************************************************************)
EXTENDS Pipeline

MCRuns == {[wk_qs |-> 1, cs_h_th |-> 80, cs_l_th |-> 20],
           [wk_qs |-> 2, cs_h_th |-> 80, cs_l_th |-> 75],
           [wk_qs |-> 4, cs_h_th |-> 80, cs_l_th |-> 75]}
=============================================================================
