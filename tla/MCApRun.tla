------------------------------ MODULE MCApRun ------------------------------
(***************************************************************************)
(* Instances of ApRun for TLC.  The default pipeline is cut to its last    *)
(* two skills (finalize_decision, workflow_move_next), the two that decide *)
(* how a run ends; an old payload asks for workflow_progress, which costs  *)
(* nothing, and for move-next on what an earlier run decided.              *)
(***************************************************************************)
EXTENDS ApRun

CONSTANTS r1, r2, r3, i1, finalize, move_next, progress

MCDefaultPlans == {<<finalize, move_next>>}
MCExplicitPlans == {<<progress, move_next>>}
MCShortPlans == {<<move_next>>}
NoFaults == {}
=============================================================================
