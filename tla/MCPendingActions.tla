-------------------------- MODULE MCPendingActions --------------------------
(***************************************************************************)
(* Instances of PendingActions for TLC: one draft and three confirms of    *)
(* it, each by the session of the draft or by another one.                 *)
(***************************************************************************)
EXTENDS PendingActions, TLC

CONSTANTS a1, c1, c2, c3, s1, s2

NoFaults == {}
=============================================================================
