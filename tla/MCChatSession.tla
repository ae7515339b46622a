---------------------------- MODULE MCChatSession ----------------------------
(***************************************************************************)
(* Instances of ChatSession for TLC.                                       *)
(***************************************************************************)
EXTENDS ChatSession

CONSTANTS q1, q2, s1
=============================================================================
