----------------------------- MODULE MCSession -----------------------------
(***************************************************************************)
(* Instances of Session for TLC: one group and a wrong one; a connection   *)
(* that holds two messages each way.                                       *)
(***************************************************************************)
EXTENDS Session
=============================================================================
