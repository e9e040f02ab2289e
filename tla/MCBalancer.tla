----------------------------- MODULE MCBalancer -----------------------------
(***************************************************************************)
(* Instances of Balancer for TLC.  One slot at the start makes the table   *)
(* grow with the second machine.                                           *)
(***************************************************************************)
EXTENDS Balancer
=============================================================================
