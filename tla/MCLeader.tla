------------------------------ MODULE MCLeader ------------------------------
(***************************************************************************)
(* Instances of Leader for TLC.  Controllers are ordered by their address, *)
(* so there is no symmetry to exploit.                                     *)
(***************************************************************************)
EXTENDS Leader
=============================================================================
