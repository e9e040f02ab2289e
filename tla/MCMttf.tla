------------------------------- MODULE MCMttf -------------------------------
(***************************************************************************)
(* Instances of Mttf for TLC.                                              *)
(***************************************************************************)
EXTENDS Mttf
=============================================================================
