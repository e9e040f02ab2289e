---------------------------- MODULE MCController ----------------------------
(***************************************************************************)
(* Instances of Controller for TLC.  With NUMBER_VMs = 1 the second machine *)
(* of a group makes the table grow; three connections let one machine leave *)
(* while another one is being registered, and return.                       *)
(***************************************************************************)
EXTENDS Controller, TLC

Symmetry == Permutations(IP)
=============================================================================
