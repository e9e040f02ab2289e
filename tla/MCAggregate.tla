---------------------------- MODULE MCAggregate ----------------------------
(***************************************************************************)
(* Instances of Aggregate for TLC: all databases within the bounds.        *)
(***************************************************************************)
EXTENDS Aggregate
=============================================================================
