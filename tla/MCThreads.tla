----------------------------- MODULE MCThreads -----------------------------
(***************************************************************************)
(* Instances of Threads and of Atomic on top of it for TLC.                *)
(***************************************************************************)
EXTENDS Atomic
=============================================================================
