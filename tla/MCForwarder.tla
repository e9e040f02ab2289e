---------------------------- MODULE MCForwarder -----------------------------
(***************************************************************************)
(* Instances of Forwarder for TLC: a buffer of two units, three bytes      *)
(* one way and two the other make append_buffer enlarge both buffers.      *)
(***************************************************************************)
EXTENDS Forwarder

ClientThreeVmTwo == [x \in {"client", "vm"} |-> IF x = "client" THEN 3 ELSE 2]
=============================================================================
