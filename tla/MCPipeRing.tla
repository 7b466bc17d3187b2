----------------------------- MODULE MCPipeRing -----------------------------
(* An instance of PipeRing for TLC: one producer around a ring of 16 slots *)
(* (two runs, so the slot permutation is not the identity) twice and more. *)
EXTENDS PipeRing
CONSTANT w1

OneProducer == {w1}
=============================================================================
