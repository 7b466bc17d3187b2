----------------------------- MODULE MCDataNode -----------------------------
(* Instances of DataNode for TLC. *)
EXTENDS DataNode

TwoRegions == {1, 2}
JustOne    == {1}
Setup      == {"CREATE", "OPEN", "WRITE"}
=============================================================================
