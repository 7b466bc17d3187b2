----------------------------- MODULE MCSSTBlock -----------------------------
(* Instances of SSTBlock for TLC. *)
EXTENDS SSTBlock

NumberAndString == {"UINT64", "STRING"}
JustTwo         == {2}
ZeroOne         == {0, 1}
ZeroTwo         == {0, 2}
JustOne         == {1}
=============================================================================
