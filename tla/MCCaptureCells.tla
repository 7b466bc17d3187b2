--------------------------- MODULE MCCaptureCells ---------------------------
EXTENDS CaptureCells
CONSTANTS w1, w2, f1, f2

TwoWriters == {w1, w2}
TwoFlows == {f1, f2}
=============================================================================
