--------------------------- MODULE MCDataBlockBuffer ---------------------------
EXTENDS DataBlockBuffer
=============================================================================
