------------------------- MODULE MCUnfinalizedBlocks -------------------------
EXTENDS UnfinalizedBlocks
==============================================================================
