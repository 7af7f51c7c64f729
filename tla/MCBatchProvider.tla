--------------------------- MODULE MCBatchProvider ---------------------------
EXTENDS BatchProvider
==============================================================================
