--------------------------- MODULE MCActivityMark ---------------------------
EXTENDS ActivityMark
=============================================================================
