--------------------------- MODULE MCSessionTools ---------------------------
EXTENDS SessionTools
=============================================================================
