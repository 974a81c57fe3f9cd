------------------------- MODULE MCSchedulePersist -------------------------
EXTENDS SchedulePersist
=============================================================================
