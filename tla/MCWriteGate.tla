---------------------------- MODULE MCWriteGate ----------------------------
EXTENDS WriteGate

\* Some runs only write; the others read too.
CONSTANT Readers

MCCalls == [r \in Runs |-> IF r \in Readers THEN Kinds ELSE Gates]
=============================================================================
