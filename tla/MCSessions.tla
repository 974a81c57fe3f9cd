---------------------------- MODULE MCSessions ----------------------------
EXTENDS Sessions, TLC

\* Sessions and readers are interchangeable in Init, Next and the safety
\* properties.
Symmetry == Permutations(Ids) \union Permutations(Readers)
===========================================================================
