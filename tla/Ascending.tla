----------------------------- MODULE Ascending -----------------------------
(***************************************************************************)
(* The order in which the code visits positions: of line starts in a text, *)
(* of headings in a document.  Written without an operator parameter, so   *)
(* that proofs can use it.                                                 *)
(***************************************************************************)
EXTENDS Integers, FiniteSets

\* A set of numbers, ascending.
InOrder(S) ==
  [n \in 1 .. Cardinality(S) |-> CHOOSE x \in S : Cardinality({y \in S : y < x}) = n - 1]
=============================================================================
