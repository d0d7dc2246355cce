-------------------------------- MODULE Sums --------------------------------
(***************************************************************************)
(* Sums of natural-number functions over finite sets, in a form the proof  *)
(* system can reason about.  The sum of f over S is the number of unit     *)
(* tokens <<s, i>> with s in S and 1 <= i <= f[s]: no recursion is needed, *)
(* and the facts about finite sets carry over to sums.                     *)
(***************************************************************************)
EXTENDS Integers, FiniteSets

Tokens(f, S) == UNION {{s} \X (1..f[s]) : s \in S}

SumOver(f, S) == Cardinality(Tokens(f, S))
=============================================================================
