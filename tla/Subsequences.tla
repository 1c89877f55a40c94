------------------------------ MODULE Subsequences ------------------------------
(***************************************************************************)
(* The filter of an array: what is left of a sequence at some of its       *)
(* places, in its order.  SelectSeq() of the standard modules is the same; *)
(* it is defined by recursion, which the proofs cannot unfold.             *)
(***************************************************************************)
EXTENDS Naturals, Sequences, FiniteSets

Rank(I, i) == Cardinality({j \in I : j <= i})

Picked(s, I) == [n \in 1 .. Cardinality(I) |-> s[CHOOSE i \in I : Rank(I, i) = n]]

===============================================================================
