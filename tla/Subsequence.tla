---------------------------- MODULE Subsequence ----------------------------
(***************************************************************************)
(* The elements of a sequence at some of its positions, in their order: a  *)
(* SelectSeq by position, in a form one can reason about.                  *)
(***************************************************************************)
EXTENDS Integers, Sequences, FiniteSets

(* The n-th position in S, counted from the smallest.                      *)
Nth(S, n) == CHOOSE i \in S : Cardinality({j \in S : j <= i}) = n

(* The elements of s at the positions in S.                                *)
Sub(s, S) == [n \in 1..Cardinality(S) |-> s[Nth(S, n)]]
=============================================================================
