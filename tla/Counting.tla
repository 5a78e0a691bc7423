------------------------------ MODULE Counting ------------------------------
(***************************************************************************)
(* What it means that the subsets of a set can be counted.                 *)
(***************************************************************************)
EXTENDS Integers, FiniteSets

\* Every finite set is like this (FiniteCountable in DawnShardProofs).
Countable(K) ==
  \A S \in SUBSET K :
    /\ Cardinality(S) \in Nat
    /\ Cardinality(S) = 0 <=> S = {}
    /\ \A k \in K \ S : Cardinality(S \cup {k}) = Cardinality(S) + 1
    /\ S # K => Cardinality(S) < Cardinality(K)
=============================================================================
