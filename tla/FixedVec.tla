------------------------------ MODULE FixedVec ------------------------------
(***************************************************************************)
(* The bounded vector of shared/core/src/fixed_vec.rs, as an ordinary      *)
(* sequence.  Rust indexes from 0 and TLA+ sequences from 1: an index that *)
(* the code stores or sends keeps its value here, and At/Has translate.    *)
(*                                                                         *)
(* retain is given by the set K of positions it keeps, and stated through  *)
(* the rank of a position in K rather than through SelectSeq, whose        *)
(* recursive definition is out of the provers' reach.  FixedVecSlots       *)
(* compares it with the loop of the code.                                  *)
(***************************************************************************)
EXTENDS Naturals, Sequences, FiniteSets

\* get(index).is_some(): index is within the vector.
Has(s, index) == index < Len(s)

\* s[index], for an index the code counts from 0.
At(s, index) == s[index + 1]

\* A push that fails leaves the vector as it was; CanPush is its condition.
CanPush(s, capacity) == Len(s) < capacity

\* The number of members of K that are not larger than k.
Rank(K, k) == Cardinality({j \in K : j <= k})

\* The i-th smallest member of K.
Nth(K, i) == CHOOSE k \in K : Rank(K, k) = i

\* The elements of s at the positions K, in their order: what retain leaves.
Retain(s, K) == [i \in 1 .. Cardinality(K) |-> s[Nth(K, i)]]
=============================================================================
