------------------------------- MODULE Sizes -------------------------------
(***************************************************************************)
(* What the proofs assume of numbers and of finite sets.  Every bound and  *)
(* every finite set has it: WindowProof and PeersProof show this           *)
(* (BoundHasLeast, FiniteIsSized, IntervalIsSized).                        *)
(***************************************************************************)
EXTENDS Naturals, FiniteSets

\* A set of numbers up to n that is not empty has a least one.
HasLeast(n) == \A T \in SUBSET (0 .. n) : T # {} => \E m \in T : \A k \in T : m <= k

\* The least member of T, for a T that has one.
Least(T) == CHOOSE m \in T : \A k \in T : m <= k

\* Cardinality counts the members of a set of members of P.
Sized(P) ==
    /\ Cardinality({}) = 0 /\ Cardinality(P) \in Nat
    /\ \A S \in SUBSET P :
         /\ Cardinality(S) \in 0 .. Cardinality(P)
         /\ Cardinality(S) = 0 => S = {}
         /\ \A x \in P \ S : Cardinality(S \cup {x}) = Cardinality(S) + 1
============================================================================
