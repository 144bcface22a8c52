------------------------------ MODULE Positions ------------------------------
(***************************************************************************)
(* The elements of a sequence at a set of its positions, in their order.    *)
(***************************************************************************)
EXTENDS Integers, Sequences, FiniteSets

FirstOf(at) == CHOOSE i \in at : \A k \in at : i <= k
LastOf(at) == CHOOSE i \in at : \A k \in at : k <= i
Nth(at, i) == CHOOSE p \in at : Cardinality({q \in at : q <= p}) = i
Picked(seq, at) == [i \in 1..Cardinality(at) |-> seq[Nth(at, i)]]
=============================================================================
