------------------------------- MODULE Selections -------------------------------
\* What a filter leaves of a sequence, by the places it keeps.
EXTENDS Naturals, Sequences, FiniteSets

\* The place of which k of those kept are not after.
KthOf(places, k) == CHOOSE i \in places : Cardinality({j \in places : j <= i}) = k

Picked(s, places) == [k \in 1..Cardinality(places) |-> s[KthOf(places, k)]]
=============================================================================
