------------------------------- MODULE MCStock -------------------------------
EXTENDS Stock, TLC

CONSTANTS p1, o1, o2

Line(p, n) == [product |-> p, quantity |-> n]

\* One order with two lines of one product, the other with one.
MCItems == [o \in Orders |-> CASE o = o1 -> <<Line(p1, 1), Line(p1, 2)>>
                               [] o = o2 -> <<Line(p1, 1)>>]

MCInitial == [p \in Products |-> 3]

Symmetry == Permutations(Requests)
=============================================================================
