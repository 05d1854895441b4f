------------------------------- MODULE MCOrders -------------------------------
EXTENDS Orders, TLC

Symmetry == Permutations(Requests) \cup Permutations(Shipments)
=============================================================================
