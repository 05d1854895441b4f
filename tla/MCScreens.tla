------------------------------ MODULE MCScreens ------------------------------
EXTENDS Screens, TLC

Symmetry == Permutations(Rows) \cup Permutations(Slots)
=============================================================================
