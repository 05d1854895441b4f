------------------------------- MODULE MCLedger -------------------------------
EXTENDS Ledger, TLC

\* Recorders are interchangeable goroutines.
Symmetry == Permutations(Recorders)
=============================================================================
