------------------------------- MODULE MCWallet -------------------------------
EXTENDS Wallet, TLC

CONSTANTS u1, w1, w2

\* One seller: rows of different users never meet.
MCOwner == [w \in Withdrawals |-> u1]

\* Both can be requested out of one credit, not both be paid from it.
MCAmount == w1 :> 1 @@ w2 :> 2

Symmetry == Permutations(Requests)
=============================================================================
