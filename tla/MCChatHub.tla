------------------------------ MODULE MCChatHub ------------------------------
EXTENDS ChatHub, TLC

CONSTANTS u1, u2, a1, a2, b1

\* One user has two connections, the other one.
MCUserOf == [c \in Conns |-> IF c = b1 THEN u2 ELSE u1]

\* A room that is created for one of them; the other may join it.
MCParty == [r \in Rooms |-> <<u1>>]

Symmetry == Permutations({a1, a2})
=============================================================================
