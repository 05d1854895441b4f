------------------------------ MODULE MCSession ------------------------------
EXTENDS Session, TLC

CONSTANTS a, k

\* One administrator and one konsumen.
MCRoleOf == [u \in Users |-> IF u = a THEN "admin" ELSE "konsumen"]

\* An open page, both forms, a page of one role and a wrong path.
MCEntered == {"/", "/login", "/register", "/konsumen", "*"}

Symmetry == Permutations(Tabs)
=============================================================================
