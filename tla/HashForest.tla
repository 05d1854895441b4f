------------------------------ MODULE HashForest ------------------------------
(***************************************************************************)
(* What the traceability ledger promises to its readers, whatever the      *)
(* interleaving of its writers: a growing set of links, each naming the    *)
(* genesis hash or a hash already present, none ever changed or removed.    *)
(***************************************************************************)
EXTENDS Integers

CONSTANT Hash    \* the hashes a log may have

VARIABLE links   \* pairs <<current hash, previous hash>>

Genesis == 0

Linked == {l[1] : l \in links}

Init == links = {}

Grow(h, p) ==
    /\ h \notin Linked
    /\ p \in Linked \cup {Genesis}
    /\ links' = links \cup {<<h, p>>}

Next == \E h \in Hash, p \in Linked \cup {Genesis} : Grow(h, p)

Spec == Init /\ [][Next]_links
=============================================================================
