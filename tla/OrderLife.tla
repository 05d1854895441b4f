------------------------------ MODULE OrderLife -------------------------------
(***************************************************************************)
(* What the life of an order promises to those who read orders.status,     *)
(* however many handlers write it: nobody writes a status but one he once  *)
(* had grounds for.  Grounds may be gone by the time he writes, and then   *)
(* he overwrites what others have written since; but only grounds bring a  *)
(* cancelled order back.                                                   *)
(***************************************************************************)
CONSTANT Writers

VARIABLES
    status,    \* orders.status
    facts,     \* what Midtrans has said, and the legs that parcels have reached
    will       \* the status that each writer is going to write

Undecided == "none"

Said == {"accept", "fail"}

Legs == {"pending", "pickup", "transit", "delivered"}

\* The grounds for a status.  The customer cancels a pending order, Midtrans any.
Grounds ==
    {s \in {"cancelled"} : status = "pending" \/ "fail" \in facts}
    \cup {s \in {"paid"} : "accept" \in facts}
    \cup {s \in {"processing"} : status \in {"pending", "paid", "processing"}}
    \cup {s \in {"shipped"} : "pending" \in facts}
    \cup {s \in {"delivered"} : "transit" \in facts}

Init ==
    /\ status = "pending"
    /\ facts = {}
    /\ will = [w \in Writers |-> Undecided]

Decide(w, s) ==
    /\ will[w] = Undecided
    /\ s \in Grounds
    /\ will' = [will EXCEPT ![w] = s]
    /\ UNCHANGED <<status, facts>>

Write(w) ==
    /\ will[w] # Undecided
    /\ status' = will[w]
    /\ will' = [will EXCEPT ![w] = Undecided]
    /\ UNCHANGED facts

\* The handler ends without having written.
Drop(w) ==
    /\ will' = [will EXCEPT ![w] = Undecided]
    /\ UNCHANGED <<status, facts>>

\* What Midtrans has said stays said, and a parcel is somewhere for good.
Learn(new) ==
    /\ facts \cap Said \subseteq new
    /\ facts \cap Legs # {} => new \cap Legs # {}
    /\ facts' = new
    /\ UNCHANGED <<status, will>>

Next ==
    \/ \E w \in Writers : Write(w) \/ Drop(w) \/ \E s \in Grounds : Decide(w, s)
    \/ \E new \in SUBSET (Said \cup Legs) : Learn(new)

Spec == Init /\ [][Next]_<<status, facts, will>>

-----------------------------------------------------------------------------

\* Cancelled, unpaid, never sent, and nobody is about to write anything else.
Cancelled ==
    /\ status = "cancelled"
    /\ facts \cap ({"accept"} \cup Legs) = {}
    /\ \A w \in Writers : will[w] \in {Undecided, "cancelled"}

\* An order that is cancelled for good stays so until it is paid or sent.
CancelledStays ==
    [][Cancelled => Cancelled' \/ facts' \cap ({"accept"} \cup Legs) # {}]_<<status, facts, will>>
=============================================================================
