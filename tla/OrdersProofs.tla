----------------------------- MODULE OrdersProofs -----------------------------
(***************************************************************************)
(* Proofs about the module Orders, for any number of requests, sellers and *)
(* shipments.  The inductive invariant says, for each request, how the     *)
(* copies it holds relate to the rows, and who may be crediting.           *)
(***************************************************************************)
EXTENDS Orders, TLAPS

-----------------------------------------------------------------------------
(* The invariant.                                                          *)

\* Only a paid transaction sends "accept", and a webhook works on what was sent.
Origin ==
    /\ PaidMeansPaid
    /\ "accept" \in sent => gateway = "paid"
    /\ \A q \in Requests : /\ req[q].kind = "accept" => gateway = "paid"
                           /\ req[q].payment = "paid" => gateway = "paid"

Crediting(q) == req[q].pc = "credit"
Saving(q) == req[q].pc = "savePayment" /\ req[q].kind = "accept"
Active(q) == Crediting(q) \/ Saving(q)

\* A webhook has credited all it owes no more, and a paid payment everybody.
WebhookKnown ==
    /\ PaidHasCredited
    /\ \A q \in Requests :
          /\ Crediting(q) => /\ req[q].kind = "accept"
                             /\ missed \/ \A s \in listed \ req[q].owed : credits[s] > 0
          /\ Saving(q) => missed \/ \A s \in listed : credits[s] > 0
          /\ req[q].pc \in {"saveOrder", "savePayment"} /\ req[q].kind = "challenge"
                => req[q].payment # "paid"

\* Unless something let a seller be credited again, one webhook credits, and
\* once it is done the payment says so to whoever reads it from then on.
Once ==
    ~again =>
        /\ \A s \in Sellers : credits[s] <= 1
        /\ \A q \in Requests : Crediting(q) => \A s \in req[q].owed : credits[s] = 0
        /\ \A q, z \in Requests : Active(q) /\ Active(z) => q = z
        /\ (\A q \in Requests : ~Active(q)) /\ (\E s \in Sellers : credits[s] > 0) =>
              /\ payment = "paid"
              /\ \A q \in Requests : req[q].pc = "saveOrder" /\ req[q].kind = "accept"
                                       => req[q].oldPayment

\* A cancellation that nobody outdated still sees a pending order.
CancelKnown ==
    \A q \in Requests : req[q].pc = "cancel" /\ ~req[q].oldOrder => order = "pending"

\* A courier's request that nobody outdated is one leg ahead of the shipment.
LegKnown ==
    \A q \in Requests :
        /\ req[q].pc \in {"insertShipment", "saveLegOrder", "saveLeg"} =>
              req[q].shipment \in Shipments
        /\ req[q].pc = "insertShipment" =>
              /\ shipment[req[q].shipment] = "none"
              /\ \A z \in Requests \ {q} : req[z].shipment # req[q].shipment
        /\ req[q].pc \in {"saveLegOrder", "saveLeg"} /\ ~req[q].oldLeg =>
              /\ shipment[req[q].shipment] \in DOMAIN NextLeg
              /\ req[q].leg = NextLeg[shipment[req[q].shipment]]

OrdersInv ==
    /\ TypeOK
    /\ Origin
    /\ WebhookKnown
    /\ Once
    /\ CancelKnown
    /\ LegKnown

-----------------------------------------------------------------------------
(* How a step of request r changes the local variables of all requests.    *)

Same(q) ==
    /\ req'[q].pc = req[q].pc
    /\ req'[q].kind = req[q].kind
    /\ req'[q].payment = req[q].payment
    /\ req'[q].owed = req[q].owed
    /\ req'[q].shipment = req[q].shipment
    /\ req'[q].leg = req[q].leg
    /\ req[q].oldOrder => req'[q].oldOrder
    /\ req[q].oldPayment => req'[q].oldPayment
    /\ req[q].oldLeg => req'[q].oldLeg

\* r's own record becomes new; of the others' only the history flags change.
Moves(r, new) ==
    /\ req' \in [Requests -> Request]
    /\ req'[r] = new
    /\ \A q \in Requests \ {r} : Same(q)

\* The idle record is a record of a request.
LEMMA IdleRequest ==
    /\ Idle \in Request
    /\ Idle.pc = "idle" /\ Idle.kind = "pending" /\ Idle.payment = "none"
    /\ Idle.shipment = NoShipment /\ Idle.owed = {}
  BY DEF Idle, Request, Notifications, PaymentStatuses, Legs

\* Become changes r's record alone.
LEMMA BecomeMoves ==
    ASSUME TypeOK, NEW r \in Requests, NEW new \in Request, Become(r, new)
    PROVE  Moves(r, new) /\ \A q \in Requests \ {r} : req'[q] = req[q]
<1>1. req \in [Requests -> Request] /\ req' = [req EXCEPT ![r] = new]
  BY DEF TypeOK, Become
<1>2. \A q \in Requests \ {r} : req'[q] = req[q]
  BY <1>1
<1>3. QED BY <1>1, <1>2 DEF Moves, Same

\* Saving the order marks the cancellations of others.
LEMMA SavedOrderMoves ==
    ASSUME TypeOK, NEW r \in Requests, NEW new \in Request, SavedOrder(r, new)
    PROVE  /\ Moves(r, new)
           /\ \A q \in Requests \ {r} : req'[q].pc = "cancel" => req'[q].oldOrder
<1>1. /\ req \in [Requests -> Request]
      /\ req' = [q \in Requests |-> IF q = r THEN new
                                    ELSE IF req[q].pc = "cancel"
                                    THEN [req[q] EXCEPT !.oldOrder = TRUE] ELSE req[q]]
  BY DEF TypeOK, SavedOrder
<1>2. ASSUME NEW q \in Requests, q # r
      PROVE  req'[q] \in Request /\ Same(q) /\ (req'[q].pc = "cancel" => req'[q].oldOrder)
  <2>1. req[q] \in Request
    BY <1>1
  <2>2. CASE req[q].pc = "cancel"
    <3>1. req'[q] = [req[q] EXCEPT !.oldOrder = TRUE]
      BY <1>1, <1>2, <2>2
    <3>2. QED BY <2>1, <3>1 DEF Request, Same
  <2>3. CASE req[q].pc # "cancel"
    <3>1. req'[q] = req[q]
      BY <1>1, <1>2, <2>3
    <3>2. QED BY <2>1, <2>3, <3>1 DEF Same
  <2>4. QED BY <2>2, <2>3
<1>3. req'[r] = new /\ req' \in [Requests -> Request]
  BY <1>1, <1>2
<1>4. QED BY <1>2, <1>3 DEF Moves

\* Saving the payment marks the webhooks that have still to save the order.
LEMMA SavedPaymentMoves ==
    ASSUME TypeOK, NEW r \in Requests, NEW new \in Request, SavedPayment(r, new)
    PROVE  /\ Moves(r, new)
           /\ \A q \in Requests \ {r} : req'[q].pc = "saveOrder" => req'[q].oldPayment
<1>1. /\ req \in [Requests -> Request]
      /\ req' = [q \in Requests |-> IF q = r THEN new
                                    ELSE IF req[q].pc = "saveOrder"
                                    THEN [req[q] EXCEPT !.oldPayment = TRUE] ELSE req[q]]
  BY DEF TypeOK, SavedPayment
<1>2. ASSUME NEW q \in Requests, q # r
      PROVE  req'[q] \in Request /\ Same(q) /\ (req'[q].pc = "saveOrder" => req'[q].oldPayment)
  <2>1. req[q] \in Request
    BY <1>1
  <2>2. CASE req[q].pc = "saveOrder"
    <3>1. req'[q] = [req[q] EXCEPT !.oldPayment = TRUE]
      BY <1>1, <1>2, <2>2
    <3>2. QED BY <2>1, <3>1 DEF Request, Same
  <2>3. CASE req[q].pc # "saveOrder"
    <3>1. req'[q] = req[q]
      BY <1>1, <1>2, <2>3
    <3>2. QED BY <2>1, <2>3, <3>1 DEF Same
  <2>4. QED BY <2>2, <2>3
<1>3. req'[r] = new /\ req' \in [Requests -> Request]
  BY <1>1, <1>2
<1>4. QED BY <1>2, <1>3 DEF Moves

-----------------------------------------------------------------------------
(* Each part of the invariant, along a step that moves r.                  *)

\* Nobody but r starts or stops crediting, and CancelKnown needs r only.
LEMMA KeepOrigin ==
    ASSUME OrdersInv, NEW r \in Requests, NEW new \in Request, Moves(r, new),
           gateway = "paid" => gateway' = "paid",
           "accept" \in sent' => gateway' = "paid",
           new.kind = "accept" => gateway' = "paid",
           new.payment = "paid" => gateway' = "paid",
           PaidMeansPaid'
    PROVE  Origin'
<1>1. ASSUME NEW q \in Requests
      PROVE  (req'[q].kind = "accept" => gateway' = "paid")
             /\ (req'[q].payment = "paid" => gateway' = "paid")
  <2>1. CASE q = r
    BY <2>1 DEF Moves
  <2>2. CASE q # r
    BY <2>2 DEF Moves, Same, OrdersInv, Origin
  <2>3. QED BY <2>1, <2>2
<1>2. QED BY <1>1 DEF Origin

\* The webhooks of the others keep what they know while nobody loses a credit.
LEMMA KeepWebhooks ==
    ASSUME OrdersInv, NEW r \in Requests, NEW new \in Request, Moves(r, new),
           missed => missed', listed' \subseteq listed,
           \A s \in Sellers : credits[s] > 0 => credits'[s] > 0,
           PaidHasCredited',
           new.pc = "credit" =>
               new.kind = "accept" /\ (missed' \/ \A s \in listed' \ new.owed : credits'[s] > 0),
           new.pc = "savePayment" /\ new.kind = "accept" =>
               missed' \/ \A s \in listed' : credits'[s] > 0,
           new.pc \in {"saveOrder", "savePayment"} /\ new.kind = "challenge"
               => new.payment # "paid"
    PROVE  WebhookKnown'
<1>1. listed \subseteq Sellers
  BY DEF OrdersInv, TypeOK
<1>2. ASSUME NEW q \in Requests
      PROVE  /\ Crediting(q)' => /\ req'[q].kind = "accept"
                                 /\ missed' \/ \A s \in listed' \ req'[q].owed : credits'[s] > 0
             /\ Saving(q)' => missed' \/ \A s \in listed' : credits'[s] > 0
             /\ req'[q].pc \in {"saveOrder", "savePayment"} /\ req'[q].kind = "challenge"
                   => req'[q].payment # "paid"
  <2>1. CASE q = r
    BY <2>1 DEF Moves, Crediting, Saving
  <2>2. CASE q # r
    BY <1>1, <2>2 DEF Moves, Same, Crediting, Saving, OrdersInv, WebhookKnown
  <2>3. QED BY <2>1, <2>2
<1>3. QED BY <1>2 DEF WebhookKnown

\* A step after which r credits no more than before, and no credit was added.
LEMMA KeepOnce ==
    ASSUME OrdersInv, NEW r \in Requests, NEW new \in Request, Moves(r, new),
           again => again', credits' = credits,
           ~again' => (payment = "paid" => payment' = "paid"),
           Active(r) \/ (new.pc # "credit" /\ ~(new.pc = "savePayment" /\ new.kind = "accept")),
           ~again' /\ Active(r) => new.pc = "credit" \/ (new.pc = "savePayment" /\ new.kind = "accept"),
           new.pc = "credit" => Crediting(r) /\ new.owed \subseteq req[r].owed,
           new.pc = "saveOrder" /\ new.kind = "accept" => payment # "paid"
    PROVE  Once'
<1> SUFFICES ASSUME ~again' PROVE Once'
  BY DEF Once
<1>1. ~again
  OBVIOUS
<1>2. \A q \in Requests : Active(q)' <=> Active(q)
  BY DEF Moves, Same, Active, Crediting, Saving
<1>3. \A q \in Requests : Crediting(q)' => Crediting(q) /\ req'[q].owed \subseteq req[q].owed
  BY DEF Moves, Same, Crediting
<1>4. /\ \A s \in Sellers : credits'[s] <= 1
      /\ \A q \in Requests : Crediting(q)' => \A s \in req'[q].owed : credits'[s] = 0
      /\ \A q, z \in Requests : Active(q)' /\ Active(z)' => q = z
  BY <1>1, <1>2, <1>3 DEF OrdersInv, Once
<1>5. ASSUME \A q \in Requests : ~Active(q)', NEW s \in Sellers, credits'[s] > 0
      PROVE  /\ payment' = "paid"
             /\ \A q \in Requests : req'[q].pc = "saveOrder" /\ req'[q].kind = "accept"
                                       => req'[q].oldPayment
  <2>1. \A q \in Requests : ~Active(q)
    BY <1>2, <1>5
  <2>2. /\ payment = "paid"
        /\ \A q \in Requests : req[q].pc = "saveOrder" /\ req[q].kind = "accept"
                                 => req[q].oldPayment
    BY <1>1, <1>5, <2>1 DEF OrdersInv, Once
  <2>3. QED BY <2>2 DEF Moves, Same
<1>6. QED BY <1>4, <1>5 DEF Once

\* The cancellations of the others, when the order stays or they are marked.
LEMMA KeepCancel ==
    ASSUME OrdersInv, NEW r \in Requests, NEW new \in Request, Moves(r, new),
           \/ order' = order
           \/ \A q \in Requests \ {r} : req'[q].pc = "cancel" => req'[q].oldOrder,
           new.pc = "cancel" /\ ~new.oldOrder => order' = "pending"
    PROVE  CancelKnown'
  BY DEF Moves, Same, OrdersInv, CancelKnown

\* The legs of the others, when no shipment changes and r claims none.
LEMMA KeepLegs ==
    ASSUME OrdersInv, NEW r \in Requests, NEW new \in Request, Moves(r, new),
           shipment' = shipment,
           new.shipment \in {NoShipment, req[r].shipment},
           new.pc # "insertShipment",
           new.pc \in {"saveLegOrder", "saveLeg"} =>
               /\ req[r].pc \in {"saveLegOrder", "saveLeg"}
               /\ new.shipment = req[r].shipment /\ new.leg = req[r].leg
               /\ req[r].oldLeg => new.oldLeg
    PROVE  LegKnown'
<1> SUFFICES ASSUME NEW q \in Requests
    PROVE  /\ req'[q].pc \in {"insertShipment", "saveLegOrder", "saveLeg"} =>
                 req'[q].shipment \in Shipments
           /\ req'[q].pc = "insertShipment" =>
                 /\ shipment'[req'[q].shipment] = "none"
                 /\ \A z \in Requests \ {q} : req'[z].shipment # req'[q].shipment
           /\ req'[q].pc \in {"saveLegOrder", "saveLeg"} /\ ~req'[q].oldLeg =>
                 /\ shipment'[req'[q].shipment] \in DOMAIN NextLeg
                 /\ req'[q].leg = NextLeg[shipment'[req'[q].shipment]]
  BY DEF LegKnown
<1>1. CASE q = r
  BY <1>1 DEF Moves, OrdersInv, LegKnown
<1>2. CASE q # r
  <2>1. Same(q) /\ \A z \in Requests \ {r} : Same(z)
    BY <1>2 DEF Moves
  <2>2. req[q].pc = "insertShipment" => req'[r].shipment # req[q].shipment
    BY <1>2, ShipmentAssumption DEF Moves, OrdersInv, LegKnown
  <2>3. QED BY <1>2, <2>1, <2>2 DEF Same, OrdersInv, LegKnown
<1>3. QED BY <1>1, <1>2

-----------------------------------------------------------------------------
(* Steps after which r is neither a webhook nor a courier.                 *)

\* A step that leaves r with nothing to credit, to pay or to deliver keeps the
\* invariant, if it marks the cancellations it outdates and if a webhook it
\* cuts short is on record.
LEMMA QuietStep ==
    ASSUME OrdersInv, TypeOK', NEW r \in Requests, NEW new \in Request, Moves(r, new),
           new.pc \notin {"credit", "savePayment", "saveOrder",
                          "insertShipment", "saveLegOrder", "saveLeg"},
           new.kind # "accept", new.payment # "paid",
           new.shipment \in {NoShipment, req[r].shipment},
           new.pc = "cancel" => order' = "pending",
           order' = "paid" => order = "paid",
           \/ order' = order
           \/ \A q \in Requests \ {r} : req'[q].pc = "cancel" => req'[q].oldOrder,
           payment' = "paid" <=> payment = "paid",
           gateway = "paid" => gateway' = "paid", sent' = sent,
           shipment' = shipment, listed' = listed, credits' = credits,
           missed' = missed, again => again', Active(r) => again'
    PROVE  OrdersInv'
<1>1. PaidMeansPaid' /\ PaidHasCredited'
  BY DEF OrdersInv, Origin, WebhookKnown, PaidMeansPaid, PaidHasCredited
<1>2. Origin'
  <2>1. "accept" \in sent' => gateway' = "paid"
    BY DEF OrdersInv, Origin
  <2>2. QED BY <1>1, <2>1, KeepOrigin
<1>3. WebhookKnown'
  BY <1>1, KeepWebhooks
<1>4. Once'
  BY KeepOnce
<1>5. CancelKnown'
  BY KeepCancel
<1>6. LegKnown'
  BY KeepLegs
<1>7. QED BY <1>2, <1>3, <1>4, <1>5, <1>6 DEF OrdersInv

\* A cancellation that begins has just seen a pending order.
LEMMA CancelOrderStep ==
    ASSUME OrdersInv, NEW r \in Requests, CancelOrder(r)
    PROVE  OrdersInv'
<1> DEFINE new == [Idle EXCEPT !.pc = "cancel"]
<1>1. new \in Request /\ new.pc = "cancel" /\ new.kind # "accept" /\ new.payment # "paid"
      /\ new.shipment = NoShipment
  BY DEF Idle, Request, Notifications, PaymentStatuses, Legs
<1>2. Moves(r, new)
  BY <1>1, BecomeMoves DEF OrdersInv, CancelOrder
<1>3. ~Active(r)
  BY DEF CancelOrder, Active, Crediting, Saving
<1>4. TypeOK'
  BY <1>2 DEF OrdersInv, TypeOK, Moves, CancelOrder, rows, midtrans, history
<1> HIDE DEF new
<1>5. QED BY <1>1, <1>2, <1>3, <1>4, QuietStep DEF CancelOrder, rows, midtrans, history

\* The save of a cancellation marks the other cancellations.
LEMMA SaveCancelledStep ==
    ASSUME OrdersInv, NEW r \in Requests, SaveCancelled(r)
    PROVE  OrdersInv'
<1>1. Moves(r, Idle)
      /\ \A q \in Requests \ {r} : req'[q].pc = "cancel" => req'[q].oldOrder
  BY IdleRequest, SavedOrderMoves DEF OrdersInv, SaveCancelled
<1>2. ~Active(r)
  BY DEF SaveCancelled, Active, Crediting, Saving
<1>3. TypeOK'
  BY <1>1 DEF OrdersInv, TypeOK, Moves, SaveCancelled, OrderStatuses, midtrans, history
<1>4. QED BY <1>1, <1>2, <1>3, IdleRequest, QuietStep DEF SaveCancelled, midtrans, history

\* The same for the status an administrator's shipment sets.
LEMMA SaveProcessingStep ==
    ASSUME OrdersInv, NEW r \in Requests, SaveProcessing(r)
    PROVE  OrdersInv'
<1>1. Moves(r, Idle)
      /\ \A q \in Requests \ {r} : req'[q].pc = "cancel" => req'[q].oldOrder
  BY IdleRequest, SavedOrderMoves DEF OrdersInv, SaveProcessing
<1>2. ~Active(r)
  BY DEF SaveProcessing, Active, Crediting, Saving
<1>3. TypeOK'
  BY <1>1 DEF OrdersInv, TypeOK, Moves, SaveProcessing, OrderStatuses, midtrans, history
<1>4. QED BY <1>1, <1>2, <1>3, IdleRequest, QuietStep DEF SaveProcessing, midtrans, history

\* The steps of CreatePayment change payment and gateway before they are paid.
LEMMA CreatePaymentSteps ==
    ASSUME OrdersInv, NEW r \in Requests,
           \/ CreatePayment(r) \/ FindPayment(r) \/ InsertPayment(r)
           \/ CallSnap(r) \/ SnapFails(r) \/ InsertMt(r)
    PROVE  OrdersInv'
<1> DEFINE At == {"idle", "findPayment", "insertPayment", "callSnap", "insertMt"}
<1>1. \A pc \in At : LET local == [Idle EXCEPT !.pc = pc]
                     IN  /\ local \in Request /\ local.pc \in At
                         /\ local.kind # "accept" /\ local.payment # "paid"
                         /\ local.shipment = NoShipment
  BY DEF Idle, Request, Notifications, PaymentStatuses, Legs
<1>2. PICK new \in {Idle} \cup {[Idle EXCEPT !.pc = pc] : pc \in At} : Become(r, new)
  <2>1. CASE CreatePayment(r)
    BY <2>1 DEF CreatePayment
  <2>2. CASE FindPayment(r)
    BY <2>2 DEF FindPayment
  <2>3. CASE InsertPayment(r)
    BY <2>3 DEF InsertPayment
  <2>4. CASE CallSnap(r)
    BY <2>4 DEF CallSnap
  <2>5. CASE SnapFails(r)
    BY <2>5 DEF SnapFails
  <2>6. CASE InsertMt(r)
    BY <2>6 DEF InsertMt
  <2>7. QED BY <2>1, <2>2, <2>3, <2>4, <2>5, <2>6
<1>3. /\ new \in Request /\ new.pc \in At /\ new.kind # "accept"
      /\ new.payment # "paid" /\ new.shipment = NoShipment
  <2>1. CASE new = Idle
    BY <2>1, IdleRequest
  <2>2. CASE \E pc \in At : new = [Idle EXCEPT !.pc = pc]
    BY <1>1, <2>2
  <2>3. QED BY <1>2, <2>1, <2>2
<1>4. /\ order' = order /\ sent' = sent /\ acked' = acked
      /\ shipment' = shipment /\ listed' = listed
      /\ credits' = credits /\ missed' = missed /\ again' = again
      /\ req[r].pc \in At
  BY DEF CreatePayment, FindPayment, InsertPayment, CallSnap, SnapFails, InsertMt,
         rows, midtrans, history
<1>5. payment' = payment \/ (payment = "none" /\ payment' = "pending")
  BY DEF CreatePayment, FindPayment, InsertPayment, CallSnap, SnapFails, InsertMt, rows
<1>6. gateway' = gateway \/ (gateway = "none" /\ gateway' = "open")
  BY DEF CreatePayment, FindPayment, InsertPayment, CallSnap, SnapFails, InsertMt, midtrans
<1>7. mt' = mt \/ mt' = TRUE
  BY DEF CreatePayment, FindPayment, InsertPayment, CallSnap, SnapFails, InsertMt, rows
<1>8. Moves(r, new)
  BY <1>2, <1>3, BecomeMoves DEF OrdersInv
<1>9. TypeOK'
  <2>1. req' \in [Requests -> Request]
    BY <1>8 DEF Moves
  <2>2. payment' \in {"none"} \cup PaymentStatuses
    BY <1>5 DEF OrdersInv, TypeOK, PaymentStatuses
  <2>3. gateway' \in {"none", "open", "paid", "closed"}
    BY <1>6 DEF OrdersInv, TypeOK
  <2>4. mt' \in BOOLEAN
    BY <1>7 DEF OrdersInv, TypeOK
  <2>5. QED BY <1>4, <2>1, <2>2, <2>3, <2>4 DEF OrdersInv, TypeOK
<1>10. ~Active(r)
  BY <1>4 DEF Active, Crediting, Saving
<1>11. payment' = "paid" <=> payment = "paid"
  BY <1>5
<1>12. gateway = "paid" => gateway' = "paid"
  BY <1>6
<1>13. QED BY <1>3, <1>4, <1>8, <1>9, <1>10, <1>11, <1>12, QuietStep

\* A request that ends, or a webhook whose save of the payment fails unseen.
LEMMA EndStep ==
    ASSUME OrdersInv, NEW r \in Requests, Crash(r) \/ SavePaymentFails(r)
    PROVE  OrdersInv'
<1>1. Moves(r, Idle)
  BY IdleRequest, BecomeMoves DEF OrdersInv, Crash, SavePaymentFails
<1>2. (again => again') /\ (Active(r) => again') /\ again' \in BOOLEAN /\ acked' \in BOOLEAN
  <2>1. Crediting(r) => req[r].kind = "accept"
    BY DEF OrdersInv, WebhookKnown
  <2>2. QED BY <2>1 DEF Crash, SavePaymentFails, Active, Crediting, Saving, midtrans,
                       OrdersInv, TypeOK
<1>3. UNCHANGED <<rows, gateway, sent, credits, missed>>
  BY DEF Crash, SavePaymentFails, midtrans
<1>4. TypeOK'
  BY <1>1, <1>2, <1>3 DEF OrdersInv, TypeOK, Moves, rows
<1>5. QED BY <1>1, <1>2, <1>3, <1>4, IdleRequest, QuietStep DEF rows

-----------------------------------------------------------------------------
(* Midtrans, and the product catalogue: no request moves.                  *)

\* A step of none of the requests keeps what is known of them.
LEMMA OutsideStep ==
    ASSUME OrdersInv, TypeOK', req' = req,
           UNCHANGED <<order, payment, shipment, history>>,
           listed' \subseteq listed,
           gateway = "paid" => gateway' = "paid",
           "accept" \in sent' => gateway' = "paid"
    PROVE  OrdersInv'
<1>1. Origin'
  BY DEF OrdersInv, Origin, PaidMeansPaid, history
<1>2. WebhookKnown'
  BY DEF OrdersInv, WebhookKnown, PaidHasCredited, Crediting, Saving, history
<1>3. Once'
  BY DEF OrdersInv, Once, Active, Crediting, Saving, history
<1>4. CancelKnown'
  BY DEF OrdersInv, CancelKnown
<1>5. LegKnown'
  BY DEF OrdersInv, LegKnown
<1>6. QED BY <1>1, <1>2, <1>3, <1>4, <1>5 DEF OrdersInv

\* Midtrans sends "accept" only as the customer pays.
LEMMA MidtransSteps ==
    ASSUME OrdersInv, Pay \/ Expire \/ \E n \in Notifications : Notify(n)
    PROVE  OrdersInv'
<1>1. UNCHANGED <<rows, acked, req, history>> /\ sent' \subseteq Notifications
  BY DEF Pay, Expire, Notify, OrdersInv, TypeOK, Notifications
<1>2. /\ gateway' \in {"none", "open", "paid", "closed"}
      /\ gateway = "paid" => gateway' = "paid"
      /\ "accept" \in sent' => gateway' = "paid"
  BY DEF Pay, Expire, Notify, OrdersInv, TypeOK, Origin
<1>3. TypeOK'
  BY <1>1, <1>2 DEF OrdersInv, TypeOK, rows, history
<1>4. QED BY <1>1, <1>2, <1>3, OutsideStep DEF rows

\* A deleted product is one seller less to have credited.
LEMMA DeleteProductStep ==
    ASSUME OrdersInv, NEW s \in Sellers, DeleteProduct(s)
    PROVE  OrdersInv'
<1>1. TypeOK'
  BY DEF DeleteProduct, OrdersInv, TypeOK, midtrans, history
<1>2. QED BY <1>1, OutsideStep DEF DeleteProduct, OrdersInv, Origin, midtrans

-----------------------------------------------------------------------------
(* The webhook.                                                            *)

\* A webhook that goes on to work knows what was sent and what it read.
LEMMA ReadPaymentStep ==
    ASSUME OrdersInv, NEW r \in Requests, NEW n \in Notifications, ReadPayment(r, n)
    PROVE  OrdersInv'
<1>1. acked' \in BOOLEAN /\ UNCHANGED <<rows, gateway, sent, history>>
  BY DEF ReadPayment, OrdersInv, TypeOK
<1>2. CASE AfterRead(n) = "idle"
  <2>1. req' = req
    BY <1>2 DEF ReadPayment
  <2>2. TypeOK'
    BY <1>1, <2>1 DEF OrdersInv, TypeOK, rows, history
  <2>3. QED BY <1>1, <2>1, <2>2, OutsideStep DEF rows, OrdersInv, Origin
<1>3. CASE AfterRead(n) # "idle"
  <2> DEFINE new == [Idle EXCEPT !.pc = AfterRead(n), !.kind = n, !.payment = payment]
  <2>1. new.pc \in {"saveOrder", "savePayment"} /\ new.kind = n /\ new.payment = payment
        /\ new.shipment = NoShipment
    BY <1>3 DEF AfterRead, Idle
  <2>2. /\ n = "accept" => new.pc = "saveOrder"
        /\ payment = "paid" => n \notin {"accept", "challenge"}
    BY <1>3, <2>1 DEF AfterRead, Idle
  <2>3. new \in Request
    BY <1>3, IdleRequest DEF AfterRead, Request, OrdersInv, TypeOK
  <2>4. Moves(r, new)
    BY <1>3, <2>3, BecomeMoves DEF ReadPayment, OrdersInv
  <2>5. TypeOK'
    BY <1>1, <2>4 DEF OrdersInv, TypeOK, Moves, rows, history
  <2>6. ~Active(r)
    BY DEF ReadPayment, Active, Crediting, Saving
  <2>7. (n = "accept" => gateway = "paid") /\ (payment = "paid" => gateway = "paid")
    BY DEF ReadPayment, OrdersInv, Origin, PaidMeansPaid
  <2> HIDE DEF new
  <2>8. Origin'
    <3>1. PaidMeansPaid'
      BY <1>1 DEF OrdersInv, Origin, PaidMeansPaid, rows, history
    <3>2. QED BY <1>1, <2>1, <2>3, <2>4, <2>7, <3>1, KeepOrigin DEF OrdersInv, Origin
  <2>9. WebhookKnown'
    <3>1. PaidHasCredited'
      BY <1>1 DEF OrdersInv, WebhookKnown, PaidHasCredited, rows, history
    <3>2. QED BY <1>1, <2>1, <2>2, <2>3, <2>4, <3>1, KeepWebhooks DEF rows, history
  <2>10. Once'
    BY <1>1, <2>1, <2>2, <2>3, <2>4, <2>6, KeepOnce DEF rows, history
  <2>11. CancelKnown'
    BY <1>1, <2>1, <2>3, <2>4, KeepCancel DEF rows
  <2>12. LegKnown'
    BY <1>1, <2>1, <2>3, <2>4, KeepLegs DEF rows
  <2>13. QED BY <2>5, <2>8, <2>9, <2>10, <2>11, <2>12 DEF OrdersInv
<1>4. QED BY <1>2, <1>3

\* A webhook that has saved the order, or failed to, is the only one crediting
\* unless it overlaps another.
LEMMA SaveOrderStep ==
    ASSUME OrdersInv, NEW r \in Requests, SaveOrder(r) \/ SaveOrderFails(r)
    PROVE  OrdersInv'
<1> DEFINE accept == req[r].kind = "accept"
<1> DEFINE new == IF accept THEN [req[r] EXCEPT !.pc = "credit", !.owed = listed]
                  ELSE [req[r] EXCEPT !.pc = "savePayment"]
<1>1. req[r] \in Request /\ listed \subseteq Sellers
  BY DEF OrdersInv, TypeOK
<1>2. /\ new \in Request /\ new.kind = req[r].kind /\ new.payment = req[r].payment
      /\ new.shipment = req[r].shipment
      /\ accept => new.pc = "credit" /\ new.owed = listed
      /\ ~accept => new.pc = "savePayment"
  <2>1. CASE accept
    BY <1>1, <2>1 DEF Request
  <2>2. CASE ~accept
    BY <1>1, <2>2 DEF Request
  <2>3. QED BY <2>1, <2>2
<1>3. /\ Moves(r, new)
      /\ \/ order' = order
         \/ \A q \in Requests \ {r} : req'[q].pc = "cancel" => req'[q].oldOrder
  <2>1. CASE SaveOrder(r)
    <3>1. SavedOrder(r, new)
      BY <2>1 DEF SaveOrder
    <3>2. QED BY <1>2, <3>1, SavedOrderMoves DEF OrdersInv
  <2>2. CASE SaveOrderFails(r)
    <3>1. Become(r, new)
      BY <2>2 DEF SaveOrderFails
    <3>2. QED BY <1>2, <2>2, <3>1, BecomeMoves DEF OrdersInv, SaveOrderFails, rows
  <2>3. QED BY <2>1, <2>2
<1>4. /\ req[r].pc = "saveOrder"
      /\ UNCHANGED <<payment, mt, shipment, listed, midtrans, credits, missed>>
  BY DEF SaveOrder, SaveOrderFails, rows
<1>5. again' = (again \/ (accept /\ Overlapping(r)))
  BY DEF SaveOrder, SaveOrderFails, OrdersInv, TypeOK
<1>6. order' \in OrderStatuses /\ (order' = "paid" => order = "paid" \/ accept)
  BY DEF SaveOrder, SaveOrderFails, OrdersInv, TypeOK, OrderStatuses, rows
<1>7. TypeOK'
  BY <1>3, <1>4, <1>5, <1>6 DEF OrdersInv, TypeOK, Moves, midtrans
<1>8. ~Active(r)
  BY <1>4 DEF Active, Crediting, Saving
<1> HIDE DEF new
<1>9. Origin'
  <2>1. (accept => gateway = "paid") /\ (req[r].payment = "paid" => gateway = "paid")
    BY DEF OrdersInv, Origin
  <2>2. PaidMeansPaid'
    BY <1>4, <1>6, <2>1 DEF OrdersInv, Origin, PaidMeansPaid, midtrans
  <2>3. "accept" \in sent' => gateway' = "paid"
    BY <1>4 DEF OrdersInv, Origin, midtrans
  <2>4. QED BY <1>2, <1>3, <1>4, <2>1, <2>2, <2>3, KeepOrigin DEF midtrans
<1>10. WebhookKnown'
  <2>1. PaidHasCredited'
    BY <1>4 DEF OrdersInv, WebhookKnown, PaidHasCredited
  <2>2. req[r].kind = "challenge" => req[r].payment # "paid"
    BY <1>4 DEF OrdersInv, WebhookKnown
  <2>3. QED BY <1>2, <1>3, <1>4, <2>1, <2>2, KeepWebhooks
<1>11. Once'
  <2>1. CASE ~accept
    BY <1>2, <1>3, <1>4, <1>5, <1>8, <2>1, KeepOnce
  <2>2. CASE accept
    <3> SUFFICES ASSUME ~again' PROVE Once'
      BY DEF Once
    <3>1. ~again /\ ~Overlapping(r)
      BY <1>5, <2>2
    <3>2. \A q \in Requests : ~Active(q)
      <4>1. \A q \in Requests : Crediting(q) => req[q].kind = "accept"
        BY DEF OrdersInv, WebhookKnown
      <4>2. QED BY <1>8, <3>1, <4>1 DEF Overlapping, Active, Crediting, Saving
    <3>3. \A s \in Sellers : credits[s] = 0
      <4>1. ~\E s \in Sellers : credits[s] > 0
        BY <1>4, <2>2, <3>1, <3>2 DEF OrdersInv, Once, Overlapping
      <4>2. \A s \in Sellers : credits[s] \in Nat
        BY CreditsAssumption DEF OrdersInv, TypeOK
      <4>3. QED BY <4>1, <4>2
    <3>4. \A q \in Requests : Active(q)' => q = r
      BY <1>3, <3>2 DEF Moves, Same, Active, Crediting, Saving
    <3>5. Active(r)' /\ req'[r].owed \subseteq Sellers
      BY <1>1, <1>2, <1>3, <2>2 DEF Moves, Active, Crediting
    <3>6. \A s \in Sellers : credits'[s] = 0
      BY <1>4, <3>3
    <3>7. \A q \in Requests : Crediting(q)' => \A s \in req'[q].owed : credits'[s] = 0
      BY <3>4, <3>5, <3>6 DEF Active
    <3>8. QED BY <3>4, <3>5, <3>6, <3>7 DEF Once
  <2>3. QED BY <2>1, <2>2
<1>12. CancelKnown'
  BY <1>2, <1>3, KeepCancel
<1>13. LegKnown'
  BY <1>2, <1>3, <1>4, KeepLegs
<1>14. QED BY <1>7, <1>9, <1>10, <1>11, <1>12, <1>13 DEF OrdersInv

\* A step of a webhook that credits: it is done with one seller, or with all.
LEMMA CreditSteps ==
    ASSUME OrdersInv, NEW r \in Requests, NEW s \in Sellers,
           Credit(r, s) \/ CreditFails(r, s)
    PROVE  OrdersInv'
<1> DEFINE new == [req[r] EXCEPT !.owed = @ \ {s}]
<1>1. req[r] \in Request /\ credits \in [Sellers -> 0 .. MaxCredits] /\ MaxCredits \in Nat \ {0}
  BY CreditsAssumption DEF OrdersInv, TypeOK
<1>2. /\ new \in Request /\ new.pc = req[r].pc /\ new.kind = req[r].kind
      /\ new.payment = req[r].payment /\ new.shipment = req[r].shipment
      /\ new.owed = req[r].owed \ {s}
  BY <1>1 DEF Request
<1>3. Moves(r, new) /\ req[r].pc = "credit" /\ s \in req[r].owed
  BY <1>2, BecomeMoves DEF OrdersInv, Credit, CreditFails
<1>4. UNCHANGED <<rows, midtrans, again>>
  BY DEF Credit, CreditFails
<1>5. missed' \in BOOLEAN /\ (missed => missed')
  BY DEF Credit, CreditFails, OrdersInv, TypeOK
<1>6. /\ credits' \in [Sellers -> 0 .. MaxCredits]
      /\ \A z \in Sellers : credits[z] > 0 => credits'[z] > 0
      /\ \A z \in Sellers \ {s} : credits'[z] = credits[z]
      /\ credits'[s] <= credits[s] + 1
      /\ missed' \/ credits'[s] > 0
  <2>1. CASE Credit(r, s)
    <3>1. credits' = [credits EXCEPT ![s] = IF @ < MaxCredits THEN @ + 1 ELSE @]
      BY <2>1 DEF Credit
    <3>2. (IF credits[s] < MaxCredits THEN credits[s] + 1 ELSE credits[s]) \in 1 .. MaxCredits
      BY <1>1
    <3>3. credits'[s] \in 1 .. MaxCredits /\ credits'[s] <= credits[s] + 1
      BY <1>1, <3>1, <3>2
    <3>4. QED BY <1>1, <3>1, <3>2, <3>3
  <2>2. CASE CreditFails(r, s)
    <3>1. credits' = credits /\ missed'
      BY <2>2 DEF CreditFails
    <3>2. QED BY <1>1, <3>1
  <2>3. QED BY <2>1, <2>2
<1>7. TypeOK'
  BY <1>3, <1>4, <1>5, <1>6 DEF OrdersInv, TypeOK, Moves, rows, midtrans
<1>8. /\ Crediting(r) /\ Active(r) /\ req[r].kind = "accept" /\ gateway = "paid"
      /\ missed \/ \A z \in listed \ req[r].owed : credits[z] > 0
  BY <1>3 DEF OrdersInv, Origin, WebhookKnown, Crediting, Active
<1> HIDE DEF new
<1>9. Origin'
  <2>1. PaidMeansPaid'
    BY <1>4, <1>8 DEF PaidMeansPaid, midtrans
  <2>2. QED BY <1>2, <1>3, <1>4, <1>8, <2>1, KeepOrigin DEF midtrans
<1>10. WebhookKnown'
  <2>1. listed \subseteq Sellers
    BY DEF OrdersInv, TypeOK
  <2>2. PaidHasCredited'
    BY <1>4, <1>5, <1>6, <2>1 DEF OrdersInv, WebhookKnown, PaidHasCredited, rows
  <2>3. missed' \/ \A z \in listed' \ new.owed : credits'[z] > 0
    BY <1>2, <1>4, <1>5, <1>6, <1>8, <2>1 DEF rows
  <2>4. QED BY <1>2, <1>3, <1>4, <1>5, <1>6, <1>8, <2>2, <2>3, KeepWebhooks DEF rows
<1>11. Once'
  <2> SUFFICES ASSUME ~again PROVE Once'
    BY <1>4 DEF Once
  <2>1. \A q \in Requests : (Crediting(q)' <=> Crediting(q)) /\ (Active(q)' <=> Active(q))
    BY <1>2, <1>3 DEF Moves, Same, Crediting, Saving, Active
  <2>2. \A q \in Requests : Active(q) => q = r
    BY <1>8 DEF OrdersInv, Once
  <2>3. \A z \in req[r].owed : credits[z] = 0
    BY <1>8 DEF OrdersInv, Once
  <2>4. \A z \in Sellers : credits'[z] <= 1
    <3>1. \A z \in Sellers : credits[z] <= 1
      BY DEF OrdersInv, Once
    <3>2. credits'[s] <= 1
      BY <1>3, <1>6, <2>3
    <3>3. QED BY <1>6, <3>1, <3>2
  <2>5. req'[r].owed \subseteq Sellers \ {s} /\ req'[r].owed \subseteq req[r].owed
    BY <1>1, <1>2, <1>3 DEF Moves, Request
  <2>6. \A z \in req'[r].owed : credits'[z] = 0
    BY <1>6, <2>3, <2>5
  <2>7. QED BY <1>8, <2>1, <2>2, <2>4, <2>6 DEF Once, Active
<1>12. CancelKnown'
  BY <1>2, <1>3, <1>4, KeepCancel DEF rows
<1>13. LegKnown'
  BY <1>2, <1>3, <1>4, KeepLegs DEF rows
<1>14. QED BY <1>7, <1>9, <1>10, <1>11, <1>12, <1>13 DEF OrdersInv

\* A webhook that owes nobody has only the payment left to save.
LEMMA CreditedStep ==
    ASSUME OrdersInv, NEW r \in Requests, Credited(r)
    PROVE  OrdersInv'
<1> DEFINE new == [req[r] EXCEPT !.pc = "savePayment"]
<1>1. req[r] \in Request
  BY DEF OrdersInv, TypeOK
<1>2. /\ new \in Request /\ new.pc = "savePayment" /\ new.kind = req[r].kind
      /\ new.payment = req[r].payment /\ new.shipment = req[r].shipment
  BY <1>1 DEF Request
<1>3. Moves(r, new) /\ req[r].pc = "credit" /\ req[r].owed = {}
  BY <1>2, BecomeMoves DEF OrdersInv, Credited
<1>4. UNCHANGED <<rows, midtrans, history>>
  BY DEF Credited
<1>5. TypeOK'
  BY <1>3, <1>4 DEF OrdersInv, TypeOK, Moves, rows, midtrans, history
<1>6. /\ Active(r) /\ req[r].kind = "accept" /\ gateway = "paid"
      /\ missed \/ \A z \in listed : credits[z] > 0
  BY <1>3 DEF OrdersInv, Origin, WebhookKnown, Crediting, Active
<1> HIDE DEF new
<1>7. Origin'
  <2>1. PaidMeansPaid'
    BY <1>4, <1>6 DEF PaidMeansPaid, midtrans
  <2>2. QED BY <1>2, <1>3, <1>4, <1>6, <2>1, KeepOrigin DEF midtrans
<1>8. WebhookKnown'
  <2>1. PaidHasCredited'
    BY <1>4 DEF OrdersInv, WebhookKnown, PaidHasCredited, rows, history
  <2>2. QED BY <1>2, <1>3, <1>4, <1>6, <2>1, KeepWebhooks DEF rows, history
<1>9. Once'
  BY <1>2, <1>3, <1>4, <1>6, KeepOnce DEF rows, history
<1>10. CancelKnown'
  BY <1>2, <1>3, <1>4, KeepCancel DEF rows
<1>11. LegKnown'
  BY <1>2, <1>3, <1>4, KeepLegs DEF rows
<1>12. QED BY <1>5, <1>7, <1>8, <1>9, <1>10, <1>11 DEF OrdersInv

\* A payment is saved as paid by a webhook that has credited everybody, and
\* those that have still to save the order are marked.
LEMMA SavePaymentStep ==
    ASSUME OrdersInv, NEW r \in Requests, SavePayment(r)
    PROVE  OrdersInv'
<1> DEFINE accept == req[r].kind = "accept"
<1>1. req[r] \in Request /\ req[r].pc = "savePayment"
  BY DEF OrdersInv, TypeOK, SavePayment
<1>2. Moves(r, Idle) /\ \A q \in Requests \ {r} : req'[q].pc = "saveOrder" => req'[q].oldPayment
  BY IdleRequest, SavedPaymentMoves DEF OrdersInv, SavePayment
<1>3. UNCHANGED <<order, mt, shipment, listed, gateway, sent, credits, missed>>
  BY DEF SavePayment
<1>4. /\ payment' \in {"none"} \cup PaymentStatuses
      /\ accept => payment' = "paid"
      /\ ~accept => payment' # "paid"
  <2>1. payment' = PaymentAfter(req[r].kind, req[r].payment)
    BY DEF SavePayment
  <2>2. req[r].kind = "challenge" => req[r].payment # "paid"
    BY <1>1 DEF OrdersInv, WebhookKnown
  <2>3. req[r].kind \in Notifications /\ req[r].payment \in {"none"} \cup PaymentStatuses
    BY <1>1 DEF Request
  <2>4. QED BY <2>1, <2>2, <2>3 DEF PaymentAfter, Notifications, PaymentStatuses
<1>5. /\ again' = (again \/ (payment = "paid" /\ payment' # "paid"))
      /\ again' \in BOOLEAN /\ acked' \in BOOLEAN
  BY DEF SavePayment, OrdersInv, TypeOK
<1>6. TypeOK'
  BY <1>2, <1>3, <1>4, <1>5 DEF OrdersInv, TypeOK, Moves
<1>7. Active(r) <=> accept
  BY <1>1 DEF Active, Crediting, Saving
<1>8. accept => gateway = "paid" /\ (missed \/ \A s \in listed : credits[s] > 0)
  BY <1>1 DEF OrdersInv, Origin, WebhookKnown, Saving
<1>9. Origin'
  <2>1. PaidMeansPaid'
    BY <1>3, <1>4, <1>8 DEF OrdersInv, Origin, PaidMeansPaid
  <2>2. "accept" \in sent' => gateway' = "paid"
    BY <1>3 DEF OrdersInv, Origin
  <2>3. QED BY <1>2, <1>3, <2>1, <2>2, IdleRequest, KeepOrigin
<1>10. WebhookKnown'
  <2>1. PaidHasCredited'
    BY <1>3, <1>4, <1>8 DEF PaidHasCredited
  <2>2. QED BY <1>2, <1>3, <2>1, IdleRequest, KeepWebhooks
<1>11. Once'
  <2>1. CASE ~accept
    BY <1>2, <1>3, <1>5, <1>7, <2>1, IdleRequest, KeepOnce
  <2>2. CASE accept
    <3> SUFFICES ASSUME ~again PROVE Once'
      BY <1>5 DEF Once
    <3>1. \A q \in Requests : Active(q) => q = r
      BY <1>7, <2>2 DEF OrdersInv, Once
    <3>2. \A q \in Requests : ~Active(q)'
      BY <1>2, <3>1, IdleRequest DEF Moves, Same, Active, Crediting, Saving
    <3>3. \A s \in Sellers : credits'[s] <= 1
      BY <1>3 DEF OrdersInv, Once
    <3>4. \A q \in Requests : req'[q].pc = "saveOrder" => req'[q].oldPayment
      BY <1>2, IdleRequest DEF Moves
    <3>5. QED BY <1>4, <2>2, <3>2, <3>3, <3>4 DEF Once, Active
  <2>3. QED BY <2>1, <2>2
<1>12. CancelKnown'
  BY <1>2, <1>3, IdleRequest, KeepCancel
<1>13. LegKnown'
  BY <1>2, <1>3, IdleRequest, KeepLegs
<1>14. QED BY <1>6, <1>9, <1>10, <1>11, <1>12, <1>13 DEF OrdersInv

-----------------------------------------------------------------------------
(* The administrator and the courier.                                      *)

\* A step of a request that is no webhook keeps what concerns the webhooks.
LEMMA CourierStep ==
    ASSUME OrdersInv, TypeOK', LegKnown', NEW r \in Requests, NEW new \in Request,
           Moves(r, new),
           new.pc \notin {"credit", "savePayment", "saveOrder", "cancel"},
           ~Active(r), new.kind \in {"pending", req[r].kind},
           new.payment \in {"none", req[r].payment},
           order' = "paid" => order = "paid",
           \/ order' = order
           \/ \A q \in Requests \ {r} : req'[q].pc = "cancel" => req'[q].oldOrder,
           UNCHANGED <<payment, mt, listed, midtrans, history>>
    PROVE  OrdersInv'
<1>1. PaidMeansPaid' /\ PaidHasCredited'
  BY DEF OrdersInv, Origin, WebhookKnown, PaidMeansPaid, PaidHasCredited, midtrans, history
<1>2. Origin'
  <2>1. /\ "accept" \in sent' => gateway' = "paid"
        /\ new.kind = "accept" => gateway' = "paid"
        /\ new.payment = "paid" => gateway' = "paid"
    BY DEF OrdersInv, Origin, midtrans
  <2>2. QED BY <1>1, <2>1, KeepOrigin DEF midtrans
<1>3. WebhookKnown'
  BY <1>1, KeepWebhooks DEF history
<1>4. Once'
  BY KeepOnce DEF history
<1>5. CancelKnown'
  BY KeepCancel
<1>6. QED BY <1>2, <1>3, <1>4, <1>5 DEF OrdersInv

\* A shipment is claimed by the one request that will insert it.
LEMMA CreateShipmentStep ==
    ASSUME OrdersInv, NEW r \in Requests, NEW s \in Shipments, CreateShipment(r, s)
    PROVE  OrdersInv'
<1> DEFINE new == [Idle EXCEPT !.pc = "insertShipment", !.shipment = s]
<1>1. new \in Request /\ new.pc = "insertShipment" /\ new.kind = "pending"
      /\ new.payment = "none" /\ new.shipment = s
  BY DEF Idle, Request, Notifications, PaymentStatuses, Legs
<1>2. Moves(r, new) /\ \A q \in Requests \ {r} : req'[q] = req[q]
  BY <1>1, BecomeMoves DEF OrdersInv, CreateShipment
<1>3. ~Active(r) /\ UNCHANGED <<rows, midtrans, history>>
  BY DEF CreateShipment, Active, Crediting, Saving
<1>4. TypeOK'
  BY <1>2, <1>3 DEF OrdersInv, TypeOK, Moves, rows, midtrans, history
<1> HIDE DEF new
<1>5. LegKnown'
  <2>1. shipment[s] = "none" /\ \A q \in Requests : req[q].shipment # s
    BY DEF CreateShipment
  <2>2. QED BY <1>1, <1>2, <1>3, <2>1 DEF Moves, OrdersInv, LegKnown, rows
<1>6. QED BY <1>1, <1>2, <1>3, <1>4, <1>5, CourierStep DEF rows

\* The insert gives the shipment to the couriers, none of whom has it yet.
LEMMA InsertShipmentStep ==
    ASSUME OrdersInv, NEW r \in Requests, InsertShipment(r)
    PROVE  OrdersInv'
<1> DEFINE s == req[r].shipment
<1> DEFINE new == [req[r] EXCEPT !.pc = "saveProcessing"]
<1>1. req[r] \in Request /\ req[r].pc = "insertShipment"
  BY DEF OrdersInv, TypeOK, InsertShipment
<1>2. /\ new \in Request /\ new.pc = "saveProcessing" /\ new.kind = req[r].kind
      /\ new.payment = req[r].payment /\ new.shipment = s
  BY <1>1 DEF Request
<1>3. Moves(r, new) /\ \A q \in Requests \ {r} : req'[q] = req[q]
  BY <1>2, BecomeMoves DEF OrdersInv, InsertShipment
<1>4. s \in Shipments /\ \A q \in Requests \ {r} : req[q].shipment # s
  BY <1>1 DEF OrdersInv, LegKnown
<1>5. /\ shipment' = [shipment EXCEPT ![s] = "pending"]
      /\ UNCHANGED <<order, payment, mt, listed, midtrans, history>>
  BY DEF InsertShipment
<1>6. /\ shipment' \in [Shipments -> {"none"} \cup Legs]
      /\ \A z \in Shipments \ {s} : shipment'[z] = shipment[z]
  BY <1>4, <1>5 DEF OrdersInv, TypeOK, Legs
<1>7. TypeOK'
  BY <1>3, <1>5, <1>6 DEF OrdersInv, TypeOK, Moves, midtrans, history
<1>8. ~Active(r)
  BY <1>1 DEF Active, Crediting, Saving
<1> HIDE DEF new, s
<1>9. LegKnown'
  <2> SUFFICES ASSUME NEW q \in Requests
      PROVE  /\ req'[q].pc \in {"insertShipment", "saveLegOrder", "saveLeg"} =>
                   req'[q].shipment \in Shipments
             /\ req'[q].pc = "insertShipment" =>
                   /\ shipment'[req'[q].shipment] = "none"
                   /\ \A z \in Requests \ {q} : req'[z].shipment # req'[q].shipment
             /\ req'[q].pc \in {"saveLegOrder", "saveLeg"} /\ ~req'[q].oldLeg =>
                   /\ shipment'[req'[q].shipment] \in DOMAIN NextLeg
                   /\ req'[q].leg = NextLeg[shipment'[req'[q].shipment]]
    BY DEF LegKnown
  <2>1. CASE q = r
    BY <1>2, <1>3, <2>1 DEF Moves
  <2>2. CASE q # r
    <3>1. req'[q] = req[q] /\ req[q].shipment # s
      BY <1>3, <1>4, <2>2
    <3>2. req'[r].shipment = s /\ \A z \in Requests \ {r} : req'[z].shipment = req[z].shipment
      BY <1>2, <1>3 DEF Moves
    <3>3. req[q].shipment \in Shipments => shipment'[req[q].shipment] = shipment[req[q].shipment]
      BY <1>6, <3>1
    <3>4. QED BY <3>1, <3>2, <3>3 DEF OrdersInv, LegKnown
  <2>3. QED BY <2>1, <2>2
<1>10. QED BY <1>2, <1>3, <1>5, <1>7, <1>8, <1>9, CourierStep

\* The courier's request is one leg ahead of the shipment it has just read.
LEMMA ReadShipmentStep ==
    ASSUME OrdersInv, NEW r \in Requests, NEW s \in Shipments, ReadShipment(r, s)
    PROVE  OrdersInv'
<1> DEFINE leg == NextLeg[shipment[s]]
<1> DEFINE new == [Idle EXCEPT !.pc = IF leg = "transit" THEN "saveLeg" ELSE "saveLegOrder",
                               !.shipment = s, !.leg = leg]
<1>1. shipment[s] \in DOMAIN NextLeg /\ leg \in Legs
  BY DEF ReadShipment, NextLeg, Legs
<1>2. /\ new \in Request /\ new.pc \in {"saveLeg", "saveLegOrder"} /\ new.kind = "pending"
      /\ new.payment = "none" /\ new.shipment = s /\ new.leg = leg
  BY <1>1, IdleRequest DEF Idle, Request
<1>3. Become(r, new) /\ UNCHANGED <<rows, midtrans, history>> /\ req[r].pc = "idle"
  BY DEF ReadShipment
<1> HIDE DEF new
<1>4. Moves(r, new)
  BY <1>2, <1>3, BecomeMoves DEF OrdersInv
<1>5. TypeOK'
  BY <1>3, <1>4 DEF OrdersInv, TypeOK, Moves, rows, midtrans, history
<1>6. ~Active(r)
  BY <1>3 DEF Active, Crediting, Saving
<1>7. LegKnown'
  <2> HIDE DEF leg
  <2>1. shipment[s] # "none"
    BY <1>1 DEF NextLeg, Legs
  <2>2. leg = NextLeg[shipment[s]]
    BY DEF leg
  <2>3. QED BY <1>1, <1>2, <1>3, <1>4, <2>1, <2>2 DEF Moves, Same, OrdersInv, LegKnown, rows
<1>8. QED BY <1>2, <1>3, <1>4, <1>5, <1>6, <1>7, CourierStep DEF rows

\* Saving the order, or failing to, keeps the courier's copy of the leg.
LEMMA SaveLegOrderStep ==
    ASSUME OrdersInv, NEW r \in Requests, SaveLegOrder(r) \/ SaveLegOrderFails(r)
    PROVE  OrdersInv'
<1> DEFINE new == [req[r] EXCEPT !.pc = "saveLeg"]
<1>1. req[r] \in Request /\ req[r].pc = "saveLegOrder"
  BY DEF OrdersInv, TypeOK, SaveLegOrder, SaveLegOrderFails
<1>2. /\ new \in Request /\ new.pc = "saveLeg" /\ new.kind = req[r].kind
      /\ new.payment = req[r].payment /\ new.shipment = req[r].shipment
      /\ new.leg = req[r].leg /\ new.oldLeg = req[r].oldLeg
  BY <1>1 DEF Request
<1>3. /\ Moves(r, new)
      /\ \/ order' = order
         \/ /\ order' \in {"shipped", "delivered"}
            /\ \A q \in Requests \ {r} : req'[q].pc = "cancel" => req'[q].oldOrder
  <2>1. CASE SaveLegOrder(r)
    BY <1>2, <2>1, SavedOrderMoves DEF OrdersInv, SaveLegOrder, OrderAt
  <2>2. CASE SaveLegOrderFails(r)
    BY <1>2, <2>2, BecomeMoves DEF OrdersInv, SaveLegOrderFails, rows
  <2>3. QED BY <2>1, <2>2
<1>4. UNCHANGED <<payment, mt, shipment, listed, midtrans, history>>
  BY DEF SaveLegOrder, SaveLegOrderFails, rows
<1>5. TypeOK'
  BY <1>3, <1>4 DEF OrdersInv, TypeOK, OrderStatuses, Moves, midtrans, history
<1>6. ~Active(r)
  BY <1>1 DEF Active, Crediting, Saving
<1> HIDE DEF new
<1>7. LegKnown'
  BY <1>1, <1>2, <1>3, <1>4, KeepLegs
<1>8. QED BY <1>2, <1>3, <1>4, <1>5, <1>6, <1>7, CourierStep

\* Saving the shipment marks the other couriers' copies of it.
LEMMA SaveLegMoves ==
    ASSUME TypeOK, NEW r \in Requests, SaveLeg(r)
    PROVE  /\ Moves(r, Idle)
           /\ \A q \in Requests \ {r} : req'[q].shipment = req[r].shipment => req'[q].oldLeg
<1> DEFINE s == req[r].shipment
<1>1. req \in [Requests -> Request]
  BY DEF TypeOK
<1>2. req' = [q \in Requests |-> IF q = r THEN Idle
                                 ELSE IF req[q].shipment = s
                                 THEN [req[q] EXCEPT !.oldLeg = TRUE] ELSE req[q]]
  BY DEF SaveLeg
<1> HIDE DEF s
<1>3. ASSUME NEW q \in Requests, q # r
      PROVE  req'[q] \in Request /\ Same(q) /\ (req'[q].shipment = s => req'[q].oldLeg)
  <2>1. req[q] \in Request
    BY <1>1
  <2>2. CASE req[q].shipment = s
    <3>1. req'[q] = [req[q] EXCEPT !.oldLeg = TRUE]
      BY <1>2, <1>3, <2>2
    <3>2. QED BY <2>1, <3>1 DEF Request, Same
  <2>3. CASE req[q].shipment # s
    <3>1. req'[q] = req[q]
      BY <1>2, <1>3, <2>3
    <3>2. QED BY <2>1, <2>3, <3>1 DEF Same
  <2>4. QED BY <2>2, <2>3
<1>4. req'[r] = Idle /\ req' \in [Requests -> Request]
  BY <1>1, <1>2, <1>3, IdleRequest
<1>5. QED BY <1>3, <1>4 DEF Moves, s

\* With it the other couriers' copies are known to be out of date.
LEMMA SaveLegStep ==
    ASSUME OrdersInv, NEW r \in Requests, SaveLeg(r)
    PROVE  OrdersInv'
<1> DEFINE s == req[r].shipment
<1>1. req \in [Requests -> Request] /\ req[r].pc = "saveLeg" /\ s \in Shipments
      /\ req[r].leg \in Legs
  BY DEF OrdersInv, TypeOK, LegKnown, SaveLeg, Request
<1>2. /\ req' = [q \in Requests |-> IF q = r THEN Idle
                                    ELSE IF req[q].shipment = s
                                    THEN [req[q] EXCEPT !.oldLeg = TRUE] ELSE req[q]]
      /\ shipment' = [shipment EXCEPT ![s] = req[r].leg]
      /\ UNCHANGED <<order, payment, mt, listed, midtrans, history>>
  BY DEF SaveLeg
<1>5. Moves(r, Idle)
      /\ \A q \in Requests \ {r} : req'[q].shipment = s => req'[q].oldLeg
  BY SaveLegMoves DEF OrdersInv
<1> HIDE DEF s
<1>3. ASSUME NEW q \in Requests, q # r
      PROVE  req'[q] \in Request /\ Same(q) /\ (req'[q].shipment = s => req'[q].oldLeg)
  BY <1>3, <1>5 DEF Moves
<1>4. req'[r] = Idle /\ req' \in [Requests -> Request]
  BY <1>5 DEF Moves
<1>6. /\ shipment' \in [Shipments -> {"none"} \cup Legs]
      /\ \A z \in Shipments \ {s} : shipment'[z] = shipment[z]
  BY <1>1, <1>2 DEF OrdersInv, TypeOK
<1>7. TypeOK'
  BY <1>2, <1>4, <1>6 DEF OrdersInv, TypeOK, midtrans, history
<1>8. ~Active(r)
  BY <1>1 DEF Active, Crediting, Saving
<1>9. LegKnown'
  <2> SUFFICES ASSUME NEW q \in Requests
      PROVE  /\ req'[q].pc \in {"insertShipment", "saveLegOrder", "saveLeg"} =>
                   req'[q].shipment \in Shipments
             /\ req'[q].pc = "insertShipment" =>
                   /\ shipment'[req'[q].shipment] = "none"
                   /\ \A z \in Requests \ {q} : req'[z].shipment # req'[q].shipment
             /\ req'[q].pc \in {"saveLegOrder", "saveLeg"} /\ ~req'[q].oldLeg =>
                   /\ shipment'[req'[q].shipment] \in DOMAIN NextLeg
                   /\ req'[q].leg = NextLeg[shipment'[req'[q].shipment]]
    BY DEF LegKnown
  <2>1. CASE q = r
    BY <1>4, <2>1, IdleRequest
  <2>2. CASE q # r
    <3>1. Same(q) /\ (req'[q].shipment = s => req'[q].oldLeg)
      BY <1>3, <2>2
    <3>2. req[q].pc = "insertShipment" =>
             /\ req[q].shipment \in Shipments \ {s} /\ shipment[req[q].shipment] = "none"
             /\ \A z \in Requests \ {q} : req[z].shipment # req[q].shipment
      BY <2>2 DEF OrdersInv, LegKnown, s
    <3>3. req'[q].pc = "insertShipment" =>
             /\ shipment'[req'[q].shipment] = "none"
             /\ \A z \in Requests \ {q} : req'[z].shipment # req'[q].shipment
      <4>1. ASSUME req'[q].pc = "insertShipment", NEW z \in Requests \ {q}
            PROVE  req'[z].shipment # req'[q].shipment
        <5>1. CASE z = r
          BY <1>4, <3>1, <3>2, <4>1, <5>1, IdleRequest, ShipmentAssumption DEF Same
        <5>2. CASE z # r
          BY <1>3, <3>1, <3>2, <4>1, <5>2 DEF Same
        <5>3. QED BY <5>1, <5>2
      <4>2. QED BY <1>6, <3>1, <3>2, <4>1 DEF Same
    <3>4. req'[q].pc \in {"saveLegOrder", "saveLeg"} /\ ~req'[q].oldLeg =>
             /\ shipment'[req'[q].shipment] \in DOMAIN NextLeg
             /\ req'[q].leg = NextLeg[shipment'[req'[q].shipment]]
      BY <1>6, <3>1 DEF Same, OrdersInv, LegKnown
    <3>5. req'[q].pc \in {"insertShipment", "saveLegOrder", "saveLeg"} =>
             req'[q].shipment \in Shipments
      BY <3>1 DEF Same, OrdersInv, LegKnown
    <3>6. QED BY <3>3, <3>4, <3>5
  <2>3. QED BY <2>1, <2>2
<1>10. QED BY <1>2, <1>5, <1>7, <1>8, <1>9, IdleRequest, CourierStep

-----------------------------------------------------------------------------
(* The theorems.                                                           *)

\* An order that was just created satisfies the invariant.
LEMMA InitInv == Init => OrdersInv
<1> SUFFICES ASSUME Init PROVE OrdersInv
  OBVIOUS
<1>1. \A q \in Requests : req[q] = Idle
  BY DEF Init
<1>2. TypeOK
  <2>1. req \in [Requests -> Request]
    BY IdleRequest DEF Init
  <2>2. credits \in [Sellers -> 0 .. MaxCredits]
    <3>1. 0 \in 0 .. MaxCredits
      BY CreditsAssumption
    <3>2. QED BY <3>1 DEF Init
  <2>3. shipment \in [Shipments -> {"none"} \cup Legs]
    BY DEF Init
  <2>4. QED BY <2>1, <2>2, <2>3 DEF Init, TypeOK, OrderStatuses
<1>3. Origin /\ WebhookKnown
  BY <1>1, IdleRequest DEF Init, Origin, PaidMeansPaid, WebhookKnown, PaidHasCredited,
                           Crediting, Saving
<1>4. Once
  BY <1>1, IdleRequest DEF Init, Once, Active, Crediting, Saving
<1>5. CancelKnown /\ LegKnown
  BY <1>1, IdleRequest DEF CancelKnown, LegKnown
<1>6. QED BY <1>2, <1>3, <1>4, <1>5 DEF OrdersInv

\* Every step keeps it.
LEMMA StepInv == OrdersInv /\ [Next]_vars => OrdersInv'
<1> SUFFICES ASSUME OrdersInv, [Next]_vars PROVE OrdersInv'
  OBVIOUS
<1>1. ASSUME NEW r \in Requests, Begin(r) PROVE OrdersInv'
  BY <1>1, CancelOrderStep, CreatePaymentSteps, ReadPaymentStep, CreateShipmentStep,
     ReadShipmentStep DEF Begin
<1>2. ASSUME NEW r \in Requests, Proceed(r) PROVE OrdersInv'
  BY <1>2, SaveCancelledStep, CreatePaymentSteps, SaveOrderStep, CreditSteps, CreditedStep,
     SavePaymentStep, InsertShipmentStep, SaveProcessingStep, SaveLegOrderStep, SaveLegStep
     DEF Proceed
<1>3. ASSUME NEW r \in Requests, DroppedError(r) \/ Crash(r) PROVE OrdersInv'
  BY <1>3, SaveOrderStep, SaveLegOrderStep, CreditSteps, EndStep DEF DroppedError
<1>4. CASE Pay \/ Expire \/ \E n \in Notifications : Notify(n)
  BY <1>4, MidtransSteps
<1>5. ASSUME NEW s \in Sellers, DeleteProduct(s) PROVE OrdersInv'
  BY <1>5, DeleteProductStep
<1>6. CASE UNCHANGED vars
  <2>1. req' = req /\ UNCHANGED <<rows, midtrans, history>>
    BY <1>6 DEF vars
  <2>2. TypeOK'
    BY <2>1 DEF OrdersInv, TypeOK, rows, midtrans, history
  <2>3. QED BY <2>1, <2>2, OutsideStep DEF rows, midtrans, OrdersInv, Origin
<1>7. QED BY <1>1, <1>2, <1>3, <1>4, <1>5, <1>6 DEF Next

\* The inductive invariant holds in every reachable state: what each request
\* has copied fits the rows, unless a flag says that it is out of date.
THEOREM OrdersInvariant == Spec => []OrdersInv
<1>1. QED BY InitInv, StepInv, PTL DEF Spec

\* Every variable keeps its type.
THEOREM OrdersTypes == Spec => []TypeOK
<1>1. OrdersInv => TypeOK
  BY DEF OrdersInv
<1>2. QED BY <1>1, OrdersInvariant, PTL

\* The order and its payment say paid, and a seller is credited, only if
\* Midtrans was paid, whatever notifications arrive and however often.
THEOREM PaidOnlyIfPaid == Spec => []PaidMeansPaid
<1>1. OrdersInv => PaidMeansPaid
  BY DEF OrdersInv, Origin
<1>2. QED BY <1>1, OrdersInvariant, PTL

\* A paid payment has credited every seller whose product is listed, whatever
\* the webhooks overlap and wherever they crash.
THEOREM PaidPaymentHasCredited == Spec => []PaidHasCredited
<1>1. OrdersInv => PaidHasCredited
  BY DEF OrdersInv, WebhookKnown
<1>2. QED BY <1>1, OrdersInvariant, PTL

\* No seller is credited twice, unless webhooks overlapped, one ended between
\* the credit and the payment, or a later notification undid the payment.
THEOREM SellersCreditedOnce == Spec => []CreditedOnce
<1>1. OrdersInv => CreditedOnce
  <2> SUFFICES ASSUME OrdersInv, ~again, NEW s \in Sellers, credits[s] > 1 PROVE FALSE
    BY DEF CreditedOnce
  <2>1. credits[s] <= 1 /\ credits[s] \in Nat
    BY CreditsAssumption DEF OrdersInv, Once, TypeOK
  <2>2. QED BY <2>1
<1>2. QED BY <1>1, OrdersInvariant, PTL

\* A cancellation overwrites an order that is no longer pending only with a
\* copy that another request has outdated.
THEOREM CancelsByOldCopy == Spec => CancelsOtherOnlyByOldCopy
<1>1. OrdersInv /\ [Next]_vars =>
        [\A r \in Requests : SaveCancelled(r) /\ order # "pending" => req[r].oldOrder]_vars
  <2>1. ASSUME OrdersInv, NEW r \in Requests, SaveCancelled(r), order # "pending"
        PROVE  req[r].oldOrder
    BY <2>1 DEF OrdersInv, CancelKnown, SaveCancelled
  <2>2. QED BY <2>1
<1>2. QED BY <1>1, OrdersInvariant, PTL DEF Spec, CancelsOtherOnlyByOldCopy

\* A shipment changes in two ways: its row is inserted, or a courier saves it.
LEMMA ShipmentSteps ==
    ASSUME Next, shipment' # shipment
    PROVE  \E r \in Requests : InsertShipment(r) \/ SaveLeg(r)
<1>1. ASSUME NEW r \in Requests, Begin(r) PROVE FALSE
  BY <1>1 DEF Begin, CancelOrder, CreatePayment, ReadPayment, CreateShipment, ReadShipment, rows
<1>2. ASSUME NEW r \in Requests, DroppedError(r) \/ Crash(r) PROVE FALSE
  BY <1>2 DEF DroppedError, SaveOrderFails, SaveLegOrderFails, CreditFails, SavePaymentFails,
              Crash, rows
<1>3. ASSUME NEW r \in Requests, Proceed(r) PROVE InsertShipment(r) \/ SaveLeg(r)
  BY <1>3 DEF Proceed, SaveCancelled, FindPayment, InsertPayment, CallSnap, SnapFails, InsertMt,
              SaveOrder, Credit, Credited, SavePayment, SaveProcessing, SaveLegOrder, rows
<1>4. ~(Pay \/ Expire) /\ (\A n \in Notifications : ~Notify(n))
      /\ \A s \in Sellers : ~DeleteProduct(s)
  BY DEF Pay, Expire, Notify, DeleteProduct, rows
<1>5. QED BY <1>1, <1>2, <1>3, <1>4 DEF Next

\* A shipment skips no leg and goes back none, unless a courier's copy of it
\* was out of date.
THEOREM ShipmentsGoLegByLeg == Spec => LegByLeg
<1> DEFINE A == \A s \in Shipments :
          shipment'[s] # shipment[s] /\ shipment[s] # "none" =>
              \/ shipment[s] \in DOMAIN NextLeg /\ shipment'[s] = NextLeg[shipment[s]]
              \/ \E r \in Requests : req[r].shipment = s /\ req[r].oldLeg
<1>1. ASSUME OrdersInv, Next, NEW s \in Shipments, shipment'[s] # shipment[s],
             shipment[s] # "none"
      PROVE  \/ shipment[s] \in DOMAIN NextLeg /\ shipment'[s] = NextLeg[shipment[s]]
             \/ \E r \in Requests : req[r].shipment = s /\ req[r].oldLeg
  <2>1. PICK r \in Requests : InsertShipment(r) \/ SaveLeg(r)
    BY <1>1, ShipmentSteps
  <2>2. shipment \in [Shipments -> {"none"} \cup Legs]
    BY <1>1 DEF OrdersInv, TypeOK
  <2>3. CASE InsertShipment(r)
    <3>1. req[r].shipment = s
      BY <1>1, <2>2, <2>3 DEF InsertShipment
    <3>2. shipment[s] = "none"
      BY <1>1, <2>3, <3>1 DEF OrdersInv, LegKnown, InsertShipment
    <3>3. QED BY <1>1, <3>2
  <2>4. CASE SaveLeg(r)
    <3>1. req[r].shipment = s /\ shipment'[s] = req[r].leg /\ req[r].pc = "saveLeg"
      BY <1>1, <2>2, <2>4 DEF SaveLeg
    <3>2. QED BY <1>1, <3>1 DEF OrdersInv, LegKnown
  <2>5. QED BY <2>1, <2>3, <2>4
<1>2. OrdersInv /\ [Next]_vars => [A]_vars
  BY <1>1
<1>3. QED BY <1>2, OrdersInvariant, PTL DEF Spec, LegByLeg

\* Only a CreatePayment that has inserted the payment goes on to Midtrans.
LEMMA OrphanStep ==
    ASSUME TypeOK, Next, payment # "none", ~mt,
           \A r \in Requests : req[r].pc \notin {"callSnap", "insertMt"}
    PROVE  ~mt' /\ \A r \in Requests : req'[r].pc \notin {"callSnap", "insertMt"}
<1> DEFINE Out(pc) == pc \notin {"callSnap", "insertMt"}
<1>1. req \in [Requests -> Request] /\ \A q \in Requests : Out(req[q].pc)
  BY DEF TypeOK
<1>2. ASSUME NEW r \in Requests, NEW new, Out(new.pc), Become(r, new)
      PROVE  \A q \in Requests : Out(req'[q].pc)
  BY <1>1, <1>2 DEF Become
<1> DEFINE idle(pc) == [Idle EXCEPT !.pc = pc]
<1> HIDE DEF idle
<1>3. \A pc : idle(pc).pc = pc
  BY DEF idle, Idle
<1>4. ASSUME NEW r \in Requests, Begin(r)
      PROVE  ~mt' /\ \A q \in Requests : Out(req'[q].pc)
  <2>1. ~mt'
    BY <1>4 DEF Begin, CancelOrder, CreatePayment, ReadPayment, CreateShipment,
                ReadShipment, rows
  <2>2. ASSUME NEW new, Become(r, new), new.pc \in {"cancel", "findPayment", "saveOrder",
                  "savePayment", "insertShipment", "saveLeg", "saveLegOrder"}
        PROVE  \A q \in Requests : Out(req'[q].pc)
    BY <1>2, <2>2
  <2>3. CASE CancelOrder(r) \/ CreatePayment(r)
    <3>1. Become(r, idle("cancel")) \/ Become(r, idle("findPayment"))
      BY <2>3 DEF CancelOrder, CreatePayment, idle
    <3>2. QED BY <1>3, <2>1, <2>2, <3>1
  <2>4. ASSUME NEW n \in Notifications, ReadPayment(r, n)
        PROVE  \A q \in Requests : Out(req'[q].pc)
    BY <1>1, <2>2, <2>4 DEF ReadPayment, AfterRead, Idle
  <2>5. ASSUME NEW s \in Shipments, CreateShipment(r, s) \/ ReadShipment(r, s)
        PROVE  \A q \in Requests : Out(req'[q].pc)
    BY <2>2, <2>5 DEF CreateShipment, ReadShipment, Idle
  <2>6. QED BY <1>4, <2>1, <2>3, <2>4, <2>5 DEF Begin
<1>5. ASSUME NEW r \in Requests, Proceed(r) \/ DroppedError(r) \/ Crash(r)
      PROVE  ~mt' /\ \A q \in Requests : Out(req'[q].pc)
  <2>1. req[r] \in Request /\ Out(req[r].pc)
    BY <1>1
  <2>2. ~CallSnap(r) /\ ~SnapFails(r) /\ ~InsertMt(r)
    BY <2>1 DEF CallSnap, SnapFails, InsertMt
  <2>3. ~mt'
    BY <1>5, <2>2 DEF Proceed, DroppedError, Crash, SaveCancelled, FindPayment, InsertPayment,
       SaveOrder, Credit, Credited, SavePayment, InsertShipment, SaveProcessing, SaveLegOrder,
       SaveLeg, SaveOrderFails, SaveLegOrderFails, CreditFails, SavePaymentFails, rows
  <2>4. CASE FindPayment(r)
    <3>1. Become(r, Idle) \/ Become(r, idle("insertPayment"))
      BY <2>4 DEF FindPayment, idle
    <3>2. QED BY <1>2, <1>3, <2>3, <3>1, IdleRequest
  <2>5. CASE InsertPayment(r) \/ SavePaymentFails(r) \/ Crash(r)
    <3>1. Become(r, Idle)
      BY <2>1, <2>5 DEF InsertPayment, SavePaymentFails, Crash
    <3>2. QED BY <1>2, <2>3, <3>1, IdleRequest
  <2>6. ASSUME NEW s \in Sellers, Credit(r, s) \/ CreditFails(r, s)
        PROVE  \A q \in Requests : Out(req'[q].pc)
    BY <1>2, <2>1, <2>6 DEF Credit, CreditFails, Request
  <2>7. CASE Credited(r) \/ SaveOrderFails(r) \/ SaveLegOrderFails(r) \/ InsertShipment(r)
    <3>1. \/ Become(r, [req[r] EXCEPT !.pc = "savePayment"])
          \/ Become(r, [req[r] EXCEPT !.pc = "saveProcessing"])
          \/ Become(r, [req[r] EXCEPT !.pc = "saveLeg"])
          \/ Become(r, [req[r] EXCEPT !.pc = "credit", !.owed = listed])
      BY <2>7 DEF Credited, SaveOrderFails, SaveLegOrderFails, InsertShipment
    <3>2. /\ [req[r] EXCEPT !.pc = "savePayment"].pc = "savePayment"
          /\ [req[r] EXCEPT !.pc = "saveProcessing"].pc = "saveProcessing"
          /\ [req[r] EXCEPT !.pc = "saveLeg"].pc = "saveLeg"
          /\ [req[r] EXCEPT !.pc = "credit", !.owed = listed].pc = "credit"
      BY <2>1 DEF Request
    <3>3. QED BY <1>2, <2>3, <3>1, <3>2
  <2>8. ASSUME NEW new \in Request, Out(new.pc), SavedOrder(r, new) \/ SavedPayment(r, new)
        PROVE  \A q \in Requests : Out(req'[q].pc)
    BY <1>1, <2>8, SavedOrderMoves, SavedPaymentMoves DEF Moves, Same
  <2>9. CASE SaveCancelled(r) \/ SaveProcessing(r) \/ SavePayment(r)
    BY <2>8, <2>9, IdleRequest DEF SaveCancelled, SaveProcessing, SavePayment
  <2>10. CASE SaveLegOrder(r)
    <3>1. [req[r] EXCEPT !.pc = "saveLeg"] \in Request
      BY <2>1 DEF Request
    <3>2. QED BY <2>1, <2>8, <2>10, <3>1 DEF SaveLegOrder, Request
  <2>11. CASE SaveOrder(r)
    <3>1. CASE req[r].kind = "accept"
      <4> DEFINE new == [req[r] EXCEPT !.pc = "credit", !.owed = listed]
      <4>1. new \in Request /\ Out(new.pc)
        BY <2>1 DEF Request, TypeOK
      <4>2. QED BY <2>8, <2>11, <3>1, <4>1 DEF SaveOrder
    <3>2. CASE req[r].kind # "accept"
      <4> DEFINE new == [req[r] EXCEPT !.pc = "savePayment"]
      <4>1. new \in Request /\ Out(new.pc)
        BY <2>1 DEF Request
      <4>2. QED BY <2>8, <2>11, <3>2, <4>1 DEF SaveOrder
    <3>3. QED BY <3>1, <3>2
  <2>12. CASE SaveLeg(r)
    <3>1. ASSUME NEW q \in Requests PROVE Out(req'[q].pc)
      <4>1. req'[q] \in {Idle, req[q], [req[q] EXCEPT !.oldLeg = TRUE]}
        BY <2>12 DEF SaveLeg
      <4>2. req[q] \in Request /\ Out(req[q].pc)
        BY <1>1
      <4>3. QED BY <4>1, <4>2, IdleRequest DEF Request
    <3>2. QED BY <2>3, <3>1
  <2>13. QED BY <1>5, <2>2, <2>3, <2>4, <2>5, <2>6, <2>7, <2>9, <2>10, <2>11, <2>12
             DEF Proceed, DroppedError
<1>6. ASSUME Pay \/ Expire \/ (\E n \in Notifications : Notify(n))
             \/ (\E s \in Sellers : DeleteProduct(s))
      PROVE  ~mt' /\ req' = req
  BY <1>6 DEF Pay, Expire, Notify, DeleteProduct, rows
<1>7. QED BY <1>1, <1>4, <1>5, <1>6 DEF Next

\* A payment left without a Midtrans transaction, and no CreatePayment under
\* way for it, never gets one.
THEOREM OrphanForGood == Spec => OrphanPaymentStaysOrphan
<1>1. TypeOK /\ [Next]_vars =>
        [payment # "none" /\ ~mt /\ (\A r \in Requests : req[r].pc \notin {"callSnap", "insertMt"})
          => ~mt' /\ (\A r \in Requests : req'[r].pc \notin {"callSnap", "insertMt"})]_vars
  BY OrphanStep
<1>2. QED BY <1>1, OrdersTypes, PTL DEF Spec, OrphanPaymentStaysOrphan

-----------------------------------------------------------------------------
(***************************************************************************)
(* The order as an OrderLife: every step is a decision, a write, a         *)
(* decision dropped, or news of Midtrans or a parcel.                      *)
(***************************************************************************)

\* A record is of a status, and the idle one of none.
LEMMA IntentFacts ==
    /\ Intent(Idle) = "none"
    /\ \A q \in Requests : req \in [Requests -> Request] => Wills[q] = Intent(req[q])
    /\ DOMAIN Wills = Requests
  BY IdleRequest DEF Intent, Wills

\* What a step of one request does to the order is a step of its life.
LEMMA LifeStep ==
    ASSUME NEW r \in Requests, NEW new, Moves(r, new),
           \/ /\ Facts' = Facts
              /\ \/ order' = order /\ Intent(new) = "none"
                 \/ /\ order' = order /\ Intent(req[r]) = "none"
                    /\ Intent(new) \in Life!Grounds
                 \/ /\ Intent(req[r]) # "none" /\ order' = Intent(req[r])
                    /\ Intent(new) = "none"
           \/ /\ order' = order /\ Intent(new) = Intent(req[r])
              /\ Facts \cap Life!Said \subseteq Facts'
              /\ Facts \cap Life!Legs # {} => Facts' \cap Life!Legs # {}
    PROVE  Life!Next
<1>1. Wills' = [Wills EXCEPT ![r] = Intent(new)] /\ Wills[r] = Intent(req[r])
  <2>1. ASSUME NEW q \in Requests, q # r PROVE Intent(req'[q]) = Intent(req[q])
    BY <2>1 DEF Moves, Same, Intent
  <2>2. Intent(req'[r]) = Intent(new)
    BY DEF Moves
  <2>3. QED BY <2>1, <2>2 DEF Wills
<1>2. CASE Facts' = Facts /\ order' = order /\ Intent(new) = "none"
  BY <1>1, <1>2 DEF Life!Next, Life!Drop, Life!Undecided
<1>3. CASE /\ Facts' = Facts /\ order' = order /\ Intent(req[r]) = "none"
           /\ Intent(new) \in Life!Grounds
  <2>1. Life!Decide(r, Intent(new))
    BY <1>1, <1>3 DEF Life!Decide, Life!Undecided
  <2>2. QED BY <1>3, <2>1 DEF Life!Next
<1>4. CASE Facts' = Facts /\ Intent(req[r]) # "none" /\ order' = Intent(req[r])
           /\ Intent(new) = "none"
  BY <1>1, <1>4 DEF Life!Next, Life!Write, Life!Undecided
<1>5. CASE /\ order' = order /\ Intent(new) = Intent(req[r])
           /\ Facts \cap Life!Said \subseteq Facts'
           /\ Facts \cap Life!Legs # {} => Facts' \cap Life!Legs # {}
  <2>1. Wills' = Wills
    BY <1>1, <1>5 DEF Wills
  <2>2. Facts' \in SUBSET (Life!Said \cup Life!Legs)
    BY DEF Facts, Life!Said, Life!Legs, Legs
  <2>3. Life!Learn(Facts')
    BY <1>5, <2>1 DEF Life!Learn
  <2>4. QED BY <2>2, <2>3 DEF Life!Next
<1>6. QED BY <1>2, <1>3, <1>4, <1>5

\* A handler that reads the rows decides upon what they give grounds for.
LEMMA LifeBegins ==
    ASSUME OrdersInv, NEW r \in Requests, Begin(r)
    PROVE  Life!Next \/ (order' = order /\ Facts' = Facts /\ Wills' = Wills)
<1>1. /\ req[r].pc = "idle" /\ Intent(req[r]) = "none"
      /\ order' = order /\ sent' = sent /\ shipment' = shipment /\ Facts' = Facts
  <2>1. req[r].pc = "idle"
    BY DEF Begin, CancelOrder, CreatePayment, ReadPayment, CreateShipment, ReadShipment
  <2>2. order' = order /\ sent' = sent /\ shipment' = shipment
    BY DEF Begin, CancelOrder, CreatePayment, ReadPayment, CreateShipment, ReadShipment,
           rows, midtrans
  <2>3. QED BY <2>1, <2>2 DEF Intent, Facts
<1>2. ASSUME NEW new \in Request, Become(r, new),
             Intent(new) = "none" \/ Intent(new) \in Life!Grounds
      PROVE  Life!Next
  <2>1. Moves(r, new)
    BY <1>2, BecomeMoves DEF OrdersInv
  <2>2. QED BY <1>1, <1>2, <2>1, LifeStep
<1>3. CASE CancelOrder(r)
  <2> DEFINE new == [Idle EXCEPT !.pc = "cancel"]
  <2>1. new \in Request /\ new.pc = "cancel"
    BY DEF Idle, Request, Notifications, PaymentStatuses, Legs
  <2>2. Intent(new) \in Life!Grounds
    BY <1>3, <2>1 DEF Intent, CancelOrder, Life!Grounds
  <2>3. QED BY <1>2, <1>3, <2>1, <2>2 DEF CancelOrder
<1>4. CASE CreatePayment(r)
  <2> DEFINE new == [Idle EXCEPT !.pc = "findPayment"]
  <2>1. new \in Request /\ new.pc = "findPayment"
    BY DEF Idle, Request, Notifications, PaymentStatuses, Legs
  <2>2. Intent(new) = "none"
    BY <2>1 DEF Intent
  <2>3. QED BY <1>2, <1>4, <2>1, <2>2 DEF CreatePayment
<1>5. ASSUME NEW n \in Notifications, ReadPayment(r, n)
      PROVE  Life!Next \/ req' = req
  <2> DEFINE new == [Idle EXCEPT !.pc = AfterRead(n), !.kind = n, !.payment = payment]
  <2>1. CASE AfterRead(n) = "idle"
    BY <1>5, <2>1 DEF ReadPayment
  <2>2. CASE AfterRead(n) # "idle"
    <3>1. /\ new.pc = AfterRead(n) /\ new.kind = n
          /\ new.pc = "saveOrder" => n \in {"accept", "fail"}
          /\ new.pc \in {"saveOrder", "savePayment"}
      BY <2>2 DEF AfterRead, Idle
    <3>2. new \in Request
      BY <2>2, IdleRequest DEF AfterRead, Request, OrdersInv, TypeOK
    <3>3. n \in sent /\ Become(r, new)
      BY <1>5, <2>2 DEF ReadPayment
    <3> HIDE DEF new
    <3>4. CASE new.pc = "savePayment"
      <4>1. Intent(new) = "none"
        BY <3>4 DEF Intent
      <4>2. QED BY <1>2, <3>2, <3>3, <4>1
    <3>5. CASE new.pc = "saveOrder"
      <4>1. n \in Facts /\ Intent(new) = IF n = "accept" THEN "paid" ELSE "cancelled"
        BY <3>1, <3>3, <3>5 DEF Intent, Facts
      <4>2. Intent(new) \in Life!Grounds
        BY <3>1, <3>5, <4>1 DEF Life!Grounds
      <4>3. QED BY <1>2, <3>2, <3>3, <4>2
    <3>6. QED BY <3>1, <3>4, <3>5
  <2>3. QED BY <2>1, <2>2
<1>6. ASSUME NEW s \in Shipments, CreateShipment(r, s) PROVE Life!Next
  <2> DEFINE new == [Idle EXCEPT !.pc = "insertShipment", !.shipment = s]
  <2>1. new \in Request /\ new.pc = "insertShipment"
    BY DEF Idle, Request, Notifications, PaymentStatuses, Legs
  <2>2. Intent(new) \in Life!Grounds
    BY <1>6, <2>1 DEF Intent, CreateShipment, Life!Grounds
  <2>3. QED BY <1>2, <1>6, <2>1, <2>2 DEF CreateShipment
<1>7. ASSUME NEW s \in Shipments, ReadShipment(r, s) PROVE Life!Next
  <2> DEFINE leg == NextLeg[shipment[s]]
             new == [Idle EXCEPT !.pc = IF leg = "transit" THEN "saveLeg" ELSE "saveLegOrder",
                                 !.shipment = s, !.leg = leg]
  <2>1. /\ shipment[s] \in Legs \ {"delivered"} /\ shipment[s] \in Facts
        /\ leg = (CASE shipment[s] = "pending" -> "pickup"
                    [] shipment[s] = "pickup"  -> "transit"
                    [] shipment[s] = "transit" -> "delivered")
    BY <1>7 DEF ReadShipment, NextLeg, Facts
  <2>2. leg \in {"pickup", "transit", "delivered"}
        /\ (leg = "pickup" => "pending" \in Facts) /\ (leg = "delivered" => "transit" \in Facts)
    BY <2>1 DEF Legs
  <2>3. Become(r, new)
    BY <1>7 DEF ReadShipment
  <2> HIDE DEF leg
  <2>4. /\ new \in Request /\ new.leg = leg
        /\ new.pc = IF leg = "transit" THEN "saveLeg" ELSE "saveLegOrder"
    BY <2>2, IdleRequest DEF Idle, Request, Notifications, PaymentStatuses, Legs
  <2> HIDE DEF new
  <2>5. CASE leg = "transit"
    <3>1. Intent(new) = "none"
      BY <2>4, <2>5 DEF Intent
    <3>2. QED BY <1>2, <2>3, <2>4, <3>1
  <2>6. CASE leg # "transit"
    <3>1. Intent(new) = OrderAt(leg)
      BY <2>4, <2>6 DEF Intent
    <3>2. Intent(new) \in Life!Grounds
      BY <2>2, <2>6, <3>1 DEF OrderAt, Life!Grounds
    <3>3. QED BY <1>2, <2>3, <2>4, <3>2
  <2>7. QED BY <2>5, <2>6
<1>8. QED BY <1>1, <1>3, <1>4, <1>5, <1>6, <1>7 DEF Begin, Wills

\* A handler that goes on writes the status it has decided upon, or none.
LEMMA LifeProceeds ==
    ASSUME OrdersInv, NEW r \in Requests, Proceed(r)
    PROVE  Life!Next
<1>1. req \in [Requests -> Request] /\ req[r] \in Request /\ TypeOK
  BY DEF OrdersInv, TypeOK
<1>2. CASE SaveCancelled(r)
  <2>1. Moves(r, Idle) /\ order' = "cancelled" /\ Intent(req[r]) = "cancelled"
    BY <1>1, <1>2, IdleRequest, SavedOrderMoves DEF SaveCancelled, Intent
  <2>2. Facts' = Facts
    BY <1>2 DEF SaveCancelled, Facts, midtrans
  <2>3. QED BY <2>1, <2>2, IntentFacts, LifeStep
<1>3. CASE SaveProcessing(r)
  <2>1. Moves(r, Idle) /\ order' = "processing" /\ Intent(req[r]) = "processing"
    BY <1>1, <1>3, IdleRequest, SavedOrderMoves DEF SaveProcessing, Intent
  <2>2. Facts' = Facts
    BY <1>3 DEF SaveProcessing, Facts, midtrans
  <2>3. QED BY <2>1, <2>2, IntentFacts, LifeStep
<1>4. CASE SaveLegOrder(r)
  <2> DEFINE new == [req[r] EXCEPT !.pc = "saveLeg"]
  <2>1. new \in Request /\ new.pc = "saveLeg" /\ req[r].pc = "saveLegOrder"
    BY <1>1, <1>4 DEF Request, SaveLegOrder
  <2>2. Moves(r, new)
    BY <1>1, <1>4, <2>1, SavedOrderMoves DEF SaveLegOrder
  <2>3. Intent(new) = "none" /\ order' = Intent(req[r]) /\ Intent(req[r]) # "none"
    BY <1>4, <2>1 DEF Intent, SaveLegOrder, OrderAt
  <2>4. Facts' = Facts
    BY <1>4 DEF SaveLegOrder, Facts, midtrans
  <2>5. QED BY <2>2, <2>3, <2>4, LifeStep
<1>5. CASE SaveOrder(r)
  <2> DEFINE accept == req[r].kind = "accept"
             new == IF accept THEN [req[r] EXCEPT !.pc = "credit", !.owed = listed]
                    ELSE [req[r] EXCEPT !.pc = "savePayment"]
  <2>1. new \in Request /\ new.pc \in {"credit", "savePayment"} /\ req[r].pc = "saveOrder"
    BY <1>1, <1>5 DEF Request, SaveOrder, TypeOK
  <2>2. Moves(r, new)
    BY <1>1, <1>5, <2>1, SavedOrderMoves DEF SaveOrder
  <2>3. Intent(new) = "none" /\ order' = Intent(req[r]) /\ Intent(req[r]) # "none"
    BY <1>5, <2>1 DEF Intent, SaveOrder
  <2>4. Facts' = Facts
    BY <1>5 DEF SaveOrder, Facts, midtrans
  <2>5. QED BY <2>2, <2>3, <2>4, LifeStep
<1>6. CASE InsertShipment(r)
  <2> DEFINE new == [req[r] EXCEPT !.pc = "saveProcessing"]
             s == req[r].shipment
  <2>1. new \in Request /\ new.pc = "saveProcessing" /\ req[r].pc = "insertShipment"
    BY <1>1, <1>6 DEF Request, InsertShipment
  <2>2. Moves(r, new) /\ order' = order /\ sent' = sent
    BY <1>1, <1>6, <2>1, BecomeMoves DEF InsertShipment, midtrans
  <2>3. Intent(new) = Intent(req[r])
    BY <2>1 DEF Intent
  <2>4. s \in Shipments /\ shipment \in [Shipments -> {"none"} \cup Legs]
        /\ shipment' = [shipment EXCEPT ![s] = "pending"]
    BY <1>1, <1>6, <2>1 DEF OrdersInv, LegKnown, InsertShipment, TypeOK
  <2>5. shipment'[s] = "pending"
    BY <2>4
  <2>6. "pending" \in Facts' /\ Facts \cap Life!Said \subseteq Facts'
    BY <2>2, <2>4, <2>5 DEF Facts, Legs, Life!Said
  <2>7. QED BY <2>2, <2>3, <2>6, LifeStep DEF Life!Legs
<1>7. CASE SaveLeg(r)
  <2>1. Moves(r, Idle) /\ order' = order /\ sent' = sent
    BY <1>1, <1>7, SaveLegMoves DEF SaveLeg, midtrans
  <2>2. Intent(req[r]) = "none"
    BY <1>7 DEF Intent, SaveLeg
  <2> DEFINE s == req[r].shipment
  <2>3. s \in Shipments /\ shipment \in [Shipments -> {"none"} \cup Legs]
        /\ req[r].leg \in Legs /\ shipment' = [shipment EXCEPT ![s] = req[r].leg]
    BY <1>1, <1>7 DEF OrdersInv, LegKnown, SaveLeg, TypeOK, Request
  <2>4. shipment'[s] = req[r].leg
    BY <2>3
  <2>5. req[r].leg \in Facts' /\ Facts \cap Life!Said \subseteq Facts'
    BY <2>1, <2>3, <2>4 DEF Facts, Legs, Life!Said
  <2>6. QED BY <2>1, <2>2, <2>3, <2>5, IntentFacts, LifeStep DEF Life!Legs, Legs
<1>8. ASSUME order' = order, Facts' = Facts,
             \E new \in Request : /\ Become(r, new) \/ SavedPayment(r, new)
                                  /\ Intent(new) = "none"
      PROVE  Life!Next
  BY <1>1, <1>8, BecomeMoves, SavedPaymentMoves, LifeStep
<1>9. CASE FindPayment(r) \/ InsertPayment(r) \/ CallSnap(r) \/ SnapFails(r) \/ InsertMt(r)
  <2>1. order' = order /\ Facts' = Facts
    BY <1>9 DEF FindPayment, InsertPayment, CallSnap, SnapFails, InsertMt, rows, midtrans, Facts
  <2>2. \A pc \in {"insertPayment", "callSnap", "insertMt"} :
           LET new == [Idle EXCEPT !.pc = pc] IN new \in Request /\ Intent(new) = "none"
    <3> TAKE pc \in {"insertPayment", "callSnap", "insertMt"}
    <3> DEFINE new == [Idle EXCEPT !.pc = pc]
    <3>1. new \in Request /\ new.pc = pc
      BY DEF Idle, Request, Notifications, PaymentStatuses, Legs
    <3>2. Intent(new) = "none"
      BY <3>1 DEF Intent
    <3>3. QED BY <3>1, <3>2
  <2>3. \/ Become(r, Idle)
        \/ \E pc \in {"insertPayment", "callSnap", "insertMt"} : Become(r, [Idle EXCEPT !.pc = pc])
    BY <1>9 DEF FindPayment, InsertPayment, CallSnap, SnapFails, InsertMt
  <2>4. QED BY <1>8, <2>1, <2>2, <2>3, IdleRequest, IntentFacts
<1>10. ASSUME NEW s \in Sellers, Credit(r, s) PROVE Life!Next
  <2> DEFINE new == [req[r] EXCEPT !.owed = @ \ {s}]
  <2>1. new \in Request /\ new.pc = "credit"
    BY <1>1, <1>10 DEF Request, Credit
  <2>2. Intent(new) = "none"
    BY <2>1 DEF Intent
  <2>3. order' = order /\ Facts' = Facts /\ Become(r, new)
    BY <1>10 DEF Credit, rows, midtrans, Facts
  <2>4. QED BY <1>8, <2>1, <2>2, <2>3
<1>11. CASE Credited(r)
  <2> DEFINE new == [req[r] EXCEPT !.pc = "savePayment"]
  <2>1. new \in Request /\ new.pc = "savePayment"
    BY <1>1 DEF Request
  <2>2. Intent(new) = "none"
    BY <2>1 DEF Intent
  <2>3. order' = order /\ Facts' = Facts /\ Become(r, new)
    BY <1>11 DEF Credited, rows, midtrans, Facts
  <2>4. QED BY <1>8, <2>1, <2>2, <2>3
<1>12. CASE SavePayment(r)
  <2>1. order' = order /\ Facts' = Facts /\ SavedPayment(r, Idle)
    BY <1>12 DEF SavePayment, Facts
  <2>2. QED BY <1>8, <2>1, IdleRequest, IntentFacts
<1>13. QED BY <1>2, <1>3, <1>4, <1>5, <1>6, <1>7, <1>9, <1>10, <1>11, <1>12 DEF Proceed

\* A handler that ends early, or whose save fails, drops what it has decided.
LEMMA LifeDropped ==
    ASSUME OrdersInv, NEW r \in Requests, DroppedError(r) \/ Crash(r)
    PROVE  Life!Next
<1>1. req[r] \in Request /\ listed \subseteq Sellers /\ TypeOK
  BY DEF OrdersInv, TypeOK
<1>2. order' = order /\ Facts' = Facts
  BY DEF DroppedError, SaveOrderFails, SaveLegOrderFails, CreditFails, SavePaymentFails, Crash,
         rows, midtrans, Facts
<1>3. ASSUME NEW new \in Request, Become(r, new), Intent(new) = "none" PROVE Life!Next
  BY <1>1, <1>2, <1>3, BecomeMoves, LifeStep
<1>4. CASE Crash(r) \/ SavePaymentFails(r)
  BY <1>3, <1>4, IdleRequest, IntentFacts DEF Crash, SavePaymentFails
<1>5. CASE SaveOrderFails(r)
  <2> DEFINE new == IF req[r].kind = "accept" THEN [req[r] EXCEPT !.pc = "credit", !.owed = listed]
                    ELSE [req[r] EXCEPT !.pc = "savePayment"]
  <2>1. new \in Request /\ new.pc \in {"credit", "savePayment"}
    BY <1>1 DEF Request
  <2>2. Intent(new) = "none"
    BY <2>1 DEF Intent
  <2>3. QED BY <1>3, <1>5, <2>1, <2>2 DEF SaveOrderFails
<1>6. ASSUME NEW s \in Sellers, CreditFails(r, s) PROVE Life!Next
  <2> DEFINE new == [req[r] EXCEPT !.owed = @ \ {s}]
  <2>1. new \in Request /\ new.pc = "credit"
    BY <1>1, <1>6 DEF Request, CreditFails
  <2>2. Intent(new) = "none"
    BY <2>1 DEF Intent
  <2>3. QED BY <1>3, <1>6, <2>1, <2>2 DEF CreditFails
<1>7. CASE SaveLegOrderFails(r)
  <2> DEFINE new == [req[r] EXCEPT !.pc = "saveLeg"]
  <2>1. new \in Request /\ new.pc = "saveLeg"
    BY <1>1 DEF Request
  <2>2. Intent(new) = "none"
    BY <2>1 DEF Intent
  <2>3. QED BY <1>3, <1>7, <2>1, <2>2 DEF SaveLegOrderFails
<1>8. QED BY <1>4, <1>5, <1>6, <1>7 DEF DroppedError

\* What Midtrans does, and the catalogue, are news or nothing.
LEMMA LifeOutside ==
    ASSUME \/ Pay \/ Expire \/ (\E n \in Notifications : Notify(n))
           \/ \E s \in Sellers : DeleteProduct(s)
    PROVE  Life!Next
<1>1. order' = order /\ shipment' = shipment /\ req' = req /\ sent \subseteq sent'
  BY DEF Pay, Expire, Notify, DeleteProduct, rows, midtrans
<1>2. Wills' = Wills
  BY <1>1 DEF Wills
<1>3. /\ Facts' \in SUBSET (Life!Said \cup Life!Legs)
      /\ Facts \subseteq Facts'
  BY <1>1 DEF Facts, Life!Said, Life!Legs, Legs
<1>4. Life!Learn(Facts')
  BY <1>1, <1>2, <1>3 DEF Life!Learn
<1>5. QED BY <1>3, <1>4 DEF Life!Next

\* The order, with all its handlers, implements an OrderLife: nobody saves a
\* status that he had no grounds for when he read the rows.
THEOREM OrderLives == Spec => ImplementsLife
<1>1. Init => Life!Init
  <2> SUFFICES ASSUME Init PROVE Life!Init
    OBVIOUS
  <2>1. Wills = [q \in Requests |-> "none"]
    BY IntentFacts DEF Init, Wills
  <2>2. Facts = {}
    BY DEF Init, Facts, Legs
  <2>3. QED BY <2>1, <2>2 DEF Init, Life!Init, Life!Undecided
<1>2. OrdersInv /\ [Next]_vars => [Life!Next]_<<order, Facts, Wills>>
  <2> SUFFICES ASSUME OrdersInv, [Next]_vars PROVE [Life!Next]_<<order, Facts, Wills>>
    OBVIOUS
  <2>1. CASE Next
    BY <2>1, LifeBegins, LifeProceeds, LifeDropped, LifeOutside DEF Next
  <2>2. CASE UNCHANGED vars
    BY <2>2 DEF vars, rows, midtrans, Facts, Wills
  <2>3. QED BY <2>1, <2>2
<1>3. QED BY <1>1, <1>2, OrdersInvariant, PTL DEF Spec, ImplementsLife, Life!Spec

\* An order cancelled for good stays cancelled until Midtrans reports that it was
\* paid or a shipment of it is inserted: it follows from its life alone.
THEOREM CancelledForGood == Spec => CancelledOrderStays
<1> DEFINE Back(facts) == facts \cap ({"accept"} \cup Life!Legs) # {}
<1>1. [Life!Next]_<<order, Facts, Wills>>
        => [Life!Cancelled => Life!Cancelled' \/ Back(Facts')]_<<order, Facts, Wills>>
  <2> SUFFICES ASSUME Life!Next, Life!Cancelled, ~Back(Facts') PROVE Life!Cancelled'
    OBVIOUS
  <2>1. order = "cancelled" /\ \A w \in Requests : Wills[w] \in {"none", "cancelled"}
    BY DEF Life!Cancelled, Life!Undecided
  <2>2. ASSUME NEW w \in Requests, Life!Write(w) \/ Life!Drop(w) PROVE Life!Cancelled'
    BY <2>1, <2>2 DEF Life!Write, Life!Drop, Life!Undecided, Life!Cancelled, Wills
  <2>3. ASSUME NEW w \in Requests, NEW s \in Life!Grounds, Life!Decide(w, s)
        PROVE  Life!Cancelled'
    <3>1. s = "cancelled"
      BY <2>1, <2>3 DEF Life!Grounds, Life!Cancelled, Life!Legs
    <3>2. QED BY <2>1, <2>3, <3>1 DEF Life!Decide, Life!Undecided, Life!Cancelled, Wills
  <2>4. ASSUME NEW new, Life!Learn(new) PROVE Life!Cancelled'
    BY <2>1, <2>4 DEF Life!Learn, Life!Cancelled, Life!Undecided
  <2>5. QED BY <2>2, <2>3, <2>4 DEF Life!Next
<1>2. QED BY <1>1, OrderLives, PTL DEF ImplementsLife, Life!Spec, CancelledOrderStays,
                                      Life!CancelledStays
=============================================================================
