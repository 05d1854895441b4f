-------------------------------- MODULE Orders --------------------------------
(***************************************************************************)
(* The life of one order: the rows of orders, payments,                    *)
(* midtrans_transactions and shipments that belong to it, the customer,    *)
(* the administrator, the courier and the Midtrans webhook that change     *)
(* them (order_service.go, payment_service.go, shipment_service.go), and   *)
(* Midtrans itself, as far as these handlers see it.                       *)
(*                                                                         *)
(* Handlers of different orders meet in products and in the sellers' users *)
(* rows only: those are the modules Stock and Wallet.  Here a credit is    *)
(* the fact that a seller was credited for the order.                      *)
(*                                                                         *)
(* Every database statement is a step.  No column of the orders row but    *)
(* status changes, so reading the row and saving it with a constant status *)
(* is one step.                                                            *)
(***************************************************************************)
EXTENDS Naturals, FiniteSets

CONSTANTS
    Requests,     \* request goroutines
    Sellers,      \* the sellers of the order's items
    Shipments,    \* shipment rows of the order, inserted or still to come
    NoShipment,   \* what a request that handles no shipment holds
    MaxCredits    \* bound: credits are counted up to this, and not beyond

ASSUME ShipmentAssumption == NoShipment \notin Shipments
ASSUME CreditsAssumption == MaxCredits \in Nat \ {0}

VARIABLES
    order,      \* orders.status
    payment,    \* payments.status; "none" before the row exists
    mt,         \* the midtrans_transactions row exists
    shipment,   \* shipments.status, for each shipment
    listed,     \* the sellers whose product is not deleted
    gateway,    \* Midtrans: the transaction's state there
    sent,       \* Midtrans: the notifications it sends, and sends again
    acked,      \* Midtrans: its "accept" was answered with 200
    req,        \* the local variables of each request
    (* History variables: no guard reads them.                             *)
    credits,    \* how often each seller was credited for this order
    again,      \* something happened that lets a seller be credited twice
    missed      \* the save that credits a seller failed, and nobody noticed

rows == <<order, payment, mt, shipment, listed>>
midtrans == <<gateway, sent, acked>>
history == <<credits, again, missed>>
vars == <<rows, midtrans, req, history>>

(***************************************************************************)
(* A notification: "accept" is a settlement, or a capture whose fraud      *)
(* status is accept; "challenge" is any other capture; "fail" is a deny, a *)
(* cancel or an expire.  No handler tells a failed payment from an expired *)
(* one: "failed" is either.                                                *)
(***************************************************************************)
Notifications == {"accept", "challenge", "pending", "fail"}

\* The payment status a notification leaves behind, given the one it found.
PaymentAfter(n, copy) ==
    CASE n = "accept"    -> "paid"
      [] n = "fail"      -> "failed"
      [] n = "pending"   -> "pending"
      [] n = "challenge" -> copy

Legs == {"pending", "pickup", "transit", "delivered"}

\* validTransitions
NextLeg == [l \in Legs \ {"delivered"} |->
              CASE l = "pending" -> "pickup"
                [] l = "pickup"  -> "transit"
                [] l = "transit" -> "delivered"]

\* The order status that goes with a leg; a transit leaves it alone.
OrderAt(leg) == IF leg = "pickup" THEN "shipped" ELSE "delivered"

OrderStatuses == {"pending", "paid", "processing", "shipped", "delivered", "cancelled"}
PaymentStatuses == {"pending", "paid", "failed"}

(***************************************************************************)
(* payment and leg are the copies a request works on, owed the sellers a   *)
(* webhook has still to credit.  The rest is history: another request has  *)
(* saved the order, the payment or the shipment since this one read it.    *)
(***************************************************************************)
Request == [pc : {"idle", "cancel", "findPayment", "insertPayment", "callSnap",
                  "insertMt", "saveOrder", "credit", "savePayment",
                  "insertShipment", "saveProcessing", "saveLegOrder", "saveLeg"},
            kind : Notifications, payment : {"none"} \cup PaymentStatuses,
            owed : SUBSET Sellers, shipment : Shipments \cup {NoShipment},
            leg : Legs, oldOrder : BOOLEAN, oldPayment : BOOLEAN, oldLeg : BOOLEAN]

Idle == [pc |-> "idle", kind |-> "pending", payment |-> "none", owed |-> {},
         shipment |-> NoShipment, leg |-> "pending",
         oldOrder |-> FALSE, oldPayment |-> FALSE, oldLeg |-> FALSE]

TypeOK ==
    /\ order \in OrderStatuses
    /\ payment \in {"none"} \cup PaymentStatuses
    /\ mt \in BOOLEAN
    /\ shipment \in [Shipments -> {"none"} \cup Legs]
    /\ listed \subseteq Sellers
    /\ gateway \in {"none", "open", "paid", "closed"}
    /\ sent \subseteq Notifications
    /\ acked \in BOOLEAN
    /\ req \in [Requests -> Request]
    /\ credits \in [Sellers -> 0 .. MaxCredits]
    /\ again \in BOOLEAN
    /\ missed \in BOOLEAN

\* CreateOrder has answered.
Init ==
    /\ order = "pending"
    /\ payment = "none"
    /\ mt = FALSE
    /\ shipment = [s \in Shipments |-> "none"]
    /\ listed = Sellers
    /\ gateway = "none"
    /\ sent = {}
    /\ acked = FALSE
    /\ req = [r \in Requests |-> Idle]
    /\ credits = [s \in Sellers |-> 0]
    /\ again = FALSE
    /\ missed = FALSE

Become(r, local) == req' = [req EXCEPT ![r] = local]

(***************************************************************************)
(* r saves the order, or the payment: the copies that others hold of that  *)
(* row, and have still to act upon, are out of date.                       *)
(***************************************************************************)
SavedOrder(r, local) ==
    req' = [q \in Requests |-> IF q = r THEN local
                               ELSE IF req[q].pc = "cancel"
                               THEN [req[q] EXCEPT !.oldOrder = TRUE] ELSE req[q]]

SavedPayment(r, local) ==
    req' = [q \in Requests |-> IF q = r THEN local
                               ELSE IF req[q].pc = "saveOrder"
                               THEN [req[q] EXCEPT !.oldPayment = TRUE] ELSE req[q]]

-----------------------------------------------------------------------------
(* CancelOrder, by the customer.  The stock it returns in between is in    *)
(* the module Stock.                                                       *)

\* Defect: the guard forgotten.
CancelAny(r) ==
    /\ req[r].pc = "idle"
    /\ Become(r, [Idle EXCEPT !.pc = "cancel"])
    /\ UNCHANGED <<rows, midtrans, history>>

CancelOrder(r) ==
    /\ req[r].pc = "idle"
    /\ order = "pending"
    /\ Become(r, [Idle EXCEPT !.pc = "cancel"])
    /\ UNCHANGED <<rows, midtrans, history>>

SaveCancelled(r) ==
    /\ req[r].pc = "cancel"
    /\ order' = "cancelled"
    /\ SavedOrder(r, Idle)
    /\ UNCHANGED <<payment, mt, shipment, listed, midtrans, history>>

-----------------------------------------------------------------------------
(* CreatePayment, by the customer.                                         *)

CreatePayment(r) ==
    /\ req[r].pc = "idle"
    /\ order = "pending"
    /\ Become(r, [Idle EXCEPT !.pc = "findPayment"])
    /\ UNCHANGED <<rows, midtrans, history>>

\* The midtrans row of an earlier call answers this one.
FindPayment(r) ==
    /\ req[r].pc = "findPayment"
    /\ Become(r, IF mt THEN Idle ELSE [Idle EXCEPT !.pc = "insertPayment"])
    /\ UNCHANGED <<rows, midtrans, history>>

\* Defect: a payment left over from a failed call is used again.
InsertOrReuse(r) ==
    /\ req[r].pc = "insertPayment"
    /\ payment' = IF payment = "none" THEN "pending" ELSE payment
    /\ Become(r, [Idle EXCEPT !.pc = "callSnap"])
    /\ UNCHANGED <<order, mt, shipment, listed, midtrans, history>>

\* payments.order_id is unique: "failed to create payment" if a row is there.
InsertPayment(r) ==
    /\ req[r].pc = "insertPayment"
    /\ IF payment = "none"
       THEN payment' = "pending" /\ Become(r, [Idle EXCEPT !.pc = "callSnap"])
       ELSE Become(r, Idle) /\ UNCHANGED payment
    /\ UNCHANGED <<order, mt, shipment, listed, midtrans, history>>

CallSnap(r) ==
    /\ req[r].pc = "callSnap"
    /\ gateway = "none"
    /\ gateway' = "open"
    /\ Become(r, [Idle EXCEPT !.pc = "insertMt"])
    /\ UNCHANGED <<rows, sent, acked, history>>

\* "failed to create snap token": Midtrans is out of reach, or knows the id.
SnapFails(r) ==
    /\ req[r].pc = "callSnap"
    /\ Become(r, Idle)
    /\ UNCHANGED <<rows, midtrans, history>>

InsertMt(r) ==
    /\ req[r].pc = "insertMt"
    /\ mt' = TRUE
    /\ Become(r, Idle)
    /\ UNCHANGED <<order, payment, shipment, listed, midtrans, history>>

-----------------------------------------------------------------------------
(* Midtrans.  The customer has the token once the midtrans row is there.   *)

Notify(n) ==
    /\ mt
    /\ gateway = "open"
    /\ n \in Notifications \ ({"accept"} \cup sent)
    /\ sent' = sent \cup {n}
    /\ UNCHANGED <<rows, gateway, acked, req, history>>

Pay ==
    /\ mt
    /\ gateway = "open"
    /\ gateway' = "paid"
    /\ sent' = sent \cup {"accept"}
    /\ UNCHANGED <<rows, acked, req, history>>

Expire ==
    /\ mt
    /\ gateway = "open"
    /\ gateway' = "closed"
    /\ sent' = sent \cup {"fail"}
    /\ UNCHANGED <<rows, acked, req, history>>

-----------------------------------------------------------------------------
(* HandleWebhook.  Any notification that was sent may arrive at any time,  *)
(* and again.                                                              *)

\* Defect: a payment that is paid is paid again.
AfterAnyRead(n) == IF n \in {"accept", "fail"} THEN "saveOrder" ELSE "savePayment"

\* What a webhook does with notification n, having read the payment.
AfterRead(n) ==
    IF payment = "paid" /\ n \in {"accept", "challenge"} THEN "idle"
    ELSE IF n \in {"accept", "fail"} THEN "saveOrder"
    ELSE "savePayment"

\* Defect: the fraud status of a capture is not looked at.
ReadUnscreened(r, n) ==
    /\ req[r].pc = "idle"
    /\ mt
    /\ n \in sent
    /\ payment # "paid"
    /\ Become(r, [Idle EXCEPT !.pc = IF n = "pending" THEN "savePayment" ELSE "saveOrder",
                              !.kind = IF n = "challenge" THEN "accept" ELSE n,
                              !.payment = payment])
    /\ UNCHANGED <<rows, midtrans, history>>

\* A payment that is paid already is answered at once.
ReadPayment(r, n) ==
    /\ req[r].pc = "idle"
    /\ mt
    /\ n \in sent
    /\ IF AfterRead(n) = "idle"
       THEN acked' = (acked \/ n = "accept") /\ UNCHANGED req
       ELSE /\ Become(r, [Idle EXCEPT !.pc = AfterRead(n), !.kind = n,
                                      !.payment = payment])
            /\ UNCHANGED acked
    /\ UNCHANGED <<rows, gateway, sent, history>>

\* Another webhook credits the sellers too, or has done so since r read.
Overlapping(r) ==
    \/ req[r].oldPayment
    \/ \E q \in Requests \ {r} : req[q].pc \in {"credit", "savePayment"} /\ req[q].kind = "accept"

\* Defect: the payment is saved first, and the credits follow.
SavePaidFirst(r) ==
    /\ req[r].pc = "saveOrder"
    /\ order' = IF req[r].kind = "accept" THEN "paid" ELSE "cancelled"
    /\ payment' = PaymentAfter(req[r].kind, req[r].payment)
    /\ SavedOrder(r, [req[r] EXCEPT !.pc = IF req[r].kind = "accept" THEN "credit"
                                           ELSE "savePayment", !.owed = listed])
    /\ UNCHANGED <<mt, shipment, listed, midtrans, history>>

SaveOrder(r) ==
    /\ req[r].pc = "saveOrder"
    /\ IF req[r].kind = "accept"
       THEN /\ order' = "paid"
            /\ SavedOrder(r, [req[r] EXCEPT !.pc = "credit", !.owed = listed])
            /\ again' = (again \/ Overlapping(r))
       ELSE /\ order' = "cancelled"
            /\ SavedOrder(r, [req[r] EXCEPT !.pc = "savePayment"])
            /\ UNCHANGED again
    /\ UNCHANGED <<payment, mt, shipment, listed, midtrans, credits, missed>>

\* creditSellerBalance visits the sellers in no particular order.
Credit(r, s) ==
    /\ req[r].pc = "credit"
    /\ s \in req[r].owed
    /\ credits' = [credits EXCEPT ![s] = IF @ < MaxCredits THEN @ + 1 ELSE @]
    /\ Become(r, [req[r] EXCEPT !.owed = @ \ {s}])
    /\ UNCHANGED <<rows, midtrans, again, missed>>

Credited(r) ==
    /\ req[r].pc = "credit"
    /\ req[r].owed = {}
    /\ Become(r, [req[r] EXCEPT !.pc = "savePayment"])
    /\ UNCHANGED <<rows, midtrans, history>>

SavePayment(r) ==
    /\ req[r].pc = "savePayment"
    /\ payment' = PaymentAfter(req[r].kind, req[r].payment)
    /\ SavedPayment(r, Idle)
    /\ acked' = (acked \/ req[r].kind = "accept")
    /\ again' = (again \/ (payment = "paid" /\ payment' # "paid"))
    /\ UNCHANGED <<order, mt, shipment, listed, gateway, sent, credits, missed>>

(***************************************************************************)
(* The webhook, and the courier's update of the order, drop the errors of  *)
(* their saves and go on.                                                  *)
(***************************************************************************)
SaveOrderFails(r) ==
    /\ req[r].pc = "saveOrder"
    /\ Become(r, IF req[r].kind = "accept"
                 THEN [req[r] EXCEPT !.pc = "credit", !.owed = listed]
                 ELSE [req[r] EXCEPT !.pc = "savePayment"])
    /\ again' = (again \/ (req[r].kind = "accept" /\ Overlapping(r)))
    /\ UNCHANGED <<rows, midtrans, credits, missed>>

CreditFails(r, s) ==
    /\ req[r].pc = "credit"
    /\ s \in req[r].owed
    /\ Become(r, [req[r] EXCEPT !.owed = @ \ {s}])
    /\ missed' = TRUE
    /\ UNCHANGED <<rows, midtrans, credits, again>>

SavePaymentFails(r) ==
    /\ req[r].pc = "savePayment"
    /\ Become(r, Idle)
    /\ acked' = (acked \/ req[r].kind = "accept")
    /\ again' = (again \/ req[r].kind = "accept")
    /\ UNCHANGED <<rows, gateway, sent, credits, missed>>

SaveLegOrderFails(r) ==
    /\ req[r].pc = "saveLegOrder"
    /\ Become(r, [req[r] EXCEPT !.pc = "saveLeg"])
    /\ UNCHANGED <<rows, midtrans, history>>

DroppedError(r) ==
    \/ SaveOrderFails(r)
    \/ SaveLegOrderFails(r)
    \/ \E s \in Sellers : CreditFails(r, s)
    \/ SavePaymentFails(r)

\* DeleteProduct: a webhook no longer finds whom to credit.
DeleteProduct(s) ==
    /\ s \in listed
    /\ listed' = listed \ {s}
    /\ UNCHANGED <<order, payment, mt, shipment, midtrans, req, history>>

-----------------------------------------------------------------------------
(* CreateShipment, by an administrator.                                    *)

CreateShipment(r, s) ==
    /\ req[r].pc = "idle"
    /\ order \in {"paid", "processing", "pending"}
    /\ shipment[s] = "none"
    /\ \A q \in Requests : req[q].shipment # s
    /\ Become(r, [Idle EXCEPT !.pc = "insertShipment", !.shipment = s])
    /\ UNCHANGED <<rows, midtrans, history>>

InsertShipment(r) ==
    /\ req[r].pc = "insertShipment"
    /\ shipment' = [shipment EXCEPT ![req[r].shipment] = "pending"]
    /\ Become(r, [req[r] EXCEPT !.pc = "saveProcessing"])
    /\ UNCHANGED <<order, payment, mt, listed, midtrans, history>>

SaveProcessing(r) ==
    /\ req[r].pc = "saveProcessing"
    /\ order' = "processing"
    /\ SavedOrder(r, Idle)
    /\ UNCHANGED <<payment, mt, shipment, listed, midtrans, history>>

-----------------------------------------------------------------------------
(* UpdateShipmentStatus, by the courier: one leg at a time, and the order  *)
(* first.                                                                  *)

\* Defect: the courier's leg is not compared with the shipment's.
ReadAnyLeg(r, s) ==
    /\ req[r].pc = "idle"
    /\ shipment[s] # "none"
    /\ \E leg \in Legs \ {"pending"} :
          Become(r, [Idle EXCEPT !.pc = IF leg = "transit" THEN "saveLeg" ELSE "saveLegOrder",
                                 !.shipment = s, !.leg = leg])
    /\ UNCHANGED <<rows, midtrans, history>>

ReadShipment(r, s) ==
    /\ req[r].pc = "idle"
    /\ shipment[s] \in DOMAIN NextLeg
    /\ Become(r, [Idle EXCEPT !.pc = IF NextLeg[shipment[s]] = "transit" THEN "saveLeg"
                                     ELSE "saveLegOrder",
                              !.shipment = s, !.leg = NextLeg[shipment[s]]])
    /\ UNCHANGED <<rows, midtrans, history>>

SaveLegOrder(r) ==
    /\ req[r].pc = "saveLegOrder"
    /\ order' = OrderAt(req[r].leg)
    /\ SavedOrder(r, [req[r] EXCEPT !.pc = "saveLeg"])
    /\ UNCHANGED <<payment, mt, shipment, listed, midtrans, history>>

SaveLeg(r) ==
    /\ req[r].pc = "saveLeg"
    /\ shipment' = [shipment EXCEPT ![req[r].shipment] = req[r].leg]
    /\ req' = [q \in Requests |-> IF q = r THEN Idle
                                  ELSE IF req[q].shipment = req[r].shipment
                                  THEN [req[q] EXCEPT !.oldLeg = TRUE] ELSE req[q]]
    /\ UNCHANGED <<order, payment, mt, listed, midtrans, history>>

-----------------------------------------------------------------------------

\* The process dies, or a statement whose error ends the handler fails.
Crash(r) ==
    /\ req[r].pc # "idle"
    /\ Become(r, Idle)
    /\ again' = (again \/ (req[r].pc \in {"credit", "savePayment"} /\ req[r].kind = "accept"))
    /\ UNCHANGED <<rows, midtrans, credits, missed>>

\* A handler that has started goes on.
Proceed(r) ==
    \/ SaveCancelled(r)
    \/ FindPayment(r)
    \/ InsertPayment(r)
    \/ CallSnap(r)
    \/ SnapFails(r)
    \/ InsertMt(r)
    \/ SaveOrder(r)
    \/ \E s \in Sellers : Credit(r, s)
    \/ Credited(r)
    \/ SavePayment(r)
    \/ InsertShipment(r)
    \/ SaveProcessing(r)
    \/ SaveLegOrder(r)
    \/ SaveLeg(r)

Begin(r) ==
    \/ CancelOrder(r)
    \/ CreatePayment(r)
    \/ \E n \in Notifications : ReadPayment(r, n)
    \/ \E s \in Shipments : CreateShipment(r, s) \/ ReadShipment(r, s)

Next ==
    \/ \E r \in Requests : Begin(r) \/ Proceed(r) \/ DroppedError(r) \/ Crash(r)
    \/ \E n \in Notifications : Notify(n)
    \/ Pay
    \/ Expire
    \/ \E s \in Sellers : DeleteProduct(s)

Spec == Init /\ [][Next]_vars

(***************************************************************************)
(* A goroutine that can go on does, and Midtrans repeats a notification    *)
(* until it is answered with 200.                                          *)
(***************************************************************************)
Redeliver == ~acked /\ \E r \in Requests : ReadPayment(r, "accept")

FairSpec ==
    /\ Spec
    /\ \A r \in Requests : WF_vars(Proceed(r))
    /\ SF_vars(Redeliver)

-----------------------------------------------------------------------------

(***************************************************************************)
(* The order or its payment says paid, or a seller was credited, only if   *)
(* Midtrans was really paid: not by a capture that fraud detection         *)
(* challenged, and not by a notification that came late or twice.          *)
(***************************************************************************)
PaidMeansPaid ==
    order = "paid" \/ payment = "paid" \/ (\E s \in Sellers : credits[s] > 0)
        => gateway = "paid"

(***************************************************************************)
(* A seller is credited once for the order, however often its              *)
(* notifications arrive - unless two webhooks overlapped, one ended        *)
(* between the credit and the payment, a save failed unseen, or a later    *)
(* notification moved the payment away from paid.                          *)
(***************************************************************************)
CreditedOnce == (\E s \in Sellers : credits[s] > 1) => again

(***************************************************************************)
(* A payment that says paid has credited every seller whose product is     *)
(* still listed: it is saved after the last credit.                        *)
(***************************************************************************)
PaidHasCredited ==
    payment = "paid" /\ ~missed => \A s \in listed : credits[s] > 0

(***************************************************************************)
(* The customer's cancellation overwrites an order that is no longer       *)
(* pending only if another request saved the order since it was read.      *)
(***************************************************************************)
CancelsOtherOnlyByOldCopy ==
    [][\A r \in Requests :
          SaveCancelled(r) /\ order # "pending" => req[r].oldOrder]_vars

(***************************************************************************)
(* A payment row without its midtrans row - the call to Midtrans failed,   *)
(* or the process died after it - stays without once no CreatePayment is   *)
(* past the insert: the order can never be paid.                           *)
(***************************************************************************)
OrphanPaymentStaysOrphan ==
    [][payment # "none" /\ ~mt /\ (\A r \in Requests : req[r].pc \notin {"callSnap", "insertMt"})
          => ~mt' /\ (\A r \in Requests : req'[r].pc \notin {"callSnap", "insertMt"})]_vars

(***************************************************************************)
(* A shipment moves one leg forward at a time, unless the courier's        *)
(* request had read it before another one saved it.                        *)
(***************************************************************************)
LegByLeg ==
    [][\A s \in Shipments :
          shipment'[s] # shipment[s] /\ shipment[s] # "none" =>
              \/ shipment[s] \in DOMAIN NextLeg /\ shipment'[s] = NextLeg[shipment[s]]
              \/ \E r \in Requests : req[r].shipment = s /\ req[r].oldLeg]_vars

\* The status that a request whose local variables these are is about to save.
Intent(local) ==
    CASE local.pc = "cancel"                                -> "cancelled"
      [] local.pc = "saveOrder"                             ->
            IF local.kind = "accept" THEN "paid" ELSE "cancelled"
      [] local.pc \in {"insertShipment", "saveProcessing"}  -> "processing"
      [] local.pc = "saveLegOrder"                          -> OrderAt(local.leg)
      [] OTHER                                              -> "none"

Wills == [q \in Requests |-> Intent(req[q])]

Facts == (sent \cap {"accept", "fail"}) \cup ({shipment[s] : s \in Shipments} \cap Legs)

(***************************************************************************)
(* Whoever saves orders.status had grounds for what he saves when he read  *)
(* the rows, whoever saved it since: the order seen from outside is an     *)
(* OrderLife.                                                              *)
(***************************************************************************)
Life == INSTANCE OrderLife WITH
            Writers <- Requests, status <- order, facts <- Facts, will <- Wills

ImplementsLife == Life!Spec

(***************************************************************************)
(* An order that is cancelled, and that no handler is about to save with   *)
(* another status, stays cancelled until Midtrans reports that it was paid *)
(* or a shipment of it is inserted.                                        *)
(***************************************************************************)
CancelledOrderStays == Life!CancelledStays

(***************************************************************************)
(* If Midtrans was paid then every seller whose product is not deleted is  *)
(* credited, unless a save failed unseen: crashes, as long as they end, do *)
(* not lose the credit, since Midtrans repeats what was not answered.      *)
(***************************************************************************)
CrashesEnd == <>[][\A r \in Requests : ~Crash(r)]_vars

PaidSellersAreCredited ==
    CrashesEnd => (gateway = "paid" ~> missed \/ \A s \in listed : credits[s] > 0)
=============================================================================
