-------------------------------- MODULE Stock --------------------------------
(***************************************************************************)
(* What orders do to the stock of products (order_service.go, and the      *)
(* stock that UpdateProduct of product_service.go overwrites).             *)
(*                                                                         *)
(* CreateOrder checks every line against the stock it reads, inserts the   *)
(* order, and then reads each product again to take the line out of its    *)
(* stock; CancelOrder puts every line back and saves the order last.  Each *)
(* statement is a step, each save of a product overwrites its whole row,   *)
(* and nothing is reserved or undone.                                      *)
(***************************************************************************)
EXTENDS Integers, Sequences

CONSTANTS
    Requests,   \* request goroutines
    Products,
    Orders,     \* orders rows, inserted or still to come
    NoOrder,    \* what a request that handles no order holds
    Items,      \* the lines of each order: [product, quantity]
    Levels,     \* what a seller may enter as stock
    Initial,    \* the stock each product starts with
    LeastHeld   \* bound: a cancellation starts only while held exceeds it

ASSUME OrderAssumption ==
    /\ NoOrder \notin Orders
    /\ Items \in [Orders -> Seq([product : Products, quantity : Nat \ {0}])]
    /\ \A o \in Orders : Len(Items[o]) > 0
ASSUME LevelAssumption ==
    /\ Products # {}
    /\ Levels \subseteq Nat
    /\ Initial \in [Products -> Nat]
    /\ LeastHeld \in Int

VARIABLES
    stock,      \* products.stock
    order,      \* orders.status: "sold" is paid, processing, shipped, delivered
    items,      \* how many order_items rows each order has
    req,        \* the local variables of each request
    (* History variables: no guard reads them but for the bound LeastHeld.  *)
    books,      \* the stock, had every change been applied to the row itself
    held,       \* lines of each order taken out of stock, less those put back
    lapsed,     \* orders cancelled by the webhook
    raced,      \* products saved from an outdated copy
    contested,  \* products oversold by a line whose check was outdated
    disturbed   \* orders a handler left halfway, or two handled at once

rows == <<stock, order, items>>
history == <<books, held, lapsed, raced, contested, disturbed>>
vars == <<rows, req, history>>

Lines(o) == 1 .. Len(Items[o])
Product(o, i) == Items[o][i].product
Quantity(o, i) == Items[o][i].quantity

Creating == {"check", "insertOrder", "insertItem", "readTake", "saveTake"}
Cancelling == {"readBack", "saveBack", "saveCancelled"}

(***************************************************************************)
(* line is the line a request is at, last the number of lines it saw when  *)
(* it read the order, copy the stock it read.  old and stale are history:  *)
(* the row of the copy was saved since, and the lines whose product was    *)
(* saved since they were checked.                                          *)
(***************************************************************************)
Request == [pc : {"idle"} \cup Creating \cup Cancelling,
            order : Orders \cup {NoOrder}, line : Nat, last : Nat,
            product : Products, copy : Int, old : BOOLEAN, stale : SUBSET Nat]

TypeOK ==
    /\ stock \in [Products -> Int]
    /\ order \in [Orders -> {"none", "pending", "sold", "cancelled"}]
    /\ items \in [Orders -> Nat]
    /\ \A o \in Orders : items[o] <= Len(Items[o])
    /\ req \in [Requests -> Request]
    /\ books \in [Products -> Int]
    /\ held \in [Orders -> Int]
    /\ lapsed \subseteq Orders
    /\ raced \subseteq Products
    /\ contested \subseteq Products
    /\ disturbed \subseteq Orders

Idle == [pc |-> "idle", order |-> NoOrder, line |-> 1, last |-> 0,
         product |-> CHOOSE p \in Products : TRUE, copy |-> 0,
         old |-> FALSE, stale |-> {}]

Init ==
    /\ stock = Initial
    /\ order = [o \in Orders |-> "none"]
    /\ items = [o \in Orders |-> 0]
    /\ req = [r \in Requests |-> Idle]
    /\ books = Initial
    /\ held = [o \in Orders |-> 0]
    /\ lapsed = {}
    /\ raced = {}
    /\ contested = {}
    /\ disturbed = {}

Become(r, local) == req' = [req EXCEPT ![r] = local]

\* A request other than r is in the middle of order o.
Busy(o) == \E r \in Requests : req[r].order = o
BusyElsewhere(r, o) == \E q \in Requests \ {r} : req[q].order = o

(***************************************************************************)
(* ProductRepo.Update by r, which goes on as local: p's row becomes the    *)
(* copy with its stock set to level.  The copies others hold of the row,   *)
(* and every check of it whose line is still to be taken, r's own          *)
(* included, are out of date.                                              *)
(***************************************************************************)
Holds(q, p) == req[q].pc \in {"saveTake", "saveBack"} /\ req[q].product = p

StaleLines(p, l) ==
    IF l.pc \in Creating
    THEN {i \in Lines(l.order) : /\ Product(l.order, i) = p
                                 /\ IF l.pc = "check" THEN i < l.line ELSE i >= l.line}
    ELSE {}

Outdated(l, p, byOther) == [l EXCEPT !.old = @ \/ byOther, !.stale = @ \cup StaleLines(p, l)]

SaveProduct(r, p, level, local) ==
    /\ stock' = [stock EXCEPT ![p] = level]
    /\ req' = [q \in Requests |->
                 IF q = r THEN Outdated(local, p, FALSE)
                 ELSE Outdated(req[q], p, Holds(q, p))]

-----------------------------------------------------------------------------
(* CreateOrder.                                                            *)

CreateOrder(r, o) ==
    /\ req[r].pc = "idle"
    /\ order[o] = "none"
    /\ ~Busy(o)
    /\ Become(r, [Idle EXCEPT !.pc = "check", !.order = o])
    /\ UNCHANGED <<rows, history>>

\* Defect: the check trusts the client's copy of the stock.
SkipCheck(r) ==
    /\ req[r].pc = "check"
    /\ Become(r, [req[r] EXCEPT !.pc = "insertOrder"])
    /\ UNCHANGED <<rows, history>>

\* Each line is checked against the whole stock of its product.
CheckLine(r) ==
    LET o == req[r].order
        i == req[r].line
    IN  /\ req[r].pc = "check"
        /\ Become(r, IF stock[Product(o, i)] < Quantity(o, i) THEN Idle
                     ELSE IF i = Len(Items[o])
                          THEN [req[r] EXCEPT !.pc = "insertOrder", !.line = 1]
                          ELSE [req[r] EXCEPT !.line = i + 1])
        /\ UNCHANGED <<rows, history>>

InsertOrder(r) ==
    /\ req[r].pc = "insertOrder"
    /\ order' = [order EXCEPT ![req[r].order] = "pending"]
    /\ Become(r, [req[r] EXCEPT !.pc = "insertItem"])
    /\ UNCHANGED <<stock, items, history>>

InsertItem(r) ==
    /\ req[r].pc = "insertItem"
    /\ items' = [items EXCEPT ![req[r].order] = @ + 1]
    /\ Become(r, [req[r] EXCEPT !.pc = "readTake"])
    /\ UNCHANGED <<stock, order, history>>

\* Defect: one copy serves all lines.
ReadOnce(r) ==
    LET p == Product(req[r].order, req[r].line)
    IN  /\ req[r].pc = "readTake"
        /\ Become(r, [req[r] EXCEPT !.pc = "saveTake", !.product = p, !.old = FALSE,
                        !.copy = IF req[r].line = 1 THEN stock[p]
                                 ELSE req[r].copy - Quantity(req[r].order, req[r].line - 1)])
        /\ UNCHANGED <<rows, history>>

ReadTake(r) ==
    LET p == Product(req[r].order, req[r].line)
    IN  /\ req[r].pc = "readTake"
        /\ Become(r, [req[r] EXCEPT !.pc = "saveTake", !.product = p,
                                    !.copy = stock[p], !.old = FALSE])
        /\ UNCHANGED <<rows, history>>

\* What r does once a line of its new order is taken.
NextTake(r) ==
    IF req[r].line = Len(Items[req[r].order]) THEN Idle
    ELSE [req[r] EXCEPT !.pc = "insertItem", !.line = @ + 1, !.old = FALSE,
                          !.stale = @ \ {req[r].line}]

SaveTake(r) ==
    LET o == req[r].order
        i == req[r].line
        p == req[r].product
    IN  /\ req[r].pc = "saveTake"
        /\ SaveProduct(r, p, req[r].copy - Quantity(o, i), NextTake(r))
        /\ books' = [books EXCEPT ![p] = @ - Quantity(o, i)]
        /\ held' = [held EXCEPT ![o] = @ + 1]
        /\ raced' = IF req[r].old THEN raced \cup {p} ELSE raced
        /\ contested' = IF i \in req[r].stale /\ stock'[p] < 0
                        THEN contested \cup {p} ELSE contested
        /\ UNCHANGED <<order, items, lapsed, disturbed>>

-----------------------------------------------------------------------------
(* CancelOrder.                                                            *)

\* Defect: an order is cancelled whatever its status.
CancelAny(r, o) ==
    /\ req[r].pc = "idle"
    /\ order[o] # "none"
    /\ held[o] > LeastHeld
    /\ Become(r, [Idle EXCEPT !.order = o, !.last = items[o],
                              !.pc = IF items[o] = 0 THEN "saveCancelled" ELSE "readBack"])
    /\ disturbed' = IF Busy(o) THEN disturbed \cup {o} ELSE disturbed
    /\ UNCHANGED <<rows, books, held, lapsed, raced, contested>>

CancelOrder(r, o) ==
    /\ req[r].pc = "idle"
    /\ order[o] = "pending"
    /\ held[o] > LeastHeld
    /\ Become(r, [Idle EXCEPT !.order = o, !.last = items[o],
                              !.pc = IF items[o] = 0 THEN "saveCancelled" ELSE "readBack"])
    /\ disturbed' = IF Busy(o) THEN disturbed \cup {o} ELSE disturbed
    /\ UNCHANGED <<rows, books, held, lapsed, raced, contested>>

ReadBack(r) ==
    LET p == Product(req[r].order, req[r].line)
    IN  /\ req[r].pc = "readBack"
        /\ Become(r, [req[r] EXCEPT !.pc = "saveBack", !.product = p,
                                    !.copy = stock[p], !.old = FALSE])
        /\ UNCHANGED <<rows, history>>

\* What r does once a line of the order it cancels is back in stock.
NextBack(r) ==
    IF req[r].line = req[r].last THEN [req[r] EXCEPT !.pc = "saveCancelled"]
    ELSE [req[r] EXCEPT !.pc = "readBack", !.line = @ + 1, !.old = FALSE]

SaveBack(r) ==
    LET o == req[r].order
        i == req[r].line
        p == req[r].product
    IN  /\ req[r].pc = "saveBack"
        /\ SaveProduct(r, p, req[r].copy + Quantity(o, i), NextBack(r))
        /\ books' = [books EXCEPT ![p] = @ + Quantity(o, i)]
        /\ held' = [held EXCEPT ![o] = @ - 1]
        /\ raced' = IF req[r].old THEN raced \cup {p} ELSE raced
        /\ UNCHANGED <<order, items, lapsed, contested, disturbed>>

SaveCancelled(r) ==
    /\ req[r].pc = "saveCancelled"
    /\ order' = [order EXCEPT ![req[r].order] = "cancelled"]
    /\ Become(r, Idle)
    /\ UNCHANGED <<stock, items, history>>

\* The error of ProductRepo.Update is dropped, and both loops go on.
SaveProductFails(r) ==
    /\ req[r].pc \in {"saveTake", "saveBack"}
    /\ Become(r, IF req[r].pc = "saveTake" THEN NextTake(r) ELSE NextBack(r))
    /\ disturbed' = disturbed \cup {req[r].order}
    /\ UNCHANGED <<rows, books, held, lapsed, raced, contested>>

-----------------------------------------------------------------------------
(* The seller's UpdateProduct.  The stock that is entered replaces the one *)
(* that was read, sold in between or not: the two statements are one step. *)
(* (A negative number would leave the stock as read; no client sends one.) *)

UpdateProduct(p, level) ==
    /\ stock' = [stock EXCEPT ![p] = level]
    /\ books' = [books EXCEPT ![p] = level]
    /\ req' = [q \in Requests |-> Outdated(req[q], p, Holds(q, p))]
    /\ UNCHANGED <<order, items, held, lapsed, raced, contested, disturbed>>

-----------------------------------------------------------------------------
(* The webhook saves the order, and leaves the stock alone.                *)

\* It may find the order cancelled: then the stock is gone already.
Settle(o) ==
    /\ order[o] # "none"
    /\ order' = [order EXCEPT ![o] = "sold"]
    /\ disturbed' = IF Busy(o) \/ (order[o] = "cancelled" /\ o \notin lapsed)
                    THEN disturbed \cup {o} ELSE disturbed
    /\ UNCHANGED <<stock, items, req, books, held, lapsed, raced, contested>>

Lapse(o) ==
    /\ order[o] # "none"
    /\ order' = [order EXCEPT ![o] = "cancelled"]
    /\ lapsed' = IF order[o] = "cancelled" THEN lapsed ELSE lapsed \cup {o}
    /\ disturbed' = IF Busy(o) THEN disturbed \cup {o} ELSE disturbed
    /\ UNCHANGED <<stock, items, req, books, held, raced, contested>>

-----------------------------------------------------------------------------

\* The process dies, or a statement whose error ends the handler fails.
Crash(r) ==
    /\ req[r].pc # "idle"
    /\ Become(r, Idle)
    /\ disturbed' = IF req[r].pc \in {"check", "insertOrder"}
                    THEN disturbed ELSE disturbed \cup {req[r].order}
    /\ UNCHANGED <<rows, books, held, lapsed, raced, contested>>

Step(r) ==
    \/ \E o \in Orders : CreateOrder(r, o) \/ CancelOrder(r, o)
    \/ CheckLine(r)
    \/ InsertOrder(r)
    \/ InsertItem(r)
    \/ ReadTake(r)
    \/ SaveTake(r)
    \/ ReadBack(r)
    \/ SaveBack(r)
    \/ SaveCancelled(r)
    \/ SaveProductFails(r)
    \/ Crash(r)

Next ==
    \/ \E r \in Requests : Step(r)
    \/ \E p \in Products, level \in Levels : UpdateProduct(p, level)
    \/ \E o \in Orders : Settle(o) \/ Lapse(o)

Spec == Init /\ [][Next]_vars

-----------------------------------------------------------------------------

(***************************************************************************)
(* Unless some request saved a product from an outdated copy, its stock is *)
(* what the seller last entered, less every line taken and plus every line *)
(* put back since.                                                         *)
(***************************************************************************)
StockBooks == \A p \in Products \ raced : stock[p] = books[p]

(***************************************************************************)
(* Once no request handles it, an order holds all its lines if it is       *)
(* pending or sold, or if the webhook cancelled it - the webhook returns   *)
(* nothing - and none of them if the customer cancelled it: unless a       *)
(* handler ended halfway or two of them worked on the order at once.       *)
(***************************************************************************)
HeldExactly ==
    \A o \in Orders \ disturbed :
        order[o] # "none" /\ ~Busy(o) =>
            held[o] = IF order[o] = "cancelled" /\ o \notin lapsed THEN 0
                      ELSE Len(Items[o])

(***************************************************************************)
(* A product is sold beyond its stock only if a line was taken after some  *)
(* save of the product outdated the check: another order's, a seller's, or *)
(* that of another line of the same order.                                 *)
(***************************************************************************)
OversoldOnlyAfterOldCheck == \A p \in Products \ contested : stock[p] >= 0
=============================================================================
