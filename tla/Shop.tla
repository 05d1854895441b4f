-------------------------------- MODULE Shop --------------------------------
(***************************************************************************)
(* The cart and the checkout of the web client.  Every tab keeps the cart  *)
(* in its store and writes all of it to localStorage after each change;    *)
(* it reads localStorage only when it is loaded.  A checkout is two        *)
(* requests, one for the order and one for its payment, and empties the    *)
(* cart when both were answered well.                                      *)
(*                                                                         *)
(* Prices, addresses and texts are left out.  The server is reduced to     *)
(* what a checkout learns of it: Orders and Stock have the rest.           *)
(***************************************************************************)
EXTENDS Integers, FiniteSets

CONSTANTS
    Tabs,
    Products,
    MaxQuantity,   \* bound: units of a product in a cart
    MaxAttempts    \* bound: checkouts started

ASSUME TabAssumption == Tabs # {}
ASSUME BoundAssumption == MaxQuantity \in Nat \ {0} /\ MaxAttempts \in Nat

Attempts == 1..MaxAttempts

VARIABLES
    stored,     \* localStorage: cronos_cart
    cart,       \* the store of each tab
    page,       \* the page each tab shows
    loading,    \* whether the checkout a tab shows is loading
    attempt,    \* checkouts, in the order they were started
    order,      \* what the server has made of each
    (* History variables: no guard reads them.                             *)
    asked,      \* what the customer has put into the cart and not ordered
    disturbed   \* the carts have run into one of the cases below

history == <<asked, disturbed>>
vars == <<stored, cart, page, loading, attempt, order, history>>

\* A cart: how many of each product, 0 for one that is not in it.
Cart == [Products -> 0..MaxQuantity]
Empty == [p \in Products |-> 0]

\* Every other page: the market, a product, the cart, the orders.
Pages == {"checkout", "other"}

(***************************************************************************)
(* A checkout: "create" and "pay" wait for the server, which then answers  *)
(* "created" or "refused", and "payable" or "unpayable".  items: the cart  *)
(* when it was started.  mounted: its page is still on screen.  alive: its *)
(* tab has not been loaded anew.  told: its page showed the error.         *)
(***************************************************************************)
Asking == {"create", "pay"}
Answering == {"created", "refused", "payable", "unpayable"}

Attempt == [pc : {"idle", "failed", "done"} \cup Asking \cup Answering,
            tab : Tabs, items : Cart,
            mounted : BOOLEAN, alive : BOOLEAN, told : BOOLEAN]

\* What the server has: an order without a payment is "pending".
OrderState == {"none", "pending", "payable"}

Started(a) == attempt[a].pc # "idle"
Running(a) == attempt[a].alive /\ attempt[a].pc \in Asking \cup Answering

Init ==
    /\ stored = Empty
    /\ cart = [t \in Tabs |-> Empty]
    /\ page = [t \in Tabs |-> "other"]
    /\ loading = [t \in Tabs |-> FALSE]
    /\ attempt = [a \in Attempts |->
                    [pc |-> "idle", tab |-> CHOOSE t \in Tabs : TRUE, items |-> Empty,
                     mounted |-> FALSE, alive |-> FALSE, told |-> FALSE]]
    /\ order = [a \in Attempts |-> "none"]
    /\ asked = Empty
    /\ disturbed = FALSE

(***************************************************************************)
(* The cart.                                                               *)
(***************************************************************************)
\* Defect: localStorage is not written.
WriteStoreOnly(t, c, w) ==
    /\ cart' = [cart EXCEPT ![t] = c]
    /\ disturbed' = (disturbed \/ cart[t] # stored)
    /\ asked' = IF disturbed' THEN Empty ELSE w
    /\ UNCHANGED <<stored, page, loading, attempt, order>>

\* Tab t changes its cart to c where the customer means asked to become w.
\* If the store is older than localStorage, the other tab's change is lost.
Write(t, c, w) ==
    /\ cart' = [cart EXCEPT ![t] = c]
    /\ stored' = c
    /\ disturbed' = (disturbed \/ cart[t] # stored)
    /\ asked' = IF disturbed' THEN Empty ELSE w
    /\ UNCHANGED <<page, loading, attempt, order>>

\* n units, of a card of the market (one) or of a product's page.
AddItem(t, p, n) ==
    /\ page[t] = "other"
    /\ cart[t][p] + n <= MaxQuantity /\ asked[p] + n <= MaxQuantity
    /\ Write(t, [cart[t] EXCEPT ![p] = @ + n], [asked EXCEPT ![p] = @ + n])

\* The buttons - and +, which give the quantity shown less or plus one.
UpdateQuantity(t, p, q) ==
    /\ page[t] = "other"
    /\ cart[t][p] # 0
    /\ q \in {cart[t][p] - 1, cart[t][p] + 1}
    /\ LET kept == IF q < 1 THEN 1 ELSE q
       IN  Write(t, [cart[t] EXCEPT ![p] = kept], [asked EXCEPT ![p] = kept])

RemoveItem(t, p) ==
    /\ page[t] = "other"
    /\ cart[t][p] # 0
    /\ Write(t, [cart[t] EXCEPT ![p] = 0], [asked EXCEPT ![p] = 0])

(***************************************************************************)
(* Pages.                                                                  *)
(***************************************************************************)
\* The checkouts after tab t left the page they were started on.
Left(t) == [a \in Attempts |->
               IF attempt[a].tab = t THEN [attempt[a] EXCEPT !.mounted = FALSE] ELSE attempt[a]]

Go(t, p) ==
    /\ page[t] # p
    /\ page' = [page EXCEPT ![t] = p]
    /\ loading' = [loading EXCEPT ![t] = FALSE]
    /\ attempt' = Left(t)
    /\ UNCHANGED <<stored, cart, order, history>>

\* A checkout over: nothing of it is left but what it told.
Over(x, pc) == [x EXCEPT !.pc = pc, !.items = Empty]

\* A reload: the store is read anew, and no handler of the tab goes on; the
\* server may still get what it asked for.
Reload(t) ==
    /\ cart' = [cart EXCEPT ![t] = stored]
    /\ loading' = [loading EXCEPT ![t] = FALSE]
    /\ attempt' = [a \in Attempts |->
         LET x == [Left(t)[a] EXCEPT !.alive = FALSE]
         IN  IF attempt[a].tab # t \/ ~attempt[a].alive THEN attempt[a]
             ELSE IF x.pc \in Answering THEN Over(x, "failed") ELSE x]
    /\ UNCHANGED <<stored, page, order, history>>

\* Another customer logs in to this browser: the cart stays, and is not his.
SwitchCustomer(t) ==
    /\ page' = [page EXCEPT ![t] = "other"]
    /\ loading' = [loading EXCEPT ![t] = FALSE]
    /\ attempt' = Left(t)
    /\ disturbed' = (disturbed \/ stored # Empty)
    /\ asked' = Empty
    /\ UNCHANGED <<stored, cart, order>>

(***************************************************************************)
(* The checkout.                                                           *)
(***************************************************************************)
\* Defect: the button stays enabled.
CheckoutAnyTime(t, a) ==
    /\ page[t] = "checkout"
    /\ cart[t] # Empty
    /\ ~Started(a) /\ \A b \in 1..(a - 1) : Started(b)
    /\ loading' = [loading EXCEPT ![t] = TRUE]
    /\ attempt' = [attempt EXCEPT ![a] =
                      [pc |-> "create", tab |-> t, items |-> cart[t],
                       mounted |-> TRUE, alive |-> TRUE, told |-> FALSE]]
    /\ UNCHANGED <<stored, cart, page, order, history>>

\* Place order, with an address: its button is disabled while loading, and the
\* page has none if the cart is empty.
Checkout(t, a) ==
    /\ page[t] = "checkout"
    /\ cart[t] # Empty
    /\ ~loading[t]
    /\ ~Started(a) /\ \A b \in 1..(a - 1) : Started(b)
    /\ loading' = [loading EXCEPT ![t] = TRUE]
    /\ attempt' = [attempt EXCEPT ![a] =
                      [pc |-> "create", tab |-> t, items |-> cart[t],
                       mounted |-> TRUE, alive |-> TRUE, told |-> FALSE]]
    /\ UNCHANGED <<stored, cart, page, order, history>>

\* The server's part, whether or not the tab is still there for the answer.
Serve(a, pc, state) ==
    /\ attempt' = [attempt EXCEPT
                      ![a] = IF @.alive THEN [@ EXCEPT !.pc = pc] ELSE Over(@, "failed")]
    /\ order' = [order EXCEPT ![a] = state]
    /\ UNCHANGED <<stored, cart, page, loading, history>>

CreateOrder(a) ==
    /\ attempt[a].pc = "create"
    /\ Serve(a, "created", "pending") \/ Serve(a, "refused", order[a])

CreatePayment(a) ==
    /\ attempt[a].pc = "pay"
    /\ Serve(a, "payable", "payable") \/ Serve(a, "unpayable", order[a])

\* The order was made: the payment is asked for.
PayOrder(a) ==
    /\ Running(a) /\ attempt[a].pc = "created"
    /\ attempt' = [attempt EXCEPT ![a].pc = "pay"]
    /\ UNCHANGED <<stored, cart, page, loading, order, history>>

\* Both were answered: the tab's cart is emptied, whatever is in it by now, and
\* the tab shows the orders, wherever it is by now.
Finish(a) ==
    /\ Running(a) /\ attempt[a].pc = "payable"
    /\ LET t == attempt[a].tab
       IN  /\ cart' = [cart EXCEPT ![t] = Empty]
           /\ page' = [page EXCEPT ![t] = "other"]
           /\ loading' = [loading EXCEPT ![t] = FALSE]
           /\ attempt' = [Left(t) EXCEPT ![a] = Over([@ EXCEPT !.alive = FALSE], "done")]
    /\ stored' = Empty
    /\ disturbed' = (disturbed \/ asked \notin {attempt[a].items, Empty})
    /\ asked' = Empty
    /\ UNCHANGED order

\* Defect: the error is not shown.
FailSilently(a) ==
    /\ Running(a)
    /\ attempt' = [attempt EXCEPT ![a] = Over([@ EXCEPT !.alive = FALSE], "failed")]
    /\ loading' = [loading EXCEPT ![attempt[a].tab] = @ /\ ~attempt[a].mounted]
    /\ UNCHANGED <<stored, cart, page, order, history>>

\* Defect: no finally: the button stays disabled.
FailLoading(a) ==
    /\ Running(a)
    /\ attempt' = [attempt EXCEPT
                      ![a] = Over([@ EXCEPT !.told = attempt[a].mounted, !.alive = FALSE], "failed")]
    /\ UNCHANGED <<stored, cart, page, loading, order, history>>

\* An error was answered, or either request or its answer was lost: the page,
\* if it is still there, shows an error and can be sent again.
Fail(a) ==
    /\ Running(a)
    /\ attempt' = [attempt EXCEPT
                      ![a] = Over([@ EXCEPT !.told = attempt[a].mounted, !.alive = FALSE], "failed")]
    /\ loading' = [loading EXCEPT ![attempt[a].tab] = @ /\ ~attempt[a].mounted]
    /\ UNCHANGED <<stored, cart, page, order, history>>

Next ==
    \/ \E t \in Tabs :
         \/ \E p \in Products :
              \/ \E n \in 1..MaxQuantity : AddItem(t, p, n)
              \/ \E q \in 0..MaxQuantity : UpdateQuantity(t, p, q)
              \/ RemoveItem(t, p)
         \/ \E p \in Pages : Go(t, p)
         \/ Reload(t) \/ SwitchCustomer(t)
         \/ \E a \in Attempts : Checkout(t, a)
    \/ \E a \in Attempts :
         CreateOrder(a) \/ CreatePayment(a) \/ PayOrder(a) \/ Finish(a) \/ Fail(a)

Spec == Init /\ [][Next]_vars

\* The server and the network answer every request, well or with an error, and
\* the tab handles the answer.
Fairness ==
    \A a \in Attempts :
        /\ WF_vars(CreateOrder(a) \/ CreatePayment(a))
        /\ WF_vars(PayOrder(a) \/ Finish(a) \/ Fail(a))

FairSpec == Spec /\ Fairness

-----------------------------------------------------------------------------

TypeOK ==
    /\ stored \in Cart
    /\ cart \in [Tabs -> Cart]
    /\ page \in [Tabs -> Pages]
    /\ loading \in [Tabs -> BOOLEAN]
    /\ attempt \in [Attempts -> Attempt]
    /\ order \in [Attempts -> OrderState]
    /\ asked \in Cart
    /\ disturbed \in BOOLEAN

\* The stored cart is what its customer put there and has not ordered, unless a
\* tab wrote over the change of another, a checkout emptied a cart that had
\* changed since it was started, or the cart is a previous customer's.
CartIsAsked == ~disturbed => stored = asked

\* The button is disabled exactly while one checkout of that page is answered,
\* so that no tab orders one cart twice at a time without leaving the page.
PlacedOnce ==
    \A t \in Tabs :
        Cardinality({a \in Attempts : Running(a) /\ attempt[a].mounted /\ attempt[a].tab = t})
            = IF loading[t] THEN 1 ELSE 0

\* The cart is emptied only for an order that can be paid; and an order whose
\* cart is still there, which will be ordered a second time by whoever tries
\* again, was made by a checkout that said it had failed, or was left.
OutcomeIsKnown ==
    \A a \in Attempts :
        /\ attempt[a].pc = "done" => order[a] = "payable"
        /\ order[a] # "none" =>
              \/ attempt[a].pc = "done" \/ Running(a)
              \/ attempt[a].told \/ ~attempt[a].mounted

\* The button does not stay disabled.
CheckoutEnds == \A t \in Tabs : loading[t] ~> ~loading[t]

\* The state is well formed, and no page has two checkouts under way.
ShopInv == TypeOK /\ PlacedOnce
=============================================================================
