------------------------------ MODULE ShopProofs ------------------------------
(***************************************************************************)
(* Theorems about the cart and the checkout, for any number of tabs,       *)
(* products and checkouts.                                                 *)
(***************************************************************************)
EXTENDS Shop, FiniteSetTheorems, TLAPS

(***************************************************************************)
(* The inductive invariant.  PlacedOnce counts the checkouts open in a     *)
(* tab; here they are the set of one of them, or of none.  What is known   *)
(* of a checkout: one that lost its tab also lost its page, one that is    *)
(* about to be finished has its payment.                                   *)
(***************************************************************************)
Open(a, t) == Running(a) /\ attempt[a].mounted /\ attempt[a].tab = t

OneOpen(t) ==
    /\ ~loading[t] => \A a \in Attempts : ~Open(a, t)
    /\ loading[t] => \E a \in Attempts : Open(a, t) /\ \A b \in Attempts \ {a} : ~Open(b, t)

Known(a) ==
    /\ attempt[a].pc \in {"payable", "done"} => order[a] = "payable"
    /\ attempt[a].pc \in Asking \cup Answering /\ ~attempt[a].alive => ~attempt[a].mounted
    /\ order[a] # "none" =>
          \/ attempt[a].pc = "done" \/ Running(a)
          \/ attempt[a].told \/ ~attempt[a].mounted

CheckoutInv ==
    /\ TypeOK
    /\ CartIsAsked
    /\ \A t \in Tabs : OneOpen(t)
    /\ \A a \in Attempts : Known(a)

USE TabAssumption, BoundAssumption

-----------------------------------------------------------------------------
(* The records of checkouts.                                               *)

\* An empty cart is a cart, and so is one with another quantity in it.
LEMMA CartType ==
    /\ Empty \in Cart
    /\ \A c \in Cart, p \in Products, n \in 0..MaxQuantity : [c EXCEPT ![p] = n] \in Cart
BY DEF Empty, Cart

\* A checkout that is over keeps its tab and what it told.
LEMMA OverFacts ==
    ASSUME NEW x \in Attempt, NEW pc \in {"failed", "done"}
    PROVE  /\ Over(x, pc) \in Attempt
           /\ Over(x, pc).pc = pc /\ Over(x, pc).tab = x.tab
           /\ Over(x, pc).mounted = x.mounted /\ Over(x, pc).alive = x.alive
           /\ Over(x, pc).told = x.told
BY CartType DEF Over, Attempt

\* Leaving a page unmounts the checkouts of its tab, and changes nothing else.
LEMMA LeftFacts ==
    ASSUME TypeOK, NEW t \in Tabs
    PROVE  /\ Left(t) \in [Attempts -> Attempt]
           /\ \A a \in Attempts :
                 /\ attempt[a].tab # t => Left(t)[a] = attempt[a]
                 /\ attempt[a].tab = t => ~Left(t)[a].mounted
                 /\ Left(t)[a].pc = attempt[a].pc /\ Left(t)[a].tab = attempt[a].tab
                 /\ Left(t)[a].alive = attempt[a].alive /\ Left(t)[a].told = attempt[a].told
                 /\ Left(t)[a].mounted => attempt[a].mounted
BY DEF TypeOK, Left, Attempt

\* What each of the actions on a checkout of its own leaves it with.
LEMMA ServeFacts ==
    ASSUME TypeOK, NEW a \in Attempts, NEW pc \in Answering, NEW state \in OrderState,
           Serve(a, pc, state)
    PROVE  /\ attempt' \in [Attempts -> Attempt] /\ order' \in [Attempts -> OrderState]
           /\ \A b \in Attempts \ {a} : attempt'[b] = attempt[b] /\ order'[b] = order[b]
           /\ order'[a] = state
           /\ attempt'[a].tab = attempt[a].tab /\ attempt'[a].alive = attempt[a].alive
           /\ attempt'[a].mounted = attempt[a].mounted
           /\ attempt'[a].told = attempt[a].told
           /\ attempt'[a].pc = IF attempt[a].alive THEN pc ELSE "failed"
           /\ UNCHANGED <<stored, cart, page, loading, history>>
<1>1. attempt[a] \in Attempt
  BY DEF TypeOK
<1>2. /\ attempt' = [attempt EXCEPT ![a] = attempt'[a]]
      /\ attempt'[a] = IF attempt[a].alive THEN [attempt[a] EXCEPT !.pc = pc]
                       ELSE Over(attempt[a], "failed")
  BY DEF Serve, TypeOK
<1>3. CASE attempt[a].alive
  <2>1. attempt'[a] = [attempt[a] EXCEPT !.pc = pc]
    BY <1>2, <1>3
  <2>2. /\ attempt'[a] \in Attempt /\ attempt'[a].pc = pc
        /\ attempt'[a].tab = attempt[a].tab /\ attempt'[a].alive = attempt[a].alive
        /\ attempt'[a].mounted = attempt[a].mounted /\ attempt'[a].told = attempt[a].told
    BY <1>1, <2>1 DEF Attempt
  <2>3. QED BY <1>2, <1>3, <2>2 DEF Serve, TypeOK
<1>4. CASE ~attempt[a].alive
  <2>1. attempt'[a] = Over(attempt[a], "failed")
    BY <1>2, <1>4
  <2>2. QED BY <1>1, <1>2, <1>4, <2>1, OverFacts DEF Serve, TypeOK
<1>5. QED BY <1>3, <1>4

\* A checkout that failed is over, and told so if its page was there.
LEMMA FailFacts ==
    ASSUME TypeOK, NEW a \in Attempts, Fail(a)
    PROVE  /\ attempt' \in [Attempts -> Attempt]
           /\ \A b \in Attempts \ {a} : attempt'[b] = attempt[b]
           /\ attempt'[a].tab = attempt[a].tab /\ attempt'[a].pc = "failed"
           /\ attempt'[a].mounted = attempt[a].mounted
           /\ attempt'[a].told = attempt[a].mounted
           /\ ~attempt'[a].alive
<1> DEFINE x == [attempt[a] EXCEPT !.told = attempt[a].mounted, !.alive = FALSE]
<1>1. /\ x \in Attempt /\ x.tab = attempt[a].tab /\ ~x.alive
      /\ x.mounted = attempt[a].mounted /\ x.told = attempt[a].mounted
  BY DEF TypeOK, Attempt
<1>2. attempt' = [attempt EXCEPT ![a] = Over(x, "failed")]
  BY DEF Fail
<1> HIDE DEF x
<1>3. QED BY <1>1, <1>2, OverFacts DEF TypeOK

\* A checkout that was paid for is over, and every other of its tab has lost
\* its page.
LEMMA FinishFacts ==
    ASSUME TypeOK, NEW a \in Attempts, Finish(a)
    PROVE  /\ attempt' \in [Attempts -> Attempt]
           /\ \A b \in Attempts \ {a} : attempt'[b] = Left(attempt[a].tab)[b]
           /\ attempt'[a].tab = attempt[a].tab /\ attempt'[a].pc = "done"
           /\ ~attempt'[a].alive /\ ~attempt'[a].mounted
<1> DEFINE t == attempt[a].tab
           l == Left(t)
           x == [l[a] EXCEPT !.alive = FALSE]
<1>1. t \in Tabs
  BY DEF TypeOK, Attempt
<1>2. attempt' = [l EXCEPT ![a] = Over(x, "done")]
  BY DEF Finish
<1>3. l \in [Attempts -> Attempt] /\ l[a].tab = t /\ ~l[a].mounted
  BY <1>1, LeftFacts
<1> HIDE DEF l
<1>4. x \in Attempt /\ ~x.alive /\ ~x.mounted /\ x.tab = t
  BY <1>3 DEF Attempt
<1> HIDE DEF x
<1>5. QED BY <1>2, <1>3, <1>4, OverFacts DEF l

\* A reload leaves every checkout of its tab without a tab and a page, and ends
\* those whose answer nobody waits for any more.
LEMMA ReloadFacts ==
    ASSUME TypeOK, NEW t \in Tabs, Reload(t)
    PROVE  /\ attempt' \in [Attempts -> Attempt]
           /\ \A a \in Attempts :
                 \/ attempt'[a] = attempt[a] /\ (attempt[a].tab # t \/ ~attempt[a].alive)
                 \/ /\ attempt[a].tab = t /\ attempt[a].alive
                    /\ ~attempt'[a].alive /\ ~attempt'[a].mounted
                    /\ attempt'[a].pc \in {attempt[a].pc, "failed"}
<1> SUFFICES ASSUME NEW a \in Attempts
             PROVE  /\ attempt'[a] \in Attempt
                    /\ \/ /\ attempt'[a] = attempt[a]
                          /\ attempt[a].tab # t \/ ~attempt[a].alive
                       \/ /\ attempt[a].tab = t /\ attempt[a].alive
                          /\ ~attempt'[a].alive /\ ~attempt'[a].mounted
                          /\ attempt'[a].pc \in {attempt[a].pc, "failed"}
  BY DEF Reload
<1> DEFINE x == [Left(t)[a] EXCEPT !.alive = FALSE]
<1>1. attempt'[a] = IF attempt[a].tab # t \/ ~attempt[a].alive THEN attempt[a]
                    ELSE IF x.pc \in Answering THEN Over(x, "failed") ELSE x
  BY DEF Reload
<1>2. /\ x \in Attempt /\ ~x.alive /\ x.pc = attempt[a].pc
      /\ attempt[a].tab = t => ~x.mounted
  <2> DEFINE l == Left(t)[a]
  <2>1. l \in Attempt /\ l.pc = attempt[a].pc /\ (attempt[a].tab = t => ~l.mounted)
    BY LeftFacts
  <2> HIDE DEF l
  <2>2. [l EXCEPT !.alive = FALSE] \in Attempt /\ ~[l EXCEPT !.alive = FALSE].alive
    BY <2>1 DEF Attempt
  <2>3. /\ [l EXCEPT !.alive = FALSE].pc = l.pc
        /\ [l EXCEPT !.alive = FALSE].mounted = l.mounted
    BY <2>1 DEF Attempt
  <2>4. QED BY <2>1, <2>2, <2>3 DEF l
<1> HIDE DEF x
<1>3. attempt[a] \in Attempt
  BY DEF TypeOK
<1>4. QED BY <1>1, <1>2, <1>3, OverFacts

-----------------------------------------------------------------------------
(* The conjuncts of the invariant, one lemma each.                         *)

\* A cart that is written has the quantities it may have, and is as the
\* customer means it unless the carts had run into one of the cases.
LEMMA WriteStep ==
    ASSUME TypeOK, CartIsAsked, NEW t \in Tabs, NEW p \in Products,
           NEW n \in 0..MaxQuantity, NEW w \in Cart,
           w = [asked EXCEPT ![p] = n],
           Write(t, [cart[t] EXCEPT ![p] = n], w)
    PROVE  TypeOK' /\ CartIsAsked'
<1> DEFINE c == [cart[t] EXCEPT ![p] = n]
<1>1. c \in Cart
  BY CartType DEF TypeOK
<1>2. /\ cart' = [cart EXCEPT ![t] = c] /\ stored' = c
      /\ disturbed' = (disturbed \/ cart[t] # stored)
      /\ asked' = IF disturbed' THEN Empty ELSE w
      /\ UNCHANGED <<page, loading, attempt, order>>
  BY DEF Write
<1>3. ~disturbed' => c = w
  BY <1>2 DEF CartIsAsked
<1> HIDE DEF c
<1>4. asked' \in Cart
  BY <1>2, CartType
<1>5. TypeOK'
  BY <1>1, <1>2, <1>4 DEF TypeOK
<1>6. CartIsAsked'
  BY <1>2, <1>3 DEF CartIsAsked
<1>7. QED BY <1>5, <1>6

\* The types and the cart, one step per action.
LEMMA CartStep == TypeOK /\ CartIsAsked /\ [Next]_vars => TypeOK' /\ CartIsAsked'
<1> SUFFICES ASSUME TypeOK, CartIsAsked, [Next]_vars PROVE TypeOK' /\ CartIsAsked'
  OBVIOUS
<1>1. ASSUME NEW t \in Tabs, NEW p \in Products, NEW n \in 1..MaxQuantity, AddItem(t, p, n)
      PROVE  TypeOK' /\ CartIsAsked'
  <2> DEFINE w == [asked EXCEPT ![p] = @ + n]
             m == cart[t][p] + n
  <2>1. Write(t, [cart[t] EXCEPT ![p] = m], w)
    BY <1>1 DEF AddItem
  <2>2. asked \in Cart /\ cart[t] \in Cart
    BY DEF TypeOK
  <2>3. m \in 0..MaxQuantity /\ asked[p] + n \in 0..MaxQuantity
    BY <1>1, <2>2 DEF AddItem, Cart
  <2>4. w \in Cart
    BY <2>2, <2>3, CartType
  <2>5. CASE cart[t] = stored /\ ~disturbed
    BY <2>1, <2>3, <2>4, <2>5, WriteStep DEF CartIsAsked
  <2>6. CASE ~(cart[t] = stored /\ ~disturbed)
    <3> DEFINE v == [asked EXCEPT ![p] = m]
    <3>1. Write(t, [cart[t] EXCEPT ![p] = m], v)
      BY <2>1, <2>6 DEF Write
    <3>2. v \in Cart
      BY <2>2, <2>3, CartType
    <3>3. QED BY <2>3, <3>1, <3>2, WriteStep
  <2>7. QED BY <2>5, <2>6
<1>2. ASSUME NEW t \in Tabs, NEW p \in Products, NEW q \in 0..MaxQuantity,
             UpdateQuantity(t, p, q)
      PROVE  TypeOK' /\ CartIsAsked'
  <2> DEFINE kept == IF q < 1 THEN 1 ELSE q
             w == [asked EXCEPT ![p] = kept]
  <2>1. Write(t, [cart[t] EXCEPT ![p] = kept], w)
    BY <1>2 DEF UpdateQuantity
  <2>2. kept \in 0..MaxQuantity
    OBVIOUS
  <2> HIDE DEF kept
  <2>3. w \in Cart
    BY <2>2, CartType DEF TypeOK
  <2>4. QED BY <2>1, <2>2, <2>3, WriteStep
<1>3. ASSUME NEW t \in Tabs, NEW p \in Products, RemoveItem(t, p)
      PROVE  TypeOK' /\ CartIsAsked'
  <2>1. 0 \in 0..MaxQuantity /\ [asked EXCEPT ![p] = 0] \in Cart
    BY CartType DEF TypeOK
  <2>2. QED BY <1>3, <2>1, WriteStep DEF RemoveItem
<1>4. ASSUME NEW t \in Tabs, NEW p \in Pages, Go(t, p)
      PROVE  TypeOK' /\ CartIsAsked'
  BY <1>4, LeftFacts DEF Go, TypeOK, CartIsAsked, history
<1>5. ASSUME NEW t \in Tabs, Reload(t)
      PROVE  TypeOK' /\ CartIsAsked'
  BY <1>5, ReloadFacts DEF Reload, TypeOK, CartIsAsked, history
<1>6. ASSUME NEW t \in Tabs, SwitchCustomer(t)
      PROVE  TypeOK' /\ CartIsAsked'
  BY <1>6, LeftFacts, CartType DEF SwitchCustomer, TypeOK, CartIsAsked, Pages
<1>7. ASSUME NEW t \in Tabs, NEW a \in Attempts, Checkout(t, a)
      PROVE  TypeOK' /\ CartIsAsked'
  <2> DEFINE x == [pc |-> "create", tab |-> t, items |-> cart[t],
                   mounted |-> TRUE, alive |-> TRUE, told |-> FALSE]
  <2>1. x \in Attempt
    BY DEF TypeOK, Attempt, Asking
  <2> HIDE DEF x
  <2>2. attempt' = [attempt EXCEPT ![a] = x]
    BY <1>7 DEF Checkout, x
  <2>3. attempt' \in [Attempts -> Attempt]
    BY <2>1, <2>2 DEF TypeOK
  <2>4. QED BY <1>7, <2>3 DEF Checkout, TypeOK, CartIsAsked, history
<1>8. ASSUME NEW a \in Attempts, CreateOrder(a) \/ CreatePayment(a)
      PROVE  TypeOK' /\ CartIsAsked'
  <2>1. PICK pc \in Answering, state \in OrderState : Serve(a, pc, state)
    BY <1>8 DEF CreateOrder, CreatePayment, Answering, OrderState, TypeOK
  <2>2. QED BY <2>1, ServeFacts DEF TypeOK, CartIsAsked, history
<1>9. ASSUME NEW a \in Attempts, PayOrder(a)
      PROVE  TypeOK' /\ CartIsAsked'
  <2>1. [attempt[a] EXCEPT !.pc = "pay"] \in Attempt
    BY DEF TypeOK, Attempt, Asking
  <2>2. attempt' \in [Attempts -> Attempt]
    BY <1>9, <2>1 DEF PayOrder, TypeOK
  <2>3. QED BY <1>9, <2>2 DEF PayOrder, TypeOK, CartIsAsked, history
<1>10. ASSUME NEW a \in Attempts, Finish(a)
       PROVE  TypeOK' /\ CartIsAsked'
  <2>1. attempt[a].tab \in Tabs
    BY DEF TypeOK, Attempt
  <2>2. QED BY <1>10, <2>1, FinishFacts, CartType DEF Finish, TypeOK, CartIsAsked, Pages
<1>11. ASSUME NEW a \in Attempts, Fail(a)
       PROVE  TypeOK' /\ CartIsAsked'
  <2>1. attempt[a].tab \in Tabs /\ attempt[a].mounted \in BOOLEAN
    BY DEF TypeOK, Attempt
  <2>2. QED BY <1>11, <2>1, FailFacts DEF Fail, TypeOK, CartIsAsked, history
<1>12. CASE UNCHANGED vars
  BY <1>12 DEF vars, history, TypeOK, CartIsAsked
<1>13. QED
  BY <1>1, <1>2, <1>3, <1>4, <1>5, <1>6, <1>7, <1>8, <1>9, <1>10, <1>11, <1>12 DEF Next

\* A tab whose button is enabled has no checkout open, however it came to be
\* enabled; no step opens a second one or closes one it does not own.
LEMMA OpenStep ==
    TypeOK /\ (\A t \in Tabs : OneOpen(t)) /\ [Next]_vars => \A t \in Tabs : OneOpen(t)'
<1> SUFFICES ASSUME TypeOK, \A t \in Tabs : OneOpen(t), [Next]_vars, NEW u \in Tabs
             PROVE  OneOpen(u)'
  OBVIOUS
<1>1. OneOpen(u)
  OBVIOUS
<1>2. ASSUME loading'[u] = loading[u],
             \A a \in Attempts : Open(a, u)' <=> Open(a, u)
      PROVE  OneOpen(u)'
  BY <1>1, <1>2 DEF OneOpen
<1>3. ASSUME ~loading'[u], \A a \in Attempts : ~Open(a, u)'
      PROVE  OneOpen(u)'
  BY <1>3 DEF OneOpen
<1>4. ASSUME NEW t \in Tabs, attempt' = Left(t), loading' = [loading EXCEPT ![t] = FALSE]
      PROVE  OneOpen(u)'
  <2>1. CASE u = t
    BY <1>3, <1>4, <2>1, LeftFacts DEF TypeOK, Open, Running
  <2>2. CASE u # t
    BY <1>2, <1>4, <2>2, LeftFacts DEF TypeOK, Open, Running
  <2>3. QED BY <2>1, <2>2
<1>5. ASSUME NEW t \in Tabs, Reload(t) PROVE OneOpen(u)'
  <2>1. CASE u = t
    <3>1. ~loading'[u]
      BY <1>5, <2>1 DEF Reload, TypeOK
    <3>2. \A a \in Attempts : ~Open(a, u)'
      BY <1>5, <2>1, ReloadFacts DEF Open, Running
    <3>3. QED BY <1>3, <3>1, <3>2
  <2>2. CASE u # t
    <3>1. loading'[u] = loading[u]
      BY <1>5, <2>2 DEF Reload, TypeOK
    <3>2. \A a \in Attempts : Open(a, u)' <=> Open(a, u)
      <4> SUFFICES ASSUME NEW a \in Attempts PROVE Open(a, u)' <=> Open(a, u)
        OBVIOUS
      <4>1. CASE attempt'[a] = attempt[a]
        BY <4>1 DEF Open, Running
      <4>2. CASE attempt[a].tab = t /\ ~attempt'[a].alive
        BY <2>2, <4>2 DEF Open, Running
      <4>3. QED BY <1>5, <4>1, <4>2, ReloadFacts
    <3>3. QED BY <1>2, <3>1, <3>2
  <2>3. QED BY <2>1, <2>2
<1>6. ASSUME NEW t \in Tabs, NEW a \in Attempts, Checkout(t, a) PROVE OneOpen(u)'
  <2> DEFINE x == [pc |-> "create", tab |-> t, items |-> cart[t],
                   mounted |-> TRUE, alive |-> TRUE, told |-> FALSE]
  <2>1. /\ attempt' = [attempt EXCEPT ![a] = x] /\ loading' = [loading EXCEPT ![t] = TRUE]
        /\ ~loading[t] /\ attempt[a].pc = "idle"
    BY <1>6 DEF Checkout, Started
  <2>2. x.pc = "create" /\ x.tab = t /\ x.mounted /\ x.alive
    OBVIOUS
  <2> HIDE DEF x
  <2>3. /\ attempt'[a] = x
        /\ \A b \in Attempts \ {a} : attempt'[b] = attempt[b]
    BY <2>1 DEF TypeOK
  <2>4. /\ \A v \in Tabs : ~Open(a, v) /\ (Open(a, v)' <=> v = t)
        /\ \A b \in Attempts \ {a}, v \in Tabs : Open(b, v)' <=> Open(b, v)
    BY <2>1, <2>2, <2>3 DEF Open, Running, Asking, Answering
  <2>5. CASE u = t
    <3>1. loading'[u] /\ Open(a, u)'
      BY <2>1, <2>4, <2>5 DEF TypeOK
    <3>2. \A b \in Attempts \ {a} : ~Open(b, u)'
      BY <1>1, <2>1, <2>4, <2>5 DEF OneOpen
    <3>3. QED BY <3>1, <3>2 DEF OneOpen
  <2>6. CASE u # t
    <3>1. loading'[u] = loading[u]
      BY <2>1, <2>6 DEF TypeOK
    <3>2. \A b \in Attempts : Open(b, u)' <=> Open(b, u)
      BY <2>4, <2>6
    <3>3. QED BY <1>2, <3>1, <3>2
  <2>7. QED BY <2>5, <2>6
<1>7. ASSUME NEW a \in Attempts, CreateOrder(a) \/ CreatePayment(a) PROVE OneOpen(u)'
  <2>1. PICK pc \in Answering, state \in OrderState : Serve(a, pc, state)
    BY <1>7 DEF CreateOrder, CreatePayment, Answering, OrderState, TypeOK
  <2>2. attempt[a].pc \in Asking /\ pc \in Answering /\ loading' = loading
    BY <1>7, <2>1 DEF CreateOrder, CreatePayment, Asking, Serve
  <2>3. \A b \in Attempts : Open(b, u)' <=> Open(b, u)
    BY <2>1, <2>2, ServeFacts DEF Open, Running
  <2>4. QED BY <1>2, <2>2, <2>3
<1>8. ASSUME NEW a \in Attempts, PayOrder(a) PROVE OneOpen(u)'
  <2> DEFINE x == [attempt[a] EXCEPT !.pc = "pay"]
  <2>1. /\ x.pc = "pay" /\ x.alive = attempt[a].alive /\ x.mounted = attempt[a].mounted
        /\ x.tab = attempt[a].tab
    BY DEF TypeOK, Attempt
  <2> HIDE DEF x
  <2>2. /\ attempt'[a] = x /\ \A b \in Attempts \ {a} : attempt'[b] = attempt[b]
        /\ attempt[a].pc = "created" /\ loading' = loading
    BY <1>8 DEF PayOrder, TypeOK, x
  <2>3. \A b \in Attempts : Open(b, u)' <=> Open(b, u)
    BY <2>1, <2>2 DEF Open, Running, Asking, Answering
  <2>4. QED BY <1>2, <2>2, <2>3
<1>9. ASSUME NEW a \in Attempts, Finish(a) PROVE OneOpen(u)'
  <2> DEFINE t == attempt[a].tab
  <2>1. PICK v \in Tabs : v = t
    BY DEF TypeOK, Attempt
  <2>2. loading' = [loading EXCEPT ![v] = FALSE]
    BY <1>9, <2>1 DEF Finish
  <2>3. /\ ~attempt'[a].alive
        /\ \A b \in Attempts \ {a} : attempt'[b] = Left(v)[b]
    BY <1>9, <2>1, FinishFacts
  <2>4. CASE u = v
    <3>1. ~loading'[u]
      BY <2>2, <2>4 DEF TypeOK
    <3>2. ~Open(a, u)'
      BY <2>3 DEF Open, Running
    <3>3. \A b \in Attempts \ {a} : ~Open(b, u)'
      BY <2>3, <2>4, LeftFacts DEF Open
    <3>4. QED BY <1>3, <3>1, <3>2, <3>3
  <2>5. CASE u # v
    <3>1. ~Open(a, u) /\ ~Open(a, u)'
      BY <2>1, <2>3, <2>5 DEF Open, Running
    <3>2. \A b \in Attempts \ {a} : Open(b, u)' <=> Open(b, u)
      BY <2>3, <2>5, LeftFacts DEF Open, Running
    <3>3. QED BY <1>2, <2>2, <2>5, <3>1, <3>2 DEF TypeOK
  <2>6. QED BY <2>4, <2>5
<1>10. ASSUME NEW a \in Attempts, Fail(a) PROVE OneOpen(u)'
  <2>1. PICK v \in Tabs : v = attempt[a].tab
    BY DEF TypeOK, Attempt
  <2>2. /\ loading' = [loading EXCEPT ![v] = loading[v] /\ ~attempt[a].mounted]
        /\ Running(a)
    BY <1>10, <2>1 DEF Fail
  <2>3. /\ \A b \in Attempts \ {a} : Open(b, u)' <=> Open(b, u)
        /\ ~Open(a, u)'
    BY <1>10, FailFacts DEF Open, Running
  <2>4. CASE Open(a, u)
    <3>1. u = v /\ attempt[a].mounted
      BY <2>1, <2>4 DEF Open
    <3>2. ~loading'[u]
      BY <2>2, <3>1 DEF TypeOK
    <3>3. \A b \in Attempts \ {a} : ~Open(b, u)
      BY <1>1, <2>4 DEF OneOpen
    <3>4. QED BY <1>3, <2>3, <3>2, <3>3
  <2>5. CASE ~Open(a, u)
    <3>1. u # v \/ ~attempt[a].mounted
      BY <2>1, <2>2, <2>5 DEF Open
    <3>2. loading[v] \in BOOLEAN /\ loading'[u] = loading[u]
      BY <2>2, <3>1 DEF TypeOK
    <3>3. QED BY <1>2, <2>3, <2>5, <3>2
  <2>6. QED BY <2>4, <2>5
<1>11. CASE UNCHANGED <<attempt, loading>>
  BY <1>2, <1>11 DEF Open, Running
<1>12. QED
  BY <1>4, <1>5, <1>6, <1>7, <1>8, <1>9, <1>10, <1>11
     DEF Next, vars, Go, SwitchCustomer, AddItem, UpdateQuantity, RemoveItem, Write

\* What is known of a checkout stays known: its order changes only while its
\* tab waits or is gone.
LEMMA KnownStep ==
    TypeOK /\ (\A a \in Attempts : Known(a)) /\ [Next]_vars
        => \A a \in Attempts : Known(a)'
<1> SUFFICES ASSUME TypeOK, \A a \in Attempts : Known(a), [Next]_vars, NEW b \in Attempts
             PROVE  Known(b)'
  OBVIOUS
<1>1. Known(b)
  OBVIOUS
<1>2. ASSUME order'[b] = order[b], attempt'[b].pc = attempt[b].pc,
             attempt'[b].alive = attempt[b].alive, attempt'[b].told = attempt[b].told,
             attempt'[b].mounted => attempt[b].mounted
      PROVE  Known(b)'
  BY <1>1, <1>2 DEF Known, Running
<1>3. ASSUME order'[b] = order[b], ~attempt'[b].mounted,
             attempt'[b].pc \in {"payable", "done"} => order[b] = "payable"
      PROVE  Known(b)'
  BY <1>3 DEF Known
<1>4. ASSUME NEW t \in Tabs, attempt' = Left(t), order' = order PROVE Known(b)'
  BY <1>2, <1>4, LeftFacts
<1>5. ASSUME NEW t \in Tabs, Reload(t) PROVE Known(b)'
  <2>1. order' = order
    BY <1>5 DEF Reload
  <2>2. CASE attempt'[b] = attempt[b]
    BY <1>2, <2>1, <2>2
  <2>3. CASE /\ ~attempt'[b].mounted
             /\ attempt'[b].pc \in {attempt[b].pc, "failed"}
    BY <1>1, <1>3, <2>1, <2>3 DEF Known
  <2>4. QED BY <1>5, <2>2, <2>3, ReloadFacts
<1>6. ASSUME NEW t \in Tabs, NEW a \in Attempts, Checkout(t, a) PROVE Known(b)'
  <2> DEFINE x == [pc |-> "create", tab |-> t, items |-> cart[t],
                   mounted |-> TRUE, alive |-> TRUE, told |-> FALSE]
  <2>1. /\ attempt' = [attempt EXCEPT ![a] = x] /\ order' = order
        /\ x.pc = "create" /\ x.alive
    BY <1>6 DEF Checkout
  <2> HIDE DEF x
  <2>2. attempt'[a] = x /\ (b # a => attempt'[b] = attempt[b])
    BY <2>1 DEF TypeOK
  <2>3. CASE b = a
    BY <2>1, <2>2, <2>3 DEF Known, Running, Asking, Answering
  <2>4. CASE b # a
    BY <1>2, <2>1, <2>2, <2>4
  <2>5. QED BY <2>3, <2>4
<1>7. ASSUME NEW a \in Attempts, CreateOrder(a) \/ CreatePayment(a) PROVE Known(b)'
  <2>1. PICK pc \in Answering, state \in OrderState :
          /\ Serve(a, pc, state) /\ (pc = "payable" => state = "payable")
    BY <1>7 DEF CreateOrder, CreatePayment, Answering, OrderState, TypeOK
  <2>2. CASE b # a
    BY <1>2, <2>1, <2>2, ServeFacts
  <2>3. CASE b = a
    <3>1. /\ attempt'[b].alive = attempt[b].alive
          /\ attempt'[b].mounted = attempt[b].mounted
          /\ attempt'[b].pc = (IF attempt[b].alive THEN pc ELSE "failed")
          /\ order'[b] = state
      BY <2>1, <2>3, ServeFacts
    <3>2. attempt[b].pc \in Asking
      BY <1>7, <2>3 DEF CreateOrder, CreatePayment, Asking
    <3>3. CASE attempt[b].alive
      BY <2>1, <3>1, <3>3 DEF Known, Running, Answering
    <3>4. CASE ~attempt[b].alive
      <4>1. ~attempt'[b].mounted /\ attempt'[b].pc = "failed"
        BY <1>1, <3>1, <3>2, <3>4 DEF Known
      <4>2. QED BY <4>1 DEF Known, Asking, Answering
    <3>5. QED BY <3>3, <3>4
  <2>4. QED BY <2>2, <2>3
<1>8. ASSUME NEW a \in Attempts, PayOrder(a) PROVE Known(b)'
  <2> DEFINE x == [attempt[a] EXCEPT !.pc = "pay"]
  <2>1. x.pc = "pay" /\ x.alive = attempt[a].alive
    BY DEF TypeOK, Attempt
  <2> HIDE DEF x
  <2>2. /\ attempt'[a] = x /\ (b # a => attempt'[b] = attempt[b])
        /\ attempt[a].alive /\ order' = order
    BY <1>8 DEF PayOrder, Running, TypeOK, x
  <2>3. CASE b = a
    BY <2>1, <2>2, <2>3 DEF Known, Running, Asking
  <2>4. CASE b # a
    BY <1>2, <2>2, <2>4
  <2>5. QED BY <2>3, <2>4
<1>9. ASSUME NEW a \in Attempts, Finish(a) PROVE Known(b)'
  <2>1. attempt[a].tab \in Tabs /\ order' = order /\ attempt[a].pc = "payable"
    BY <1>9 DEF TypeOK, Attempt, Finish
  <2>2. CASE b = a
    BY <1>1, <1>3, <1>9, <2>1, <2>2, FinishFacts DEF Known
  <2>3. CASE b # a
    <3>1. attempt'[b] = Left(attempt[a].tab)[b]
      BY <1>9, <2>3, FinishFacts
    <3>2. QED BY <1>2, <2>1, <3>1, LeftFacts
  <2>4. QED BY <2>2, <2>3
<1>10. ASSUME NEW a \in Attempts, Fail(a) PROVE Known(b)'
  <2>1. order' = order
    BY <1>10 DEF Fail
  <2>2. CASE b = a
    BY <1>10, <2>1, <2>2, FailFacts DEF Known, Asking, Answering
  <2>3. CASE b # a
    BY <1>2, <1>10, <2>1, <2>3, FailFacts
  <2>4. QED BY <2>2, <2>3
<1>11. CASE UNCHANGED <<attempt, order>>
  BY <1>2, <1>11
<1>12. QED
  BY <1>4, <1>5, <1>6, <1>7, <1>8, <1>9, <1>10, <1>11
     DEF Next, vars, Go, SwitchCustomer, AddItem, UpdateQuantity, RemoveItem, Write

-----------------------------------------------------------------------------

\* Nothing is in the cart and nothing is under way.
LEMMA InitInv == Init => CheckoutInv
<1> SUFFICES ASSUME Init PROVE CheckoutInv
  OBVIOUS
<1> DEFINE x == [pc |-> "idle", tab |-> CHOOSE t \in Tabs : TRUE, items |-> Empty,
                 mounted |-> FALSE, alive |-> FALSE, told |-> FALSE]
<1>1. x \in Attempt
  BY CartType DEF Attempt
<1>2. ~x.alive /\ ~x.mounted /\ x.pc = "idle"
  OBVIOUS
<1> HIDE DEF x
<1>3. \A a \in Attempts : attempt[a] = x
  BY DEF Init, x
<1>4. attempt \in [Attempts -> Attempt]
  BY <1>1 DEF Init, x
<1>5. TypeOK /\ CartIsAsked
  BY <1>4, CartType DEF Init, TypeOK, CartIsAsked, OrderState, Pages
<1>6. \A t \in Tabs : OneOpen(t)
  BY <1>2, <1>3 DEF Init, OneOpen, Open, Running
<1>7. \A a \in Attempts : Known(a)
  BY <1>2, <1>3 DEF Init, Known
<1>8. QED BY <1>5, <1>6, <1>7 DEF CheckoutInv

\* The checkouts open in a tab are one or none, and so is their number.
LEMMA OpenCount ==
    ASSUME NEW t \in Tabs, OneOpen(t)
    PROVE  Cardinality({a \in Attempts : Open(a, t)}) = IF loading[t] THEN 1 ELSE 0
<1>1. CASE loading[t]
  <2>1. PICK a \in Attempts : Open(a, t) /\ \A b \in Attempts \ {a} : ~Open(b, t)
    BY <1>1 DEF OneOpen
  <2>2. {b \in Attempts : Open(b, t)} = {a}
    BY <2>1
  <2>3. QED BY <1>1, <2>2, FS_Singleton
<1>2. CASE ~loading[t]
  <2>1. {b \in Attempts : Open(b, t)} = {}
    BY <1>2 DEF OneOpen
  <2>2. QED BY <1>2, <2>1, FS_EmptySet
<1>3. QED BY <1>1, <1>2

\* Every reachable state satisfies the inductive invariant.
THEOREM ShopInvariant == Spec => []CheckoutInv
<1>1. CheckoutInv /\ [Next]_vars => CheckoutInv'
  BY CartStep, OpenStep, KnownStep DEF CheckoutInv
<1>2. QED BY <1>1, InitInv, PTL DEF Spec

\* The state is well formed, and no page, whatever the user does with the
\* buttons and the address bar, has two checkouts under way.
THEOREM CheckoutsPlacedOnce == Spec => []ShopInv
<1>1. CheckoutInv => ShopInv
  <2> SUFFICES ASSUME CheckoutInv PROVE PlacedOnce
    BY DEF CheckoutInv, ShopInv
  <2>1. ASSUME NEW t \in Tabs
        PROVE  Cardinality({a \in Attempts : Open(a, t)}) = IF loading[t] THEN 1 ELSE 0
    BY OpenCount DEF CheckoutInv
  <2>2. QED BY <2>1 DEF PlacedOnce, Open
<1>2. QED BY <1>1, ShopInvariant, PTL

\* The stored cart is what its customer asked for and did not order, but for
\* the three named ways in which tabs and checkouts overwrite each other.
THEOREM StoredCartIsAsked == Spec => []CartIsAsked
BY ShopInvariant, PTL DEF CheckoutInv

\* A cart is emptied only for an order that can be paid, and an order whose
\* cart remains was told to have failed or was left by its customer.
THEOREM CheckoutOutcomeIsKnown == Spec => []OutcomeIsKnown
<1>1. CheckoutInv => OutcomeIsKnown
  BY DEF CheckoutInv, OutcomeIsKnown, Known
<1>2. QED BY <1>1, ShopInvariant, PTL
=============================================================================
