------------------------------ MODULE StockProofs ------------------------------
(***************************************************************************)
(* Proofs about the module Stock, for any number of requests, products and *)
(* orders, and orders of any length.  The inductive invariant says where a *)
(* request may be in its order, what its copy of a product and its checks  *)
(* are still worth, and what an order that nobody disturbed holds.         *)
(***************************************************************************)
EXTENDS Stock, TLAPS

-----------------------------------------------------------------------------
(* The invariant.                                                          *)

\* Where a request is in its order, and what the order's rows look like then.
Place(l) ==
    IF l.pc = "idle" THEN l.order = NoOrder
    ELSE /\ l.order \in Orders
         /\ l.line \in Lines(l.order)
         /\ l.pc \in {"check", "insertOrder"} =>
               order[l.order] = "none" /\ items[l.order] = 0
         /\ l.pc = "insertOrder" => l.line = 1
         /\ l.pc \notin {"check", "insertOrder"} => order[l.order] # "none"
         /\ l.pc = "insertItem" => items[l.order] = l.line - 1
         /\ l.pc \in {"readTake", "saveTake"} => items[l.order] = l.line
         /\ l.pc \in {"readBack", "saveBack"} =>
               l.line <= l.last /\ l.last <= Len(Items[l.order])
         /\ l.pc \in {"saveTake", "saveBack"} => l.product = Product(l.order, l.line)

OneCreator ==
    \A q, z \in Requests :
        req[q].pc \in Creating /\ req[z].pc \in Creating /\ req[q].order = req[z].order => q = z

Unborn == \A o \in Orders : order[o] = "none" => items[o] = 0 /\ held[o] = 0

Places == (\A q \in Requests : Place(req[q])) /\ OneCreator /\ Unborn

\* A copy that is not out of date is the row, and no copy is of negative stock.
Copy(l) ==
    l.pc \in {"saveTake", "saveBack"} =>
        /\ ~l.old => l.copy = stock[l.product]
        /\ l.pc = "saveTake" /\ l.old => l.line \in l.stale
        /\ l.copy >= 0 \/ l.product \in contested

Copies == \A q \in Requests : Copy(req[q])

\* A line that was checked and has still to be taken is covered by the stock,
\* unless its product was saved since.
Pending(l) == {i \in Lines(l.order) : IF l.pc = "check" THEN i < l.line ELSE i >= l.line}

Covered(l) ==
    l.pc \in Creating =>
        \A i \in Pending(l) \ l.stale : stock[Product(l.order, i)] >= Quantity(l.order, i)

Checks == \A q \in Requests : Covered(req[q])

\* What an order nobody disturbed holds, while a request is at it and after.
HeldBy(l, o) ==
    /\ order[o] # "none" => order[o] = "pending"
    /\ l.pc \in {"insertItem", "readTake", "saveTake"} => held[o] = l.line - 1
    /\ l.pc \in {"readBack", "saveBack"} =>
          l.last = Len(Items[o]) /\ held[o] = Len(Items[o]) - (l.line - 1)
    /\ l.pc = "saveCancelled" => held[o] = 0
    /\ l.pc \in Cancelling => items[o] = Len(Items[o])

OneHandler == \A q, z \in Requests :
    req[q].order \in Orders \ disturbed /\ req[z].order = req[q].order => q = z

Holdings ==
    /\ \A o \in Orders : order[o] \in {"none", "pending"} => o \notin lapsed
    /\ OneHandler
    /\ \A q \in Requests : req[q].order \in Orders \ disturbed => HeldBy(req[q], req[q].order)
    /\ \A o \in Orders \ disturbed :
          order[o] # "none" /\ ~Busy(o) => items[o] = Len(Items[o])
    /\ HeldExactly

StockInv ==
    /\ TypeOK
    /\ Places
    /\ Copies
    /\ Checks
    /\ OversoldOnlyAfterOldCheck
    /\ StockBooks
    /\ Holdings

-----------------------------------------------------------------------------
(* How a step changes the local variables of the requests.                 *)

\* Of q's record only the history grows.
Same(q) ==
    /\ req'[q].pc = req[q].pc
    /\ req'[q].order = req[q].order
    /\ req'[q].line = req[q].line
    /\ req'[q].last = req[q].last
    /\ req'[q].product = req[q].product
    /\ req'[q].copy = req[q].copy

\* A line of an order has a product and a quantity.
LEMMA LineTypes ==
    ASSUME NEW o \in Orders
    PROVE  /\ Len(Items[o]) \in Nat \ {0}
           /\ Lines(o) \subseteq Nat \ {0}
           /\ \A i \in Lines(o) : Product(o, i) \in Products /\ Quantity(o, i) \in Nat \ {0}
<1>1. Items[o] \in Seq([product : Products, quantity : Nat \ {0}]) /\ Len(Items[o]) > 0
  BY OrderAssumption
<1>2. Len(Items[o]) \in Nat \ {0} /\ Lines(o) \subseteq Nat \ {0}
  <2>1. Len(Items[o]) \in Nat
    BY <1>1
  <2>2. Len(Items[o]) \in Nat \ {0}
    BY <1>1, <2>1
  <2>3. QED BY <2>2 DEF Lines
<1>3. ASSUME NEW i \in Lines(o)
      PROVE  Items[o][i] \in [product : Products, quantity : Nat \ {0}]
  <2> DEFINE Item == [product : Products, quantity : Nat \ {0}]
  <2>1. Items[o] \in Seq(Item) /\ i \in 1 .. Len(Items[o])
    BY <1>1 DEF Lines
  <2> HIDE DEF Item
  <2>2. Items[o][i] \in Item
    BY <2>1
  <2>3. QED BY <2>2 DEF Item
<1>4. QED BY <1>2, <1>3 DEF Product, Quantity

\* The idle record is a record of a request.
LEMMA IdleRequest ==
    /\ Idle \in Request
    /\ Idle.pc = "idle" /\ Idle.order = NoOrder /\ Idle.line = 1
    /\ Idle.old = FALSE /\ Idle.stale = {}
<1>1. (CHOOSE p \in Products : TRUE) \in Products
  BY LevelAssumption
<1>2. QED BY <1>1 DEF Idle, Request

\* Become changes r's record alone.
LEMMA BecomeMoves ==
    ASSUME TypeOK, NEW r \in Requests, NEW new \in Request, Become(r, new)
    PROVE  /\ req' \in [Requests -> Request] /\ req'[r] = new
           /\ \A q \in Requests \ {r} : req'[q] = req[q]
  BY DEF TypeOK, Become

\* Outdating a record changes its history alone.
LEMMA OutdatedFields ==
    ASSUME NEW l \in Request, l.pc \in Creating => l.order \in Orders,
           NEW p \in Products, NEW byOther \in BOOLEAN
    PROVE  LET k == Outdated(l, p, byOther)
           IN  /\ k \in Request
               /\ k.pc = l.pc /\ k.order = l.order /\ k.line = l.line /\ k.last = l.last
               /\ k.product = l.product /\ k.copy = l.copy
               /\ k.old = (l.old \/ byOther)
               /\ k.stale = l.stale \cup StaleLines(p, l)
<1>1. StaleLines(p, l) \subseteq Nat
  BY LineTypes DEF StaleLines
<1>2. l.stale \cup StaleLines(p, l) \in SUBSET Nat /\ (l.old \/ byOther) \in BOOLEAN
  BY <1>1 DEF Request
<1> DEFINE S == StaleLines(p, l)
<1> HIDE DEF S
<1>3. Outdated(l, p, byOther) = [l EXCEPT !.old = @ \/ byOther, !.stale = @ \cup S]
  BY DEF Outdated, S
<1>4. l.stale \cup S \in SUBSET Nat
  BY <1>2 DEF S
<1>5. LET k == Outdated(l, p, byOther)
      IN  /\ k \in Request
          /\ k.pc = l.pc /\ k.order = l.order /\ k.line = l.line /\ k.last = l.last
          /\ k.product = l.product /\ k.copy = l.copy
          /\ k.old = (l.old \/ byOther)
          /\ k.stale = l.stale \cup S
  BY <1>2, <1>3, <1>4 DEF Request
<1>6. QED BY <1>5 DEF S

\* Saving a product leaves the others, and r's next record, where they are.
LEMMA SaveProductMoves ==
    ASSUME TypeOK, Places, NEW r \in Requests, NEW p \in Products, NEW level,
           NEW local \in Request, local.pc \in Creating => local.order \in Orders,
           SaveProduct(r, p, level, local)
    PROVE  /\ req' \in [Requests -> Request]
           /\ req'[r] = Outdated(local, p, FALSE)
           /\ \A q \in Requests \ {r} : req'[q] = Outdated(req[q], p, Holds(q, p)) /\ Same(q)
<1>1. ASSUME NEW q \in Requests
      PROVE  /\ req[q] \in Request /\ (req[q].pc \in Creating => req[q].order \in Orders)
             /\ Holds(q, p) \in BOOLEAN
  BY DEF TypeOK, Places, Place, Creating, Holds
<1>2. req' = [q \in Requests |-> IF q = r THEN Outdated(local, p, FALSE)
                                 ELSE Outdated(req[q], p, Holds(q, p))]
  BY DEF SaveProduct
<1>3. \A q \in Requests \ {r} : req'[q] = Outdated(req[q], p, Holds(q, p)) /\ Same(q)
                                /\ req'[q] \in Request
  BY <1>1, <1>2, OutdatedFields DEF Same
<1>4. req'[r] = Outdated(local, p, FALSE) /\ req'[r] \in Request
  BY <1>2, OutdatedFields
<1>5. QED BY <1>2, <1>3, <1>4

\* The seller's save outdates every request alike.
LEMMA UpdateProductMoves ==
    ASSUME TypeOK, Places, NEW p \in Products, NEW level, UpdateProduct(p, level)
    PROVE  /\ req' \in [Requests -> Request]
           /\ \A q \in Requests : req'[q] = Outdated(req[q], p, Holds(q, p)) /\ Same(q)
<1>1. ASSUME NEW q \in Requests
      PROVE  /\ req[q] \in Request /\ (req[q].pc \in Creating => req[q].order \in Orders)
             /\ Holds(q, p) \in BOOLEAN
  BY DEF TypeOK, Places, Place, Creating, Holds
<1>2. req' = [q \in Requests |-> Outdated(req[q], p, Holds(q, p))]
  BY DEF UpdateProduct
<1>3. \A q \in Requests : req'[q] = Outdated(req[q], p, Holds(q, p)) /\ Same(q)
                          /\ req'[q] \in Request
  BY <1>1, <1>2, OutdatedFields DEF Same
<1>4. QED BY <1>2, <1>3

-----------------------------------------------------------------------------
(* Where requests are.                                                     *)

\* Only the movers' places need to be looked at, if the others' orders keep
\* what the places speak of, and if no mover starts to create another's order.
LEMMA KeepPlaces ==
    ASSUME TypeOK, Places, NEW M \in SUBSET Requests,
           \A q \in Requests \ M : Same(q),
           \A q \in Requests \ M : req[q].pc # "idle" =>
               /\ order'[req[q].order] = "none" <=> order[req[q].order] = "none"
               /\ req[q].pc \in Creating => items'[req[q].order] = items[req[q].order],
           \A q, z \in M : q = z,
           \A q \in M : Place(req[q])',
           \A q \in M : req'[q].pc \in Creating =>
               \/ req[q].pc \in Creating /\ req[q].order = req'[q].order
               \/ \A z \in Requests \ M : req[z].order # req'[q].order,
           Unborn'
    PROVE  Places'
<1>1. ASSUME NEW q \in Requests \ M PROVE Place(req[q])'
  <2>1. Place(req[q]) /\ Same(q)
    BY DEF Places
  <2>2. CASE req[q].pc = "idle"
    BY <2>1, <2>2 DEF Place, Same
  <2>3. CASE req[q].pc # "idle"
    BY <2>1, <2>3 DEF Place, Same, Creating
  <2>4. QED BY <2>2, <2>3
<1>2. OneCreator'
  <2>1. ASSUME NEW q \in Requests, NEW z \in Requests, q \in M, z \notin M,
               req'[q].pc \in Creating, req'[z].pc \in Creating, req'[q].order = req'[z].order
        PROVE  FALSE
    BY <2>1 DEF Places, OneCreator, Same
  <2>2. ASSUME NEW q \in Requests, NEW z \in Requests, q \notin M, z \notin M,
               req'[q].pc \in Creating, req'[z].pc \in Creating, req'[q].order = req'[z].order
        PROVE  q = z
    BY <2>2 DEF Places, OneCreator, Same
  <2>3. QED BY <2>1, <2>2 DEF OneCreator
<1>3. QED BY <1>1, <1>2 DEF Places

\* The same for a step of one request.
LEMMA MoverPlaces ==
    ASSUME TypeOK, Places, NEW r \in Requests,
           \A q \in Requests \ {r} : Same(q),
           \A q \in Requests \ {r} : req[q].pc # "idle" =>
               /\ order'[req[q].order] = "none" <=> order[req[q].order] = "none"
               /\ req[q].pc \in Creating => items'[req[q].order] = items[req[q].order],
           \A q \in {r} : Place(req[q])',
           \A q \in {r} : req'[q].pc \in Creating =>
               \/ req[q].pc \in Creating /\ req[q].order = req'[q].order
               \/ \A z \in Requests \ {r} : req[z].order # req'[q].order,
           Unborn'
    PROVE  Places'
<1>1. {r} \in SUBSET Requests /\ \A q, z \in {r} : q = z
  OBVIOUS
<1>2. QED BY <1>1, KeepPlaces

-----------------------------------------------------------------------------
(* Copies, checks and books.                                               *)

\* A step that saves no product: only the movers' copies can be wrong.
LEMMA KeepStock ==
    ASSUME StockInv, NEW M \in SUBSET Requests,
           \A q \in Requests \ M : req'[q] = req[q],
           UNCHANGED <<stock, books, raced, contested>>,
           \A q \in M : Copy(req[q])' /\ Covered(req[q])'
    PROVE  Copies' /\ Checks' /\ OversoldOnlyAfterOldCheck' /\ StockBooks'
<1>1. \A q \in Requests \ M : Copy(req[q])'
  BY DEF StockInv, Copies, Copy
<1>2. \A q \in Requests \ M : Covered(req[q])'
  BY DEF StockInv, Checks, Covered, Pending
<1>3. OversoldOnlyAfterOldCheck' /\ StockBooks'
  BY DEF StockInv, OversoldOnlyAfterOldCheck, StockBooks
<1>4. QED BY <1>1, <1>2, <1>3 DEF Copies, Checks

\* A product that is saved outdates the copies and the checks of the others.
LEMMA OutdatedKeeps ==
    ASSUME StockInv, NEW p \in Products, NEW level, stock' = [stock EXCEPT ![p] = level],
           contested \subseteq contested',
           NEW q \in Requests, req'[q] = Outdated(req[q], p, Holds(q, p))
    PROVE  Copy(req[q])' /\ Covered(req[q])'
<1> DEFINE l == req[q]
<1> DEFINE k == Outdated(l, p, Holds(q, p))
<1>1. l \in Request /\ Place(l) /\ Copy(l) /\ Covered(l) /\ stock \in [Products -> Int]
  BY DEF StockInv, TypeOK, Places, Copies, Checks
<1>2. l.pc \in Creating => l.order \in Orders
  BY <1>1 DEF Place, Creating
<1>3. /\ k.pc = l.pc /\ k.order = l.order /\ k.line = l.line
      /\ k.product = l.product /\ k.copy = l.copy
      /\ k.old = (l.old \/ Holds(q, p)) /\ k.stale = l.stale \cup StaleLines(p, l)
  <2>1. Holds(q, p) \in BOOLEAN
    BY DEF Holds
  <2>2. QED BY <1>1, <1>2, <2>1, OutdatedFields
<1> HIDE DEF k
<1>4. \A z \in Products \ {p} : stock'[z] = stock[z]
  BY <1>1
<1>5. Copy(req[q])'
  <2> SUFFICES ASSUME l.pc \in {"saveTake", "saveBack"}
      PROVE  /\ ~k.old => k.copy = stock'[k.product]
             /\ l.pc = "saveTake" /\ k.old => k.line \in k.stale
             /\ k.copy >= 0 \/ k.product \in contested'
    BY <1>3 DEF Copy, k
  <2>1. /\ l.order \in Orders /\ l.line \in Lines(l.order)
        /\ l.product = Product(l.order, l.line) /\ l.product \in Products
    BY <1>1, LineTypes DEF Place
  <2>2. ~k.old => k.copy = stock'[k.product]
    BY <1>1, <1>3, <1>4, <2>1 DEF Copy, Holds
  <2>3. l.pc = "saveTake" /\ k.old => k.line \in k.stale
    <3>1. CASE l.old
      BY <1>1, <1>3, <3>1 DEF Copy
    <3>2. ASSUME Holds(q, p), l.pc = "saveTake" PROVE l.line \in StaleLines(p, l)
      <4>1. l.line >= l.line
        BY <1>1 DEF Request
      <4>2. QED BY <2>1, <3>2, <4>1 DEF StaleLines, Creating, Holds
    <3>3. QED BY <1>3, <3>1, <3>2
  <2>4. k.copy >= 0 \/ k.product \in contested'
    BY <1>1, <1>3 DEF Copy
  <2>5. QED BY <2>2, <2>3, <2>4
<1>6. Covered(req[q])'
  <2> SUFFICES ASSUME l.pc \in Creating, NEW i \in Pending(k) \ k.stale
      PROVE  stock'[Product(l.order, i)] >= Quantity(l.order, i)
    BY <1>3 DEF Covered, Pending, k
  <2>1. i \in Pending(l) \ l.stale /\ i \in Lines(l.order) /\ i \notin StaleLines(p, l)
    BY <1>3 DEF Pending
  <2>2. Product(l.order, i) \in Products \ {p}
    BY <1>2, <2>1, LineTypes DEF StaleLines, Pending
  <2>3. stock[Product(l.order, i)] >= Quantity(l.order, i)
    BY <1>1, <2>1 DEF Covered
  <2>4. QED BY <1>4, <2>2, <2>3
<1>7. QED BY <1>5, <1>6

-----------------------------------------------------------------------------
(* What orders hold.                                                       *)

\* What an undisturbed order holds once nobody is at it.
Quiet(o) ==
    order[o] # "none" /\ ~Busy(o) =>
        /\ items[o] = Len(Items[o])
        /\ held[o] = IF order[o] = "cancelled" /\ o \notin lapsed THEN 0 ELSE Len(Items[o])

\* The same, out of the invariant.
LEMMA HoldingsQuiet == Holdings => \A o \in Orders \ disturbed : Quiet(o)
  BY DEF Holdings, HeldExactly, Quiet

\* Undisturbed orders that a step neither changes nor leaves alone hold what
\* they held, and so do those at which somebody else is.
LEMMA KeepHoldings ==
    ASSUME StockInv, NEW M \in SUBSET Requests,
           \A q \in Requests \ M : Same(q),
           disturbed \subseteq disturbed',
           \A o \in Orders : order'[o] \in {"none", "pending"} => o \notin lapsed',
           \A q \in Requests \ M : req[q].order \in Orders \ disturbed' =>
               /\ order'[req[q].order] = order[req[q].order]
               /\ items'[req[q].order] = items[req[q].order]
               /\ held'[req[q].order] = held[req[q].order],
           \A q, z \in M : q = z,
           \A q \in M : req'[q].order \in Orders \ disturbed' =>
               /\ HeldBy(req[q], req[q].order)'
               /\ \A z \in Requests \ M : req[z].order # req'[q].order,
           \A o \in Orders \ disturbed' :
               \/ Quiet(o)'
               \/ /\ order'[o] = order[o] /\ items'[o] = items[o] /\ held'[o] = held[o]
                  /\ o \in lapsed' <=> o \in lapsed
                  /\ Busy(o) => Busy(o)'
    PROVE  Holdings'
<1>1. OneHandler'
  <2> SUFFICES ASSUME NEW q \in Requests, NEW z \in Requests,
                      req'[q].order \in Orders \ disturbed', req'[z].order = req'[q].order
      PROVE  q = z
    BY DEF OneHandler
  <2>1. CASE q \in M /\ z \in M
    BY <2>1
  <2>2. CASE q \in M /\ z \notin M
    BY <2>2 DEF Same
  <2>3. CASE q \notin M /\ z \in M
    BY <2>3 DEF Same
  <2>4. CASE q \notin M /\ z \notin M
    BY <2>4 DEF Same, StockInv, Holdings, OneHandler
  <2>5. QED BY <2>1, <2>2, <2>3, <2>4
<1>2. ASSUME NEW q \in Requests, req'[q].order \in Orders \ disturbed'
      PROVE  HeldBy(req[q], req[q].order)'
  <2>1. CASE q \in M
    BY <1>2, <2>1
  <2>2. CASE q \notin M
    <3>1. Same(q) /\ HeldBy(req[q], req[q].order)
      BY <1>2, <2>2 DEF Same, StockInv, Holdings
    <3>2. /\ order'[req[q].order] = order[req[q].order]
          /\ items'[req[q].order] = items[req[q].order]
          /\ held'[req[q].order] = held[req[q].order]
      BY <1>2, <2>2, <3>1 DEF Same
    <3>3. QED BY <3>1, <3>2 DEF HeldBy, Same
  <2>3. QED BY <2>1, <2>2
<1>3. ASSUME NEW o \in Orders \ disturbed' PROVE Quiet(o)'
  <2>1. Quiet(o)
    BY HoldingsQuiet DEF StockInv
  <2>2. QED BY <2>1 DEF Quiet
<1>4. QED BY <1>1, <1>2, <1>3 DEF Holdings, HeldExactly, Quiet

\* The same for a step of one request.
LEMMA MoverHoldings ==
    ASSUME StockInv, NEW r \in Requests,
           \A q \in Requests \ {r} : Same(q),
           disturbed \subseteq disturbed',
           \A o \in Orders : order'[o] \in {"none", "pending"} => o \notin lapsed',
           \A q \in Requests \ {r} : req[q].order \in Orders \ disturbed' =>
               /\ order'[req[q].order] = order[req[q].order]
               /\ items'[req[q].order] = items[req[q].order]
               /\ held'[req[q].order] = held[req[q].order],
           \A q \in {r} : req'[q].order \in Orders \ disturbed' =>
               /\ HeldBy(req[q], req[q].order)'
               /\ \A z \in Requests \ {r} : req[z].order # req'[q].order,
           \A o \in Orders \ disturbed' :
               \/ Quiet(o)'
               \/ /\ order'[o] = order[o] /\ items'[o] = items[o] /\ held'[o] = held[o]
                  /\ o \in lapsed' <=> o \in lapsed
                  /\ Busy(o) => Busy(o)'
    PROVE  Holdings'
<1>1. {r} \in SUBSET Requests /\ \A q, z \in {r} : q = z
  OBVIOUS
<1>2. QED BY <1>1, KeepHoldings

-----------------------------------------------------------------------------
(* Steps of a request that save no row.                                    *)

\* A step that only moves r, or leaves its order halfway, keeps the invariant
\* if r's new place, copy and checks are right.
LEMMA LocalStep ==
    ASSUME StockInv, NEW r \in Requests, NEW new \in Request, Become(r, new),
           UNCHANGED <<rows, books, held, lapsed, raced, contested>>,
           disturbed \subseteq disturbed', disturbed' \subseteq Orders,
           Place(new), Copy(new), Covered(new),
           new.pc \in Creating =>
               \/ req[r].pc \in Creating /\ req[r].order = new.order
               \/ \A z \in Requests \ {r} : req[z].order # new.order,
           new.order \in Orders \ disturbed' =>
               /\ HeldBy(new, new.order)
               /\ \/ new.order = req[r].order
                  \/ \A z \in Requests \ {r} : req[z].order # new.order,
           req[r].order \in Orders \ disturbed' =>
               new.order = req[r].order \/ order[req[r].order] = "none"
    PROVE  StockInv'
<1>1. /\ req' \in [Requests -> Request] /\ req'[r] = new
      /\ \A q \in Requests \ {r} : req'[q] = req[q]
  BY BecomeMoves DEF StockInv
<1>2. TypeOK'
  BY <1>1 DEF StockInv, TypeOK, rows
<1>3. \A q \in Requests \ {r} : Same(q)
  BY <1>1 DEF Same
<1>4. Places'
  <2>1. Place(req[r])'
    BY <1>1 DEF Place, rows
  <2>2. Unborn'
    BY DEF StockInv, Places, Unborn, rows
  <2>3. TypeOK /\ Places /\ {r} \in SUBSET Requests
    BY DEF StockInv
  <2>4. \A q \in Requests \ {r} : order'[req[q].order] = order[req[q].order]
                                  /\ items'[req[q].order] = items[req[q].order]
    BY DEF rows
  <2>5. \A q \in {r} : req'[q].pc \in Creating =>
               \/ req[q].pc \in Creating /\ req[q].order = req'[q].order
               \/ \A z \in Requests \ {r} : req[z].order # req'[q].order
    BY <1>1
  <2>6. QED BY <1>3, <2>1, <2>2, <2>3, <2>4, <2>5, MoverPlaces
<1>5. Copies' /\ Checks' /\ OversoldOnlyAfterOldCheck' /\ StockBooks'
  <2>1. Copy(req[r])' /\ Covered(req[r])'
    BY <1>1 DEF Copy, Covered, Pending, rows
  <2>2. QED BY <1>1, <2>1, KeepStock DEF rows
<1>6. Holdings'
  <2>1. \A o \in Orders : order'[o] \in {"none", "pending"} => o \notin lapsed'
    BY DEF StockInv, Holdings, rows
  <2>2. \A q \in {r} : req'[q].order \in Orders \ disturbed' =>
               /\ HeldBy(req[q], req[q].order)'
               /\ \A z \in Requests \ {r} : req[z].order # req'[q].order
    <3>1. ASSUME new.order \in Orders \ disturbed', new.order = req[r].order,
                 NEW z \in Requests \ {r}
          PROVE  req[z].order # new.order
      BY <3>1 DEF StockInv, Holdings, OneHandler
    <3>2. new.order \in Orders \ disturbed' => HeldBy(req[r], req[r].order)'
      BY <1>1 DEF HeldBy, rows
    <3>3. QED BY <1>1, <3>1, <3>2
  <2>3. ASSUME NEW o \in Orders \ disturbed' PROVE Quiet(o)' \/ (Busy(o) => Busy(o)')
    <3>1. CASE req[r].order = o /\ new.order # o
      <4>1. order'[o] = "none"
        BY <2>3, <3>1 DEF rows
      <4>2. QED BY <4>1 DEF Quiet
    <3>2. CASE ~(req[r].order = o /\ new.order # o)
      BY <1>1, <3>2 DEF Busy
    <3>3. QED BY <3>1, <3>2
  <2>4. \A o \in Orders \ disturbed' :
               \/ Quiet(o)'
               \/ /\ order'[o] = order[o] /\ items'[o] = items[o] /\ held'[o] = held[o]
                  /\ o \in lapsed' <=> o \in lapsed
                  /\ Busy(o) => Busy(o)'
    BY <2>3 DEF rows
  <2>5. \A q \in Requests \ {r} : /\ order'[req[q].order] = order[req[q].order]
                                  /\ items'[req[q].order] = items[req[q].order]
                                  /\ held'[req[q].order] = held[req[q].order]
    BY DEF rows
  <2>6. QED BY <1>3, <2>1, <2>2, <2>4, <2>5, MoverHoldings
<1>7. QED BY <1>2, <1>4, <1>5, <1>6 DEF StockInv

\* What the invariant says of a request that is not idle.
LEMMA AtOrder ==
    ASSUME StockInv, NEW r \in Requests, req[r].pc # "idle"
    PROVE  /\ req[r] \in Request /\ Place(req[r]) /\ Copy(req[r]) /\ Covered(req[r])
           /\ req[r].order \in Orders /\ req[r].order # NoOrder
           /\ req[r].line \in Lines(req[r].order)
           /\ req[r].line \in Nat \ {0} /\ Len(Items[req[r].order]) \in Nat \ {0}
           /\ req[r].line <= Len(Items[req[r].order])
           /\ Product(req[r].order, req[r].line) \in Products
           /\ Quantity(req[r].order, req[r].line) \in Nat \ {0}
           /\ stock \in [Products -> Int]
           /\ req[r].order \notin disturbed => HeldBy(req[r], req[r].order)
<1>1. /\ req[r] \in Request /\ Place(req[r]) /\ Copy(req[r]) /\ Covered(req[r])
      /\ stock \in [Products -> Int]
  BY DEF StockInv, TypeOK, Places, Copies, Checks
<1>2. req[r].order \in Orders /\ req[r].line \in Lines(req[r].order)
  BY <1>1 DEF Place
<1>3. req[r].order # NoOrder
  BY <1>2, OrderAssumption
<1>4. req[r].line <= Len(Items[req[r].order]) /\ Len(Items[req[r].order]) \in Nat \ {0}
  BY <1>2, LineTypes DEF Lines
<1>5. req[r].order \notin disturbed => HeldBy(req[r], req[r].order)
  BY <1>2 DEF StockInv, Holdings
<1>6. QED BY <1>1, <1>2, <1>3, <1>4, <1>5, LineTypes

\* The idle record fits every state.
LEMMA IdleFits == Place(Idle) /\ Copy(Idle) /\ Covered(Idle) /\ Idle.order \notin Orders
  BY IdleRequest, OrderAssumption DEF Place, Copy, Covered, Creating

\* A request that starts an order is alone at it.
LEMMA CreateOrderStep ==
    ASSUME StockInv, NEW r \in Requests, NEW o \in Orders, CreateOrder(r, o)
    PROVE  StockInv'
<1> DEFINE new == [Idle EXCEPT !.pc = "check", !.order = o]
<1>1. /\ new \in Request /\ new.pc = "check" /\ new.order = o /\ new.line = 1
      /\ new.stale = {}
  BY IdleRequest DEF Request, Creating, Cancelling
<1>2. /\ Become(r, new) /\ UNCHANGED <<rows, history>>
      /\ req[r].pc = "idle" /\ order[o] = "none" /\ ~Busy(o)
  BY DEF CreateOrder
<1> HIDE DEF new
<1>3. req[r].order = NoOrder
  BY <1>2 DEF StockInv, Places, Place
<1>4. items[o] = 0 /\ Len(Items[o]) \in Nat \ {0} /\ 1 \in Lines(o)
  BY <1>2, LineTypes DEF StockInv, Places, Unborn, Lines
<1>5. Place(new)
  BY <1>1, <1>2, <1>4 DEF Place
<1>6. Copy(new) /\ Covered(new)
  <2>1. Pending(new) = {}
    BY <1>1, LineTypes DEF Pending
  <2>2. QED BY <1>1, <2>1 DEF Copy, Covered
<1>7. HeldBy(new, o)
  BY <1>1, <1>2 DEF HeldBy, Cancelling
<1>8. \A z \in Requests : req[z].order # o
  BY <1>2 DEF Busy
<1>9. disturbed' = disturbed /\ disturbed \subseteq Orders /\ NoOrder \notin Orders
  BY <1>2, OrderAssumption DEF StockInv, TypeOK, history
<1>10. QED
  BY <1>1, <1>2, <1>3, <1>5, <1>6, <1>7, <1>8, <1>9, LocalStep DEF history

\* A line that was checked is covered, and so the next may be.
LEMMA CheckLineStep ==
    ASSUME StockInv, NEW r \in Requests, CheckLine(r)
    PROVE  StockInv'
<1> DEFINE l == req[r]
<1> DEFINE o == l.order
<1> DEFINE i == l.line
<1>1. l.pc = "check" /\ UNCHANGED <<rows, history>>
  BY DEF CheckLine
<1>2. /\ l \in Request /\ Place(l) /\ Copy(l) /\ Covered(l)
      /\ o \in Orders /\ i \in Lines(o) /\ i \in Nat \ {0}
      /\ Len(Items[o]) \in Nat \ {0} /\ i <= Len(Items[o])
      /\ order[o] = "none" /\ items[o] = 0
      /\ o \notin disturbed => HeldBy(l, o)
      /\ stock[Product(o, i)] \in Int /\ Quantity(o, i) \in Nat
  BY <1>1, AtOrder DEF Place
<1>3. disturbed' = disturbed /\ disturbed \subseteq Orders
  BY <1>1 DEF StockInv, TypeOK, history
<1>4. CASE stock[Product(o, i)] < Quantity(o, i)
  <2>1. Become(r, Idle)
    BY <1>4 DEF CheckLine
  <2>2. QED BY <1>1, <1>2, <1>3, <2>1, IdleRequest, IdleFits, LocalStep DEF history, Creating
<1>5. CASE stock[Product(o, i)] >= Quantity(o, i)
  <2> DEFINE last == [l EXCEPT !.pc = "insertOrder", !.line = 1]
  <2> DEFINE next == [l EXCEPT !.line = i + 1]
  <2>1. /\ last \in Request /\ last.pc = "insertOrder" /\ last.line = 1
        /\ last.order = o /\ last.stale = l.stale
    BY <1>2 DEF Request, Creating
  <2>2. /\ next \in Request /\ next.pc = "check" /\ next.line = i + 1
        /\ next.order = o /\ next.stale = l.stale
    BY <1>1, <1>2 DEF Request
  <2>3. ASSUME NEW j \in Lines(o) \ l.stale, j <= i
        PROVE  stock[Product(o, j)] >= Quantity(o, j)
    <3>1. j \in Nat /\ (j = i \/ j < i)
      BY <1>2, <2>3, LineTypes
    <3>2. CASE j = i
      BY <1>5, <3>2
    <3>3. CASE j < i
      BY <1>1, <1>2, <3>3 DEF Covered, Creating, Pending
    <3>4. QED BY <3>1, <3>2, <3>3
  <2>4. CASE i = Len(Items[o])
    <3>1. Become(r, last)
      BY <1>2, <1>5, <2>4 DEF CheckLine
    <3> HIDE DEF last
    <3>2. Place(last) /\ Copy(last) /\ HeldBy(last, o)
      <4>1. 1 \in Lines(o)
        BY <1>2 DEF Lines
      <4>2. QED BY <1>2, <2>1, <4>1 DEF Place, Copy, HeldBy, Cancelling
    <3>3. Covered(last)
      <4>1. \A j \in Lines(o) : j <= i
        BY <2>4, <1>2 DEF Lines
      <4>2. QED BY <2>1, <2>3, <4>1 DEF Covered, Pending
    <3>4. QED BY <1>1, <1>2, <1>3, <2>1, <3>1, <3>2, <3>3, LocalStep DEF history, Creating
  <2>5. CASE i # Len(Items[o])
    <3>1. Become(r, next)
      BY <1>2, <1>5, <2>5 DEF CheckLine
    <3> HIDE DEF next
    <3>2. Place(next) /\ Copy(next) /\ HeldBy(next, o)
      <4>1. i + 1 \in Lines(o)
        BY <1>2, <2>5 DEF Lines
      <4>2. QED BY <1>2, <2>2, <4>1 DEF Place, Copy, HeldBy, Cancelling
    <3>3. Covered(next)
      <4>1. \A j \in Lines(o) : j < i + 1 => j <= i
        BY <1>2, LineTypes
      <4>2. QED BY <2>2, <2>3, <4>1 DEF Covered, Pending
    <3>4. QED BY <1>1, <1>2, <1>3, <2>2, <3>1, <3>2, <3>3, LocalStep DEF history, Creating
  <2>6. QED BY <2>4, <2>5
<1>6. QED BY <1>2, <1>4, <1>5

\* The copy that is read is the row, and not negative unless it was oversold.
LEMMA ReadProductStep ==
    ASSUME StockInv, NEW r \in Requests, ReadTake(r) \/ ReadBack(r)
    PROVE  StockInv'
<1> DEFINE l == req[r]
<1> DEFINE o == l.order
<1> DEFINE p == Product(o, l.line)
<1> DEFINE pc == IF ReadTake(r) THEN "saveTake" ELSE "saveBack"
<1> DEFINE new == [l EXCEPT !.pc = pc, !.product = p, !.copy = stock[p], !.old = FALSE]
<1>1. /\ pc = "saveTake" => l.pc = "readTake"
      /\ pc = "saveBack" => l.pc = "readBack"
      /\ pc \in {"saveTake", "saveBack"}
      /\ Become(r, new) /\ UNCHANGED <<rows, history>>
  BY DEF ReadTake, ReadBack
<1> HIDE DEF pc
<1>2. /\ l \in Request /\ Place(l) /\ Covered(l) /\ o \in Orders
      /\ p \in Products /\ stock[p] \in Int
      /\ o \notin disturbed => HeldBy(l, o)
  BY <1>1, AtOrder
<1>3. /\ new \in Request /\ new.pc = pc /\ new.order = o /\ new.line = l.line
      /\ new.last = l.last /\ new.product = p /\ new.copy = stock[p] /\ new.old = FALSE
      /\ new.stale = l.stale
  BY <1>1, <1>2 DEF Request, Creating, Cancelling
<1> HIDE DEF new
<1>4. Place(new)
  BY <1>1, <1>2, <1>3 DEF Place
<1>5. Copy(new)
  <2>1. stock[p] >= 0 \/ p \in contested
    BY <1>2 DEF StockInv, OversoldOnlyAfterOldCheck
  <2>2. QED BY <1>3, <2>1 DEF Copy
<1>6. Covered(new)
  BY <1>1, <1>2, <1>3 DEF Covered, Pending, Creating
<1>7. o \notin disturbed => HeldBy(new, o)
  BY <1>1, <1>2, <1>3 DEF HeldBy, Cancelling
<1>8. new.pc \in Creating => l.pc \in Creating
  BY <1>1, <1>3 DEF Creating
<1>9. disturbed' = disturbed /\ disturbed \subseteq Orders
  BY <1>1 DEF StockInv, TypeOK, history
<1>10. QED
  BY <1>1, <1>3, <1>4, <1>5, <1>6, <1>7, <1>8, <1>9, LocalStep DEF history

\* A cancellation finds all the lines of an order that nobody else is at.
LEMMA CancelOrderStep ==
    ASSUME StockInv, NEW r \in Requests, NEW o \in Orders, CancelOrder(r, o)
    PROVE  StockInv'
<1> DEFINE pc == IF items[o] = 0 THEN "saveCancelled" ELSE "readBack"
<1> DEFINE new == [Idle EXCEPT !.order = o, !.last = items[o], !.pc = pc]
<1>1. /\ Become(r, new) /\ UNCHANGED <<rows, books, held, lapsed, raced, contested>>
      /\ req[r].pc = "idle" /\ order[o] = "pending"
      /\ disturbed' = IF Busy(o) THEN disturbed \cup {o} ELSE disturbed
  BY DEF CancelOrder
<1>2. /\ pc \in {"saveCancelled", "readBack"}
      /\ pc = "readBack" <=> items[o] # 0
  OBVIOUS
<1> HIDE DEF pc
<1>3. /\ items[o] \in Nat /\ items[o] <= Len(Items[o]) /\ Len(Items[o]) \in Nat \ {0}
      /\ disturbed \subseteq Orders
  BY LineTypes DEF StockInv, TypeOK
<1>4. /\ new \in Request /\ new.pc = pc /\ new.order = o /\ new.line = 1
      /\ new.last = items[o]
  BY <1>2, <1>3, IdleRequest DEF Request, Cancelling
<1> HIDE DEF new
<1>5. req[r].order = NoOrder /\ NoOrder \notin Orders
  BY <1>1, OrderAssumption DEF StockInv, Places, Place
<1>6. Place(new)
  <2>1. 1 \in Lines(o)
    BY <1>3 DEF Lines
  <2>2. QED BY <1>1, <1>2, <1>3, <1>4, <2>1 DEF Place
<1>7. Copy(new) /\ Covered(new) /\ new.pc \notin Creating
  BY <1>2, <1>4 DEF Copy, Covered, Creating
<1>8. ASSUME o \notin disturbed'
      PROVE  HeldBy(new, o) /\ \A z \in Requests \ {r} : req[z].order # o
  <2>1. o \notin disturbed /\ ~Busy(o)
    BY <1>1, <1>8
  <2>2. items[o] = Len(Items[o]) /\ held[o] = Len(Items[o])
    BY <1>1, <2>1, HoldingsQuiet DEF StockInv, Quiet
  <2>3. QED BY <1>1, <1>2, <1>3, <1>4, <2>1, <2>2 DEF HeldBy, Busy
<1>9. disturbed \subseteq disturbed' /\ disturbed' \subseteq Orders
  BY <1>1, <1>3
<1>10. QED BY <1>1, <1>4, <1>5, <1>6, <1>7, <1>8, <1>9, LocalStep

\* What follows the save of a line, whether the product was saved or not.
LEMMA NextTakeFits ==
    ASSUME StockInv, NEW r \in Requests, req[r].pc = "saveTake"
    PROVE  LET l == req[r]
               new == NextTake(r)
           IN  /\ new \in Request
               /\ IF l.line = Len(Items[l.order]) THEN new = Idle
                  ELSE /\ new.pc = "insertItem" /\ new.order = l.order
                       /\ new.line = l.line + 1 /\ new.line \in Lines(l.order)
                       /\ new.stale = l.stale \ {l.line}
               /\ Place(new) /\ Copy(new) /\ Covered(new)
<1> DEFINE l == req[r]
<1> DEFINE next == [l EXCEPT !.pc = "insertItem", !.line = @ + 1, !.old = FALSE,
                             !.stale = @ \ {l.line}]
<1>1. /\ l \in Request /\ Place(l) /\ Covered(l) /\ l.order \in Orders
      /\ l.line \in Nat \ {0} /\ Len(Items[l.order]) \in Nat \ {0}
      /\ l.line <= Len(Items[l.order])
  BY AtOrder
<1>2. CASE l.line = Len(Items[l.order])
  <2>1. NextTake(r) = Idle
    BY <1>2 DEF NextTake
  <2>2. QED BY <1>2, <2>1, IdleRequest, IdleFits
<1>3. CASE l.line # Len(Items[l.order])
  <2>1. NextTake(r) = next
    BY <1>3 DEF NextTake
  <2>2. /\ next \in Request /\ next.pc = "insertItem" /\ next.order = l.order
        /\ next.line = l.line + 1 /\ next.stale = l.stale \ {l.line}
    <3>1. l.line + 1 \in Nat
      BY <1>1
    <3>2. l.stale \ {l.line} \in SUBSET Nat
      BY <1>1 DEF Request
    <3>3. next = [l EXCEPT !.pc = "insertItem", !.line = l.line + 1, !.old = FALSE,
                           !.stale = l.stale \ {l.line}]
      BY <1>1 DEF Request
    <3> HIDE DEF next
    <3>4. QED BY <1>1, <3>1, <3>2, <3>3 DEF Request, Creating
  <2> HIDE DEF next
  <2>3. next.line \in Lines(l.order)
    BY <1>1, <1>3, <2>2 DEF Lines
  <2>4. Place(next)
    BY <1>1, <2>2, <2>3 DEF Place
  <2>5. Copy(next)
    BY <2>2 DEF Copy
  <2>6. Covered(next)
    <3>1. ASSUME NEW j \in Pending(next) \ next.stale
          PROVE  j \in Pending(l) \ l.stale
      <4>1. j \in Lines(l.order) /\ j >= l.line + 1
        BY <2>2, <3>1 DEF Pending
      <4>2. j \in Nat /\ j >= l.line /\ j # l.line
        BY <1>1, <4>1, LineTypes
      <4>3. QED BY <2>2, <3>1, <4>1, <4>2 DEF Pending
    <3>2. QED BY <1>1, <2>2, <3>1 DEF Covered, Creating
  <2>7. QED BY <1>3, <2>1, <2>2, <2>3, <2>4, <2>5, <2>6
<1>4. QED BY <1>2, <1>3

\* The same for a line that is put back.
LEMMA NextBackFits ==
    ASSUME StockInv, NEW r \in Requests, req[r].pc = "saveBack"
    PROVE  LET l == req[r]
               new == NextBack(r)
           IN  /\ new \in Request /\ new.order = l.order /\ new.last = l.last
               /\ IF l.line = l.last THEN new.pc = "saveCancelled"
                  ELSE new.pc = "readBack" /\ new.line = l.line + 1
               /\ Place(new) /\ Copy(new) /\ Covered(new)
<1> DEFINE l == req[r]
<1> DEFINE done == [l EXCEPT !.pc = "saveCancelled"]
<1> DEFINE next == [l EXCEPT !.pc = "readBack", !.line = @ + 1, !.old = FALSE]
<1>1. /\ l \in Request /\ Place(l) /\ l.order \in Orders
      /\ l.line \in Nat \ {0} /\ Len(Items[l.order]) \in Nat \ {0}
      /\ l.line <= l.last /\ l.last <= Len(Items[l.order]) /\ l.last \in Nat
      /\ order[l.order] # "none" /\ l.line \in Lines(l.order)
  BY AtOrder DEF Place, Request
<1>2. CASE l.line = l.last
  <2>1. NextBack(r) = done
    BY <1>2 DEF NextBack
  <2>2. /\ done \in Request /\ done.pc = "saveCancelled" /\ done.order = l.order
        /\ done.line = l.line /\ done.last = l.last
    BY <1>1 DEF Request, Cancelling
  <2> HIDE DEF done
  <2>3. Place(done) /\ Copy(done) /\ Covered(done)
    BY <1>1, <2>2 DEF Place, Copy, Covered, Creating
  <2>4. QED BY <1>2, <2>1, <2>2, <2>3
<1>3. CASE l.line # l.last
  <2>1. NextBack(r) = next
    BY <1>3 DEF NextBack
  <2>2. /\ next \in Request /\ next.pc = "readBack" /\ next.order = l.order
        /\ next.line = l.line + 1 /\ next.last = l.last
    <3>1. l.line + 1 \in Nat
      BY <1>1
    <3>2. next = [l EXCEPT !.pc = "readBack", !.line = l.line + 1, !.old = FALSE]
      BY <1>1 DEF Request
    <3> HIDE DEF next
    <3>3. QED BY <1>1, <3>1, <3>2 DEF Request, Cancelling
  <2> HIDE DEF next
  <2>3. l.line + 1 <= l.last /\ l.line + 1 \in Lines(l.order)
    BY <1>1, <1>3 DEF Lines
  <2>4. Place(next) /\ Copy(next) /\ Covered(next)
    BY <1>1, <2>2, <2>3 DEF Place, Copy, Covered, Creating
  <2>5. QED BY <1>3, <2>1, <2>2, <2>4
<1>4. QED BY <1>2, <1>3

\* A request that ends early, or skips a line, leaves its order halfway.
LEMMA HalfwayStep ==
    ASSUME StockInv, NEW r \in Requests, SaveProductFails(r) \/ Crash(r)
    PROVE  StockInv'
<1> DEFINE o == req[r].order
<1>1. /\ req[r].pc # "idle"
      /\ UNCHANGED <<rows, books, held, lapsed, raced, contested>>
      /\ \/ disturbed' = disturbed \cup {o}
         \/ /\ disturbed' = disturbed /\ req[r].pc \in {"check", "insertOrder"}
            /\ Become(r, Idle)
  BY DEF SaveProductFails, Crash
<1>2. o \in Orders /\ disturbed \subseteq Orders
      /\ (req[r].pc \in {"check", "insertOrder"} => order[o] = "none")
  BY <1>1, AtOrder DEF StockInv, TypeOK, Place
<1>3. disturbed \subseteq disturbed' /\ disturbed' \subseteq Orders
  BY <1>1, <1>2
<1>4. CASE Become(r, Idle)
  BY <1>1, <1>2, <1>3, <1>4, IdleRequest, IdleFits, LocalStep DEF Creating
<1>5. CASE req[r].pc = "saveTake" /\ Become(r, NextTake(r)) /\ disturbed' = disturbed \cup {o}
  <2> DEFINE new == NextTake(r)
  <2>1. /\ new \in Request /\ new.order \in {o, NoOrder}
        /\ Place(new) /\ Copy(new) /\ Covered(new)
        /\ new.pc \in Creating => new.order = o
    BY <1>5, NextTakeFits, IdleRequest DEF Creating
  <2> HIDE DEF new
  <2>2. Become(r, new) /\ req[r].pc \in Creating /\ NoOrder \notin Orders
    BY <1>5, OrderAssumption DEF new, Creating
  <2>3. QED BY <1>1, <1>3, <1>5, <2>1, <2>2, LocalStep
<1>6. CASE req[r].pc = "saveBack" /\ Become(r, NextBack(r)) /\ disturbed' = disturbed \cup {o}
  <2> DEFINE new == NextBack(r)
  <2>1. /\ new \in Request /\ new.order = o
        /\ Place(new) /\ Copy(new) /\ Covered(new)
        /\ new.pc \notin Creating
    BY <1>6, NextBackFits DEF Creating
  <2> HIDE DEF new
  <2>2. Become(r, new)
    BY <1>6 DEF new
  <2>3. QED BY <1>1, <1>3, <1>6, <2>1, <2>2, LocalStep
<1>7. QED BY <1>4, <1>5, <1>6 DEF SaveProductFails, Crash

-----------------------------------------------------------------------------
(* Steps that save the order.                                              *)

\* Nobody else can be at an order that is not inserted.
LEMMA InsertOrderStep ==
    ASSUME StockInv, NEW r \in Requests, InsertOrder(r)
    PROVE  StockInv'
<1> DEFINE l == req[r]
<1> DEFINE o == l.order
<1> DEFINE new == [l EXCEPT !.pc = "insertItem"]
<1>1. /\ l.pc = "insertOrder" /\ order' = [order EXCEPT ![o] = "pending"]
      /\ Become(r, new) /\ UNCHANGED <<stock, items, history>>
  BY DEF InsertOrder
<1>2. /\ l \in Request /\ Covered(l) /\ o \in Orders /\ l.line \in Lines(o) /\ l.line = 1
      /\ order[o] = "none" /\ items[o] = 0 /\ held[o] = 0
  BY <1>1, AtOrder DEF Place, StockInv, Places, Unborn
<1>3. /\ new \in Request /\ new.pc = "insertItem" /\ new.order = o /\ new.line = 1
      /\ new.stale = l.stale
  BY <1>2 DEF Request, Creating
<1> HIDE DEF new
<1>4. /\ req' \in [Requests -> Request] /\ req'[r] = new
      /\ \A q \in Requests \ {r} : req'[q] = req[q]
  BY <1>1, <1>3, BecomeMoves DEF StockInv
<1>5. ASSUME NEW q \in Requests \ {r} PROVE req[q].order # o
  <2>1. Place(req[q]) /\ (req[q].pc \in Creating /\ req[q].order = o => q = r)
    BY <1>1 DEF StockInv, Places, OneCreator, Creating
  <2>2. QED BY <1>2, <2>1, OrderAssumption DEF Place, Creating
<1>6. /\ order' \in [Orders -> {"none", "pending", "sold", "cancelled"}] /\ order'[o] = "pending"
      /\ \A z \in Orders \ {o} : order'[z] = order[z]
  BY <1>1, <1>2 DEF StockInv, TypeOK
<1>7. TypeOK'
  BY <1>1, <1>4, <1>6 DEF StockInv, TypeOK, history
<1>8. \A q \in Requests \ {r} : Same(q)
  BY <1>4 DEF Same
<1>9. Places'
  <2>1. \A q \in {r} : Place(req[q])'
    BY <1>1, <1>2, <1>3, <1>4, <1>6 DEF Place
  <2>2. Unborn'
    BY <1>1, <1>6 DEF StockInv, Places, Unborn, history
  <2>3. ASSUME NEW q \in Requests \ {r}, req[q].pc # "idle"
        PROVE  order'[req[q].order] = order[req[q].order] /\ items'[req[q].order] = items[req[q].order]
    <3>1. req[q].order \in Orders \ {o}
      BY <1>5, <2>3, AtOrder
    <3>2. QED BY <1>1, <1>6, <3>1
  <2>4. \A q \in {r} : req[q].pc \in Creating /\ req[q].order = req'[q].order
    BY <1>1, <1>3, <1>4 DEF Creating
  <2>5. TypeOK /\ Places
    BY DEF StockInv
  <2>6. QED BY <1>8, <2>1, <2>2, <2>3, <2>4, <2>5, MoverPlaces
<1>10. Copies' /\ Checks' /\ OversoldOnlyAfterOldCheck' /\ StockBooks'
  <2>1. Copy(req[r])' /\ Covered(req[r])'
    BY <1>1, <1>2, <1>3, <1>4 DEF Copy, Covered, Pending, Creating
  <2>2. UNCHANGED <<stock, books, raced, contested>> /\ {r} \in SUBSET Requests
    BY <1>1 DEF history
  <2>3. QED BY <1>4, <2>1, <2>2, KeepStock
<1>11. Holdings'
  <2>1. \A z \in Orders : order'[z] \in {"none", "pending"} => z \notin lapsed'
    BY <1>1, <1>2, <1>6 DEF StockInv, Holdings, history
  <2>2. ASSUME NEW q \in Requests \ {r}, req[q].order \in Orders \ disturbed'
        PROVE  /\ order'[req[q].order] = order[req[q].order]
               /\ items'[req[q].order] = items[req[q].order]
               /\ held'[req[q].order] = held[req[q].order]
    BY <1>1, <1>5, <1>6, <2>2 DEF history
  <2>3. \A q \in {r} : HeldBy(req[q], req[q].order)'
                       /\ \A z \in Requests \ {r} : req[z].order # req'[q].order
    BY <1>1, <1>2, <1>3, <1>4, <1>5, <1>6 DEF HeldBy, Cancelling, history
  <2>4. ASSUME NEW z \in Orders \ disturbed'
        PROVE  \/ Quiet(z)'
               \/ /\ order'[z] = order[z] /\ items'[z] = items[z] /\ held'[z] = held[z]
                  /\ z \in lapsed' <=> z \in lapsed
                  /\ Busy(z) => Busy(z)'
    <3>1. CASE z = o
      BY <1>3, <1>4, <3>1 DEF Quiet, Busy
    <3>2. CASE z # o
      BY <1>1, <1>3, <1>4, <1>6, <3>2 DEF Busy, history
    <3>3. QED BY <3>1, <3>2
  <2>5. disturbed \subseteq disturbed'
    BY <1>1 DEF history
  <2>6. QED BY <1>8, <2>1, <2>2, <2>3, <2>4, <2>5, MoverHoldings
<1>12. QED BY <1>7, <1>9, <1>10, <1>11 DEF StockInv

\* The order has as many rows as its creator has come to lines.
LEMMA InsertItemStep ==
    ASSUME StockInv, NEW r \in Requests, InsertItem(r)
    PROVE  StockInv'
<1> DEFINE l == req[r]
<1> DEFINE o == l.order
<1> DEFINE new == [l EXCEPT !.pc = "readTake"]
<1>1. /\ l.pc = "insertItem" /\ items' = [items EXCEPT ![o] = @ + 1]
      /\ Become(r, new) /\ UNCHANGED <<stock, order, history>>
  BY DEF InsertItem
<1>2. /\ l \in Request /\ Covered(l) /\ o \in Orders /\ l.line \in Lines(o)
      /\ l.line \in Nat \ {0} /\ l.line <= Len(Items[o])
      /\ order[o] # "none" /\ items[o] = l.line - 1
      /\ o \notin disturbed => HeldBy(l, o)
  BY <1>1, AtOrder DEF Place
<1>3. /\ new \in Request /\ new.pc = "readTake" /\ new.order = o /\ new.line = l.line
      /\ new.stale = l.stale
  BY <1>2 DEF Request, Creating
<1> HIDE DEF new
<1>4. /\ req' \in [Requests -> Request] /\ req'[r] = new
      /\ \A q \in Requests \ {r} : req'[q] = req[q]
  BY <1>1, <1>3, BecomeMoves DEF StockInv
<1>5. /\ items' \in [Orders -> Nat] /\ items'[o] = l.line
      /\ \A z \in Orders \ {o} : items'[z] = items[z]
  <2>1. items \in [Orders -> Nat] /\ items[o] + 1 = l.line
    BY <1>2 DEF StockInv, TypeOK
  <2>2. QED BY <1>1, <1>2, <2>1
<1>6. TypeOK'
  <2>1. \A z \in Orders : items'[z] <= Len(Items[z])
    BY <1>2, <1>5 DEF StockInv, TypeOK
  <2>2. QED BY <1>1, <1>4, <1>5, <2>1 DEF StockInv, TypeOK, history
<1>7. \A q \in Requests \ {r} : Same(q)
  BY <1>4 DEF Same
<1>8. Places'
  <2>1. \A q \in {r} : Place(req[q])'
    BY <1>1, <1>2, <1>3, <1>4, <1>5 DEF Place
  <2>2. Unborn'
    BY <1>1, <1>2, <1>5 DEF StockInv, Places, Unborn, history
  <2>3. ASSUME NEW q \in Requests \ {r}, req[q].pc # "idle", req[q].pc \in Creating
        PROVE  items'[req[q].order] = items[req[q].order]
    <3>1. req[q].order \in Orders \ {o}
      BY <1>1, <2>3, AtOrder DEF StockInv, Places, OneCreator, Creating
    <3>2. QED BY <1>5, <3>1
  <2>4. \A q \in {r} : req[q].pc \in Creating /\ req[q].order = req'[q].order
    BY <1>1, <1>3, <1>4 DEF Creating
  <2>5. TypeOK /\ Places
    BY DEF StockInv
  <2>6. QED BY <1>1, <1>7, <2>1, <2>2, <2>3, <2>4, <2>5, MoverPlaces
<1>9. Copies' /\ Checks' /\ OversoldOnlyAfterOldCheck' /\ StockBooks'
  <2>1. Copy(req[r])' /\ Covered(req[r])'
    BY <1>1, <1>2, <1>3, <1>4 DEF Copy, Covered, Pending, Creating
  <2>2. UNCHANGED <<stock, books, raced, contested>> /\ {r} \in SUBSET Requests
    BY <1>1 DEF history
  <2>3. QED BY <1>4, <2>1, <2>2, KeepStock
<1>10. Holdings'
  <2>1. \A z \in Orders : order'[z] \in {"none", "pending"} => z \notin lapsed'
    BY <1>1 DEF StockInv, Holdings, history
  <2>2. \A q \in Requests \ {r} : o \notin disturbed => req[q].order # o
    BY <1>2 DEF StockInv, Holdings, OneHandler
  <2>3. ASSUME NEW q \in Requests \ {r}, req[q].order \in Orders \ disturbed'
        PROVE  /\ order'[req[q].order] = order[req[q].order]
               /\ items'[req[q].order] = items[req[q].order]
               /\ held'[req[q].order] = held[req[q].order]
    BY <1>1, <1>5, <2>2, <2>3 DEF history
  <2>4. \A q \in {r} : req'[q].order \in Orders \ disturbed' =>
           /\ HeldBy(req[q], req[q].order)'
           /\ \A z \in Requests \ {r} : req[z].order # req'[q].order
    BY <1>1, <1>2, <1>3, <1>4, <2>2 DEF HeldBy, Cancelling, history
  <2>5. ASSUME NEW z \in Orders \ disturbed'
        PROVE  \/ Quiet(z)'
               \/ /\ order'[z] = order[z] /\ items'[z] = items[z] /\ held'[z] = held[z]
                  /\ z \in lapsed' <=> z \in lapsed
                  /\ Busy(z) => Busy(z)'
    <3>1. CASE z = o
      BY <1>3, <1>4, <3>1 DEF Quiet, Busy
    <3>2. CASE z # o
      BY <1>1, <1>3, <1>4, <1>5, <3>2 DEF Busy, history
    <3>3. QED BY <3>1, <3>2
  <2>6. disturbed \subseteq disturbed'
    BY <1>1 DEF history
  <2>7. QED BY <1>7, <2>1, <2>3, <2>4, <2>5, <2>6, MoverHoldings
<1>11. QED BY <1>6, <1>8, <1>9, <1>10 DEF StockInv

\* A cancellation that was alone has put everything back.
LEMMA SaveCancelledStep ==
    ASSUME StockInv, NEW r \in Requests, SaveCancelled(r)
    PROVE  StockInv'
<1> DEFINE l == req[r]
<1> DEFINE o == l.order
<1>1. /\ l.pc = "saveCancelled" /\ order' = [order EXCEPT ![o] = "cancelled"]
      /\ Become(r, Idle) /\ UNCHANGED <<stock, items, history>>
  BY DEF SaveCancelled
<1>2. /\ o \in Orders /\ order[o] # "none" /\ o # NoOrder
      /\ o \notin disturbed => HeldBy(l, o)
  BY <1>1, AtOrder DEF Place
<1>3. /\ req' \in [Requests -> Request] /\ req'[r] = Idle
      /\ \A q \in Requests \ {r} : req'[q] = req[q]
  BY <1>1, IdleRequest, BecomeMoves DEF StockInv
<1>4. /\ order' \in [Orders -> {"none", "pending", "sold", "cancelled"}] /\ order'[o] = "cancelled"
      /\ \A z \in Orders \ {o} : order'[z] = order[z]
  BY <1>1, <1>2 DEF StockInv, TypeOK
<1>5. TypeOK'
  BY <1>1, <1>3, <1>4 DEF StockInv, TypeOK, history
<1>6. \A q \in Requests \ {r} : Same(q)
  BY <1>3 DEF Same
<1>7. Places'
  <2>1. \A q \in {r} : Place(req[q])' /\ req'[q].pc \notin Creating
    BY <1>3, IdleRequest DEF Place, Creating
  <2>2. Unborn'
    BY <1>1, <1>4 DEF StockInv, Places, Unborn, history
  <2>3. ASSUME NEW q \in Requests \ {r}, req[q].pc # "idle"
        PROVE  /\ order'[req[q].order] = "none" <=> order[req[q].order] = "none"
               /\ items'[req[q].order] = items[req[q].order]
    <3>1. req[q].order \in Orders
      BY <2>3, AtOrder
    <3>2. QED BY <1>1, <1>2, <1>4, <3>1
  <2>4. TypeOK /\ Places
    BY DEF StockInv
  <2>5. QED BY <1>6, <2>1, <2>2, <2>3, <2>4, MoverPlaces
<1>8. Copies' /\ Checks' /\ OversoldOnlyAfterOldCheck' /\ StockBooks'
  <2>1. Copy(req[r])' /\ Covered(req[r])'
    BY <1>3, IdleRequest DEF Copy, Covered, Creating
  <2>2. UNCHANGED <<stock, books, raced, contested>> /\ {r} \in SUBSET Requests
    BY <1>1 DEF history
  <2>3. QED BY <1>3, <2>1, <2>2, KeepStock
<1>9. Holdings'
  <2>1. \A z \in Orders : order'[z] \in {"none", "pending"} => z \notin lapsed'
    BY <1>1, <1>4 DEF StockInv, Holdings, history
  <2>2. \A q \in Requests \ {r} : o \notin disturbed => req[q].order # o
    BY <1>2 DEF StockInv, Holdings, OneHandler
  <2>3. ASSUME NEW q \in Requests \ {r}, req[q].order \in Orders \ disturbed'
        PROVE  /\ order'[req[q].order] = order[req[q].order]
               /\ items'[req[q].order] = items[req[q].order]
               /\ held'[req[q].order] = held[req[q].order]
    BY <1>1, <1>4, <2>2, <2>3 DEF history
  <2>4. \A q \in {r} : req'[q].order \notin Orders
    BY <1>3, IdleFits
  <2>5. ASSUME NEW z \in Orders \ disturbed'
        PROVE  \/ Quiet(z)'
               \/ /\ order'[z] = order[z] /\ items'[z] = items[z] /\ held'[z] = held[z]
                  /\ z \in lapsed' <=> z \in lapsed
                  /\ Busy(z) => Busy(z)'
    <3>1. CASE z = o
      <4>1. o \notin disturbed /\ HeldBy(l, o) /\ order[o] = "pending"
        BY <1>1, <1>2, <2>5, <3>1 DEF HeldBy, history
      <4>2. held[o] = 0 /\ items[o] = Len(Items[o]) /\ o \notin lapsed
        BY <1>1, <1>2, <4>1 DEF HeldBy, Cancelling, StockInv, Holdings
      <4>3. QED BY <1>1, <1>4, <3>1, <4>2 DEF Quiet, history
    <3>2. CASE z # o
      BY <1>1, <1>3, <1>4, <3>2 DEF Busy, history
    <3>3. QED BY <3>1, <3>2
  <2>6. disturbed \subseteq disturbed'
    BY <1>1 DEF history
  <2>7. QED BY <1>6, <2>1, <2>3, <2>4, <2>5, <2>6, MoverHoldings
<1>10. QED BY <1>5, <1>7, <1>8, <1>9 DEF StockInv

-----------------------------------------------------------------------------
(* Steps that save a product.                                              *)

\* What a request's save of a product leaves of all copies and checks.
LEMMA SavedProduct ==
    ASSUME StockInv, NEW r \in Requests, NEW p \in Products, NEW level \in Int,
           NEW local \in Request, SaveProduct(r, p, level, local),
           local.pc \notin {"saveTake", "saveBack"}, Place(local), Covered(local),
           contested \subseteq contested'
    PROVE  /\ req' \in [Requests -> Request] /\ \A q \in Requests \ {r} : Same(q)
           /\ req'[r].pc = local.pc /\ req'[r].order = local.order
           /\ req'[r].line = local.line /\ req'[r].last = local.last
           /\ req'[r].product = local.product
           /\ stock' \in [Products -> Int] /\ stock'[p] = level
           /\ \A z \in Products \ {p} : stock'[z] = stock[z]
           /\ Copies' /\ Checks'
<1>1. local.pc \in Creating => local.order \in Orders
  BY DEF Place, Creating
<1>2. /\ req' \in [Requests -> Request] /\ req'[r] = Outdated(local, p, FALSE)
      /\ \A q \in Requests \ {r} : req'[q] = Outdated(req[q], p, Holds(q, p)) /\ Same(q)
  BY <1>1, SaveProductMoves DEF StockInv
<1>3. /\ req'[r].pc = local.pc /\ req'[r].order = local.order
      /\ req'[r].line = local.line /\ req'[r].last = local.last
      /\ req'[r].product = local.product
      /\ req'[r].stale = local.stale \cup StaleLines(p, local)
  <2> DEFINE k == Outdated(local, p, FALSE)
  <2>1. /\ k.pc = local.pc /\ k.order = local.order /\ k.line = local.line
        /\ k.last = local.last /\ k.product = local.product
        /\ k.stale = local.stale \cup StaleLines(p, local)
    <3>1. \A b \in BOOLEAN : LET z == Outdated(local, p, b)
                            IN  /\ z.pc = local.pc /\ z.order = local.order
                                /\ z.line = local.line /\ z.last = local.last
                                /\ z.product = local.product
                                /\ z.stale = local.stale \cup StaleLines(p, local)
      BY <1>1, OutdatedFields
    <3>2. QED BY <3>1
  <2> HIDE DEF k
  <2>2. req'[r] = k
    BY <1>2 DEF k
  <2>3. QED BY <2>1, <2>2
<1>4. stock' = [stock EXCEPT ![p] = level] /\ stock \in [Products -> Int]
  BY DEF SaveProduct, StockInv, TypeOK
<1>5. /\ stock' \in [Products -> Int] /\ stock'[p] = level
      /\ \A z \in Products \ {p} : stock'[z] = stock[z]
  BY <1>4
<1>6. \A q \in Requests \ {r} : Copy(req[q])' /\ Covered(req[q])'
  BY <1>2, <1>4, OutdatedKeeps
<1>7. Copy(req[r])'
  BY <1>3 DEF Copy
<1>8. Covered(req[r])'
  <2> SUFFICES ASSUME local.pc \in Creating,
                      NEW i \in Pending(local) \ (local.stale \cup StaleLines(p, local))
      PROVE  stock'[Product(local.order, i)] >= Quantity(local.order, i)
    BY <1>3 DEF Covered, Pending
  <2>1. Product(local.order, i) \in Products \ {p}
    BY <1>1, LineTypes DEF Pending, StaleLines
  <2>2. stock[Product(local.order, i)] >= Quantity(local.order, i)
    BY DEF Covered
  <2>3. QED BY <1>5, <2>1, <2>2
<1>9. QED BY <1>2, <1>3, <1>5, <1>6, <1>7, <1>8 DEF Copies, Checks

\* A line is taken from a stock that covers it, if nothing outdated the check.
LEMMA SaveTakeStep ==
    ASSUME StockInv, NEW r \in Requests, SaveTake(r)
    PROVE  StockInv'
<1> DEFINE l == req[r]
<1> DEFINE o == l.order
<1> DEFINE i == l.line
<1> DEFINE p == l.product
<1> DEFINE n == Quantity(o, i)
<1> DEFINE local == NextTake(r)
<1>1. /\ l.pc = "saveTake" /\ SaveProduct(r, p, l.copy - n, local)
      /\ books' = [books EXCEPT ![p] = @ - n]
      /\ held' = [held EXCEPT ![o] = @ + 1]
      /\ raced' = IF l.old THEN raced \cup {p} ELSE raced
      /\ contested' = IF i \in l.stale /\ stock'[p] < 0 THEN contested \cup {p} ELSE contested
      /\ UNCHANGED <<order, items, lapsed, disturbed>>
  BY DEF SaveTake
<1>2. /\ l \in Request /\ Copy(l) /\ Covered(l)
      /\ o \in Orders /\ i \in Lines(o) /\ i \in Nat \ {0} /\ i <= Len(Items[o])
      /\ p = Product(o, i) /\ p \in Products /\ n \in Nat \ {0}
      /\ order[o] # "none" /\ items[o] = i
      /\ o \notin disturbed => HeldBy(l, o)
      /\ l.copy \in Int /\ l.copy - n \in Int
  BY <1>1, AtOrder DEF Place, Request
<1>3. /\ local \in Request /\ Place(local) /\ Covered(local)
      /\ IF i = Len(Items[o]) THEN local = Idle
         ELSE local.pc = "insertItem" /\ local.order = o /\ local.line = i + 1
  BY <1>1, NextTakeFits
<1>4. local.pc \in {"idle", "insertItem"} /\ local.order \in {o, NoOrder}
      /\ (local.pc \in Creating => local.order = o)
  BY <1>3, IdleRequest DEF Creating
<1> HIDE DEF local
<1>5. contested \subseteq contested' /\ raced \subseteq raced'
  BY <1>1
<1>6. /\ req' \in [Requests -> Request] /\ \A q \in Requests \ {r} : Same(q)
      /\ req'[r].pc = local.pc /\ req'[r].order = local.order
      /\ req'[r].line = local.line /\ req'[r].last = local.last
      /\ req'[r].product = local.product
      /\ stock' \in [Products -> Int] /\ stock'[p] = l.copy - n
      /\ \A z \in Products \ {p} : stock'[z] = stock[z]
      /\ Copies' /\ Checks'
  BY <1>1, <1>2, <1>3, <1>4, <1>5, SavedProduct
<1>7. /\ books' \in [Products -> Int] /\ books'[p] = books[p] - n
      /\ \A z \in Products \ {p} : books'[z] = books[z]
  <2>1. books \in [Products -> Int] /\ books[p] - n \in Int
    BY <1>2 DEF StockInv, TypeOK
  <2>2. QED BY <1>1, <1>2, <2>1
<1>8. /\ held' \in [Orders -> Int] /\ held'[o] = held[o] + 1
      /\ \A z \in Orders \ {o} : held'[z] = held[z]
  <2>1. held \in [Orders -> Int] /\ held[o] + 1 \in Int
    BY <1>2 DEF StockInv, TypeOK
  <2>2. QED BY <1>1, <1>2, <2>1
<1>9. TypeOK'
  <2>1. raced' \subseteq Products /\ contested' \subseteq Products
    BY <1>1, <1>2 DEF StockInv, TypeOK
  <2>2. QED BY <1>1, <1>6, <1>7, <1>8, <2>1 DEF StockInv, TypeOK
<1>10. Places'
  <2>1. \A q \in {r} : Place(req[q])'
    BY <1>1, <1>3, <1>6 DEF Place
  <2>2. Unborn'
    BY <1>1, <1>2, <1>8 DEF StockInv, Places, Unborn
  <2>3. \A q \in {r} : req'[q].pc \in Creating =>
                          req[q].pc \in Creating /\ req[q].order = req'[q].order
    BY <1>1, <1>4, <1>6 DEF Creating
  <2>4. TypeOK /\ Places
    BY DEF StockInv
  <2>5. QED BY <1>1, <1>6, <2>1, <2>2, <2>3, <2>4, MoverPlaces
<1>11. OversoldOnlyAfterOldCheck'
  <2>1. ASSUME p \notin contested' PROVE stock'[p] >= 0
    <3>1. CASE i \in l.stale
      BY <1>1, <1>2, <1>6, <2>1, <3>1
    <3>2. CASE i \notin l.stale
      <4>1. l.copy = stock[p]
        BY <1>1, <1>2, <3>2 DEF Copy
      <4>2. i \in Pending(l) \ l.stale
        BY <1>1, <1>2, <3>2 DEF Pending
      <4>3. stock[p] >= n
        BY <1>1, <1>2, <4>2 DEF Covered, Creating
      <4>4. QED BY <1>2, <1>6, <4>1, <4>3
    <3>3. QED BY <3>1, <3>2
  <2>2. \A z \in Products \ {p} : z \notin contested' => stock'[z] >= 0
    BY <1>5, <1>6 DEF StockInv, OversoldOnlyAfterOldCheck
  <2>3. QED BY <2>1, <2>2 DEF OversoldOnlyAfterOldCheck
<1>12. StockBooks'
  <2>1. ASSUME p \notin raced' PROVE stock'[p] = books'[p]
    <3>1. ~l.old /\ p \notin raced
      BY <1>1, <2>1
    <3>2. l.copy = stock[p] /\ stock[p] = books[p]
      BY <1>1, <1>2, <3>1 DEF Copy, StockInv, StockBooks
    <3>3. QED BY <1>6, <1>7, <3>2
  <2>2. \A z \in Products \ {p} : z \notin raced' => stock'[z] = books'[z]
    BY <1>5, <1>6, <1>7 DEF StockInv, StockBooks
  <2>3. QED BY <2>1, <2>2 DEF StockBooks
<1>13. Holdings'
  <2>1. \A z \in Orders : order'[z] \in {"none", "pending"} => z \notin lapsed'
    BY <1>1 DEF StockInv, Holdings
  <2>2. \A q \in Requests \ {r} : o \notin disturbed => req[q].order # o
    BY <1>2 DEF StockInv, Holdings, OneHandler
  <2>3. ASSUME NEW q \in Requests \ {r}, req[q].order \in Orders \ disturbed'
        PROVE  /\ order'[req[q].order] = order[req[q].order]
               /\ items'[req[q].order] = items[req[q].order]
               /\ held'[req[q].order] = held[req[q].order]
    BY <1>1, <1>8, <2>2, <2>3
  <2>4. \A q \in {r} : req'[q].order \in Orders \ disturbed' =>
           /\ HeldBy(req[q], req[q].order)'
           /\ \A z \in Requests \ {r} : req[z].order # req'[q].order
    <3> SUFFICES ASSUME req'[r].order \in Orders \ disturbed'
        PROVE  /\ HeldBy(req[r], req[r].order)'
               /\ \A z \in Requests \ {r} : req[z].order # req'[r].order
      OBVIOUS
    <3>1. local.order = o /\ o \notin disturbed /\ local.pc = "insertItem" /\ local.line = i + 1
      BY <1>1, <1>3, <1>4, <1>6, IdleFits
    <3>2. held[o] = i - 1 /\ held[o] \in Int /\ order[o] = "pending"
      BY <1>1, <1>2, <3>1 DEF HeldBy, StockInv, TypeOK
    <3>3. held'[o] = (i + 1) - 1
      BY <1>2, <1>8, <3>2
    <3>4. HeldBy(req[r], req[r].order)'
      BY <1>1, <1>6, <3>1, <3>2, <3>3 DEF HeldBy, Cancelling
    <3>5. QED BY <1>6, <2>2, <3>1, <3>4
  <2>5. ASSUME NEW z \in Orders \ disturbed'
        PROVE  \/ Quiet(z)'
               \/ /\ order'[z] = order[z] /\ items'[z] = items[z] /\ held'[z] = held[z]
                  /\ z \in lapsed' <=> z \in lapsed
                  /\ Busy(z) => Busy(z)'
    <3>1. CASE z = o /\ i = Len(Items[o])
      <4>1. held[o] = i - 1 /\ held[o] \in Int /\ order[o] = "pending"
        BY <1>1, <1>2, <2>5, <3>1 DEF HeldBy, StockInv, TypeOK
      <4>2. held'[o] = i
        BY <1>2, <1>8, <4>1
      <4>3. QED BY <1>1, <1>2, <3>1, <4>1, <4>2 DEF Quiet
    <3>2. CASE z = o /\ i # Len(Items[o])
      BY <1>3, <1>6, <3>2 DEF Quiet, Busy
    <3>3. CASE z # o
      <4>1. Busy(z) => Busy(z)'
        BY <1>6, <3>3 DEF Busy, Same
      <4>2. QED BY <1>1, <1>8, <3>3, <4>1
    <3>4. QED BY <3>1, <3>2, <3>3
  <2>6. disturbed \subseteq disturbed'
    BY <1>1
  <2>7. QED BY <1>6, <2>1, <2>3, <2>4, <2>5, <2>6, MoverHoldings
<1>14. QED BY <1>6, <1>9, <1>10, <1>11, <1>12, <1>13 DEF StockInv

\* A line is put back, onto a copy that is not negative unless it was oversold.
LEMMA SaveBackStep ==
    ASSUME StockInv, NEW r \in Requests, SaveBack(r)
    PROVE  StockInv'
<1> DEFINE l == req[r]
<1> DEFINE o == l.order
<1> DEFINE i == l.line
<1> DEFINE p == l.product
<1> DEFINE n == Quantity(o, i)
<1> DEFINE local == NextBack(r)
<1>1. /\ l.pc = "saveBack" /\ SaveProduct(r, p, l.copy + n, local)
      /\ books' = [books EXCEPT ![p] = @ + n]
      /\ held' = [held EXCEPT ![o] = @ - 1]
      /\ raced' = IF l.old THEN raced \cup {p} ELSE raced
      /\ UNCHANGED <<order, items, lapsed, contested, disturbed>>
  BY DEF SaveBack
<1>2. /\ l \in Request /\ Copy(l)
      /\ o \in Orders /\ i \in Nat \ {0} /\ l.last \in Nat /\ Len(Items[o]) \in Nat
      /\ p \in Products /\ n \in Nat \ {0}
      /\ order[o] # "none"
      /\ o \notin disturbed => HeldBy(l, o)
      /\ l.copy \in Int /\ l.copy + n \in Int
  BY <1>1, AtOrder DEF Place, Request
<1>3. /\ local \in Request /\ Place(local) /\ Covered(local)
      /\ local.order = o /\ local.last = l.last
      /\ IF i = l.last THEN local.pc = "saveCancelled"
         ELSE local.pc = "readBack" /\ local.line = i + 1
  BY <1>1, NextBackFits
<1>4. local.pc \in {"readBack", "saveCancelled"} /\ local.pc \notin Creating
  BY <1>3 DEF Creating
<1> HIDE DEF local
<1>5. raced \subseteq raced'
  BY <1>1
<1>6. /\ req' \in [Requests -> Request] /\ \A q \in Requests \ {r} : Same(q)
      /\ req'[r].pc = local.pc /\ req'[r].order = local.order
      /\ req'[r].line = local.line /\ req'[r].last = local.last
      /\ req'[r].product = local.product
      /\ stock' \in [Products -> Int] /\ stock'[p] = l.copy + n
      /\ \A z \in Products \ {p} : stock'[z] = stock[z]
      /\ Copies' /\ Checks'
  BY <1>1, <1>2, <1>3, <1>4, SavedProduct
<1>7. /\ books' \in [Products -> Int] /\ books'[p] = books[p] + n
      /\ \A z \in Products \ {p} : books'[z] = books[z]
  <2>1. books \in [Products -> Int] /\ books[p] + n \in Int
    BY <1>2 DEF StockInv, TypeOK
  <2>2. QED BY <1>1, <1>2, <2>1
<1>8. /\ held' \in [Orders -> Int] /\ held'[o] = held[o] - 1
      /\ \A z \in Orders \ {o} : held'[z] = held[z]
  <2>1. held \in [Orders -> Int] /\ held[o] - 1 \in Int
    BY <1>2 DEF StockInv, TypeOK
  <2>2. QED BY <1>1, <1>2, <2>1
<1>9. TypeOK'
  <2>1. raced' \subseteq Products
    BY <1>1, <1>2 DEF StockInv, TypeOK
  <2>2. QED BY <1>1, <1>6, <1>7, <1>8, <2>1 DEF StockInv, TypeOK
<1>10. Places'
  <2>1. \A q \in {r} : Place(req[q])' /\ req'[q].pc \notin Creating
    BY <1>1, <1>3, <1>4, <1>6 DEF Place
  <2>2. Unborn'
    BY <1>1, <1>2, <1>8 DEF StockInv, Places, Unborn
  <2>3. TypeOK /\ Places
    BY DEF StockInv
  <2>4. QED BY <1>1, <1>6, <2>1, <2>2, <2>3, MoverPlaces
<1>11. OversoldOnlyAfterOldCheck'
  <2>1. p \notin contested' => stock'[p] >= 0
    BY <1>1, <1>2, <1>6 DEF Copy
  <2>2. \A z \in Products \ {p} : z \notin contested' => stock'[z] >= 0
    BY <1>1, <1>6 DEF StockInv, OversoldOnlyAfterOldCheck
  <2>3. QED BY <2>1, <2>2 DEF OversoldOnlyAfterOldCheck
<1>12. StockBooks'
  <2>1. ASSUME p \notin raced' PROVE stock'[p] = books'[p]
    <3>1. ~l.old /\ p \notin raced
      BY <1>1, <2>1
    <3>2. l.copy = stock[p] /\ stock[p] = books[p]
      BY <1>1, <1>2, <3>1 DEF Copy, StockInv, StockBooks
    <3>3. QED BY <1>6, <1>7, <3>2
  <2>2. \A z \in Products \ {p} : z \notin raced' => stock'[z] = books'[z]
    BY <1>5, <1>6, <1>7 DEF StockInv, StockBooks
  <2>3. QED BY <2>1, <2>2 DEF StockBooks
<1>13. Holdings'
  <2>1. \A z \in Orders : order'[z] \in {"none", "pending"} => z \notin lapsed'
    BY <1>1 DEF StockInv, Holdings
  <2>2. \A q \in Requests \ {r} : o \notin disturbed => req[q].order # o
    BY <1>2 DEF StockInv, Holdings, OneHandler
  <2>3. ASSUME NEW q \in Requests \ {r}, req[q].order \in Orders \ disturbed'
        PROVE  /\ order'[req[q].order] = order[req[q].order]
               /\ items'[req[q].order] = items[req[q].order]
               /\ held'[req[q].order] = held[req[q].order]
    BY <1>1, <1>8, <2>2, <2>3
  <2>4. ASSUME o \notin disturbed PROVE HeldBy(req[r], o)'
    <3>1. /\ held[o] = Len(Items[o]) - (i - 1) /\ l.last = Len(Items[o])
          /\ order[o] = "pending" /\ items[o] = Len(Items[o])
      BY <1>1, <1>2, <2>4 DEF HeldBy, Cancelling
    <3>2. held'[o] = Len(Items[o]) - i
      <4>1. held'[o] = (Len(Items[o]) - (i - 1)) - 1
        BY <1>8, <3>1
      <4>2. \A a, b \in Int : (a - (b - 1)) - 1 = a - b
        OBVIOUS
      <4>3. Len(Items[o]) \in Int /\ i \in Int
        BY <1>2
      <4>4. QED BY <4>1, <4>2, <4>3
    <3>3. CASE i = l.last
      BY <1>1, <1>2, <1>3, <1>6, <3>1, <3>2, <3>3 DEF HeldBy, Cancelling
    <3>4. CASE i # l.last
      <4>1. held'[o] = Len(Items[o]) - ((i + 1) - 1)
        BY <1>2, <3>2
      <4>2. QED BY <1>1, <1>3, <1>6, <3>1, <3>4, <4>1 DEF HeldBy, Cancelling
    <3>5. QED BY <3>3, <3>4
  <2>5. \A q \in {r} : req'[q].order \in Orders \ disturbed' =>
           /\ HeldBy(req[q], req[q].order)'
           /\ \A z \in Requests \ {r} : req[z].order # req'[q].order
    <3>1. req'[r].order = o /\ disturbed' = disturbed
      BY <1>1, <1>3, <1>6
    <3>2. o \notin disturbed => HeldBy(req[r], req[r].order)'
      BY <2>4, <3>1 DEF HeldBy
    <3>3. QED BY <2>2, <3>1, <3>2
  <2>6. ASSUME NEW z \in Orders \ disturbed'
        PROVE  \/ Quiet(z)'
               \/ /\ order'[z] = order[z] /\ items'[z] = items[z] /\ held'[z] = held[z]
                  /\ z \in lapsed' <=> z \in lapsed
                  /\ Busy(z) => Busy(z)'
    <3>1. CASE z = o
      BY <1>3, <1>6, <3>1 DEF Quiet, Busy
    <3>2. CASE z # o
      <4>1. Busy(z) => Busy(z)'
        BY <1>6, <3>2 DEF Busy, Same
      <4>2. QED BY <1>1, <1>8, <3>2, <4>1
    <3>3. QED BY <3>1, <3>2
  <2>7. disturbed \subseteq disturbed'
    BY <1>1
  <2>8. QED BY <1>6, <2>1, <2>3, <2>5, <2>6, <2>7, MoverHoldings
<1>14. QED BY <1>6, <1>9, <1>10, <1>11, <1>12, <1>13 DEF StockInv

\* The seller's level is not negative, and enters the books as it is.
LEMMA UpdateProductStep ==
    ASSUME StockInv, NEW p \in Products, NEW level \in Levels, UpdateProduct(p, level)
    PROVE  StockInv'
<1>1. /\ stock' = [stock EXCEPT ![p] = level] /\ books' = [books EXCEPT ![p] = level]
      /\ UNCHANGED <<order, items, held, lapsed, raced, contested, disturbed>>
      /\ level \in Nat
  BY LevelAssumption DEF UpdateProduct
<1>2. /\ req' \in [Requests -> Request]
      /\ \A q \in Requests : req'[q] = Outdated(req[q], p, Holds(q, p)) /\ Same(q)
  BY UpdateProductMoves DEF StockInv
<1>3. TypeOK'
  BY <1>1, <1>2 DEF StockInv, TypeOK
<1>4. Places'
  <2>1. Unborn'
    BY <1>1 DEF StockInv, Places, Unborn
  <2>2. TypeOK /\ Places /\ {} \in SUBSET Requests
    BY DEF StockInv
  <2>3. QED BY <1>1, <1>2, <2>1, <2>2, KeepPlaces
<1>5. Copies' /\ Checks'
  BY <1>1, <1>2, OutdatedKeeps DEF Copies, Checks
<1>6. OversoldOnlyAfterOldCheck' /\ StockBooks'
  BY <1>1 DEF StockInv, TypeOK, OversoldOnlyAfterOldCheck, StockBooks
<1>7. Holdings'
  <2>1. \A z \in Orders : order'[z] \in {"none", "pending"} => z \notin lapsed'
    BY <1>1 DEF StockInv, Holdings
  <2>2. \A z \in Orders : Busy(z) => Busy(z)'
    BY <1>2 DEF Busy, Same
  <2>3. {} \in SUBSET Requests
    OBVIOUS
  <2>4. QED BY <1>1, <1>2, <2>1, <2>2, <2>3, KeepHoldings
<1>8. QED BY <1>3, <1>4, <1>5, <1>6, <1>7 DEF StockInv

-----------------------------------------------------------------------------
(* The webhook, and the theorems.                                          *)

\* The webhook changes the status of an order that is there; whoever is at it
\* then, or has returned its stock, is on record.
LEMMA WebhookStep ==
    ASSUME StockInv, NEW o \in Orders, Settle(o) \/ Lapse(o)
    PROVE  StockInv'
<1> DEFINE status == IF Settle(o) THEN "sold" ELSE "cancelled"
<1>1. /\ status \in {"sold", "cancelled"}
      /\ order[o] # "none" /\ order' = [order EXCEPT ![o] = status]
      /\ UNCHANGED <<stock, items, req, books, held, raced, contested>>
      /\ lapsed' \in {lapsed, lapsed \cup {o}}
      /\ disturbed' \in {disturbed, disturbed \cup {o}}
      /\ Busy(o) => o \in disturbed'
  BY DEF Settle, Lapse
<1>2. status = "sold" =>
        lapsed' = lapsed /\ (order[o] = "cancelled" /\ o \notin lapsed => o \in disturbed')
  BY DEF Settle
<1>3. status = "cancelled" =>
        lapsed' = IF order[o] = "cancelled" THEN lapsed ELSE lapsed \cup {o}
  BY DEF Lapse
<1> HIDE DEF status
<1>4. /\ order' \in [Orders -> {"none", "pending", "sold", "cancelled"}] /\ order'[o] = status
      /\ \A z \in Orders \ {o} : order'[z] = order[z]
  BY <1>1 DEF StockInv, TypeOK
<1>5. TypeOK'
  BY <1>1, <1>4 DEF StockInv, TypeOK
<1>6. \A q \in Requests : Same(q)
  BY <1>1 DEF Same
<1>7. Places'
  <2>1. Unborn'
    BY <1>1, <1>4 DEF StockInv, Places, Unborn
  <2>2. TypeOK /\ Places /\ {} \in SUBSET Requests
    BY DEF StockInv
  <2>3. ASSUME NEW q \in Requests, req[q].pc # "idle"
        PROVE  order'[req[q].order] = "none" <=> order[req[q].order] = "none"
    <3>1. req[q].order \in Orders
      BY <2>3, AtOrder
    <3>2. QED BY <1>1, <1>4, <3>1
  <2>4. QED BY <1>1, <1>6, <2>1, <2>2, <2>3, KeepPlaces
<1>8. Copies' /\ Checks' /\ OversoldOnlyAfterOldCheck' /\ StockBooks'
  <2>1. {} \in SUBSET Requests
    OBVIOUS
  <2>2. QED BY <1>1, <2>1, KeepStock
<1>9. Holdings'
  <2>1. \A z \in Orders : order'[z] \in {"none", "pending"} => z \notin lapsed'
    BY <1>1, <1>4 DEF StockInv, Holdings
  <2>2. ASSUME NEW q \in Requests, req[q].order \in Orders \ disturbed'
        PROVE  order'[req[q].order] = order[req[q].order]
    BY <1>1, <1>4, <2>2 DEF Busy
  <2>3. ASSUME NEW z \in Orders \ disturbed'
        PROVE  \/ Quiet(z)'
               \/ /\ order'[z] = order[z]
                  /\ z \in lapsed' <=> z \in lapsed
                  /\ Busy(z) => Busy(z)'
    <3>1. CASE z = o
      <4>1. ~Busy(o) /\ Quiet(o)
        BY <1>1, <2>3, <3>1, HoldingsQuiet DEF StockInv
      <4>2. CASE status = "sold"
        <5>1. held[o] = Len(Items[o]) /\ items[o] = Len(Items[o])
          BY <1>1, <1>2, <2>3, <3>1, <4>1, <4>2 DEF Quiet
        <5>2. QED BY <1>1, <1>4, <3>1, <4>2, <5>1 DEF Quiet
      <4>3. CASE status = "cancelled"
        <5>1. /\ items[o] = Len(Items[o])
              /\ held[o] = IF order[o] = "cancelled" /\ o \notin lapsed THEN 0 ELSE Len(Items[o])
          BY <1>1, <4>1 DEF Quiet
        <5>2. held[o] = IF o \notin lapsed' THEN 0 ELSE Len(Items[o])
          BY <1>3, <4>3, <5>1
        <5>3. QED BY <1>1, <1>4, <3>1, <4>3, <5>1, <5>2 DEF Quiet
      <4>4. QED BY <1>1, <4>2, <4>3
    <3>2. CASE z # o
      BY <1>1, <1>4, <3>2 DEF Busy
    <3>3. QED BY <3>1, <3>2
  <2>4. disturbed \subseteq disturbed' /\ {} \in SUBSET Requests
    BY <1>1
  <2>5. \A z \in Orders \ disturbed' :
               \/ Quiet(z)'
               \/ /\ order'[z] = order[z] /\ items'[z] = items[z] /\ held'[z] = held[z]
                  /\ z \in lapsed' <=> z \in lapsed
                  /\ Busy(z) => Busy(z)'
    BY <1>1, <2>3
  <2>6. \A q \in Requests : req[q].order \in Orders \ disturbed' =>
               /\ order'[req[q].order] = order[req[q].order]
               /\ items'[req[q].order] = items[req[q].order]
               /\ held'[req[q].order] = held[req[q].order]
    BY <1>1, <2>2
  <2>7. QED BY <1>6, <2>1, <2>4, <2>5, <2>6, KeepHoldings
<1>10. QED BY <1>5, <1>7, <1>8, <1>9 DEF StockInv

\* The initial stock, without orders, satisfies the invariant.
LEMMA InitInv == Init => StockInv
<1> SUFFICES ASSUME Init PROVE StockInv
  OBVIOUS
<1>1. \A q \in Requests : req[q] = Idle
  BY DEF Init
<1>2. TypeOK
  <2>1. Initial \in [Products -> Int] /\ Initial \in [Products -> Nat]
    BY LevelAssumption
  <2>2. \A o \in Orders : items[o] <= Len(Items[o])
    BY LineTypes DEF Init
  <2>3. req \in [Requests -> Request]
    BY IdleRequest DEF Init
  <2>4. QED BY <2>1, <2>2, <2>3 DEF Init, TypeOK
<1>3. Places
  <2>1. \A q \in Requests : Place(req[q]) /\ req[q].pc \notin Creating
    BY <1>1, IdleFits, IdleRequest DEF Creating
  <2>2. QED BY <2>1 DEF Init, Places, OneCreator, Unborn
<1>4. Copies /\ Checks
  BY <1>1, IdleFits DEF Copies, Checks
<1>5. OversoldOnlyAfterOldCheck /\ StockBooks
  BY LevelAssumption DEF Init, OversoldOnlyAfterOldCheck, StockBooks
<1>6. Holdings
  <2>1. \A q \in Requests : req[q].order \notin Orders
    BY <1>1, IdleFits
  <2>2. QED BY <2>1 DEF Init, Holdings, OneHandler, HeldExactly
<1>7. QED BY <1>2, <1>3, <1>4, <1>5, <1>6 DEF StockInv

\* A step that changes nothing.
LEMMA Stutter == StockInv /\ UNCHANGED vars => StockInv'
  BY DEF StockInv, TypeOK, Places, Place, OneCreator, Unborn, Copies, Copy, Checks, Covered,
         Pending, OversoldOnlyAfterOldCheck, StockBooks, Holdings, OneHandler, HeldBy, Busy,
         HeldExactly, vars, rows, history

\* Every step keeps the invariant.
LEMMA StepInv == StockInv /\ [Next]_vars => StockInv'
<1> SUFFICES ASSUME StockInv, [Next]_vars PROVE StockInv'
  OBVIOUS
<1>1. ASSUME NEW r \in Requests, Step(r) PROVE StockInv'
  BY <1>1, CreateOrderStep, CancelOrderStep, CheckLineStep, InsertOrderStep, InsertItemStep,
     ReadProductStep, SaveTakeStep, SaveBackStep, SaveCancelledStep, HalfwayStep DEF Step
<1>2. ASSUME NEW p \in Products, NEW level \in Levels, UpdateProduct(p, level) PROVE StockInv'
  BY <1>2, UpdateProductStep
<1>3. ASSUME NEW o \in Orders, Settle(o) \/ Lapse(o) PROVE StockInv'
  BY <1>3, WebhookStep
<1>4. CASE UNCHANGED vars
  BY <1>4, Stutter
<1>5. QED BY <1>1, <1>2, <1>3, <1>4 DEF Next

\* The inductive invariant holds in every reachable state.
THEOREM StockInvariant == Spec => []StockInv
<1>1. QED BY InitInv, StepInv, PTL DEF Spec

\* Every variable keeps its type, and no order has more rows than lines.
THEOREM StockTypes == Spec => []TypeOK
<1>1. StockInv => TypeOK
  BY DEF StockInv
<1>2. QED BY <1>1, StockInvariant, PTL

\* The stock of a product no outdated copy was saved to is what its changes
\* add up to.
THEOREM StockIsItsBooks == Spec => []StockBooks
<1>1. StockInv => StockBooks
  BY DEF StockInv
<1>2. QED BY <1>1, StockInvariant, PTL

\* An order nobody disturbed holds all its lines, or none if its customer
\* cancelled it, for orders of any length.
THEOREM OrdersHoldTheirLines == Spec => []HeldExactly
<1>1. StockInv => HeldExactly
  BY DEF StockInv, Holdings
<1>2. QED BY <1>1, StockInvariant, PTL

\* No product is oversold but by a line whose check was outdated.
THEOREM OversoldByOldCheck == Spec => []OversoldOnlyAfterOldCheck
<1>1. StockInv => OversoldOnlyAfterOldCheck
  BY DEF StockInv
<1>2. QED BY <1>1, StockInvariant, PTL
=============================================================================
