---------------------------- MODULE ScreensProofs ----------------------------
(***************************************************************************)
(* Theorems about the pages of the web client, for any number of rows,     *)
(* commands, loads and things to look for.                                 *)
(***************************************************************************)
EXTENDS Screens, FiniteSetTheorems, SequenceTheorems, TLAPS

USE RowAssumption, KeyAssumption, BoundAssumption

(***************************************************************************)
(* What the records of the pages have in common, and what the tables of    *)
(* the pages and of the server owe one another.                            *)
(***************************************************************************)
\* Status t is s, or one that a row may have later.
After(s, t) == s = t \/ Rank[s] < Rank[t]

\* A page that offers command n for rows in status s: once the row is in t, the
\* server refuses it only if that is another status or it is a review, and it
\* changes the row only if t is s, or it rejects what has been approved.
Offered(q, s, n) ==
    \A t \in Status : After(s, t) =>
        /\ t = s /\ t \notin q.api[n].from => n = "review"
        /\ t # s /\ t \in q.api[n].from =>
              q.api[n].to = t \/ (t = "approved" /\ n = "rejected")

\* The commands of an interface lead on.
LeadsOn(api) ==
    \A n \in DOMAIN api :
        /\ n \in CommandNames
        /\ api[n].from \subseteq Status /\ api[n].to \in Status
        /\ \A s \in api[n].from : After(s, api[n].to)

\* What a page offers of an interface.
OffersOf(q) ==
    \A s \in DOMAIN q.offers : \A n \in q.offers[s] :
        n \in DOMAIN q.api /\ n # "create" /\ Offered(q, s, n)

\* Which traits go together.
Traits(q) ==
    /\ q.begins \in BOOLEAN /\ q.spins \in BOOLEAN /\ q.clears \in BOOLEAN
    /\ q.guarded \in BOOLEAN /\ q.keeps \in BOOLEAN /\ q.creates \in BOOLEAN
    /\ q.guarded => ~q.keeps /\ q.asks = {}
    /\ q.keeps => q.begins /\ ~q.keyed /\ ~q.clears /\ ~q.forgets
    /\ ~q.begins => ~q.creates /\ DOMAIN q.offers = {}
    /\ q.creates => "create" \in DOMAIN q.api

-----------------------------------------------------------------------------
(* The tables.                                                             *)

\* A rank is a number, and "absent" is first.
LEMMA RankFacts ==
    /\ \A s \in Status : Rank[s] \in Nat
    /\ "absent" \in Status
    /\ \A s \in Status : After("absent", s)
BY DEF Rank, After, Status, UserStatus, WithdrawalStatus, ShipmentStatus, OrderStatus, PlainStatus

\* What is later than a later status is later.
LEMMA AfterAfter ==
    ASSUME NEW s \in Status, NEW t \in Status, NEW u \in Status, After(s, t), After(t, u)
    PROVE  After(s, u)
BY RankFacts DEF After

\* Users.
LEMMA UserApiLeadsOn == LeadsOn(UserApi)
BY DEF LeadsOn, UserApi, After, Rank, Status, UserStatus, CommandNames, Create, VerifyUser

\* Withdrawals.
LEMMA WithdrawalApiLeadsOn == LeadsOn(WithdrawalApi)
BY DEF LeadsOn, WithdrawalApi, After, Rank, Status, WithdrawalStatus, CommandNames, Create,
       UpdateWithdrawal

\* Shipments.
LEMMA ShipmentApiLeadsOn == LeadsOn(ShipmentApi)
BY DEF LeadsOn, ShipmentApi, After, Rank, Status, ShipmentStatus, CommandNames, Create,
       UpdateShipmentStatus, validTransitions

\* Orders.
LEMMA OrderApiLeadsOn == LeadsOn(OrderApi)
BY DEF LeadsOn, OrderApi, After, Rank, Status, OrderStatus, CommandNames, Create,
       CreatePayment, CancelOrder, CreateReview

\* Rows that are only created and deleted.
LEMMA PlainApiLeadsOn == LeadsOn(PlainApi)
BY DEF LeadsOn, PlainApi, After, Rank, Status, PlainStatus, CommandNames, Create,
       DeleteShrimpType

\* Rooms.
LEMMA RoomApiLeadsOn == LeadsOn(RoomApi)
BY DEF LeadsOn, RoomApi, After, Rank, Status, PlainStatus, CommandNames

\* What holds of a page.
WellMade(q) == LeadsOn(q.api) /\ OffersOf(q) /\ Traits(q)

\* A page without commands offers none.
LEMMA NothingOffered ==
    ASSUME NEW q, q.offers = Nothing
    PROVE  OffersOf(q) /\ DOMAIN q.offers = {}
BY DEF OffersOf, Nothing

\* The pages that only show something.
LEMMA ShowsWellMade ==
    ASSUME NEW api, LeadsOn(api)
    PROVE  WellMade(Shows(api))
<1>1. Shows(api).offers = Nothing /\ Shows(api).api = api
  BY DEF Shows
<1>2. Traits(Shows(api))
  BY DEF Traits, Shows
<1>3. QED BY <1>1, <1>2, NothingOffered DEF WellMade

\* Shipments, for the administrator.
LEMMA AdminShipmentsWellMade == WellMade(AdminShipments)
<1>1. AdminShipments.offers = Nothing /\ AdminShipments.api = ShipmentApi
  BY DEF AdminShipments, Offers, Shows
<1>2. Traits(AdminShipments)
  BY DEF Traits, AdminShipments, Offers, Shows, Nothing, ShipmentApi
<1>3. QED BY <1>1, <1>2, NothingOffered, ShipmentApiLeadsOn DEF WellMade

\* Farms.
LEMMA PetambakFarmsWellMade == WellMade(PetambakFarms)
<1>1. PetambakFarms.offers = Nothing /\ PetambakFarms.api = PlainApi
  BY DEF PetambakFarms, Offers, Shows
<1>2. Traits(PetambakFarms)
  BY DEF Traits, PetambakFarms, Offers, Shows, Nothing, PlainApi
<1>3. QED BY <1>1, <1>2, NothingOffered, PlainApiLeadsOn DEF WellMade

\* Products, for their seller.
LEMMA PetambakProductsWellMade == WellMade(PetambakProducts)
<1>1. PetambakProducts.offers = Nothing /\ PetambakProducts.api = PlainApi
  BY DEF PetambakProducts, Offers, Shows
<1>2. Traits(PetambakProducts)
  BY DEF Traits, PetambakProducts, Offers, Shows, Nothing, PlainApi
<1>3. QED BY <1>1, <1>2, NothingOffered, PlainApiLeadsOn DEF WellMade

\* Withdrawals, for who asks for them.
LEMMA PetambakWithdrawalsWellMade == WellMade(PetambakWithdrawals)
<1>1. PetambakWithdrawals.offers = Nothing /\ PetambakWithdrawals.api = WithdrawalApi
  BY DEF PetambakWithdrawals, Offers, Shows
<1>2. Traits(PetambakWithdrawals)
  BY DEF Traits, PetambakWithdrawals, Offers, Shows, Nothing, WithdrawalApi
<1>3. QED BY <1>1, <1>2, NothingOffered, WithdrawalApiLeadsOn DEF WellMade

\* The market.
LEMMA MarketplaceWellMade == WellMade(Marketplace)
<1>1. Marketplace.offers = Nothing /\ Marketplace.api = PlainApi
  BY DEF Marketplace, Offers, Shows
<1>2. Traits(Marketplace)
  BY DEF Traits, Marketplace, Offers, Shows, Nothing, PlainApi
<1>3. QED BY <1>1, <1>2, NothingOffered, PlainApiLeadsOn DEF WellMade

\* One product.
LEMMA ProductDetailWellMade == WellMade(ProductDetail)
<1>1. ProductDetail.offers = Nothing /\ ProductDetail.api = PlainApi
  BY DEF ProductDetail, Offers, Shows
<1>2. Traits(ProductDetail)
  BY DEF Traits, ProductDetail, Offers, Shows, Nothing, PlainApi
<1>3. QED BY <1>1, <1>2, NothingOffered, PlainApiLeadsOn DEF WellMade

\* The trace of a batch.
LEMMA TraceabilityWellMade == WellMade(Traceability)
<1>1. Traceability.offers = Nothing /\ Traceability.api = PlainApi
  BY DEF Traceability, Offers, Shows
<1>2. Traits(Traceability)
  BY DEF Traits, Traceability, Offers, Shows, Nothing, PlainApi
<1>3. QED BY <1>1, <1>2, NothingOffered, PlainApiLeadsOn DEF WellMade

\* The rooms of the chat.
LEMMA ChatWellMade == WellMade(Chat)
<1>1. Chat.offers = Nothing /\ Chat.api = RoomApi
  BY DEF Chat, Offers, Shows
<1>2. Traits(Chat)
  BY DEF Traits, Chat, Offers, Shows, Nothing, RoomApi
<1>3. QED BY <1>1, <1>2, NothingOffered, RoomApiLeadsOn DEF WellMade

\* Users.
LEMMA AdminUsersWellMade == WellMade(AdminUsers)
<1>1. AdminUsers.api = UserApi
  BY DEF AdminUsers, Offers, Shows
<1>2. Traits(AdminUsers)
  BY DEF Traits, AdminUsers, Offers, Shows, Nothing, UserApi
<1>3. OffersOf(AdminUsers)
  BY DEF OffersOf, Offered, After, Rank, Status, AdminUsers, Offers, Shows, UserApi, Create, VerifyUser, UserStatus
<1>4. QED BY <1>1, <1>2, <1>3, UserApiLeadsOn DEF WellMade

\* Withdrawals, for the administrator.
LEMMA AdminWithdrawalsWellMade == WellMade(AdminWithdrawals)
<1>1. AdminWithdrawals.api = WithdrawalApi
  BY DEF AdminWithdrawals, Offers, Shows
<1>2. Traits(AdminWithdrawals)
  BY DEF Traits, AdminWithdrawals, Offers, Shows, Nothing, WithdrawalApi
<1>3. OffersOf(AdminWithdrawals)
  BY DEF OffersOf, Offered, After, Rank, Status, AdminWithdrawals, Offers, Shows, WithdrawalApi, Create, UpdateWithdrawal, WithdrawalStatus
<1>4. QED BY <1>1, <1>2, <1>3, WithdrawalApiLeadsOn DEF WellMade

\* Types of shrimp.
LEMMA AdminShrimpTypesWellMade == WellMade(AdminShrimpTypes)
<1>1. AdminShrimpTypes.api = PlainApi
  BY DEF AdminShrimpTypes, Offers, Shows
<1>2. Traits(AdminShrimpTypes)
  BY DEF Traits, AdminShrimpTypes, Offers, Shows, Nothing, PlainApi
<1>3. OffersOf(AdminShrimpTypes)
  BY DEF OffersOf, Offered, After, Rank, Status, AdminShrimpTypes, Offers, Shows, PlainApi, Create, DeleteShrimpType, PlainStatus
<1>4. QED BY <1>1, <1>2, <1>3, PlainApiLeadsOn DEF WellMade

\* Shipments, for their courier.
LEMMA LogistikShipmentsWellMade == WellMade(LogistikShipments)
<1>1. LogistikShipments.api = ShipmentApi
  BY DEF LogistikShipments, Offers, Shows
<1>2. Traits(LogistikShipments)
  BY DEF Traits, LogistikShipments, Offers, Shows, Nothing, ShipmentApi
<1>3. OffersOf(LogistikShipments)
  BY DEF OffersOf, Offered, After, Rank, Status, LogistikShipments, Offers, Shows, ShipmentApi, Create, UpdateShipmentStatus, ShipmentStatus, validTransitions, nextStatus
<1>4. QED BY <1>1, <1>2, <1>3, ShipmentApiLeadsOn DEF WellMade

\* Orders, for their customer.
LEMMA KonsumenOrdersWellMade == WellMade(KonsumenOrders)
<1>1. KonsumenOrders.api = OrderApi
  BY DEF KonsumenOrders, Offers, Shows
<1>2. Traits(KonsumenOrders)
  BY DEF Traits, KonsumenOrders, Offers, Shows, Nothing, OrderApi
<1>3. OffersOf(KonsumenOrders)
  BY DEF OffersOf, Offered, After, Rank, Status, KonsumenOrders, Offers, Shows, OrderApi, Create, CreatePayment, CancelOrder, CreateReview, OrderStatus
<1>4. QED BY <1>1, <1>2, <1>3, OrderApiLeadsOn DEF WellMade
\* Every page.
LEMMA PagesWellMade == \A p \in DOMAIN PageOf : WellMade(PageOf[p])
<1>1. WellMade(AdminOrders) /\ WellMade(AdminDashboard) /\ WellMade(PetambakSales)
      /\ WellMade(KonsumenDashboard)
  BY ShowsWellMade, OrderApiLeadsOn
     DEF AdminOrders, AdminDashboard, PetambakSales, KonsumenDashboard
<1>2. WellMade(AdminTraceabilityLogs) /\ WellMade(PetambakBatches)
      /\ WellMade(PetambakCultivation) /\ WellMade(PetambakHarvests)
      /\ WellMade(PetambakDashboard)
  BY ShowsWellMade, PlainApiLeadsOn
     DEF AdminTraceabilityLogs, PetambakBatches, PetambakCultivation, PetambakHarvests,
         PetambakDashboard
<1>3. WellMade(LogistikDashboard)
  BY ShowsWellMade, ShipmentApiLeadsOn DEF LogistikDashboard
<1>4. QED
  BY <1>1, <1>2, <1>3, AdminUsersWellMade, AdminWithdrawalsWellMade, AdminShipmentsWellMade,
     AdminShrimpTypesWellMade, PetambakFarmsWellMade, PetambakProductsWellMade,
     PetambakWithdrawalsWellMade, LogistikShipmentsWellMade, KonsumenOrdersWellMade,
     MarketplaceWellMade, ProductDetailWellMade, TraceabilityWellMade, ChatWellMade
     DEF PageOf

-----------------------------------------------------------------------------
(* The inductive invariant.                                                *)

\* A dialog is closed, adds a row, or is about a row as it was once.
DialogKnown ==
    \/ dialog.names = {}
    \/ dialog.names = {"create"} /\ dialog.row = NoRow /\ P.creates
    \/ /\ dialog.row \in Rows /\ After(dialog.seen, status[dialog.row])
       /\ dialog.names \subseteq Buttons(dialog.seen) \cap P.asks

\* A command adds a row or is one of those that were offered for its row, which
\* has left the status it was shown with if the server refused; what the server
\* has accepted is done.
CommandKnown(x) ==
    /\ x.state = "asked" =>
          \/ x.row = NoRow /\ x.name = "create" /\ P.creates
          \/ /\ x.row \in Rows /\ x.name \in Buttons(x.seen)
             /\ After(x.seen, status[x.row])
    /\ x.state = "accepted" =>
          /\ P.begins
          /\ x.row \in Rows /\ x.name \in DOMAIN P.api
          /\ After(P.api[x.name].to, status[x.row])
    /\ x.state = "refused" =>
          /\ x.row \in Rows
          /\ x.name = "review" \/ (x.seen # status[x.row] /\ After(x.seen, status[x.row]))

\* What is shown of a row, on its way or known to have been done is what the row
\* is or was.
RowsKnown ==
    /\ \A r \in Rows : After(shown[r], status[r]) /\ After(known[r], status[r])
    /\ \A i \in DOMAIN loads : \A r \in Rows : After(loads[i].rows[r], status[r])
    /\ ~P.begins => known = Empty

\* The button that is disabled while a row is added.
ButtonKnown ==
    P.guarded =>
        /\ ~creating => \A c \in Slots : ~Creates(sent[c])
        /\ creating => \E c \in Slots : /\ Creates(sent[c])
                                        /\ \A d \in Slots \ {c} : ~Creates(sent[d])

\* On a page whose loads take the error away, the load that is alone has.
ErrorKnown ==
    P.clears =>
        /\ error => failed \/ overlap
        /\ ~overlap => Len(loads) <= 1 /\ (loads # <<>> => ~error)

\* No list that was shown before the page's command was done, or for something
\* that is not looked for any more; unless a newer one has been shown.
Fresh(x, done) ==
    x.state = "answered" => \A r \in Rows : Rank[x.rows[r]] >= Rank[done[r]]

Current(x, k, done) == x.late \/ (x.key = k /\ Fresh(x, done))

ShownCurrent == overtaken \/ (shownKey = key /\ \A r \in Rows : Rank[shown[r]] >= Rank[known[r]])

\* The load that was started last is current, and what is shown once there is
\* none; in a store, all loads and what is shown at any time.
ListKnown ==
    /\ P.keeps => ShownCurrent /\ \A i \in DOMAIN loads : Current(loads[i], key, known)
    /\ ~P.keeps /\ ~error => /\ loads = <<>> => ShownCurrent
                             /\ loads # <<>> => Current(loads[Len(loads)], key, known)

PageInv ==
    /\ TypeOK
    /\ DialogKnown /\ RowsKnown
    /\ \A c \in Slots : CommandKnown(sent[c])
    /\ ButtonKnown /\ ErrorKnown /\ ListKnown
    /\ loading => loads # <<>>

-----------------------------------------------------------------------------
(* What the proofs of the steps need.                                      *)

\* The types, and the page's record.
LEMMA InvFacts ==
    ASSUME PageInv
    PROVE  /\ page \in DOMAIN PageOf /\ WellMade(P)
           /\ loading \in BOOLEAN /\ error \in BOOLEAN /\ creating \in BOOLEAN
           /\ overtaken \in BOOLEAN /\ overlap \in BOOLEAN /\ failed \in BOOLEAN
           /\ key \in Keys /\ shownKey \in Keys
           /\ shown \in [Rows -> Status] /\ status \in [Rows -> Status]
           /\ known \in [Rows -> Status]
           /\ dialog \in [row : Rows \cup {NoRow}, names : SUBSET CommandNames, seen : Status]
           /\ loads \in Seq(Load) /\ Len(loads) \in Nat /\ Len(loads) <= MaxLoads
           /\ DOMAIN loads = 1 .. Len(loads)
           /\ \A i \in DOMAIN loads : loads[i] \in Load
           /\ sent \in [Slots -> Command]
           /\ \A c \in Slots : sent[c] \in Command
<1>1. TypeOK
  BY DEF PageInv
<1>2. WellMade(P)
  BY <1>1, PagesWellMade DEF TypeOK, P
<1>3. QED BY <1>1, <1>2 DEF TypeOK

\* Where the page stays, so does its record.
LEMMA SamePage ==
    ASSUME page' = page
    PROVE  P' = P
BY DEF P

\* A button is a command of the page that adds nothing.
LEMMA ButtonFacts ==
    ASSUME WellMade(P), NEW s, NEW n \in Buttons(s)
    PROVE  /\ n \in DOMAIN P.api /\ n \in CommandNames /\ n # "create"
           /\ Offered(P, s, n) /\ P.begins
<1>1. s \in DOMAIN P.offers /\ n \in P.offers[s]
  BY DEF Buttons
<1>2. n \in DOMAIN P.api /\ n # "create" /\ Offered(P, s, n)
  BY <1>1 DEF WellMade, OffersOf
<1>3. QED BY <1>1, <1>2 DEF WellMade, LeadsOn, Traits

\* The command that adds a row.
LEMMA CreateFacts ==
    ASSUME WellMade(P), P.creates
    PROVE  "create" \in DOMAIN P.api /\ "create" \in CommandNames /\ P.begins
BY DEF WellMade, Traits, LeadsOn

\* Nothing is shown, nor asked of a load yet.
LEMMA EmptyFacts ==
    ASSUME NEW k \in Keys, NEW b \in BOOLEAN
    PROVE  /\ Empty \in [Rows -> Status] /\ \A r \in Rows : Empty[r] = "absent"
           /\ Asked(k) \in Load
           /\ Asked(k).state = "asked" /\ Asked(k).key = k /\ ~Asked(k).late
           /\ Asked(k).rows = Empty
BY RankFacts DEF Empty, Asked, Load

\* A load that is started is the last.
LEMMA StartFacts ==
    ASSUME PageInv, NEW k \in Keys, Start(k)
    PROVE  /\ loads' \in Seq(Load) /\ Len(loads') = Len(loads) + 1 /\ Len(loads') <= MaxLoads
           /\ loads'[Len(loads')] = Asked(k)
           /\ DOMAIN loads' = 1 .. Len(loads')
           /\ \A i \in DOMAIN loads : loads'[i] = loads[i]
           /\ loads' # <<>>
           /\ loading' \in BOOLEAN /\ error' \in BOOLEAN /\ overlap' \in BOOLEAN
           /\ error' => error /\ ~P.clears
           /\ ~overlap' => loads = <<>>
<1>1. Asked(k) \in Load
  BY EmptyFacts
<1>2. loads' = Append(loads, Asked(k)) /\ Len(loads) < MaxLoads
  BY DEF Start
<1>3. loads \in Seq(Load) /\ Len(loads) \in Nat
  BY InvFacts
<1>4. loads' \in Seq(Load) /\ Len(loads') = Len(loads) + 1
      /\ loads'[Len(loads')] = Asked(k) /\ \A i \in DOMAIN loads : loads'[i] = loads[i]
  BY <1>1, <1>2, <1>3
<1>5. P.spins \in BOOLEAN /\ P.clears \in BOOLEAN
  BY InvFacts DEF WellMade, Traits
<1>6. loading' \in BOOLEAN /\ error' \in BOOLEAN /\ overlap' \in BOOLEAN
  BY InvFacts, <1>5 DEF Start
<1>7. (error' => error /\ ~P.clears) /\ (~overlap' => loads = <<>>)
  BY InvFacts, <1>5 DEF Start
<1>8. QED BY <1>1, <1>2, <1>3, <1>4, <1>6, <1>7

\* The places behind the one that is taken out move up by one.
LEMMA PastTheGap ==
    ASSUME NEW n \in Nat, NEW i \in Nat, NEW j \in Nat, NEW a \in Int, NEW c \in Int,
           a = i - 1, a + c = n - 1, i >= 1, j >= i, j <= n - 1
    PROVE  /\ j - (i - 1) \in 1 .. (n - i) /\ i + (j - (i - 1)) = j + 1
           /\ ~(j <= a) /\ j - a = j - (i - 1) /\ j \in 1 .. a + c
OBVIOUS

\* A load that is over leaves the others, in their order; the earlier ones are
\* late if it was answered.
LEMMA WithoutFacts ==
    ASSUME PageInv, NEW i \in DOMAIN loads, NEW ok \in BOOLEAN, NEW w, w = Without(i, ok)
    PROVE  /\ w \in Seq(Load) /\ Len(w) = Len(loads) - 1 /\ DOMAIN w = 1 .. (Len(loads) - 1)
           /\ \A j \in DOMAIN w : \E n \in DOMAIN loads :
                /\ n = IF j < i THEN j ELSE j + 1
                /\ w[j].state = loads[n].state /\ w[j].key = loads[n].key
                /\ w[j].rows = loads[n].rows
                /\ loads[n].late => w[j].late
                /\ ok /\ j < i => w[j].late
<1> DEFINE rest == [j \in DOMAIN loads |-> [loads[j] EXCEPT !.late = @ \/ (ok /\ j < i)]]
<1>1. loads \in Seq(Load) /\ Len(loads) \in Nat /\ DOMAIN loads = 1 .. Len(loads)
  BY InvFacts
<1>2. ASSUME NEW x \in Load, NEW b \in BOOLEAN
      PROVE  /\ [x EXCEPT !.late = @ \/ b] \in Load
             /\ [x EXCEPT !.late = @ \/ b].state = x.state
             /\ [x EXCEPT !.late = @ \/ b].key = x.key
             /\ [x EXCEPT !.late = @ \/ b].rows = x.rows
             /\ x.late \/ b => [x EXCEPT !.late = @ \/ b].late
  BY <1>2 DEF Load
<1>3. ASSUME NEW j \in DOMAIN loads
      PROVE  /\ rest[j] \in Load /\ rest[j].state = loads[j].state
             /\ rest[j].key = loads[j].key /\ rest[j].rows = loads[j].rows
             /\ loads[j].late => rest[j].late
             /\ ok /\ j < i => rest[j].late
  <2> DEFINE b == ok /\ j < i
  <2>1. rest[j] = [loads[j] EXCEPT !.late = @ \/ b]
    OBVIOUS
  <2>2. loads[j] \in Load /\ b \in BOOLEAN
    BY <1>1
  <2> HIDE DEF rest
  <2>3. \A c \in BOOLEAN : LET y == [loads[j] EXCEPT !.late = @ \/ c]
                           IN  /\ y \in Load /\ y.state = loads[j].state
                               /\ y.key = loads[j].key /\ y.rows = loads[j].rows
                               /\ loads[j].late => y.late
                               /\ c => y.late
    BY <1>2, <2>2
  <2>4. QED BY <2>1, <2>2, <2>3
<1>4. DOMAIN rest = 1 .. Len(loads)
  BY <1>1
<1> HIDE DEF rest
<1>5. rest \in [1 .. Len(loads) -> Load]
  <2>1. rest = [j \in DOMAIN rest |-> rest[j]]
    BY DEF rest
  <2>2. QED BY <1>1, <1>3, <1>4, <2>1
<1>6. rest \in Seq(Load) /\ Len(rest) = Len(loads)
  BY <1>1, <1>5
<1>7. Without(i, ok) = SubSeq(rest, 1, i - 1) \o SubSeq(rest, i + 1, Len(rest))
  BY DEF Without, RemoveAt, rest
<1>8. SubSeq(rest, 1, i - 1) \in Seq(Load) /\ Len(SubSeq(rest, 1, i - 1)) = i - 1
      /\ \A j \in 1 .. (i - 1) : SubSeq(rest, 1, i - 1)[j] = rest[j]
  BY <1>1, <1>6
<1>9. SubSeq(rest, i + 1, Len(rest)) \in Seq(Load)
      /\ Len(SubSeq(rest, i + 1, Len(rest))) = Len(loads) - i
      /\ \A j \in 1 .. (Len(loads) - i) : SubSeq(rest, i + 1, Len(rest))[j] = rest[i + j]
  BY <1>1, <1>6
<1>10. /\ Without(i, ok) \in Seq(Load) /\ Len(Without(i, ok)) = Len(loads) - 1
       /\ \A j \in 1 .. (Len(loads) - 1) :
             Without(i, ok)[j] = rest[IF j < i THEN j ELSE j + 1]
  <2>1. PICK a \in Seq(Load) : a = SubSeq(rest, 1, i - 1)
    BY <1>8
  <2>2. PICK c \in Seq(Load) : c = SubSeq(rest, i + 1, Len(rest))
    BY <1>9
  <2>3. Without(i, ok) = a \o c /\ Len(a) = i - 1 /\ Len(c) = Len(loads) - i
    BY <1>7, <1>8, <1>9, <2>1, <2>2
  <2>4. /\ a \o c \in Seq(Load) /\ Len(a \o c) = Len(a) + Len(c)
        /\ \A j \in 1 .. Len(a) + Len(c) :
              (a \o c)[j] = IF j <= Len(a) THEN a[j] ELSE c[j - Len(a)]
    BY ConcatProperties
  <2>5. i \in 1 .. Len(loads) /\ Len(a) + Len(c) = Len(loads) - 1
    BY <1>1, <2>3
  <2>6. ASSUME NEW j \in 1 .. (Len(loads) - 1)
        PROVE  (a \o c)[j] = rest[IF j < i THEN j ELSE j + 1]
    <3>1. CASE j < i
      <4>1. j \in 1 .. (i - 1) /\ j <= Len(a) /\ j \in 1 .. Len(a) + Len(c)
        BY <1>1, <2>3, <2>5, <3>1
      <4>2. QED BY <1>8, <2>1, <2>4, <3>1, <4>1
    <3>2. CASE ~(j < i)
      <4>1. /\ j - (i - 1) \in 1 .. (Len(loads) - i) /\ i + (j - (i - 1)) = j + 1
            /\ ~(j <= Len(a)) /\ j - Len(a) = j - (i - 1) /\ j \in 1 .. Len(a) + Len(c)
        <5>1. j \in Nat /\ i \in Nat /\ Len(loads) \in Nat /\ Len(a) = i - 1 /\ j >= i
              /\ Len(a) \in Int /\ Len(c) \in Int
              /\ j <= Len(loads) - 1 /\ Len(a) + Len(c) = Len(loads) - 1
          BY <1>1, <2>3, <2>5, <3>2
        <5>2. i >= 1
          BY <1>1
        <5>3. QED BY <5>1, <5>2, PastTheGap
      <4>2. (a \o c)[j] = c[j - (i - 1)]
        BY <2>4, <4>1
      <4>3. c[j - (i - 1)] = rest[i + (j - (i - 1))]
        BY <1>9, <2>2, <4>1
      <4>4. QED BY <3>2, <4>1, <4>2, <4>3
    <3>3. QED BY <3>1, <3>2
  <2>7. QED BY <2>3, <2>4, <2>5, <2>6
<1>11. DOMAIN w = 1 .. (Len(loads) - 1)
  BY <1>1, <1>10
<1>12. ASSUME NEW j \in DOMAIN w, NEW n, n = IF j < i THEN j ELSE j + 1
       PROVE  /\ n \in DOMAIN loads
              /\ w[j].state = loads[n].state /\ w[j].key = loads[n].key
              /\ w[j].rows = loads[n].rows
              /\ loads[n].late => w[j].late
              /\ ok /\ j < i => w[j].late
  <2>1. n \in DOMAIN loads /\ w[j] = rest[n] /\ (j < i => n < i)
    BY <1>1, <1>10, <1>11, <1>12
  <2>2. QED BY <1>3, <2>1
<1>13. QED BY <1>10, <1>11, <1>12

-----------------------------------------------------------------------------
(* Kinds of steps.                                                         *)

\* A step that leaves the list and its loads alone.
LEMMA QuietStep ==
    ASSUME PageInv,
           UNCHANGED <<page, loading, error, key, shown, shownKey, loads, history>>
    PROVE  ErrorKnown' /\ ListKnown' /\ (loading' => loads' # <<>>)
<1>1. P' = P
  BY SamePage
<1>2. known' = known /\ overtaken' = overtaken /\ overlap' = overlap /\ failed' = failed
  BY DEF history
<1>3. ErrorKnown'
  BY <1>1, <1>2 DEF PageInv, ErrorKnown
<1>4. ListKnown'
  BY <1>1, <1>2 DEF PageInv, ListKnown, ShownCurrent
<1>5. QED BY <1>3, <1>4 DEF PageInv

\* A step that starts a load for what is looked for by now.
LEMMA StartStep ==
    ASSUME PageInv, Start(key'), key' \in Keys,
           UNCHANGED <<page, shown, shownKey, status, overtaken, failed>>,
           P.keeps => key' = key /\ known' = known
    PROVE  /\ ErrorKnown' /\ ListKnown' /\ (loading' => loads' # <<>>)
           /\ \A i \in DOMAIN loads' : \A r \in Rows : After(loads'[i].rows[r], status'[r])
<1>1. P' = P
  BY SamePage
<1>2. /\ Len(loads') = Len(loads) + 1 /\ loads'[Len(loads')] = Asked(key')
      /\ DOMAIN loads' = 1 .. Len(loads') /\ DOMAIN loads = 1 .. Len(loads)
      /\ \A i \in DOMAIN loads : loads'[i] = loads[i]
      /\ loads' # <<>> /\ Len(loads) \in Nat /\ loads \in Seq(Load)
      /\ error' => error /\ ~P.clears
      /\ ~overlap' => loads = <<>>
  BY StartFacts, InvFacts
<1>3. ErrorKnown'
  BY <1>1, <1>2 DEF ErrorKnown
<1>4. Current(Asked(key'), key', known')
  BY EmptyFacts DEF Current, Fresh
<1>5. ListKnown'
  <2>1. CASE P.keeps
    <3>1. key' = key /\ known' = known /\ ShownCurrent'
      BY <2>1 DEF PageInv, ListKnown, ShownCurrent
    <3>2. ASSUME NEW i \in DOMAIN loads' PROVE Current(loads'[i], key', known')
      <4>1. CASE i = Len(loads')
        BY <1>2, <1>4, <4>1
      <4>2. CASE i # Len(loads')
        <5>1. i \in DOMAIN loads /\ loads'[i] = loads[i]
          BY <1>2, <4>2
        <5>2. QED BY <2>1, <3>1, <5>1 DEF PageInv, ListKnown
      <4>3. QED BY <4>1, <4>2
    <3>3. QED BY <1>1, <2>1, <3>1, <3>2 DEF ListKnown
  <2>2. CASE ~P.keeps
    BY <1>1, <1>2, <1>4, <2>2 DEF ListKnown
  <2>3. QED BY <2>1, <2>2
<1>6. ASSUME NEW i \in DOMAIN loads', NEW r \in Rows
      PROVE  After(loads'[i].rows[r], status'[r])
  <2>1. CASE i = Len(loads')
    BY <1>2, <2>1, EmptyFacts, RankFacts, InvFacts
  <2>2. CASE i # Len(loads')
    <3>1. i \in DOMAIN loads /\ loads'[i] = loads[i]
      BY <1>2, <2>2
    <3>2. QED BY <3>1 DEF PageInv, RowsKnown
  <2>3. QED BY <2>1, <2>2
<1>7. QED BY <1>2, <1>3, <1>5, <1>6

\* What is known of the past stays so while the rows only advance.
LEMMA StillKnown ==
    ASSUME PageInv, page' = page, status' \in [Rows -> Status],
           \A r \in Rows : After(status[r], status'[r])
    PROVE  /\ dialog' = dialog => DialogKnown'
           /\ shown' = shown /\ known' = known /\ loads' = loads => RowsKnown'
           /\ \A c \in Slots : sent'[c] = sent[c] => CommandKnown(sent[c])'
<1>1. P' = P
  BY SamePage
<1>2. ASSUME NEW s \in Status, NEW r \in Rows, After(s, status[r])
      PROVE  After(s, status'[r])
  BY <1>2, AfterAfter, InvFacts
<1>3. ASSUME dialog' = dialog PROVE DialogKnown'
  <2>1. DialogKnown /\ dialog.seen \in Status
    BY InvFacts DEF PageInv
  <2>2. QED BY <1>1, <1>2, <1>3, <2>1 DEF DialogKnown, Buttons
<1>4. ASSUME shown' = shown, known' = known, loads' = loads PROVE RowsKnown'
  <2>1. RowsKnown
    BY DEF PageInv
  <2>2. ASSUME NEW i \in DOMAIN loads, NEW r \in Rows PROVE loads[i].rows[r] \in Status
    BY InvFacts DEF Load
  <2>3. \A r \in Rows : shown[r] \in Status /\ known[r] \in Status
    BY InvFacts
  <2>4. \A r \in Rows : After(shown'[r], status'[r]) /\ After(known'[r], status'[r])
    BY <1>2, <1>4, <2>1, <2>3 DEF RowsKnown
  <2>5. \A i \in DOMAIN loads' : \A r \in Rows : After(loads'[i].rows[r], status'[r])
    BY <1>2, <1>4, <2>1, <2>2 DEF RowsKnown
  <2>6. QED BY <1>1, <1>4, <2>1, <2>4, <2>5 DEF RowsKnown
<1>5. ASSUME NEW c \in Slots, sent'[c] = sent[c] PROVE CommandKnown(sent[c])'
  <2>1. CommandKnown(sent[c]) /\ sent[c] \in Command /\ WellMade(P)
    BY InvFacts DEF PageInv
  <2>2. sent[c].seen \in Status /\ (sent[c].name \in DOMAIN P.api => P.api[sent[c].name].to \in Status)
    BY <2>1 DEF Command, WellMade, LeadsOn
  <2>3. ASSUME NEW s \in Status, NEW r \in Rows, After(s, status[r]), s # status[r]
        PROVE  s # status'[r]
    <3>1. status[r] \in Status /\ status'[r] \in Status
      BY InvFacts
    <3>2. QED BY <2>3, <3>1, RankFacts DEF After
  <2>4. QED BY <1>1, <1>2, <1>5, <2>1, <2>2, <2>3 DEF CommandKnown, Buttons
<1>6. QED BY <1>3, <1>4, <1>5

\* Where the rows stay as they are, they have advanced.
LEMMA NothingAdvances ==
    ASSUME PageInv, status' = status
    PROVE  status' \in [Rows -> Status] /\ \A r \in Rows : After(status[r], status'[r])
BY InvFacts DEF After

\* A command advances its row.
LEMMA CommandAdvances ==
    ASSUME PageInv, NEW r \in Rows, NEW n \in DOMAIN P.api, status[r] \in P.api[n].from,
           status' = [status EXCEPT ![r] = P.api[n].to]
    PROVE  /\ status' \in [Rows -> Status] /\ status'[r] = P.api[n].to
           /\ \A x \in Rows : After(status[x], status'[x])
<1>1. P.api[n].to \in Status /\ After(status[r], P.api[n].to)
  BY InvFacts DEF WellMade, LeadsOn
<1>2. status \in [Rows -> Status]
  BY InvFacts
<1>3. QED BY <1>1, <1>2 DEF After

\* The button that adds a row is as it was where no command that does so comes
\* or goes.
LEMMA ButtonStep ==
    ASSUME PageInv, UNCHANGED <<page, creating>>,
           \A c \in Slots : Creates(sent'[c]) <=> Creates(sent[c])
    PROVE  ButtonKnown'
<1>1. P' = P
  BY SamePage
<1>2. QED BY <1>1 DEF PageInv, ButtonKnown

-----------------------------------------------------------------------------
(* The page is mounted.                                                    *)

\* Every initial state.
LEMMA InitStep == Init => PageInv
<1> SUFFICES ASSUME Init PROVE PageInv
  OBVIOUS
<1>1. page \in DOMAIN PageOf /\ WellMade(P) /\ P = PageOf[page]
  BY PagesWellMade DEF Init, P
<1>2. key \in Keys /\ shownKey = key
  BY DEF Init
<1>3. shown = Empty /\ known = Empty /\ Empty \in [Rows -> Status]
      /\ \A r \in Rows : Empty[r] = "absent"
  BY <1>2, EmptyFacts DEF Init
<1>4. status \in [Rows -> Status]
  <2>1. Statuses(P.api) \subseteq Status
    BY <1>1, RankFacts DEF WellMade, LeadsOn, Statuses
  <2>2. QED BY <2>1 DEF Init
<1>5. Asked(key) \in Load /\ ~Asked(key).late /\ Asked(key).key = key
      /\ Asked(key).state = "asked" /\ Asked(key).rows = Empty
  BY <1>2, EmptyFacts
<1>6. loading = P.begins /\ loads = IF P.begins THEN <<Asked(key)>> ELSE <<>>
  BY <1>1 DEF Init, Mounted
<1>7. P.begins \in BOOLEAN
  BY <1>1 DEF WellMade, Traits
<1>8. loads \in Seq(Load) /\ Len(loads) <= 1 /\ Len(loads) <= MaxLoads
      /\ \A i \in DOMAIN loads : loads[i] = Asked(key)
  BY <1>5, <1>6
<1>9. sent \in [Slots -> Command] /\ \A c \in Slots : sent[c] = Idle /\ Idle.state = "idle"
  <2>1. Idle \in Command /\ Idle.state = "idle"
    BY RankFacts DEF Idle, Command, CommandNames, UserApi
  <2>2. QED BY <2>1 DEF Init
<1>10. dialog = NoDialog /\ dialog.names = {}
       /\ dialog \in [row : Rows \cup {NoRow}, names : SUBSET CommandNames, seen : Status]
  BY RankFacts DEF Init, NoDialog
<1>11. ~error /\ error \in BOOLEAN /\ ~creating /\ creating \in BOOLEAN
       /\ overtaken = FALSE /\ overlap = FALSE /\ failed = FALSE
  BY DEF Init
<1>12. TypeOK
  BY <1>1, <1>2, <1>3, <1>4, <1>6, <1>7, <1>8, <1>9, <1>10, <1>11 DEF TypeOK
<1>13. RowsKnown
  BY <1>3, <1>4, <1>5, <1>8, RankFacts DEF RowsKnown
<1>14. DialogKnown /\ \A c \in Slots : CommandKnown(sent[c])
  BY <1>9, <1>10 DEF DialogKnown, CommandKnown
<1>15. ButtonKnown /\ ErrorKnown
  BY <1>8, <1>9, <1>11 DEF ButtonKnown, ErrorKnown, Creates
<1>16. ShownCurrent
  BY <1>2, <1>3, RankFacts DEF ShownCurrent
<1>17. \A i \in DOMAIN loads : Current(loads[i], key, known)
  BY <1>5, <1>8 DEF Current, Fresh
<1>18. ListKnown
  BY <1>8, <1>16, <1>17 DEF ListKnown
<1>19. loading => loads # <<>>
  BY <1>6, <1>7
<1>20. QED BY <1>12, <1>13, <1>14, <1>15, <1>18, <1>19 DEF PageInv

\* Commands whose page is gone are known as before.
LEMMA UnmountedFacts ==
    ASSUME PageInv, UNCHANGED <<page, status>>,
           sent' = [c \in Slots |-> [sent[c] EXCEPT !.mounted = FALSE]]
    PROVE  /\ sent' \in [Slots -> Command]
           /\ \A c \in Slots : CommandKnown(sent[c])' /\ ~Creates(sent'[c])
<1>1. P' = P
  BY SamePage
<1>2. ASSUME NEW c \in Slots
      PROVE  /\ sent'[c] \in Command /\ ~sent'[c].mounted
             /\ sent'[c].state = sent[c].state /\ sent'[c].name = sent[c].name
             /\ sent'[c].row = sent[c].row /\ sent'[c].seen = sent[c].seen
  <2>1. sent[c] \in Command
    BY InvFacts
  <2>2. QED BY <2>1 DEF Command
<1>3. ASSUME NEW c \in Slots PROVE CommandKnown(sent[c])'
  <2>1. CommandKnown(sent[c])
    BY DEF PageInv
  <2>2. QED BY <1>1, <1>2, <2>1 DEF CommandKnown, Buttons
<1>4. QED BY <1>2, <1>3 DEF Creates

\* A fresh component.
LEMMA RemountStep ==
    ASSUME PageInv, Remount
    PROVE  PageInv'
<1>1. P' = P /\ P = PageOf[page] /\ WellMade(P) /\ ~P.keeps
  BY SamePage, InvFacts DEF Remount, P
<1>2. key' \in Keys /\ shownKey' = key'
  BY DEF Remount
<1>3. shown' = Empty /\ Empty \in [Rows -> Status] /\ \A r \in Rows : Empty[r] = "absent"
  BY <1>2, EmptyFacts DEF Remount
<1>4. Asked(key') \in Load /\ ~Asked(key').late /\ Asked(key').key = key'
      /\ Asked(key').state = "asked" /\ Asked(key').rows = Empty
  BY <1>2, EmptyFacts
<1>5. loading' = P.begins /\ loads' = IF P.begins THEN <<Asked(key')>> ELSE <<>>
  BY <1>1 DEF Remount, Mounted
<1>6. P.begins \in BOOLEAN
  BY <1>1 DEF WellMade, Traits
<1>7. loads' \in Seq(Load) /\ Len(loads') <= 1 /\ Len(loads') <= MaxLoads
      /\ \A i \in DOMAIN loads' : loads'[i] = Asked(key')
  BY <1>4, <1>5
<1>8. sent' \in [Slots -> Command]
      /\ \A c \in Slots : CommandKnown(sent[c])' /\ ~Creates(sent'[c])
  BY UnmountedFacts DEF Remount
<1>9. dialog' = NoDialog /\ dialog'.names = {}
      /\ dialog' \in [row : Rows \cup {NoRow}, names : SUBSET CommandNames, seen : Status]
  BY RankFacts DEF Remount, NoDialog
<1>10. /\ ~error' /\ error' \in BOOLEAN /\ ~creating' /\ creating' \in BOOLEAN
       /\ overtaken' = FALSE /\ overlap' = FALSE /\ failed' = FALSE
       /\ page' = page /\ status' = status /\ known' = known
  BY DEF Remount
<1>11. TypeOK'
  BY <1>1, <1>2, <1>3, <1>5, <1>6, <1>7, <1>8, <1>9, <1>10, InvFacts DEF TypeOK
<1>12. RowsKnown'
  <2>1. RowsKnown /\ status \in [Rows -> Status]
    BY InvFacts DEF PageInv
  <2>2. QED BY <1>1, <1>3, <1>4, <1>7, <1>10, <2>1, RankFacts DEF RowsKnown
<1>13. DialogKnown'
  BY <1>9 DEF DialogKnown
<1>14. ButtonKnown' /\ ErrorKnown'
  BY <1>7, <1>8, <1>10 DEF ButtonKnown, ErrorKnown
<1>15. ListKnown'
  <2>1. \A i \in DOMAIN loads' : Current(loads'[i], key', known')
    BY <1>4, <1>7 DEF Current, Fresh
  <2>2. loads' = <<>> => ShownCurrent'
    <3>1. loads' = <<>> => known' = Empty
      BY <1>5, <1>10 DEF PageInv, RowsKnown
    <3>2. QED BY <1>2, <1>3, <3>1, RankFacts DEF ShownCurrent
  <2>3. loads' # <<>> => Len(loads') \in DOMAIN loads'
    BY <1>7
  <2>4. QED BY <1>1, <2>1, <2>2, <2>3 DEF ListKnown
<1>16. loading' => loads' # <<>>
  BY <1>5, <1>6
<1>17. QED BY <1>8, <1>11, <1>12, <1>13, <1>14, <1>15, <1>16 DEF PageInv

-----------------------------------------------------------------------------
(* Loads.                                                                  *)

\* A page that only starts another load.
LEMMA AskAgain ==
    ASSUME PageInv, Start(key'), key' \in Keys, P.keeps => key' = key,
           UNCHANGED <<page, shown, shownKey, dialog, creating, sent, status, known,
                       overtaken, failed>>
    PROVE  PageInv'
<1>1. P' = P
  BY SamePage
<1>2. ErrorKnown' /\ ListKnown' /\ (loading' => loads' # <<>>)
      /\ \A i \in DOMAIN loads' : \A r \in Rows : After(loads'[i].rows[r], status'[r])
  BY StartStep
<1>3. TypeOK'
  <2>1. loads' \in Seq(Load) /\ Len(loads') <= MaxLoads
        /\ loading' \in BOOLEAN /\ error' \in BOOLEAN /\ overlap' \in BOOLEAN
    BY StartFacts
  <2>2. QED BY <2>1 DEF PageInv, TypeOK
<1>4. DialogKnown' /\ \A c \in Slots : CommandKnown(sent[c])'
  BY StillKnown, NothingAdvances
<1>5. RowsKnown'
  BY <1>1, <1>2 DEF PageInv, RowsKnown
<1>6. ButtonKnown'
  BY ButtonStep
<1>7. QED BY <1>2, <1>3, <1>4, <1>5, <1>6 DEF PageInv

\* The language changes.
LEMMA ChangeLanguageStep ==
    ASSUME PageInv, ChangeLanguage
    PROVE  PageInv'
BY AskAgain, InvFacts DEF ChangeLanguage

\* The button of the error is pressed.
LEMMA TryAgainStep ==
    ASSUME PageInv, TryAgain
    PROVE  PageInv'
BY AskAgain, InvFacts DEF TryAgain

\* Something else is looked for.
LEMMA LookForStep ==
    ASSUME PageInv, NEW k \in Keys, LookFor(k)
    PROVE  PageInv'
<1>1. P.keeps => ~P.keyed
  BY InvFacts DEF WellMade, Traits
<1>2. QED BY <1>1, AskAgain DEF LookFor

\* The page of the chat is mounted again.
LEMMA RemountStoreStep ==
    ASSUME PageInv, RemountStore
    PROVE  PageInv'
<1>1. P' = P /\ P.keeps
  BY SamePage DEF RemountStore
<1>2. Start(key') /\ key' \in Keys /\ key' = key
  BY InvFacts DEF RemountStore
<1>3. ErrorKnown' /\ ListKnown' /\ (loading' => loads' # <<>>)
      /\ \A i \in DOMAIN loads' : \A r \in Rows : After(loads'[i].rows[r], status'[r])
  BY <1>2, StartStep DEF RemountStore
<1>4. sent' \in [Slots -> Command] /\ \A c \in Slots : CommandKnown(sent[c])'
  BY UnmountedFacts DEF RemountStore
<1>5. dialog'.names = {}
      /\ dialog' \in [row : Rows \cup {NoRow}, names : SUBSET CommandNames, seen : Status]
  BY RankFacts DEF RemountStore, NoDialog
<1>6. TypeOK'
  <2>1. loads' \in Seq(Load) /\ Len(loads') <= MaxLoads
        /\ loading' \in BOOLEAN /\ error' \in BOOLEAN /\ overlap' \in BOOLEAN
    BY <1>2, StartFacts
  <2>2. QED BY <1>4, <1>5, <2>1 DEF PageInv, TypeOK, RemountStore
<1>7. RowsKnown'
  BY <1>1, <1>3 DEF PageInv, RowsKnown, RemountStore
<1>8. DialogKnown' /\ ButtonKnown'
  <2>1. ~P.guarded
    BY <1>1, InvFacts DEF WellMade, Traits
  <2>2. QED BY <1>1, <1>5, <2>1 DEF DialogKnown, ButtonKnown
<1>9. QED BY <1>3, <1>4, <1>6, <1>7, <1>8 DEF PageInv

\* The server answers a load.
LEMMA ServeStep ==
    ASSUME PageInv, NEW i \in DOMAIN loads, Serve(i)
    PROVE  PageInv'
<1>1. P' = P /\ UNCHANGED <<page, loading, error, key, shown, shownKey, dialog, creating,
                            sent, status, known, overtaken, overlap, failed>>
  BY SamePage DEF Serve, view, history
<1>2. loads \in Seq(Load) /\ Len(loads) \in Nat /\ DOMAIN loads = 1 .. Len(loads)
      /\ loads[i] \in Load /\ status \in [Rows -> Status]
  BY InvFacts
<1>3. PICK x \in Load : /\ x.state = "answered" /\ x.rows = status
                        /\ x.key = loads[i].key /\ x.late = loads[i].late
                        /\ loads' = [loads EXCEPT ![i] = x]
  <2> DEFINE y == [loads[i] EXCEPT !.state = "answered", !.rows = status]
  <2>1. /\ y \in Load /\ y.state = "answered" /\ y.rows = status
        /\ y.key = loads[i].key /\ y.late = loads[i].late
    BY <1>2 DEF Load
  <2>2. loads' = [loads EXCEPT ![i] = y]
    BY DEF Serve
  <2> HIDE DEF y
  <2>3. QED BY <2>1, <2>2
<1>4. /\ loads' \in Seq(Load) /\ Len(loads') = Len(loads) /\ DOMAIN loads' = DOMAIN loads
      /\ loads'[i] = x /\ \A j \in DOMAIN loads \ {i} : loads'[j] = loads[j]
      /\ loads' = <<>> <=> loads = <<>>
  BY <1>2, <1>3
<1>5. TypeOK'
  BY <1>1, <1>4 DEF PageInv, TypeOK
<1>6. DialogKnown' /\ \A c \in Slots : CommandKnown(sent[c])'
  BY <1>1, StillKnown, NothingAdvances
<1>7. RowsKnown'
  <2>1. RowsKnown
    BY DEF PageInv
  <2>2. ASSUME NEW j \in DOMAIN loads', NEW r \in Rows
        PROVE  After(loads'[j].rows[r], status'[r])
    <3>1. CASE j = i
      BY <1>1, <1>3, <1>4, <3>1 DEF After
    <3>2. CASE j # i
      BY <1>1, <1>4, <2>1, <3>2 DEF RowsKnown
    <3>3. QED BY <3>1, <3>2
  <2>3. QED BY <1>1, <2>1, <2>2 DEF RowsKnown
<1>8. ASSUME NEW j \in DOMAIN loads, Current(loads[j], key, known)
      PROVE  Current(loads'[j], key', known')
  <2>1. CASE j = i
    <3>1. \A r \in Rows : Rank[status[r]] >= Rank[known[r]]
      <4>1. ASSUME NEW r \in Rows PROVE Rank[status[r]] >= Rank[known[r]]
        <5>1. After(known[r], status[r]) /\ status[r] \in Status /\ known[r] \in Status
          BY InvFacts DEF PageInv, RowsKnown
        <5>2. QED BY <5>1, RankFacts DEF After
      <4>2. QED BY <4>1
    <3>2. QED BY <1>1, <1>3, <1>4, <1>8, <2>1, <3>1 DEF Current, Fresh
  <2>2. CASE j # i
    BY <1>1, <1>4, <1>8, <2>2
  <2>3. QED BY <2>1, <2>2
<1>9. ListKnown'
  <2>1. ListKnown /\ (ShownCurrent => ShownCurrent')
    BY <1>1 DEF PageInv, ShownCurrent
  <2>2. CASE P.keeps
    BY <1>1, <1>4, <1>8, <2>1, <2>2 DEF ListKnown
  <2>3. CASE ~P.keeps
    <3>1. loads # <<>> => Len(loads) \in DOMAIN loads
      BY <1>2
    <3>2. QED BY <1>1, <1>4, <1>8, <2>1, <2>3, <3>1 DEF ListKnown
  <2>4. QED BY <2>2, <2>3
<1>10. ErrorKnown' /\ ButtonKnown' /\ (loading' => loads' # <<>>)
  <2>1. ErrorKnown'
    BY <1>1, <1>4 DEF PageInv, ErrorKnown
  <2>2. ButtonKnown'
    BY <1>1, ButtonStep
  <2>3. QED BY <1>1, <1>4, <2>1, <2>2 DEF PageInv
<1>11. QED BY <1>5, <1>6, <1>7, <1>9, <1>10 DEF PageInv

\* Load i is over, well or not, and the page's variables that it does not write
\* are as they were.
LEMMA LoadEnds ==
    ASSUME PageInv, NEW i \in DOMAIN loads, NEW ok \in BOOLEAN,
           loads' = Without(i, ok), ~loading',
           UNCHANGED <<page, key, dialog, creating, sent, status, known, overlap>>
    PROVE  /\ P' = P /\ loads' \in Seq(Load) /\ Len(loads') <= MaxLoads
           /\ loads' = <<>> <=> Len(loads) = 1
           /\ DialogKnown' /\ ButtonKnown' /\ \A c \in Slots : CommandKnown(sent[c])'
           /\ \A j \in DOMAIN loads' : \A r \in Rows : After(loads'[j].rows[r], status'[r])
           /\ P.clears /\ ~overlap => loads' = <<>> /\ Len(loads') = 0
           /\ (\A j \in DOMAIN loads : Current(loads[j], key, known))
                 => \A j \in DOMAIN loads' : Current(loads'[j], key', known')
           /\ ok /\ Current(loads[Len(loads)], key, known) /\ loads' # <<>>
                 => Current(loads'[Len(loads')], key', known')
<1>1. P' = P
  BY SamePage
<1>2. loads \in Seq(Load) /\ Len(loads) \in Nat /\ DOMAIN loads = 1 .. Len(loads)
      /\ Len(loads) <= MaxLoads
  BY InvFacts
<1>3. /\ loads' \in Seq(Load) /\ Len(loads') = Len(loads) - 1
      /\ DOMAIN loads' = 1 .. (Len(loads) - 1)
      /\ loads' = <<>> <=> Len(loads') = 0
  BY WithoutFacts, EmptySeq
<1>4. \A j \in DOMAIN loads' : \E n \in DOMAIN loads :
         /\ n = IF j < i THEN j ELSE j + 1
         /\ loads'[j].state = loads[n].state /\ loads'[j].key = loads[n].key
         /\ loads'[j].rows = loads[n].rows
         /\ loads[n].late => loads'[j].late
         /\ ok /\ j < i => loads'[j].late
  BY WithoutFacts
<1>5. ASSUME NEW j \in DOMAIN loads', NEW r \in Rows
      PROVE  After(loads'[j].rows[r], status'[r])
  <2>1. PICK n \in DOMAIN loads : loads'[j].rows = loads[n].rows
    BY <1>4
  <2>2. QED BY <2>1 DEF PageInv, RowsKnown
<1>6. P.clears /\ ~overlap => loads' = <<>> /\ Len(loads') = 0
  BY <1>2, <1>3 DEF PageInv, ErrorKnown
<1>7. ASSUME NEW j \in DOMAIN loads', NEW n \in DOMAIN loads, n = IF j < i THEN j ELSE j + 1,
             Current(loads[n], key, known)
      PROVE  Current(loads'[j], key', known')
  BY <1>4, <1>7 DEF Current, Fresh
<1>8. (\A j \in DOMAIN loads : Current(loads[j], key, known))
         => \A j \in DOMAIN loads' : Current(loads'[j], key', known')
  BY <1>4, <1>7
<1>9. ASSUME ok, Current(loads[Len(loads)], key, known), loads' # <<>>
      PROVE  Current(loads'[Len(loads')], key', known')
  <2>1. Len(loads') \in DOMAIN loads' /\ Len(loads) \in DOMAIN loads
        /\ Len(loads') = Len(loads) - 1 /\ i \in 1 .. Len(loads)
    <3>1. Len(loads') # 0
      BY <1>3, <1>9
    <3>2. QED BY <1>2, <1>3, <3>1
  <2>2. CASE i = Len(loads)
    <3>1. Len(loads') < i
      BY <1>2, <2>1, <2>2
    <3>2. QED BY <1>4, <1>9, <2>1, <3>1 DEF Current
  <2>3. CASE i # Len(loads)
    <3>1. Len(loads) = IF Len(loads') < i THEN Len(loads') ELSE Len(loads') + 1
      <4>1. \A n, m \in Nat : \A k \in 1 .. n : k # n /\ m = n - 1 =>
                n = IF m < k THEN m ELSE m + 1
        OBVIOUS
      <4>2. Len(loads') \in Nat
        BY <1>3
      <4>3. QED BY <1>2, <2>1, <2>3, <4>1, <4>2
    <3>2. QED BY <1>7, <1>9, <2>1, <3>1
  <2>4. QED BY <2>2, <2>3
<1>10. DialogKnown' /\ \A c \in Slots : CommandKnown(sent[c])'
  BY StillKnown, NothingAdvances
<1>11. ButtonKnown'
  BY ButtonStep
<1>12. Len(loads') <= MaxLoads /\ (loads' = <<>> <=> Len(loads) = 1)
  BY <1>2, <1>3
<1>13. QED BY <1>1, <1>3, <1>5, <1>6, <1>8, <1>9, <1>10, <1>11, <1>12

\* The answer to a load is shown.
LEMMA ArriveStep ==
    ASSUME PageInv, NEW i \in DOMAIN loads, Arrive(i)
    PROVE  PageInv'
<1>1. /\ loads' = Without(i, TRUE) /\ ~loading' /\ loading' = FALSE
      /\ UNCHANGED <<page, key, dialog, creating, sent, status, known, overlap, error>>
      /\ shown' = loads[i].rows /\ shownKey' = loads[i].key
      /\ overtaken' = loads[i].late /\ failed' = FALSE /\ loads[i].state = "answered"
  BY DEF Arrive
<1>2. loads[i] \in Load /\ loads \in Seq(Load) /\ DOMAIN loads = 1 .. Len(loads)
      /\ Len(loads) \in Nat
  BY InvFacts
<1>3. shown' \in [Rows -> Status] /\ shownKey' \in Keys /\ overtaken' \in BOOLEAN
  BY <1>1, <1>2 DEF Load
<1>4. /\ P' = P /\ loads' \in Seq(Load) /\ Len(loads') <= MaxLoads
      /\ loads' = <<>> <=> Len(loads) = 1
      /\ DialogKnown' /\ ButtonKnown' /\ \A c \in Slots : CommandKnown(sent[c])'
      /\ \A j \in DOMAIN loads' : \A r \in Rows : After(loads'[j].rows[r], status'[r])
      /\ P.clears /\ ~overlap => loads' = <<>> /\ Len(loads') = 0
      /\ (\A j \in DOMAIN loads : Current(loads[j], key, known))
            => \A j \in DOMAIN loads' : Current(loads'[j], key', known')
      /\ Current(loads[Len(loads)], key, known) /\ loads' # <<>>
            => Current(loads'[Len(loads')], key', known')
  BY <1>1, LoadEnds
<1>5. TypeOK'
  BY <1>1, <1>3, <1>4 DEF PageInv, TypeOK
<1>6. RowsKnown'
  BY <1>1, <1>4 DEF PageInv, RowsKnown
<1>7. ErrorKnown'
  <2>1. P.clears /\ ~overlap => ~error
    BY <1>2 DEF PageInv, ErrorKnown
  <2> SUFFICES ASSUME P.clears
               PROVE  /\ error' => overlap'
                      /\ ~overlap' => Len(loads') <= 1 /\ (loads' # <<>> => ~error')
    BY <1>1, <1>4 DEF ErrorKnown
  <2>2. ASSUME ~overlap' PROVE Len(loads') = 0 /\ loads' = <<>> /\ ~error'
    BY <1>1, <1>4, <2>1, <2>2
  <2>3. QED BY <2>2
<1>8. Current(loads[i], key, known) => ShownCurrent'
  BY <1>1 DEF Current, Fresh, ShownCurrent
<1>9. ListKnown'
  <2>1. ListKnown
    BY DEF PageInv
  <2>2. CASE P.keeps
    BY <1>4, <1>8, <2>1, <2>2 DEF ListKnown
  <2>3. CASE ~P.keeps
    <3>1. loads # <<>> /\ (Len(loads) = 1 => i = Len(loads))
      BY <1>2
    <3>2. QED BY <1>1, <1>4, <1>8, <2>1, <2>3, <3>1 DEF ListKnown
  <2>4. QED BY <2>2, <2>3
<1>10. QED BY <1>1, <1>4, <1>5, <1>6, <1>7, <1>9 DEF PageInv

\* A load fails.
LEMMA FailLoadStep ==
    ASSUME PageInv, NEW i \in DOMAIN loads, FailLoad(i)
    PROVE  PageInv'
<1>1. /\ loads' = Without(i, FALSE) /\ ~loading' /\ loading' = FALSE
      /\ UNCHANGED <<page, key, dialog, creating, sent, status, known, overlap, shownKey,
                     overtaken>>
      /\ failed' = TRUE
  BY DEF FailLoad
<1>2. P.keeps \in BOOLEAN /\ (P.keeps => ~P.forgets)
  BY InvFacts DEF WellMade, Traits
<1>3. error' \in BOOLEAN /\ (~P.keeps => error') /\ (P.keeps => shown' = shown)
      /\ shown' \in {shown, Empty}
  BY <1>2 DEF FailLoad
<1>4. Empty \in [Rows -> Status] /\ \A r \in Rows : Empty[r] = "absent"
  BY EmptyFacts
<1>5. /\ P' = P /\ loads' \in Seq(Load) /\ Len(loads') <= MaxLoads
      /\ DialogKnown' /\ ButtonKnown' /\ \A c \in Slots : CommandKnown(sent[c])'
      /\ \A j \in DOMAIN loads' : \A r \in Rows : After(loads'[j].rows[r], status'[r])
      /\ P.clears /\ ~overlap => loads' = <<>> /\ Len(loads') = 0
      /\ (\A j \in DOMAIN loads : Current(loads[j], key, known))
            => \A j \in DOMAIN loads' : Current(loads'[j], key', known')
  BY <1>1, LoadEnds
<1>6. TypeOK'
  BY <1>1, <1>3, <1>4, <1>5, InvFacts DEF TypeOK
<1>7. RowsKnown'
  <2>1. RowsKnown /\ status \in [Rows -> Status]
    BY InvFacts DEF PageInv
  <2>2. \A r \in Rows : After(shown'[r], status'[r])
    BY <1>1, <1>3, <1>4, <2>1, RankFacts DEF RowsKnown
  <2>3. QED BY <1>1, <1>5, <2>1, <2>2 DEF RowsKnown
<1>8. ErrorKnown'
  <2> SUFFICES ASSUME P.clears
               PROVE  ~overlap' => Len(loads') <= 1 /\ (loads' # <<>> => ~error')
    BY <1>1, <1>5 DEF ErrorKnown
  <2>1. ASSUME ~overlap' PROVE Len(loads') = 0 /\ loads' = <<>>
    BY <1>1, <1>5, <2>1
  <2>2. QED BY <2>1
<1>9. ListKnown'
  <2>1. CASE P.keeps
    <3>1. ShownCurrent' /\ \A j \in DOMAIN loads' : Current(loads'[j], key', known')
      BY <1>1, <1>3, <1>5, <2>1 DEF PageInv, ListKnown, ShownCurrent
    <3>2. QED BY <1>5, <2>1, <3>1 DEF ListKnown
  <2>2. CASE ~P.keeps
    BY <1>3, <1>5, <2>2 DEF ListKnown
  <2>3. QED BY <2>1, <2>2
<1>10. QED BY <1>1, <1>5, <1>6, <1>7, <1>8, <1>9 DEF PageInv

-----------------------------------------------------------------------------
(* Dialogs and commands.                                                   *)

\* A dialog opens about what is shown, or to add a row.
LEMMA OpenDialogStep ==
    ASSUME PageInv, OpenDialog
    PROVE  PageInv'
<1>1. P' = P /\ UNCHANGED <<page, loading, error, key, shown, shownKey, creating, loads, sent,
                            status, history, known, overtaken, overlap, failed>>
  BY SamePage DEF OpenDialog, history
<1>2. DialogKnown' /\ dialog' \in [row : Rows \cup {NoRow}, names : SUBSET CommandNames,
                                   seen : Status]
  <2>1. CASE \E r \in Rows :
               dialog' = [row |-> r, names |-> Buttons(shown[r]) \cap P.asks, seen |-> shown[r]]
    <3>1. PICK r \in Rows :
            dialog' = [row |-> r, names |-> Buttons(shown[r]) \cap P.asks, seen |-> shown[r]]
      BY <2>1
    <3>2. Buttons(shown[r]) \cap P.asks \subseteq CommandNames /\ shown[r] \in Status
      BY InvFacts, ButtonFacts
    <3>3. After(shown[r], status[r])
      BY DEF PageInv, RowsKnown
    <3>4. QED BY <1>1, <3>1, <3>2, <3>3 DEF DialogKnown, Buttons
  <2>2. CASE P.creates /\ dialog' = [row |-> NoRow, names |-> {"create"}, seen |-> "absent"]
    <3>1. "create" \in CommandNames /\ "absent" \in Status
      BY <2>2, InvFacts, CreateFacts, RankFacts
    <3>2. QED BY <1>1, <2>2, <3>1 DEF DialogKnown
  <2>3. QED BY <2>1, <2>2 DEF OpenDialog
<1>3. ErrorKnown' /\ ListKnown' /\ (loading' => loads' # <<>>)
  BY <1>1, QuietStep
<1>4. TypeOK'
  BY <1>1, <1>2 DEF PageInv, TypeOK
<1>5. RowsKnown' /\ \A c \in Slots : CommandKnown(sent[c])'
  BY <1>1, StillKnown, NothingAdvances
<1>6. ButtonKnown'
  BY <1>1, ButtonStep
<1>7. QED BY <1>2, <1>3, <1>4, <1>5, <1>6 DEF PageInv

\* A dialog is closed.
LEMMA CloseDialogStep ==
    ASSUME PageInv, CloseDialog
    PROVE  PageInv'
<1>1. P' = P /\ UNCHANGED <<page, loading, error, key, shown, shownKey, creating, loads, sent,
                            status, history, known, overtaken, overlap, failed>>
  BY SamePage DEF CloseDialog, history
<1>2. DialogKnown' /\ dialog' \in [row : Rows \cup {NoRow}, names : SUBSET CommandNames,
                                   seen : Status]
  BY RankFacts DEF CloseDialog, NoDialog, DialogKnown
<1>3. ErrorKnown' /\ ListKnown' /\ (loading' => loads' # <<>>)
  BY <1>1, QuietStep
<1>4. TypeOK'
  BY <1>1, <1>2 DEF PageInv, TypeOK
<1>5. RowsKnown' /\ \A c \in Slots : CommandKnown(sent[c])'
  BY <1>1, StillKnown, NothingAdvances
<1>6. ButtonKnown'
  BY <1>1, ButtonStep
<1>7. QED BY <1>2, <1>3, <1>4, <1>5, <1>6 DEF PageInv

\* A step of one command on the way, which changes neither the list nor the rows.
LEMMA CommandStep ==
    ASSUME PageInv, NEW c \in Slots, NEW y \in Command, sent' = [sent EXCEPT ![c] = y],
           UNCHANGED <<page, loading, error, key, shown, shownKey, dialog, loads, status, history>>,
           creating' \in BOOLEAN, CommandKnown(y), ButtonKnown'
    PROVE  PageInv'
<1>1. P' = P /\ UNCHANGED <<known, overtaken, overlap, failed>>
  BY SamePage DEF history
<1>2. sent' \in [Slots -> Command] /\ sent'[c] = y
      /\ \A d \in Slots \ {c} : sent'[d] = sent[d]
  BY InvFacts
<1>3. ErrorKnown' /\ ListKnown' /\ (loading' => loads' # <<>>)
  BY QuietStep
<1>4. TypeOK'
  BY <1>1, <1>2 DEF PageInv, TypeOK
<1>5. RowsKnown' /\ DialogKnown'
      /\ \A d \in Slots : sent'[d] = sent[d] => CommandKnown(sent[d])'
  BY <1>1, StillKnown, NothingAdvances
<1>6. CommandKnown(sent[c])'
  BY <1>1, <1>2 DEF CommandKnown, Buttons
<1>7. \A d \in Slots : CommandKnown(sent[d])'
  BY <1>2, <1>5, <1>6
<1>8. QED BY <1>3, <1>4, <1>5, <1>7 DEF PageInv

\* A button of a row is pressed.
LEMMA PressStep ==
    ASSUME PageInv, NEW c \in Slots, NEW r \in Rows, NEW name \in CommandNames, Press(c, r, name)
    PROVE  PageInv'
<1> DEFINE y == [state |-> "asked", name |-> name, row |-> r, seen |-> shown[r], mounted |-> TRUE]
<1>1. /\ sent[c].state = "idle" /\ sent' = [sent EXCEPT ![c] = y]
      /\ UNCHANGED <<page, loading, error, key, shown, shownKey, dialog, creating, loads, status,
                     history>>
      /\ name \in Buttons(shown[r])
  BY DEF Press, Send, view
<1>2. y \in Command
  BY InvFacts DEF Command
<1>3. CommandKnown(y)
  BY <1>1 DEF PageInv, RowsKnown, CommandKnown
<1>4. Creates(y) <=> Creates(sent[c])
  BY <1>1, InvFacts, ButtonFacts DEF Creates
<1> HIDE DEF y
<1>5. \A d \in Slots : Creates(sent'[d]) <=> Creates(sent[d])
  <2>1. sent \in [Slots -> Command]
    BY InvFacts
  <2>2. QED BY <1>1, <1>4, <2>1
<1>6. ButtonKnown'
  BY <1>1, <1>5, ButtonStep
<1>7. creating' \in BOOLEAN
  BY <1>1, InvFacts
<1>8. QED BY <1>1, <1>2, <1>3, <1>6, <1>7, CommandStep

\* A button of the dialog is pressed.
LEMMA ConfirmStep ==
    ASSUME PageInv, NEW c \in Slots, NEW name \in CommandNames, Confirm(c, name)
    PROVE  PageInv'
<1> DEFINE y == [state |-> "asked", name |-> name, row |-> dialog.row, seen |-> dialog.seen,
                 mounted |-> TRUE]
<1>1. /\ sent[c].state = "idle" /\ sent' = [sent EXCEPT ![c] = y]
      /\ UNCHANGED <<page, loading, error, key, shown, shownKey, dialog, loads, status, history>>
      /\ name \in dialog.names
  BY DEF Confirm, Send
<1>2. y \in Command
  BY InvFacts DEF Command
<1>3. CommandKnown(y)
  BY <1>1 DEF PageInv, DialogKnown, CommandKnown
<1>4. P.guarded \in BOOLEAN /\ creating' \in BOOLEAN /\ (P.guarded => creating')
      /\ (P.guarded => ~creating)
  BY InvFacts DEF WellMade, Traits, Confirm
<1>5. P.guarded => Creates(y)
  BY <1>1, InvFacts DEF PageInv, DialogKnown, Creates, WellMade, Traits
<1> HIDE DEF y
<1>6. ButtonKnown'
  <2>1. sent \in [Slots -> Command] /\ P' = P
    BY <1>1, InvFacts, SamePage
  <2>2. P.guarded => /\ Creates(sent'[c])
                     /\ \A d \in Slots \ {c} : ~Creates(sent'[d])
    BY <1>1, <1>4, <1>5, <2>1 DEF PageInv, ButtonKnown
  <2>3. QED BY <1>4, <2>1, <2>2 DEF ButtonKnown, Creates
<1>7. QED BY <1>1, <1>2, <1>3, <1>4, <1>6, CommandStep

\* The server refuses a command.
LEMMA RefuseStep ==
    ASSUME PageInv, NEW c \in Slots, Refuse(c)
    PROVE  PageInv'
<1>1. sent[c] \in Command /\ CommandKnown(sent[c]) /\ WellMade(P) /\ sent \in [Slots -> Command]
  BY InvFacts DEF PageInv
<1>2. PICK y \in Command : /\ y.state = "refused" /\ y.name = sent[c].name
                           /\ y.row = sent[c].row /\ y.seen = sent[c].seen
                           /\ y.mounted = sent[c].mounted
                           /\ sent' = [sent EXCEPT ![c] = y]
  <2> DEFINE z == [sent[c] EXCEPT !.state = "refused"]
  <2>1. /\ z \in Command /\ z.state = "refused" /\ z.name = sent[c].name
        /\ z.row = sent[c].row /\ z.seen = sent[c].seen /\ z.mounted = sent[c].mounted
    BY <1>1 DEF Command
  <2>2. sent' = [sent EXCEPT ![c] = z]
    BY DEF Refuse
  <2> HIDE DEF z
  <2>3. QED BY <2>1, <2>2
<1>3. /\ UNCHANGED <<page, loading, error, key, shown, shownKey, dialog, creating, loads, status,
                     history>>
      /\ sent[c].state = "asked" /\ sent[c].row # NoRow
      /\ status[sent[c].row] \notin P.api[sent[c].name].from
  BY DEF Refuse, view
<1>4. CommandKnown(y)
  <2>1. sent[c].row \in Rows /\ After(sent[c].seen, status[sent[c].row])
        /\ sent[c].name \in Buttons(sent[c].seen)
    BY <1>1, <1>3 DEF CommandKnown
  <2>2. status[sent[c].row] \in Status
    BY <2>1, InvFacts
  <2>3. sent[c].name = "review" \/ sent[c].seen # status[sent[c].row]
    <3>1. Offered(P, sent[c].seen, sent[c].name)
      BY <1>1, <2>1, ButtonFacts
    <3>2. QED BY <1>3, <2>1, <2>2, <3>1 DEF Offered
  <2>4. QED BY <1>2, <2>1, <2>3 DEF CommandKnown
<1>5. Creates(y) <=> Creates(sent[c])
  BY <1>2, <1>3 DEF Creates
<1>6. \A d \in Slots : Creates(sent'[d]) <=> Creates(sent[d])
  BY <1>1, <1>2, <1>5
<1>7. ButtonKnown' /\ creating' \in BOOLEAN
  BY <1>3, <1>6, ButtonStep, InvFacts
<1>8. QED BY <1>2, <1>3, <1>4, <1>7, CommandStep

\* A command that comes to nothing leaves no more than its button.
LEMMA FreedButton ==
    ASSUME PageInv, NEW c \in Slots, sent' = [sent EXCEPT ![c] = Idle], page' = page,
           creating' = (creating /\ ~Creates(sent[c]))
    PROVE  ButtonKnown' /\ creating' \in BOOLEAN /\ Idle \in Command /\ CommandKnown(Idle)
<1>1. P' = P /\ sent \in [Slots -> Command]
  BY SamePage, InvFacts
<1>2. Idle \in Command /\ ~Creates(Idle) /\ CommandKnown(Idle)
  BY RankFacts DEF Idle, Command, CommandNames, UserApi, Creates, CommandKnown
<1>3. sent'[c] = Idle /\ \A d \in Slots \ {c} : sent'[d] = sent[d]
  BY <1>1
<1>4. creating' \in BOOLEAN /\ (creating' => creating /\ ~Creates(sent[c]))
      /\ (creating /\ ~Creates(sent[c]) => creating')
  BY InvFacts
<1>5. ASSUME P.guarded, ~creating' PROVE \A d \in Slots : ~Creates(sent'[d])
  BY <1>2, <1>3, <1>4, <1>5 DEF PageInv, ButtonKnown
<1>6. ASSUME P.guarded, creating'
      PROVE  \E d \in Slots : Creates(sent'[d]) /\ \A e \in Slots \ {d} : ~Creates(sent'[e])
  BY <1>2, <1>3, <1>4, <1>6 DEF PageInv, ButtonKnown
<1>7. ButtonKnown'
  BY <1>1, <1>5, <1>6 DEF ButtonKnown, Creates
<1>8. QED BY <1>2, <1>4, <1>7

\* A command, or its answer, is lost.
LEMMA FailCommandStep ==
    ASSUME PageInv, NEW c \in Slots, FailCommand(c)
    PROVE  PageInv'
BY CommandStep, FreedButton DEF FailCommand

-----------------------------------------------------------------------------
(* Commands that are carried out.                                          *)

\* The server carries out a command.
LEMMA AcceptStep ==
    ASSUME PageInv, NEW c \in Slots, Accept(c)
    PROVE  PageInv'
<1>1. PICK r \in Rows :
         /\ sent[c].state = "asked" /\ sent[c].row \in {r, NoRow}
         /\ status[r] \in P.api[sent[c].name].from
         /\ status' = [status EXCEPT ![r] = P.api[sent[c].name].to]
         /\ sent' = [sent EXCEPT ![c].state = "accepted", ![c].row = r]
         /\ UNCHANGED <<page, view, loads, history>>
  BY DEF Accept
<1>2. P' = P /\ UNCHANGED <<loading, error, key, shown, shownKey, dialog, creating,
                            known, overtaken, overlap, failed>>
  BY <1>1, SamePage DEF view, history
<1>3. sent[c] \in Command /\ CommandKnown(sent[c]) /\ WellMade(P) /\ sent \in [Slots -> Command]
  BY InvFacts DEF PageInv
<1>4. sent[c].name \in DOMAIN P.api /\ P.begins
  BY <1>1, <1>3, ButtonFacts, CreateFacts DEF CommandKnown
<1>5. PICK y \in Command : /\ y.state = "accepted" /\ y.name = sent[c].name
                           /\ y.row = r /\ y.mounted = sent[c].mounted
                           /\ sent' = [sent EXCEPT ![c] = y]
  <2> DEFINE z == [sent[c] EXCEPT !.state = "accepted", !.row = r]
  <2>1. /\ z \in Command /\ z.state = "accepted" /\ z.name = sent[c].name
        /\ z.row = r /\ z.mounted = sent[c].mounted
    BY <1>3 DEF Command
  <2>2. sent' = [sent EXCEPT ![c] = z]
    BY <1>1
  <2> HIDE DEF z
  <2>3. QED BY <2>1, <2>2
<1>6. /\ status' \in [Rows -> Status] /\ status'[r] = P.api[sent[c].name].to
      /\ \A x \in Rows : After(status[x], status'[x])
  BY <1>1, <1>4, CommandAdvances
<1>7. /\ DialogKnown' /\ RowsKnown'
      /\ \A d \in Slots : sent'[d] = sent[d] => CommandKnown(sent[d])'
  BY <1>1, <1>2, <1>6, StillKnown
<1>8. sent' \in [Slots -> Command] /\ sent'[c] = y
      /\ \A d \in Slots \ {c} : sent'[d] = sent[d]
  BY <1>3, <1>5
<1>9. CommandKnown(sent[c])'
  BY <1>2, <1>4, <1>5, <1>6, <1>8 DEF CommandKnown, After
<1>10. \A d \in Slots : CommandKnown(sent[d])'
  BY <1>7, <1>8, <1>9
<1>11. Creates(y) <=> Creates(sent[c])
  BY <1>1, <1>5 DEF Creates
<1>12. ButtonKnown'
  BY <1>1, <1>2, <1>8, <1>11, ButtonStep
<1>13. ErrorKnown' /\ ListKnown' /\ (loading' => loads' # <<>>)
  BY <1>1, <1>2, QuietStep
<1>14. TypeOK'
  BY <1>1, <1>2, <1>6, <1>8 DEF PageInv, TypeOK
<1>15. QED BY <1>7, <1>10, <1>12, <1>13, <1>14 DEF PageInv

\* Somebody else acts on a row.
LEMMA OtherActsStep ==
    ASSUME PageInv, NEW r \in Rows, NEW n \in DOMAIN P.api, OtherActs(r, n)
    PROVE  PageInv'
<1>1. P' = P /\ UNCHANGED <<page, loading, error, key, shown, shownKey, dialog, creating, loads,
                            sent, history, known, overtaken, overlap, failed>>
  BY SamePage DEF OtherActs, view, history
<1>2. status' \in [Rows -> Status] /\ \A x \in Rows : After(status[x], status'[x])
  BY CommandAdvances DEF OtherActs
<1>3. DialogKnown' /\ RowsKnown' /\ \A c \in Slots : CommandKnown(sent[c])'
  BY <1>1, <1>2, StillKnown
<1>4. ErrorKnown' /\ ListKnown' /\ (loading' => loads' # <<>>)
  BY <1>1, QuietStep
<1>5. ButtonKnown'
  BY <1>1, ButtonStep
<1>6. TypeOK'
  BY <1>1, <1>2 DEF PageInv, TypeOK
<1>7. QED BY <1>3, <1>4, <1>5, <1>6 DEF PageInv

\* What is known of a command that the server has accepted.
LEMMA AcceptedFacts ==
    ASSUME PageInv, NEW c \in Slots, sent[c].state = "accepted"
    PROVE  /\ sent[c].row \in Rows /\ P.begins /\ sent[c].name \in DOMAIN P.api
           /\ P.api[sent[c].name].to \in Status
           /\ After(P.api[sent[c].name].to, status[sent[c].row])
           /\ [known EXCEPT ![sent[c].row] = P.api[sent[c].name].to] \in [Rows -> Status]
           /\ \A r \in Rows :
                 After([known EXCEPT ![sent[c].row] = P.api[sent[c].name].to][r], status[r])
<1>1. CommandKnown(sent[c]) /\ WellMade(P) /\ known \in [Rows -> Status] /\ RowsKnown
  BY InvFacts DEF PageInv
<1>2. /\ sent[c].row \in Rows /\ P.begins /\ sent[c].name \in DOMAIN P.api
      /\ P.api[sent[c].name].to \in Status
      /\ After(P.api[sent[c].name].to, status[sent[c].row])
  BY <1>1 DEF CommandKnown, WellMade, LeadsOn
<1>3. QED BY <1>1, <1>2 DEF RowsKnown

\* A command was answered well.
LEMMA SucceedStep ==
    ASSUME PageInv, NEW c \in Slots, Succeed(c)
    PROVE  PageInv'
<1>1. /\ P' = P /\ ~P.keeps /\ sent[c].state = "accepted" /\ sent' = [sent EXCEPT ![c] = Idle]
      /\ creating' = (creating /\ ~Creates(sent[c]))
      /\ UNCHANGED <<page, key, shown, shownKey, status, overtaken, failed>>
  BY SamePage DEF Succeed
<1>2. ButtonKnown' /\ creating' \in BOOLEAN /\ Idle \in Command /\ CommandKnown(Idle)
  BY <1>1, FreedButton
<1>3. sent' \in [Slots -> Command] /\ sent'[c] = Idle
      /\ \A d \in Slots \ {c} : sent'[d] = sent[d]
  BY <1>1, <1>2, InvFacts
<1>4. status' \in [Rows -> Status] /\ \A r \in Rows : After(status[r], status'[r])
  BY <1>1, NothingAdvances
<1>5. /\ dialog' = dialog => DialogKnown'
      /\ shown' = shown /\ known' = known /\ loads' = loads => RowsKnown'
      /\ \A d \in Slots : sent'[d] = sent[d] => CommandKnown(sent[d])'
  BY <1>1, <1>4, StillKnown
<1>6. \A d \in Slots : CommandKnown(sent[d])'
  <2>1. CommandKnown(sent[c])'
    BY <1>3 DEF Idle, CommandKnown
  <2>2. QED BY <1>3, <1>5, <2>1
<1>7. DialogKnown' /\ dialog' \in [row : Rows \cup {NoRow}, names : SUBSET CommandNames,
                                   seen : Status]
  <2>1. dialog' \in {dialog, NoDialog}
    BY DEF Succeed
  <2>2. NoDialog \in [row : Rows \cup {NoRow}, names : SUBSET CommandNames, seen : Status]
        /\ NoDialog.names = {}
    BY RankFacts DEF NoDialog
  <2>3. QED BY <1>5, <2>1, <2>2, InvFacts DEF DialogKnown
<1>8. CASE UNCHANGED <<loads, loading, error, overlap, known>>
  <2>1. ErrorKnown' /\ ListKnown' /\ (loading' => loads' # <<>>)
    BY <1>1, <1>8, QuietStep DEF history
  <2>2. TypeOK'
    BY <1>1, <1>2, <1>3, <1>7, <1>8 DEF PageInv, TypeOK
  <2>3. QED BY <1>1, <1>2, <1>5, <1>6, <1>7, <1>8, <2>1, <2>2 DEF PageInv
<1>9. CASE /\ known' = [known EXCEPT ![sent[c].row] = P.api[sent[c].name].to]
           /\ Start(key)
  <2>1. Start(key') /\ key' \in Keys
    BY <1>1, <1>9, InvFacts
  <2>2. ErrorKnown' /\ ListKnown' /\ (loading' => loads' # <<>>)
        /\ \A i \in DOMAIN loads' : \A r \in Rows : After(loads'[i].rows[r], status'[r])
    BY <1>1, <2>1, StartStep
  <2>3. /\ known' \in [Rows -> Status] /\ P.begins
        /\ \A r \in Rows : After(known'[r], status[r])
    BY <1>1, <1>9, AcceptedFacts
  <2>4. RowsKnown'
    BY <1>1, <2>2, <2>3 DEF PageInv, RowsKnown
  <2>5. TypeOK'
    <3>1. loads' \in Seq(Load) /\ Len(loads') <= MaxLoads
          /\ loading' \in BOOLEAN /\ error' \in BOOLEAN /\ overlap' \in BOOLEAN
      BY <2>1, StartFacts
    <3>2. QED BY <1>1, <1>2, <1>3, <1>7, <2>3, <3>1 DEF PageInv, TypeOK
  <2>6. QED BY <1>2, <1>6, <1>7, <2>2, <2>4, <2>5 DEF PageInv
<1>10. QED BY <1>8, <1>9 DEF Succeed

\* What a command has added is put into the store's list.
LEMMA AddToListStep ==
    ASSUME PageInv, NEW c \in Slots, AddToList(c)
    PROVE  PageInv'
<1>1. /\ P' = P /\ P.keeps /\ sent[c].state = "accepted" /\ sent' = [sent EXCEPT ![c] = Idle]
      /\ shown' = [shown EXCEPT ![sent[c].row] = P.api[sent[c].name].to]
      /\ known' = [known EXCEPT ![sent[c].row] = P.api[sent[c].name].to]
      /\ loads' = [i \in DOMAIN loads |-> [loads[i] EXCEPT !.late = TRUE]]
      /\ dialog' \in {dialog, NoDialog}
      /\ UNCHANGED <<page, loading, error, key, shownKey, creating, status, overtaken, overlap,
                     failed>>
  BY SamePage DEF AddToList
<1>2. Idle \in Command /\ Idle.state = "idle"
  BY RankFacts DEF Idle, Command, CommandNames, UserApi
<1>3. sent' \in [Slots -> Command] /\ sent'[c] = Idle
      /\ \A d \in Slots \ {c} : sent'[d] = sent[d]
  BY <1>1, <1>2, InvFacts
<1>4. status' \in [Rows -> Status] /\ \A r \in Rows : After(status[r], status'[r])
  BY <1>1, NothingAdvances
<1>5. /\ dialog' = dialog => DialogKnown'
      /\ \A d \in Slots : sent'[d] = sent[d] => CommandKnown(sent[d])'
  BY <1>1, <1>4, StillKnown
<1>6. \A d \in Slots : CommandKnown(sent[d])'
  <2>1. CommandKnown(sent[c])'
    BY <1>2, <1>3 DEF CommandKnown
  <2>2. QED BY <1>3, <1>5, <2>1
<1>7. DialogKnown' /\ dialog' \in [row : Rows \cup {NoRow}, names : SUBSET CommandNames,
                                   seen : Status]
  <2>1. NoDialog \in [row : Rows \cup {NoRow}, names : SUBSET CommandNames, seen : Status]
        /\ NoDialog.names = {}
    BY RankFacts DEF NoDialog
  <2>2. QED BY <1>1, <1>5, <2>1, InvFacts DEF DialogKnown
<1>8. loads \in Seq(Load) /\ Len(loads) \in Nat /\ DOMAIN loads = 1 .. Len(loads)
      /\ Len(loads) <= MaxLoads /\ \A i \in DOMAIN loads : loads[i] \in Load
  BY InvFacts
<1>9. ASSUME NEW i \in DOMAIN loads
      PROVE  loads'[i] \in Load /\ loads'[i].late /\ loads'[i].rows = loads[i].rows
  BY <1>1, <1>8 DEF Load
<1>10. DOMAIN loads' = DOMAIN loads /\ loads' \in Seq(Load) /\ Len(loads') = Len(loads)
  <2>1. DOMAIN loads' = 1 .. Len(loads) /\ loads' = [i \in DOMAIN loads' |-> loads'[i]]
    BY <1>1, <1>8
  <2>2. loads' \in [1 .. Len(loads) -> Load]
    BY <1>8, <1>9, <2>1
  <2>3. QED BY <1>8, <2>1, <2>2
<1>11. /\ known' \in [Rows -> Status] /\ \A r \in Rows : After(known'[r], status'[r])
       /\ P.begins
  BY <1>1, AcceptedFacts
<1>12. /\ shown' \in [Rows -> Status] /\ \A r \in Rows : After(shown'[r], status'[r])
  BY <1>1, AcceptedFacts, InvFacts DEF PageInv, RowsKnown
<1>13. RowsKnown'
  BY <1>1, <1>9, <1>10, <1>11, <1>12 DEF PageInv, RowsKnown
<1>14. TypeOK'
  BY <1>1, <1>3, <1>7, <1>8, <1>10, <1>11, <1>12 DEF PageInv, TypeOK
<1>15. ListKnown'
  <2>1. \A i \in DOMAIN loads' : Current(loads'[i], key', known')
    BY <1>9, <1>10 DEF Current
  <2>2. ShownCurrent'
    <3>1. ShownCurrent /\ shown \in [Rows -> Status] /\ known \in [Rows -> Status]
      BY <1>1, InvFacts DEF PageInv, ListKnown
    <3>2. P.api[sent[c].name].to \in Status /\ sent[c].row \in Rows
      BY <1>1, AcceptedFacts
    <3>3. ASSUME NEW r \in Rows, Rank[shown[r]] >= Rank[known[r]]
          PROVE  Rank[shown'[r]] >= Rank[known'[r]]
      <4>1. CASE r = sent[c].row
        BY <1>1, <3>1, <3>2, <4>1, RankFacts
      <4>2. CASE r # sent[c].row
        BY <1>1, <3>1, <3>3, <4>2
      <4>3. QED BY <4>1, <4>2
    <3>4. QED BY <1>1, <3>1, <3>3 DEF ShownCurrent
  <2>3. QED BY <1>1, <2>1, <2>2 DEF ListKnown
<1>16. ErrorKnown' /\ ButtonKnown' /\ (loading' => loads' # <<>>)
  <2>1. ~P.clears /\ ~P.guarded
    BY <1>1, InvFacts DEF WellMade, Traits
  <2>2. loading => loads # <<>>
    BY DEF PageInv
  <2>3. loads' = <<>> => loads = <<>>
    BY <1>8, <1>10
  <2>4. QED BY <1>1, <2>1, <2>2, <2>3 DEF ErrorKnown, ButtonKnown
<1>17. QED BY <1>6, <1>7, <1>13, <1>14, <1>15, <1>16 DEF PageInv

-----------------------------------------------------------------------------
(* The theorems.                                                           *)

\* Every step keeps the invariant.
LEMMA PageStep == PageInv /\ [Next]_vars => PageInv'
<1> SUFFICES ASSUME PageInv, [Next]_vars PROVE PageInv'
  OBVIOUS
<1>1. CASE Remount \/ RemountStore \/ ChangeLanguage \/ TryAgain \/ OpenDialog \/ CloseDialog
  BY <1>1, RemountStep, RemountStoreStep, ChangeLanguageStep, TryAgainStep, OpenDialogStep,
     CloseDialogStep
<1>2. CASE \E k \in Keys : LookFor(k)
  BY <1>2, LookForStep
<1>3. CASE \E i \in DOMAIN loads : Serve(i) \/ Arrive(i) \/ FailLoad(i)
  BY <1>3, ServeStep, ArriveStep, FailLoadStep
<1>4. CASE \E c \in Slots, name \in CommandNames : Confirm(c, name) \/ \E r \in Rows : Press(c, r, name)
  BY <1>4, ConfirmStep, PressStep
<1>5. CASE \E c \in Slots :
             Accept(c) \/ Refuse(c) \/ Succeed(c) \/ AddToList(c) \/ FailCommand(c)
  BY <1>5, AcceptStep, RefuseStep, SucceedStep, AddToListStep, FailCommandStep
<1>6. CASE \E r \in Rows, name \in DOMAIN P.api : OtherActs(r, name)
  BY <1>6, OtherActsStep
<1>7. CASE UNCHANGED vars
  <2>1. UNCHANGED <<page, loading, error, key, shown, shownKey, dialog, creating, loads, sent,
                    status, history, known, overtaken, overlap, failed>> /\ P' = P
    BY <1>7, SamePage DEF vars, view, history
  <2>2. ErrorKnown' /\ ListKnown' /\ (loading' => loads' # <<>>) /\ ButtonKnown'
    BY <2>1, QuietStep, ButtonStep
  <2>3. DialogKnown' /\ RowsKnown' /\ \A c \in Slots : CommandKnown(sent[c])'
    BY <2>1, StillKnown, NothingAdvances
  <2>4. TypeOK'
    BY <2>1 DEF PageInv, TypeOK
  <2>5. QED BY <2>2, <2>3, <2>4 DEF PageInv
<1>8. QED BY <1>1, <1>2, <1>3, <1>4, <1>5, <1>6, <1>7 DEF Next

\* The invariant of the pages.
THEOREM PageInvariant == Spec => []PageInv
BY InitStep, PageStep, PTL DEF Spec

\* The state is well formed; no spinner waits for nothing, the button that adds
\* a user is disabled exactly while one is added, and an error outlives a load
\* that succeeded only where loads overlapped or on pages that never clear it.
THEOREM SpinnerAndErrorAreCurrent == Spec => []ScreensInv
<1>1. PageInv => ScreensInv
  <2> SUFFICES ASSUME PageInv PROVE SpinnerIsAsked /\ ErrorIsCurrent
    BY DEF PageInv, ScreensInv
  <2>1. SpinnerIsAsked
    <3> DEFINE C == {c \in Slots : Creates(sent[c])}
    <3>1. ASSUME P.guarded PROVE Cardinality(C) = IF creating THEN 1 ELSE 0
      <4>1. CASE ~creating
        <5>1. C = {}
          BY <3>1, <4>1 DEF PageInv, ButtonKnown
        <5>2. QED BY <4>1, <5>1, FS_EmptySet
      <4>2. CASE creating
        <5>1. PICK c \in Slots : Creates(sent[c]) /\ \A d \in Slots \ {c} : ~Creates(sent[d])
          BY <3>1, <4>2 DEF PageInv, ButtonKnown
        <5>2. C = {c}
          BY <5>1
        <5>3. QED BY <4>2, <5>2, FS_Singleton
      <4>3. QED BY <4>1, <4>2
    <3>2. loading => loads # <<>>
      BY DEF PageInv
    <3>3. QED BY <3>1, <3>2 DEF SpinnerIsAsked
  <2>2. ErrorIsCurrent
    BY DEF PageInv, ErrorKnown, ErrorIsCurrent
  <2>3. QED BY <2>1, <2>2
<1>2. QED BY <1>1, PageInvariant, PTL

\* Once nothing is being loaded, the list is for what was looked for last and
\* has all that the page's commands did, but for an answer that was overtaken.
THEOREM ListShowsTheLatest == Spec => []ListIsCurrent
<1>1. PageInv => ListIsCurrent
  BY InvFacts DEF PageInv, ListKnown, ShownCurrent, ListIsCurrent, ListShowsOwnWork,
                  ShownIsLookedFor
<1>2. QED BY <1>1, PageInvariant, PTL

\* The tables of the pages and of the server agree: a command is refused only
\* because its row has left the status that was shown, or it is a second review.
THEOREM RefusalsAreOutdated == Spec => []RefusedOnlyIfChanged
<1>1. PageInv => RefusedOnlyIfChanged
  BY DEF PageInv, CommandKnown, RefusedOnlyIfChanged
<1>2. QED BY <1>1, PageInvariant, PTL

\* No command but the rejection of a withdrawal changes a row from a status
\* that its user was not shown.
THEOREM UnseenChangesReject == Spec => UnseenChangeOnlyRejects
<1> DEFINE A(c) ==
        sent[c].state = "asked" /\ sent'[c].state = "accepted" /\ sent[c].row # NoRow
          => \/ status[sent[c].row] = sent[c].seen
             \/ status' = status
             \/ status[sent[c].row] = "approved" /\ sent[c].name = "rejected"
<1>1. PageInv /\ [Next]_vars => [\A c \in Slots : A(c)]_vars
  <2> SUFFICES ASSUME PageInv, [Next]_vars, NEW c \in Slots,
                      sent[c].state = "asked", sent'[c].state = "accepted", sent[c].row # NoRow
               PROVE  \/ status[sent[c].row] = sent[c].seen
                      \/ status' = status
                      \/ status[sent[c].row] = "approved" /\ sent[c].name = "rejected"
    OBVIOUS
  <2>1. Accept(c)
    <3>1. sent \in [Slots -> Command] /\ sent[c] \in Command
      BY InvFacts
    <3>2. ASSUME NEW d \in Slots, Accept(d) PROVE d = c
      BY <3>1, <3>2 DEF Accept
    <3>3. ASSUME NEW d \in Slots, Refuse(d) \/ Succeed(d) \/ AddToList(d) \/ FailCommand(d)
          PROVE  FALSE
      <4>1. CASE Refuse(d)
        <5>1. sent' = [sent EXCEPT ![d] = [sent[d] EXCEPT !.state = "refused"]]
          BY <4>1 DEF Refuse
        <5>2. [sent[c] EXCEPT !.state = "refused"].state = "refused"
          BY <3>1 DEF Command
        <5>3. QED BY <3>1, <5>1, <5>2
      <4>2. CASE Succeed(d) \/ AddToList(d) \/ FailCommand(d)
        <5>1. sent' = [sent EXCEPT ![d] = Idle] /\ Idle.state = "idle"
          BY <4>2 DEF Succeed, AddToList, FailCommand, Idle
        <5>2. QED BY <3>1, <5>1
      <4>3. QED BY <3>3, <4>1, <4>2
    <3>4. ASSUME NEW d \in Slots, NEW name,
                 Confirm(d, name) \/ \E r \in Rows : Press(d, r, name)
          PROVE  FALSE
      BY <3>1, <3>4 DEF Confirm, Press, Send
    <3>5. ASSUME Remount \/ RemountStore
          PROVE  FALSE
      <4>1. sent'[c] = [sent[c] EXCEPT !.mounted = FALSE]
        BY <3>5 DEF Remount, RemountStore
      <4>2. QED BY <3>1, <4>1 DEF Command
    <3>6. ASSUME \/ ChangeLanguage \/ TryAgain \/ OpenDialog \/ CloseDialog
                 \/ \E k \in Keys : LookFor(k)
                 \/ \E i \in DOMAIN loads : Serve(i) \/ Arrive(i) \/ FailLoad(i)
                 \/ \E r \in Rows, name \in DOMAIN P.api : OtherActs(r, name)
                 \/ UNCHANGED vars
          PROVE  FALSE
      BY <3>6 DEF ChangeLanguage, TryAgain, OpenDialog, CloseDialog, LookFor, Serve, Arrive,
                  FailLoad, OtherActs, vars
    <3>7. QED BY <3>2, <3>3, <3>4, <3>5, <3>6 DEF Next
  <2>2. CommandKnown(sent[c]) /\ WellMade(P) /\ status \in [Rows -> Status]
    BY InvFacts DEF PageInv
  <2>3. /\ sent[c].row \in Rows /\ sent[c].name \in Buttons(sent[c].seen)
        /\ After(sent[c].seen, status[sent[c].row])
    BY <2>2 DEF CommandKnown
  <2>4. Offered(P, sent[c].seen, sent[c].name) /\ status[sent[c].row] \in Status
    BY <2>2, <2>3, ButtonFacts
  <2>5. /\ status[sent[c].row] \in P.api[sent[c].name].from
        /\ status' = [status EXCEPT ![sent[c].row] = P.api[sent[c].name].to]
    BY <2>1, <2>3, RowAssumption DEF Accept
  <2>6. CASE status[sent[c].row] # sent[c].seen
    <3>1. \/ P.api[sent[c].name].to = status[sent[c].row]
          \/ status[sent[c].row] = "approved" /\ sent[c].name = "rejected"
      BY <2>3, <2>4, <2>5, <2>6 DEF Offered
    <3>2. P.api[sent[c].name].to = status[sent[c].row] => status' = status
      BY <2>2, <2>3, <2>5
    <3>3. QED BY <3>1, <3>2
  <2>7. QED BY <2>6
<1>2. QED BY <1>1, PageInvariant, PTL DEF Spec, UnseenChangeOnlyRejects
=============================================================================
