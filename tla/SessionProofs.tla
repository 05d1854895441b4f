----------------------------- MODULE SessionProofs -----------------------------
(***************************************************************************)
(* Theorems about the session of the web client, for any number of tabs,   *)
(* accounts and requests, and any paths that are entered.                  *)
(***************************************************************************)
EXTENDS Session, FiniteSetTheorems, SequenceTheorems, TLAPS

USE UserAssumption, BoundAssumption

-----------------------------------------------------------------------------
(* The routes.                                                             *)

\* A store that knows whom it shows: nobody, or an account with a token.
Whole(s) ==
    /\ s.user \in Users \cup {NoUser}
    /\ s.isAuthenticated \in BOOLEAN
    /\ s.isAuthenticated <=> s.user # NoUser

\* The roles that a path is for, page by page.
LEMMA RolesOfFacts ==
    /\ \A p \in OpenPages \cup GuestPages : RolesOf(p) = {}
    /\ \A r \in Roles : \A p \in RolePages[r] : r \in RolesOf(p)
    /\ RolesOf("/chat") = Roles
<1>1. \A p \in OpenPages \cup GuestPages : RolesOf(p) = {}
  BY DEF OpenPages, GuestPages, RolesOf, Roles, RolePages
<1>2. "/chat" \notin UNION {RolePages[r] : r \in Roles}
  BY DEF Roles, RolePages
<1>3. \A r \in Roles : \A p \in RolePages[r] : r \in RolesOf(p)
  BY <1>2 DEF RolesOf
<1>4. QED BY <1>1, <1>3 DEF RolesOf

\* Every role has its dashboard among its pages.
LEMMA DashboardFacts ==
    ASSUME NEW u \in Users
    PROVE  /\ Dashboard(u) \in Pages
           /\ Dashboard(u) \notin OpenPages \cup GuestPages
           /\ RoleOf[u] \in Roles /\ Dashboard(u) \in RolePages[RoleOf[u]]
           /\ RoleOf[u] \in RolesOf(Dashboard(u)) /\ Protected(Dashboard(u))
<1>1. RoleOf[u] \in Roles
  OBVIOUS
<1>2. /\ Dashboard(u) \notin OpenPages \cup GuestPages
      /\ Dashboard(u) \in RolePages[RoleOf[u]]
  <2> DEFINE Home == [admin |-> "/admin", petambak |-> "/petambak",
                      logistik |-> "/logistik", konsumen |-> "/konsumen"]
  <2>1. \A r \in Roles : Home[r] \in RolePages[r] /\ Home[r] \notin OpenPages \cup GuestPages
    <3>1. Home["admin"] \in RolePages["admin"] /\ Home["admin"] \notin OpenPages \cup GuestPages
      BY DEF RolePages, OpenPages, GuestPages
    <3>2. Home["petambak"] \in RolePages["petambak"] /\ Home["petambak"] \notin OpenPages \cup GuestPages
      BY DEF RolePages, OpenPages, GuestPages
    <3>3. Home["logistik"] \in RolePages["logistik"] /\ Home["logistik"] \notin OpenPages \cup GuestPages
      BY DEF RolePages, OpenPages, GuestPages
    <3>4. Home["konsumen"] \in RolePages["konsumen"] /\ Home["konsumen"] \notin OpenPages \cup GuestPages
      BY DEF RolePages, OpenPages, GuestPages
    <3> HIDE DEF Home
    <3>5. QED BY <3>1, <3>2, <3>3, <3>4 DEF Roles
  <2>2. Dashboard(u) = Home[RoleOf[u]]
    BY DEF Dashboard
  <2> HIDE DEF Home
  <2>3. QED BY <1>1, <2>1, <2>2
<1>3. Dashboard(u) \in Pages
  BY <1>1, <1>2 DEF Pages
<1>4. QED BY <1>1, <1>2, <1>3, RolesOfFacts DEF Protected

\* Where a store that shows an account is sent to: the page, if it is open or
\* of the account's role, and else the dashboard.
LEMMA RouteOfUser ==
    ASSUME NEW s, Whole(s), s.user # NoUser, NEW p
    PROVE  /\ Route(s, p) = IF p \in OpenPages \/ RoleOf[s.user] \in RolesOf(p)
                            THEN p ELSE Dashboard(s.user)
           /\ Route(s, Dashboard(s.user)) = Dashboard(s.user)
<1>1. s.user \in Users /\ s.isAuthenticated
  BY DEF Whole
<1>2. \A q : Route(s, q) = IF q \in OpenPages \/ RoleOf[s.user] \in RolesOf(q)
                           THEN q ELSE Dashboard(s.user)
  <2> SUFFICES ASSUME NEW q
               PROVE  Route(s, q) = IF q \in OpenPages \/ RoleOf[s.user] \in RolesOf(q)
                                    THEN q ELSE Dashboard(s.user)
    OBVIOUS
  <2>1. OpenPages \cap GuestPages = {}
    BY DEF OpenPages, GuestPages
  <2>2. CASE q \in OpenPages
    <3>1. q \notin GuestPages /\ ~Protected(q)
      BY <2>1, <2>2, RolesOfFacts DEF Protected
    <3>2. QED BY <2>2, <3>1 DEF Route
  <2>3. CASE q \in GuestPages
    <3>1. q \notin OpenPages /\ ~Protected(q) /\ RolesOf(q) = {}
      BY <2>1, <2>3, RolesOfFacts DEF Protected
    <3>2. QED BY <1>1, <2>3, <3>1 DEF Route, PublicRoute
  <2>4. CASE q \notin OpenPages /\ q \notin GuestPages /\ Protected(q)
    BY <1>1, <2>4 DEF Route, ProtectedRoute
  <2>5. CASE q \notin OpenPages /\ q \notin GuestPages /\ ~Protected(q)
    <3>1. RolesOf(q) = {}
      BY <2>5 DEF Protected
    <3>2. Route(s, q) = DynamicRedirect(s)
      BY <2>5 DEF Route
    <3>3. QED BY <1>1, <2>5, <3>1, <3>2 DEF DynamicRedirect
  <2>6. QED BY <2>2, <2>3, <2>4, <2>5
<1>3. QED BY <1>1, <1>2, DashboardFacts

\* Where a store that shows nobody is sent to.
LEMMA RouteOfNobody ==
    ASSUME NEW s, Whole(s), s.user = NoUser, NEW p
    PROVE  Route(s, p) = IF p \in OpenPages \cup GuestPages THEN p
                         ELSE IF Protected(p) THEN "/login" ELSE "/"
<1>1. ~s.isAuthenticated
  BY DEF Whole
<1>2. OpenPages \cap GuestPages = {}
  BY DEF OpenPages, GuestPages
<1>3. \A q \in OpenPages \cup GuestPages : ~Protected(q)
  BY RolesOfFacts DEF Protected
<1>4. CASE p \in OpenPages
  BY <1>2, <1>3, <1>4 DEF Route
<1>5. CASE p \in GuestPages
  BY <1>1, <1>2, <1>3, <1>5 DEF Route, PublicRoute
<1>6. CASE p \notin OpenPages /\ p \notin GuestPages /\ Protected(p)
  BY <1>1, <1>6 DEF Route, ProtectedRoute
<1>7. CASE p \notin OpenPages /\ p \notin GuestPages /\ ~Protected(p)
  BY <1>1, <1>7 DEF Route, DynamicRedirect
<1>8. QED BY <1>4, <1>5, <1>6, <1>7

\* The guards settle at once: where a tab is sent it may stay.
LEMMA RouteSettles ==
    ASSUME NEW s, Whole(s), NEW p
    PROVE  /\ Route(s, Route(s, p)) = Route(s, p)
           /\ Settled(s, p) = Route(s, p)
           /\ Route(s, p) \in Pages
<1>1. \A q : q \in OpenPages \cup GuestPages \/ Protected(q) => q \in Pages
  BY DEF Protected, RolesOf, Pages
<1>2. CASE s.user # NoUser
  <2>1. s.user \in Users
    BY <1>2 DEF Whole
  <2>2. Dashboard(s.user) \in Pages
    BY <2>1, DashboardFacts
  <2>3. Route(s, p) \in {p, Dashboard(s.user)}
    BY <1>2, RouteOfUser
  <2>4. CASE Route(s, p) = p
    <3>1. p \in OpenPages \/ RoleOf[s.user] \in RolesOf(p) \/ p = Dashboard(s.user)
      BY <1>2, <2>4, RouteOfUser
    <3>2. p \in Pages
      BY <1>1, <2>2, <3>1 DEF Protected
    <3>3. QED BY <2>4, <3>2 DEF Settled
  <2>5. CASE Route(s, p) = Dashboard(s.user)
    BY <1>2, <2>2, <2>5, RouteOfUser DEF Settled
  <2>6. QED BY <2>3, <2>4, <2>5
<1>3. CASE s.user = NoUser
  <2>1. "/login" \in GuestPages /\ "/" \in OpenPages
    BY DEF GuestPages, OpenPages
  <2>2. Route(s, p) \in OpenPages \cup GuestPages
    BY <1>3, <2>1, RouteOfNobody
  <2>3. \A q \in OpenPages \cup GuestPages : Route(s, q) = q
    BY <1>3, RouteOfNobody
  <2>4. QED BY <1>1, <2>2, <2>3 DEF Settled
<1>4. QED BY <1>2, <1>3

\* The guards look at nothing but the user and whether one is logged in.
LEMMA RouteLooks ==
    ASSUME NEW s, NEW x, s.user = x.user, s.isAuthenticated = x.isAuthenticated, NEW p
    PROVE  Route(s, p) = Route(x, p)
BY DEF Route, PublicRoute, ProtectedRoute, DynamicRedirect

-----------------------------------------------------------------------------
(* What a tab, its form and the storage know of one another.               *)

\* The storage holds a token with the account it was issued to, or neither.
StorageKnown ==
    /\ storage.token # 0 <=> storage.user # NoUser
    /\ storage.token # 0 =>
          storage.token \in DOMAIN issued /\ issued[storage.token] = storage.user

\* A tab shows an account with a token or nobody without one, on a page that
\* the guards leave him on.
TabKnown(x) ==
    /\ Route(x, x.path) = x.path
    /\ x.isAuthenticated <=> x.user # NoUser
    /\ x.isAuthenticated <=> x.token # 0

\* A tab that no other tab overtook shows what the storage holds, unless it is
\* being sent to /login; then the storage has his account still, or nobody's.
MirrorsOf(x, st, isOvertaken) ==
    ~isOvertaken =>
        /\ ~x.leaving => x.user = st.user /\ x.token = st.token
        /\ st.user \in {NoUser, x.user}

\* The requests of the form that tab t shows.
FormOf(fs, t) == {f \in fs : f.tab = t /\ f.mounted}

\* A tab is loading exactly while its form has a request, and then one.
OneFormOf(x, fs) ==
    /\ x.loading => x.path \in GuestPages /\ \E f : fs = {f}
    /\ ~x.loading => fs = {}

FlightsKnown == \A f \in flights : f.kind # "call" => f.user \in Users

SInv ==
    /\ TypeOK
    /\ StorageKnown
    /\ FlightsKnown
    /\ \A t \in Tabs : /\ TabKnown(tab[t])
                       /\ MirrorsOf(tab[t], storage, overtaken[t])
                       /\ OneFormOf(tab[t], FormOf(flights, t))

\* A tab that knows whom it shows is whole.
LEMMA KnownIsWhole ==
    ASSUME NEW x \in Tab, TabKnown(x)
    PROVE  Whole(x)
BY DEF Tab, TabKnown, Whole

\* A tab that shows a form shows nobody, for the guards send a user home.
LEMMA FormShowsNobody ==
    ASSUME NEW x \in Tab, TabKnown(x), x.path \in GuestPages
    PROVE  x.user = NoUser /\ x.token = 0 /\ ~x.isAuthenticated
<1>1. Whole(x)
  BY KnownIsWhole
<1>2. SUFFICES ASSUME x.user # NoUser PROVE FALSE
  BY DEF TabKnown
<1>3. x.user \in Users
  BY <1>1, <1>2 DEF Whole
<1>4. x.path \notin OpenPages /\ RolesOf(x.path) = {}
  <2>1. OpenPages \cap GuestPages = {}
    BY DEF OpenPages, GuestPages
  <2>2. QED BY <2>1, RolesOfFacts
<1>5. Route(x, x.path) = Dashboard(x.user)
  BY <1>1, <1>2, <1>4, RouteOfUser
<1>6. QED BY <1>3, <1>5, DashboardFacts DEF TabKnown

\* A tab whose path is in P.
TabAt(P) == [user : Users \cup {NoUser}, token : Token, isAuthenticated : BOOLEAN,
             path : P, loading : BOOLEAN, showLogoutModal : BOOLEAN, leaving : BOOLEAN]

\* A tab that is sent to p, from whatever path, shows where the guards let it
\* rest, and its form goes on loading if it stays on screen.
LEMMA ShowAnyFacts ==
    ASSUME NEW P, NEW s \in TabAt(P), Whole(s), s.isAuthenticated <=> s.token # 0, NEW p
    PROVE  /\ Show(s, p) \in Tab /\ TabKnown(Show(s, p))
           /\ Show(s, p).user = s.user /\ Show(s, p).token = s.token
           /\ Show(s, p).isAuthenticated = s.isAuthenticated
           /\ Show(s, p).leaving = s.leaving
           /\ Show(s, p).loading => s.loading /\ Show(s, p).path = s.path
           /\ s.loading /\ Show(s, p).path = s.path => Show(s, p).loading
<1> DEFINE q == Settled(s, p)
           x == Show(s, p)
<1>1. Route(s, q) = q /\ q \in Pages
  BY RouteSettles
<1> HIDE DEF q
<1>2. x = [s EXCEPT !.path = q, !.loading = @ /\ q = s.path,
                    !.showLogoutModal = @ /\ Protected(q)]
  BY DEF q, Show
<1> HIDE DEF x
<1>3. Protected(q) \in BOOLEAN
  BY DEF Protected
<1>4. x \in Tab
  BY <1>1, <1>2, <1>3 DEF Tab, TabAt
<1>5. /\ x.user = s.user /\ x.token = s.token /\ x.path = q
      /\ x.isAuthenticated = s.isAuthenticated
      /\ x.leaving = s.leaving
  BY <1>2 DEF Tab, TabAt
<1>6. (x.loading => s.loading /\ q = s.path) /\ (s.loading /\ q = s.path => x.loading)
  BY <1>2 DEF Tab, TabAt
<1>7. Route(x, q) = Route(s, q)
  <2>1. x.user = s.user /\ x.isAuthenticated = s.isAuthenticated
    BY <1>5
  <2>2. QED BY <2>1, RouteLooks, Zenon
<1>8. TabKnown(x)
  <2>1. Route(x, x.path) = x.path
    BY <1>1, <1>5, <1>7
  <2>2. QED BY <1>5, <2>1 DEF TabKnown, Whole
<1>9. QED BY <1>4, <1>5, <1>6, <1>8 DEF x

\* The same of a tab that shows a page.
LEMMA ShowFacts ==
    ASSUME NEW s \in Tab, Whole(s), s.isAuthenticated <=> s.token # 0, NEW p
    PROVE  /\ Show(s, p) \in Tab /\ TabKnown(Show(s, p))
           /\ Show(s, p).user = s.user /\ Show(s, p).token = s.token
           /\ Show(s, p).isAuthenticated = s.isAuthenticated
           /\ Show(s, p).leaving = s.leaving
           /\ Show(s, p).loading => s.loading /\ Show(s, p).path = s.path
           /\ s.loading /\ Show(s, p).path = s.path => Show(s, p).loading
<1>1. s \in TabAt(Pages)
  BY DEF Tab, TabAt
<1>2. QED BY <1>1, ShowAnyFacts

\* A tab that leaves a page takes the requests of its form off the screen, and
\* nothing else happens to the requests.
LEMMA UnmountedFacts ==
    ASSUME NEW fs \in SUBSET Flight, NEW t \in Tabs, NEW s
    PROVE  /\ Unmounted(fs, t, s) \subseteq Flight
           /\ \A u \in Tabs : FormOf(Unmounted(fs, t, s), u) =
                 IF u = t /\ s.path # tab[t].path THEN {} ELSE FormOf(fs, u)
           /\ (\A f \in fs : f.kind # "call" => f.user \in Users)
                 => \A g \in Unmounted(fs, t, s) : g.kind # "call" => g.user \in Users
<1> DEFINE U == Unmounted(fs, t, s)
           Off(f) == f.tab = t /\ s.path # tab[t].path
<1>1. \A g \in U : \E f \in fs : g = IF Off(f) THEN [f EXCEPT !.mounted = FALSE] ELSE f
  BY DEF Unmounted
<1>2. \A f \in fs : (IF Off(f) THEN [f EXCEPT !.mounted = FALSE] ELSE f) \in U
  BY DEF Unmounted
<1> HIDE DEF U
<1>3. ASSUME NEW g \in U
      PROVE  /\ g \in Flight
             /\ g.mounted => g \in fs /\ ~Off(g)
             /\ \E f \in fs : g.kind = f.kind /\ g.user = f.user
  <2>1. PICK f \in fs : g = IF Off(f) THEN [f EXCEPT !.mounted = FALSE] ELSE f
    BY <1>1
  <2>2. f \in Flight
    OBVIOUS
  <2>3. CASE Off(f)
    <3>1. g = [f EXCEPT !.mounted = FALSE]
      BY <2>1, <2>3
    <3>2. g \in Flight /\ ~g.mounted /\ g.kind = f.kind /\ g.user = f.user
      BY <2>2, <3>1 DEF Flight
    <3>3. QED BY <3>2
  <2>4. CASE ~Off(f)
    BY <2>1, <2>2, <2>4
  <2>5. QED BY <2>3, <2>4
<1>4. \A f \in fs : ~Off(f) => f \in U
  BY <1>2
<1>5. \A u \in Tabs : FormOf(U, u) =
         IF u = t /\ s.path # tab[t].path THEN {} ELSE FormOf(fs, u)
  BY <1>3, <1>4 DEF FormOf
<1>6. QED BY <1>3, <1>5 DEF U

-----------------------------------------------------------------------------
(* Every step keeps it.                                                    *)

\* A step that changes one tab, keeps what the others' forms have asked and
\* overtakes them if it writes the storage, keeps the invariant of all.
LEMMA TabStep ==
    ASSUME SInv, NEW t \in Tabs, NEW x \in Tab, TabKnown(x),
           tab' = [tab EXCEPT ![t] = x],
           storage' \in Storage, StorageKnown',
           flights' \subseteq Flight, FlightsKnown',
           issued' \in Seq(Users), Len(issued') <= MaxTokens, expired' \subseteq DOMAIN issued',
           overtaken' \in [Tabs -> BOOLEAN],
           OneFormOf(x, FormOf(flights', t)),
           MirrorsOf(x, storage', overtaken'[t]),
           \A u \in Tabs \ {t} : /\ FormOf(flights', u) = FormOf(flights, u)
                                 /\ ~overtaken'[u] => ~overtaken[u] /\ storage' = storage
    PROVE  SInv'
<1>1. tab \in [Tabs -> Tab]
  BY DEF SInv, TypeOK
<1>2. TypeOK'
  BY <1>1 DEF TypeOK
<1>3. ASSUME NEW u \in Tabs
      PROVE  /\ TabKnown(tab'[u])
             /\ MirrorsOf(tab'[u], storage', overtaken'[u])
             /\ OneFormOf(tab'[u], FormOf(flights', u))
  <2>1. CASE u = t
    <3>1. tab'[u] = x
      BY <1>1, <2>1
    <3>2. QED BY <2>1, <3>1
  <2>2. CASE u # t
    <3>1. tab'[u] = tab[u]
      BY <1>1, <2>2
    <3>2. /\ TabKnown(tab[u])
          /\ MirrorsOf(tab[u], storage, overtaken[u])
          /\ OneFormOf(tab[u], FormOf(flights, u))
      BY DEF SInv
    <3>3. MirrorsOf(tab[u], storage', overtaken'[u])
      BY <2>2, <3>2 DEF MirrorsOf
    <3>4. FormOf(flights', u) = FormOf(flights, u)
      BY <2>2
    <3>5. QED BY <3>1, <3>2, <3>3, <3>4
  <2>3. QED BY <2>1, <2>2
<1>4. QED BY <1>2, <1>3 DEF SInv

\* What the invariant says of one tab and of the rest.
LEMMA SInvFacts ==
    ASSUME SInv
    PROVE  /\ storage \in Storage /\ StorageKnown
           /\ tab \in [Tabs -> Tab]
           /\ flights \subseteq Flight /\ FlightsKnown
           /\ issued \in Seq(Users) /\ Len(issued) <= MaxTokens /\ Len(issued) \in Nat
           /\ expired \subseteq DOMAIN issued
           /\ overtaken \in [Tabs -> BOOLEAN]
           /\ \A t \in Tabs : /\ tab[t] \in Tab /\ TabKnown(tab[t]) /\ Whole(tab[t])
                              /\ MirrorsOf(tab[t], storage, overtaken[t])
                              /\ OneFormOf(tab[t], FormOf(flights, t))
<1>1. TypeOK
  BY DEF SInv
<1>2. \A t \in Tabs : tab[t] \in Tab
  BY <1>1 DEF TypeOK
<1>3. Len(issued) \in Nat
  BY <1>1, LenProperties DEF TypeOK
<1>4. QED BY <1>1, <1>2, <1>3, KnownIsWhole DEF SInv, TypeOK

\* Whom a step of tab t overtakes.
LEMMA OvertakenFacts ==
    ASSUME SInv, NEW t \in Tabs, overtaken' = OvertakenBy(t)
    PROVE  /\ overtaken' \in [Tabs -> BOOLEAN]
           /\ ~overtaken'[t]
           /\ \A u \in Tabs \ {t} : ~overtaken'[u] => ~overtaken[u] /\ storage' = storage
<1>1. overtaken \in [Tabs -> BOOLEAN]
  BY SInvFacts
<1>2. QED BY <1>1 DEF OvertakenBy

\* The store of a page load is what the storage holds.
LEMMA LoadedFacts ==
    ASSUME SInv, NEW p
    PROVE  /\ Loaded(p) \in Tab /\ TabKnown(Loaded(p))
           /\ Loaded(p).user = storage.user /\ Loaded(p).token = storage.token
           /\ ~Loaded(p).leaving /\ ~Loaded(p).loading
<1>1. storage.user \in Users \cup {NoUser} /\ storage.token \in Token
  BY SInvFacts DEF Storage
<1>2. PICK a \in BOOLEAN : a = (storage.token # 0)
  OBVIOUS
<1>3. PICK s : s = [user |-> storage.user, token |-> storage.token,
                    isAuthenticated |-> a, path |-> p, loading |-> FALSE,
                    showLogoutModal |-> FALSE, leaving |-> FALSE]
  OBVIOUS
<1>4. /\ s.user = storage.user /\ s.token = storage.token
      /\ ~s.leaving /\ ~s.loading /\ s.isAuthenticated = a
  BY <1>3
<1>5. Whole(s) /\ (s.isAuthenticated <=> s.token # 0)
  BY <1>1, <1>2, <1>4, SInvFacts DEF Whole, StorageKnown
<1>6. Loaded(p) = Show(s, p)
  BY <1>2, <1>3 DEF Loaded
<1>7. s \in TabAt({p})
  BY <1>1, <1>2, <1>3 DEF TabAt
<1>8. /\ Show(s, p) \in Tab /\ TabKnown(Show(s, p))
      /\ Show(s, p).user = s.user /\ Show(s, p).token = s.token
      /\ Show(s, p).leaving = s.leaving
      /\ Show(s, p).loading => s.loading /\ Show(s, p).path = s.path
  BY <1>5, <1>7, ShowAnyFacts
<1>9. QED BY <1>4, <1>6, <1>8

\* A page load shows what the storage holds.
LEMMA LoadKeeps ==
    ASSUME SInv, NEW t \in Tabs, NEW p, Load(t, p)
    PROVE  SInv'
<1>1. PICK x : x = Loaded(p)
  OBVIOUS
<1>2. /\ x \in Tab /\ TabKnown(x)
      /\ x.user = storage.user /\ x.token = storage.token
      /\ ~x.leaving /\ ~x.loading
  BY <1>1, LoadedFacts
<1>3. /\ tab' = [tab EXCEPT ![t] = x]
      /\ storage' = storage /\ issued' = issued /\ expired' = expired
      /\ flights' = {f \in flights : f.tab # t}
      /\ overtaken' = [overtaken EXCEPT ![t] = FALSE]
  BY <1>1 DEF Load
<1>4. /\ FormOf(flights', t) = {}
      /\ \A u \in Tabs \ {t} : FormOf(flights', u) = FormOf(flights, u)
  BY <1>3 DEF FormOf
<1>5. OneFormOf(x, FormOf(flights', t)) /\ MirrorsOf(x, storage', overtaken'[t])
  BY <1>2, <1>3, <1>4 DEF OneFormOf, MirrorsOf
<1>6. /\ overtaken' \in [Tabs -> BOOLEAN]
      /\ \A u \in Tabs \ {t} : ~overtaken'[u] => ~overtaken[u]
  BY <1>3, SInvFacts
<1>7. StorageKnown' /\ FlightsKnown' /\ flights' \subseteq Flight
  BY <1>3, SInvFacts DEF StorageKnown, FlightsKnown
<1>8. QED BY <1>2, <1>3, <1>4, <1>5, <1>6, <1>7, SInvFacts, TabStep

\* A link or the back button.
LEMMA NavigateKeeps ==
    ASSUME SInv, NEW t \in Tabs, NEW p, Navigate(t, p)
    PROVE  SInv'
<1>1. PICK x : x = Show(tab[t], p)
  OBVIOUS
<1>2. /\ tab' = [tab EXCEPT ![t] = x]
      /\ flights' = Unmounted(flights, t, x)
      /\ storage' = storage /\ issued' = issued /\ expired' = expired
      /\ overtaken' = overtaken
  BY <1>1, SInvFacts DEF Navigate
<1>3. /\ x \in Tab /\ TabKnown(x)
      /\ x.user = tab[t].user /\ x.token = tab[t].token /\ x.leaving = tab[t].leaving
      /\ x.loading => tab[t].loading /\ x.path = tab[t].path
      /\ tab[t].loading /\ x.path = tab[t].path => x.loading
  BY <1>1, SInvFacts, ShowFacts DEF TabKnown
<1>4. /\ flights' \subseteq Flight
      /\ \A u \in Tabs : FormOf(flights', u) =
            IF u = t /\ x.path # tab[t].path THEN {} ELSE FormOf(flights, u)
      /\ FlightsKnown'
  <2>1. flights \in SUBSET Flight /\ FlightsKnown
    BY SInvFacts
  <2>2. \A f \in flights : f.kind # "call" => f.user \in Users
    BY <2>1 DEF FlightsKnown
  <2>3. \A g \in flights' : g.kind # "call" => g.user \in Users
    <3>1. \A g \in Unmounted(flights, t, x) : g.kind # "call" => g.user \in Users
      BY <2>1, <2>2, UnmountedFacts
    <3>2. QED BY <1>2, <3>1
  <2>4. FlightsKnown'
    BY <2>3 DEF FlightsKnown
  <2>5. /\ Unmounted(flights, t, x) \subseteq Flight
        /\ \A u \in Tabs : FormOf(Unmounted(flights, t, x), u) =
              IF u = t /\ x.path # tab[t].path THEN {} ELSE FormOf(flights, u)
    BY <2>1, UnmountedFacts, Zenon
  <2>6. QED BY <1>2, <2>4, <2>5
<1>5. OneFormOf(x, FormOf(flights', t)) /\ MirrorsOf(x, storage', overtaken'[t])
  BY <1>2, <1>3, <1>4, SInvFacts DEF OneFormOf, MirrorsOf
<1>6. StorageKnown'
  BY <1>2, SInvFacts DEF StorageKnown
<1>7. QED BY <1>2, <1>3, <1>4, <1>5, <1>6, SInvFacts, TabStep

\* A request is sent with the token of the storage.
LEMMA SendFacts ==
    ASSUME SInv, NEW t \in Tabs, NEW kind \in {"login", "register", "call"},
           NEW u \in Users \cup {NoUser}, kind # "call" => u \in Users, Send(t, kind, u)
    PROVE  /\ flights' \subseteq Flight /\ FlightsKnown'
           /\ \A w \in Tabs \ {t} : FormOf(flights', w) = FormOf(flights, w)
           /\ kind = "call" => FormOf(flights', t) = FormOf(flights, t)
           /\ kind # "call" /\ FormOf(flights, t) = {} => \E f : FormOf(flights', t) = {f}
<1>1. PICK f : f = [tab |-> t, kind |-> kind, user |-> u, token |-> storage.token,
                    mounted |-> kind # "call"]
  OBVIOUS
<1>2. storage.token \in Token
  BY SInvFacts DEF Storage
<1>3. /\ f \in Flight /\ f.tab = t /\ f.kind = kind /\ f.user = u
      /\ f.mounted <=> kind # "call"
  BY <1>1, <1>2 DEF Flight
<1>4. flights' = flights \cup {f}
  BY <1>1 DEF Send
<1>5. flights' \subseteq Flight /\ FlightsKnown'
  BY <1>3, <1>4, SInvFacts DEF FlightsKnown
<1>6. /\ \A w \in Tabs \ {t} : FormOf(flights', w) = FormOf(flights, w)
      /\ kind = "call" => FormOf(flights', t) = FormOf(flights, t)
      /\ kind # "call" => FormOf(flights', t) = FormOf(flights, t) \cup {f}
  BY <1>3, <1>4 DEF FormOf
<1>7. QED BY <1>5, <1>6

\* The button of a form sends one request and is disabled.
LEMMA SubmitKeeps ==
    ASSUME SInv, NEW t \in Tabs, NEW page \in GuestPages,
           NEW kind \in {"login", "register"}, NEW u \in Users, Submit(t, page, kind, u)
    PROVE  SInv'
<1>1. PICK x : x = [tab[t] EXCEPT !.loading = TRUE]
  OBVIOUS
<1>2. /\ tab' = [tab EXCEPT ![t] = x]
      /\ storage' = storage /\ issued' = issued /\ expired' = expired
      /\ overtaken' = overtaken
      /\ tab[t].path \in GuestPages /\ ~tab[t].loading /\ Send(t, kind, u)
  BY <1>1 DEF Submit
<1>3. /\ x \in Tab /\ x.loading
      /\ x.user = tab[t].user /\ x.token = tab[t].token /\ x.leaving = tab[t].leaving
      /\ x.path = tab[t].path /\ x.isAuthenticated = tab[t].isAuthenticated
  <2>1. tab[t] \in Tab
    BY SInvFacts
  <2>2. QED BY <1>1, <2>1 DEF Tab
<1>4. TabKnown(x)
  <2>1. Route(x, x.path) = Route(tab[t], tab[t].path)
    BY <1>3, RouteLooks
  <2>2. TabKnown(tab[t])
    BY SInvFacts
  <2>3. QED BY <1>3, <2>1, <2>2 DEF TabKnown
<1>5. FormOf(flights, t) = {}
  BY <1>2, SInvFacts DEF OneFormOf
<1>6. /\ flights' \subseteq Flight /\ FlightsKnown'
      /\ \A w \in Tabs \ {t} : FormOf(flights', w) = FormOf(flights, w)
      /\ \E f : FormOf(flights', t) = {f}
  BY <1>2, <1>5, SendFacts
<1>7. OneFormOf(x, FormOf(flights', t)) /\ MirrorsOf(x, storage', overtaken'[t])
  BY <1>2, <1>3, <1>6, SInvFacts DEF OneFormOf, MirrorsOf
<1>8. StorageKnown'
  BY <1>2, SInvFacts DEF StorageKnown
<1>9. QED BY <1>2, <1>3, <1>4, <1>6, <1>7, <1>8, SInvFacts, TabStep

\* A page calls the server.
LEMMA CallKeeps ==
    ASSUME SInv, NEW t \in Tabs, Call(t)
    PROVE  SInv'
<1>1. /\ tab' = tab /\ storage' = storage /\ issued' = issued /\ expired' = expired
      /\ overtaken' = overtaken
      /\ Send(t, "call", NoUser)
  BY DEF Call
<1>2. /\ flights' \subseteq Flight /\ FlightsKnown'
      /\ \A w \in Tabs : FormOf(flights', w) = FormOf(flights, w)
  BY <1>1, SendFacts
<1>3. tab' = [tab EXCEPT ![t] = tab[t]]
  BY <1>1, SInvFacts
<1>4. StorageKnown'
  BY <1>1, SInvFacts DEF StorageKnown
<1>5. /\ tab[t] \in Tab /\ TabKnown(tab[t])
      /\ OneFormOf(tab[t], FormOf(flights', t))
      /\ MirrorsOf(tab[t], storage', overtaken'[t])
  BY <1>1, <1>2, SInvFacts
<1>6. QED BY <1>1, <1>2, <1>3, <1>4, <1>5, SInvFacts, TabStep

\* The form of an answered request stops loading, and had no other.
LEMMA DoneFacts ==
    ASSUME SInv, NEW f \in flights
    PROVE  /\ f.tab \in Tabs /\ Done(f) \in Tab /\ TabKnown(Done(f))
           /\ Done(f).user = tab[f.tab].user /\ Done(f).token = tab[f.tab].token
           /\ Done(f).path = tab[f.tab].path /\ Done(f).leaving = tab[f.tab].leaving
           /\ OneFormOf(Done(f), FormOf(flights \ {f}, f.tab))
           /\ \A u \in Tabs \ {f.tab} : FormOf(flights \ {f}, u) = FormOf(flights, u)
<1>1. PICK t : t = f.tab
  OBVIOUS
<1>2. PICK x : x = Done(f)
  OBVIOUS
<1>3. f \in Flight
  BY SInvFacts
<1>4. t \in Tabs /\ f.mounted \in BOOLEAN
  BY <1>1, <1>3 DEF Flight
<1>5. tab[t] \in Tab /\ TabKnown(tab[t]) /\ OneFormOf(tab[t], FormOf(flights, t))
  BY <1>4, SInvFacts
<1>6. x = [tab[t] EXCEPT !.loading = @ /\ ~f.mounted]
  BY <1>1, <1>2 DEF Done
<1>7. /\ x \in Tab
      /\ x.user = tab[t].user /\ x.token = tab[t].token /\ x.path = tab[t].path
      /\ x.leaving = tab[t].leaving /\ x.isAuthenticated = tab[t].isAuthenticated
      /\ x.loading => tab[t].loading /\ ~f.mounted
      /\ tab[t].loading /\ ~f.mounted => x.loading
  BY <1>4, <1>5, <1>6 DEF Tab
<1>8. TabKnown(x)
  <2>1. Route(x, x.path) = Route(tab[t], tab[t].path)
    BY <1>7, RouteLooks
  <2>2. QED BY <1>5, <1>7, <2>1 DEF TabKnown
<1>9. OneFormOf(x, FormOf(flights \ {f}, t))
  <2>1. CASE f.mounted
    <3>1. f \in FormOf(flights, t)
      BY <1>1, <2>1 DEF FormOf
    <3>2. FormOf(flights, t) = {f}
      BY <1>5, <3>1 DEF OneFormOf
    <3>3. FormOf(flights \ {f}, t) = {}
      BY <3>2 DEF FormOf
    <3>4. QED BY <1>7, <2>1, <3>3 DEF OneFormOf
  <2>2. CASE ~f.mounted
    <3>1. FormOf(flights \ {f}, t) = FormOf(flights, t)
      BY <2>2 DEF FormOf
    <3>2. QED BY <1>5, <1>7, <2>2, <3>1 DEF OneFormOf
  <2>3. QED BY <1>4, <2>1, <2>2
<1>10. \A u \in Tabs \ {t} : FormOf(flights \ {f}, u) = FormOf(flights, u)
  BY <1>1 DEF FormOf
<1>11. QED BY <1>1, <1>2, <1>4, <1>7, <1>8, <1>9, <1>10

\* A form that is accepted logs its tab in, and the storage with it.
LEMMA AcceptKeeps ==
    ASSUME SInv, NEW f \in flights, Accept(f)
    PROVE  SInv'
<1>1. PICK t \in Tabs : t = f.tab
  BY DoneFacts
<1>2. PICK d \in Tab : d = Done(f)
  BY DoneFacts
<1>3. PICK n : n = Len(issued')
  OBVIOUS
<1>4. PICK y : y = [d EXCEPT !.user = f.user, !.token = n, !.isAuthenticated = TRUE]
  OBVIOUS
<1>5. PICK x : x = Show(y, Dashboard(f.user))
  OBVIOUS
<1>6. f.user \in Users
  BY SInvFacts DEF Accept, FlightsKnown
<1>7. /\ issued' = Append(issued, f.user) /\ Len(issued) < MaxTokens
      /\ storage' = [token |-> n, user |-> f.user]
      /\ tab' = [tab EXCEPT ![t] = x]
      /\ flights' = Unmounted(flights \ {f}, t, x)
      /\ overtaken' = OvertakenBy(t) /\ expired' = expired
  <2>1. tab'[t] = x
    BY <1>1, <1>2, <1>3, <1>4, <1>5, SInvFacts DEF Accept
  <2>2. QED BY <1>1, <1>2, <1>3, <1>4, <1>5, <2>1 DEF Accept
<1>8. /\ issued' \in Seq(Users) /\ n = Len(issued) + 1 /\ n \in Nat /\ n <= MaxTokens
      /\ n \in DOMAIN issued' /\ issued'[n] = f.user
      /\ DOMAIN issued \subseteq DOMAIN issued'
  <2>1. issued \in Seq(Users) /\ Len(issued) \in Nat
    BY SInvFacts
  <2>2. /\ issued' \in Seq(Users) /\ Len(issued') = Len(issued) + 1
        /\ issued'[Len(issued) + 1] = f.user
    BY <1>6, <1>7, <2>1, AppendProperties
  <2>3. DOMAIN issued = 1..Len(issued) /\ DOMAIN issued' = 1..Len(issued')
    BY <2>1, <2>2, LenProperties
  <2>4. QED BY <1>3, <1>7, <2>1, <2>2, <2>3, BoundAssumption
<1>9. storage' \in Storage /\ StorageKnown' /\ storage'.user = f.user /\ storage'.token = n
  <2>1. n \in Token /\ n # 0 /\ f.user # NoUser
    BY <1>6, <1>8 DEF Token
  <2>2. QED BY <1>6, <1>7, <1>8, <2>1 DEF Storage, StorageKnown
<1>10. /\ y \in Tab /\ Whole(y) /\ y.isAuthenticated /\ y.user = f.user /\ y.token = n
       /\ y.path = tab[t].path
       /\ y.loading = d.loading /\ d.path = tab[t].path
       /\ (y.isAuthenticated <=> y.token # 0)
  <2>1. n \in Token /\ n # 0 /\ f.user # NoUser
    BY <1>6, <1>8 DEF Token
  <2>2. /\ y \in Tab /\ y.isAuthenticated /\ y.user = f.user /\ y.token = n
        /\ y.path = d.path /\ y.loading = d.loading
    BY <1>4, <1>6, <2>1 DEF Tab
  <2>3. d.path = tab[t].path
    BY <1>1, <1>2, DoneFacts
  <2>4. QED BY <1>6, <2>1, <2>2, <2>3 DEF Whole
<1>11. /\ x \in Tab /\ TabKnown(x)
       /\ x.user = f.user /\ x.token = n
       /\ x.loading => d.loading /\ x.path = tab[t].path
       /\ d.loading /\ x.path = tab[t].path => x.loading
  <2>1. /\ Show(y, Dashboard(f.user)) \in Tab /\ TabKnown(Show(y, Dashboard(f.user)))
        /\ Show(y, Dashboard(f.user)).user = y.user
        /\ Show(y, Dashboard(f.user)).token = y.token
        /\ Show(y, Dashboard(f.user)).loading =>
              y.loading /\ Show(y, Dashboard(f.user)).path = y.path
        /\ y.loading /\ Show(y, Dashboard(f.user)).path = y.path =>
              Show(y, Dashboard(f.user)).loading
    BY <1>10, ShowFacts
  <2>2. QED BY <1>5, <1>10, <2>1
<1>12. /\ OneFormOf(d, FormOf(flights \ {f}, t))
       /\ \A u \in Tabs \ {t} : FormOf(flights \ {f}, u) = FormOf(flights, u)
  BY <1>1, <1>2, DoneFacts
<1>13. /\ flights' \subseteq Flight
       /\ \A u \in Tabs : FormOf(flights', u) =
             IF u = t /\ x.path # tab[t].path THEN {} ELSE FormOf(flights \ {f}, u)
       /\ FlightsKnown'
  <2>1. flights \ {f} \in SUBSET Flight
    BY SInvFacts
  <2>2. \A g \in flights \ {f} : g.kind # "call" => g.user \in Users
    BY SInvFacts DEF FlightsKnown
  <2>3. /\ Unmounted(flights \ {f}, t, x) \subseteq Flight
        /\ \A u \in Tabs : FormOf(Unmounted(flights \ {f}, t, x), u) =
              IF u = t /\ x.path # tab[t].path THEN {} ELSE FormOf(flights \ {f}, u)
    BY <2>1, UnmountedFacts, Zenon
  <2>4. \A g \in Unmounted(flights \ {f}, t, x) : g.kind # "call" => g.user \in Users
    BY <2>1, <2>2, UnmountedFacts
  <2>5. FlightsKnown'
    BY <1>7, <2>4 DEF FlightsKnown
  <2>6. QED BY <1>7, <2>3, <2>5
<1>14. OneFormOf(x, FormOf(flights', t))
  <2>1. d.path = tab[t].path
    BY <1>10
  <2>2. QED BY <1>11, <1>12, <1>13, <2>1 DEF OneFormOf
<1>15. MirrorsOf(x, storage', overtaken'[t])
  BY <1>9, <1>11 DEF MirrorsOf
<1>16. /\ overtaken' \in [Tabs -> BOOLEAN]
       /\ \A u \in Tabs \ {t} : ~overtaken'[u] => ~overtaken[u] /\ storage' = storage
  BY <1>7, OvertakenFacts
<1>17. expired' \subseteq DOMAIN issued' /\ Len(issued') <= MaxTokens
  BY <1>3, <1>7, <1>8, SInvFacts
<1>18. QED
  BY <1>7, <1>8, <1>9, <1>11, <1>12, <1>13, <1>14, <1>15, <1>16, <1>17, TabStep

\* A 401 clears the storage.
LEMMA UnauthorizedKeeps ==
    ASSUME SInv, NEW f \in flights, Unauthorized(f)
    PROVE  SInv'
<1>1. PICK t \in Tabs : t = f.tab
  BY DoneFacts
<1>2. PICK d \in Tab : d = Done(f)
  BY DoneFacts
<1>3. PICK x : x = [d EXCEPT !.leaving = @ \/ tab[t].path # "/login"]
  OBVIOUS
<1>4. /\ storage' = Cleared
      /\ tab' = [tab EXCEPT ![t] = x]
      /\ flights' = flights \ {f}
      /\ overtaken' = OvertakenBy(t) /\ issued' = issued /\ expired' = expired
  BY <1>1, <1>2, <1>3 DEF Unauthorized
<1>5. /\ storage' \in Storage /\ StorageKnown'
      /\ storage'.user = NoUser /\ storage'.token = 0
  BY <1>4, BoundAssumption DEF Cleared, Storage, StorageKnown, Token
<1>6. /\ TabKnown(d) /\ d.path = tab[t].path
      /\ OneFormOf(d, FormOf(flights', t))
      /\ \A u \in Tabs \ {t} : FormOf(flights', u) = FormOf(flights, u)
  BY <1>1, <1>2, <1>4, DoneFacts
<1>7. /\ x \in Tab /\ x.user = d.user /\ x.token = d.token /\ x.path = d.path
      /\ x.isAuthenticated = d.isAuthenticated /\ x.loading = d.loading
      /\ ~x.leaving => d.path = "/login"
  BY <1>3, <1>6 DEF Tab
<1>8. TabKnown(x) /\ OneFormOf(x, FormOf(flights', t))
  <2>1. Route(x, x.path) = Route(d, d.path)
    BY <1>7, RouteLooks
  <2>2. TabKnown(x)
    BY <1>6, <1>7, <2>1 DEF TabKnown
  <2>3. OneFormOf(x, FormOf(flights', t))
    BY <1>6, <1>7 DEF OneFormOf
  <2>4. QED BY <2>2, <2>3
<1>9. MirrorsOf(x, storage', overtaken'[t])
  <2>1. "/login" \in GuestPages
    BY DEF GuestPages
  <2>2. ~x.leaving => d.user = NoUser /\ d.token = 0
    BY <1>6, <1>7, <2>1, FormShowsNobody
  <2>3. QED BY <1>5, <1>7, <2>2 DEF MirrorsOf
<1>10. /\ overtaken' \in [Tabs -> BOOLEAN]
       /\ \A u \in Tabs \ {t} : ~overtaken'[u] => ~overtaken[u] /\ storage' = storage
  BY <1>4, OvertakenFacts
<1>11. FlightsKnown' /\ flights' \subseteq Flight
  BY <1>4, SInvFacts DEF FlightsKnown
<1>12. QED
  BY <1>4, <1>5, <1>6, <1>7, <1>8, <1>9, <1>10, <1>11, SInvFacts, TabStep

\* Another answer only ends the loading of its form.
LEMMA AnswerKeeps ==
    ASSUME SInv, NEW f \in flights, Answer(f)
    PROVE  SInv'
<1>1. PICK t \in Tabs : t = f.tab
  BY DoneFacts
<1>2. PICK x \in Tab : x = Done(f)
  BY DoneFacts
<1>3. /\ tab' = [tab EXCEPT ![t] = x]
      /\ flights' = flights \ {f}
      /\ storage' = storage /\ overtaken' = overtaken
      /\ issued' = issued /\ expired' = expired
  BY <1>1, <1>2 DEF Answer
<1>4. /\ TabKnown(x) /\ x.user = tab[t].user /\ x.token = tab[t].token
      /\ x.leaving = tab[t].leaving
      /\ OneFormOf(x, FormOf(flights', t))
      /\ \A u \in Tabs \ {t} : FormOf(flights', u) = FormOf(flights, u)
  BY <1>1, <1>2, <1>3, DoneFacts
<1>5. MirrorsOf(x, storage', overtaken'[t])
  BY <1>3, <1>4, SInvFacts DEF MirrorsOf
<1>6. StorageKnown' /\ FlightsKnown' /\ flights' \subseteq Flight
  BY <1>3, SInvFacts DEF StorageKnown, FlightsKnown
<1>7. QED BY <1>3, <1>4, <1>5, <1>6, SInvFacts, TabStep

\* The dialog of the logout opens and closes over whatever is shown.
LEMMA DialogKeeps ==
    ASSUME SInv, NEW t \in Tabs, OpenLogout(t) \/ CloseLogout(t)
    PROVE  SInv'
<1>1. PICK b \in BOOLEAN : tab' = [tab EXCEPT ![t].showLogoutModal = b]
  BY DEF OpenLogout, CloseLogout
<1>2. PICK x : x = [tab[t] EXCEPT !.showLogoutModal = b]
  OBVIOUS
<1>3. /\ tab' = [tab EXCEPT ![t] = x]
      /\ storage' = storage /\ flights' = flights /\ overtaken' = overtaken
      /\ issued' = issued /\ expired' = expired
  BY <1>1, <1>2 DEF OpenLogout, CloseLogout
<1>4. tab[t] \in Tab /\ TabKnown(tab[t])
  BY SInvFacts
<1>5. /\ x \in Tab /\ x.user = tab[t].user /\ x.token = tab[t].token /\ x.path = tab[t].path
      /\ x.isAuthenticated = tab[t].isAuthenticated /\ x.loading = tab[t].loading
      /\ x.leaving = tab[t].leaving
  BY <1>2, <1>4 DEF Tab
<1>6. TabKnown(x)
  <2>1. Route(x, x.path) = Route(tab[t], tab[t].path)
    BY <1>5, RouteLooks
  <2>2. QED BY <1>4, <1>5, <2>1 DEF TabKnown
<1>7. OneFormOf(x, FormOf(flights', t)) /\ MirrorsOf(x, storage', overtaken'[t])
  BY <1>3, <1>5, SInvFacts DEF OneFormOf, MirrorsOf
<1>8. StorageKnown' /\ FlightsKnown' /\ flights' \subseteq Flight
  BY <1>3, SInvFacts DEF StorageKnown, FlightsKnown
<1>9. QED BY <1>3, <1>5, <1>6, <1>7, <1>8, SInvFacts, TabStep

\* A confirmed logout empties the store and the storage.
LEMMA ConfirmLogoutKeeps ==
    ASSUME SInv, NEW t \in Tabs, ConfirmLogout(t)
    PROVE  SInv'
<1>1. PICK y : y = [tab[t] EXCEPT !.user = NoUser, !.token = 0, !.isAuthenticated = FALSE]
  OBVIOUS
<1>2. PICK z : z = Show(y, "/login")
  OBVIOUS
<1>3. PICK x : x = [z EXCEPT !.showLogoutModal = FALSE]
  OBVIOUS
<1>4. /\ storage' = Cleared
      /\ tab' = [tab EXCEPT ![t] = x]
      /\ flights' = Unmounted(flights, t, x)
      /\ overtaken' = OvertakenBy(t) /\ issued' = issued /\ expired' = expired
  <2>1. tab' = [tab EXCEPT ![t] = x]
    BY <1>1, <1>2, <1>3 DEF ConfirmLogout
  <2>2. tab'[t] = x
    BY <2>1, SInvFacts
  <2>3. QED BY <2>1, <2>2 DEF ConfirmLogout
<1>5. /\ storage' \in Storage /\ StorageKnown'
      /\ storage'.user = NoUser /\ storage'.token = 0
  BY <1>4, BoundAssumption DEF Cleared, Storage, StorageKnown, Token
<1>6. tab[t] \in Tab
  BY SInvFacts
<1>7. /\ y \in Tab /\ Whole(y) /\ (y.isAuthenticated <=> y.token # 0)
      /\ y.user = NoUser /\ y.token = 0
      /\ y.path = tab[t].path /\ y.loading = tab[t].loading
  <2>1. 0 \in Token
    BY BoundAssumption DEF Token
  <2>2. /\ y \in Tab /\ ~y.isAuthenticated
        /\ y.user = NoUser /\ y.token = 0
        /\ y.path = tab[t].path /\ y.loading = tab[t].loading
    BY <1>1, <1>6, <2>1 DEF Tab
  <2>3. y.isAuthenticated \in BOOLEAN
    BY <2>2 DEF Tab
  <2>4. QED BY <2>2, <2>3 DEF Whole
<1>8. /\ z \in Tab /\ TabKnown(z) /\ z.user = NoUser /\ z.token = 0
      /\ z.loading => y.loading /\ z.path = y.path
      /\ y.loading /\ z.path = y.path => z.loading
  <2>1. /\ Show(y, "/login") \in Tab /\ TabKnown(Show(y, "/login"))
        /\ Show(y, "/login").user = y.user /\ Show(y, "/login").token = y.token
        /\ Show(y, "/login").loading => y.loading /\ Show(y, "/login").path = y.path
        /\ y.loading /\ Show(y, "/login").path = y.path => Show(y, "/login").loading
    BY <1>7, ShowFacts
  <2>2. QED BY <1>2, <1>7, <2>1
<1>9. /\ x \in Tab /\ x.user = NoUser /\ x.token = 0 /\ x.path = z.path
      /\ x.isAuthenticated = z.isAuthenticated /\ x.loading = z.loading
  BY <1>3, <1>8 DEF Tab
<1>10. TabKnown(x)
  <2>1. Route(x, x.path) = Route(z, z.path)
    <3>1. x.user = z.user /\ x.isAuthenticated = z.isAuthenticated
      BY <1>8, <1>9
    <3>2. Route(x, z.path) = Route(z, z.path)
      BY <3>1, RouteLooks
    <3>3. QED BY <1>9, <3>2
  <2>2. QED BY <1>8, <1>9, <2>1 DEF TabKnown
<1>11. /\ flights' \subseteq Flight
       /\ \A u \in Tabs : FormOf(flights', u) =
             IF u = t /\ x.path # tab[t].path THEN {} ELSE FormOf(flights, u)
       /\ FlightsKnown'
  <2>1. flights \in SUBSET Flight
    BY SInvFacts
  <2>2. \A g \in flights : g.kind # "call" => g.user \in Users
    BY SInvFacts DEF FlightsKnown
  <2>3. /\ Unmounted(flights, t, x) \subseteq Flight
        /\ \A u \in Tabs : FormOf(Unmounted(flights, t, x), u) =
              IF u = t /\ x.path # tab[t].path THEN {} ELSE FormOf(flights, u)
    BY <2>1, UnmountedFacts, Zenon
  <2>4. \A g \in Unmounted(flights, t, x) : g.kind # "call" => g.user \in Users
    BY <2>1, <2>2, UnmountedFacts
  <2>5. FlightsKnown'
    BY <1>4, <2>4 DEF FlightsKnown
  <2>6. QED BY <1>4, <2>3, <2>5
<1>12. OneFormOf(x, FormOf(flights', t)) /\ MirrorsOf(x, storage', overtaken'[t])
  BY <1>5, <1>7, <1>8, <1>9, <1>11, SInvFacts DEF OneFormOf, MirrorsOf
<1>13. /\ overtaken' \in [Tabs -> BOOLEAN]
       /\ \A u \in Tabs \ {t} : ~overtaken'[u] => ~overtaken[u] /\ storage' = storage
  BY <1>4, OvertakenFacts
<1>14. QED
  BY <1>4, <1>5, <1>9, <1>10, <1>11, <1>12, <1>13, SInvFacts, TabStep

\* Time makes no difference to what the tabs know.
LEMMA ExpireKeeps ==
    ASSUME SInv, NEW n \in DOMAIN issued, Expire(n)
    PROVE  SInv'
<1>1. /\ expired' = expired \cup {n}
      /\ storage' = storage /\ tab' = tab /\ flights' = flights /\ issued' = issued
      /\ overtaken' = overtaken
  BY DEF Expire
<1>2. TypeOK'
  BY <1>1 DEF SInv, TypeOK
<1>3. QED BY <1>1, <1>2 DEF SInv, StorageKnown, FlightsKnown

\* At first nobody is logged in and every tab shows the login form.
LEMMA SInvInit == Init => SInv
<1> SUFFICES ASSUME Init PROVE SInv
  OBVIOUS
<1>1. TypeOK
  <2>1. "/login" \in Pages
    BY DEF Pages, GuestPages
  <2>2. 0 \in Token
    BY BoundAssumption DEF Token
  <2>3. issued \in Seq(Users) /\ Len(issued) = 0 /\ issued = << >>
    BY EmptySeq DEF Init
  <2>4. storage \in Storage /\ tab \in [Tabs -> Tab] /\ overtaken \in [Tabs -> BOOLEAN]
    BY <2>1, <2>2 DEF Init, Storage, Cleared, Tab
  <2>5. Len(issued) <= MaxTokens
    BY <2>3, BoundAssumption
  <2>6. flights \subseteq Flight /\ expired \subseteq DOMAIN issued
    BY DEF Init
  <2>7. QED BY <2>3, <2>4, <2>5, <2>6 DEF TypeOK
<1>2. StorageKnown /\ FlightsKnown
  BY DEF Init, StorageKnown, FlightsKnown, Cleared
<1>3. ASSUME NEW t \in Tabs
      PROVE  /\ TabKnown(tab[t])
             /\ MirrorsOf(tab[t], storage, overtaken[t])
             /\ OneFormOf(tab[t], FormOf(flights, t))
  <2>1. /\ tab[t].user = NoUser /\ tab[t].token = 0 /\ ~tab[t].isAuthenticated
        /\ tab[t].path = "/login" /\ ~tab[t].loading
        /\ tab[t].isAuthenticated \in BOOLEAN
    BY DEF Init
  <2>2. Whole(tab[t])
    BY <2>1 DEF Whole
  <2>3. Route(tab[t], "/login") = "/login"
    <3>1. "/login" \in GuestPages
      BY DEF GuestPages
    <3>2. QED BY <2>1, <2>2, <3>1, RouteOfNobody
  <2>4. FormOf(flights, t) = {}
    BY DEF Init, FormOf
  <2>5. storage.user = NoUser /\ storage.token = 0
    BY DEF Init, Cleared
  <2>6. QED BY <2>1, <2>3, <2>4, <2>5 DEF TabKnown, MirrorsOf, OneFormOf
<1>4. QED BY <1>1, <1>2, <1>3 DEF SInv

\* Every step of the tabs, of the server's answers and of time keeps it.
LEMMA SInvStep == SInv /\ [Next]_vars => SInv'
<1> SUFFICES ASSUME SInv, [Next]_vars PROVE SInv'
  OBVIOUS
<1>1. ASSUME NEW t \in Tabs, NEW p \in Entered, Open(t, p) \/ Navigate(t, p)
      PROVE  SInv'
  BY <1>1, LoadKeeps, NavigateKeeps DEF Open
<1>2. ASSUME NEW t \in Tabs, NEW u \in Users, SubmitLogin(t, u) \/ SubmitRegister(t, u)
      PROVE  SInv'
  <2>1. "/login" \in GuestPages /\ "/register" \in GuestPages
    BY DEF GuestPages
  <2>2. Submit(t, "/login", "login", u) \/ Submit(t, "/register", "register", u)
    BY <1>2 DEF SubmitLogin, SubmitRegister
  <2>3. QED BY <2>1, <2>2, SubmitKeeps
<1>3. ASSUME NEW t \in Tabs,
             Leave(t) \/ Call(t) \/ OpenLogout(t) \/ CloseLogout(t) \/ ConfirmLogout(t)
      PROVE  SInv'
  BY <1>3, LoadKeeps, CallKeeps, DialogKeeps, ConfirmLogoutKeeps DEF Leave
<1>4. ASSUME NEW f \in flights, Answered(f)
      PROVE  SInv'
  BY <1>4, AcceptKeeps, UnauthorizedKeeps, AnswerKeeps DEF Answered
<1>5. ASSUME NEW n \in DOMAIN issued, Expire(n)
      PROVE  SInv'
  BY <1>5, ExpireKeeps
<1>6. CASE UNCHANGED vars
  BY <1>6 DEF vars, SInv, TypeOK, StorageKnown, FlightsKnown
<1>7. QED BY <1>1, <1>2, <1>3, <1>4, <1>5, <1>6 DEF Next

\* The invariant of the session: what a tab shows, what its form has asked and
\* what the storage holds agree, as far as no other tab came between.
THEOREM SessionKnown == Spec => []SInv
<1>1. Init => SInv
  BY SInvInit
<1>2. SInv /\ [Next]_vars => SInv'
  BY SInvStep
<1>3. QED BY <1>1, <1>2, PTL DEF Spec

-----------------------------------------------------------------------------
(* What follows from it.                                                   *)

\* The state is well formed, and a form has one unanswered request exactly
\* while its button is disabled, wherever its user has been meanwhile.
THEOREM FormsSendOnce == Spec => []SessionInv
<1>1. SInv => SessionInv
  <2> SUFFICES ASSUME SInv PROVE SessionInv
    OBVIOUS
  <2>1. ASSUME NEW t \in Tabs
        PROVE  Cardinality({f \in flights : f.tab = t /\ f.mounted}) =
                  IF tab[t].loading THEN 1 ELSE 0
    <3>1. FormOf(flights, t) = {f \in flights : f.tab = t /\ f.mounted}
      BY DEF FormOf
    <3>2. OneFormOf(tab[t], FormOf(flights, t))
      BY SInvFacts
    <3>3. CASE tab[t].loading
      <4>1. PICK f : FormOf(flights, t) = {f}
        BY <3>2, <3>3 DEF OneFormOf
      <4>2. Cardinality({f}) = 1
        BY FS_Singleton
      <4>3. QED BY <3>1, <3>3, <4>1, <4>2
    <3>4. CASE ~tab[t].loading
      <4>1. FormOf(flights, t) = {}
        BY <3>2, <3>4 DEF OneFormOf
      <4>2. QED BY <3>1, <3>4, <4>1, FS_EmptySet
    <3>5. QED BY <3>3, <3>4
  <2>2. QED BY <2>1 DEF SessionInv, SInv, FormSendsOnce
<1>2. QED BY <1>1, SessionKnown, PTL

\* A tab that no other tab overtook, and that is not being sent away, shows the
\* account that its requests act as.
THEOREM StoreIsStorage == Spec => []StoreMirrorsStorage
<1>1. SInv => StoreMirrorsStorage
  <2> SUFFICES ASSUME SInv, NEW t \in Tabs, ~overtaken[t], ~tab[t].leaving
               PROVE  /\ tab[t].user = storage.user
                      /\ tab[t].token = storage.token
                      /\ tab[t].isAuthenticated <=> storage.token # 0
                      /\ storage.token # 0 => storage.user = issued[storage.token]
    BY DEF StoreMirrorsStorage
  <2>1. tab[t].user = storage.user /\ tab[t].token = storage.token
    BY SInvFacts DEF MirrorsOf
  <2>2. tab[t].isAuthenticated <=> tab[t].token # 0
    BY SInvFacts DEF TabKnown
  <2>3. storage.token # 0 => storage.user = issued[storage.token]
    BY SInvFacts DEF StorageKnown
  <2>4. QED BY <2>1, <2>2, <2>3
<1>2. QED BY <1>1, SessionKnown, PTL

\* The sidebar of a role leads to its own pages and to those for everybody.
LEMMA SidebarFacts ==
    ASSUME NEW r \in Roles
    PROVE  SidebarConfig[r] \subseteq RolePages[r] \cup {"/chat", "/marketplace"}
<1>1. CASE r = "admin"
  <2>1. SidebarConfig["admin"] \subseteq RolePages["admin"] \cup {"/chat", "/marketplace"}
    BY DEF SidebarConfig, RolePages
  <2>2. QED BY <1>1, <2>1
<1>2. CASE r = "petambak"
  <2>1. SidebarConfig["petambak"] \subseteq RolePages["petambak"] \cup {"/chat", "/marketplace"}
    BY DEF SidebarConfig, RolePages
  <2>2. QED BY <1>2, <2>1
<1>3. CASE r = "logistik"
  <2>1. SidebarConfig["logistik"] \subseteq RolePages["logistik"] \cup {"/chat", "/marketplace"}
    BY DEF SidebarConfig, RolePages
  <2>2. QED BY <1>3, <2>1
<1>4. CASE r = "konsumen"
  <2>1. SidebarConfig["konsumen"] \subseteq RolePages["konsumen"] \cup {"/chat", "/marketplace"}
    BY DEF SidebarConfig, RolePages
  <2>2. QED BY <1>4, <2>1
<1>5. QED BY <1>1, <1>2, <1>3, <1>4 DEF Roles

\* The paths of the pages that have links of their own differ.
LEMMA LinkCases ==
    ASSUME NEW s, NEW p
    PROVE  /\ p = "/" => Links(s, p) = LandingLinks(s)
           /\ p = "/login" => Links(s, p) = {"/", "/register"}
           /\ p = "/register" => Links(s, p) = {"/", "/login"}
           /\ p = "/marketplace" => Links(s, p) = MarketplaceLinks(s)
           /\ p = "/products/:id" => Links(s, p) = {"/marketplace", "/traceability/:batchCode"}
           /\ p \in {"/traceability", "/traceability/:batchCode"} => Links(s, p) = {"/"}
           /\ p \notin OpenPages \cup GuestPages =>
                 Links(s, p) = SidebarLinks(s) \cup HeaderLinks(s) \cup SettingsLinks(s)
<1>1. CASE p \in {"/", "/marketplace"}
  BY <1>1 DEF Links, OpenPages, GuestPages
<1>2. CASE p \in {"/login", "/register"}
  BY <1>2 DEF Links, OpenPages, GuestPages
<1>3. CASE p \in {"/products/:id", "/traceability", "/traceability/:batchCode"}
  BY <1>3 DEF Links, OpenPages, GuestPages
<1>4. CASE p \notin OpenPages \cup GuestPages
  BY <1>4 DEF Links, OpenPages, GuestPages
<1>5. QED BY <1>1, <1>2, <1>3, <1>4 DEF OpenPages, GuestPages

\* The pages of a tab that shows nobody are for everybody, and so are those
\* that they lead to.
LEMMA LinksOfNobody ==
    ASSUME NEW x \in Tab, TabKnown(x), x.user = NoUser, NEW q \in Links(x, x.path)
    PROVE  Route(x, q) = q
<1>1. Whole(x) /\ ~x.isAuthenticated
  BY KnownIsWhole DEF TabKnown
<1>2. x.path \in OpenPages \cup GuestPages
  <2>1. "/login" \in GuestPages /\ "/" \in OpenPages
    BY DEF GuestPages, OpenPages
  <2>2. QED BY <1>1, <2>1, RouteOfNobody DEF TabKnown
<1>3. PICK p \in OpenPages \cup GuestPages : p = x.path
  BY <1>2
<1>4. Links(x, p) \subseteq OpenPages \cup GuestPages
  <2>1. LandingLinks(x) \subseteq OpenPages \cup GuestPages
    BY <1>1 DEF LandingLinks, OpenPages, GuestPages
  <2>2. MarketplaceLinks(x) \subseteq OpenPages \cup GuestPages
    BY DEF MarketplaceLinks, OpenPages, GuestPages
  <2>3. {"/", "/register", "/login", "/marketplace", "/traceability/:batchCode"}
           \subseteq OpenPages \cup GuestPages
    BY DEF OpenPages, GuestPages
  <2>4. p \in {"/", "/login", "/register", "/marketplace", "/products/:id",
               "/traceability", "/traceability/:batchCode"}
    BY DEF OpenPages, GuestPages
  <2>5. QED BY <2>1, <2>2, <2>3, <2>4, LinkCases
<1>5. QED BY <1>1, <1>3, <1>4, RouteOfNobody

\* The links that a tab offers its user lead to pages of his role.
LEMMA LinksOfUser ==
    ASSUME NEW x \in Tab, TabKnown(x), x.user # NoUser, NEW q \in Links(x, x.path)
    PROVE  Route(x, q) = q
<1>1. Whole(x) /\ x.isAuthenticated /\ x.user \in Users
  BY KnownIsWhole DEF TabKnown, Whole
<1>2. PICK r \in Roles : r = RoleOf[x.user]
  BY <1>1
<1>3. PICK home : home = Dashboard(x.user)
  OBVIOUS
<1>4. x.path \notin GuestPages
  BY FormShowsNobody
<1>5. \A w \in OpenPages \cup RolePages[r] \cup {"/chat", home} : Route(x, w) = w
  BY <1>1, <1>2, <1>3, RouteOfUser, RolesOfFacts
<1>6. Links(x, x.path) \subseteq OpenPages \cup RolePages[r] \cup {"/chat", home}
  <2>1. CASE x.path \in OpenPages
    <3>1. LandingLinks(x) \subseteq OpenPages \cup {home}
      BY <1>1, <1>3 DEF LandingLinks, OpenPages
    <3>2. MarketplaceLinks(x) \subseteq OpenPages \cup {home}
      BY <1>3 DEF MarketplaceLinks, OpenPages
    <3>3. {"/", "/marketplace", "/traceability/:batchCode"} \subseteq OpenPages
      BY DEF OpenPages
    <3>4. x.path \in {"/", "/marketplace", "/products/:id",
                      "/traceability", "/traceability/:batchCode"}
      BY <2>1 DEF OpenPages
    <3>5. QED BY <3>1, <3>2, <3>3, <3>4, LinkCases
  <2>2. CASE x.path \notin OpenPages
    <3>1. Links(x, x.path) = SidebarLinks(x) \cup HeaderLinks(x) \cup SettingsLinks(x)
      BY <1>4, <2>2, LinkCases
    <3>2. SidebarLinks(x) \subseteq RolePages[r] \cup {"/chat", "/marketplace"}
      BY <1>2, SidebarFacts DEF SidebarLinks, LayoutRole
    <3>3. HeaderLinks(x) \subseteq {"/"} \cup RolePages[r]
      <4>1. "/konsumen/cart" \in RolePages["konsumen"]
        BY DEF RolePages
      <4>2. r = "konsumen" => "/konsumen/cart" \in RolePages[r]
        BY <4>1
      <4>3. QED BY <1>2, <4>2 DEF HeaderLinks, LayoutRole
    <3>4. SettingsLinks(x) = {home}
      BY <1>3 DEF SettingsLinks
    <3>5. "/" \in OpenPages /\ "/marketplace" \in OpenPages
      BY DEF OpenPages
    <3>6. QED BY <3>1, <3>2, <3>3, <3>4, <3>5
  <2>3. QED BY <2>1, <2>2
<1>7. QED BY <1>5, <1>6

\* A protected page is shown to an account of its roles only, the guards never
\* send a tab in circles, and no link leads to where they would not let it.
THEOREM GuardsAndLinksAgree == Spec => []RoutesAgree
<1>1. SInv => RoutesAgree
  <2> SUFFICES ASSUME SInv, NEW t \in Tabs
               PROVE  /\ Route(tab[t], tab[t].path) = tab[t].path
                      /\ Protected(tab[t].path) =>
                            /\ tab[t].isAuthenticated
                            /\ tab[t].user # NoUser => RoleOf[tab[t].user] \in RolesOf(tab[t].path)
                      /\ \A p \in Links(tab[t], tab[t].path) : Route(tab[t], p) = p
    BY DEF RoutesAgree, GuardsSettle, LinksLead
  <2>1. PICK x \in Tab : x = tab[t]
    BY SInvFacts
  <2>2. TabKnown(x) /\ Whole(x) /\ Route(x, x.path) = x.path
    BY <2>1, SInvFacts DEF TabKnown
  <2>3. \A p \in Links(x, x.path) : Route(x, p) = p
    BY <2>2, LinksOfUser, LinksOfNobody
  <2>4. ASSUME Protected(x.path)
        PROVE  x.isAuthenticated /\ (x.user # NoUser => RoleOf[x.user] \in RolesOf(x.path))
    <3>1. x.path \notin OpenPages \cup GuestPages
      BY <2>4, RolesOfFacts DEF Protected
    <3>2. CASE x.user = NoUser
      <4>1. Route(x, x.path) = "/login"
        BY <2>2, <2>4, <3>1, <3>2, RouteOfNobody
      <4>2. "/login" \in GuestPages
        BY DEF GuestPages
      <4>3. QED BY <2>2, <3>1, <4>1, <4>2
    <3>3. CASE x.user # NoUser
      <4>1. x.user \in Users /\ x.isAuthenticated
        BY <2>2, <3>3 DEF Whole
      <4>2. RoleOf[x.user] \in RolesOf(x.path) \/ x.path = Dashboard(x.user)
        BY <2>2, <3>1, <3>3, RouteOfUser
      <4>3. QED BY <4>1, <4>2, DashboardFacts
    <3>4. QED BY <3>2, <3>3
  <2>5. QED BY <2>1, <2>2, <2>3, <2>4
<1>2. QED BY <1>1, SessionKnown, PTL

\* A session that has not expired is lost only to a logout, to a login that was
\* refused, or to the 401 of a request that was sent under another session.
THEOREM SessionEnds == Spec => SessionEndsForAReason
<1> DEFINE Lost == storage.token \notin expired \cup {0} /\ storage'.token = 0
           Reason == \/ \E t \in Tabs : tab[t].showLogoutModal /\ ~tab'[t].showLogoutModal
                     \/ \E f \in flights \ flights' : f.kind = "login" \/ f.token # storage.token
<1>1. SInv /\ [Next]_vars => [Lost => Reason]_vars
  <2> SUFFICES ASSUME SInv, Next, Lost PROVE Reason
    OBVIOUS
  <2>1. storage'.token # storage.token
    OBVIOUS
  <2>2. ASSUME NEW t \in Tabs, ConfirmLogout(t)
        PROVE  Reason
    <3>1. PICK z : z = Show([tab[t] EXCEPT !.user = NoUser, !.token = 0,
                                           !.isAuthenticated = FALSE], "/login")
      OBVIOUS
    <3>2. PICK x : x = [z EXCEPT !.showLogoutModal = FALSE]
      OBVIOUS
    <3>3. tab' = [tab EXCEPT ![t] = x]
      BY <2>2, <3>1, <3>2 DEF ConfirmLogout
    <3>4. z \in Tab
      <4>1. PICK y : y = [tab[t] EXCEPT !.user = NoUser, !.token = 0, !.isAuthenticated = FALSE]
        OBVIOUS
      <4>2. 0 \in Token
        BY BoundAssumption DEF Token
      <4>3. y \in Tab /\ y.user = NoUser /\ y.token = 0 /\ ~y.isAuthenticated
        BY <4>1, <4>2, SInvFacts DEF Tab
      <4>4. y.isAuthenticated \in BOOLEAN
        BY <4>3 DEF Tab
      <4>5. Whole(y) /\ (y.isAuthenticated <=> y.token # 0)
        BY <4>3, <4>4 DEF Whole
      <4>6. Show(y, "/login") \in Tab
        BY <4>3, <4>5, ShowFacts
      <4>7. QED BY <3>1, <4>1, <4>6
    <3>5. ~x.showLogoutModal
      BY <3>2, <3>4 DEF Tab
    <3>6. tab'[t] = x
      BY <3>3, SInvFacts
    <3>7. QED BY <2>2, <3>5, <3>6 DEF ConfirmLogout
  <2>3. ASSUME NEW f \in flights, Answered(f)
        PROVE  Reason
    <3>1. CASE Accept(f)
      <4>1. storage'.token = Len(issued) + 1
        <5>1. f.user \in Users /\ issued' = Append(issued, f.user)
          BY <3>1, SInvFacts DEF Accept, FlightsKnown
        <5>2. Len(issued') = Len(issued) + 1
          BY <5>1, SInvFacts, AppendProperties
        <5>3. QED BY <3>1, <5>2 DEF Accept
      <4>2. QED BY <4>1, SInvFacts
    <3>2. CASE Unauthorized(f)
      <4>1. f \in flights \ flights'
        BY <3>2 DEF Unauthorized
      <4>2. f.kind = "login" \/ f.token \in expired \cup {0}
        BY <3>2 DEF Unauthorized
      <4>3. QED BY <4>1, <4>2
    <3>3. CASE Answer(f)
      BY <2>1, <3>3 DEF Answer
    <3>4. QED BY <2>3, <3>1, <3>2, <3>3 DEF Answered
  <2>4. ASSUME NEW t \in Tabs, NEW p, Load(t, p) \/ Navigate(t, p)
        PROVE  FALSE
    BY <2>1, <2>4 DEF Load, Navigate
  <2>5. ASSUME NEW t \in Tabs, NEW u \in Users, SubmitLogin(t, u) \/ SubmitRegister(t, u)
        PROVE  FALSE
    BY <2>1, <2>5 DEF SubmitLogin, SubmitRegister, Submit
  <2>6. ASSUME NEW t \in Tabs, Call(t) \/ OpenLogout(t) \/ CloseLogout(t)
        PROVE  FALSE
    BY <2>1, <2>6 DEF Call, OpenLogout, CloseLogout
  <2>7. ASSUME NEW n \in DOMAIN issued, Expire(n)
        PROVE  FALSE
    BY <2>1, <2>7 DEF Expire
  <2> HIDE DEF Reason
  <2>8. QED BY <2>2, <2>3, <2>4, <2>5, <2>6, <2>7 DEF Next, Open, Leave
<1>2. QED BY <1>1, SessionKnown, PTL DEF Spec, SessionEndsForAReason

\* The user of a tab is replaced by another only by a form that he had left, or
\* after another tab had logged in.
THEOREM UserIsReplacedLate == Spec => ReplacedByLateForm
<1> DEFINE Late(t) ==
             tab[t].user # NoUser /\ tab'[t].user \notin {NoUser, tab[t].user}
               => \/ overtaken[t]
                  \/ \E f \in flights \ flights' : f.tab = t /\ f.kind # "call" /\ ~f.mounted
<1>1. SInv /\ [Next]_vars => [\A t \in Tabs : Late(t)]_vars
  <2> SUFFICES ASSUME SInv, Next, NEW t \in Tabs,
                      tab[t].user # NoUser, tab'[t].user \notin {NoUser, tab[t].user},
                      ~overtaken[t]
               PROVE  \E f \in flights \ flights' : f.tab = t /\ f.kind # "call" /\ ~f.mounted
    OBVIOUS
  <2>1. tab \in [Tabs -> Tab] /\ tab[t] \in Tab /\ TabKnown(tab[t])
    BY SInvFacts
  <2>2. FormOf(flights, t) = {}
    <3>1. tab[t].path \notin GuestPages
      BY <2>1, FormShowsNobody
    <3>2. QED BY <3>1, SInvFacts DEF OneFormOf
  <2>3. storage.user \in {NoUser, tab[t].user}
    BY SInvFacts DEF MirrorsOf
  <2>4. ASSUME NEW u \in Tabs, NEW x, tab' = [tab EXCEPT ![u] = x]
        PROVE  u = t /\ x.user \notin {NoUser, tab[t].user}
    BY <2>1, <2>4
  <2>5. ASSUME NEW u \in Tabs, NEW p, Load(u, p)
        PROVE  FALSE
    <3>1. PICK x : x = Loaded(p)
      OBVIOUS
    <3>2. tab' = [tab EXCEPT ![u] = x] /\ x.user = storage.user
      BY <2>5, <3>1, LoadedFacts DEF Load
    <3>3. QED BY <2>3, <2>4, <3>2
  <2>6. ASSUME NEW u \in Tabs, NEW p, Navigate(u, p)
        PROVE  FALSE
    <3>1. PICK x : x = Show(tab[u], p)
      OBVIOUS
    <3>2. tab[u] \in Tab /\ Whole(tab[u]) /\ (tab[u].isAuthenticated <=> tab[u].token # 0)
      BY SInvFacts DEF TabKnown
    <3>3. x.user = tab[u].user
      BY <3>1, <3>2, ShowFacts
    <3>4. tab' = [tab EXCEPT ![u] = x]
      BY <2>6, <3>1 DEF Navigate
    <3>5. QED BY <2>4, <3>3, <3>4
  <2>7. ASSUME NEW u \in Tabs, NEW x, tab' = [tab EXCEPT ![u] = x], x.user = tab[u].user
        PROVE  FALSE
    BY <2>4, <2>7
  <2>8. ASSUME NEW u \in Tabs, NEW w \in Users, SubmitLogin(u, w) \/ SubmitRegister(u, w)
        PROVE  FALSE
    <3>1. PICK x : x = [tab[u] EXCEPT !.loading = TRUE]
      OBVIOUS
    <3>2. tab' = [tab EXCEPT ![u] = x]
      BY <2>8, <3>1 DEF SubmitLogin, SubmitRegister, Submit
    <3>3. x.user = tab[u].user
      BY <3>1, SInvFacts DEF Tab
    <3>4. QED BY <2>7, <3>2, <3>3
  <2>9. ASSUME NEW u \in Tabs, OpenLogout(u) \/ CloseLogout(u)
        PROVE  FALSE
    <3>1. PICK b \in BOOLEAN : tab' = [tab EXCEPT ![u].showLogoutModal = b]
      BY <2>9 DEF OpenLogout, CloseLogout
    <3>2. PICK x : x = [tab[u] EXCEPT !.showLogoutModal = b]
      OBVIOUS
    <3>3. x.user = tab[u].user
      BY <3>2, SInvFacts DEF Tab
    <3>4. QED BY <2>7, <3>1, <3>2, <3>3
  <2>10. ASSUME NEW u \in Tabs, ConfirmLogout(u)
         PROVE  FALSE
    <3>1. PICK y : y = [tab[u] EXCEPT !.user = NoUser, !.token = 0, !.isAuthenticated = FALSE]
      OBVIOUS
    <3>2. PICK x : x = [Show(y, "/login") EXCEPT !.showLogoutModal = FALSE]
      OBVIOUS
    <3>3. tab' = [tab EXCEPT ![u] = x]
      BY <2>10, <3>1, <3>2 DEF ConfirmLogout
    <3>4. y \in Tab /\ y.user = NoUser /\ Whole(y) /\ (y.isAuthenticated <=> y.token # 0)
      <4>1. 0 \in Token
        BY BoundAssumption DEF Token
      <4>2. y \in Tab /\ y.user = NoUser /\ y.token = 0 /\ ~y.isAuthenticated
        BY <3>1, <4>1, SInvFacts DEF Tab
      <4>3. y.isAuthenticated \in BOOLEAN
        BY <4>2 DEF Tab
      <4>4. QED BY <4>2, <4>3 DEF Whole
    <3>5. Show(y, "/login") \in Tab /\ Show(y, "/login").user = NoUser
      BY <3>4, ShowFacts
    <3>6. x.user = NoUser
      BY <3>2, <3>5 DEF Tab
    <3>7. QED BY <2>4, <3>3, <3>6
  <2>11. ASSUME NEW f \in flights, Answered(f)
         PROVE  Accept(f) /\ f.tab = t
    <3>1. f.tab \in Tabs /\ Done(f) \in Tab /\ Done(f).user = tab[f.tab].user
      BY DoneFacts
    <3>2. CASE Answer(f)
      BY <2>7, <3>1, <3>2 DEF Answer
    <3>3. CASE Unauthorized(f)
      <4>1. PICK x : x = [Done(f) EXCEPT !.leaving = @ \/ tab[f.tab].path # "/login"]
        OBVIOUS
      <4>2. tab' = [tab EXCEPT ![f.tab] = x]
        BY <3>3, <4>1 DEF Unauthorized
      <4>3. x.user = tab[f.tab].user
        BY <3>1, <4>1 DEF Tab
      <4>4. QED BY <2>7, <3>1, <4>2, <4>3
    <3>4. CASE Accept(f)
      BY <2>4, <3>1, <3>4 DEF Accept
    <3>5. QED BY <2>11, <3>2, <3>3, <3>4 DEF Answered
  <2>12. ASSUME NEW f \in flights, Accept(f), f.tab = t
         PROVE  f \in flights \ flights' /\ f.tab = t /\ f.kind # "call" /\ ~f.mounted
    <3>1. \A g \in flights : g.tab = t => ~g.mounted
      BY <2>2 DEF FormOf
    <3>2. ASSUME NEW g \in flights, g.tab = t
          PROVE  [g EXCEPT !.mounted = FALSE] = g
      <4>1. g \in Flight /\ ~g.mounted
        BY <3>1, <3>2, SInvFacts
      <4>2. QED BY <4>1 DEF Flight
    <3>3. Unmounted(flights \ {f}, t, tab'[t]) \subseteq flights \ {f}
      BY <3>2 DEF Unmounted
    <3>4. flights' = Unmounted(flights \ {f}, t, tab'[t])
      BY <2>12 DEF Accept
    <3>5. QED BY <2>12, <3>1, <3>3, <3>4 DEF Accept
  <2>13. ASSUME NEW f \in flights, Answered(f)
         PROVE  \E g \in flights \ flights' : g.tab = t /\ g.kind # "call" /\ ~g.mounted
    BY <2>11, <2>12, <2>13
  <2>14. ASSUME \/ \E u \in Tabs : Call(u)
                \/ \E n \in DOMAIN issued : Expire(n)
         PROVE  FALSE
    BY <2>14 DEF Call, Expire
  <2>15. QED BY <2>5, <2>6, <2>8, <2>9, <2>10, <2>13, <2>14 DEF Next, Open, Leave
<1>2. QED BY <1>1, SessionKnown, PTL DEF Spec, ReplacedByLateForm

=============================================================================
