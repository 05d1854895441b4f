------------------------------- MODULE Session -------------------------------
(***************************************************************************)
(* The session of the web client: who each browser tab says is logged in,  *)
(* which page it shows him, and what becomes of both when requests are     *)
(* answered.  The tabs of a browser share localStorage (the token and the  *)
(* user), which a tab reads when it is loaded, and which the interceptors  *)
(* of api/axios.ts read at every request and clear at every 401.           *)
(*                                                                         *)
(* A handler runs to its first await in one step, and on from the answer   *)
(* in another.  Texts, menus that only open and close, and the contents of *)
(* the forms are left out.                                                 *)
(***************************************************************************)
EXTENDS Integers, Sequences, FiniteSets

CONSTANTS
    Tabs,
    Users,       \* accounts that somebody may log in to
    NoUser,
    RoleOf,      \* the role of each account
    Entered,     \* the paths that the address bar, links and history lead to
    MaxTokens,   \* bound: tokens the server issues
    MaxFlights   \* bound: unanswered requests at a time

Roles == {"admin", "petambak", "logistik", "konsumen"}

ASSUME UserAssumption == NoUser \notin Users /\ RoleOf \in [Users -> Roles]
ASSUME BoundAssumption == MaxTokens \in Nat /\ MaxFlights \in Nat

VARIABLES
    storage,    \* localStorage: cronos_token and cronos_user
    tab,        \* the store and the page of each tab
    flights,    \* requests that are not answered yet
    issued,     \* whom the server has issued each token to
    expired,    \* tokens that are past their lifetime
    overtaken   \* history: tabs since whose load another tab wrote the storage

vars == <<storage, tab, flights, issued, expired, overtaken>>

(***************************************************************************)
(* Tokens are numbered as they are issued; 0 stands for none.              *)
(***************************************************************************)
Token == 0..MaxTokens
Storage == [token : Token, user : Users \cup {NoUser}]
Cleared == [token |-> 0, user |-> NoUser]

\* A request: a login or a registration with the account asked for, or any
\* call of a page behind a role.  mounted: the form that sent it is on screen.
Flight == [tab : Tabs, kind : {"login", "register", "call"},
           user : Users \cup {NoUser}, token : Token, mounted : BOOLEAN]

(***************************************************************************)
(* The routes.  "*" stands for every path that no route matches.           *)
(***************************************************************************)
RolePages ==
    [admin |-> {"/admin", "/admin/users", "/admin/orders", "/admin/withdrawals",
                "/admin/shrimp-types", "/admin/shipments", "/admin/traceability"},
     petambak |-> {"/petambak", "/petambak/farms", "/petambak/cultivation",
                   "/petambak/harvests", "/petambak/batches", "/petambak/products",
                   "/petambak/sales", "/petambak/withdrawals"},
     logistik |-> {"/logistik", "/logistik/shipments"},
     konsumen |-> {"/konsumen", "/konsumen/orders", "/konsumen/cart",
                   "/konsumen/checkout"}]

OpenPages == {"/", "/marketplace", "/products/:id", "/traceability",
              "/traceability/:batchCode"}
GuestPages == {"/login", "/register"}

\* The paths that a route matches.
Pages == OpenPages \cup GuestPages \cup {"/chat"} \cup UNION {RolePages[r] : r \in Roles}

\* The roles whose users may see page p; {} if p is not protected.
RolesOf(p) == IF p = "/chat" THEN Roles ELSE {r \in Roles : p \in RolePages[r]}
Protected(p) == RolesOf(p) # {}

Dashboard(u) ==
    [admin |-> "/admin", petambak |-> "/petambak", logistik |-> "/logistik",
     konsumen |-> "/konsumen"][RoleOf[u]]

ProtectedRoute(s, p) ==
    IF ~s.isAuthenticated THEN "/login"
    ELSE IF s.user # NoUser /\ RoleOf[s.user] \notin RolesOf(p)
         THEN Dashboard(s.user) ELSE p

\* Defect: the forms are shown to whoever asks for them.
PublicToAll(s, p) == p

PublicRoute(s, p) ==
    IF s.isAuthenticated /\ s.user # NoUser THEN Dashboard(s.user) ELSE p

DynamicRedirect(s) ==
    IF s.isAuthenticated /\ s.user # NoUser THEN Dashboard(s.user) ELSE "/"

\* Where a tab with store s goes from p: p itself if it may show it.
Route(s, p) ==
    CASE p \in OpenPages  -> p
      [] p \in GuestPages -> PublicRoute(s, p)
      [] Protected(p)     -> ProtectedRoute(s, p)
      [] OTHER            -> DynamicRedirect(s)

\* The page shown after the redirects; the guards look again at every render.
Settled(s, p) == Route(s, Route(s, p))

\* Defect: the konsumen is offered a page that only others may see.
SidebarOfAnother ==
    [r \in Roles |-> IF r = "konsumen" THEN {"/konsumen", "/chat", "/petambak/products"}
                     ELSE {"/" \o r, "/chat"}]

\* The sidebar, by role.
SidebarConfig ==
    [admin |-> {"/admin", "/admin/users", "/chat", "/admin/orders",
                "/admin/withdrawals", "/admin/shrimp-types", "/admin/shipments",
                "/admin/traceability"},
     petambak |-> {"/petambak", "/chat", "/petambak/farms", "/petambak/cultivation",
                   "/petambak/harvests", "/petambak/batches", "/petambak/products",
                   "/petambak/sales", "/petambak/withdrawals"},
     logistik |-> {"/logistik", "/chat", "/logistik/shipments"},
     konsumen |-> {"/konsumen", "/chat", "/marketplace", "/konsumen/orders",
                   "/konsumen/cart"}]

\* The links around a protected page: the sidebar, home, the cart of a
\* konsumen, and the dashboard entry of the settings.
LayoutRole(s) == IF s.user = NoUser THEN "konsumen" ELSE RoleOf[s.user]
SidebarLinks(s) == SidebarConfig[LayoutRole(s)]
HeaderLinks(s) ==
    {"/"} \cup (IF LayoutRole(s) = "konsumen" THEN {"/konsumen/cart"} ELSE {})
SettingsLinks(s) == IF s.user = NoUser THEN {"/konsumen"} ELSE {Dashboard(s.user)}

LandingLinks(s) ==
    {"/marketplace", "/traceability"}
        \cup IF s.isAuthenticated
             THEN {IF s.user = NoUser THEN "/login" ELSE Dashboard(s.user)}
             ELSE {"/login", "/register"}

MarketplaceLinks(s) ==
    {"/", "/traceability", "/products/:id"}
        \cup {IF s.user = NoUser THEN "/login" ELSE Dashboard(s.user)}

\* The links of the page at p, for a tab with store s.
Links(s, p) ==
    CASE p = "/"            -> LandingLinks(s)
      [] p = "/login"       -> {"/", "/register"}
      [] p = "/register"    -> {"/", "/login"}
      [] p = "/marketplace" -> MarketplaceLinks(s)
      [] p = "/products/:id" -> {"/marketplace", "/traceability/:batchCode"}
      [] p \in {"/traceability", "/traceability/:batchCode"} -> {"/"}
      [] OTHER              -> SidebarLinks(s) \cup HeaderLinks(s) \cup SettingsLinks(s)

(***************************************************************************)
(* What a tab shows.                                                       *)
(***************************************************************************)
\* A tab: its store (user, token, isAuthenticated), its path, whether the
\* form it shows is loading, whether it asks to confirm the logout, and
\* whether an interceptor has sent it away to /login.
Tab == [user : Users \cup {NoUser}, token : Token, isAuthenticated : BOOLEAN,
        path : Pages, loading : BOOLEAN, showLogoutModal : BOOLEAN,
        leaving : BOOLEAN]

\* A page is unmounted when the path changes: a form loses its loading, and a
\* page outside the layout loses the layout's dialog.
Show(s, p) ==
    LET q == Settled(s, p)
    IN  [s EXCEPT !.path = q,
                  !.loading = @ /\ q = s.path,
                  !.showLogoutModal = @ /\ Protected(q)]

\* The requests left after tab t came to show the state s: those of a form
\* that was unmounted are still answered, to nobody.
Unmounted(fs, t, s) ==
    {IF f.tab = t /\ s.path # tab[t].path THEN [f EXCEPT !.mounted = FALSE] ELSE f : f \in fs}

\* Tab t writes the storage: the others' stores may now differ from it.
OvertakenBy(t) == [u \in Tabs |-> (u # t) /\ (overtaken[u] \/ storage' # storage)]

\* A page load creates the store from the storage.
Loaded(p) ==
    Show([user |-> storage.user, token |-> storage.token,
          isAuthenticated |-> storage.token # 0, path |-> p, loading |-> FALSE,
          showLogoutModal |-> FALSE, leaving |-> FALSE], p)

Init ==
    /\ storage = Cleared
    /\ tab = [t \in Tabs |-> [user |-> NoUser, token |-> 0, isAuthenticated |-> FALSE,
                              path |-> "/login", loading |-> FALSE,
                              showLogoutModal |-> FALSE, leaving |-> FALSE]]
    /\ flights = {}
    /\ issued = <<>>
    /\ expired = {}
    /\ overtaken = [t \in Tabs |-> FALSE]

Load(t, p) ==
    /\ tab' = [tab EXCEPT ![t] = Loaded(p)]
    /\ flights' = {f \in flights : f.tab # t}
    /\ overtaken' = [overtaken EXCEPT ![t] = FALSE]
    /\ UNCHANGED <<storage, issued, expired>>

\* The address bar, or a reload.
Open(t, p) == ~tab[t].leaving /\ p \in Entered /\ Load(t, p)

\* The load that the interceptor has asked for.
Leave(t) == tab[t].leaving /\ Load(t, "/login")

\* A link, or the back button.
Navigate(t, p) ==
    /\ p \in Entered
    /\ tab' = [tab EXCEPT ![t] = Show(@, p)]
    /\ flights' = Unmounted(flights, t, tab'[t])
    /\ UNCHANGED <<storage, issued, expired, overtaken>>

\* A request takes the token from the storage, not from the store.
Send(t, kind, u) ==
    /\ Cardinality(flights) < MaxFlights
    /\ flights' = flights \cup {[tab |-> t, kind |-> kind, user |-> u,
                                 token |-> storage.token, mounted |-> kind # "call"]}

\* Defect: the button stays enabled.
SubmitAnyTime(t, page, kind, u) ==
    /\ tab[t].path = page
    /\ Send(t, kind, u)
    /\ tab' = [tab EXCEPT ![t].loading = TRUE]
    /\ UNCHANGED <<storage, issued, expired, overtaken>>

\* handleSubmit of the two forms, whose buttons are disabled while loading.
Submit(t, page, kind, u) ==
    /\ tab[t].path = page
    /\ ~tab[t].loading
    /\ Send(t, kind, u)
    /\ tab' = [tab EXCEPT ![t].loading = TRUE]
    /\ UNCHANGED <<storage, issued, expired, overtaken>>

SubmitLogin(t, u) == Submit(t, "/login", "login", u)

\* The form of Register registers no other role.
SubmitRegister(t, u) == RoleOf[u] = "konsumen" /\ Submit(t, "/register", "register", u)

\* A page behind a role calls the server, to load or on a click.  (Calls of
\* the open pages need no token and are never answered 401.)
Call(t) ==
    /\ tab[t].path \in (UNION {RolePages[r] : r \in Roles}) \ {"/konsumen/cart"}
    /\ Send(t, "call", NoUser)
    /\ UNCHANGED <<storage, tab, issued, expired, overtaken>>

(***************************************************************************)
(* Answers.                                                                *)
(***************************************************************************)
\* The form f, if it is still on screen, stops loading.
Done(f) == [tab[f.tab] EXCEPT !.loading = @ /\ ~f.mounted]

\* A form was accepted: setAuth, then the user's page.  An account is
\* registered once.
Accept(f) ==
    /\ f.kind # "call"
    /\ f.kind = "register" => \A i \in DOMAIN issued : issued[i] # f.user
    /\ Len(issued) < MaxTokens
    /\ issued' = Append(issued, f.user)
    /\ storage' = [token |-> Len(issued'), user |-> f.user]
    /\ tab' = [tab EXCEPT ![f.tab] =
                   Show([Done(f) EXCEPT !.user = f.user, !.token = Len(issued'),
                                        !.isAuthenticated = TRUE],
                        Dashboard(f.user))]
    /\ flights' = Unmounted(flights \ {f}, f.tab, tab'[f.tab])
    /\ overtaken' = OvertakenBy(f.tab)
    /\ UNCHANGED expired

\* Defect: any error of a call is taken for the end of the session.
UnauthorizedByAny(f) ==
    /\ f.kind \in {"login", "call"}
    /\ storage' = Cleared
    /\ tab' = [tab EXCEPT ![f.tab] =
                   [Done(f) EXCEPT !.leaving = @ \/ tab[f.tab].path # "/login"]]
    /\ flights' = flights \ {f}
    /\ overtaken' = OvertakenBy(f.tab)
    /\ UNCHANGED <<issued, expired>>

\* 401, to a login that is refused or a call without a valid token.  The
\* interceptor clears the storage, whatever token is in it by now, and leaves
\* for /login unless the tab is there.
Unauthorized(f) ==
    /\ \/ f.kind = "login"
       \/ f.kind = "call" /\ (f.token = 0 \/ f.token \in expired)
    /\ storage' = Cleared
    /\ tab' = [tab EXCEPT ![f.tab] =
                   [Done(f) EXCEPT !.leaving = @ \/ tab[f.tab].path # "/login"]]
    /\ flights' = flights \ {f}
    /\ overtaken' = OvertakenBy(f.tab)
    /\ UNCHANGED <<issued, expired>>

\* Any other answer: the data, a refused registration, another error of the
\* server, or none because the network failed.
Answer(f) ==
    /\ tab' = [tab EXCEPT ![f.tab] = Done(f)]
    /\ flights' = flights \ {f}
    /\ UNCHANGED <<storage, issued, expired, overtaken>>

(***************************************************************************)
(* The logout.                                                             *)
(***************************************************************************)
OpenLogout(t) ==
    /\ Protected(tab[t].path)
    /\ tab' = [tab EXCEPT ![t].showLogoutModal = TRUE]
    /\ UNCHANGED <<storage, flights, issued, expired, overtaken>>

CloseLogout(t) ==
    /\ tab[t].showLogoutModal
    /\ tab' = [tab EXCEPT ![t].showLogoutModal = FALSE]
    /\ UNCHANGED <<storage, flights, issued, expired, overtaken>>

\* Defect: localStorage keeps the session.
LogoutOfStoreOnly(t) ==
    /\ tab[t].showLogoutModal
    /\ tab' = [tab EXCEPT ![t] =
                   [Show([@ EXCEPT !.user = NoUser, !.token = 0, !.isAuthenticated = FALSE],
                         "/login") EXCEPT !.showLogoutModal = FALSE]]
    /\ flights' = Unmounted(flights, t, tab'[t])
    /\ UNCHANGED <<storage, issued, expired, overtaken>>

\* The dialog confirms and closes.  The server is not told.
ConfirmLogout(t) ==
    /\ tab[t].showLogoutModal
    /\ storage' = Cleared
    /\ tab' = [tab EXCEPT ![t] =
                   [Show([@ EXCEPT !.user = NoUser, !.token = 0, !.isAuthenticated = FALSE],
                         "/login") EXCEPT !.showLogoutModal = FALSE]]
    /\ flights' = Unmounted(flights, t, tab'[t])
    /\ overtaken' = OvertakenBy(t)
    /\ UNCHANGED <<issued, expired>>

Expire(n) ==
    /\ n \notin expired
    /\ expired' = expired \cup {n}
    /\ UNCHANGED <<storage, tab, flights, issued, overtaken>>

Answered(f) == Accept(f) \/ Unauthorized(f) \/ Answer(f)

Next ==
    \/ \E t \in Tabs :
         \/ \E p \in Entered : Open(t, p) \/ Navigate(t, p)
         \/ \E u \in Users : SubmitLogin(t, u) \/ SubmitRegister(t, u)
         \/ Leave(t) \/ Call(t)
         \/ OpenLogout(t) \/ CloseLogout(t) \/ ConfirmLogout(t)
    \/ \E f \in flights : Answered(f)
    \/ \E n \in DOMAIN issued : Expire(n)

Spec == Init /\ [][Next]_vars

-----------------------------------------------------------------------------

TypeOK ==
    /\ storage \in Storage
    /\ tab \in [Tabs -> Tab]
    /\ flights \subseteq Flight
    /\ issued \in Seq(Users) /\ Len(issued) <= MaxTokens
    /\ expired \subseteq DOMAIN issued
    /\ overtaken \in [Tabs -> BOOLEAN]

\* The guards of AppRouter never send a tab in circles, and at every moment,
\* whatever answers came in, a tab shows a page its own user may see.
GuardsSettle ==
    \A t \in Tabs :
        /\ Route(tab[t], tab[t].path) = tab[t].path
        /\ Protected(tab[t].path) =>
              /\ tab[t].isAuthenticated
              /\ tab[t].user # NoUser => RoleOf[tab[t].user] \in RolesOf(tab[t].path)

\* Sidebar, header, settings and pages offer no link that the guards of
\* AppRouter would send elsewhere: the two tables of roles agree.
LinksLead == \A t \in Tabs : \A p \in Links(tab[t], tab[t].path) : Route(tab[t], p) = p

\* A tab says that one user is logged in while its requests act as another,
\* or as nobody, only if another tab wrote the storage since it was loaded, or
\* while it is being sent to /login.
StoreMirrorsStorage ==
    \A t \in Tabs : ~overtaken[t] /\ ~tab[t].leaving =>
        /\ tab[t].user = storage.user
        /\ tab[t].token = storage.token
        /\ tab[t].isAuthenticated <=> storage.token # 0
        /\ storage.token # 0 => storage.user = issued[storage.token]

\* The button of a form is disabled exactly while one request of that form is
\* unanswered, even if the user leaves the page and returns to it.
FormSendsOnce ==
    \A t \in Tabs :
        Cardinality({f \in flights : f.tab = t /\ f.mounted}) = IF tab[t].loading THEN 1 ELSE 0

\* A session that has not expired is lost only to a logout, to a login that was
\* refused (in any tab), or to the late 401 of a request sent under another
\* session: for the interceptor does not look whose token it removes.
SessionEndsForAReason ==
    [][storage.token \notin expired \cup {0} /\ storage'.token = 0
        => \/ \E t \in Tabs : tab[t].showLogoutModal /\ ~tab'[t].showLogoutModal
           \/ \E f \in flights \ flights' : f.kind = "login" \/ f.token # storage.token]_vars

\* The user a tab shows is replaced by another only when a form that he had
\* left is accepted after all, or if another tab had logged in.
ReplacedByLateForm ==
    [][\A t \in Tabs : tab[t].user # NoUser /\ tab'[t].user \notin {NoUser, tab[t].user}
        => \/ overtaken[t]
           \/ \E f \in flights \ flights' : f.tab = t /\ f.kind # "call" /\ ~f.mounted]_vars

\* The state is well formed, and no form is sent twice.
SessionInv == TypeOK /\ FormSendsOnce

\* What AppRouter's guards allow is settled, and every link leads where it says.
RoutesAgree == GuardsSettle /\ LinksLead
=============================================================================
