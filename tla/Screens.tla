------------------------------- MODULE Screens -------------------------------
(***************************************************************************)
(* The pages of the web client that show a list of rows of the server, or  *)
(* figures made of them, and let their user act on a row or add one.  A    *)
(* page loads its list when it is mounted, and again after what it has     *)
(* done, when the language changes, or when something else is looked for.  *)
(* Its requests are answered in any order, or not at all, and others act   *)
(* on the rows meanwhile.                                                  *)
(*                                                                         *)
(* The pages share one machinery, which the actions below are, and differ  *)
(* in what they offer, which the records AdminUsers to Chat say.           *)
(* Columns, texts and what is typed into forms are left out.               *)
(***************************************************************************)
EXTENDS Integers, FiniteSets, SequencesExt

CONSTANTS
    Rows,      \* bound: rows of the server that a page may show
    NoRow,     \* the row a dialog has that adds one
    Slots,     \* bound: commands that are not answered yet
    Keys,      \* what may be looked for
    MaxLoads   \* bound: loads that are not answered yet

ASSUME RowAssumption == NoRow \notin Rows
ASSUME KeyAssumption == Keys # {}
ASSUME BoundAssumption == MaxLoads \in Nat \ {0}

VARIABLES
    page,       \* the page that is shown; the rest is the state of its component
    loading, error,
    key,        \* what its user looks for
    shown,      \* the status of each row in its list
    shownKey,   \* what that list was looked for by
    dialog,     \* the dialog that is open
    creating,   \* createLoading
    loads,      \* loads that are not answered, in the order they were started
    sent,       \* commands that are not answered
    status,     \* the status of each row on the server
    (* History variables: no guard reads them.                             *)
    known,      \* the status to which a command that loads anew took each row
    overtaken,  \* the list was answered before a list it replaced
    overlap,    \* the load started last was not alone
    failed      \* the load answered last failed

view == <<loading, error, key, shown, shownKey, dialog, creating>>
history == <<known, overtaken, overlap, failed>>
vars == <<page, view, loads, sent, status, history>>

(***************************************************************************)
(* Rows.  Each kind has its statuses; a status is never left for one of a  *)
(* lower rank.  "absent" and "deleted" rows are in no list.  An order is   *)
(* "underway" when it is paid, processing or shipped.                      *)
(***************************************************************************)
UserStatus == {"unverified", "verified"}
WithdrawalStatus == {"pending", "approved", "rejected"}
ShipmentStatus == {"pending", "pickup", "transit", "delivered"}
OrderStatus == {"pending", "underway", "delivered", "reviewed", "cancelled"}
PlainStatus == {"there", "deleted"}

Status == {"absent"} \cup UserStatus \cup WithdrawalStatus \cup ShipmentStatus
                     \cup OrderStatus \cup PlainStatus

Rank == [absent |-> 0, unverified |-> 1, pending |-> 1, there |-> 1,
         verified |-> 2, approved |-> 2, pickup |-> 2, underway |-> 2,
         transit |-> 3, delivered |-> 4, rejected |-> 5, reviewed |-> 5,
         cancelled |-> 5, deleted |-> 5]

Empty == [r \in Rows |-> "absent"]

(***************************************************************************)
(* Commands: the statuses in which the server accepts one, and the status  *)
(* it leads to.                                                            *)
(***************************************************************************)
VerifyUser == [from |-> UserStatus, to |-> "verified"]
UpdateWithdrawal(s) == [from |-> {"pending", "approved"}, to |-> s]
DeleteShrimpType == [from |-> PlainStatus, to |-> "deleted"]

validTransitions == [pickup |-> "pending", transit |-> "pickup", delivered |-> "transit"]
UpdateShipmentStatus(s) == [from |-> {validTransitions[s]}, to |-> s]

CreatePayment == [from |-> {"pending"}, to |-> "pending"]
\* Defect: an order is cancelled whatever has become of it.
CancelAnyOrder == [from |-> {"pending", "underway"}, to |-> "cancelled"]

CancelOrder == [from |-> {"pending"}, to |-> "cancelled"]
CreateReview == [from |-> {"delivered"}, to |-> "reviewed"]
Create(s) == [from |-> {"absent"}, to |-> s]

\* What may be asked of the server about the rows of each kind; an order is
\* also paid, and then delivered, by others.
UserApi == [create |-> Create("verified"), verify |-> VerifyUser]
WithdrawalApi == [create |-> Create("pending"), approved |-> UpdateWithdrawal("approved"),
                  rejected |-> UpdateWithdrawal("rejected")]
ShipmentApi == [create |-> Create("pending"), pickup |-> UpdateShipmentStatus("pickup"),
                transit |-> UpdateShipmentStatus("transit"),
                delivered |-> UpdateShipmentStatus("delivered")]
OrderApi == [create |-> Create("pending"), pay |-> CreatePayment, cancel |-> CancelOrder,
             review |-> CreateReview,
             paid |-> [from |-> {"pending"}, to |-> "underway"],
             arrived |-> [from |-> {"underway"}, to |-> "delivered"]]
PlainApi == [create |-> Create("there"), delete |-> DeleteShrimpType]
\* A private room that is there is answered as if it were new.
RoomApi == [create |-> [from |-> {"absent", "there"}, to |-> "there"]]

CommandNames ==
    UNION {DOMAIN a : a \in {UserApi, WithdrawalApi, ShipmentApi, OrderApi, PlainApi, RoomApi}}

(***************************************************************************)
(* Pages.  offers: the commands of a row by the status it is shown with.   *)
(* asks: those sent from a dialog.  quiet: those after which the list is   *)
(* not loaded again.  creates: a dialog adds a row; guarded: its button is *)
(* disabled while that is answered.  begins: the list is loaded when the   *)
(* page is mounted; spins: the page shows a spinner, and nothing else, at  *)
(* every load; keyed: something can be looked for, and is at every change; *)
(* clears: a load takes the error of the last one away; forgets: a failed  *)
(* load empties the list; retries: the error has a button to try again;    *)
(* keeps: the list is in a store that outlives the page, is shown while it *)
(* is loaded, and gets what the page has added without being loaded again; *)
(* a failed load is not shown.                                             *)
(***************************************************************************)
Nothing == [s \in {} |-> {}]

\* A page that shows what it has loaded, and loads it again only when the
\* language changes, without a spinner.
Shows(api) ==
    [api |-> api, offers |-> Nothing, asks |-> {}, quiet |-> {},
     creates |-> FALSE, guarded |-> FALSE, begins |-> TRUE, spins |-> FALSE,
     keyed |-> FALSE, clears |-> FALSE, forgets |-> FALSE, retries |-> FALSE,
     keeps |-> FALSE]

\* A page with commands.
Offers(api, offers) == [Shows(api) EXCEPT !.offers = offers, !.spins = TRUE]

AdminUsers ==
    [Offers(UserApi, [unverified |-> {"verify"}])
        EXCEPT !.creates = TRUE, !.guarded = TRUE, !.retries = TRUE]
AdminWithdrawals ==
    [Offers(WithdrawalApi, [pending |-> {"approved", "rejected"}])
        EXCEPT !.asks = {"approved", "rejected"}]
AdminShipments == [Offers(ShipmentApi, Nothing) EXCEPT !.creates = TRUE]
AdminShrimpTypes == [Offers(PlainApi, [there |-> {"delete"}]) EXCEPT !.creates = TRUE]
PetambakFarms == [Offers(PlainApi, Nothing) EXCEPT !.creates = TRUE, !.retries = TRUE]
PetambakProducts == [Offers(PlainApi, Nothing) EXCEPT !.creates = TRUE]
PetambakWithdrawals == [Offers(WithdrawalApi, Nothing) EXCEPT !.creates = TRUE]
\* Defect: the pages' table of shipments is not the server's.
nextStatusByHand == [pending |-> "transit", pickup |-> "transit", transit |-> "delivered"]

nextStatus == [pending |-> "pickup", pickup |-> "transit", transit |-> "delivered"]
LogistikShipments ==
    [Offers(ShipmentApi, [s \in DOMAIN nextStatus |-> {nextStatus[s]}])
        EXCEPT !.asks = {"pickup", "transit", "delivered"}]
\* A reviewed order is shown as delivered.
KonsumenOrders ==
    [Offers(OrderApi, [pending |-> {"pay", "cancel"}, delivered |-> {"review"},
                       reviewed |-> {"review"}])
        EXCEPT !.asks = {"review"}, !.quiet = {"pay", "review"}]

AdminOrders == Shows(OrderApi)
AdminDashboard == Shows(OrderApi)
AdminTraceabilityLogs == Shows(PlainApi)
PetambakBatches == Shows(PlainApi)
PetambakCultivation == Shows(PlainApi)
PetambakHarvests == Shows(PlainApi)
PetambakSales == Shows(OrderApi)
PetambakDashboard == Shows(PlainApi)
LogistikDashboard == Shows(ShipmentApi)
KonsumenDashboard == Shows(OrderApi)

Marketplace ==
    [Shows(PlainApi) EXCEPT !.keyed = TRUE, !.spins = TRUE, !.clears = TRUE, !.retries = TRUE]
ProductDetail == [Shows(PlainApi) EXCEPT !.keyed = TRUE, !.spins = TRUE]
Traceability ==
    [Shows(PlainApi) EXCEPT !.keyed = TRUE, !.spins = TRUE, !.clears = TRUE,
                            !.begins = FALSE, !.forgets = TRUE]

\* The rooms of the chat.
Chat == [Shows(RoomApi) EXCEPT !.creates = TRUE, !.spins = TRUE, !.keeps = TRUE]

\* Pages by name: those with commands, those that show, those that look for.
PageOf ==
    [AdminUsers |-> AdminUsers, AdminWithdrawals |-> AdminWithdrawals,
     AdminShipments |-> AdminShipments, AdminShrimpTypes |-> AdminShrimpTypes,
     PetambakFarms |-> PetambakFarms, PetambakProducts |-> PetambakProducts,
     PetambakWithdrawals |-> PetambakWithdrawals, LogistikShipments |-> LogistikShipments,
     KonsumenOrders |-> KonsumenOrders, AdminOrders |-> AdminOrders,
     AdminDashboard |-> AdminDashboard, AdminTraceabilityLogs |-> AdminTraceabilityLogs,
     PetambakBatches |-> PetambakBatches, PetambakCultivation |-> PetambakCultivation,
     PetambakHarvests |-> PetambakHarvests, PetambakSales |-> PetambakSales,
     PetambakDashboard |-> PetambakDashboard, LogistikDashboard |-> LogistikDashboard,
     KonsumenDashboard |-> KonsumenDashboard, Marketplace |-> Marketplace,
     ProductDetail |-> ProductDetail, Traceability |-> Traceability, Chat |-> Chat]

P == PageOf[page]

\* The commands of row r as the list shows it.
Buttons(s) == IF s \in DOMAIN P.offers THEN P.offers[s] ELSE {}

(***************************************************************************)
(* Loads.  A load is "asked", then "answered" with the rows as they are on *)
(* the server at that moment; its page gets the answer later, or an error. *)
(* late: a load started after it has been shown.                           *)
(***************************************************************************)
Load == [state : {"asked", "answered"}, key : Keys, rows : [Rows -> Status], late : BOOLEAN]

Asked(k) == [state |-> "asked", key |-> k, rows |-> Empty, late |-> FALSE]

\* Defect: a new search leaves the old error.
StartWithError(k) ==
    /\ Len(loads) < MaxLoads
    /\ loads' = Append(loads, Asked(k))
    /\ loading' = (loading \/ P.spins)
    /\ error' = error
    /\ overlap' = (loads # <<>>)

\* The page starts a load of k.
Start(k) ==
    /\ Len(loads) < MaxLoads
    /\ loads' = Append(loads, Asked(k))
    /\ loading' = (loading \/ P.spins)
    /\ error' = (error /\ ~P.clears)
    /\ overlap' = (loads # <<>>)

\* A fresh component, and its first load.
Mounted(p) ==
    [loading |-> PageOf[p].begins,
     loads |-> IF PageOf[p].begins THEN <<Asked(CHOOSE k \in Keys : TRUE)>> ELSE <<>>]

Idle == [state |-> "idle", name |-> "create", row |-> NoRow, seen |-> "absent", mounted |-> FALSE]

\* A command: the row it is about, the status it was shown with, and whether
\* the page that sent it is still mounted.
Command == [state : {"idle", "asked", "accepted", "refused"}, name : CommandNames,
            row : Rows \cup {NoRow}, seen : Status, mounted : BOOLEAN]

\* It adds a row to the page that sent it.
Creates(x) == x.state # "idle" /\ x.mounted /\ x.name = "create"

NoDialog == [row |-> NoRow, names |-> {}, seen |-> "absent"]

\* What row r may be at first.
Statuses(api) == {"absent"} \cup UNION {api[c].from \cup {api[c].to} : c \in DOMAIN api}

Init ==
    /\ page \in DOMAIN PageOf
    /\ loading = Mounted(page).loading /\ loads = Mounted(page).loads
    /\ error = FALSE /\ dialog = NoDialog /\ creating = FALSE
    /\ key = CHOOSE k \in Keys : TRUE
    /\ shown = Empty /\ shownKey = key
    /\ sent = [c \in Slots |-> Idle]
    /\ status \in [Rows -> Statuses(P.api)]
    /\ known = Empty
    /\ overtaken = FALSE /\ overlap = FALSE /\ failed = FALSE

\* The user leaves and comes back.  Nobody gets the answers to the loads of
\* the component that is gone.
Remount ==
    /\ ~P.keeps
    /\ loading' = Mounted(page).loading /\ loads' = Mounted(page).loads
    /\ error' = FALSE /\ dialog' = NoDialog /\ creating' = FALSE
    /\ key' = CHOOSE k \in Keys : TRUE
    /\ shown' = Empty /\ shownKey' = key'
    /\ sent' = [c \in Slots |-> [sent[c] EXCEPT !.mounted = FALSE]]
    /\ overtaken' = FALSE /\ overlap' = FALSE /\ failed' = FALSE
    /\ UNCHANGED <<page, status, known>>

\* A store gets them all the same, and is loaded once more.
RemountStore ==
    /\ P.keeps
    /\ Start(key)
    /\ dialog' = NoDialog
    /\ sent' = [c \in Slots |-> [sent[c] EXCEPT !.mounted = FALSE]]
    /\ UNCHANGED <<page, key, shown, shownKey, creating, status, known, overtaken, failed>>

\* The language changes: the pages of the layout load again.
ChangeLanguage ==
    /\ ~P.keyed /\ ~P.keeps
    /\ Start(key)
    /\ UNCHANGED <<page, key, shown, shownKey, dialog, creating, sent, status,
                   known, overtaken, failed>>

\* The button of the error.
TryAgain ==
    /\ P.retries /\ error /\ ~loading
    /\ Start(key)
    /\ UNCHANGED <<page, key, shown, shownKey, dialog, creating, sent, status,
                   known, overtaken, failed>>

\* Another filter, search or path, also while the page loads; only a search
\* may be for the same again.
LookFor(k) ==
    /\ P.keyed
    /\ k # key \/ P.clears
    /\ key' = k
    /\ Start(k)
    /\ UNCHANGED <<page, shown, shownKey, dialog, creating, sent, status,
                   known, overtaken, failed>>

Serve(i) ==
    /\ loads[i].state = "asked"
    /\ loads' = [loads EXCEPT ![i].state = "answered", ![i].rows = status]
    /\ UNCHANGED <<page, view, sent, status, history>>

\* Load i is over; those before it are late if its list is shown.
Without(i, ok) ==
    LET rest == [j \in DOMAIN loads |->
                    [loads[j] EXCEPT !.late = @ \/ (ok /\ j < i)]]
    IN  RemoveAt(rest, i)

Arrive(i) ==
    /\ loads[i].state = "answered"
    /\ shown' = loads[i].rows /\ shownKey' = loads[i].key
    /\ loading' = FALSE
    /\ loads' = Without(i, TRUE)
    /\ overtaken' = loads[i].late
    /\ failed' = FALSE
    /\ UNCHANGED <<page, error, key, dialog, creating, sent, status, known, overlap>>

\* An error was answered, or nothing.
FailLoad(i) ==
    /\ error' = ~P.keeps
    /\ loading' = FALSE
    /\ shown' = IF P.forgets THEN Empty ELSE shown
    /\ loads' = Without(i, FALSE)
    /\ failed' = TRUE
    /\ UNCHANGED <<page, key, shownKey, dialog, creating, sent, status, known, overtaken, overlap>>

(***************************************************************************)
(* Commands.                                                               *)
(***************************************************************************)
\* Neither the spinner nor the error covers the page.
Visible == ~error /\ (loading => P.keeps /\ shown # Empty)

Send(c, name, r, seen) ==
    /\ sent[c].state = "idle"
    /\ sent' = [sent EXCEPT ![c] = [state |-> "asked", name |-> name, row |-> r,
                                    seen |-> seen, mounted |-> TRUE]]

\* A button of a row.
Press(c, r, name) ==
    /\ Visible /\ dialog = NoDialog
    /\ name \in Buttons(shown[r]) \ P.asks
    /\ Send(c, name, r, shown[r])
    /\ UNCHANGED <<page, view, loads, status, history>>

\* A button of a row that opens a dialog about the row as it is shown, or the
\* button that opens the one for a new row.
OpenDialog ==
    /\ Visible /\ dialog = NoDialog
    /\ \/ \E r \in Rows :
            /\ Buttons(shown[r]) \cap P.asks # {}
            /\ dialog' = [row |-> r, names |-> Buttons(shown[r]) \cap P.asks, seen |-> shown[r]]
       \/ P.creates /\ dialog' = [row |-> NoRow, names |-> {"create"}, seen |-> "absent"]
    /\ UNCHANGED <<page, loading, error, key, shown, shownKey, creating, loads, sent, status, history>>

CloseDialog ==
    /\ Visible /\ dialog # NoDialog
    /\ dialog' = NoDialog
    /\ UNCHANGED <<page, loading, error, key, shown, shownKey, creating, loads, sent, status, history>>

\* A button of the dialog.
Confirm(c, name) ==
    /\ Visible
    /\ name \in dialog.names
    /\ P.guarded => ~creating
    /\ creating' = (creating \/ P.guarded)
    /\ Send(c, name, dialog.row, dialog.seen)
    /\ UNCHANGED <<page, loading, error, key, shown, shownKey, dialog, loads, status, history>>

\* The server has carried out command c, on a row of its own if it adds one.
Accept(c) ==
    \E r \in Rows :
        LET do == P.api[sent[c].name]
        IN  /\ sent[c].state = "asked"
            /\ sent[c].row \in {r, NoRow}
            /\ status[r] \in do.from
            /\ status' = [status EXCEPT ![r] = do.to]
            /\ sent' = [sent EXCEPT ![c].state = "accepted", ![c].row = r]
            /\ UNCHANGED <<page, view, loads, history>>

\* The server does not accept c of a row with this status.
Refuse(c) ==
    /\ sent[c].state = "asked"
    /\ sent[c].row # NoRow /\ status[sent[c].row] \notin P.api[sent[c].name].from
    /\ sent' = [sent EXCEPT ![c].state = "refused"]
    /\ UNCHANGED <<page, view, loads, status, history>>

\* Defect: the list is not loaded again.
SucceedWithoutLoad(c) ==
    /\ ~P.keeps
    /\ sent[c].state = "accepted"
    /\ sent' = [sent EXCEPT ![c] = Idle]
    /\ creating' = (creating /\ ~Creates(sent[c]))
    /\ dialog' = IF sent[c].mounted THEN NoDialog ELSE dialog
    /\ known' = IF sent[c].mounted /\ sent[c].name \notin P.quiet
                THEN [known EXCEPT ![sent[c].row] = P.api[sent[c].name].to] ELSE known
    /\ UNCHANGED <<page, loading, error, key, shown, shownKey, loads, status, overtaken, overlap, failed>>

\* c was answered well: its dialog, or the one that is open by now, is closed,
\* and the list loaded again.  A page that is gone does neither.
Succeed(c) ==
    /\ ~P.keeps
    /\ sent[c].state = "accepted"
    /\ sent' = [sent EXCEPT ![c] = Idle]
    /\ creating' = (creating /\ ~Creates(sent[c]))
    /\ IF ~sent[c].mounted
       THEN UNCHANGED <<dialog, loads, loading, error, overlap, known>>
       ELSE /\ dialog' = IF sent[c].name \in P.asks \cup {"create"} THEN NoDialog ELSE dialog
            /\ IF sent[c].name \in P.quiet
               THEN UNCHANGED <<loads, loading, error, overlap, known>>
               ELSE /\ known' = [known EXCEPT ![sent[c].row] = P.api[sent[c].name].to]
                    /\ Start(key)
    /\ UNCHANGED <<page, key, shown, shownKey, status, overtaken, failed>>

\* What c has added is put into the store's list, mounted or not; the lists
\* that are asked for are late.
AddToList(c) ==
    /\ P.keeps
    /\ sent[c].state = "accepted"
    /\ sent' = [sent EXCEPT ![c] = Idle]
    /\ dialog' = IF sent[c].mounted THEN NoDialog ELSE dialog
    /\ shown' = [shown EXCEPT ![sent[c].row] = P.api[sent[c].name].to]
    /\ known' = [known EXCEPT ![sent[c].row] = P.api[sent[c].name].to]
    /\ loads' = [i \in DOMAIN loads |-> [loads[i] EXCEPT !.late = TRUE]]
    /\ UNCHANGED <<page, loading, error, key, shownKey, creating, status, overtaken, overlap, failed>>

\* c was answered with an error, or it or its answer was lost: a message.
FailCommand(c) ==
    /\ sent[c].state # "idle"
    /\ sent' = [sent EXCEPT ![c] = Idle]
    /\ creating' = (creating /\ ~Creates(sent[c]))
    /\ UNCHANGED <<page, loading, error, key, shown, shownKey, dialog, loads, status, history>>

\* Somebody else, or the same user elsewhere.
OtherActs(r, name) ==
    /\ status[r] \in P.api[name].from
    /\ status' = [status EXCEPT ![r] = P.api[name].to]
    /\ status' # status
    /\ UNCHANGED <<page, view, loads, sent, history>>

Next ==
    \/ Remount \/ RemountStore \/ ChangeLanguage \/ TryAgain \/ OpenDialog \/ CloseDialog
    \/ \E k \in Keys : LookFor(k)
    \/ \E i \in DOMAIN loads : Serve(i) \/ Arrive(i) \/ FailLoad(i)
    \/ \E c \in Slots :
         \/ \E name \in CommandNames : Confirm(c, name) \/ \E r \in Rows : Press(c, r, name)
         \/ Accept(c) \/ Refuse(c) \/ Succeed(c) \/ AddToList(c) \/ FailCommand(c)
    \/ \E r \in Rows, name \in DOMAIN P.api : OtherActs(r, name)

Spec == Init /\ [][Next]_vars

-----------------------------------------------------------------------------

TypeOK ==
    /\ page \in DOMAIN PageOf
    /\ {loading, error, creating, overtaken, overlap, failed} \subseteq BOOLEAN
    /\ {key, shownKey} \subseteq Keys
    /\ shown \in [Rows -> Status] /\ status \in [Rows -> Status] /\ known \in [Rows -> Status]
    /\ dialog \in [row : Rows \cup {NoRow}, names : SUBSET CommandNames, seen : Status]
    /\ loads \in Seq(Load) /\ Len(loads) <= MaxLoads
    /\ sent \in [Slots -> Command]

\* No spinner waits for nothing, and the button that adds a user is disabled
\* exactly while one user is being added.
SpinnerIsAsked ==
    /\ loading => loads # <<>>
    /\ P.guarded =>
         Cardinality({c \in Slots : Creates(sent[c])}) = IF creating THEN 1 ELSE 0

\* Once nothing is being loaded, the list shows all that the page's own commands
\* have done (but for reviews, which show nowhere in it), unless it is an older
\* answer that came after a newer one or, in a store, after an addition.
ListShowsOwnWork ==
    loads = <<>> /\ ~error /\ ~overtaken =>
        \A r \in Rows : Rank[shown[r]] >= Rank[known[r]]

\* Once nothing is being loaded, what is shown is what was looked for last,
\* unless its answer was overtaken by one it has replaced.
ShownIsLookedFor == loads = <<>> /\ ~error /\ ~overtaken => shownKey = key

\* An error is shown after the last load has been answered well only if loads
\* overlapped, or on a page that never takes an error away: trying again there
\* shows the error again, whatever is answered.
ErrorIsCurrent == loads = <<>> /\ error => failed \/ overlap \/ ~P.clears

\* The server refuses, for its row's status, only a command whose row has left
\* the status that the page showed; but a review is offered again once made.
RefusedOnlyIfChanged ==
    \A c \in Slots : sent[c].state = "refused" =>
        status[sent[c].row] # sent[c].seen \/ sent[c].name = "review"

\* A command changes a row from a status that its user was not shown only when
\* it rejects a withdrawal that has been approved meanwhile.
UnseenChangeOnlyRejects ==
    [][\A c \in Slots : sent[c].state = "asked" /\ sent'[c].state = "accepted" /\ sent[c].row # NoRow
         => \/ status[sent[c].row] = sent[c].seen
            \/ status' = status
            \/ status[sent[c].row] = "approved" /\ sent[c].name = "rejected"]_vars

\* The state is well formed, and spinner, button and error say what is so.
ScreensInv == TypeOK /\ SpinnerIsAsked /\ ErrorIsCurrent

\* Once nothing is being loaded, the list shows what was looked for and what was
\* done, but for answers that were overtaken.
ListIsCurrent == ListShowsOwnWork /\ ShownIsLookedFor
=============================================================================
