# CRONOS in TLA+

CRONOS is a marketplace for shrimp: farmers (*petambak*) record ponds, cultivation cycles,
harvests and batches and sell products; consumers (*konsumen*) order and pay through Midtrans;
couriers (*logistik*) ship; administrators verify users and settle withdrawals; and a
"blockchain" ledger records what happened to a batch from farm to table. This directory
specifies and verifies its core: on the server the ledger and the traces read from it, the
money, the orders, the stock and the chat hub; in the browser the session, the cart and checkout,
the chat, and the pages.

The repository holds the server twice - `backend/` (Go, gin and gorm) and `backend-spring/`
(Java, the same handlers) - and two clients, `frontend/` (React) and `fluttermultiplatform/`
(Dart). The specifications follow the Go server and the React client. Where the Java server runs a handler in one
transaction (orders, webhooks, withdrawals, shipment updates) a crash cannot leave it halfway,
but at PostgreSQL's READ COMMITTED, with neither locks nor version columns, its reads and saves
interleave with those of other requests just as they do in Go.

## What is hard about this system

Every request runs on its own goroutine. The Go server never opens a transaction and never
locks a row: a handler reads a row, changes its copy, and saves *every* column of the copy;
most handlers do that to several rows in turn, and many drop the error of a save. So
- two requests that overlap overwrite each other (lost updates, stale guards);
- a handler that dies or fails halfway leaves rows that disagree;
- Midtrans repeats, delays and reorders its notifications, and the webhook must cope.

The web client has its own concurrency. A handler runs to its first `await` and goes on when the
answer comes, if it comes: by then the user may have left the page, logged out, changed the cart
or asked again, and nothing cancels a request or looks whether its answer is still wanted. The
tabs of one browser share `localStorage` and nothing else.

The modules of the server are therefore written statement by statement. A request is a record of local
variables with a `pc`; each database statement is one action; `Crash` ends a request between any
two statements; and a save whose error the code drops has a failing variant after which the
handler goes on. In the modules of the client what runs between two awaits is one action, and
every request may be answered late, out of order, with an error or not at all.

## Components

| Component | Code | State | Operations | Interacts with | Module |
|---|---|---|---|---|---|
| Traceability ledger | `blockchain/ledger.go` | `traceability_logs` | `RecordEvent`, `VerifyChain`, `GetTraceByBatchCode` | called by farms, cultivation, harvests, products, orders, shipments | `Ledger`, `HashForest`, `Trace` |
| Farms, ponds, cycles, harvests, batches | `farm_service.go`, `cultivation_service.go`, `harvest_service.go` | rows that refer to one another | create, delete, save, log feed and water | ledger | `Trace` |
| Balances, withdrawals | `withdrawal_service.go`, `creditSellerBalance`, `auth_service.go`, `user_service.go` | `users`, `withdrawals` | request, approve, reject, pay; credit; edit, verify | webhook credits | `Wallet` |
| Orders, payments | `order_service.go`, `payment_service.go` | `orders`, `payments`, `midtrans_transactions` | cancel, create payment, webhook | Midtrans, balances, shipments | `Orders`, `OrderLife` |
| Shipments | `shipment_service.go` | `shipments`, `shipment_logs` | create, update status | writes `orders.status` | `Orders`, `OrderLife` |
| Stock | `order_service.go`, `product_service.go` | `products.stock`, `order_items` | create and cancel an order, edit a product | webhook changes `orders.status` | `Stock` |
| Chat hub | `chat_controller.go` | connected clients and their rooms | connect, join, message, leave, create room | chat clients | `ChatHub` |
| Session and routes | `authStore.ts`, `axios.ts`, `AppRouter.tsx`, `AppLayout.tsx`, `Login.tsx`, `Register.tsx` | `localStorage`, a store and a path for each tab | log in, register, log out, navigate, call | every page; the server's 401 | `Session` |
| Cart, checkout | `cartStore.ts`, `Cart.tsx`, `Checkout.tsx` | cart, two requests | add, change, remove, order, pay | orders, payments | `Shop` |
| Chat client | `chatStore.ts`, `Chat.tsx` | socket, timers, messages, rooms | connect, reconnect, select, send, create room | chat hub | `ChatClient`, `Screens` |
| Pages | `pages/**`, `components/ui.tsx` | list, spinner, error, dialog | load, look for, act on a row, add one | every service | `Screens` |
| Reviews | `review_service.go` | `reviews`, rating columns | create | products | its button in `Screens` |
| Rate limiter | `middleware/rate_limit.go` | a bucket per address | allow, cleanup | every request | not modelled |
| Server's authentication, roles | `middleware/auth.go`, `role.go` | none: signed tokens | check | every request | not modelled: stateless |
| Flutter client | `fluttermultiplatform/` | as the web client | as the web client | the same server | not modelled |
| Dashboards, routes, configuration | | none | | | not modelled: read-only, wiring |

What makes each of the modelled components correct, and what the code really guarantees of it,
is stated in the sections below; the hazards behind those properties are listed, each at its
line, in `PROJECT.json`.

## Ledger

`Ledger` models `RecordEvent`: `ReadNewest`, `ReadEmpty` or `ReadFails` is `getLastHash` (any
error is answered with the genesis hash), `StampAndHash` takes the time and hashes, `Insert`
inserts, and `Abandon` is an insert that fails or never happens - every caller drops that error.
A SHA-256 is abstracted to the stamp it is computed from, which keeps it injective; `created_at`,
by which the table is sorted, is the same stamp. Two logs are taken never to get the same
`created_at`: on a tie the database may return either order, and the chain may fail to verify
for that alone. `seen` is a history field: the logs in the table when the
recorder looked.

- `LinksPointBack` - every log names the genesis hash or a strictly older log (proved).
- `ForksOnlyFromOverlap` - two logs with one predecessor did not see each other (proved).
- `BrokenExactlyByOverlap` - `VerifyChain` fails if *and only if* of two neighbouring logs the
  later one's recorder had looked before the earlier one was inserted (or its look failed).
- `BrokenForever` - a chain that fails never verifies again.
- `ImplementsForest` - `Ledger` implements `HashForest`, an append-only forest of links.

That the chain verifies at all, which the administrator's endpoint is there to confirm, does
**not** hold: two overlapping recordings break it for good.

`MCLedger` checks three recorders and five stamps: three are enough for a log to be inserted
between two that are in flight, and the fifth stamp lets the chain grow on both sides of a break.

## Wallet

`Wallet` models every handler that saves a `users` row - it always saves the balance, too - and
the withdrawals. `ReadRow` and `SaveUser` are `UserRepo.FindByID` and `UserRepo.Update`;
`CreditSeller` is one turn of `creditSellerBalance`; `UpdateProfile`, `VerifyUser` and
`UpdateUserStatus` save the balance as they read it. `CheckBalance` and `InsertWithdrawal` are
`CreateWithdrawal`; `ReadWithdrawal`, `ReadUser` or `InsufficientBalance`, `SaveUser` or
`SaveUserFails`, and `SaveWithdrawal` are `UpdateWithdrawal`.

- `BalanceNeverNegative` - holds under every race, crash and lost save, because a debit is
  checked against the very copy that is saved.
- `BooksBalance` - a balance is what was credited less what was withdrawn, unless the row was
  saved from an outdated copy (`raced`). That is the only way money appears or vanishes.
- `DebitedOnce` - a withdrawal is debited exactly when it is approved or paid, unless an update of
  it was saved from an outdated copy, or ended between the two rows (`broken`).
- `FinalChangedOnlyByOldCopy` - a rejected or paid withdrawal changes only by a request that read
  it before (proved). That a final withdrawal is final, which the guard states, does **not** hold:
  it takes two administrators at once.

`MCWallet` has two requests, one seller (rows of different sellers never meet), and withdrawals
of 1 and 2 against a credit of 2: both can be requested, not both be paid. `MaxCredited` bounds
credits and `DebitRange` the repeated debits and refunds of a `broken` withdrawal.

## Orders

`Orders` is the life of one order: its `orders`, `payments`, `midtrans_transactions` and
`shipments` rows, and everybody who changes them. Handlers of different orders meet only in
`products` and `users`, which are `Stock` and `Wallet`. Its actions are grouped as the code is:
`CancelOrder … SaveCancelled`; `CreatePayment … InsertMt`; Midtrans (`Notify`, `Pay`, `Expire`,
external: what it sends it may send again, late, and in any order); the webhook `ReadPayment …
SavePayment` with the failing variants of its three saves; `CreateShipment … SaveProcessing`;
`ReadShipment … SaveLeg`, whose save of the order may fail unseen, too. Only status columns are kept. A settlement and an accepted capture do
the same, as do deny, cancel and expire (but for the word "expired", which no handler reads).

- `PaidMeansPaid` - the order or its payment says paid, or a seller is credited, only if Midtrans
  was paid: a challenged capture is not enough.
- `PaidHasCredited` - once the payment says paid, every seller whose product is still listed has
  been credited, unless a failed save went unnoticed (`missed`).
- `CreditedOnce` - a second credit needs overlapping webhooks, a crash between the credit and the
  payment, a lost save of the payment, or a late notification that moved the payment off paid
  (`again` records any of these).
- `PaidSellersAreCredited` - liveness: if crashes end, a paid order's sellers are credited.
- `CancelsOtherOnlyByOldCopy` - the customer's cancellation overwrites another status only if
  somebody saved the order since it was read (proved). That only pending orders are cancelled,
  which the guard states, does **not** hold.
- `OrphanPaymentStaysOrphan` - a payment whose call to Midtrans failed makes the order unpayable
  for good: the unique index on `order_id` refuses every later attempt.
- `LegByLeg` - a shipment moves one leg at a time but for updates that overlap.
- `ImplementsLife` - `Orders` implements `OrderLife`, which keeps the status, what each writer is
  going to write (`Wills`), and what gives grounds for it (`Facts`: what Midtrans said, the legs of
  the parcels). A customer decides to cancel a pending order, a webhook what Midtrans said, an
  administrator to process an order not yet sent, a courier the leg after the present one; each
  writes later, over whatever is there then. That is all a reader of `orders.status` can rely on.
- `CancelledOrderStays` - when nobody is about to write anything else, only a settlement or a
  shipment brings a cancelled order back (proved).

**Fairness** (`FairSpec`): weak fairness of `Proceed(r)` - a goroutine that can go on does - and
strong fairness of `Redeliver`: Midtrans repeats a settlement until it is answered with 200, and
a goroutine is free for it now and then. Nothing is assumed of clients, and crashes may happen
for a while (`CrashesEnd`).

`MCOrders.cfg` has two requests, which is what every race here takes, one seller and no shipment,
which plays no part in a credit; `MaxCredits = 2` tells "twice" from "once" and stops counting
there. `MCOrderLife.cfg` has two shipments and no seller: credits do not touch the status. The
theorems know of no such division. Deadlock is not checked in these runs: a cancelled
order may be the end.

## Stock

`Stock` models `CreateOrder` - `CheckLine` for every line, `InsertOrder`, then `InsertItem`,
`ReadTake`, `SaveTake` for every line - and `CancelOrder` - `ReadBack`, `SaveBack` for every line
it saw, then `SaveCancelled`. `UpdateProduct` overwrites the stock. `Settle` and `Lapse` are what
the webhook of `Orders` does to the order's status: it leaves the stock alone. They may happen
at any time here, which allows all that `Orders` does. "sold" stands for every status from paid
on. Products that are deleted meanwhile are not modelled; nobody can order them any more.

- `StockBooks` - unless a product was saved from an outdated copy (`raced`), its stock is what the
  seller last entered, less what was taken and plus what was put back.
- `HeldExactly` - at rest, an order holds all its lines if it is pending, sold, or was cancelled by
  the webhook, and none if its customer cancelled it; unless a handler ended halfway or two met
  (`disturbed`), which includes a settlement after the cancellation.
- `OversoldOnlyAfterOldCheck` - a product is oversold only if it was saved between the check of a
  line and the line's save (`contested`), be it by another line of the same order.

That no product is oversold, the rule behind "insufficient stock", does **not** hold, and it takes
no concurrency to break it: each line of an order is checked against the whole stock, so two lines
of one product that do not fit together both pass.

`MCStock` checks two requests over one product with orders of two lines and of one; the product
starts at 3, so the orders fit one by one and not together, and a seller may overwrite it with 1.
`LeastHeld` bounds how often a cancellation that keeps dying may put the same lines back: with 1,
the single line of the second order is not put back at all, nor are the lines of the first one
put back twice. The theorems below hold without that bound.

## Chat hub

`ChatHub` models `chat_controller.go`, goroutine by goroutine: a connection connects (`AddClient`,
`QueryRooms`, `AssignRooms`), reads joins and messages (`ReceiveJoin`, `JoinRoom`;
`ReceiveMessage`, then the broadcast `RLock … WriteTo`, `WriteDone` … `RUnlock`), and ends
(`ReadFails`, `RemoveClient`); a request creates a room (`FindRoom … RUnlockHub`). The hub's
readers-writer lock is modelled as Go implements it - one writer announces itself and keeps new
readers out - and the lock of a client by who is writing to it. What a short critical section
does is one action. `TornRead` is the data race on `Client.Rooms`: the slice may be read torn
while it is stored, which panics, and gin's recovery ends the connection. A stored message plays
no part in the hub, and its error is only logged.

- `HubIsLatestOpen` (in `HubInv`) - the hub holds each user's latest connection unless its socket
  was closed.
- `ClosedByElder` - a connection that has not ended is closed by the server only when an elder
  one of the same user ends: `RemoveClient` is given a user, not a connection.
- `RoomsLoaded` - who is in the hub is in every room of his, unless the query failed or a room
  was appended between it and the assignment (`lost`), where "Update online clients
  synchronously", as the code has it, does not hold.
- `BroadcastReaches` - a broadcast reaches everybody who was in the hub and the room as it began.
- `HubServes` - liveness: whoever wants to join or leave gets the hub's lock.

**Fairness**: goroutines run, and a socket takes a write or fails it in the end (`WriteDone`).
The latter is TCP's doing, not the code's, which sets no deadline: until a browser that reads
nothing is given up, one broadcast to it keeps everybody from joining and leaving.

`MCChatHub` has three connections of two users and one room: enough for a connection to be
replaced, and for the elder one to end, while the other user broadcasts. `MCChatHubLive` has two connections
and a room: two broadcasts, a creation and a waiting writer can meet.

## Trace

`Trace` is what a customer sees of all this who enters a batch code. `Create` is the creation of
any row of the chain farm - pond - cycle - harvest - batch - product - order - shipment (`Kinds`),
`On` says what a row refers to - one row of the kind before; none, if it is a product without a batch;
for an order the products of its lines - and `Ready` what its service asks of that: `CreatePond`, `CreateCycle` and
`CreateOrder` look for the row and see no deleted one, the others leave it to the foreign key.
`LogMore` is a feed or water quality log, or a courier's update. Both then record their event
(`Timestamp`, `InsertLog` into `ledger`, or `GiveUp`: the error is dropped), on the handler's own time. `Delete`
sets `deleted_at`; `SaveOldCopy` is gorm's `Save`, which inserts or overwrites the whole row when
its UPDATE finds none, and so brings a deleted row back. `GetTraceByBatchCode` is the walk of the
code: its five lists, one after the other, sorted by timestamp with the exchange sort of
`sortLogsByTimestamp`. It is evaluated in one state: the
queries of a trace that is read while it grows may each see a little more.

- `TraceInOrder` (in `TraceInv`) - a trace tells the creation of a thing before all that was done
  with it or made of it, unless something was before its event was recorded (`hasty`): the row is
  visible before its log is.
- `TraceComplete` - every creation is recorded once its handler is done, unless the handler dropped
  it (`dropped`); and a trace has all logs of what its batch was made from and what was made of
  it, no others, but for what a deletion hides (`Hidden`): with its pond the farm goes, with a
  product the orders and shipments that have no line of another product of the batch. The client
  promises "every step from farm to table".

An order with lines of two products of the batch is listed twice, with its shipment. `MCTrace` has
exactly that order, and one row of every other kind. Two timestamps (`MaxTimes`) are enough: order is a
question about two, completeness about one. The pond and one product are deleted; a deletion of
the farm only keeps ponds and cycles from being created.

## Session

`Session` is `authStore`, the interceptors of `axios.ts`, the three guards and the table of
routes of `AppRouter`, the tables of links of `AppLayout` and the open pages, and the two forms.
`Submit`, `Call` send with the token of `localStorage`; `Accept`, `Unauthorized`, `Answer` are the
answers; `Show` is a render, with the redirects of the guards, which unmounts what it leaves;
`Open` and `Leave` load a tab anew. The dialog of the logout is `OpenLogout … ConfirmLogout`.

- `GuardsSettle`, `LinksLead` (in `RoutesAgree`) - at every moment a tab shows a page its user may
  see, no two guards send it to and fro, and no link of the page leads elsewhere than it says.
- `FormSendsOnce` (in `SessionInv`) - a form has at most one request under way, even if it is left
  and opened again.
- `StoreMirrorsStorage` - a tab shows one user and acts as another only if another tab wrote
  `localStorage` since it was loaded.
- `SessionEndsForAReason` - a session that has not expired ends by a logout, a refused login in any
  tab, or the late 401 of another session's request: the interceptor does not look whose token it
  removes.
- `ReplacedByLateForm` - within one tab, a user is replaced by another only when a form that was
  left is answered after all.

`MCSession` has two tabs, an administrator and a customer, two tokens and two requests under way:
a late answer needs one of each beside the session it meets. Every page of both roles is in the
tables; the paths that are opened are one of each kind.

## Shop

`Shop` is `cartStore` in several tabs and `handleCheckout`: `Checkout` sends the order, `PayOrder`
the payment once it is answered, `Finish` and `Fail` are the two ends, whichever page the tab shows
by then. The server's `CreateOrder` and `CreatePayment` only succeed or fail here.

- `CartIsAsked` - the stored cart is what its customer put there and has not ordered, unless tabs
  wrote over each other, a checkout emptied a cart that had changed meanwhile, or the cart is the
  last customer's (`disturbed`).
- `PlacedOnce` (in `ShopInv`) - a page has one checkout under way exactly when its button is disabled.
- `OutcomeIsKnown` - the cart is emptied only for an order that can be paid; an order whose cart is
  still there, which would be ordered again, belongs to a checkout that showed an error or was left.
- `CheckoutEnds` - liveness: the button does not stay disabled. **Fairness**: the server or the
  network answers each request, well or not, and the tab handles the answer. That is what axios
  makes of a connection that ends; the code sets no timeout of its own.

`MCShop` has two tabs, one product, carts of up to two units and two checkouts: a repeated one, or
one in each tab.

## Chat client

`ChatClient` is `chatStore` and the page that mounts it: `connect` keeps any socket the store has;
`OnClose` forgets whichever socket that is and sets a `Timer`; `SelectRoom`, `GetMessages`,
`PageArrives` fetch a page, which replaces the list; `OnMessage` appends a live message. The server
is what `ChatHub` shows of itself: it holds a user's latest connection, and the end of an elder one
removes and closes it (`Removes`, the case that `ClosedByElder` allows).

- `ReconnectComes` (in `ClientInv`) - while the page is shown there is a socket or a timer.
- `ImpostorOnlyByTimer`, `StrayOnlyByLateClose` (in `SocketIsOwn`) - the page sends under another's
  name only through a socket that a timer of his made after he had left; a second socket is open
  only if an `onclose` came when the store had it already.
- `RepeatedOnlyByPage` - a message is listed twice only if a page had brought it first, or it was
  sent to two sockets.
- `PageKeepsHeard` - a page drops no message that was shown when it was asked for, but those the
  server failed to store and those beyond its first 50.

`MCChatClient` has two users, two sockets and one timer of each user: a socket that ends late
beside its successor. Two messages and a page of one tell a full page from one that is not.

## Pages

`Screens` is the one machinery of 23 pages - load, spin, show an error, look for something else,
open a dialog, send a command, load again - and a record for each page of what it offers. The
server's part is the status from which each command is accepted. `RemountStore` and `AddToList`
are the rooms of the chat, whose list is in a store. Every page of `PageOf` is an initial state.

- `SpinnerIsAsked`, `ErrorIsCurrent` (in `ScreensInv`) - no spinner waits for nothing, the button
  that adds a user is disabled exactly while one is added; an error outlives a load that succeeded
  only where loads overlapped or on pages that never clear it.
- `ListShowsOwnWork`, `ShownIsLookedFor` (in `ListIsCurrent`) - once nothing is being loaded, the
  list has all that the page's own commands did, and is for what was looked for last, unless an
  older answer came after a newer one (`overtaken`): nothing numbers the loads.
- `RefusedOnlyIfChanged` - the server refuses only a command whose row has left the status that the
  page showed: the pages' tables and the server's agree. (A review is offered again once made.)
- `UnseenChangeOnlyRejects` - of all commands only the rejection of a withdrawal changes a row from
  a status that its user was not shown: it may have been approved meanwhile.

`MCScreens` has one row, two commands, two loads and two things to look for: two of each is what
overtaking takes, and no rule is about two rows.

## Runs

| Run | Shows |
|---|---|
| `ledger` | the ledger's invariants and its refinement of `HashForest` |
| `wallet` | the invariants of balances and withdrawals |
| `orders` | what is paid, who is credited how often, and that paid sellers are |
| `order_life` | why each writer of `orders.status` writes it, and how shipments go on |
| `stock` | the stock's books and what each order holds |
| `chat` | who is in the hub and in a room, and whom a broadcast reaches |
| `chat_live` | nobody waits for the hub for ever |
| `session` | which page each tab shows to whom, and why sessions end |
| `shop` | what is in the cart, how often it is ordered, and that a checkout ends |
| `chat_client` | which socket the client has, and what its list keeps |
| `screens` | what each page shows in the end, and what its commands may do |
| `trace` | in which order a batch's trace tells its history, and what it lacks |

Invariants named `…Inv` are conjunctions: a type invariant with the rules named beside it above.
The type invariants of `Wallet`, `Orders` and `Stock` and the five properties marked "(proved)" are
theorems only: the runs do not check them again. Only the two runs of `Orders` do not check for
deadlock.

Every property of a passing run has a mutant: a plausible defect of a mapped definition, kept
next to it in its module and marked `Defect:`, under which TLC finds the property violated.

## Proofs

TLC checks the instances above; eight modules prove, with TLAPS, for every value of the constants,
what these runs check, liveness apart: `TraceabilityProofs`, for `Ledger` and `Trace`,
`WalletProofs`, `OrdersProofs`, `StockProofs`, `SessionProofs`, `ShopProofs`, `ScreensProofs` and,
for both halves of the chat, `ChatProofs`. (The modules for two components extend both, which is why
the names of the second one's specification begin with `Trace` or `Client`.) Each proof has the same shape: an inductive invariant
that says what a request, a goroutine or an answer under way is still worth, one lemma per action,
a lemma for `Next` that puts them together, and the properties as corollaries. Each inductive
invariant was first checked by TLC. The only assumptions are those on the constants, named in the
modules; TLC evaluates them on every run.

- **Ledger** (`MaxStampsAssumption`; in `TraceabilityProofs`). `LedgerInv` says of a recorder in flight and of a committed
  log the same thing: the previous hash is the newest of the logs it saw, or genesis if it saw
  none. Without the history `seen` the properties cannot be stated, and without "newest" they are
  not inductive: the break between two neighbours is computed from it. From it follow
  `LinksAlwaysPointBack`, `ForksAlwaysOverlap`, `BrokenExactlyByOverlaps` and, as no log
  inserted between two others can mend a link, `BrokenStaysBroken`. `LedgerIsForest` is the refinement
  of `HashForest`: initial states map to initial states, and each step to a `Grow` or a stutter.
- **Trace** (`KindsAssumption`, `OnAssumption`, `BoundsAssumption`; in `TraceabilityProofs`). The
  invariant is `TraceKnown`. A mark is a log of the table or the timestamp a handler holds: no two
  have the same (`MarksApart`), a row has one creation and one mark of it (`MadeOnce`), and a mark of
  anything done with a row, or made of it, has the later timestamp, unless the row is `hasty`
  (`UsedWhenMade`, `MarksInOrder`). That the logs are then shown in this order is a matter of the
  walk: `SetToSeqFacts`, `ConcatFacts`, `FlattenSeqFacts` say what the lists contain,
  `SortedByTimestamp` that the exchange sort returns the same logs, the eldest first - pass by pass,
  place by place - and `ShownFacts`, kind by kind, that the rows walked are the kin of the batch
  that no deletion hides. From `AllRecorded` and these follow `TracesInOrder` and `TracesComplete`.
  Recursion is reasoned about with sets: `SetInduction`, a consequence of the pigeonhole principle,
  says that a set of numbers with 0 and with every successor up to n has all of them, and `Iteration`
  that a function defined step by step exists.
- **Wallet** (`WithdrawalAssumption`, `UserAssumption`, `CreditAssumption`). `WalletInv` says a
  copy about to be saved covers its own debit and, unless the row was saved meanwhile, still
  equals the row (`RowKnown`); that is all `BalanceStaysCovered` and `BooksStayBalanced` need. A
  withdrawal that a request settles was open when it was read, which gives
  `FinalChangesOnlyByRace`. `DebitInv` adds what `DebitedExactlyOnce` needs: a withdrawal whose
  debits and status disagree has a request between its two rows (`Halfway`), and that request has
  debited what it is about to write, or else its copy is outdated or a second one is halfway, too -
  which will mark the withdrawal `broken` when it ends.
- **Orders** (`ShipmentAssumption`, `CreditsAssumption`). `OrdersInv` has a part for each
  question. `Origin`: whatever a webhook carries as accepted was paid (`PaidOnlyIfPaid`).
  `WebhookKnown`: a webhook that credits has credited all but whom it still owes
  (`PaidPaymentHasCredited`). `Once`: while nothing went wrong a single webhook is crediting, and
  when it is done the payment says so to all who read it later (`SellersCreditedOnce`);
  this is the part that makes the argument, for "credited at most once" alone says nothing of a
  webhook that has read the payment and not yet credited. `CancelKnown` and `LegKnown`: a request
  nobody has outdated still sees what it read (`CancelsByOldCopy`, `ShipmentsGoLegByLeg`).
  `OrphanForGood` needs types only. `OrderLives` is the refinement of `OrderLife`, one lemma for
  each kind of step: to begin decides or does nothing, to proceed writes or brings news, an error
  drops what was decided. `CancelledForGood` is proved of `OrderLife` and carried over by it.
- **Stock** (`OrderAssumption`, `LevelAssumption`). `Places` says where a request is in its order
  and what the rows look like then, so that no two requests create the same order; `Copies`, that a
  copy not outdated is the row; `Checks`, that a line checked and not yet taken is covered by the
  stock unless its product was saved since, which gives `OversoldByOldCheck`; `Holdings`, how many
  lines an undisturbed order holds at each place, which gives `OrdersHoldTheirLines`.
  `StockIsItsBooks` follows from `Copies`.

- **Chat hub** (`ConnAssumption`, `RoomAssumption`; in `ChatProofs`). In `CInv`, `RoomsKept` follows
  a creation of a room to the connections: whom it is done with (`Told`) has the room, or has still
  to read it from the database, or has read it and not yet stored it (`Has`). The assignment may
  overwrite exactly what came in between, which is `lost`; hence `LoadedRoomsAreComplete`.
  `InOrder` says that whoever a broadcast has yet to reach is still in the hub and the room,
  because nobody enters or leaves the map while a reader holds its lock; when the reader is done
  nobody is left to reach (`BroadcastsReach`). `HubHoldsLatest` and `ClosedByElderOnly` rest on
  `OnlyLive`: only a connection that has not ended is replaced or closed.
- **Session** (`UserAssumption`, `BoundAssumption`). The lemmas on routes (`RouteOfUser`,
  `RouteOfNobody`, `RouteSettles`) compute where the guards send whom, page by page: any path settles
  after one redirect at most. `TabKnown` says that every tab is at such a fixpoint and that it shows an account
  exactly when it has a token, hence `GuardsAndLinksAgree`, and that a tab on a form shows nobody.
  `OneFormOf` ties a form's requests to its disabled button (`FormsSendOnce`); `MirrorsOf`
  ties the store to `localStorage` while no other tab has overtaken it (`StoreIsStorage`). The two
  action properties, `SessionEnds` and `UserIsReplacedLate`, go through the actions with it.
- **Shop** (`TabAssumption`, `BoundAssumption`). `CheckoutInv` replaces the count in `PlacedOnce` by
  "there is one, and no other" (`OneOpen`), and knows of a checkout (`Known`) that the one whose tab
  was loaded anew has lost its page, that the one about to finish has its payment, and that an
  order which is neither running nor done was told about or left. `CheckoutsPlacedOnce`,
  `StoredCartIsAsked` and `CheckoutOutcomeIsKnown` follow.
- **Chat client** (`SocketAssumption`, `BoundAssumption`; in `ChatProofs`). For the sockets
  (`ChatIsNeverGivenUp`, `StoreSocketIsOwn`) one fact is missing from the properties themselves:
  what the store has while the page is not shown was made by a timer (`LeftBehind`). For the list
  (`ListInv`): the live message on its way is in the list only by the last page, which gives
  `ListRepeatsOnlyByPage`, and a page answered with the first messages has every one that was shown
  when it was asked for and is stored by now (`FetchKnown`), which gives `PagesKeepWhatWasHeard`.
- **Pages** (`RowAssumption`, `KeyAssumption`, `BoundAssumption`). `PagesWellMade` is a fact about
  the tables, proved page by page: what a page offers for a status the server accepts from that
  status (but for a repeated review), and in any later one it refuses it or changes nothing, but for
  the rejection of an approved withdrawal; and every command leads on. "On" is `After`, an order of
  the statuses: a row never comes back to a status it has left. So a row that has left the status it was
  shown with is the only reason for a refusal (`RefusalsAreOutdated`), and what a command still
  finds is known (`UnseenChangesReject`). For `ListShowsTheLatest`, `ListKnown` says that the load
  started last is current - for the key looked for, and with all rows at least as far on as the
  commands known to be done - or will count as overtaken; for a list in a store all loads are.
  `SpinnerAndErrorAreCurrent` rests on `ButtonKnown` and `ErrorKnown`.

`MaxCredits`, `MaxCredited`, `MaxStamps`, `MaxTimes`, `Deletable`, `LeastHeld`, `Levels`, `MaxTokens`, `MaxFlights`,
`MaxAttempts`, `MaxMessages`, `MaxFetches`, `MaxTimers` and `MaxLoads` are bounds for TLC; the theorems
hold for all their values, and for sets of requests, tabs, connections, rooms and rows of any size.
Only the sockets of the chat client are taken to be finitely many, which browsers see to.

Only model-checked: `PaidSellersAreCredited`, `HubServes` and `CheckoutEnds`, for liveness under
fairness is beyond the prover.

## Not modelled

- Amounts that only the API takes: a withdrawal of zero or less is stored and settled, for the
  controller does not run the validator. The models take what the forms allow.
- The serial number in a batch code (the number of batches plus one; a unique index refuses the
  second of two that are created at once), the check for an earlier review and the stored average,
  and the search for an existing private room: three checks before an insertion, whose race is
  over in one step and touches nothing else.
- The rate limiter: a refused request is one that was not sent. Its whole-second refill, which a
  client that asks more than once a second never gets, is listed as a hazard.
- Prices: the cart shows that of the day a product was put in, the server charges that of the order.
- Contents of rows and forms, and whether a row is its user's own: each handler checks that in one
  comparison.
- In the client: texts and languages, animations, the second request of the page of the ledger,
  the two lists in the dialog for a shipment, the list of users in the dialog for a room.
  `authStore.updateUser` and `components/GlobalNav.tsx` are used nowhere; no button pays out an
  approved withdrawal.
- The Java hub, which keeps no locks, and the Flutter client.
- Dashboards and other queries, routes, configuration, migrations: no state of their own.

## Plan

Done: the modules and runs above, the proofs of all their invariants and action properties, and
both refinements. Next would be the stored average of a product's reviews and the Java hub; neither
meets the other modules in more than one row.
