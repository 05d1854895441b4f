----------------------------- MODULE WalletProofs -----------------------------
(***************************************************************************)
(* Theorems about the sellers' balances, for any number of requests,       *)
(* sellers and withdrawals, and any amounts.                               *)
(***************************************************************************)
EXTENDS Wallet, TLAPS

(***************************************************************************)
(* What a request knows.  A copy about to be saved covers the debit, and   *)
(* is the row's balance unless somebody saved the row meanwhile; a         *)
(* withdrawal being settled was open when it was read, and still is unless *)
(* somebody saved it meanwhile; one being inserted does not exist yet.     *)
(***************************************************************************)
Settler(r) == req[r].pc \in {"readUser", "saveWithdrawal"}
              \/ (req[r].pc = "saveUser" /\ req[r].wd # NoWithdrawal)

RowKnown(r) ==
    req[r].pc = "saveUser" =>
        /\ req[r].copy + req[r].delta >= 0
        /\ ~req[r].oldRow => req[r].copy = balance[req[r].user]

WdKnown(r) ==
    /\ Settler(r) => /\ req[r].wd \in Withdrawals
                     /\ status[req[r].wd] # "none"
                     /\ ~req[r].oldWd => status[req[r].wd] \notin Final
    /\ req[r].pc = "insert" => /\ req[r].wd \in Withdrawals
                               /\ status[req[r].wd] = "none"
    /\ req[r].pc = "idle" => req[r].wd = NoWithdrawal

OneInserter ==
    \A r, q \in Requests : req[r].pc = "insert" /\ req[q].wd = req[r].wd => q = r

WalletInv ==
    /\ TypeOK
    /\ BalanceNeverNegative
    /\ BooksBalance
    /\ \A r \in Requests : RowKnown(r) /\ WdKnown(r)
    /\ OneInserter

USE WithdrawalAssumption, UserAssumption, CreditAssumption

\* The idle record is a record of a request.
LEMMA IdleRequest == Idle \in Request /\ Idle.pc = "idle" /\ Idle.wd = NoWithdrawal
BY DEF Idle, Request, Targets, Final

\* Nobody owns anything and nobody has asked for anything.
LEMMA InitInv == Init => WalletInv
<1> SUFFICES ASSUME Init PROVE WalletInv
  OBVIOUS
<1>1. TypeOK
  BY IdleRequest DEF Init, TypeOK
<1>2. BalanceNeverNegative /\ BooksBalance
  BY DEF Init, BalanceNeverNegative, BooksBalance
<1>3. \A r \in Requests : RowKnown(r) /\ WdKnown(r)
  BY IdleRequest DEF Init, RowKnown, WdKnown, Settler
<1>4. OneInserter
  BY IdleRequest DEF Init, OneInserter
<1>5. QED BY <1>1, <1>2, <1>3, <1>4 DEF WalletInv

\* A step that touches no row and only gives r a new, well-informed local
\* state preserves the invariant: all the reading steps are of this kind.
LEMMA LocalStep ==
    ASSUME WalletInv, NEW r \in Requests, NEW new \in Request,
           req' = [req EXCEPT ![r] = new], UNCHANGED rows,
           UNCHANGED <<credited, withdrawn, debits, raced>>,
           broken' \subseteq Withdrawals,
           RowKnown(r)', WdKnown(r)',
           \/ new.wd = NoWithdrawal
           \/ new.wd = req[r].wd /\ new.pc # "insert" /\ req[r].pc # "insert"
           \/ \A q \in Requests : req[q].wd # new.wd
           \/ new.pc # "insert" /\ status[new.wd] # "none"
    PROVE  WalletInv'
<1>1. req \in [Requests -> Request] /\ req' \in [Requests -> Request]
  BY DEF WalletInv, TypeOK
<1>2. \A q \in Requests : req'[q] = IF q = r THEN new ELSE req[q]
  BY <1>1
<1>3. TypeOK'
  BY <1>1 DEF WalletInv, TypeOK, rows
<1>4. BalanceNeverNegative' /\ BooksBalance'
  BY DEF WalletInv, BalanceNeverNegative, BooksBalance, rows
<1>5. \A q \in Requests : RowKnown(q)' /\ WdKnown(q)'
  <2> SUFFICES ASSUME NEW q \in Requests, q # r PROVE RowKnown(q)' /\ WdKnown(q)'
    OBVIOUS
  <2>1. req'[q] = req[q] /\ RowKnown(q) /\ WdKnown(q)
    BY <1>2 DEF WalletInv
  <2>2. QED BY <2>1 DEF RowKnown, WdKnown, Settler, rows
<1>6. OneInserter'
  BY <1>2 DEF WalletInv, OneInserter, WdKnown, rows
<1>7. QED BY <1>3, <1>4, <1>5, <1>6 DEF WalletInv

\* Reading a users row: the copy is the balance, and what it adds is not a debit.
LEMMA ReadRowStep ==
    ASSUME WalletInv, NEW r \in Requests, NEW u \in Users, NEW d \in Nat,
           ReadRow(r, u, d)
    PROVE  WalletInv'
<1> DEFINE new == [Idle EXCEPT !.pc = "saveUser", !.user = u, !.delta = d,
                               !.copy = balance[u]]
<1>1. balance[u] \in Int /\ balance[u] >= 0 /\ d \in Int
  BY DEF WalletInv, TypeOK, BalanceNeverNegative
<1>2. new \in Request
  BY <1>1, IdleRequest DEF Request
<1>3. /\ new.pc = "saveUser" /\ new.user = u /\ new.delta = d
      /\ new.copy = balance[u] /\ new.wd = NoWithdrawal
  BY DEF Idle
<1>4. req' = [req EXCEPT ![r] = new] /\ UNCHANGED <<rows, history>>
  BY DEF ReadRow
<1>5. req'[r] = new
  BY <1>4 DEF WalletInv, TypeOK
<1> HIDE DEF new
<1>6. RowKnown(r)' /\ WdKnown(r)'
  BY <1>1, <1>3, <1>4, <1>5 DEF RowKnown, WdKnown, Settler, rows
<1>7. broken' \subseteq Withdrawals
  BY <1>4 DEF history, WalletInv, TypeOK
<1>8. QED BY <1>2, <1>3, <1>4, <1>6, <1>7, LocalStep DEF history

\* The check of CreateWithdrawal preserves the invariant.
LEMMA CheckBalanceStep ==
    ASSUME WalletInv, NEW r \in Requests, NEW w \in Withdrawals, CheckBalance(r, w)
    PROVE  WalletInv'
<1> DEFINE new == [Idle EXCEPT !.pc = "insert", !.wd = w, !.user = Owner[w]]
<1>1. new \in Request
  BY IdleRequest DEF Request
<1>2. new.pc = "insert" /\ new.wd = w
  BY DEF Idle
<1>3. /\ req' = [req EXCEPT ![r] = new] /\ UNCHANGED <<rows, history>>
      /\ status[w] = "none" /\ \A q \in Requests : req[q].wd # w
  BY DEF CheckBalance
<1>4. req'[r] = new
  BY <1>3 DEF WalletInv, TypeOK
<1>5. RowKnown(r)' /\ WdKnown(r)'
  BY <1>2, <1>3, <1>4 DEF RowKnown, WdKnown, Settler, rows
<1>6. broken' \subseteq Withdrawals
  BY <1>3 DEF history, WalletInv, TypeOK
<1> HIDE DEF new
<1>7. QED BY <1>1, <1>2, <1>3, <1>5, <1>6, LocalStep DEF history

\* Reading the withdrawal in UpdateWithdrawal preserves the invariant.
LEMMA ReadWithdrawalStep ==
    ASSUME WalletInv, NEW r \in Requests, NEW w \in Withdrawals, NEW t \in Targets,
           ReadWithdrawal(r, w, t)
    PROVE  WalletInv'
<1> DEFINE d == BalanceChange(w, t)
           p == IF d = 0 THEN "saveWithdrawal" ELSE "readUser"
           new == [Idle EXCEPT !.pc = p, !.wd = w, !.user = Owner[w],
                               !.target = t, !.delta = d]
<1>1. d \in Int
  BY DEF BalanceChange
<1>2. new \in Request
  BY <1>1, IdleRequest DEF Request
<1>3. new.pc \in {"readUser", "saveWithdrawal"} /\ new.wd = w
  BY DEF Idle
<1>4. /\ req' = [req EXCEPT ![r] = new] /\ UNCHANGED <<rows, history>>
      /\ status[w] \in {"pending", "approved"}
  BY DEF ReadWithdrawal
<1>5. req'[r] = new
  BY <1>4 DEF WalletInv, TypeOK
<1>6. RowKnown(r)' /\ WdKnown(r)'
  BY <1>3, <1>4, <1>5 DEF RowKnown, WdKnown, Settler, rows, Final
<1>7. broken' \subseteq Withdrawals
  BY <1>4 DEF history, WalletInv, TypeOK
<1> HIDE DEF new
<1>8. QED BY <1>2, <1>3, <1>4, <1>6, <1>7, LocalStep DEF history

\* A debit goes on only if the copy just taken covers it.
LEMMA ReadUserStep ==
    ASSUME WalletInv, NEW r \in Requests, ReadUser(r)
    PROVE  WalletInv'
<1> DEFINE b == balance[req[r].user]
           new == [req[r] EXCEPT !.pc = "saveUser", !.copy = b]
<1>1. req[r] \in Request /\ b \in Int
  BY DEF WalletInv, TypeOK, Request
<1>2. new \in Request
  BY <1>1 DEF Request
<1>3. /\ new.pc = "saveUser" /\ new.copy = b /\ new.wd = req[r].wd
      /\ new.user = req[r].user /\ new.delta = req[r].delta
      /\ new.oldWd = req[r].oldWd
  BY <1>1 DEF Request
<1>4. /\ req' = [req EXCEPT ![r] = new] /\ UNCHANGED <<rows, history>>
      /\ req[r].pc = "readUser" /\ b + req[r].delta >= 0
  BY DEF ReadUser
<1>5. req'[r] = new
  BY <1>4 DEF WalletInv, TypeOK
<1>6. RowKnown(r)' /\ WdKnown(r)'
  BY <1>3, <1>4, <1>5 DEF WalletInv, RowKnown, WdKnown, Settler, rows
<1>7. broken' \subseteq Withdrawals
  BY <1>4 DEF history, WalletInv, TypeOK
<1> HIDE DEF new
<1>8. QED BY <1>2, <1>3, <1>4, <1>6, <1>7, LocalStep DEF history

\* Giving up, by an error or a crash, touches no row.
LEMMA ForgetStep ==
    ASSUME WalletInv, NEW r \in Requests, InsufficientBalance(r) \/ Crash(r)
    PROVE  WalletInv'
<1>1. /\ req' = [req EXCEPT ![r] = Idle] /\ UNCHANGED rows
      /\ UNCHANGED <<credited, withdrawn, debits, raced>>
      /\ broken' \subseteq broken \cup {req[r].wd}
      /\ broken' # broken => req[r].pc = "saveWithdrawal"
  BY DEF InsufficientBalance, Crash, history
<1>2. req'[r] = Idle
  BY <1>1 DEF WalletInv, TypeOK
<1>3. RowKnown(r)' /\ WdKnown(r)'
  BY <1>2, IdleRequest DEF RowKnown, WdKnown, Settler
<1>4. broken' \subseteq Withdrawals
  BY <1>1 DEF WalletInv, TypeOK, WdKnown, Settler
<1>5. QED BY <1>1, <1>3, <1>4, IdleRequest, LocalStep

\* What AfterUser leaves r with, whether the users row was saved or not.
LEMMA AfterUserFacts ==
    ASSUME WalletInv, NEW r \in Requests, req[r].pc = "saveUser"
    PROVE  /\ AfterUser(r) \in Request
           /\ AfterUser(r).pc \in {"idle", "saveWithdrawal"}
           /\ AfterUser(r).pc = "idle" <=> req[r].wd = NoWithdrawal
           /\ AfterUser(r).wd = req[r].wd
           /\ AfterUser(r).pc # "idle" => AfterUser(r).oldWd = req[r].oldWd
<1>1. req[r] \in Request
  BY DEF WalletInv, TypeOK
<1>2. QED BY <1>1, IdleRequest DEF AfterUser, Request

\* A lost save of the user's row preserves the invariant.
LEMMA SaveUserFailsStep ==
    ASSUME WalletInv, NEW r \in Requests, SaveUserFails(r)
    PROVE  WalletInv'
<1>1. /\ req' = [req EXCEPT ![r] = AfterUser(r)] /\ UNCHANGED rows
      /\ UNCHANGED <<credited, withdrawn, debits, raced>>
      /\ broken' = broken \cup ({req[r].wd} \ {NoWithdrawal})
      /\ req[r].pc = "saveUser"
  BY DEF SaveUserFails
<1>2. req'[r] = AfterUser(r) /\ req[r].wd \in Withdrawals \cup {NoWithdrawal}
  BY <1>1 DEF WalletInv, TypeOK, Request
<1>3. RowKnown(r)' /\ WdKnown(r)'
  BY <1>1, <1>2, AfterUserFacts DEF WalletInv, RowKnown, WdKnown, Settler, rows
<1>4. broken' \subseteq Withdrawals
  BY <1>1, <1>2 DEF WalletInv, TypeOK
<1>5. QED BY <1>1, <1>3, <1>4, AfterUserFacts, LocalStep

\* A withdrawal comes into being; nobody else was settling or inserting it.
LEMMA InsertStep ==
    ASSUME WalletInv, NEW r \in Requests, InsertWithdrawal(r)
    PROVE  WalletInv'
<1> DEFINE w == req[r].wd
<1>1. /\ req' = [req EXCEPT ![r] = Idle] /\ UNCHANGED <<balance, history>>
      /\ status' = [status EXCEPT ![w] = "pending"]
      /\ req[r].pc = "insert" /\ w \in Withdrawals
  BY DEF InsertWithdrawal, WalletInv, WdKnown
<1>2. \A q \in Requests : req'[q] = IF q = r THEN Idle ELSE req[q]
  BY <1>1 DEF WalletInv, TypeOK
<1>3. \A q \in Requests : q # r => req[q].wd # w
  BY <1>1 DEF WalletInv, OneInserter
<1>4. \A v \in Withdrawals : status'[v] = IF v = w THEN "pending" ELSE status[v]
  BY <1>1 DEF WalletInv, TypeOK
<1>5. TypeOK'
  BY <1>1, IdleRequest DEF WalletInv, TypeOK, history
<1>6. BalanceNeverNegative' /\ BooksBalance'
  BY <1>1 DEF WalletInv, BalanceNeverNegative, BooksBalance, history
<1>7. \A q \in Requests : RowKnown(q)' /\ WdKnown(q)'
  <2>1. RowKnown(r)' /\ WdKnown(r)'
    BY <1>2, IdleRequest DEF RowKnown, WdKnown, Settler
  <2>2. ASSUME NEW q \in Requests, q # r PROVE RowKnown(q)' /\ WdKnown(q)'
    <3>1. req'[q] = req[q] /\ req[q].wd # w /\ RowKnown(q) /\ WdKnown(q)
      BY <1>2, <1>3, <2>2 DEF WalletInv
    <3>2. RowKnown(q)'
      BY <1>1, <3>1 DEF RowKnown
    <3>3. WdKnown(q)'
      BY <1>4, <3>1 DEF WdKnown, Settler
    <3>4. QED BY <3>2, <3>3
  <2>3. QED BY <2>1, <2>2
<1>8. OneInserter'
  BY <1>2, IdleRequest, WithdrawalAssumption DEF WalletInv, OneInserter, WdKnown
<1>9. QED BY <1>5, <1>6, <1>7, <1>8 DEF WalletInv

\* The row takes the value of r's copy, and every other copy is outdated.
LEMMA SaveUserStep ==
    ASSUME WalletInv, NEW r \in Requests, SaveUser(r)
    PROVE  WalletInv'
<1> DEFINE u == req[r].user
           w == req[r].wd
           d == req[r].delta
           c == req[r].copy
<1>1. /\ req[r].pc = "saveUser" /\ status' = status /\ broken' = broken
      /\ balance' = [balance EXCEPT ![u] = c + d]
      /\ req' = [q \in Requests |-> IF q = r THEN AfterUser(r) ELSE Outdate(q, u)]
      /\ raced' = IF req[r].oldRow THEN raced \cup {u} ELSE raced
  BY DEF SaveUser
<1>2. /\ u \in Users /\ d \in Int /\ c \in Int
      /\ w \in Withdrawals \cup {NoWithdrawal}
      /\ \A q \in Requests : req[q] \in Request
  BY DEF WalletInv, TypeOK, Request
<1>3. \A q \in Requests : q # r =>
        /\ req'[q] \in Request
        /\ req'[q].pc = req[q].pc /\ req'[q].wd = req[q].wd
        /\ req'[q].user = req[q].user /\ req'[q].oldWd = req[q].oldWd
        /\ req'[q].copy = req[q].copy /\ req'[q].delta = req[q].delta
        /\ req'[q].pc = "saveUser" /\ ~req'[q].oldRow =>
              ~req[q].oldRow /\ req[q].user # u
  <2> SUFFICES ASSUME NEW q \in Requests, q # r
               PROVE  /\ req'[q] \in Request
                      /\ req'[q].pc = req[q].pc /\ req'[q].wd = req[q].wd
                      /\ req'[q].user = req[q].user /\ req'[q].oldWd = req[q].oldWd
                      /\ req'[q].copy = req[q].copy /\ req'[q].delta = req[q].delta
                      /\ req'[q].pc = "saveUser" /\ ~req'[q].oldRow =>
                            ~req[q].oldRow /\ req[q].user # u
    OBVIOUS
  <2>1. req[q] \in Request
    BY <1>2
  <2>2. CASE req[q].pc = "saveUser" /\ req[q].user = u
    <3>1. req'[q] = [req[q] EXCEPT !.oldRow = TRUE]
      BY <1>1, <2>2 DEF Outdate
    <3>2. QED BY <2>1, <2>2, <3>1 DEF Request
  <2>3. CASE ~(req[q].pc = "saveUser" /\ req[q].user = u)
    <3>1. req'[q] = req[q]
      BY <1>1, <2>3 DEF Outdate
    <3>2. QED BY <2>1, <2>3, <3>1
  <2>4. QED BY <2>2, <2>3
<1>4. req'[r] = AfterUser(r)
  BY <1>1
<1>5. /\ credited' \in [Users -> Int] /\ withdrawn' \in [Users -> Int]
      /\ debits' \in [Withdrawals -> Int]
      /\ credited'[u] - withdrawn'[u] = credited[u] - withdrawn[u] + d
      /\ \A v \in Users \ {u} : /\ credited'[v] = credited[v]
                                /\ withdrawn'[v] = withdrawn[v]
  <2>1. /\ credited \in [Users -> Int] /\ withdrawn \in [Users -> Int]
        /\ debits \in [Withdrawals -> Int]
    BY DEF WalletInv, TypeOK
  <2>2. CASE w = NoWithdrawal
    BY <1>2, <2>1, <2>2 DEF SaveUser
  <2>3. CASE w # NoWithdrawal
    BY <1>2, <2>1, <2>3 DEF SaveUser
  <2>4. QED BY <2>2, <2>3
<1>6. TypeOK'
  <2>1. \A q \in Requests : req'[q] \in Request
    BY <1>1, <1>3, <1>4, AfterUserFacts
  <2>2. req' \in [Requests -> Request]
    BY <1>1, <2>1
  <2>3. balance' \in [Users -> Int] /\ raced' \subseteq Users
    BY <1>1, <1>2 DEF WalletInv, TypeOK
  <2>4. QED BY <1>1, <1>5, <2>2, <2>3 DEF WalletInv, TypeOK
<1>7. BalanceNeverNegative'
  BY <1>1, <1>2 DEF WalletInv, TypeOK, BalanceNeverNegative, RowKnown
<1>8. BooksBalance'
  <2> SUFFICES ASSUME NEW v \in Users \ raced'
               PROVE  balance'[v] = credited'[v] - withdrawn'[v]
    BY DEF BooksBalance
  <2>1. v \notin raced /\ balance[v] = credited[v] - withdrawn[v]
    BY <1>1 DEF WalletInv, BooksBalance
  <2>2. CASE v # u
    BY <1>1, <1>5, <2>1, <2>2 DEF WalletInv, TypeOK
  <2>3. CASE v = u
    <3>1. c = balance[u]
      BY <1>1, <2>3 DEF WalletInv, RowKnown
    <3>2. balance'[u] = balance[u] + d
      BY <1>1, <1>2, <3>1 DEF WalletInv, TypeOK
    <3>3. credited[u] \in Int /\ withdrawn[u] \in Int
      BY <1>2 DEF WalletInv, TypeOK
    <3>4. QED BY <1>2, <1>5, <2>1, <2>3, <3>2, <3>3
  <2>4. QED BY <2>2, <2>3
<1>9. \A q \in Requests : RowKnown(q)' /\ WdKnown(q)'
  <2>1. RowKnown(r)' /\ WdKnown(r)'
    BY <1>1, <1>2, <1>4, AfterUserFacts
       DEF WalletInv, RowKnown, WdKnown, Settler
  <2>2. ASSUME NEW q \in Requests, q # r PROVE RowKnown(q)' /\ WdKnown(q)'
    <3>1. RowKnown(q) /\ WdKnown(q)
      BY DEF WalletInv
    <3>2. RowKnown(q)'
      BY <1>1, <1>2, <1>3, <2>2, <3>1 DEF RowKnown, WalletInv, TypeOK
    <3>3. WdKnown(q)'
      BY <1>1, <1>3, <2>2, <3>1 DEF WdKnown, Settler
    <3>4. QED BY <3>2, <3>3
  <2>3. QED BY <2>1, <2>2
<1>10. OneInserter'
  <2>1. req'[r].pc # "insert" /\ req'[r].wd = w
    BY <1>1, <1>4, AfterUserFacts
  <2>2. \A q \in Requests : req'[q].wd = req[q].wd
    BY <1>3, <2>1
  <2>3. \A q \in Requests : req'[q].pc = "insert" => req[q].pc = "insert"
    BY <1>3, <2>1
  <2>4. QED BY <2>2, <2>3 DEF WalletInv, OneInserter
<1>11. QED BY <1>6, <1>7, <1>8, <1>9, <1>10 DEF WalletInv

\* The withdrawal takes its new status, and every other copy of it is outdated.
LEMMA SaveWithdrawalStep ==
    ASSUME WalletInv, NEW r \in Requests, SaveWithdrawal(r)
    PROVE  WalletInv'
<1> DEFINE w == req[r].wd
           t == req[r].target
<1>1. /\ req[r].pc = "saveWithdrawal" /\ w \in Withdrawals
      /\ status' = [status EXCEPT ![w] = t]
      /\ req' = [q \in Requests |->
                   IF q = r THEN Idle
                   ELSE IF req[q].wd = w THEN [req[q] EXCEPT !.oldWd = TRUE]
                   ELSE req[q]]
      /\ broken' \subseteq broken \cup {w}
      /\ UNCHANGED <<balance, credited, withdrawn, debits, raced>>
  BY DEF SaveWithdrawal, WalletInv, WdKnown, Settler
<1>2. t \in Targets /\ \A q \in Requests : req[q] \in Request
  BY DEF WalletInv, TypeOK, Request
<1>3. \A q \in Requests : q # r =>
        /\ req'[q] \in Request
        /\ req'[q].pc = req[q].pc /\ req'[q].wd = req[q].wd
        /\ req'[q].user = req[q].user /\ req'[q].oldRow = req[q].oldRow
        /\ req'[q].copy = req[q].copy /\ req'[q].delta = req[q].delta
        /\ ~req'[q].oldWd => ~req[q].oldWd /\ req[q].wd # w
  <2> SUFFICES ASSUME NEW q \in Requests, q # r
               PROVE  /\ req'[q] \in Request
                      /\ req'[q].pc = req[q].pc /\ req'[q].wd = req[q].wd
                      /\ req'[q].user = req[q].user /\ req'[q].oldRow = req[q].oldRow
                      /\ req'[q].copy = req[q].copy /\ req'[q].delta = req[q].delta
                      /\ ~req'[q].oldWd => ~req[q].oldWd /\ req[q].wd # w
    OBVIOUS
  <2>1. req[q] \in Request
    BY <1>2
  <2>2. CASE req[q].wd = w
    <3>1. req'[q] = [req[q] EXCEPT !.oldWd = TRUE]
      BY <1>1, <2>2
    <3>2. QED BY <2>1, <2>2, <3>1 DEF Request
  <2>3. CASE req[q].wd # w
    <3>1. req'[q] = req[q]
      BY <1>1, <2>3
    <3>2. QED BY <2>1, <2>3, <3>1
  <2>4. QED BY <2>2, <2>3
<1>4. req'[r] = Idle
  BY <1>1
<1>5. \A v \in Withdrawals : status'[v] = IF v = w THEN t ELSE status[v]
  BY <1>1 DEF WalletInv, TypeOK
<1>6. TypeOK'
  <2>1. req' \in [Requests -> Request]
    BY <1>1, <1>3, <1>4, IdleRequest
  <2>2. status' \in [Withdrawals -> {"none", "pending"} \cup Targets]
    BY <1>1, <1>2 DEF WalletInv, TypeOK
  <2>3. QED BY <1>1, <2>1, <2>2 DEF WalletInv, TypeOK
<1>7. BalanceNeverNegative' /\ BooksBalance'
  BY <1>1 DEF WalletInv, BalanceNeverNegative, BooksBalance
<1>8. \A q \in Requests : RowKnown(q)' /\ WdKnown(q)'
  <2>1. RowKnown(r)' /\ WdKnown(r)'
    BY <1>4, IdleRequest DEF RowKnown, WdKnown, Settler
  <2>2. ASSUME NEW q \in Requests, q # r PROVE RowKnown(q)' /\ WdKnown(q)'
    <3>1. RowKnown(q) /\ WdKnown(q)
      BY DEF WalletInv
    <3>2. RowKnown(q)'
      BY <1>1, <1>3, <2>2, <3>1 DEF RowKnown
    <3>3. req[q].pc = "insert" => req[q].wd # w
      BY <1>1, <2>2 DEF WalletInv, OneInserter
    <3>4. t # "none"
      BY <1>2 DEF Targets, Final
    <3>5. WdKnown(q)'
      BY <1>3, <1>5, <2>2, <3>1, <3>3, <3>4 DEF WdKnown, Settler
    <3>6. QED BY <3>2, <3>5
  <2>3. QED BY <2>1, <2>2
<1>9. OneInserter'
  BY <1>3, <1>4, IdleRequest DEF WalletInv, OneInserter, WdKnown
<1>10. QED BY <1>6, <1>7, <1>8, <1>9 DEF WalletInv

\* WalletInv is inductive: one case per action.
LEMMA StepInv == WalletInv /\ [Next]_vars => WalletInv'
<1> SUFFICES ASSUME WalletInv, [Next]_vars PROVE WalletInv'
  OBVIOUS
<1>1. ASSUME NEW r \in Requests, NEW u \in Users, CreditSeller(r, u)
      PROVE  WalletInv'
  BY <1>1, ReadRowStep DEF CreditSeller
<1>2. ASSUME NEW r \in Requests, NEW u \in Users,
             UpdateProfile(r, u) \/ VerifyUser(r, u) \/ UpdateUserStatus(r, u)
      PROVE  WalletInv'
  BY <1>2, ReadRowStep DEF UpdateProfile, VerifyUser, UpdateUserStatus
<1>3. CASE UNCHANGED vars
  BY <1>3 DEF vars, rows, history, WalletInv, TypeOK, BalanceNeverNegative,
              BooksBalance, RowKnown, WdKnown, Settler, OneInserter
<1>4. QED
  BY <1>1, <1>2, <1>3, CheckBalanceStep, ReadWithdrawalStep, ReadUserStep,
     ForgetStep, SaveUserFailsStep, InsertStep, SaveUserStep, SaveWithdrawalStep
     DEF Next, Step

\* Every reachable state satisfies the inductive invariant.
THEOREM WalletInvariant == Spec => []WalletInv
BY InitInv, StepInv, PTL DEF Spec

\* The variables keep their types.
THEOREM WalletTypes == Spec => []TypeOK
BY WalletInvariant, PTL DEF WalletInv

\* A seller's balance is never negative, whatever requests overlap or fail.
THEOREM BalanceStaysCovered == Spec => []BalanceNeverNegative
BY WalletInvariant, PTL DEF WalletInv

\* Money appears or vanishes only through a save of an outdated users row.
THEOREM BooksStayBalanced == Spec => []BooksBalance
BY WalletInvariant, PTL DEF WalletInv

\* Only a request whose copy predates the final status can change it.
THEOREM FinalChangesOnlyByRace == Spec => FinalChangedOnlyByOldCopy
<1> DEFINE A == \A w \in Withdrawals :
                   status[w] \in Final /\ status'[w] # status[w] =>
                      \E r \in Requests : req[r].wd = w /\ req[r].oldWd
<1>1. WalletInv /\ [Next]_vars => [A]_vars
  <2> SUFFICES ASSUME WalletInv, [Next]_vars, NEW w \in Withdrawals,
                      status[w] \in Final, status'[w] # status[w]
               PROVE  \E r \in Requests : req[r].wd = w /\ req[r].oldWd
    OBVIOUS
  <2>1. ASSUME NEW r \in Requests, InsertWithdrawal(r) PROVE FALSE
    BY <2>1 DEF InsertWithdrawal, WalletInv, TypeOK, WdKnown, Final
  <2>2. ASSUME NEW r \in Requests, SaveWithdrawal(r)
        PROVE  req[r].wd = w /\ req[r].oldWd
    <3>1. req[r].wd = w /\ Settler(r)
      BY <2>2 DEF SaveWithdrawal, WalletInv, TypeOK, Settler
    <3>2. req[r].oldWd \in BOOLEAN
      BY DEF WalletInv, TypeOK, Request
    <3>3. QED BY <3>1, <3>2 DEF WalletInv, WdKnown
  <2>3. ASSUME NEW r \in Requests, Step(r)
        PROVE  InsertWithdrawal(r) \/ SaveWithdrawal(r)
    BY <2>3 DEF Step, CreditSeller, UpdateProfile, VerifyUser, UpdateUserStatus,
                ReadRow, CheckBalance, ReadWithdrawal, ReadUser,
                InsufficientBalance, SaveUser, SaveUserFails, Crash, rows
  <2>4. QED BY <2>1, <2>2, <2>3 DEF Next, vars, rows
<1>2. QED BY <1>1, WalletInvariant, PTL DEF Spec, FinalChangedOnlyByOldCopy

-----------------------------------------------------------------------------
(***************************************************************************)
(* DebitedOnce.  A request that has changed the balance for a withdrawal   *)
(* and not yet saved the withdrawal is halfway.  While one is, the         *)
(* withdrawal has been debited as that request's target demands; once a    *)
(* second one is, or the one holds an outdated copy, the withdrawal will   *)
(* be broken before it is settled.  (No sum over the requests is needed:   *)
(* what the debits amount to matters only while there is a single one.)    *)
(***************************************************************************)
Due(s) == IF s \in {"approved", "paid"} THEN 1 ELSE 0

Halfway(r, w) == req[r].wd = w /\ req[r].pc = "saveWithdrawal" /\ req[r].delta # 0

DeltaKnown(r) ==
    Settler(r) =>
        /\ req[r].pc # "saveWithdrawal" => req[r].delta # 0
        /\ ~req[r].oldWd => req[r].delta = BalanceChange(req[r].wd, req[r].target)

DebitKnown(w) ==
    \/ debits[w] = Due(status[w]) /\ \A r \in Requests : ~Halfway(r, w)
    \/ \E r \in Requests :
          /\ Halfway(r, w)
          /\ \/ req[r].oldWd
             \/ \E q \in Requests \ {r} : Halfway(q, w)
             \/ debits[w] = Due(req[r].target)

DebitInv ==
    /\ \A r \in Requests : DeltaKnown(r)
    /\ \A w \in Withdrawals \ broken : DebitKnown(w)

\* A step that leaves r on the same side of the balance's change, for every
\* withdrawal still to be judged, and touches no row, preserves DebitInv.
LEMMA QuietDebitStep ==
    ASSUME WalletInv, DebitInv, NEW r \in Requests, NEW new,
           req' = [req EXCEPT ![r] = new], UNCHANGED <<status, debits>>,
           broken \subseteq broken', DeltaKnown(r)',
           \A w \in Withdrawals \ broken' : ~Halfway(r, w) /\ ~Halfway(r, w)'
    PROVE  DebitInv'
<1>1. \A q \in Requests : q # r => req'[q] = req[q]
  BY DEF WalletInv, TypeOK
<1>2. ASSUME NEW q \in Requests PROVE DeltaKnown(q)'
  <2>1. CASE q = r
    BY <2>1
  <2>2. CASE q # r
    BY <1>1, <2>2 DEF DebitInv, DeltaKnown, Settler, BalanceChange
  <2>3. QED BY <2>1, <2>2
<1>3. ASSUME NEW w \in Withdrawals \ broken' PROVE DebitKnown(w)'
  <2>1. DebitKnown(w) /\ ~Halfway(r, w) /\ ~Halfway(r, w)'
    BY DEF DebitInv
  <2>2. \A q \in Requests : Halfway(q, w)' <=> Halfway(q, w)
    BY <1>1, <2>1 DEF Halfway
  <2>3. \A q \in Requests : Halfway(q, w) => req'[q] = req[q]
    BY <1>1, <2>1
  <2>4. QED BY <2>1, <2>2, <2>3 DEF DebitKnown
<1>4. QED BY <1>2, <1>3 DEF DebitInv

\* Reading a users row or inserting is no settling: nothing to know.
LEMMA UnsettledDebitStep ==
    ASSUME WalletInv, DebitInv, NEW r \in Requests,
           \/ \E u \in Users, d \in Nat : ReadRow(r, u, d)
           \/ \E w \in Withdrawals : CheckBalance(r, w)
           \/ InsufficientBalance(r)
           \/ Crash(r)
    PROVE  DebitInv'
<1>1. UNCHANGED <<status, debits>> /\ broken \subseteq broken'
  BY DEF ReadRow, CheckBalance, InsufficientBalance, Crash, rows, history
<1>2. \A w \in Withdrawals \ broken' : ~Halfway(r, w)
  BY DEF ReadRow, CheckBalance, InsufficientBalance, Crash, Halfway
<1>3. ASSUME NEW new, req' = [req EXCEPT ![r] = new],
             new.pc \notin {"readUser", "saveWithdrawal"},
             new.pc = "saveUser" => new.wd = NoWithdrawal
      PROVE  DebitInv'
  <2>1. req'[r] = new
    BY <1>3 DEF WalletInv, TypeOK
  <2>2. DeltaKnown(r)' /\ \A w \in Withdrawals : ~Halfway(r, w)'
    BY <1>3, <2>1 DEF DeltaKnown, Settler, Halfway
  <2>3. QED BY <1>1, <1>2, <1>3, <2>2, QuietDebitStep
<1>4. ASSUME NEW u \in Users, NEW d \in Nat, ReadRow(r, u, d) PROVE DebitInv'
  <2> DEFINE new == [Idle EXCEPT !.pc = "saveUser", !.user = u, !.delta = d,
                                 !.copy = balance[u]]
  <2>1. req' = [req EXCEPT ![r] = new]
    BY <1>4 DEF ReadRow
  <2>2. new.pc = "saveUser" /\ new.wd = NoWithdrawal
    BY DEF Idle
  <2> HIDE DEF new
  <2>3. QED BY <1>3, <2>1, <2>2
<1>5. ASSUME NEW w \in Withdrawals, CheckBalance(r, w) PROVE DebitInv'
  <2> DEFINE new == [Idle EXCEPT !.pc = "insert", !.wd = w, !.user = Owner[w]]
  <2>1. req' = [req EXCEPT ![r] = new]
    BY <1>5 DEF CheckBalance
  <2>2. new.pc = "insert"
    BY DEF Idle
  <2> HIDE DEF new
  <2>3. QED BY <1>3, <2>1, <2>2
<1>6. ASSUME InsufficientBalance(r) \/ Crash(r) PROVE DebitInv'
  <2>1. req' = [req EXCEPT ![r] = Idle]
    BY <1>6 DEF InsufficientBalance, Crash
  <2>2. QED BY <1>3, <2>1, IdleRequest
<1>7. QED BY <1>4, <1>5, <1>6

\* The settler learns what the status it read asks for.
LEMMA ReadWithdrawalDebitStep ==
    ASSUME WalletInv, DebitInv, NEW r \in Requests, NEW w \in Withdrawals,
           NEW t \in Targets, ReadWithdrawal(r, w, t)
    PROVE  DebitInv'
<1> DEFINE d == BalanceChange(w, t)
           p == IF d = 0 THEN "saveWithdrawal" ELSE "readUser"
           new == [Idle EXCEPT !.pc = p, !.wd = w, !.user = Owner[w],
                               !.target = t, !.delta = d]
<1>1. /\ req' = [req EXCEPT ![r] = new] /\ UNCHANGED <<rows, history>>
      /\ req[r].pc = "idle"
  BY DEF ReadWithdrawal
<1>2. req'[r] = new
  BY <1>1 DEF WalletInv, TypeOK
<1>3. /\ new.pc = p /\ new.wd = w /\ new.target = t /\ new.delta = d
  BY DEF Idle
<1> HIDE DEF new
<1>4. BalanceChange(w, t)' = d
  BY <1>1 DEF BalanceChange, rows
<1> HIDE DEF d
<1>5. DeltaKnown(r)'
  <2>1. req'[r].delta = d /\ req'[r].wd = w /\ req'[r].target = t /\ req'[r].pc = p
    BY <1>2, <1>3
  <2>2. BalanceChange(req[r].wd, req[r].target)' = d
    BY <1>4, <2>1 DEF BalanceChange
  <2>3. QED BY <2>1, <2>2 DEF DeltaKnown
<1>6. \A v \in Withdrawals : ~Halfway(r, v) /\ ~Halfway(r, v)'
  BY <1>1, <1>2, <1>3 DEF Halfway
<1>7. QED BY <1>1, <1>5, <1>6, QuietDebitStep DEF rows, history

\* Reading the users row changes neither the delta nor what it is for.
LEMMA ReadUserDebitStep ==
    ASSUME WalletInv, DebitInv, NEW r \in Requests, ReadUser(r)
    PROVE  DebitInv'
<1> DEFINE new == [req[r] EXCEPT !.pc = "saveUser", !.copy = balance[req[r].user]]
<1>1. /\ req' = [req EXCEPT ![r] = new] /\ UNCHANGED <<rows, history>>
      /\ req[r].pc = "readUser" /\ req[r] \in Request
  BY DEF ReadUser, WalletInv, TypeOK
<1>2. req'[r] = new
  BY <1>1 DEF WalletInv, TypeOK
<1>3. /\ new.pc = "saveUser" /\ new.wd = req[r].wd /\ new.target = req[r].target
      /\ new.delta = req[r].delta /\ new.oldWd = req[r].oldWd
  BY <1>1 DEF Request
<1> HIDE DEF new
<1>4. DeltaKnown(r)'
  BY <1>1, <1>2, <1>3 DEF DebitInv, DeltaKnown, Settler, BalanceChange, rows
<1>5. \A v \in Withdrawals : ~Halfway(r, v) /\ ~Halfway(r, v)'
  BY <1>1, <1>2, <1>3 DEF Halfway
<1>6. QED BY <1>1, <1>4, <1>5, QuietDebitStep DEF rows, history

\* What a settler keeps when the users row is saved, or should have been.
LEMMA AfterUserKeeps ==
    ASSUME WalletInv, NEW r \in Requests, req[r].pc = "saveUser", req[r].wd # NoWithdrawal
    PROVE  /\ AfterUser(r).pc = "saveWithdrawal" /\ AfterUser(r).wd = req[r].wd
           /\ AfterUser(r).target = req[r].target /\ AfterUser(r).delta = req[r].delta
           /\ AfterUser(r).oldWd = req[r].oldWd
BY DEF AfterUser, WalletInv, TypeOK, Request

\* A lost save of the users row breaks the withdrawal it was for.
LEMMA SaveUserFailsDebitStep ==
    ASSUME WalletInv, DebitInv, NEW r \in Requests, SaveUserFails(r)
    PROVE  DebitInv'
<1>1. /\ req' = [req EXCEPT ![r] = AfterUser(r)] /\ UNCHANGED <<status, debits>>
      /\ broken' = broken \cup ({req[r].wd} \ {NoWithdrawal})
      /\ req[r].pc = "saveUser"
  BY DEF SaveUserFails, rows
<1>2. req'[r] = AfterUser(r)
  BY <1>1 DEF WalletInv, TypeOK
<1>3. DeltaKnown(r)'
  <2>1. CASE req[r].wd = NoWithdrawal
    BY <1>2, <2>1, IdleRequest DEF AfterUser, DeltaKnown, Settler
  <2>2. CASE req[r].wd # NoWithdrawal
    BY <1>1, <1>2, <2>2, AfterUserKeeps
       DEF DebitInv, DeltaKnown, Settler, BalanceChange
  <2>3. QED BY <2>1, <2>2
<1>4. \A w \in Withdrawals \ broken' : ~Halfway(r, w) /\ ~Halfway(r, w)'
  BY <1>1, <1>2, AfterUserFacts DEF Halfway
<1>5. QED BY <1>1, <1>3, <1>4, QuietDebitStep

\* The inserted withdrawal is pending and not debited; nobody settles it.
LEMMA InsertDebitStep ==
    ASSUME WalletInv, DebitInv, NEW r \in Requests, InsertWithdrawal(r)
    PROVE  DebitInv'
<1> DEFINE x == req[r].wd
<1>1. /\ req' = [req EXCEPT ![r] = Idle] /\ UNCHANGED <<balance, history>>
      /\ status' = [status EXCEPT ![x] = "pending"]
      /\ req[r].pc = "insert" /\ x \in Withdrawals /\ status[x] = "none"
  BY DEF InsertWithdrawal, WalletInv, WdKnown
<1>2. \A q \in Requests : req'[q] = IF q = r THEN Idle ELSE req[q]
  BY <1>1 DEF WalletInv, TypeOK
<1>3. \A q \in Requests : q # r => req[q].wd # x
  BY <1>1 DEF WalletInv, OneInserter
<1>4. \A v \in Withdrawals : status'[v] = IF v = x THEN "pending" ELSE status[v]
  BY <1>1 DEF WalletInv, TypeOK
<1>5. ASSUME NEW q \in Requests PROVE DeltaKnown(q)'
  <2>1. CASE q = r
    BY <1>2, <2>1, IdleRequest DEF DeltaKnown, Settler
  <2>2. CASE q # r
    BY <1>2, <1>3, <1>4, <2>2
       DEF WalletInv, WdKnown, DebitInv, DeltaKnown, Settler, BalanceChange
  <2>3. QED BY <2>1, <2>2
<1>6. ASSUME NEW w \in Withdrawals \ broken' PROVE DebitKnown(w)'
  <2>1. DebitKnown(w) /\ debits' = debits
    BY <1>1 DEF DebitInv, history
  <2>2. \A q \in Requests : /\ Halfway(q, w)' <=> Halfway(q, w)
                            /\ Halfway(q, w) => req'[q] = req[q]
    BY <1>1, <1>2, IdleRequest DEF Halfway
  <2>3. Due(status'[w]) = Due(status[w])
    BY <1>1, <1>4 DEF Due
  <2>4. QED BY <2>1, <2>2, <2>3 DEF DebitKnown
<1>7. QED BY <1>5, <1>6 DEF DebitInv

\* The balance changes: r is halfway now, alone or one of several.
LEMMA SaveUserDebitStep ==
    ASSUME WalletInv, DebitInv, NEW r \in Requests, SaveUser(r)
    PROVE  DebitInv'
<1> DEFINE x == req[r].wd
           d == req[r].delta
<1>1. /\ req[r].pc = "saveUser" /\ status' = status /\ broken' = broken
      /\ req' = [q \in Requests |-> IF q = r THEN AfterUser(r) ELSE Outdate(q, req[r].user)]
      /\ x = NoWithdrawal => debits' = debits
      /\ x # NoWithdrawal => debits' = [debits EXCEPT ![x] = IF d < 0 THEN @ + 1 ELSE @ - 1]
  BY DEF SaveUser
<1>2. \A q \in Requests : q # r =>
        /\ req'[q].pc = req[q].pc /\ req'[q].wd = req[q].wd
        /\ req'[q].target = req[q].target /\ req'[q].oldWd = req[q].oldWd
        /\ req'[q].delta = req[q].delta
  BY <1>1 DEF WalletInv, TypeOK, Outdate, Request
<1>3. req'[r] = AfterUser(r)
  BY <1>1
<1>4. ASSUME NEW q \in Requests PROVE DeltaKnown(q)'
  <2>1. DeltaKnown(q)
    BY DEF DebitInv
  <2>2. CASE q = r /\ x = NoWithdrawal
    BY <1>3, <2>2, IdleRequest DEF AfterUser, DeltaKnown, Settler
  <2>3. CASE q = r /\ x # NoWithdrawal
    BY <1>1, <1>3, <2>1, <2>3, AfterUserKeeps DEF DeltaKnown, Settler, BalanceChange
  <2>4. CASE q # r
    BY <1>1, <1>2, <2>1, <2>4 DEF DeltaKnown, Settler, BalanceChange
  <2>5. QED BY <2>2, <2>3, <2>4
<1>5. \A q \in Requests, w \in Withdrawals : q # r => (Halfway(q, w)' <=> Halfway(q, w))
  BY <1>2 DEF Halfway
<1>6. \A w \in Withdrawals : ~Halfway(r, w)
  BY <1>1 DEF Halfway
<1>7. ASSUME NEW w \in Withdrawals \ broken', w # x PROVE DebitKnown(w)'
  <2>1. DebitKnown(w) /\ debits'[w] = debits[w]
    BY <1>1, <1>7 DEF DebitInv, WalletInv, TypeOK, Request
  <2>2. ~Halfway(r, w)'
    BY <1>1, <1>3, <1>7, AfterUserFacts DEF Halfway
  <2>3. \A q \in Requests : Halfway(q, w)' <=> Halfway(q, w)
    BY <1>5, <1>6, <2>2
  <2>4. QED BY <1>1, <1>2, <1>6, <2>1, <2>3 DEF DebitKnown
<1>8. ASSUME NEW w \in Withdrawals \ broken', w = x PROVE DebitKnown(w)'
  <2>1. /\ w # NoWithdrawal /\ Settler(r) /\ d # 0 /\ d \in Int /\ debits[w] \in Int
        /\ debits'[w] = IF d < 0 THEN debits[w] + 1 ELSE debits[w] - 1
    BY <1>1, <1>8 DEF Settler, DebitInv, DeltaKnown, WalletInv, TypeOK, Request
  <2>2. /\ Halfway(r, w)' /\ req'[r].target = req[r].target
        /\ req'[r].oldWd = req[r].oldWd
    BY <1>1, <1>3, <1>8, <2>1, AfterUserKeeps DEF Halfway
  <2>3. CASE req[r].oldWd \/ \E q \in Requests : Halfway(q, w)
    BY <1>5, <1>6, <1>8, <2>2, <2>3 DEF DebitKnown
  <2>4. CASE ~req[r].oldWd /\ \A q \in Requests : ~Halfway(q, w)
    <3>1. debits[w] = Due(status[w])
      BY <1>1, <1>8, <2>4 DEF DebitInv, DebitKnown
    <3>2. d = BalanceChange(w, req[r].target) /\ Amount[w] \in Nat \ {0}
      BY <1>1, <1>8, <2>1, <2>4 DEF DebitInv, DeltaKnown
    <3>3. debits'[w] = Due(req[r].target)
      BY <2>1, <3>1, <3>2 DEF BalanceChange, Due
    <3>4. QED BY <1>8, <2>2, <3>3 DEF DebitKnown
  <2>5. QED BY <2>3, <2>4
<1>9. QED BY <1>4, <1>7, <1>8 DEF DebitInv

\* The withdrawal is saved: its status is what it was debited for, or its other
\* debtors are outdated, or it is broken.
LEMMA SaveWithdrawalDebitStep ==
    ASSUME WalletInv, DebitInv, NEW r \in Requests, SaveWithdrawal(r)
    PROVE  DebitInv'
<1> DEFINE x == req[r].wd
           t == req[r].target
<1>1. /\ req[r].pc = "saveWithdrawal" /\ x \in Withdrawals /\ t \in Targets
      /\ status' = [status EXCEPT ![x] = t]
      /\ req' = [q \in Requests |->
                   IF q = r THEN Idle
                   ELSE IF req[q].wd = x THEN [req[q] EXCEPT !.oldWd = TRUE]
                   ELSE req[q]]
      /\ broken' = (IF req[r].oldWd THEN broken \cup {x} ELSE broken)
      /\ debits' = debits
  BY DEF SaveWithdrawal, WalletInv, WdKnown, Settler, TypeOK, Request
<1>2. \A q \in Requests : q # r =>
        /\ req'[q].pc = req[q].pc /\ req'[q].wd = req[q].wd
        /\ req'[q].target = req[q].target /\ req'[q].delta = req[q].delta
        /\ req[q].wd = x => req'[q].oldWd
        /\ req[q].wd # x => req'[q].oldWd = req[q].oldWd
  <2>1. \A q \in Requests : q # r /\ req[q].wd = x =>
          req'[q] = [req[q] EXCEPT !.oldWd = TRUE] /\ req[q] \in Request
    BY <1>1 DEF WalletInv, TypeOK
  <2>2. \A q \in Requests : q # r /\ req[q].wd # x => req'[q] = req[q]
    BY <1>1
  <2>3. ASSUME NEW q \in Requests, q # r, req[q].wd = x
        PROVE  /\ req'[q].pc = req[q].pc /\ req'[q].wd = req[q].wd
               /\ req'[q].target = req[q].target /\ req'[q].delta = req[q].delta
               /\ req'[q].oldWd
    <3>1. req'[q] = [req[q] EXCEPT !.oldWd = TRUE] /\ req[q] \in Request
      BY <2>1, <2>3
    <3>2. QED BY <3>1 DEF Request
  <2>4. QED BY <2>2, <2>3
<1>3. req'[r] = Idle
  BY <1>1
<1>4. \A v \in Withdrawals : status'[v] = IF v = x THEN t ELSE status[v]
  BY <1>1 DEF WalletInv, TypeOK
<1>5. ASSUME NEW q \in Requests PROVE DeltaKnown(q)'
  <2>1. DeltaKnown(q) /\ WdKnown(q)
    BY DEF DebitInv, WalletInv
  <2>2. CASE q = r
    BY <1>3, <2>2, IdleRequest DEF DeltaKnown, Settler
  <2>3. CASE q # r
    <3>1. CASE req[q].wd = x
      BY <1>2, <2>1, <2>3, <3>1 DEF DeltaKnown, Settler
    <3>2. CASE req[q].wd # x
      BY <1>2, <1>4, <2>1, <2>3, <3>2 DEF DeltaKnown, WdKnown, Settler, BalanceChange
    <3>3. QED BY <3>1, <3>2
  <2>4. QED BY <2>2, <2>3
<1>6. \A q \in Requests, w \in Withdrawals : q # r => (Halfway(q, w)' <=> Halfway(q, w))
  BY <1>2 DEF Halfway
<1>7. \A w \in Withdrawals : ~Halfway(r, w)'
  BY <1>3, IdleRequest DEF Halfway
<1>8. ASSUME NEW w \in Withdrawals \ broken', w # x PROVE DebitKnown(w)'
  <2>1. DebitKnown(w) /\ ~Halfway(r, w) /\ status'[w] = status[w]
    BY <1>1, <1>4, <1>8 DEF DebitInv, Halfway
  <2>2. \A q \in Requests : /\ Halfway(q, w)' <=> Halfway(q, w)
                            /\ Halfway(q, w) => req'[q].oldWd = req[q].oldWd
                            /\ Halfway(q, w) => req'[q].target = req[q].target
    BY <1>2, <1>6, <1>7, <1>8, <2>1 DEF Halfway, WalletInv, TypeOK, Request
  <2>3. QED BY <1>1, <2>1, <2>2 DEF DebitKnown
<1>9. ASSUME NEW w \in Withdrawals \ broken', w = x PROVE DebitKnown(w)'
  <2>1. ~req[r].oldWd /\ DebitKnown(w) /\ status'[w] = t
    BY <1>1, <1>4, <1>9 DEF DebitInv
  <2>2. CASE \E q \in Requests \ {r} : Halfway(q, w)
    <3>1. PICK q \in Requests \ {r} : Halfway(q, w)
      BY <2>2
    <3>2. Halfway(q, w)' /\ req'[q].oldWd
      BY <1>1, <1>2, <1>6, <1>9, <3>1 DEF Halfway
    <3>3. QED BY <3>2 DEF DebitKnown
  <2>3. CASE \A q \in Requests \ {r} : ~Halfway(q, w)
    <3>1. \A q \in Requests : ~Halfway(q, w)'
      BY <1>1, <1>6, <1>7, <2>3
    <3>2. debits[w] = Due(t)
      <4>1. CASE Halfway(r, w)
        BY <2>1, <2>3, <4>1 DEF DebitKnown
      <4>2. CASE ~Halfway(r, w)
        <5>1. req[r].delta = 0 /\ debits[w] = Due(status[w])
          BY <1>1, <1>9, <2>1, <2>3, <4>2 DEF Halfway, DebitKnown
        <5>2. /\ BalanceChange(w, t) = 0 /\ status[w] \in {"pending", "approved"}
              /\ Amount[w] \in Nat \ {0}
          BY <1>1, <1>9, <2>1, <5>1 DEF DebitInv, DeltaKnown, WalletInv, WdKnown, Settler,
                                  TypeOK, Targets, Final
        <5>3. Due(t) = Due(status[w])
          BY <1>1, <5>2 DEF BalanceChange, Due, Targets, Final
        <5>4. QED BY <5>1, <5>3
      <4>3. QED BY <4>1, <4>2
    <3>3. QED BY <1>1, <2>1, <3>1, <3>2 DEF DebitKnown
  <2>4. QED BY <2>2, <2>3
<1>10. QED BY <1>5, <1>8, <1>9 DEF DebitInv

\* DebitInv is inductive, given WalletInv.
LEMMA DebitStep == WalletInv /\ DebitInv /\ [Next]_vars => DebitInv'
<1> SUFFICES ASSUME WalletInv, DebitInv, [Next]_vars PROVE DebitInv'
  OBVIOUS
<1>1. ASSUME NEW r \in Requests, NEW u \in Users,
             \/ CreditSeller(r, u) \/ UpdateProfile(r, u)
             \/ VerifyUser(r, u) \/ UpdateUserStatus(r, u)
      PROVE  DebitInv'
  <2>1. \E d \in Nat : ReadRow(r, u, d)
    BY <1>1 DEF CreditSeller, UpdateProfile, VerifyUser, UpdateUserStatus
  <2>2. QED BY <2>1, UnsettledDebitStep
<1>2. CASE UNCHANGED vars
  BY <1>2 DEF vars, rows, history, DebitInv, DeltaKnown, Settler, BalanceChange,
              DebitKnown, Halfway
<1>3. QED
  BY <1>1, <1>2, UnsettledDebitStep, ReadWithdrawalDebitStep, ReadUserDebitStep,
     SaveUserFailsDebitStep, InsertDebitStep, SaveUserDebitStep,
     SaveWithdrawalDebitStep DEF Next, Step

\* A withdrawal that is settled without a race or a failure halfway was debited
\* exactly once if it is approved or paid, and not at all otherwise.
THEOREM DebitedExactlyOnce == Spec => []DebitedOnce
<1>1. Init => DebitInv
  BY IdleRequest DEF Init, DebitInv, DeltaKnown, Settler, DebitKnown, Halfway, Due
<1>2. WalletInv /\ DebitInv => DebitedOnce
  <2> SUFFICES ASSUME WalletInv, DebitInv, NEW w \in Withdrawals \ broken, ~Settling(w)
               PROVE  debits[w] = Due(status[w])
    BY DEF DebitedOnce, Due
  <2>1. \A r \in Requests : ~Halfway(r, w)
    BY DEF Settling, Halfway
  <2>2. QED BY <2>1 DEF DebitInv, DebitKnown
<1>3. QED BY <1>1, <1>2, DebitStep, WalletInvariant, PTL DEF Spec
=============================================================================
