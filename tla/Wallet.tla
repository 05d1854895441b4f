-------------------------------- MODULE Wallet --------------------------------
(***************************************************************************)
(* A seller's balance and its withdrawals (withdrawal_service.go, the      *)
(* balance credit of payment_service.go, and the handlers of               *)
(* auth_service.go and user_service.go that save a whole users row).        *)
(*                                                                         *)
(* Each handler runs on its own goroutine and each database statement      *)
(* commits by itself: a request reads a row, works on its copy, and saves  *)
(* every column of the copy, the balance included, whatever happened to    *)
(* the row in between.                                                      *)
(***************************************************************************)
EXTENDS Integers

CONSTANTS
    Requests,      \* request goroutines
    Users,         \* sellers
    Withdrawals,   \* withdrawal rows, inserted or still to come
    NoWithdrawal,  \* what a request that settles no withdrawal holds
    Owner,         \* the user of each withdrawal
    Amount,        \* the amount of each withdrawal
    Credits,       \* the amounts a paid order may credit
    MaxCredited,   \* bound: a credit starts only while it stays within this
    DebitRange     \* bound: an update starts only while debits[w] is in it

ASSUME WithdrawalAssumption ==
    /\ NoWithdrawal \notin Withdrawals
    /\ Owner \in [Withdrawals -> Users]
    /\ Amount \in [Withdrawals -> Nat \ {0}]
ASSUME UserAssumption == Users # {}
ASSUME CreditAssumption == Credits \subseteq Nat \ {0} /\ MaxCredited \in Nat

VARIABLES
    balance,    \* users.balance
    status,     \* withdrawals.status; "none" before the row exists
    req,        \* the local variables of each request
    (* History variables: no guard reads them.                             *)
    credited,   \* what credits added to each user's balance
    withdrawn,  \* what approvals took from it, less refunds
    debits,     \* how often each withdrawal was debited, less refunds
    raced,      \* users whose row was saved from an outdated copy
    broken      \* withdrawals updated from an outdated copy, or halfway

rows == <<balance, status>>
history == <<credited, withdrawn, debits, raced, broken>>
vars == <<rows, req, history>>

Final == {"rejected", "paid"}
Targets == {"approved"} \cup Final

(***************************************************************************)
(* copy is the balance a request read, delta what it adds to it before it  *)
(* saves.  oldRow and oldWd are history: another request has saved the     *)
(* users row, or the withdrawal, since this one read it.                   *)
(***************************************************************************)
Request == [pc : {"idle", "insert", "readUser", "saveUser", "saveWithdrawal"},
            user : Users, wd : Withdrawals \cup {NoWithdrawal}, target : Targets,
            delta : Int, copy : Int, oldRow : BOOLEAN, oldWd : BOOLEAN]

TypeOK ==
    /\ balance \in [Users -> Int]
    /\ status \in [Withdrawals -> {"none", "pending"} \cup Targets]
    /\ req \in [Requests -> Request]
    /\ credited \in [Users -> Int]
    /\ withdrawn \in [Users -> Int]
    /\ debits \in [Withdrawals -> Int]
    /\ raced \subseteq Users
    /\ broken \subseteq Withdrawals

Idle == [pc |-> "idle", user |-> CHOOSE u \in Users : TRUE, wd |-> NoWithdrawal,
         target |-> "paid", delta |-> 0, copy |-> 0, oldRow |-> FALSE, oldWd |-> FALSE]

Init ==
    /\ balance = [u \in Users |-> 0]
    /\ status = [w \in Withdrawals |-> "none"]
    /\ req = [r \in Requests |-> Idle]
    /\ credited = [u \in Users |-> 0]
    /\ withdrawn = [u \in Users |-> 0]
    /\ debits = [w \in Withdrawals |-> 0]
    /\ raced = {}
    /\ broken = {}

-----------------------------------------------------------------------------
(* Reading the users row, to change the balance or any other column of it. *)

\* Defect: the row that will be saved is built from the request alone.
BlankRow(r, u, delta) ==
    /\ req[r].pc = "idle"
    /\ req' = [req EXCEPT ![r] = [Idle EXCEPT !.pc = "saveUser", !.user = u,
                                              !.delta = delta]]
    /\ UNCHANGED <<rows, history>>

ReadRow(r, u, delta) ==
    /\ req[r].pc = "idle"
    /\ req' = [req EXCEPT ![r] = [Idle EXCEPT !.pc = "saveUser", !.user = u,
                                              !.delta = delta, !.copy = balance[u]]]
    /\ UNCHANGED <<rows, history>>

\* creditSellerBalance, for one seller of a paid order.
CreditSeller(r, u) ==
    \E c \in Credits : credited[u] + c <= MaxCredited /\ ReadRow(r, u, c)

\* These change other columns and save the balance as they read it.
UpdateProfile(r, u) == ReadRow(r, u, 0)
VerifyUser(r, u) == ReadRow(r, u, 0)
UpdateUserStatus(r, u) == ReadRow(r, u, 0)

-----------------------------------------------------------------------------
(* CreateWithdrawal: the balance is checked, and nothing is reserved.      *)

CheckBalance(r, w) ==
    /\ req[r].pc = "idle"
    /\ status[w] = "none"
    /\ \A q \in Requests : req[q].wd # w
    /\ balance[Owner[w]] >= Amount[w]
    /\ req' = [req EXCEPT ![r] = [Idle EXCEPT !.pc = "insert", !.wd = w,
                                              !.user = Owner[w]]]
    /\ UNCHANGED <<rows, history>>

InsertWithdrawal(r) ==
    /\ req[r].pc = "insert"
    /\ status' = [status EXCEPT ![req[r].wd] = "pending"]
    /\ req' = [req EXCEPT ![r] = Idle]
    /\ UNCHANGED <<balance, history>>

-----------------------------------------------------------------------------
(* UpdateWithdrawal: an administrator approves, rejects or pays.           *)

\* Defect: paying an approved withdrawal debits it a second time.
DebitAgain(w, t) ==
    CASE t \in {"approved", "paid"}                  -> -Amount[w]
      [] status[w] = "approved" /\ t = "rejected"    -> Amount[w]
      [] OTHER                                       -> 0

\* What moving w to status t adds to its owner's balance.
BalanceChange(w, t) ==
    CASE status[w] = "pending" /\ t \in {"approved", "paid"} -> -Amount[w]
      [] status[w] = "approved" /\ t = "rejected"            -> Amount[w]
      [] OTHER                                               -> 0

ReadWithdrawal(r, w, t) ==
    /\ req[r].pc = "idle"
    /\ status[w] \in {"pending", "approved"}
    /\ debits[w] \in DebitRange
    /\ req' = [req EXCEPT ![r] =
                 [Idle EXCEPT !.pc = IF BalanceChange(w, t) = 0 THEN "saveWithdrawal"
                                                                ELSE "readUser",
                              !.wd = w, !.user = Owner[w], !.target = t,
                              !.delta = BalanceChange(w, t)]]
    /\ UNCHANGED <<rows, history>>

\* Defect: the balance is checked when it is requested only.
ReadUserUnchecked(r) ==
    /\ req[r].pc = "readUser"
    /\ req' = [req EXCEPT ![r] = [@ EXCEPT !.pc = "saveUser",
                                           !.copy = balance[req[r].user]]]
    /\ UNCHANGED <<rows, history>>

\* A debit is checked against the balance of this very copy.
ReadUser(r) ==
    /\ req[r].pc = "readUser"
    /\ balance[req[r].user] + req[r].delta >= 0
    /\ req' = [req EXCEPT ![r] = [@ EXCEPT !.pc = "saveUser",
                                           !.copy = balance[req[r].user]]]
    /\ UNCHANGED <<rows, history>>

InsufficientBalance(r) ==
    /\ req[r].pc = "readUser"
    /\ balance[req[r].user] + req[r].delta < 0
    /\ req' = [req EXCEPT ![r] = Idle]
    /\ UNCHANGED <<rows, history>>

\* What r does once the users row is saved.
AfterUser(r) == IF req[r].wd = NoWithdrawal THEN Idle
                ELSE [req[r] EXCEPT !.pc = "saveWithdrawal"]

\* Every other copy of u's row is out of date now.
Outdate(q, u) == IF req[q].pc = "saveUser" /\ req[q].user = u
                 THEN [req[q] EXCEPT !.oldRow = TRUE] ELSE req[q]

(***************************************************************************)
(* UserRepo.Update: the whole copy overwrites the row.                     *)
(***************************************************************************)
SaveUser(r) ==
    LET u == req[r].user
        w == req[r].wd
        d == req[r].delta
    IN  /\ req[r].pc = "saveUser"
        /\ balance' = [balance EXCEPT ![u] = req[r].copy + d]
        /\ req' = [q \in Requests |-> IF q = r THEN AfterUser(r) ELSE Outdate(q, u)]
        /\ raced' = IF req[r].oldRow THEN raced \cup {u} ELSE raced
        /\ IF w = NoWithdrawal
           THEN /\ credited' = [credited EXCEPT ![u] = @ + d]
                /\ UNCHANGED <<withdrawn, debits>>
           ELSE /\ withdrawn' = [withdrawn EXCEPT ![u] = @ - d]
                /\ debits' = [debits EXCEPT ![w] = IF d < 0 THEN @ + 1 ELSE @ - 1]
                /\ UNCHANGED credited
        /\ UNCHANGED <<status, broken>>

\* The error of UserRepo.Update is dropped, and the handler goes on.
SaveUserFails(r) ==
    /\ req[r].pc = "saveUser"
    /\ req' = [req EXCEPT ![r] = AfterUser(r)]
    /\ broken' = broken \cup ({req[r].wd} \ {NoWithdrawal})
    /\ UNCHANGED <<rows, credited, withdrawn, debits, raced>>

SaveWithdrawal(r) ==
    LET w == req[r].wd
    IN  /\ req[r].pc = "saveWithdrawal"
        /\ status' = [status EXCEPT ![w] = req[r].target]
        /\ req' = [q \in Requests |->
                     IF q = r THEN Idle
                     ELSE IF req[q].wd = w THEN [req[q] EXCEPT !.oldWd = TRUE]
                     ELSE req[q]]
        /\ broken' = IF req[r].oldWd THEN broken \cup {w} ELSE broken
        /\ UNCHANGED <<balance, credited, withdrawn, debits, raced>>

\* The process dies, or a statement whose error ends the handler fails.
Crash(r) ==
    /\ req[r].pc # "idle"
    /\ req' = [req EXCEPT ![r] = Idle]
    /\ broken' = IF req[r].pc = "saveWithdrawal" /\ req[r].delta # 0
                 THEN broken \cup {req[r].wd} ELSE broken
    /\ UNCHANGED <<rows, credited, withdrawn, debits, raced>>

-----------------------------------------------------------------------------

Step(r) ==
    \/ \E u \in Users : \/ CreditSeller(r, u)
                        \/ UpdateProfile(r, u)
                        \/ VerifyUser(r, u)
                        \/ UpdateUserStatus(r, u)
    \/ \E w \in Withdrawals : CheckBalance(r, w)
    \/ \E w \in Withdrawals, t \in Targets : ReadWithdrawal(r, w, t)
    \/ InsertWithdrawal(r)
    \/ ReadUser(r)
    \/ InsufficientBalance(r)
    \/ SaveUser(r)
    \/ SaveUserFails(r)
    \/ SaveWithdrawal(r)
    \/ Crash(r)

Next == \E r \in Requests : Step(r)

Spec == Init /\ [][Next]_vars

-----------------------------------------------------------------------------

(***************************************************************************)
(* No interleaving, crash or lost write makes a balance negative: a debit  *)
(* saves an absolute value computed from a copy that covered it.           *)
(***************************************************************************)
BalanceNeverNegative == \A u \in Users : balance[u] >= 0

(***************************************************************************)
(* Unless some request saved a user's row from an outdated copy, the       *)
(* balance is exactly what was credited less what was withdrawn.  The race *)
(* on the whole-row save is the only way money appears or vanishes.        *)
(***************************************************************************)
BooksBalance ==
    \A u \in Users \ raced : balance[u] = credited[u] - withdrawn[u]

(***************************************************************************)
(* A withdrawal that is approved or paid was debited exactly once, and one *)
(* that is pending or rejected is not debited, once no update of it is in  *)
(* flight - unless an update of it was saved from an outdated copy or      *)
(* ended between the users row and the withdrawal.                         *)
(***************************************************************************)
Settling(w) == \E r \in Requests : req[r].wd = w /\ req[r].pc # "insert"

DebitedOnce ==
    \A w \in Withdrawals \ broken :
        ~Settling(w) => debits[w] = IF status[w] \in {"approved", "paid"} THEN 1 ELSE 0

(***************************************************************************)
(* A rejected or paid withdrawal changes again only by a request that had  *)
(* read it before it became final.                                         *)
(***************************************************************************)
FinalChangedOnlyByOldCopy ==
    [][\A w \in Withdrawals :
          status[w] \in Final /\ status'[w] # status[w] =>
              \E r \in Requests : req[r].wd = w /\ req[r].oldWd]_vars
=============================================================================
