SPECIFICATION Spec
CONSTANTS
    Requests = {r1, r2}
    Users = {u1}
    Withdrawals = {w1, w2}
    NoWithdrawal = NoWithdrawal
    u1 = u1
    w1 = w1
    w2 = w2
    Owner <- MCOwner
    Amount <- MCAmount
    Credits = {2}
    MaxCredited = 2
    DebitRange = {0, 1}
SYMMETRY Symmetry
INVARIANTS
    
    BooksBalance
    DebitedOnce
