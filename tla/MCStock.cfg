SPECIFICATION Spec
CONSTANTS
    Requests = {r1, r2}
    Products = {p1}
    Orders = {o1, o2}
    NoOrder = NoOrder
    p1 = p1
    o1 = o1
    o2 = o2
    Items <- MCItems
    Levels = {1}
    Initial <- MCInitial
    LeastHeld = 1
SYMMETRY Symmetry
INVARIANTS
    StockBooks
    HeldExactly
    
