SPECIFICATION TraceSpec
CONSTANTS
    Handlers = {r1, r2}
    MaxTimes = 2
    f = f
    d = d
    c = c
    h = h
    b = b
    p1 = p1
    p2 = p2
    o = o
    s = s
    Farms = {f}
    Ponds = {d}
    Cycles = {c}
    Harvests = {h}
    Batches = {b}
    Products = {p1, p2}
    Orders = {o}
    Shipments = {s}
    On <- MCOn
    Deletable = {d, p1}
SYMMETRY Symmetry
INVARIANTS
    TraceInv
    TraceComplete
