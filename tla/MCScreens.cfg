SPECIFICATION Spec
CONSTANTS
    Rows = {r1}
    NoRow = NoRow
    Slots = {c1, c2}
    Keys = {k1, k2}
    MaxLoads = 2
SYMMETRY Symmetry
INVARIANTS
    ScreensInv
    
    RefusedOnlyIfChanged

    
