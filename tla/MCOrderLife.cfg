SPECIFICATION Spec
CONSTANTS
    Requests = {r1, r2}
    Sellers = {}
    Shipments = {s1, s2}
    NoShipment = NoShipment
    MaxCredits = 1
SYMMETRY Symmetry
PROPERTIES
    LegByLeg
    ImplementsLife
\* A cancelled order may be the end.
CHECK_DEADLOCK FALSE
