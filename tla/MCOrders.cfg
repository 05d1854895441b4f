SPECIFICATION FairSpec
CONSTANTS
    Requests = {r1, r2}
    Sellers = {a}
    Shipments = {}
    NoShipment = NoShipment
    MaxCredits = 2
INVARIANTS
    
    CreditedOnce
    PaidHasCredited
PROPERTIES
    OrphanPaymentStaysOrphan
    PaidSellersAreCredited
\* A cancelled order may be the end.
CHECK_DEADLOCK FALSE
