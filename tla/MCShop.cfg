SPECIFICATION FairSpec
CONSTANTS
    Tabs = {t1, t2}
    Products = {p1}
    MaxQuantity = 2
    MaxAttempts = 2
INVARIANTS
    ShopInv
    CartIsAsked
    OutcomeIsKnown
PROPERTIES
    CheckoutEnds
