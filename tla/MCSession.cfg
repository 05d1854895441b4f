SPECIFICATION Spec
CONSTANTS
    Tabs = {t1, t2}
    Users = {a, k}
    a = a
    k = k
    NoUser = NoUser
    RoleOf <- MCRoleOf
    Entered <- MCEntered
    MaxTokens = 2
    MaxFlights = 2
SYMMETRY Symmetry
INVARIANTS
    SessionInv
    RoutesAgree
    StoreMirrorsStorage
PROPERTIES
    SessionEndsForAReason
    ReplacedByLateForm
