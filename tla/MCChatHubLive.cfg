SPECIFICATION FairSpec
CONSTANTS
    u1 = u1
    u2 = u2
    a1 = a1
    a2 = a2
    b1 = b1
    Users = {u1, u2}
    Conns = {a1, b1}
    UserOf <- MCUserOf
    NoConn = NoConn
    Rooms = {r1}
    NoRoom = NoRoom
    Party <- MCParty
    Private = {}
PROPERTIES
    HubServes
