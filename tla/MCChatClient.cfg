SPECIFICATION ClientSpec
CONSTANTS
    Accounts = {u1, u2}
    Sockets = {s1, s2}
    NoSocket = NoSocket
    PageSize = 1
    MaxMessages = 2
    MaxFetches = 1
    MaxTimers = 1
SYMMETRY Symmetry
INVARIANTS
    ClientInv
    SocketIsOwn
    RepeatedOnlyByPage

    
