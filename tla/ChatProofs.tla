------------------------------ MODULE ChatProofs ------------------------------
(***************************************************************************)
(* Theorems about the chat: its server, for any number of users,           *)
(* connections and rooms, and whoever the requests name as members; and    *)
(* its client, for any number of users, sockets, messages and pages.       *)
(***************************************************************************)
EXTENDS ChatHub, ChatClient, FiniteSetTheorems, SequenceTheorems, TLAPS

(***************************************************************************)
(* The server.                                                             *)
(***************************************************************************)
USE ConnAssumption, RoomAssumption

-----------------------------------------------------------------------------
(* The inductive invariant.                                                *)

\* The hub has connection c for its user.
InHub(c) == hub[UserOf[c]] = c

\* What the hub has for a user is a connection of his.
HubKnows == \A u \in Users : hub[u] # NoConn => UserOf[hub[u]] = u

\* Only a connection that has not ended is replaced or closed.
OnlyLive == \A c \in replaced \cup closed : conn[c].pc \in Live

\* A request starts with the first of its users and ends after the last.
CreationKnown ==
    \A r \in Rooms :
        /\ creation[r].pc \in {"idle", "insert", "inserted"} => creation[r].at = 1
        /\ creation[r].pc = "update" => creation[r].at \in 1 .. (Len(Party[r]) + 1)

\* A request in state y for room r is done with user u.
Told(y, r, u) ==
    \E i \in DOMAIN Party[r] :
        /\ Party[r][i] = u
        /\ y.pc = "done" \/ (y.pc = "update" /\ i < y.at)

\* A connection in state x that has the rooms rs is in room r or will be.
Has(x, rs, r) == r \in rs \/ x.pc = "query" \/ (x.pc = "assign" /\ r \in x.queried)

\* Whoever a request is done with has its room, or will read it from the
\* database, unless he has lost rooms.
RoomsKept ==
    \A c \in Conns : \A r \in Rooms :
        InHub(c) /\ c \notin lost /\ Told(creation[r], r, UserOf[c])
            => Has(conn[c], rooms[c], r)

\* Whoever the broadcast of a connection in state x has yet to reach is still in
\* the hub, is not done with, and is still in the room unless he has lost rooms.
\* A room that is joined is one, and so is a client that is written to.
InOrder(x) ==
    /\ x.pc = "join" => x.room \in Rooms
    /\ x.pc = "write" => x.target \in Conns
    /\ x.pc \notin Reading => x.visited = {}
    /\ x.pc \in Reading =>
          \A t \in x.audience : InHub(t) /\ t \notin x.visited
                                /\ (t \in lost \/ x.room \in rooms[t])

CInv ==
    /\ TypeOK /\ HubIsLatestOpen
    /\ HubKnows /\ OnlyLive
    /\ CreationKnown /\ RoomsKept
    /\ \A c \in Conns : InOrder(conn[c])
    /\ missed \subseteq lost

-----------------------------------------------------------------------------
(* Steps of one goroutine.                                                 *)

\* The parts of the invariant that every step needs.
LEMMA CInvFacts ==
    ASSUME CInv
    PROVE  /\ hub \in [Users -> Conns \cup {NoConn}] /\ writer \in Conns \cup {NoConn}
           /\ rooms \in [Conns -> SUBSET Rooms]
           /\ conn \in [Conns -> Conn] /\ creation \in [Rooms -> Creation]
           /\ closed \subseteq Conns /\ replaced \subseteq Conns
           /\ lost \subseteq Conns /\ missed \subseteq Conns
           /\ \A c \in Conns : /\ conn[c] \in Conn /\ UserOf[c] \in Users /\ InOrder(conn[c])
                               /\ InHub(c) <=> conn[c].pc \in Live /\ c \notin replaced
                                               /\ c \notin closed
           /\ \A r \in Rooms : creation[r] \in Creation /\ Party[r] \in Seq(Users)
           /\ missed \subseteq lost
<1>1. TypeOK /\ HubIsLatestOpen
  BY DEF CInv
<1>2. \A c \in Conns : conn[c] \in Conn /\ UserOf[c] \in Users
  BY <1>1 DEF TypeOK
<1>3. QED BY <1>1, <1>2 DEF CInv, TypeOK, HubIsLatestOpen, InHub

\* The connections in the map are those that their user's entry names.
LEMMA RegisteredFacts ==
    ASSUME CInv
    PROVE  \A c : c \in Registered <=> c \in Conns /\ InHub(c)
<1>1. ASSUME NEW c \in Registered PROVE c \in Conns /\ InHub(c)
  <2>1. PICK u \in Users : hub[u] = c /\ c # NoConn
    BY DEF Registered
  <2>2. QED BY <2>1, CInvFacts DEF CInv, HubKnows, InHub
<1>2. ASSUME NEW c \in Conns, InHub(c) PROVE c \in Registered
  BY <1>2 DEF Registered, InHub
<1>3. QED BY <1>1, <1>2

\* A step of one connection that neither joins nor leaves the hub, that takes
\* rooms away from nobody but, if it counts as lost, from itself, and that
\* leaves its own broadcast in order, keeps the invariant.
LEMMA ConnStep ==
    ASSUME CInv, NEW c \in Conns, NEW x \in Conn,
           conn' = [conn EXCEPT ![c] = x],
           hub' = hub, writer' = writer, closed' = closed, creation' = creation,
           replaced' = replaced,
           rooms' \in [Conns -> SUBSET Rooms],
           lost' \subseteq Conns, lost \subseteq lost', missed' \subseteq lost',
           \A t \in Conns : t \in lost' \/ rooms[t] \subseteq rooms'[t],
           x.pc \in Live <=> conn[c].pc \in Live,
           x.pc = "join" => x.room \in Rooms, x.pc = "write" => x.target \in Conns,
           x.pc \notin Reading => x.visited = {},
           x.pc \in Reading =>
               \A t \in x.audience : InHub(t) /\ t \notin x.visited
                                     /\ (t \in lost' \/ x.room \in rooms'[t]),
           \A r \in Rooms : InHub(c) /\ c \notin lost' /\ Told(creation[r], r, UserOf[c])
                                => Has(x, rooms'[c], r)
    PROVE  CInv'
<1>1. conn \in [Conns -> Conn]
  BY CInvFacts
<1>2. TypeOK'
  BY <1>1 DEF CInv, TypeOK
<1>3. \A t \in Conns : conn'[t] = IF t = c THEN x ELSE conn[t]
  BY <1>1
<1>4. \A t \in Conns : conn'[t].pc \in Live <=> conn[t].pc \in Live
  BY <1>3
<1>5. HubIsLatestOpen'
  <2>1. HubIsLatestOpen
    BY DEF CInv
  <2>2. QED BY <1>4, <2>1 DEF HubIsLatestOpen
<1>6. HubKnows' /\ CreationKnown'
  BY DEF CInv, HubKnows, CreationKnown
<1>7. OnlyLive'
  <2>1. replaced \cup closed \subseteq Conns
    BY CInvFacts
  <2>2. QED BY <1>4, <2>1 DEF CInv, OnlyLive
<1>8. RoomsKept'
  <2> SUFFICES ASSUME NEW t \in Conns, NEW r \in Rooms,
                      InHub(t), t \notin lost', Told(creation[r], r, UserOf[t])
               PROVE  Has(conn'[t], rooms'[t], r)
    BY DEF RoomsKept, InHub
  <2>1. CASE t = c
    BY <1>3, <2>1
  <2>2. CASE t # c
    <3>1. Has(conn[t], rooms[t], r)
      BY DEF CInv, RoomsKept
    <3>2. QED BY <1>3, <2>2, <3>1 DEF Has
  <2>3. QED BY <2>1, <2>2
<1>9. ASSUME NEW t \in Conns PROVE InOrder(conn[t])'
  <2>1. CASE t = c
    BY <1>3, <2>1 DEF InOrder, InHub
  <2>2. CASE t # c
    <3>1. InOrder(conn[t]) /\ conn[t] \in Conn
      BY CInvFacts
    <3>2. conn[t].audience \subseteq Conns
      BY <3>1 DEF Conn
    <3>3. QED BY <1>3, <2>2, <3>1, <3>2 DEF InOrder, InHub
  <2>3. QED BY <2>1, <2>2
<1>10. QED BY <1>2, <1>5, <1>6, <1>7, <1>8, <1>9 DEF CInv

\* A step of one request, which may put its room among those of clients, keeps
\* the invariant if whoever it is done with has the room.
LEMMA CreationStep ==
    ASSUME CInv, NEW r \in Rooms, NEW y \in Creation,
           creation' = [creation EXCEPT ![r] = y],
           hub' = hub, writer' = writer, closed' = closed, conn' = conn,
           replaced' = replaced, lost' = lost, missed' = missed,
           rooms' \in [Conns -> SUBSET Rooms],
           \A c \in Conns : rooms[c] \subseteq rooms'[c],
           y.pc \in {"idle", "insert", "inserted"} => y.at = 1,
           y.pc = "update" => y.at \in 1 .. (Len(Party[r]) + 1),
           \A c \in Conns : InHub(c) /\ Told(y, r, UserOf[c])
                => Told(creation[r], r, UserOf[c]) \/ r \in rooms'[c]
    PROVE  CInv'
<1>1. creation \in [Rooms -> Creation]
  BY CInvFacts
<1>2. TypeOK'
  BY <1>1 DEF CInv, TypeOK
<1>3. \A e \in Rooms : creation'[e] = IF e = r THEN y ELSE creation[e]
  BY <1>1
<1>4. HubIsLatestOpen' /\ HubKnows' /\ OnlyLive'
  BY DEF CInv, HubIsLatestOpen, HubKnows, OnlyLive
<1>5. CreationKnown'
  BY <1>3 DEF CInv, CreationKnown
<1>6. RoomsKept'
  <2> SUFFICES ASSUME NEW c \in Conns, NEW e \in Rooms,
                      InHub(c), c \notin lost, Told(creation'[e], e, UserOf[c])
               PROVE  Has(conn[c], rooms'[c], e)
    BY DEF RoomsKept, InHub
  <2>1. Told(creation[e], e, UserOf[c]) \/ e \in rooms'[c]
    BY <1>3
  <2>2. CASE Told(creation[e], e, UserOf[c])
    <3>1. Has(conn[c], rooms[c], e)
      BY <2>2 DEF CInv, RoomsKept
    <3>2. QED BY <3>1 DEF Has
  <2>3. CASE e \in rooms'[c]
    BY <2>3 DEF Has
  <2>4. QED BY <2>1, <2>2, <2>3
<1>7. ASSUME NEW c \in Conns PROVE InOrder(conn[c])'
  <2>1. InOrder(conn[c]) /\ conn[c] \in Conn
    BY CInvFacts
  <2>2. conn[c].audience \subseteq Conns
    BY <2>1 DEF Conn
  <2>3. QED BY <2>1, <2>2 DEF InOrder, InHub
<1>8. QED BY <1>2, <1>4, <1>5, <1>6, <1>7 DEF CInv

\* A connection that changes nothing but where it is, and does not broadcast.
LEMMA PlainStep ==
    ASSUME CInv, NEW c \in Conns, NEW x \in Conn,
           conn' = [conn EXCEPT ![c] = x],
           hub' = hub, writer' = writer, rooms' = rooms, closed' = closed,
           creation' = creation, replaced' = replaced, lost' = lost, missed' = missed,
           x.pc \in Live <=> conn[c].pc \in Live,
           x.pc = "join" => x.room \in Rooms, x.pc = "write" => x.target \in Conns,
           x.pc \notin Reading, x.visited = {},
           x.pc = "query" \/ conn[c].pc \notin {"query", "assign"}
    PROVE  CInv'
<1>1. rooms \in [Conns -> SUBSET Rooms] /\ lost \subseteq Conns /\ missed \subseteq lost
  BY CInvFacts
<1>2. ASSUME NEW r \in Rooms, InHub(c), c \notin lost, Told(creation[r], r, UserOf[c])
      PROVE  Has(x, rooms[c], r)
  <2>1. Has(conn[c], rooms[c], r)
    BY <1>2 DEF CInv, RoomsKept
  <2>2. QED BY <2>1 DEF Has
<1>3. QED BY <1>1, <1>2, ConnStep

\* The hub's lock is asked for.
LEMMA LockKeeps ==
    ASSUME CInv, NEW c \in Conns, Lock(c)
    PROVE  CInv'
<1>1. TypeOK'
  BY DEF CInv, TypeOK, Lock, history
<1>2. QED
  BY <1>1 DEF Lock, history, CInv, HubIsLatestOpen, HubKnows, OnlyLive, CreationKnown, RoomsKept,
              InOrder, InHub

\* A connection is made, reads a message from its socket, or no more.
LEMMA BrowserKeeps ==
    ASSUME CInv, NEW c \in Conns, Browser(c)
    PROVE  CInv'
<1>1. conn[c] \in Conn /\ InOrder(conn[c])
  BY CInvFacts
<1>2. CASE Connect(c)
  <2>1. PICK x : x = [conn[c] EXCEPT !.pc = "add"]
    OBVIOUS
  <2>2. /\ x \in Conn /\ x.pc = "add" /\ x.visited = conn[c].visited
    BY <1>1, <2>1 DEF Conn, Live
  <2>3. conn[c].pc = "idle" /\ conn' = [conn EXCEPT ![c] = x]
    BY <1>2, <2>1 DEF Connect, Goto
  <2>4. x.visited = {} /\ x.pc \notin Reading /\ x.pc \notin Live /\ conn[c].pc \notin Live
    BY <1>1, <2>2, <2>3 DEF InOrder, Reading, Live
  <2>5. QED BY <1>2, <2>2, <2>3, <2>4, PlainStep DEF Connect, history
<1>3. CASE ReadFails(c)
  <2>1. PICK x : x = [conn[c] EXCEPT !.pc = "remove"]
    OBVIOUS
  <2>2. /\ x \in Conn /\ x.pc = "remove" /\ x.visited = conn[c].visited
    BY <1>1, <2>1 DEF Conn, Live
  <2>3. conn[c].pc = "read" /\ conn' = [conn EXCEPT ![c] = x]
    BY <1>3, <2>1 DEF ReadFails, Goto
  <2>4. x.visited = {} /\ x.pc \notin Reading /\ x.pc \in Live /\ conn[c].pc \in Live
    BY <1>1, <2>2, <2>3 DEF InOrder, Reading, Live
  <2>5. QED BY <1>3, <2>2, <2>3, <2>4, PlainStep DEF ReadFails, history
<1>4. ASSUME NEW r \in Rooms, ReceiveJoin(c, r) \/ ReceiveMessage(c, r)
      PROVE  CInv'
  <2>1. PICK l \in {"join", "broadcast"} : conn' = [conn EXCEPT ![c].pc = l, ![c].room = r]
    BY <1>4 DEF ReceiveJoin, ReceiveMessage
  <2>2. PICK x : x = [conn[c] EXCEPT !.pc = l, !.room = r]
    OBVIOUS
  <2>3. x \in Conn /\ x.pc = l /\ x.visited = conn[c].visited /\ x.room = r
    BY <1>1, <2>2 DEF Conn, Live
  <2>4. conn[c].pc = "read" /\ conn' = [conn EXCEPT ![c] = x]
    <3>1. conn \in [Conns -> Conn]
      BY CInvFacts
    <3>2. QED BY <1>4, <2>1, <2>2, <3>1 DEF ReceiveJoin, ReceiveMessage
  <2>5. x.visited = {} /\ x.pc \notin Reading /\ x.pc \in Live /\ conn[c].pc \in Live
    BY <1>1, <2>3, <2>4 DEF InOrder, Reading, Live
  <2>6. QED BY <1>4, <2>3, <2>4, <2>5, PlainStep DEF ReceiveJoin, ReceiveMessage, history
<1>5. QED BY <1>2, <1>3, <1>4 DEF Browser

\* The rooms are read from the database, with those of every request that has
\* inserted its row.
LEMMA QueryRoomsKeeps ==
    ASSUME CInv, NEW c \in Conns, QueryRooms(c)
    PROVE  CInv'
<1>1. conn[c] \in Conn /\ InOrder(conn[c]) /\ conn \in [Conns -> Conn]
  BY CInvFacts
<1>2. PICK q : q = {r \in Rooms : Exists(r) /\ UserOf[c] \in Members(r)}
  OBVIOUS
<1>3. PICK x : x = [conn[c] EXCEPT !.pc = "assign", !.queried = q]
  OBVIOUS
<1>4. conn[c].pc = "query" /\ conn' = [conn EXCEPT ![c] = x]
  BY <1>1, <1>2, <1>3 DEF QueryRooms
<1>5. /\ x \in Conn /\ x.pc = "assign" /\ x.visited = conn[c].visited /\ x.queried = q
  BY <1>1, <1>2, <1>3 DEF Conn, Live
<1>6. x.visited = {} /\ x.pc \notin Reading /\ x.pc \in Live /\ conn[c].pc \in Live
  BY <1>1, <1>4, <1>5 DEF InOrder, Reading, Live
<1>7. ASSUME NEW r \in Rooms, Told(creation[r], r, UserOf[c])
      PROVE  Has(x, rooms[c], r)
  <2>1. Exists(r) /\ UserOf[c] \in Members(r)
    BY <1>7 DEF Told, Exists, Members
  <2>2. QED BY <1>2, <1>5, <2>1 DEF Has
<1>8. rooms \in [Conns -> SUBSET Rooms] /\ lost \subseteq Conns /\ missed \subseteq lost
  BY CInvFacts
<1>9. /\ hub' = hub /\ writer' = writer /\ rooms' = rooms /\ closed' = closed
      /\ creation' = creation /\ replaced' = replaced /\ lost' = lost /\ missed' = missed
  BY DEF QueryRooms, history
<1>10. QED BY <1>4, <1>5, <1>6, <1>7, <1>8, <1>9, ConnStep

\* A query that fails leaves its connection without the rooms.
LEMMA QueryFailsKeeps ==
    ASSUME CInv, NEW c \in Conns, QueryFails(c)
    PROVE  CInv'
<1>1. conn[c] \in Conn /\ InOrder(conn[c])
  BY CInvFacts
<1>2. PICK x : x = [conn[c] EXCEPT !.pc = "assign"]
  OBVIOUS
<1>3. conn[c].pc = "query" /\ conn' = [conn EXCEPT ![c] = x]
  BY <1>2 DEF QueryFails, Goto
<1>4. x \in Conn /\ x.pc = "assign" /\ x.visited = conn[c].visited
  BY <1>1, <1>2 DEF Conn, Live
<1>5. x.visited = {} /\ x.pc \notin Reading /\ x.pc \in Live /\ conn[c].pc \in Live
  BY <1>1, <1>3, <1>4 DEF InOrder, Reading, Live
<1>6. rooms \in [Conns -> SUBSET Rooms] /\ lost \subseteq Conns /\ missed \subseteq lost
  BY CInvFacts
<1>7. /\ hub' = hub /\ writer' = writer /\ rooms' = rooms /\ closed' = closed
      /\ creation' = creation /\ replaced' = replaced /\ lost' = lost \cup {c}
      /\ missed' = missed
  BY DEF QueryFails
<1>8. QED BY <1>3, <1>4, <1>5, <1>6, <1>7, ConnStep

\* The rooms that were read replace those appended meanwhile.
LEMMA AssignRoomsKeeps ==
    ASSUME CInv, NEW c \in Conns, AssignRooms(c)
    PROVE  CInv'
<1>1. conn[c] \in Conn /\ InOrder(conn[c]) /\ conn \in [Conns -> Conn]
  BY CInvFacts
<1>2. PICK x : x = [conn[c] EXCEPT !.pc = "read", !.queried = {}]
  OBVIOUS
<1>3. conn[c].pc = "assign" /\ conn' = [conn EXCEPT ![c] = x]
  BY <1>1, <1>2 DEF AssignRooms
<1>4. x \in Conn /\ x.pc = "read" /\ x.visited = conn[c].visited
  BY <1>1, <1>2 DEF Conn, Live
<1>5. x.visited = {} /\ x.pc \notin Reading /\ x.pc \in Live /\ conn[c].pc \in Live
  BY <1>1, <1>3, <1>4 DEF InOrder, Reading, Live
<1>6. rooms \in [Conns -> SUBSET Rooms] /\ lost \subseteq Conns /\ missed \subseteq lost
  BY CInvFacts
<1>7. /\ hub' = hub /\ writer' = writer /\ closed' = closed
      /\ creation' = creation /\ replaced' = replaced /\ missed' = missed
      /\ rooms' = [rooms EXCEPT ![c] = conn[c].queried]
      /\ lost' = IF rooms[c] \subseteq conn[c].queried THEN lost ELSE lost \cup {c}
  BY DEF AssignRooms
<1>8. conn[c].queried \subseteq Rooms
  BY <1>1 DEF Conn
<1>9. /\ rooms' \in [Conns -> SUBSET Rooms] /\ rooms'[c] = conn[c].queried
      /\ \A t \in Conns \ {c} : rooms'[t] = rooms[t]
  BY <1>6, <1>7, <1>8
<1>10. /\ lost' \subseteq Conns /\ lost \subseteq lost' /\ missed' \subseteq lost'
       /\ c \in lost' \/ rooms[c] \subseteq rooms'[c]
  BY <1>6, <1>7, <1>9
<1>11. \A t \in Conns : t \in lost' \/ rooms[t] \subseteq rooms'[t]
  BY <1>9, <1>10
<1>12. ASSUME NEW r \in Rooms, InHub(c), c \notin lost', Told(creation[r], r, UserOf[c])
       PROVE  Has(x, rooms'[c], r)
  <2>1. Has(conn[c], rooms[c], r)
    BY <1>10, <1>12 DEF CInv, RoomsKept
  <2>2. QED BY <1>3, <1>9, <1>10, <1>12, <2>1 DEF Has
<1>13. QED BY <1>3, <1>4, <1>5, <1>7, <1>9, <1>10, <1>11, <1>12, ConnStep

\* A connection joins a room.
LEMMA JoinRoomKeeps ==
    ASSUME CInv, NEW c \in Conns, JoinRoom(c)
    PROVE  CInv'
<1>1. conn[c] \in Conn /\ InOrder(conn[c]) /\ conn \in [Conns -> Conn]
  BY CInvFacts
<1>2. PICK x : x = [conn[c] EXCEPT !.pc = "read", !.room = NoRoom]
  OBVIOUS
<1>3. conn[c].pc = "join" /\ conn' = [conn EXCEPT ![c] = x]
  BY <1>1, <1>2 DEF JoinRoom
<1>4. x \in Conn /\ x.pc = "read" /\ x.visited = conn[c].visited
  BY <1>1, <1>2 DEF Conn, Live
<1>5. x.visited = {} /\ x.pc \notin Reading /\ x.pc \in Live /\ conn[c].pc \in Live
  BY <1>1, <1>3, <1>4 DEF InOrder, Reading, Live
<1>6. rooms \in [Conns -> SUBSET Rooms] /\ lost \subseteq Conns /\ missed \subseteq lost
  BY CInvFacts
<1>7. /\ hub' = hub /\ writer' = writer /\ closed' = closed
      /\ creation' = creation /\ replaced' = replaced /\ missed' = missed /\ lost' = lost
      /\ rooms' = [rooms EXCEPT ![c] = @ \cup {conn[c].room}]
  BY DEF JoinRoom, history
<1>8. conn[c].room \in Rooms
  BY <1>1, <1>3 DEF InOrder
<1>9. /\ rooms' \in [Conns -> SUBSET Rooms]
      /\ \A t \in Conns : rooms[t] \subseteq rooms'[t]
  BY <1>6, <1>7, <1>8
<1>10. ASSUME NEW r \in Rooms, InHub(c), c \notin lost, Told(creation[r], r, UserOf[c])
       PROVE  Has(x, rooms'[c], r)
  <2>1. Has(conn[c], rooms[c], r)
    BY <1>10 DEF CInv, RoomsKept
  <2>2. QED BY <1>3, <1>9, <2>1 DEF Has
<1>11. QED BY <1>3, <1>4, <1>5, <1>6, <1>7, <1>9, <1>10, ConnStep

-----------------------------------------------------------------------------
(* Broadcasts.                                                             *)

\* A broadcast begins with everybody in the hub who is in the room.
LEMMA RLockKeeps ==
    ASSUME CInv, NEW c \in Conns, RLock(c)
    PROVE  CInv'
<1>1. conn[c] \in Conn /\ InOrder(conn[c]) /\ conn \in [Conns -> Conn]
  BY CInvFacts
<1>2. PICK a : a = {t \in Registered : conn[c].room \in rooms[t]}
  OBVIOUS
<1>3. PICK x : x = [conn[c] EXCEPT !.pc = "visit", !.audience = a]
  OBVIOUS
<1>4. conn[c].pc = "broadcast" /\ conn' = [conn EXCEPT ![c] = x]
  BY <1>1, <1>2, <1>3 DEF RLock
<1>5. a \subseteq Conns
  BY <1>2, RegisteredFacts
<1>6. /\ x \in Conn /\ x.pc = "visit" /\ x.visited = conn[c].visited
      /\ x.audience = a /\ x.room = conn[c].room
  BY <1>1, <1>3, <1>5 DEF Conn, Live
<1>7. x.visited = {} /\ x.pc \in Reading /\ x.pc \in Live /\ conn[c].pc \in Live
  BY <1>1, <1>4, <1>6 DEF InOrder, Reading, Live
<1>8. rooms \in [Conns -> SUBSET Rooms] /\ lost \subseteq Conns /\ missed \subseteq lost
  BY CInvFacts
<1>9. /\ hub' = hub /\ writer' = writer /\ rooms' = rooms /\ closed' = closed
      /\ creation' = creation /\ replaced' = replaced /\ lost' = lost /\ missed' = missed
  BY DEF RLock, history
<1>10. \A t \in x.audience : InHub(t) /\ t \notin x.visited /\ x.room \in rooms[t]
  BY <1>2, <1>6, <1>7, RegisteredFacts
<1>11. ASSUME NEW r \in Rooms, InHub(c), c \notin lost, Told(creation[r], r, UserOf[c])
       PROVE  Has(x, rooms[c], r)
  <2>1. Has(conn[c], rooms[c], r)
    BY <1>11 DEF CInv, RoomsKept
  <2>2. QED BY <1>4, <2>1 DEF Has
<1>12. QED BY <1>4, <1>6, <1>7, <1>8, <1>9, <1>10, <1>11, ConnStep

\* A step of a broadcast that goes on, with a smaller audience or the same,
\* keeps the invariant if it counts only those as missed who have lost rooms.
LEMMA BroadcastStep ==
    ASSUME CInv, NEW c \in Conns, NEW x \in Conn,
           conn' = [conn EXCEPT ![c] = x],
           hub' = hub, writer' = writer, rooms' = rooms, closed' = closed,
           creation' = creation, replaced' = replaced, lost' = lost, missed' \subseteq lost,
           conn[c].pc \in Reading, x.pc \in Reading, x.room = conn[c].room,
           x.audience \subseteq conn[c].audience, x.pc = "write" => x.target \in Conns,
           \A t \in x.audience : t \in x.visited => t \in conn[c].visited
    PROVE  CInv'
<1>1. conn[c] \in Conn /\ InOrder(conn[c])
  BY CInvFacts
<1>2. rooms \in [Conns -> SUBSET Rooms] /\ lost \subseteq Conns
  BY CInvFacts
<1>3. x.pc \in Live /\ conn[c].pc \in Live /\ x.pc # "join" /\ conn[c].pc \notin {"query", "assign"}
  BY DEF Reading, Live
<1>4. \A t \in x.audience : InHub(t) /\ t \notin x.visited /\ (t \in lost \/ x.room \in rooms[t])
  BY <1>1 DEF InOrder
<1>5. ASSUME NEW r \in Rooms, InHub(c), c \notin lost, Told(creation[r], r, UserOf[c])
      PROVE  Has(x, rooms[c], r)
  <2>1. Has(conn[c], rooms[c], r)
    BY <1>5 DEF CInv, RoomsKept
  <2>2. QED BY <1>3, <2>1 DEF Has
<1>6. QED BY <1>2, <1>3, <1>4, <1>5, ConnStep

\* The broadcast writes to a client, and is done with him.
LEMMA WriteKeeps ==
    ASSUME CInv, NEW c \in Conns, (\E t \in Conns : WriteTo(c, t)) \/ WriteDone(c)
    PROVE  CInv'
<1>1. conn[c] \in Conn /\ conn \in [Conns -> Conn] /\ missed \subseteq lost /\ InOrder(conn[c])
  BY CInvFacts
<1>2. ASSUME NEW t \in Conns, WriteTo(c, t)
      PROVE  CInv'
  <2>1. PICK x : x = [conn[c] EXCEPT !.pc = "write", !.target = t]
    OBVIOUS
  <2>2. /\ x \in Conn /\ x.pc = "write" /\ x.visited = conn[c].visited
        /\ x.room = conn[c].room /\ x.audience = conn[c].audience /\ x.target = t
    BY <1>1, <2>1 DEF Conn, Live
  <2>3. conn[c].pc = "visit" /\ conn' = [conn EXCEPT ![c] = x]
    BY <1>1, <1>2, <2>1 DEF WriteTo
  <2>4. conn[c].pc \in Reading /\ x.pc \in Reading
    BY <2>2, <2>3 DEF Reading
  <2>5. QED BY <1>1, <1>2, <2>2, <2>3, <2>4, BroadcastStep DEF WriteTo, history
<1>3. CASE WriteDone(c)
  <2>1. PICK x : x = [conn[c] EXCEPT !.pc = "visit", !.target = NoConn,
                                     !.visited = @ \cup {conn[c].target},
                                     !.audience = @ \ {conn[c].target}]
    OBVIOUS
  <2>2. conn[c].pc = "write" /\ conn' = [conn EXCEPT ![c] = x]
    BY <1>1, <1>3, <2>1 DEF WriteDone
  <2>3. conn[c].target \in Conns
    BY <1>1, <2>2 DEF InOrder
  <2>4. /\ x \in Conn /\ x.pc = "visit" /\ x.room = conn[c].room
        /\ x.visited = conn[c].visited \cup {conn[c].target}
        /\ x.audience = conn[c].audience \ {conn[c].target}
    BY <1>1, <2>1, <2>3 DEF Conn, Live
  <2>5. conn[c].pc \in Reading /\ x.pc \in Reading
    BY <2>2, <2>4 DEF Reading
  <2>6. QED BY <1>1, <1>3, <2>2, <2>4, <2>5, BroadcastStep DEF WriteDone, history
<1>4. QED BY <1>2, <1>3

\* The broadcast passes over a client that is not in the room: if he was when it
\* began, he has lost rooms.
LEMMA SkipClientKeeps ==
    ASSUME CInv, NEW c \in Conns, NEW t \in Conns, SkipClient(c, t)
    PROVE  CInv'
<1>1. conn[c] \in Conn /\ conn \in [Conns -> Conn] /\ missed \subseteq lost /\ InOrder(conn[c])
  BY CInvFacts
<1>2. PICK x : x = [conn[c] EXCEPT !.visited = @ \cup {t}, !.audience = @ \ {t}]
  OBVIOUS
<1>3. conn[c].pc = "visit" /\ conn' = [conn EXCEPT ![c] = x]
  BY <1>1, <1>2 DEF SkipClient
<1>4. /\ x \in Conn /\ x.pc = "visit" /\ x.room = conn[c].room
      /\ x.visited = conn[c].visited \cup {t} /\ x.audience = conn[c].audience \ {t}
  BY <1>1, <1>2, <1>3 DEF Conn, Live
<1>5. conn[c].pc \in Reading /\ x.pc \in Reading
  BY <1>3, <1>4 DEF Reading
<1>6. t \in conn[c].audience => t \in lost
  BY <1>1, <1>5 DEF InOrder, SkipClient
<1>7. missed' \subseteq lost
  BY <1>1, <1>6 DEF SkipClient
<1>8. /\ hub' = hub /\ writer' = writer /\ rooms' = rooms /\ closed' = closed
      /\ creation' = creation /\ replaced' = replaced /\ lost' = lost
  BY DEF SkipClient
<1>9. QED BY <1>3, <1>4, <1>5, <1>7, <1>8, BroadcastStep

\* A broadcast that has visited the whole hub has missed nobody.
LEMMA NobodyLeft ==
    ASSUME CInv, NEW c \in Conns, RUnlock(c)
    PROVE  conn[c].audience = {}
<1>1. conn[c].pc \in Reading /\ InOrder(conn[c]) /\ conn[c] \in Conn
  BY CInvFacts DEF RUnlock, Reading
<1>2. conn[c].audience \subseteq Conns
  BY <1>1 DEF Conn
<1>3. \A t \in conn[c].audience : t \in Registered /\ t \notin conn[c].visited
  BY <1>1, <1>2, RegisteredFacts DEF InOrder
<1>4. QED BY <1>3 DEF RUnlock, Unvisited

\* A broadcast ends, in order or with a panic, and its connection goes on.
LEMMA BroadcastEnds ==
    ASSUME CInv, NEW c \in Conns, RUnlock(c) \/ \E t \in Conns : TornRead(c, t)
    PROVE  CInv'
<1>1. conn[c] \in Conn /\ missed \subseteq lost
  BY CInvFacts
<1>2. PICK l \in {"read", "remove"} : conn' = [conn EXCEPT ![c] = [NewConn EXCEPT !.pc = l]]
  BY DEF RUnlock, TornRead
<1>3. PICK x : x = [NewConn EXCEPT !.pc = l]
  OBVIOUS
<1>4. x \in Conn /\ x.pc = l /\ x.visited = {}
  BY <1>3 DEF NewConn, Conn, Live
<1>5. conn[c].pc = "visit"
  BY DEF RUnlock, TornRead
<1>6. /\ x.pc \in Live /\ conn[c].pc \in Live /\ x.pc \notin Reading
      /\ x.pc # "join" /\ conn[c].pc \notin {"query", "assign"}
  BY <1>4, <1>5 DEF Live, Reading
<1>7. missed' = missed
  BY NobodyLeft DEF RUnlock, TornRead, history
<1>8. /\ hub' = hub /\ writer' = writer /\ rooms' = rooms /\ closed' = closed
      /\ creation' = creation /\ replaced' = replaced /\ lost' = lost
  BY DEF RUnlock, TornRead, history
<1>9. QED BY <1>2, <1>3, <1>4, <1>6, <1>7, <1>8, PlainStep

-----------------------------------------------------------------------------
(* Requests that create rooms.                                             *)

\* A request checks, inserts its row, and takes and gives back the read lock.
LEMMA CreationKeeps ==
    ASSUME CInv, NEW r \in Rooms,
           FindRoom(r) \/ InsertRoom(r) \/ RLockHub(r) \/ RUnlockHub(r)
    PROVE  CInv'
<1>1. creation[r] \in Creation /\ Party[r] \in Seq(Users) /\ rooms \in [Conns -> SUBSET Rooms]
  BY CInvFacts
<1>2. Len(Party[r]) \in Nat /\ DOMAIN Party[r] = 1 .. Len(Party[r])
  BY <1>1
<1>3. PICK l \in {"idle", "insert", "inserted", "update", "done"} :
         /\ creation' = [creation EXCEPT ![r].pc = l]
         /\ IF l = "done"
            THEN creation[r].pc = "update" /\ creation[r].at \notin DOMAIN Party[r]
            ELSE creation[r].pc \in {"idle", "insert", "inserted"}
  <2>1. CASE FindRoom(r)
    BY <2>1 DEF FindRoom
  <2>2. CASE InsertRoom(r)
    <3>1. PICK l \in {"inserted", "idle"} : creation' = [creation EXCEPT ![r].pc = l]
      BY <2>2 DEF InsertRoom
    <3>2. creation[r].pc = "insert"
      BY <2>2 DEF InsertRoom
    <3>3. QED BY <3>1, <3>2
  <2>3. CASE RLockHub(r)
    BY <2>3 DEF RLockHub
  <2>4. CASE RUnlockHub(r)
    BY <2>4 DEF RUnlockHub
  <2>5. QED BY <2>1, <2>2, <2>3, <2>4
<1>4. PICK y : y = [creation[r] EXCEPT !.pc = l]
  OBVIOUS
<1>5. y \in Creation /\ y.pc = l /\ y.at = creation[r].at /\ y.at \in Nat
  BY <1>1, <1>4 DEF Creation
<1>6. creation' = [creation EXCEPT ![r] = y]
  BY <1>3, <1>4
<1>7. /\ creation[r].pc \in {"idle", "insert", "inserted"} => creation[r].at = 1
      /\ creation[r].pc = "update" => creation[r].at \in 1 .. (Len(Party[r]) + 1)
  BY DEF CInv, CreationKnown
<1>8. /\ hub' = hub /\ writer' = writer /\ rooms' = rooms /\ closed' = closed /\ conn' = conn
      /\ replaced' = replaced /\ lost' = lost /\ missed' = missed
  BY DEF FindRoom, InsertRoom, RLockHub, RUnlockHub, history
<1>9. CASE l # "done"
  <2>1. y.at = 1 /\ y.pc # "done"
    BY <1>3, <1>5, <1>7, <1>9
  <2>2. y.at \in 1 .. (Len(Party[r]) + 1)
    BY <1>2, <2>1
  <2>3. \A u : ~Told(y, r, u)
    BY <1>2, <2>1 DEF Told
  <2>4. QED BY <1>1, <1>5, <1>6, <1>8, <2>1, <2>2, <2>3, CreationStep
<1>10. CASE l = "done"
  <2>1. creation[r].pc = "update" /\ creation[r].at \notin DOMAIN Party[r]
    BY <1>3, <1>10
  <2>2. creation[r].at = Len(Party[r]) + 1
    BY <1>2, <1>7, <2>1
  <2>3. \A u : Told(y, r, u) => Told(creation[r], r, u)
    BY <1>2, <2>1, <2>2 DEF Told
  <2>4. QED BY <1>1, <1>5, <1>6, <1>8, <1>10, <2>3, CreationStep
<1>11. QED BY <1>9, <1>10

\* The next user of a request is in its room from now on, if he is online.
LEMMA AppendRoomKeeps ==
    ASSUME CInv, NEW r \in Rooms, AppendRoom(r)
    PROVE  CInv'
<1>1. /\ creation[r] \in Creation /\ Party[r] \in Seq(Users)
      /\ rooms \in [Conns -> SUBSET Rooms] /\ hub \in [Users -> Conns \cup {NoConn}]
  BY CInvFacts
<1>2. Len(Party[r]) \in Nat /\ DOMAIN Party[r] = 1 .. Len(Party[r])
  BY <1>1
<1>3. PICK n \in DOMAIN Party[r] : n = creation[r].at
  BY DEF AppendRoom
<1>4. PICK u \in Users : u = Party[r][n]
  BY <1>1, <1>3
<1>5. PICK y : y = [creation[r] EXCEPT !.at = n + 1]
  OBVIOUS
<1>6. creation[r].pc = "update" /\ creation' = [creation EXCEPT ![r] = y]
  BY <1>3, <1>5 DEF AppendRoom
<1>7. y \in Creation /\ y.pc = "update" /\ y.at = n + 1
  <2>1. n + 1 \in Nat
    BY <1>2
  <2>2. QED BY <1>1, <1>5, <1>6, <2>1 DEF Creation
<1>8. /\ hub[u] = NoConn => rooms' = rooms
      /\ hub[u] # NoConn => rooms' = [rooms EXCEPT ![hub[u]] = @ \cup {r}]
  BY <1>3, <1>4 DEF AppendRoom
<1>9. /\ rooms' \in [Conns -> SUBSET Rooms]
      /\ \A c \in Conns : rooms[c] \subseteq rooms'[c]
      /\ hub[u] # NoConn => r \in rooms'[hub[u]]
  <2>1. CASE hub[u] = NoConn
    BY <1>1, <1>8, <2>1
  <2>2. CASE hub[u] # NoConn
    <3>1. PICK t \in Conns : t = hub[u]
      BY <1>1, <2>2
    <3>2. rooms' = [rooms EXCEPT ![t] = rooms[t] \cup {r}]
      BY <1>8, <2>2, <3>1
    <3>3. QED BY <1>1, <3>1, <3>2
  <2>3. QED BY <2>1, <2>2
<1>10. ASSUME NEW c \in Conns, InHub(c), Told(y, r, UserOf[c])
       PROVE  Told(creation[r], r, UserOf[c]) \/ r \in rooms'[c]
  <2>1. PICK i \in DOMAIN Party[r] : Party[r][i] = UserOf[c] /\ i < n + 1
    BY <1>7, <1>10 DEF Told
  <2>2. i \in Nat /\ n \in Nat
    BY <1>2
  <2>3. CASE i = n
    <3>1. hub[u] = c /\ c # NoConn
      BY <1>4, <1>10, <2>1, <2>3 DEF InHub
    <3>2. QED BY <1>9, <3>1
  <2>4. CASE i < n
    BY <1>3, <1>6, <2>1, <2>4 DEF Told
  <2>5. QED BY <2>1, <2>2, <2>3, <2>4
<1>11. /\ hub' = hub /\ writer' = writer /\ closed' = closed /\ conn' = conn
       /\ replaced' = replaced /\ lost' = lost /\ missed' = missed
  BY DEF AppendRoom, history
<1>12. y.at \in 1 .. (Len(Party[r]) + 1)
  BY <1>2, <1>7
<1>13. QED BY <1>6, <1>7, <1>9, <1>10, <1>11, <1>12, CreationStep

-----------------------------------------------------------------------------
(* Connections that join the hub and leave it, and the restart.            *)

\* Without readers no broadcast is under way.
LEMMA NoBroadcast ==
    ASSUME CInv, NoReaders, NEW c \in Conns
    PROVE  conn[c].pc \notin Reading /\ conn[c].visited = {}
BY CInvFacts DEF NoReaders, InOrder

\* A new connection takes the place of its user's earlier one.
LEMMA AddClientKeeps ==
    ASSUME CInv, NEW c \in Conns, AddClient(c)
    PROVE  CInv'
<1>1. /\ conn[c] \in Conn /\ conn \in [Conns -> Conn] /\ InOrder(conn[c])
      /\ hub \in [Users -> Conns \cup {NoConn}]
  BY CInvFacts
<1>2. PICK u \in Users : u = UserOf[c]
  OBVIOUS
<1>3. PICK x : x = [conn[c] EXCEPT !.pc = "query"]
  OBVIOUS
<1>4. /\ conn[c].pc = "add" /\ NoReaders
      /\ conn' = [conn EXCEPT ![c] = x]
      /\ hub' = [hub EXCEPT ![u] = c]
      /\ replaced' = replaced \cup ({hub[u]} \ {NoConn})
      /\ writer' = NoConn
      /\ rooms' = rooms /\ closed' = closed /\ creation' = creation
      /\ lost' = lost /\ missed' = missed
  BY <1>2, <1>3 DEF AddClient, Goto
<1>5. x \in Conn /\ x.pc = "query" /\ x.visited = conn[c].visited
  BY <1>1, <1>3 DEF Conn, Live
<1>6. TypeOK'
  BY <1>1, <1>4, <1>5 DEF CInv, TypeOK
<1>7. /\ \A t \in Conns : conn'[t] = IF t = c THEN x ELSE conn[t]
      /\ \A w \in Users : hub'[w] = IF w = u THEN c ELSE hub[w]
  BY <1>1, <1>4
<1>8. conn[c].pc \notin Live /\ x.pc \in Live /\ x.pc \notin Reading
  BY <1>4, <1>5 DEF Live, Reading
<1>9. c \notin replaced /\ c \notin closed
  BY <1>8 DEF CInv, OnlyLive
<1>10. hub[u] # NoConn => hub[u] \in Conns /\ UserOf[hub[u]] = u /\ conn[hub[u]].pc \in Live
  <2>1. hub[u] # NoConn => hub[u] \in Conns /\ UserOf[hub[u]] = u
    BY <1>1 DEF CInv, HubKnows
  <2>2. hub[u] # NoConn => InHub(hub[u])
    BY <2>1 DEF InHub
  <2>3. QED BY <2>1, <2>2, CInvFacts
<1>11. HubIsLatestOpen'
  <2> SUFFICES ASSUME NEW t \in Conns
               PROVE  hub'[UserOf[t]] = t
                      <=> conn'[t].pc \in Live /\ t \notin replaced' /\ t \notin closed
    BY <1>4 DEF HubIsLatestOpen
  <2>1. CASE t = c
    BY <1>2, <1>4, <1>7, <1>8, <1>9, <1>10, <2>1
  <2>2. CASE t # c /\ UserOf[t] = u
    <3>1. hub'[UserOf[t]] # t /\ conn'[t] = conn[t]
      BY <1>7, <2>2
    <3>2. conn[t].pc \in Live /\ t \notin replaced /\ t \notin closed => t = hub[u]
      BY <2>2, CInvFacts DEF InHub
    <3>3. QED BY <1>4, <3>1, <3>2
  <2>3. CASE t # c /\ UserOf[t] # u
    <3>1. hub'[UserOf[t]] = hub[UserOf[t]] /\ conn'[t] = conn[t]
      BY <1>7, <2>3
    <3>2. t \in replaced' <=> t \in replaced
      BY <1>4, <1>10, <2>3
    <3>3. QED BY <3>1, <3>2, CInvFacts DEF InHub
  <2>4. QED BY <2>1, <2>2, <2>3
<1>12. HubKnows' /\ CreationKnown'
  BY <1>2, <1>4, <1>7 DEF CInv, HubKnows, CreationKnown
<1>13. OnlyLive'
  <2>1. replaced \cup closed \subseteq Conns
    BY CInvFacts
  <2>2. QED BY <1>4, <1>7, <1>8, <1>10, <2>1 DEF CInv, OnlyLive
<1>14. RoomsKept'
  <2> SUFFICES ASSUME NEW t \in Conns, NEW r \in Rooms,
                      hub'[UserOf[t]] = t, t \notin lost, Told(creation[r], r, UserOf[t])
               PROVE  Has(conn'[t], rooms[t], r)
    BY <1>4 DEF RoomsKept, InHub
  <2>1. CASE t = c
    BY <1>5, <1>7, <2>1 DEF Has
  <2>2. CASE t # c
    <3>1. InHub(t) /\ conn'[t] = conn[t]
      BY <1>7, <2>2 DEF InHub
    <3>2. QED BY <3>1 DEF CInv, RoomsKept
  <2>3. QED BY <2>1, <2>2
<1>15. ASSUME NEW t \in Conns PROVE InOrder(conn[t])'
  <2>1. CASE t = c
    BY <1>4, <1>5, <1>7, <1>8, <2>1, NoBroadcast DEF InOrder
  <2>2. CASE t # c
    <3>1. conn[t].pc \notin Reading /\ conn[t].visited = {} /\ InOrder(conn[t])
      BY <1>4, NoBroadcast, CInvFacts
    <3>2. QED BY <1>7, <2>2, <3>1 DEF InOrder
  <2>3. QED BY <2>1, <2>2
<1>16. QED
  BY <1>4, <1>6, <1>11, <1>12, <1>13, <1>14, <1>15 DEF CInv

\* A connection that ends closes whatever connection its user has by now.
LEMMA RemoveClientKeeps ==
    ASSUME CInv, NEW c \in Conns, RemoveClient(c)
    PROVE  CInv'
<1>1. /\ conn[c] \in Conn /\ conn \in [Conns -> Conn] /\ rooms \in [Conns -> SUBSET Rooms]
      /\ hub \in [Users -> Conns \cup {NoConn}]
  BY CInvFacts
<1>2. PICK u \in Users : u = UserOf[c]
  OBVIOUS
<1>3. PICK x : x = [NewConn EXCEPT !.pc = "gone"]
  OBVIOUS
<1>4. /\ conn[c].pc = "remove" /\ NoReaders
      /\ conn' = [conn EXCEPT ![c] = x]
      /\ hub' = [hub EXCEPT ![u] = NoConn]
      /\ closed' = (closed \cup {hub[u]}) \ {c, NoConn}
      /\ replaced' = replaced \ {c} /\ lost' = lost \ {c} /\ missed' = missed \ {c}
      /\ writer' = NoConn
      /\ rooms' = [rooms EXCEPT ![c] = {}] /\ creation' = creation
  BY <1>2, <1>3 DEF RemoveClient
<1>5. x \in Conn /\ x.pc = "gone" /\ x.visited = {}
  BY <1>3 DEF NewConn, Conn
<1>6. TypeOK'
  BY <1>1, <1>4, <1>5 DEF CInv, TypeOK
<1>7. /\ \A t \in Conns : conn'[t] = IF t = c THEN x ELSE conn[t]
      /\ \A t \in Conns : t # c => rooms'[t] = rooms[t]
      /\ \A w \in Users : hub'[w] = IF w = u THEN NoConn ELSE hub[w]
  BY <1>1, <1>4
<1>8. x.pc \notin Live /\ x.pc \notin Reading
  BY <1>5 DEF Live, Reading
<1>9. hub[u] # NoConn => hub[u] \in Conns /\ UserOf[hub[u]] = u /\ conn[hub[u]].pc \in Live
  <2>1. hub[u] # NoConn => hub[u] \in Conns /\ UserOf[hub[u]] = u
    BY <1>1 DEF CInv, HubKnows
  <2>2. hub[u] # NoConn => InHub(hub[u])
    BY <2>1 DEF InHub
  <2>3. QED BY <2>1, <2>2, CInvFacts
<1>10. HubIsLatestOpen'
  <2> SUFFICES ASSUME NEW t \in Conns
               PROVE  hub'[UserOf[t]] = t
                      <=> conn'[t].pc \in Live /\ t \notin replaced' /\ t \notin closed'
    BY DEF HubIsLatestOpen
  <2>1. CASE t = c
    BY <1>2, <1>7, <1>8, <2>1
  <2>2. CASE t # c /\ UserOf[t] = u
    <3>1. hub'[UserOf[t]] # t /\ conn'[t] = conn[t]
      BY <1>7, <2>2
    <3>2. conn[t].pc \in Live /\ t \notin replaced /\ t \notin closed => t = hub[u]
      BY <2>2, CInvFacts DEF InHub
    <3>3. QED BY <1>4, <2>2, <3>1, <3>2
  <2>3. CASE t # c /\ UserOf[t] # u
    <3>1. hub'[UserOf[t]] = hub[UserOf[t]] /\ conn'[t] = conn[t]
      BY <1>7, <2>3
    <3>2. (t \in replaced' <=> t \in replaced) /\ (t \in closed' <=> t \in closed)
      BY <1>4, <1>9, <2>3
    <3>3. QED BY <3>1, <3>2, CInvFacts DEF InHub
  <2>4. QED BY <2>1, <2>2, <2>3
<1>11. HubKnows' /\ CreationKnown'
  BY <1>4, <1>7 DEF CInv, HubKnows, CreationKnown
<1>12. OnlyLive'
  <2>1. replaced \cup closed \subseteq Conns
    BY CInvFacts
  <2>2. QED BY <1>4, <1>7, <1>9, <2>1 DEF CInv, OnlyLive
<1>13. RoomsKept'
  <2> SUFFICES ASSUME NEW t \in Conns, NEW r \in Rooms,
                      hub'[UserOf[t]] = t, t \notin lost', Told(creation[r], r, UserOf[t])
               PROVE  Has(conn'[t], rooms'[t], r)
    BY <1>4 DEF RoomsKept, InHub
  <2>1. t # c /\ UserOf[t] # u
    BY <1>2, <1>7
  <2>2. InHub(t) /\ conn'[t] = conn[t] /\ rooms'[t] = rooms[t] /\ t \notin lost
    BY <1>4, <1>7, <2>1 DEF InHub
  <2>3. QED BY <2>2 DEF CInv, RoomsKept
<1>14. ASSUME NEW t \in Conns PROVE InOrder(conn[t])'
  <2>1. CASE t = c
    BY <1>5, <1>7, <1>8, <2>1 DEF InOrder
  <2>2. CASE t # c
    <3>1. conn[t].pc \notin Reading /\ conn[t].visited = {} /\ InOrder(conn[t])
      BY <1>4, NoBroadcast, CInvFacts
    <3>2. QED BY <1>7, <2>2, <3>1 DEF InOrder
  <2>3. QED BY <2>1, <2>2
<1>15. missed' \subseteq lost'
  BY <1>4, CInvFacts
<1>16. QED
  BY <1>6, <1>10, <1>11, <1>12, <1>13, <1>14, <1>15 DEF CInv

\* After a restart there is no connection and no request under way.
LEMMA RestartKeeps ==
    ASSUME CInv, Restart
    PROVE  CInv'
<1>1. /\ hub' = [u \in Users |-> NoConn] /\ writer' = NoConn /\ closed' = {}
      /\ rooms' = [c \in Conns |-> {}]
      /\ replaced' = {} /\ lost' = {} /\ missed' = {}
  BY DEF Restart
<1>2. ASSUME NEW c \in Conns
      PROVE  /\ conn'[c] \in Conn /\ conn'[c].pc \in {"idle", "gone"}
             /\ conn'[c].visited = {}
  <2>1. conn[c] \in Conn /\ InOrder(conn[c])
    BY CInvFacts
  <2>2. conn'[c] = IF conn[c].pc = "idle" THEN conn[c] ELSE [NewConn EXCEPT !.pc = "gone"]
    BY DEF Restart
  <2>3. CASE conn[c].pc = "idle"
    BY <2>1, <2>2, <2>3 DEF InOrder, Reading
  <2>4. CASE conn[c].pc # "idle"
    BY <2>2, <2>4 DEF NewConn, Conn
  <2>5. QED BY <2>3, <2>4
<1>3. ASSUME NEW r \in Rooms
      PROVE  /\ creation'[r] \in Creation
             /\ creation'[r].pc \in {"idle", "done"}
             /\ creation'[r].pc = "idle" => creation'[r].at = 1
  <2>1. PICK y : y = creation[r]
    OBVIOUS
  <2>2. y \in Creation /\ (y.pc \in {"idle", "insert"} => y.at = 1)
    BY <2>1, CInvFacts DEF CInv, CreationKnown
  <2>3. creation'[r] = CASE y.pc = "insert" -> [y EXCEPT !.pc = "idle"]
                         [] y.pc \in {"inserted", "update"} -> [y EXCEPT !.pc = "done"]
                         [] OTHER -> y
    BY <2>1 DEF Restart
  <2>4. CASE y.pc = "insert"
    <3>1. creation'[r] = [y EXCEPT !.pc = "idle"]
      BY <2>3, <2>4
    <3>2. QED BY <2>2, <2>4, <3>1 DEF Creation
  <2>5. CASE y.pc \in {"inserted", "update"}
    <3>1. creation'[r] = [y EXCEPT !.pc = "done"]
      BY <2>3, <2>5
    <3>2. QED BY <2>2, <3>1 DEF Creation
  <2>6. CASE y.pc \in {"idle", "done"}
    <3>1. creation'[r] = y
      BY <2>3, <2>6
    <3>2. QED BY <2>2, <2>6, <3>1
  <2>7. QED BY <2>2, <2>4, <2>5, <2>6 DEF Creation
<1>4. TypeOK'
  <2>1. conn' \in [Conns -> Conn]
    BY <1>2 DEF Restart
  <2>2. creation' \in [Rooms -> Creation]
    BY <1>3 DEF Restart
  <2>3. QED BY <1>1, <2>1, <2>2 DEF TypeOK
<1>5. HubIsLatestOpen' /\ HubKnows' /\ OnlyLive'
  <2>1. \A c \in Conns : conn'[c].pc \notin Live /\ hub'[UserOf[c]] # c
    BY <1>1, <1>2 DEF Live
  <2>2. QED BY <1>1, <2>1 DEF HubIsLatestOpen, HubKnows, OnlyLive
<1>6. CreationKnown' /\ RoomsKept'
  BY <1>1, <1>3 DEF CreationKnown, RoomsKept, InHub
<1>7. ASSUME NEW c \in Conns PROVE InOrder(conn[c])'
  <2>1. conn'[c].pc \notin Reading \cup {"join", "write"}
    BY <1>2 DEF Reading
  <2>2. QED BY <1>2, <2>1 DEF InOrder
<1>8. QED BY <1>1, <1>4, <1>5, <1>6, <1>7 DEF CInv

-----------------------------------------------------------------------------
(* The invariant and what follows from it.                                 *)

\* At first the hub is empty and nothing has been asked for.
LEMMA CInvInit == Init => CInv
<1> SUFFICES ASSUME Init PROVE CInv
  OBVIOUS
<1>1. NewConn \in Conn /\ NewConn.pc = "idle" /\ NewConn.visited = {}
  BY DEF NewConn, Conn
<1>2. conn \in [Conns -> Conn] /\ \A c \in Conns : conn[c] = NewConn
  BY <1>1 DEF Init
<1>3. creation \in [Rooms -> Creation]
  BY DEF Init, Creation
<1>4. TypeOK
  BY <1>2, <1>3 DEF Init, TypeOK
<1>5. HubIsLatestOpen /\ HubKnows /\ OnlyLive /\ CreationKnown /\ RoomsKept
  BY <1>1, <1>2 DEF Init, HubIsLatestOpen, HubKnows, OnlyLive, CreationKnown, RoomsKept,
                    InHub, Live
<1>6. \A c \in Conns : InOrder(conn[c])
  BY <1>1, <1>2 DEF InOrder, Reading
<1>7. QED BY <1>4, <1>5, <1>6 DEF Init, CInv

\* Every step of the connections, of the requests and of the server keeps it.
LEMMA CInvStep == CInv /\ [Next]_vars => CInv'
<1> SUFFICES ASSUME CInv, [Next]_vars PROVE CInv'
  OBVIOUS
<1>1. ASSUME NEW c \in Conns, GoOn(c)
      PROVE  CInv'
  <2>1. CASE Lock(c) \/ AddClient(c) \/ RemoveClient(c)
    BY <2>1, LockKeeps, AddClientKeeps, RemoveClientKeeps
  <2>2. CASE QueryRooms(c) \/ QueryFails(c) \/ AssignRooms(c) \/ JoinRoom(c)
    BY <2>2, QueryRoomsKeeps, QueryFailsKeeps, AssignRoomsKeeps, JoinRoomKeeps
  <2>3. CASE RLock(c) \/ WriteDone(c) \/ RUnlock(c)
    BY <2>3, RLockKeeps, WriteKeeps, BroadcastEnds
  <2>4. ASSUME NEW t \in Conns, WriteTo(c, t) \/ SkipClient(c, t) \/ TornRead(c, t)
        PROVE  CInv'
    BY <2>4, WriteKeeps, SkipClientKeeps, BroadcastEnds
  <2>5. QED BY <1>1, <2>1, <2>2, <2>3, <2>4 DEF GoOn
<1>2. ASSUME NEW c \in Conns, Browser(c)
      PROVE  CInv'
  BY <1>2, BrowserKeeps
<1>3. ASSUME NEW r \in Rooms, FindRoom(r) \/ CreateRoom(r)
      PROVE  CInv'
  BY <1>3, CreationKeeps, AppendRoomKeeps DEF CreateRoom
<1>4. CASE Restart
  BY <1>4, RestartKeeps
<1>5. CASE UNCHANGED vars
  BY <1>5 DEF vars, history, CInv, TypeOK, HubIsLatestOpen, HubKnows, OnlyLive, CreationKnown,
              RoomsKept, InOrder, InHub
<1>6. QED BY <1>1, <1>2, <1>3, <1>4, <1>5 DEF Next

\* The invariant of the chat server.
THEOREM ChatHubInvariant == Spec => []CInv
<1>1. Init => CInv
  BY CInvInit
<1>2. CInv /\ [Next]_vars => CInv'
  BY CInvStep
<1>3. QED BY <1>1, <1>2, PTL DEF Spec

\* The hub holds for each user the latest of his connections, until the server
\* has closed that one's socket.
THEOREM HubHoldsLatest == Spec => []HubInv
<1>1. CInv => HubInv
  BY DEF CInv, HubInv
<1>2. QED BY <1>1, ChatHubInvariant, PTL

\* A connection that has loaded its rooms is in every room of its user whose
\* creation is complete, but for a failed query and the overwritten rooms.
THEOREM LoadedRoomsAreComplete == Spec => []RoomsLoaded
<1>1. CInv => RoomsLoaded
  <2> SUFFICES ASSUME CInv, NEW u \in Users,
                      hub[u] # NoConn, conn[hub[u]].pc \notin {"query", "assign"},
                      hub[u] \notin lost,
                      NEW r \in Rooms, creation[r].pc = "done", u \in Members(r)
               PROVE  r \in rooms[hub[u]]
    BY DEF RoomsLoaded
  <2>1. PICK c \in Conns : c = hub[u]
    BY CInvFacts
  <2>2. UserOf[c] = u /\ InHub(c)
    BY <2>1 DEF CInv, HubKnows, InHub
  <2>3. Told(creation[r], r, u)
    BY DEF Told, Members
  <2>4. Has(conn[c], rooms[c], r)
    BY <2>1, <2>2, <2>3 DEF CInv, RoomsKept
  <2>5. QED BY <2>1, <2>4 DEF Has
<1>2. QED BY <1>1, ChatHubInvariant, PTL

\* A broadcast misses none of those who were in the hub and in the room when it
\* began, but for connections that have lost rooms.
THEOREM BroadcastsReach == Spec => []BroadcastReaches
<1>1. CInv => BroadcastReaches
  BY DEF CInv, BroadcastReaches
<1>2. QED BY <1>1, ChatHubInvariant, PTL

\* The server closes a connection that has not ended only when an elder one of
\* the same user ends, which was replaced or closed before.
THEOREM ClosedByElderOnly == Spec => ClosedByElder
<1>1. CInv /\ [Next]_vars =>
        [\A c \in closed' \ closed :
            \E d \in replaced \cup closed : UserOf[d] = UserOf[c] /\ RemoveClient(d)]_vars
  <2> SUFFICES ASSUME CInv, Next, NEW c \in closed' \ closed
               PROVE  \E d \in replaced \cup closed : UserOf[d] = UserOf[c] /\ RemoveClient(d)
    OBVIOUS
  <2>1. ASSUME NEW d \in Conns, RemoveClient(d)
        PROVE  d \in replaced \cup closed /\ UserOf[d] = UserOf[c]
    <3>1. c = hub[UserOf[d]] /\ c # d /\ c # NoConn
      BY <2>1 DEF RemoveClient
    <3>2. UserOf[d] \in Users /\ UserOf[c] = UserOf[d]
      BY <3>1, CInvFacts DEF CInv, HubKnows
    <3>3. conn[d].pc \in Live /\ ~InHub(d)
      BY <2>1, <3>1 DEF RemoveClient, Live, InHub
    <3>4. QED BY <3>2, <3>3, CInvFacts
  <2>2. ASSUME NEW d \in Conns, GoOn(d)
        PROVE  RemoveClient(d)
    BY <2>2 DEF GoOn, Lock, AddClient, QueryRooms, QueryFails, AssignRooms, JoinRoom, RLock,
                WriteDone, RUnlock, WriteTo, SkipClient, TornRead
  <2>3. ASSUME NEW d \in Conns, Browser(d)
        PROVE  FALSE
    BY <2>3 DEF Browser, Connect, ReadFails, ReceiveJoin, ReceiveMessage
  <2>4. ASSUME NEW r \in Rooms, FindRoom(r) \/ CreateRoom(r)
        PROVE  FALSE
    BY <2>4 DEF FindRoom, CreateRoom, InsertRoom, RLockHub, AppendRoom, RUnlockHub
  <2>5. ~Restart
    BY DEF Restart
  <2>6. PICK d \in Conns : RemoveClient(d)
    BY <2>2, <2>3, <2>4, <2>5 DEF Next
  <2>7. QED BY <2>1, <2>6
<1>2. QED BY <1>1, ChatHubInvariant, PTL DEF Spec, ClosedByElder


-----------------------------------------------------------------------------
(***************************************************************************)
(* The client.                                                             *)
(***************************************************************************)
(***************************************************************************)
(* Sockets.  A socket that the store has while the page is not shown was   *)
(* made by a timer: the page takes its own along when it goes.             *)
(***************************************************************************)
LeftBehind == ~mounted /\ socket # NoSocket => sock[socket].timed

SocketsInv == ClientTypeOK /\ ReconnectComes /\ SocketIsOwn /\ LeftBehind

(***************************************************************************)
(* Messages.  What is stored or shown was sent.  The message on its way    *)
(* can be in the list already only by the last page.  A page that was      *)
(* answered with the first n messages has every message that was shown     *)
(* when it was asked for and is stored by now: later ones come after them. *)
(***************************************************************************)
FetchKnown(f) ==
    /\ f.n <= Len(db) /\ f.heard \subseteq 1..sent
    /\ f.state = "answered" =>
          \A m \in f.heard : m \in ToSet(db) => \E k \in 1..f.n : db[k] = m

ListInv ==
    /\ Len(db) <= sent
    /\ ToSet(db) \subseteq 1..sent
    /\ ToSet(messages) \subseteq 1..sent
    /\ heard \subseteq 1..sent
    /\ flying # 0 /\ flying \in ToSet(messages) => flying \in ToSet(page)
    /\ RepeatedOnlyByPage
    /\ \A f \in fetches : FetchKnown(f)

USE SocketAssumption, BoundAssumption

-----------------------------------------------------------------------------
(* Operators.                                                              *)

\* A socket that ends keeps everything but its state.
LEMMA EndedFacts ==
    ASSUME ClientTypeOK, NEW s \in Sockets
    PROVE  /\ Ended(s) \in [Sockets -> Socket]
           /\ Ended(s)[s].state = "ending"
           /\ \A x \in Sockets :
                 /\ x # s => Ended(s)[x] = sock[x]
                 /\ Ended(s)[x].user = sock[x].user
                 /\ Ended(s)[x].timed = sock[x].timed
                 /\ Ended(s)[x].disowned = sock[x].disowned
<1>1. sock \in [Sockets -> Socket]
  BY Zenon DEF ClientTypeOK
<1>2. ASSUME NEW o \in Socket
      PROVE  LET e == [o EXCEPT !.state = "ending"]
             IN  /\ e \in Socket /\ e.state = "ending" /\ e.user = o.user
                 /\ e.timed = o.timed /\ e.disowned = o.disowned
  BY <1>2 DEF Socket
<1>3. [sock[s] EXCEPT !.state = "ending"] \in Socket /\ sock[s] \in Socket
  BY <1>1, <1>2
<1>4. /\ Ended(s) \in [Sockets -> Socket]
      /\ Ended(s)[s] = [sock[s] EXCEPT !.state = "ending"]
      /\ \A x \in Sockets : x # s => Ended(s)[x] = sock[x]
  BY <1>1, <1>3 DEF Ended
<1>5. QED
  <2>1. /\ Ended(s)[s].state = "ending" /\ Ended(s)[s].user = sock[s].user
        /\ Ended(s)[s].timed = sock[s].timed /\ Ended(s)[s].disowned = sock[s].disowned
    BY <1>2, <1>3, <1>4
  <2>2. QED BY <1>4, <2>1, Zenon

\* connect leaves the store with the socket it has, or with a new one.
LEMMA ConnectFacts ==
    ASSUME ClientTypeOK, NEW u \in Accounts, NEW b \in BOOLEAN, connect(u, b)
    PROVE  /\ socket' \in Sockets /\ sock' \in [Sockets -> Socket]
           /\ \/ socket # NoSocket /\ UNCHANGED <<socket, sock>>
              \/ /\ socket = NoSocket
                 /\ sock'[socket'].user = u /\ sock'[socket'].timed = b
                 /\ \A x \in Sockets \ {socket'} : sock'[x] = sock[x]
<1>1. CASE socket # NoSocket
  BY <1>1 DEF connect, ClientTypeOK
<1>2. CASE socket = NoSocket
  <2> DEFINE x == [state |-> "connecting", user |-> u, timed |-> b, disowned |-> FALSE]
  <2>1. x \in Socket /\ x.user = u /\ x.timed = b
    BY DEF Socket
  <2> HIDE DEF x
  <2>2. PICK s \in Sockets \ held : socket' = s /\ sock' = [sock EXCEPT ![s] = x]
    BY <1>2 DEF connect, x
  <2>3. QED BY <1>2, <2>1, <2>2 DEF ClientTypeOK
<1>3. QED BY <1>1, <1>2

\* The elements of a sequence are the values at its indices.
LEMMA ToSetFacts ==
    ASSUME NEW S, NEW s \in Seq(S)
    PROVE  /\ \A i \in 1..Len(s) : s[i] \in ToSet(s)
           /\ \A m \in ToSet(s) : \E i \in 1..Len(s) : s[i] = m
           /\ ToSet(s) \subseteq S
BY LenProperties, ElementOfSeq DEF ToSet

\* A page has the first messages, as many as there are or as fit.
LEMMA PageFacts ==
    ASSUME ClientTypeOK, NEW n \in Nat, n <= Len(db)
    PROVE  /\ Page(n) \in Seq(Message)
           /\ Len(Page(n)) = IF n < PageSize THEN n ELSE PageSize
           /\ \A i \in 1..Len(Page(n)) : Page(n)[i] = db[i]
           /\ ToSet(Page(n)) \subseteq ToSet(db)
<1> DEFINE m == IF n < PageSize THEN n ELSE PageSize
<1>1. /\ db \in Seq(Message) /\ m \in Nat /\ m <= Len(db) /\ Len(db) \in Nat
  BY LenProperties DEF ClientTypeOK
<1>2. Page(n) = SubSeq(db, 1, m)
  BY DEF Page
<1> HIDE DEF m
<1>3. \A i \in 1..m : db[i] \in Message
  BY <1>1, ElementOfSeq
<1>4. /\ SubSeq(db, 1, m) \in Seq(Message) /\ Len(SubSeq(db, 1, m)) = m
      /\ \A i \in 1..m : SubSeq(db, 1, m)[i] = db[i]
  BY <1>1, <1>3, SubSeqProperties
<1>5. ToSet(Page(n)) \subseteq ToSet(db)
  <2>1. \A i \in 1..m : db[i] \in ToSet(db)
    BY <1>1, ToSetFacts
  <2>2. \A x \in ToSet(Page(n)) : \E i \in 1..m : x = db[i]
    <3> DEFINE s == SubSeq(db, 1, m)
    <3>1. s \in Seq(Message) /\ Len(s) = m /\ \A i \in 1..m : s[i] = db[i]
      BY <1>4
    <3> HIDE DEF s
    <3>2. \A x \in ToSet(s) : \E i \in 1..Len(s) : s[i] = x
      BY <3>1, ToSetFacts
    <3>3. \A x \in ToSet(s) : \E i \in 1..m : x = db[i]
      BY <3>1, <3>2
    <3>4. QED BY <1>2, <3>3 DEF s
  <2>3. QED BY <2>1, <2>2
<1>6. QED BY <1>2, <1>4, <1>5 DEF m

\* A message that is appended comes after all, and is the only new one.
LEMMA AppendFacts ==
    ASSUME NEW S, NEW s \in Seq(S), NEW m \in S
    PROVE  /\ Append(s, m) \in Seq(S) /\ Len(Append(s, m)) = Len(s) + 1
           /\ Append(s, m)[Len(s) + 1] = m
           /\ \A i \in 1..Len(s) : Append(s, m)[i] = s[i]
           /\ ToSet(Append(s, m)) = ToSet(s) \cup {m}
<1>1. /\ Append(s, m) \in Seq(S) /\ Len(Append(s, m)) = Len(s) + 1
      /\ Append(s, m)[Len(s) + 1] = m /\ Len(s) \in Nat
      /\ \A i \in 1..Len(s) : Append(s, m)[i] = s[i]
  OBVIOUS
<1>2. ToSet(Append(s, m)) = ToSet(s) \cup {m}
  <2>1. DOMAIN Append(s, m) = 1..(Len(s) + 1) /\ DOMAIN s = 1..Len(s)
    BY <1>1, LenProperties
  <2>2. \A i \in 1..(Len(s) + 1) : i \in 1..Len(s) \/ i = Len(s) + 1
    BY <1>1
  <2>3. 1..Len(s) \subseteq 1..(Len(s) + 1) /\ Len(s) + 1 \in 1..(Len(s) + 1)
    BY <1>1
  <2>4. QED BY <1>1, <2>1, <2>2, <2>3, Zenon DEF ToSet
<1>3. QED BY <1>1, <1>2

\* What is appended as a sequence, is shown after what there was.
LEMMA ConcatFacts ==
    ASSUME NEW S, NEW s \in Seq(S), NEW w \in Seq(S)
    PROVE  /\ s \o w \in Seq(S) /\ Len(s \o w) = Len(s) + Len(w)
           /\ \A i \in 1..(Len(s) + Len(w)) :
                 (s \o w)[i] = IF i <= Len(s) THEN s[i] ELSE w[i - Len(s)]
           /\ ToSet(s \o w) = ToSet(s) \cup ToSet(w)
<1> DEFINE z == s \o w
<1>1. /\ z \in Seq(S) /\ Len(z) = Len(s) + Len(w)
      /\ \A i \in 1..(Len(s) + Len(w)) : z[i] = IF i <= Len(s) THEN s[i] ELSE w[i - Len(s)]
  BY ConcatProperties
<1> HIDE DEF z
<1>2. Len(s) \in Nat /\ Len(w) \in Nat
  BY LenProperties
<1>3. ToSet(z) \subseteq ToSet(s) \cup ToSet(w)
  <2> SUFFICES ASSUME NEW m \in ToSet(z) PROVE m \in ToSet(s) \cup ToSet(w)
    OBVIOUS
  <2>1. PICK i \in 1..Len(z) : z[i] = m
    <3>1. z \in Seq(S)
      BY <1>1
    <3>2. \A x \in ToSet(z) : \E i \in 1..Len(z) : z[i] = x
      BY <3>1, ToSetFacts
    <3>3. QED BY <3>2
  <2>2. CASE i <= Len(s)
    <3>1. i \in 1..Len(s) /\ s[i] = m
      BY <1>1, <1>2, <2>1, <2>2
    <3>2. QED BY <3>1, ToSetFacts
  <2>3. CASE ~(i <= Len(s))
    <3>1. i - Len(s) \in 1..Len(w) /\ w[i - Len(s)] = m
      BY <1>1, <1>2, <2>1, <2>3
    <3>2. QED BY <3>1, ToSetFacts
  <2>4. QED BY <2>2, <2>3
<1>4. ToSet(s) \subseteq ToSet(z)
  <2> SUFFICES ASSUME NEW m \in ToSet(s) PROVE m \in ToSet(z)
    OBVIOUS
  <2>1. PICK i \in 1..Len(s) : s[i] = m
    BY ToSetFacts
  <2>2. i \in 1..Len(z) /\ z[i] = m
    BY <1>1, <1>2, <2>1
  <2>3. QED BY <1>1, <2>2, ToSetFacts
<1>5. ToSet(w) \subseteq ToSet(z)
  <2> SUFFICES ASSUME NEW m \in ToSet(w) PROVE m \in ToSet(z)
    OBVIOUS
  <2>1. PICK i \in 1..Len(w) : w[i] = m
    BY ToSetFacts
  <2>2. PICK j \in 1..Len(z) : j = Len(s) + i
    BY <1>1, <1>2
  <2>3. z[j] = m
    BY <1>1, <1>2, <2>1, <2>2
  <2>4. QED BY <1>1, <2>3, ToSetFacts
<1>6. QED BY <1>1, <1>3, <1>4, <1>5 DEF z

-----------------------------------------------------------------------------
(* Sockets.                                                                *)

\* A step that leaves the page and the store's socket alone, and of the other
\* sockets changes no owner and opens none, preserves what is said of them.
LEMMA QuietSocketStep ==
    ASSUME ReconnectComes, SocketIsOwn, LeftBehind, ClientTypeOK,
           UNCHANGED <<user, mounted, socket, timers>>,
           \A s \in Sockets :
              /\ sock'[s].user = sock[s].user /\ sock'[s].timed = sock[s].timed
              /\ sock'[s].disowned = sock[s].disowned
              /\ sock'[s].state \in {"connecting", "open"}
                    => sock[s].state \in {"connecting", "open"}
    PROVE  ReconnectComes' /\ SocketIsOwn' /\ LeftBehind'
<1>1. socket \in Sockets \cup {NoSocket}
  BY DEF ClientTypeOK
<1>2. ReconnectComes'
  BY DEF ReconnectComes
<1>3. ImpostorOnlyByTimer' /\ LeftBehind'
  BY <1>1 DEF SocketIsOwn, ImpostorOnlyByTimer, LeftBehind
<1>4. StrayOnlyByLateClose'
  BY DEF SocketIsOwn, StrayOnlyByLateClose
<1>5. QED BY <1>2, <1>3, <1>4 DEF SocketIsOwn

\* The page appears: what it connects, it connects as the user.
LEMMA MountStep ==
    ASSUME ClientTypeOK, ReconnectComes, SocketIsOwn, LeftBehind, Mount
    PROVE  ReconnectComes' /\ SocketIsOwn' /\ LeftBehind'
<1>1. user \in Accounts /\ connect(user, FALSE) /\ ~mounted /\ mounted' /\ user' = user
  BY DEF ClientTypeOK, Mount
<1>2. socket' \in Sockets /\ sock' \in [Sockets -> Socket]
  BY <1>1, ConnectFacts
<1>3. ReconnectComes' /\ LeftBehind'
  BY <1>1, <1>2 DEF ReconnectComes, LeftBehind
<1>4. CASE socket # NoSocket /\ UNCHANGED <<socket, sock>>
  BY <1>1, <1>3, <1>4 DEF SocketIsOwn, ImpostorOnlyByTimer, StrayOnlyByLateClose, LeftBehind
<1>5. CASE /\ socket = NoSocket
           /\ sock'[socket'].user = user
           /\ \A x \in Sockets \ {socket'} : sock'[x] = sock[x]
  BY <1>1, <1>2, <1>3, <1>5 DEF SocketIsOwn, ImpostorOnlyByTimer, StrayOnlyByLateClose
<1>6. QED BY <1>1, <1>4, <1>5, ConnectFacts

\* A timer connects as a user who may have left, and says so.
LEMMA TimerStep ==
    ASSUME ClientTypeOK, ReconnectComes, SocketIsOwn, LeftBehind, NEW u \in Accounts, Timer(u)
    PROVE  ReconnectComes' /\ SocketIsOwn' /\ LeftBehind'
<1>1. connect(u, TRUE) /\ UNCHANGED <<user, mounted>>
  BY DEF Timer
<1>2. socket' \in Sockets /\ sock' \in [Sockets -> Socket]
  BY <1>1, ConnectFacts
<1>3. ReconnectComes'
  BY <1>2 DEF ReconnectComes
<1>4. CASE socket # NoSocket /\ UNCHANGED <<socket, sock>>
  BY <1>1, <1>3, <1>4 DEF SocketIsOwn, ImpostorOnlyByTimer, StrayOnlyByLateClose, LeftBehind
<1>5. CASE /\ socket = NoSocket
           /\ sock'[socket'].timed = TRUE
           /\ \A x \in Sockets \ {socket'} : sock'[x] = sock[x]
  BY <1>1, <1>2, <1>3, <1>5
     DEF SocketIsOwn, ImpostorOnlyByTimer, StrayOnlyByLateClose, LeftBehind
<1>6. QED BY <1>1, <1>4, <1>5, ConnectFacts

\* The page goes and takes the store's socket along.
LEMMA UnmountStep ==
    ASSUME ClientTypeOK, ReconnectComes, SocketIsOwn, LeftBehind, Unmount
    PROVE  ReconnectComes' /\ SocketIsOwn' /\ LeftBehind'
<1>1. /\ ~mounted' /\ socket' = NoSocket
      /\ sock' = IF socket = NoSocket THEN sock ELSE Ended(socket)
      /\ socket \in Sockets \cup {NoSocket}
  BY DEF Unmount, ClientTypeOK
<1>2. StrayOnlyByLateClose'
  BY <1>1, EndedFacts DEF SocketIsOwn, StrayOnlyByLateClose
<1>3. QED BY <1>1, <1>2 DEF ReconnectComes, SocketIsOwn, ImpostorOnlyByTimer, LeftBehind

\* The store forgets its socket, which is marked, and a timer is set.
LEMMA OnCloseStep ==
    ASSUME ClientTypeOK, ReconnectComes, SocketIsOwn, LeftBehind, NEW s \in Sockets, OnClose(s)
    PROVE  ReconnectComes' /\ SocketIsOwn' /\ LeftBehind'
<1>1. /\ socket' = NoSocket
      /\ \A x \in Sockets \ {s} : sock'[x] = [sock[x] EXCEPT !.disowned = @ \/ x = socket]
      /\ sock'[s] = [sock[s] EXCEPT !.state = "closed", !.timed = FALSE, !.disowned = FALSE]
  BY DEF OnClose
<1>2. \A x \in Sockets : sock[x] \in Socket
  BY DEF ClientTypeOK
<1>3. ReconnectComes'
  <2>1. PICK u \in Accounts : u = sock[s].user
    BY <1>2 DEF Socket
  <2>2. timers' = [timers EXCEPT ![u] = timers[u] + 1]
    BY <2>1 DEF OnClose
  <2>3. timers'[u] = timers[u] + 1 /\ timers[u] \in Nat
    BY <2>2 DEF ClientTypeOK
  <2>4. QED BY <2>3 DEF ReconnectComes
<1>4. StrayOnlyByLateClose'
  <2>1. sock'[s].state = "closed"
    BY <1>1, <1>2 DEF Socket
  <2>2. ASSUME NEW x \in Sockets \ {s}, sock'[x].state \in {"connecting", "open"}
        PROVE  sock'[x].disowned
    <3>1. /\ sock'[x].state = sock[x].state
          /\ sock[x].disowned \/ x = socket => sock'[x].disowned
      <4>1. sock'[x] = [sock[x] EXCEPT !.disowned = @ \/ x = socket] /\ sock[x] \in Socket
        BY <1>1, <1>2
      <4>2. QED BY <4>1 DEF Socket
    <3>2. QED BY <2>2, <3>1 DEF SocketIsOwn, StrayOnlyByLateClose
  <2>3. QED BY <2>1, <2>2 DEF StrayOnlyByLateClose
<1>5. QED BY <1>1, <1>3, <1>4 DEF SocketIsOwn, ImpostorOnlyByTimer, LeftBehind

-----------------------------------------------------------------------------
(* Messages.                                                               *)

\* A delivery appends the message once for every socket that it reached, and
\* those are finitely many.
LEMMA DeliveredFacts ==
    ASSUME ClientTypeOK, flying # 0,
           NEW reached \in SUBSET {online[u] : u \in {v \in Accounts : IsOpen(online[v])}}
    PROVE  LET c == Cardinality(reached)
               w == [i \in 1..c |-> flying]
           IN  /\ flying \in Message /\ c \in Nat /\ (c = 0 <=> reached = {})
               /\ messages \o w \in Seq(Message)
               /\ Len(messages \o w) = Len(messages) + c
               /\ \A i \in 1..(Len(messages) + c) :
                     (messages \o w)[i] = IF i <= Len(messages) THEN messages[i] ELSE flying
               /\ ToSet(messages \o w) = ToSet(messages) \cup {flying : x \in reached}
<1> DEFINE c == Cardinality(reached)
           w == [i \in 1..c |-> flying]
<1>1. flying \in Message
  BY DEF ClientTypeOK, Message
<1>2. reached \in SUBSET Sockets
  BY DEF ClientTypeOK, IsOpen
<1>3. IsFiniteSet(reached) /\ c \in Nat /\ (c = 0 <=> reached = {})
  BY <1>2, FS_Subset, FS_CardinalityType, FS_EmptySet
<1> HIDE DEF c
<1>4. w \in Seq(Message) /\ Len(w) = c /\ \A i \in 1..c : w[i] = flying
  BY <1>1, <1>3
<1> HIDE DEF w
<1>5. messages \in Seq(Message) /\ Len(messages) \in Nat
  BY LenProperties DEF ClientTypeOK
<1>6. ToSet(w) = {flying : x \in reached}
  <2>1. /\ \A i \in 1..c : flying \in ToSet(w)
        /\ \A m \in ToSet(w) : \E i \in 1..c : flying = m
    BY <1>4, ToSetFacts
  <2>2. CASE c = 0
    <3>1. 1..c = {}
      BY <2>2
    <3>2. QED BY <1>3, <2>1, <2>2, <3>1
  <2>3. CASE c # 0
    <3>1. 1 \in 1..c
      BY <1>3, <2>3
    <3>2. QED BY <1>3, <2>1, <2>3, <3>1
  <2>4. QED BY <2>2, <2>3
<1> DEFINE z == messages \o w
<1>7. /\ z \in Seq(Message) /\ Len(z) = Len(messages) + c
      /\ \A i \in 1..(Len(messages) + c) :
            z[i] = IF i <= Len(messages) THEN messages[i] ELSE w[i - Len(messages)]
      /\ ToSet(z) = ToSet(messages) \cup ToSet(w)
  <2>1. messages \in Seq(Message) /\ w \in Seq(Message)
    BY <1>4, <1>5
  <2>2. /\ z \in Seq(Message) /\ Len(z) = Len(messages) + Len(w)
        /\ \A i \in 1..(Len(messages) + Len(w)) :
              z[i] = IF i <= Len(messages) THEN messages[i] ELSE w[i - Len(messages)]
        /\ ToSet(z) = ToSet(messages) \cup ToSet(w)
    <3> HIDE DEF w
    <3>1. \A S : \A a, b \in Seq(S) :
             /\ a \o b \in Seq(S) /\ Len(a \o b) = Len(a) + Len(b)
             /\ \A i \in 1..(Len(a) + Len(b)) :
                   (a \o b)[i] = IF i <= Len(a) THEN a[i] ELSE b[i - Len(a)]
             /\ ToSet(a \o b) = ToSet(a) \cup ToSet(b)
      BY ConcatFacts
    <3>2. QED BY <2>1, <3>1
  <2> HIDE DEF z
  <2>3. QED BY <1>4, <2>2
<1> HIDE DEF z
<1>8. \A i \in 1..(Len(messages) + c) :
         z[i] = IF i <= Len(messages) THEN messages[i] ELSE flying
  <2> SUFFICES ASSUME NEW i \in 1..(Len(messages) + c), ~(i <= Len(messages))
               PROVE  w[i - Len(messages)] = flying
    BY <1>7
  <2>1. i - Len(messages) \in 1..c
    BY <1>3, <1>5
  <2>2. QED BY <1>4, <2>1
<1>9. QED BY <1>1, <1>3, <1>6, <1>7, <1>8 DEF c, w, z

\* The message on its way is shown, twice only if it reached two sockets, and
\* else again only if a page had brought it.
LEMMA OnMessageStep ==
    ASSUME ClientTypeOK, ListInv, OnMessage
    PROVE  ClientTypeOK' /\ ListInv'
<1>1. PICK reached \in SUBSET {online[u] : u \in {v \in Accounts : IsOpen(online[v])}} :
        /\ messages' = messages \o [i \in 1..Cardinality(reached) |-> flying]
        /\ heard' = heard \cup {flying : s \in reached}
        /\ copied' = copied \cup {m \in {flying} : Cardinality(reached) > 1}
  BY DEF OnMessage
<1> DEFINE c == Cardinality(reached)
<1>2. /\ flying # 0 /\ flying' = 0
      /\ UNCHANGED <<client, fetches, sent, db, online, held, page>>
  BY DEF OnMessage
<1>3. /\ flying \in Message /\ c \in Nat /\ (c = 0 <=> reached = {})
      /\ messages' \in Seq(Message)
      /\ Len(messages') = Len(messages) + c
      /\ \A i \in 1..(Len(messages) + c) :
            messages'[i] = IF i <= Len(messages) THEN messages[i] ELSE flying
      /\ ToSet(messages') = ToSet(messages) \cup {flying : x \in reached}
  BY <1>1, <1>2, DeliveredFacts
<1>4. flying \in 1..sent /\ sent \in Nat
  BY <1>2, <1>3 DEF ClientTypeOK, Message
<1>5. ClientTypeOK'
  <2>1. heard' \subseteq Message /\ copied' \subseteq Message
    BY <1>1, <1>3 DEF ClientTypeOK
  <2>2. 0 \in 0..sent
    BY <1>4
  <2>3. QED BY <1>2, <1>3, <2>1, <2>2 DEF ClientTypeOK, client
<1> HIDE DEF c
<1>6. RepeatedOnlyByPage'
  <2> SUFFICES ASSUME NEW i \in DOMAIN messages', NEW j \in DOMAIN messages', i # j,
                      messages'[i] = messages'[j]
               PROVE  messages'[i] \in ToSet(page) \cup copied'
    BY <1>2 DEF RepeatedOnlyByPage
  <2>1. /\ i \in 1..(Len(messages) + c) /\ j \in 1..(Len(messages) + c)
        /\ DOMAIN messages = 1..Len(messages) /\ Len(messages) \in Nat
    BY <1>3, LenProperties DEF ClientTypeOK
  <2>2. CASE i <= Len(messages) /\ j <= Len(messages)
    <3>1. i \in DOMAIN messages /\ j \in DOMAIN messages
      BY <2>1, <2>2
    <3>2. messages'[i] = messages[i] /\ messages'[j] = messages[j]
      BY <1>3, <2>1, <2>2
    <3>3. messages[i] \in ToSet(page) \cup copied
      BY <3>1, <3>2 DEF ListInv, RepeatedOnlyByPage
    <3>4. QED BY <1>1, <3>2, <3>3
  <2>3. CASE c > 1 /\ ~(i <= Len(messages) /\ j <= Len(messages))
    <3>1. messages'[i] = flying
      BY <1>3, <2>1, <2>3
    <3>2. QED BY <1>1, <2>3, <3>1 DEF c
  <2>4. CASE c <= 1 /\ ~(i <= Len(messages) /\ j <= Len(messages))
    <3>1. messages'[i] = flying /\ (i \in 1..Len(messages) \/ j \in 1..Len(messages))
      BY <1>3, <2>1, <2>4
    <3>2. flying \in ToSet(messages)
      <4>1. \A k \in 1..Len(messages) : messages'[k] = messages[k]
        BY <1>3, <2>1
      <4>2. \A k \in 1..Len(messages) : messages[k] \in ToSet(messages)
        BY ToSetFacts DEF ClientTypeOK
      <4>3. QED BY <3>1, <4>1, <4>2
    <3>3. QED BY <1>2, <3>1, <3>2 DEF ListInv
  <2>5. QED BY <1>3, <2>2, <2>3, <2>4
<1>7. ToSet(messages') \subseteq 1..sent /\ heard' \subseteq 1..sent
  BY <1>1, <1>3, <1>4 DEF ListInv
<1>8. \A f \in fetches : FetchKnown(f)'
  BY <1>2 DEF ListInv, FetchKnown
<1>9. QED BY <1>2, <1>5, <1>6, <1>7, <1>8 DEF ListInv

\* A page that is answered replaces the list, and is the last page.
LEMMA PageArrivesStep ==
    ASSUME ClientTypeOK, ListInv, NEW f \in fetches, PageArrives(f)
    PROVE  ClientTypeOK' /\ ListInv'
<1>1. f.n \in Nat /\ f.n <= Len(db)
  BY DEF ClientTypeOK, Fetch, ListInv, FetchKnown
<1>2. /\ messages' = Page(f.n) /\ page' = Page(f.n)
      /\ heard' = heard \cup ToSet(Page(f.n)) /\ fetches' = fetches \ {f}
      /\ UNCHANGED <<client, server, copied>>
  BY DEF PageArrives
<1>3. Page(f.n) \in Seq(Message) /\ ToSet(Page(f.n)) \subseteq ToSet(db)
  BY <1>1, PageFacts
<1>4. ClientTypeOK'
  BY <1>2, <1>3, ToSetFacts DEF ClientTypeOK, client, server
<1>5. RepeatedOnlyByPage'
  BY <1>2, <1>3 DEF RepeatedOnlyByPage, ToSet
<1>6. QED BY <1>2, <1>3, <1>4, <1>5 DEF ListInv, FetchKnown, server

\* A message is stored, or not, and on its way: it is newer than all others.
LEMMA StoreStep ==
    ASSUME ClientTypeOK, ListInv, Store
    PROVE  ClientTypeOK' /\ ListInv'
<1>1. /\ sent < MaxMessages /\ sent' = sent + 1 /\ flying' = sent'
      /\ db' \in {db, Append(db, sent')}
      /\ UNCHANGED <<client, messages, fetches, online, held, past>>
  BY DEF Store
<1>2. /\ sent \in Nat /\ sent' \in Message /\ db \in Seq(Message) /\ Len(db) \in Nat
      /\ sent' \in 0..MaxMessages
  BY <1>1, LenProperties DEF ClientTypeOK, Message
<1>3. /\ db' \in Seq(Message) /\ Len(db') \in {Len(db), Len(db) + 1}
      /\ \A i \in 1..Len(db) : db'[i] = db[i]
      /\ ToSet(db') \subseteq ToSet(db) \cup {sent'}
  <2>1. CASE db' = db
    BY <1>2, <2>1
  <2>2. CASE db' = Append(db, sent')
    BY <1>2, <2>2, AppendFacts
  <2>3. QED BY <1>1, <2>1, <2>2
<1>4. ClientTypeOK'
  BY <1>1, <1>2, <1>3 DEF ClientTypeOK, client, past
<1>5. 1..sent \subseteq 1..sent' /\ sent' \notin 1..sent /\ sent' \in 1..sent'
  BY <1>1, <1>2
<1>6. /\ Len(db') <= sent' /\ ToSet(db') \subseteq 1..sent'
      /\ ToSet(messages) \subseteq 1..sent' /\ heard \subseteq 1..sent'
      /\ sent' \notin ToSet(messages)
  BY <1>1, <1>2, <1>3, <1>5 DEF ListInv
<1>7. RepeatedOnlyByPage'
  BY <1>1 DEF ListInv, RepeatedOnlyByPage, past
<1>8. ASSUME NEW f \in fetches PROVE FetchKnown(f)'
  <2>1. FetchKnown(f) /\ f.n \in Nat
    BY DEF ListInv, ClientTypeOK, Fetch
  <2>2. f.n <= Len(db') /\ f.heard \subseteq 1..sent'
    BY <1>2, <1>3, <1>5, <2>1 DEF FetchKnown
  <2>3. ASSUME f.state = "answered", NEW m \in f.heard, m \in ToSet(db')
        PROVE  \E k \in 1..f.n : db'[k] = m
    <3>1. m \in ToSet(db)
      BY <1>3, <1>5, <2>1, <2>3 DEF FetchKnown
    <3>2. PICK k \in 1..f.n : db[k] = m
      BY <2>1, <2>3, <3>1 DEF FetchKnown
    <3>3. k \in 1..Len(db)
      BY <1>2, <2>1, <3>2 DEF FetchKnown
    <3>4. QED BY <1>3, <3>2, <3>3
  <2>4. QED BY <2>2, <2>3 DEF FetchKnown
<1>9. QED BY <1>1, <1>4, <1>6, <1>7, <1>8 DEF ListInv, past

\* A page is asked for, and later answered with what is stored by then.
LEMMA FetchStep ==
    ASSUME ClientTypeOK, ListInv,
           SelectRoom \/ \E f \in fetches : GetMessages(f) \/ PageFails(f)
    PROVE  ClientTypeOK' /\ ListInv'
<1>1. Len(db) \in Nat /\ Len(db) <= sent /\ sent \in Nat /\ sent <= MaxMessages
  BY LenProperties DEF ClientTypeOK, ListInv
<1>2. UNCHANGED <<sent, db, flying, messages, heard, page, copied>>
  BY DEF SelectRoom, GetMessages, PageFails, server, past
<1>3. ASSUME fetches' \subseteq Fetch, \A g \in fetches' : FetchKnown(g),
             UNCHANGED <<user, mounted, socket, sock, timers, online, held>>, active' \in BOOLEAN
      PROVE  ClientTypeOK' /\ ListInv'
  <2>1. ClientTypeOK'
    BY <1>2, <1>3 DEF ClientTypeOK
  <2>2. RepeatedOnlyByPage'
    BY <1>2 DEF ListInv, RepeatedOnlyByPage
  <2>3. QED BY <1>2, <1>3, <2>1, <2>2 DEF ListInv, FetchKnown
<1>4. CASE SelectRoom
  <2> DEFINE g == [state |-> "asked", n |-> 0, heard |-> heard]
  <2>1. g \in Fetch
    BY DEF ClientTypeOK, Fetch
  <2>2. FetchKnown(g)
    BY <1>1 DEF ListInv, FetchKnown
  <2> HIDE DEF g
  <2>3. fetches' = fetches \cup {g} /\ active' = TRUE
        /\ UNCHANGED <<user, mounted, socket, sock, timers, online, held>>
    BY <1>4 DEF SelectRoom, server, g
  <2>4. fetches' \subseteq Fetch /\ \A h \in fetches' : FetchKnown(h)
    BY <2>1, <2>2, <2>3 DEF ClientTypeOK, ListInv
  <2>5. QED BY <1>3, <2>3, <2>4
<1>5. ASSUME NEW f \in fetches, GetMessages(f) PROVE ClientTypeOK' /\ ListInv'
  <2> DEFINE g == [f EXCEPT !.state = "answered", !.n = Len(db)]
  <2>1. f \in Fetch /\ FetchKnown(f)
    BY DEF ClientTypeOK, ListInv
  <2>2. g \in Fetch /\ g.n = Len(db) /\ g.heard = f.heard
    <3>1. Len(db) \in 0..MaxMessages
      BY <1>1
    <3>2. QED BY <2>1, <3>1 DEF Fetch
  <2> HIDE DEF g
  <2>3. \A m \in ToSet(db) : \E k \in 1..Len(db) : db[k] = m
    BY ToSetFacts DEF ClientTypeOK
  <2>4. FetchKnown(g)
    BY <1>1, <2>1, <2>2, <2>3 DEF FetchKnown
  <2>5. fetches' = (fetches \ {f}) \cup {g} /\ active' = active
        /\ UNCHANGED <<user, mounted, socket, sock, timers, online, held>>
    BY <1>5 DEF GetMessages, client, server, g
  <2>6. fetches' \subseteq Fetch /\ \A h \in fetches' : FetchKnown(h)
    BY <2>2, <2>4, <2>5 DEF ClientTypeOK, ListInv
  <2>7. QED BY <1>3, <2>5, <2>6 DEF ClientTypeOK
<1>6. ASSUME NEW f \in fetches, PageFails(f) PROVE ClientTypeOK' /\ ListInv'
  BY <1>3, <1>6 DEF PageFails, client, server, ClientTypeOK, ListInv
<1>7. QED BY <1>4, <1>5, <1>6

\* Without an open socket the message is gone; otherwise it is stored.
LEMMA SendMessageStep ==
    ASSUME ClientTypeOK, ListInv, SendMessage
    PROVE  ClientTypeOK' /\ ListInv'
<1>1. CASE Store
  BY <1>1, StoreStep
<1>2. CASE /\ sent < MaxMessages /\ sent' = sent + 1
           /\ UNCHANGED <<client, messages, fetches, db, flying, online, held, past>>
  <2>1. sent \in Nat /\ sent' \in 0..MaxMessages /\ 1..sent \subseteq 1..sent'
        /\ 0..sent \subseteq 0..sent' /\ Len(db) \in Nat
    BY <1>2, LenProperties DEF ClientTypeOK
  <2>2. ClientTypeOK'
    BY <1>2, <2>1 DEF ClientTypeOK, client, past
  <2>3. /\ Len(db) <= sent' /\ ToSet(db) \subseteq 1..sent'
        /\ ToSet(messages) \subseteq 1..sent' /\ heard \subseteq 1..sent'
    BY <1>2, <2>1 DEF ListInv
  <2>4. RepeatedOnlyByPage' /\ \A f \in fetches : FetchKnown(f)'
    BY <1>2, <2>1 DEF ListInv, FetchKnown, RepeatedOnlyByPage, past
  <2>5. QED BY <1>2, <2>2, <2>3, <2>4 DEF ListInv, past
<1>3. QED BY <1>1, <1>2 DEF SendMessage

\* Steps of the sockets touch no message.
LEMMA SocketTypeStep ==
    ASSUME ClientTypeOK, ListInv,
           \/ Mount \/ Unmount
           \/ \E u \in Accounts : SwitchUser(u) \/ Timer(u)
           \/ \E s \in Sockets : Opens(s) \/ Breaks(s) \/ OnClose(s) \/ Removes(s)
    PROVE  ClientTypeOK' /\ ListInv'
<1>1. UNCHANGED <<messages, fetches, sent, db, flying, past, active>>
  BY DEF Mount, Unmount, SwitchUser, Timer, Opens, Breaks, OnClose, Removes, server
<1>2. ListInv'
  BY <1>1 DEF ListInv, FetchKnown, RepeatedOnlyByPage, past
<1>3. ASSUME user' \in Accounts, mounted' \in BOOLEAN, socket' \in Sockets \cup {NoSocket},
             sock' \in [Sockets -> Socket], timers' \in [Accounts -> 0..MaxTimers],
             online' \in [Accounts -> Sockets \cup {NoSocket}], held' \subseteq Sockets
      PROVE  ClientTypeOK'
  BY <1>1, <1>3 DEF ClientTypeOK, past
<1>4. CASE Mount
  <2>1. connect(user, FALSE) /\ mounted' \in BOOLEAN /\ UNCHANGED <<user, timers, online, held>>
    BY <1>4 DEF Mount, server
  <2>2. socket' \in Sockets /\ sock' \in [Sockets -> Socket]
    BY <2>1, ConnectFacts DEF ClientTypeOK
  <2>3. /\ user' \in Accounts /\ timers' \in [Accounts -> 0..MaxTimers]
        /\ online' \in [Accounts -> Sockets \cup {NoSocket}] /\ held' \subseteq Sockets
    BY <2>1 DEF ClientTypeOK
  <2>4. socket' \in Sockets \cup {NoSocket}
    BY <2>1, <2>2
  <2>5. QED BY <1>2, <1>3, <2>1, <2>2, <2>3, <2>4
<1>5. CASE Unmount
  <2>1. /\ mounted' \in BOOLEAN /\ socket' = NoSocket /\ UNCHANGED <<user, timers, online, held>>
        /\ sock' = IF socket = NoSocket THEN sock ELSE Ended(socket)
    BY <1>5 DEF Unmount, server
  <2>2. sock' \in [Sockets -> Socket]
    BY <2>1, EndedFacts DEF ClientTypeOK
  <2>3. /\ user' \in Accounts /\ timers' \in [Accounts -> 0..MaxTimers]
        /\ online' \in [Accounts -> Sockets \cup {NoSocket}] /\ held' \subseteq Sockets
    BY <2>1 DEF ClientTypeOK
  <2>4. socket' \in Sockets \cup {NoSocket}
    BY <2>1, <2>2
  <2>5. QED BY <1>2, <1>3, <2>1, <2>2, <2>3, <2>4
<1>6. ASSUME NEW u \in Accounts, SwitchUser(u) PROVE ClientTypeOK'
  BY <1>3, <1>6 DEF SwitchUser, ClientTypeOK, server
<1>7. ASSUME NEW u \in Accounts, Timer(u) PROVE ClientTypeOK'
  <2>1. /\ timers[u] > 0 /\ timers' = [timers EXCEPT ![u] = timers[u] - 1]
        /\ connect(u, TRUE) /\ UNCHANGED <<user, mounted, online, held>>
    BY <1>7 DEF Timer, server
  <2>2. timers[u] - 1 \in 0..MaxTimers
    BY <2>1 DEF ClientTypeOK
  <2>3. timers' \in [Accounts -> 0..MaxTimers]
    BY <2>1, <2>2 DEF ClientTypeOK
  <2>4. socket' \in Sockets \cup {NoSocket} /\ sock' \in [Sockets -> Socket]
    BY <2>1, ConnectFacts
  <2>5. QED BY <1>3, <2>1, <2>3, <2>4 DEF ClientTypeOK
<1>8. ASSUME NEW s \in Sockets, Opens(s) PROVE ClientTypeOK'
  <2>1. sock[s].user \in Accounts /\ [sock[s] EXCEPT !.state = "open"] \in Socket
    <3>1. sock[s] \in Socket
      BY DEF ClientTypeOK
    <3>2. \A o \in Socket : o.user \in Accounts /\ [o EXCEPT !.state = "open"] \in Socket
      BY DEF Socket
    <3>3. QED BY <3>1, <3>2
  <2>2. sock' \in [Sockets -> Socket]
    BY <1>8, <2>1 DEF Opens, ClientTypeOK
  <2>3. online' \in [Accounts -> Sockets \cup {NoSocket}] /\ held' \subseteq Sockets
    BY <1>8, <2>1 DEF Opens, ClientTypeOK
  <2>4. QED BY <1>3, <1>8, <2>2, <2>3 DEF Opens, ClientTypeOK
<1>9. ASSUME NEW s \in Sockets, Breaks(s) PROVE ClientTypeOK'
  BY <1>3, <1>9, EndedFacts DEF Breaks, ClientTypeOK, server
<1>10. ASSUME NEW s \in Sockets, OnClose(s) PROVE ClientTypeOK'
  <2>1. PICK u \in Accounts : u = sock[s].user
    BY DEF ClientTypeOK, Socket
  <2>2. timers[u] < MaxTimers /\ timers' = [timers EXCEPT ![u] = timers[u] + 1]
    BY <1>10, <2>1 DEF OnClose
  <2>3. timers' \in [Accounts -> 0..MaxTimers]
    BY <2>2 DEF ClientTypeOK
  <2>4. sock' \in [Sockets -> Socket]
    <3> SUFFICES ASSUME NEW x \in Sockets PROVE sock'[x] \in Socket
      BY <1>10 DEF OnClose
    <3>1. sock[x] \in Socket
      BY DEF ClientTypeOK
    <3>2. [sock[x] EXCEPT !.state = "closed", !.timed = FALSE, !.disowned = FALSE] \in Socket
      BY <3>1 DEF Socket
    <3>3. [sock[x] EXCEPT !.disowned = @ \/ x = socket] \in Socket
      BY <3>1 DEF Socket
    <3>4. QED BY <1>10, <3>2, <3>3 DEF OnClose
  <2>5. QED BY <1>3, <1>10, <2>3, <2>4 DEF OnClose, ClientTypeOK, server
<1>11. ASSUME NEW s \in Sockets, Removes(s) PROVE ClientTypeOK'
  <2>1. PICK u \in Accounts : u = sock[s].user
    BY DEF ClientTypeOK, Socket
  <2>2. /\ sock' = IF IsOpen(online[u]) THEN Ended(online[u]) ELSE sock
        /\ online' = [online EXCEPT ![u] = NoSocket] /\ held' = held \ {s}
    BY <1>11, <2>1 DEF Removes
  <2>3. IsOpen(online[u]) => online[u] \in Sockets
    BY DEF IsOpen, ClientTypeOK
  <2>4. sock' \in [Sockets -> Socket]
    BY <2>2, <2>3, EndedFacts DEF ClientTypeOK
  <2>5. QED BY <1>3, <1>11, <2>2, <2>4 DEF Removes, ClientTypeOK
<1>12. QED BY <1>2, <1>4, <1>5, <1>6, <1>7, <1>8, <1>9, <1>10, <1>11

\* Types and messages, one case per kind of action.
LEMMA ListStep == ClientTypeOK /\ ListInv /\ [ClientNext]_clientVars => ClientTypeOK' /\ ListInv'
<1> SUFFICES ASSUME ClientTypeOK, ListInv, [ClientNext]_clientVars PROVE ClientTypeOK' /\ ListInv'
  OBVIOUS
<1>1. CASE UNCHANGED clientVars
  BY <1>1 DEF clientVars, client, server, past, ClientTypeOK, ListInv, FetchKnown, RepeatedOnlyByPage
<1>2. QED
  BY <1>1, SocketTypeStep, SendMessageStep, StoreStep, OnMessageStep, FetchStep,
     PageArrivesStep DEF ClientNext, OtherSends

\* Sockets, one case per action that touches them.
LEMMA SocketStep ==
    ClientTypeOK /\ ReconnectComes /\ SocketIsOwn /\ LeftBehind /\ [ClientNext]_clientVars
        => ReconnectComes' /\ SocketIsOwn' /\ LeftBehind'
<1> SUFFICES ASSUME ClientTypeOK, ReconnectComes, SocketIsOwn, LeftBehind, [ClientNext]_clientVars
             PROVE  ReconnectComes' /\ SocketIsOwn' /\ LeftBehind'
  OBVIOUS
<1>1. CASE UNCHANGED <<user, mounted, socket, sock, timers>>
  BY <1>1, QuietSocketStep
<1>2. ASSUME NEW u \in Accounts, SwitchUser(u)
      PROVE  ReconnectComes' /\ SocketIsOwn' /\ LeftBehind'
  BY <1>2 DEF SwitchUser, ReconnectComes, SocketIsOwn, ImpostorOnlyByTimer,
              StrayOnlyByLateClose, LeftBehind
<1>3. ASSUME NEW s \in Sockets, Opens(s)
      PROVE  ReconnectComes' /\ SocketIsOwn' /\ LeftBehind'
  <2>1. /\ sock' = [sock EXCEPT ![s] = [sock[s] EXCEPT !.state = "open"]]
        /\ sock[s].state = "connecting" /\ UNCHANGED <<user, mounted, socket, timers>>
    BY <1>3 DEF Opens
  <2>2. \A x \in Sockets : /\ sock'[x].user = sock[x].user
                           /\ sock'[x].timed = sock[x].timed
                           /\ sock'[x].disowned = sock[x].disowned
                           /\ x # s => sock'[x] = sock[x]
    BY <2>1 DEF ClientTypeOK, Socket
  <2>3. QED BY <2>1, <2>2, QuietSocketStep
<1>4. ASSUME NEW s \in Sockets, Breaks(s) \/ Removes(s)
      PROVE  ReconnectComes' /\ SocketIsOwn' /\ LeftBehind'
  <2>1. UNCHANGED <<user, mounted, socket, timers>>
    BY <1>4 DEF Breaks, Removes
  <2>2. CASE sock' = sock
    BY <1>1, <2>1, <2>2
  <2>3. ASSUME NEW x \in Sockets, sock' = Ended(x)
        PROVE  ReconnectComes' /\ SocketIsOwn' /\ LeftBehind'
    BY <2>1, <2>3, EndedFacts, QuietSocketStep
  <2>4. PICK u \in Accounts : u = sock[s].user
    BY DEF ClientTypeOK, Socket
  <2>5. sock' = sock \/ \E x \in Sockets : sock' = Ended(x)
    BY <1>4, <2>4 DEF Breaks, Removes, IsOpen, ClientTypeOK
  <2>6. QED BY <2>2, <2>3, <2>5
<1>5. QED
  BY <1>1, <1>2, <1>3, <1>4, MountStep, UnmountStep, TimerStep, OnCloseStep
     DEF ClientNext, clientVars, client, SelectRoom, SendMessage, OtherSends, Store, OnMessage,
         GetMessages, PageArrives, PageFails

-----------------------------------------------------------------------------

\* No socket, no message, no page.
LEMMA InitInv == ClientInit => SocketsInv /\ ListInv
<1> SUFFICES ASSUME ClientInit PROVE SocketsInv /\ ListInv
  OBVIOUS
<1>1. ToSet(<<>>) = {} /\ Len(<<>>) = 0 /\ <<>> \in Seq(Message)
  BY EmptySeq DEF ToSet
<1>2. sock \in [Sockets -> Socket] /\ \A s \in Sockets : sock[s].state = "closed"
  BY DEF ClientInit, Socket
<1>3. ClientTypeOK
  <2>1. MaxTimers \in Nat /\ MaxMessages \in Nat
    OBVIOUS
  <2>2. /\ user \in Accounts /\ mounted \in BOOLEAN /\ active \in BOOLEAN
        /\ socket \in Sockets \cup {NoSocket}
        /\ online \in [Accounts -> Sockets \cup {NoSocket}] /\ held \subseteq Sockets
        /\ fetches \subseteq Fetch /\ heard \subseteq Message /\ copied \subseteq Message
    BY DEF ClientInit
  <2>3. timers \in [Accounts -> 0..MaxTimers] /\ sent \in 0..MaxMessages /\ flying \in 0..sent
    BY <2>1 DEF ClientInit
  <2>4. messages \in Seq(Message) /\ db \in Seq(Message) /\ page \in Seq(Message)
    BY <1>1 DEF ClientInit
  <2>5. QED BY <1>2, <2>2, <2>3, <2>4 DEF ClientTypeOK
<1>4. ListInv
  BY <1>1 DEF ClientInit, ListInv, RepeatedOnlyByPage
<1>5. ReconnectComes /\ SocketIsOwn /\ LeftBehind
  BY <1>2 DEF ClientInit, ReconnectComes, SocketIsOwn, ImpostorOnlyByTimer, StrayOnlyByLateClose,
              LeftBehind
<1>6. QED BY <1>3, <1>4, <1>5 DEF SocketsInv

\* Every reachable state satisfies the inductive invariant.
THEOREM ChatClientInvariant == ClientSpec => [](SocketsInv /\ ListInv)
<1>1. SocketsInv /\ ListInv /\ [ClientNext]_clientVars => SocketsInv' /\ ListInv'
  BY ListStep, SocketStep DEF SocketsInv
<1>2. QED BY <1>1, InitInv, PTL DEF ClientSpec

\* While the page is shown the store has a socket or a timer that will make one.
THEOREM ChatIsNeverGivenUp == ClientSpec => []ClientInv
<1>1. SocketsInv => ClientInv
  BY DEF SocketsInv, ClientInv
<1>2. QED BY <1>1, ChatClientInvariant, PTL

\* The store's socket is its user's and the only one, but for what a late timer
\* and a late onclose do.
THEOREM StoreSocketIsOwn == ClientSpec => []SocketIsOwn
<1>1. SocketsInv => SocketIsOwn
  BY DEF SocketsInv
<1>2. QED BY <1>1, ChatClientInvariant, PTL

\* A message is listed twice only by a page or by two sockets.
THEOREM ListRepeatsOnlyByPage == ClientSpec => []RepeatedOnlyByPage
<1>1. ListInv => RepeatedOnlyByPage
  BY DEF ListInv
<1>2. QED BY <1>1, ChatClientInvariant, PTL

\* A page that arrives loses no message that was shown when it was asked for,
\* unless the server has not stored it or has more than fit the page.
THEOREM PagesKeepWhatWasHeard == ClientSpec => PageKeepsHeard
<1> DEFINE A == \A f \in fetches \ fetches' : messages' # messages =>
                   \A m \in f.heard : \/ m \in ToSet(messages')
                                      \/ m \notin ToSet(db)
                                      \/ Len(page') = PageSize
<1>1. SocketsInv /\ ListInv /\ [ClientNext]_clientVars => [A]_clientVars
  <2> SUFFICES ASSUME ClientTypeOK, ListInv, [ClientNext]_clientVars, NEW f \in fetches \ fetches',
                      messages' # messages, NEW m \in f.heard, m \in ToSet(db),
                      Len(page') # PageSize
               PROVE  m \in ToSet(messages')
    BY DEF SocketsInv
  <2>1. PICK g \in fetches : PageArrives(g)
    BY DEF ClientNext, clientVars, Mount, Unmount, SelectRoom, SendMessage, OtherSends, Store,
           OnMessage, SwitchUser, Timer, Opens, Breaks, OnClose, Removes,
           GetMessages, PageFails
  <2>2. /\ g = f /\ f.state = "answered"
        /\ messages' = Page(f.n) /\ page' = Page(f.n)
    BY <2>1 DEF PageArrives
  <2>3. f.n \in Nat /\ f.n <= Len(db) /\ FetchKnown(f)
    BY DEF ClientTypeOK, Fetch, ListInv, FetchKnown
  <2>4. PICK k \in 1..f.n : db[k] = m
    BY <2>2, <2>3 DEF FetchKnown
  <2>5. /\ Page(f.n) \in Seq(Message) /\ Len(Page(f.n)) = f.n
        /\ \A i \in 1..Len(Page(f.n)) : Page(f.n)[i] = db[i]
    BY <2>2, <2>3, PageFacts
  <2>6. Page(f.n)[k] = m /\ k \in 1..Len(Page(f.n))
    BY <2>4, <2>5
  <2>7. QED BY <2>2, <2>5, <2>6, ToSetFacts
<1>2. QED BY <1>1, ChatClientInvariant, PTL DEF ClientSpec, PageKeepsHeard
=============================================================================
