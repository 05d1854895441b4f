------------------------------- MODULE ChatHub -------------------------------
(***************************************************************************)
(* The chat server (chat_controller.go): a hub that maps each user to his  *)
(* latest connection, under a readers-writer lock; connections that load   *)
(* their rooms, join more, and broadcast messages under the read lock; and *)
(* requests that create rooms and add them to whoever is online.           *)
(*                                                                         *)
(* Each connection and each request is a goroutine.  The hub's lock and    *)
(* the lock of each client are modelled, for a broadcast holds both while  *)
(* it writes to a socket, as long as the browser takes to read.            *)
(***************************************************************************)
EXTENDS Integers, Sequences

CONSTANTS
    Users,
    Conns,     \* connections; each is made once
    UserOf,    \* the user_id a connection is made with
    NoConn,
    Rooms,     \* chat rooms, each with the requests, one at a time, that may create it
    NoRoom,
    Party,     \* user_ids of the request that creates a room
    Private    \* the rooms asked for with type "private"

ASSUME ConnAssumption == NoConn \notin Conns /\ UserOf \in [Conns -> Users]
ASSUME RoomAssumption ==
    /\ NoRoom \notin Rooms
    /\ Party \in [Rooms -> Seq(Users)]
    /\ Private \subseteq Rooms

VARIABLES
    hub,       \* ChatHub.clients: the connection of each user
    writer,    \* who has called ChatHub.mu.Lock, and waits for the readers
    rooms,     \* Client.Rooms, of each connection
    closed,    \* connections whose socket the server has closed
    conn,      \* the local variables of each connection's goroutine
    creation,  \* the local variables of each CreateRoom, and the row it inserts
    (* History variables: no guard reads them.                             *)
    replaced,  \* connections whose user has connected again since
    lost,      \* connections that did not load, or overwrote, some of their rooms
    missed     \* connections a broadcast should have reached and did not

history == <<replaced, lost, missed>>
vars == <<hub, writer, rooms, closed, conn, creation, history>>

(***************************************************************************)
(* A connection: "add" and "remove" wait for the hub's lock, "broadcast"   *)
(* for the read lock; "visit" and "write" hold the read lock, and "write"  *)
(* the lock of the client target, too.  visited are the clients that a     *)
(* broadcast is done with; audience (history) those it has yet to reach.   *)
(***************************************************************************)
Live == {"query", "assign", "read", "join", "broadcast", "visit", "write", "remove"}
Reading == {"visit", "write"}

Conn == [pc : {"idle", "add", "gone"} \cup Live, queried : SUBSET Rooms,
         room : Rooms \cup {NoRoom}, target : Conns \cup {NoConn},
         visited : SUBSET Conns, audience : SUBSET Conns]

\* A request: "insert" has checked, "inserted" waits for the read lock and
\* "update" holds it.
Creation == [pc : {"idle", "insert", "inserted", "update", "done"},
             at : Nat]

TypeOK ==
    /\ hub \in [Users -> Conns \cup {NoConn}]
    /\ writer \in Conns \cup {NoConn}
    /\ rooms \in [Conns -> SUBSET Rooms]
    /\ closed \subseteq Conns
    /\ conn \in [Conns -> Conn]
    /\ creation \in [Rooms -> Creation]
    /\ replaced \subseteq Conns
    /\ lost \subseteq Conns
    /\ missed \subseteq Conns

NewConn == [pc |-> "idle", queried |-> {}, room |-> NoRoom, target |-> NoConn,
            visited |-> {}, audience |-> {}]

Init ==
    /\ hub = [u \in Users |-> NoConn]
    /\ writer = NoConn
    /\ rooms = [c \in Conns |-> {}]
    /\ closed = {}
    /\ conn = [c \in Conns |-> NewConn]
    /\ creation = [r \in Rooms |-> [pc |-> "idle", at |-> 1]]
    /\ replaced = {}
    /\ lost = {}
    /\ missed = {}

-----------------------------------------------------------------------------
(* Locks.                                                                  *)

Registered == {hub[u] : u \in Users} \ {NoConn}

NoReaders == /\ \A c \in Conns : conn[c].pc \notin Reading
             /\ \A r \in Rooms : creation[r].pc # "update"

\* A writer that waits keeps new readers out.
RLockFree == writer = NoConn

\* Client.mu is held for long only by a broadcast that writes to the client.
Free(t) == \A c \in Conns : ~(conn[c].pc = "write" /\ conn[c].target = t)

Goto(c, label) == conn' = [conn EXCEPT ![c].pc = label]

\* Of the writers one waits for the readers, the others for that one.
Lock(c) ==
    /\ conn[c].pc \in {"add", "remove"}
    /\ writer = NoConn
    /\ writer' = c
    /\ UNCHANGED <<hub, rooms, closed, conn, creation, history>>

-----------------------------------------------------------------------------
(* Connecting: the client is in the hub before its rooms are loaded.       *)

Exists(r) == creation[r].pc \in {"inserted", "update", "done"}
Members(r) == {Party[r][i] : i \in DOMAIN Party[r]}

Connect(c) ==
    /\ conn[c].pc = "idle"
    /\ Goto(c, "add")
    /\ UNCHANGED <<hub, writer, rooms, closed, creation, history>>

\* Defect: the map is changed without waiting for those who read it.
HastyAddClient(c) ==
    /\ conn[c].pc = "add"
    /\ writer = c
    /\ hub' = [hub EXCEPT ![UserOf[c]] = c]
    /\ replaced' = replaced \cup ({hub[UserOf[c]]} \ {NoConn})
    /\ writer' = NoConn
    /\ Goto(c, "query")
    /\ UNCHANGED <<rooms, closed, creation, lost, missed>>

AddClient(c) ==
    /\ conn[c].pc = "add"
    /\ writer = c /\ NoReaders
    /\ hub' = [hub EXCEPT ![UserOf[c]] = c]
    /\ replaced' = replaced \cup ({hub[UserOf[c]]} \ {NoConn})
    /\ writer' = NoConn
    /\ Goto(c, "query")
    /\ UNCHANGED <<rooms, closed, creation, lost, missed>>

QueryRooms(c) ==
    /\ conn[c].pc = "query"
    /\ conn' = [conn EXCEPT ![c].pc = "assign",
                            ![c].queried = {r \in Rooms : Exists(r) /\ UserOf[c] \in Members(r)}]
    /\ UNCHANGED <<hub, writer, rooms, closed, creation, history>>

\* The error of the query is dropped.
QueryFails(c) ==
    /\ conn[c].pc = "query"
    /\ Goto(c, "assign")
    /\ lost' = lost \cup {c}
    /\ UNCHANGED <<hub, writer, rooms, closed, creation, replaced, missed>>

\* Whatever CreateRoom has appended meanwhile is overwritten.
AssignRooms(c) ==
    /\ conn[c].pc = "assign"
    /\ Free(c)
    /\ rooms' = [rooms EXCEPT ![c] = conn[c].queried]
    /\ lost' = IF rooms[c] \subseteq conn[c].queried THEN lost ELSE lost \cup {c}
    /\ conn' = [conn EXCEPT ![c].pc = "read", ![c].queried = {}]
    /\ UNCHANGED <<hub, writer, closed, creation, replaced, missed>>

-----------------------------------------------------------------------------
(* What a connection reads from its socket.                                *)

ReceiveJoin(c, r) ==
    /\ conn[c].pc = "read" /\ c \notin closed
    /\ conn' = [conn EXCEPT ![c].pc = "join", ![c].room = r]
    /\ UNCHANGED <<hub, writer, rooms, closed, creation, history>>

JoinRoom(c) ==
    /\ conn[c].pc = "join"
    /\ Free(c)
    /\ rooms' = [rooms EXCEPT ![c] = @ \cup {conn[c].room}]
    /\ conn' = [conn EXCEPT ![c].pc = "read", ![c].room = NoRoom]
    /\ UNCHANGED <<hub, writer, closed, creation, history>>

\* The message is stored, or that fails and is logged: it is broadcast anyway.
ReceiveMessage(c, r) ==
    /\ conn[c].pc = "read" /\ c \notin closed
    /\ conn' = [conn EXCEPT ![c].pc = "broadcast", ![c].room = r]
    /\ UNCHANGED <<hub, writer, rooms, closed, creation, history>>

\* The browser is gone, sent no JSON, or the server has closed the socket.
ReadFails(c) ==
    /\ conn[c].pc = "read"
    /\ Goto(c, "remove")
    /\ UNCHANGED <<hub, writer, rooms, closed, creation, history>>

\* Defect: the socket is closed and stays in the map.
CloseClient(c) ==
    /\ conn[c].pc = "remove"
    /\ writer = c /\ NoReaders
    /\ closed' = (closed \cup {hub[UserOf[c]]}) \ {c, NoConn}
    /\ writer' = NoConn
    /\ conn' = [conn EXCEPT ![c] = [NewConn EXCEPT !.pc = "gone"]]
    /\ rooms' = [rooms EXCEPT ![c] = {}]
    /\ replaced' = replaced \ {c} /\ lost' = lost \ {c} /\ missed' = missed \ {c}
    /\ UNCHANGED <<hub, creation>>

\* Whatever connection the user has by now is closed and forgotten.  The client
\* that ends is garbage: nobody asks for its socket, rooms or history any more.
RemoveClient(c) ==
    /\ conn[c].pc = "remove"
    /\ writer = c /\ NoReaders
    /\ closed' = (closed \cup {hub[UserOf[c]]}) \ {c, NoConn}
    /\ hub' = [hub EXCEPT ![UserOf[c]] = NoConn]
    /\ writer' = NoConn
    /\ conn' = [conn EXCEPT ![c] = [NewConn EXCEPT !.pc = "gone"]]
    /\ rooms' = [rooms EXCEPT ![c] = {}]
    /\ replaced' = replaced \ {c} /\ lost' = lost \ {c} /\ missed' = missed \ {c}
    /\ UNCHANGED creation

-----------------------------------------------------------------------------
(* BroadcastToRoom.                                                        *)

RLock(c) ==
    /\ conn[c].pc = "broadcast"
    /\ RLockFree
    /\ conn' = [conn EXCEPT ![c].pc = "visit",
                            ![c].audience = {t \in Registered : conn[c].room \in rooms[t]}]
    /\ UNCHANGED <<hub, writer, rooms, closed, creation, history>>

Unvisited(c) == Registered \ conn[c].visited

\* A client's rooms are read without its lock, which is taken to write to it.
\* Rooms that change between the two are as good as changed after the write.
WriteTo(c, t) ==
    /\ conn[c].pc = "visit"
    /\ t \in Unvisited(c)
    /\ conn[c].room \in rooms[t]
    /\ Free(t)
    /\ conn' = [conn EXCEPT ![c].pc = "write", ![c].target = t]
    /\ UNCHANGED <<hub, writer, rooms, closed, creation, history>>

SkipClient(c, t) ==
    /\ conn[c].pc = "visit"
    /\ t \in Unvisited(c)
    /\ conn[c].room \notin rooms[t]
    /\ conn' = [conn EXCEPT ![c].visited = @ \cup {t}, ![c].audience = @ \ {t}]
    /\ missed' = missed \cup ({t} \cap conn[c].audience)
    /\ UNCHANGED <<hub, writer, rooms, closed, creation, replaced, lost>>

\* Somebody may be storing t's slice of rooms: assigning, joining or appending.
BeingWritten(t) ==
    /\ Free(t)
    /\ \/ conn[t].pc \in {"assign", "join"}
       \/ \E r \in Rooms : /\ creation[r].pc = "update"
                           /\ creation[r].at \in DOMAIN Party[r]
                           /\ hub[Party[r][creation[r].at]] = t

\* The race on that slice: its pointer and its length may not belong together,
\* and the connection of whoever broadcasts ends with a panic that gin recovers.
TornRead(c, t) ==
    /\ conn[c].pc = "visit"
    /\ t \in Unvisited(c)
    /\ BeingWritten(t)
    /\ conn' = [conn EXCEPT ![c] = [NewConn EXCEPT !.pc = "remove"]]
    /\ UNCHANGED <<hub, writer, rooms, closed, creation, history>>

\* Defect: a write that fails closes the client's socket.
ClosingWriteDone(c) ==
    /\ conn[c].pc = "write"
    /\ closed' = closed \cup {conn[c].target}
    /\ conn' = [conn EXCEPT ![c].pc = "visit", ![c].target = NoConn,
                            ![c].visited = @ \cup {conn[c].target},
                            ![c].audience = @ \ {conn[c].target}]
    /\ UNCHANGED <<hub, writer, rooms, creation, history>>

\* Defect: a write that fails calls RemoveClient, under the read lock.
RemovingWriteDone(c) ==
    /\ conn[c].pc = "write"
    /\ writer = NoConn /\ NoReaders
    /\ hub' = [u \in Users |-> IF hub[u] = conn[c].target THEN NoConn ELSE hub[u]]
    /\ conn' = [conn EXCEPT ![c].pc = "visit", ![c].target = NoConn]
    /\ UNCHANGED <<writer, rooms, closed, creation, history>>

\* The browser has read the message, or the write has failed, which is ignored.
WriteDone(c) ==
    /\ conn[c].pc = "write"
    /\ conn' = [conn EXCEPT ![c].pc = "visit", ![c].target = NoConn,
                            ![c].visited = @ \cup {conn[c].target},
                            ![c].audience = @ \ {conn[c].target}]
    /\ UNCHANGED <<hub, writer, rooms, closed, creation, history>>

RUnlock(c) ==
    /\ conn[c].pc = "visit"
    /\ Unvisited(c) = {}
    /\ missed' = missed \cup conn[c].audience
    /\ conn' = [conn EXCEPT ![c] = [NewConn EXCEPT !.pc = "read"]]
    /\ UNCHANGED <<hub, writer, rooms, closed, creation, replaced, lost>>

-----------------------------------------------------------------------------
(* CreateRoom.                                                             *)

\* The room between the first two users of the request, asked for as private.
SamePair(e, r) ==
    /\ e \in Private
    /\ Party[r][1] \in Members(e) /\ Party[r][2] \in Members(e)

\* A private room of two that is found is returned, and nothing changes.
FindRoom(r) ==
    /\ creation[r].pc = "idle"
    /\ ~(r \in Private /\ Len(Party[r]) = 2 /\ \E e \in Rooms : Exists(e) /\ SamePair(e, r))
    /\ creation' = [creation EXCEPT ![r].pc = "insert"]
    /\ UNCHANGED <<hub, writer, rooms, closed, conn, history>>

\* An insertion that fails leaves nothing, and the room may be asked for again.
InsertRoom(r) ==
    /\ creation[r].pc = "insert"
    /\ \E label \in {"inserted", "idle"} : creation' = [creation EXCEPT ![r].pc = label]
    /\ UNCHANGED <<hub, writer, rooms, closed, conn, history>>

RLockHub(r) ==
    /\ creation[r].pc = "inserted"
    /\ RLockFree
    /\ creation' = [creation EXCEPT ![r].pc = "update"]
    /\ UNCHANGED <<hub, writer, rooms, closed, conn, history>>

\* The next user of the request, if he is online, is in the room from now on.
AppendRoom(r) ==
    /\ creation[r].pc = "update"
    /\ creation[r].at \in DOMAIN Party[r]
    /\ LET t == hub[Party[r][creation[r].at]]
       IN  \/ t = NoConn /\ UNCHANGED rooms
           \/ t # NoConn /\ Free(t) /\ rooms' = [rooms EXCEPT ![t] = @ \cup {r}]
    /\ creation' = [creation EXCEPT ![r].at = @ + 1]
    /\ UNCHANGED <<hub, writer, closed, conn, history>>

\* Defect: the loop leaves out the last user.
EarlyRUnlockHub(r) ==
    /\ creation[r].pc = "update"
    /\ creation[r].at + 1 \notin DOMAIN Party[r]
    /\ creation' = [creation EXCEPT ![r].pc = "done"]
    /\ UNCHANGED <<hub, writer, rooms, closed, conn, history>>

RUnlockHub(r) ==
    /\ creation[r].pc = "update"
    /\ creation[r].at \notin DOMAIN Party[r]
    /\ creation' = [creation EXCEPT ![r].pc = "done"]
    /\ UNCHANGED <<hub, writer, rooms, closed, conn, history>>

-----------------------------------------------------------------------------
\* The server restarts: connections and requests are gone, rows are not.
Restart ==
    /\ hub' = [u \in Users |-> NoConn]
    /\ writer' = NoConn
    /\ closed' = {}
    /\ rooms' = [c \in Conns |-> {}]
    /\ conn' = [c \in Conns |-> IF conn[c].pc = "idle" THEN conn[c]
                                ELSE [NewConn EXCEPT !.pc = "gone"]]
    /\ creation' = [r \in Rooms |->
                       CASE creation[r].pc = "insert" -> [creation[r] EXCEPT !.pc = "idle"]
                         [] creation[r].pc \in {"inserted", "update"} ->
                                [creation[r] EXCEPT !.pc = "done"]
                         [] OTHER -> creation[r]]
    /\ replaced' = {} /\ lost' = {} /\ missed' = {}

-----------------------------------------------------------------------------

GoOn(c) ==
    \/ Lock(c) \/ AddClient(c) \/ RemoveClient(c)
    \/ QueryRooms(c) \/ QueryFails(c) \/ AssignRooms(c) \/ JoinRoom(c)
    \/ RLock(c) \/ WriteDone(c) \/ RUnlock(c)
    \/ \E t \in Conns : WriteTo(c, t) \/ SkipClient(c, t) \/ TornRead(c, t)

Browser(c) ==
    \/ Connect(c) \/ ReadFails(c)
    \/ \E r \in Rooms : ReceiveJoin(c, r) \/ ReceiveMessage(c, r)

CreateRoom(r) == InsertRoom(r) \/ RLockHub(r) \/ AppendRoom(r) \/ RUnlockHub(r)

Next ==
    \/ \E c \in Conns : GoOn(c) \/ Browser(c)
    \/ \E r \in Rooms : FindRoom(r) \/ CreateRoom(r)
    \/ Restart

Spec == Init /\ [][Next]_vars

\* Goroutines run, and a socket takes a write or fails it in the end.
FairSpec ==
    /\ Spec
    /\ \A c \in Conns : WF_vars(GoOn(c))
    /\ \A r \in Rooms : WF_vars(CreateRoom(r))

-----------------------------------------------------------------------------
(***************************************************************************)
(* The hub holds for each user the latest of his connections, unless that  *)
(* one's socket has been closed; and it closes no socket without forgetting *)
(* the connection.                                                         *)
(***************************************************************************)
HubIsLatestOpen ==
    \A c \in Conns : hub[UserOf[c]] = c
                     <=> conn[c].pc \in Live /\ c \notin replaced /\ c \notin closed

\* The state is well formed, and the hub has each user's latest connection.
HubInv == TypeOK /\ HubIsLatestOpen

(***************************************************************************)
(* A connection in the hub that has loaded its rooms is in every room of   *)
(* its user whose creation is complete.  The only exceptions are a failed  *)
(* query, and a room appended between the query and the assignment.        *)
(***************************************************************************)
RoomsLoaded ==
    \A u \in Users :
        hub[u] # NoConn /\ conn[hub[u]].pc \notin {"query", "assign"} /\ hub[u] \notin lost =>
            \A r \in Rooms : creation[r].pc = "done" /\ u \in Members(r) => r \in rooms[hub[u]]

(***************************************************************************)
(* A broadcast reaches every connection that was in the hub and in the     *)
(* room when it began, whoever joins, leaves or reconnects meanwhile,      *)
(* unless the connection has lost rooms.                                   *)
(***************************************************************************)
BroadcastReaches == missed \subseteq lost

(***************************************************************************)
(* The server closes a connection that has not ended only as an elder      *)
(* connection of the same user ends, one that was replaced or closed       *)
(* before: the late end of a connection takes its successor with it.       *)
(***************************************************************************)
ClosedByElder ==
    [][\A c \in closed' \ closed :
          \E d \in replaced \cup closed : UserOf[d] = UserOf[c] /\ RemoveClient(d)]_vars

(***************************************************************************)
(* Whoever waits for the hub's lock, to join or to leave, gets it in the   *)
(* end: no order of the hub's lock and the clients' locks blocks them, and *)
(* broadcasts do not starve them.                                          *)
(***************************************************************************)
HubServes ==
    \A c \in Conns : conn[c].pc \in {"add", "remove"} ~> conn[c].pc \notin {"add", "remove"}
=============================================================================
