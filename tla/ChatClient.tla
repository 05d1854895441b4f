----------------------------- MODULE ChatClient -----------------------------
(***************************************************************************)
(* The chat of the web client: the store of store/chatStore.ts, which      *)
(* outlives the page of pages/Chat.tsx, its WebSockets with their          *)
(* reconnection, and the list of messages of one room, which pages of the  *)
(* database and live messages both write.                                  *)
(*                                                                         *)
(* The server is what the client sees of the Go hub (ChatHub has its       *)
(* inside): of each user it holds the connection made last, and the end of *)
(* any of his connections removes and closes the one it holds.  What the   *)
(* client sends is handled at once; a message it receives may be on its    *)
(* way for long after it was stored.                                       *)
(***************************************************************************)
EXTENDS Integers, FiniteSets, SequencesExt

CONSTANTS
    Accounts,      \* who logs in to this browser, one after the other
    Sockets,       \* bound: sockets that exist at a time
    NoSocket,
    PageSize,      \* GetMessages returns that many, the oldest
    MaxMessages,   \* bound: messages sent to the room
    MaxFetches,    \* bound: pages asked for at a time
    MaxTimers      \* bound: reconnections a user waits for

ASSUME SocketAssumption == NoSocket \notin Sockets /\ IsFiniteSet(Sockets)
ASSUME BoundAssumption == {PageSize, MaxMessages, MaxFetches, MaxTimers} \subseteq Nat

VARIABLES
    user,       \* who is logged in
    mounted,    \* the chat page is shown
    active,     \* its room is selected
    socket,     \* the socket of the store
    sock,       \* every socket, the store's or not
    timers,     \* the reconnections that each user's closed sockets wait for
    messages,   \* the store's list of the room
    fetches,    \* pages asked for
    sent,       \* how many messages were sent to the room
    db,         \* those the server has stored, in order
    flying,     \* the message that is stored and not delivered yet, or 0
    online,     \* the server's connection of each user
    held,       \* sockets the server has not seen the end of
    (* History variables: no guard reads them.                             *)
    heard,      \* messages that the client has shown
    page,       \* the last page it was answered
    copied      \* messages broadcast to two of its sockets

client == <<user, mounted, active, socket, sock, timers>>
server == <<sent, db, flying, online, held>>
past == <<heard, page, copied>>
clientVars == <<client, messages, fetches, server, past>>

Message == 1..MaxMessages

\* A socket: whose user_id it was opened with, by the page or a timer, and
\* (history) whether another socket's end made the store forget it.  "ending":
\* its onclose is still to run.
Socket == [state : {"closed", "connecting", "open", "ending"}, user : Accounts,
           timed : BOOLEAN, disowned : BOOLEAN]

\* A page: "asked", or "answered" with the room's first n messages.  heard: what
\* the client had shown when it asked.
Fetch == [state : {"asked", "answered"}, n : 0..MaxMessages, heard : SUBSET Message]

\* Defect: pages are counted from 0, so that the first is skipped.
PageFromZero(n) == SubSeq(db, PageSize + 1, IF n < 2 * PageSize THEN n ELSE 2 * PageSize)

Page(n) == SubSeq(db, 1, IF n < PageSize THEN n ELSE PageSize)

IsOpen(s) == s # NoSocket /\ sock[s].state = "open"

ClientInit ==
    /\ user \in Accounts
    /\ mounted = FALSE /\ active = FALSE
    /\ socket = NoSocket
    /\ sock = [s \in Sockets |-> [state |-> "closed", user |-> user, timed |-> FALSE,
                                  disowned |-> FALSE]]
    /\ timers = [u \in Accounts |-> 0]
    /\ messages = <<>> /\ fetches = {}
    /\ sent = 0 /\ db = <<>> /\ flying = 0
    /\ online = [u \in Accounts |-> NoSocket] /\ held = {}
    /\ heard = {} /\ page = <<>> /\ copied = {}

(***************************************************************************)
(* Sockets of the client.                                                  *)
(***************************************************************************)
\* Defect: the socket of the store is not looked at.
connectAgain(u, timed) ==
    \E s \in Sockets \ held :
        /\ sock[s].state = "closed"
        /\ socket' = s
        /\ sock' = [sock EXCEPT ![s] = [state |-> "connecting", user |-> u,
                        timed |-> timed, disowned |-> FALSE]]

\* connect: nothing if the store has a socket, else a new one.
connect(u, timed) ==
    \/ /\ socket # NoSocket
       /\ UNCHANGED <<socket, sock>>
    \/ /\ socket = NoSocket
       /\ \E s \in Sockets \ held :
            /\ sock[s].state = "closed"
            /\ socket' = s
            /\ sock' = [sock EXCEPT ![s] = [state |-> "connecting", user |-> u,
                            timed |-> timed, disowned |-> FALSE]]

Ended(s) == [sock EXCEPT ![s].state = "ending"]

\* The page appears: connect.
Mount ==
    /\ ~mounted
    /\ mounted' = TRUE
    /\ connect(user, FALSE)
    /\ UNCHANGED <<user, active, timers, messages, fetches, server, past>>

\* The page goes: disconnect closes the store's socket, if it has one.
Unmount ==
    /\ mounted
    /\ mounted' = FALSE
    /\ sock' = IF socket = NoSocket THEN sock ELSE Ended(socket)
    /\ socket' = NoSocket
    /\ UNCHANGED <<user, active, timers, messages, fetches, server, past>>

\* A logout and a login of another user, without a load of the page.
SwitchUser(u) ==
    /\ ~mounted /\ u # user
    /\ user' = u
    /\ UNCHANGED <<mounted, active, socket, sock, timers, messages, fetches, server, past>>

\* Defect: no reconnection.
OnCloseForGood(s) ==
    /\ sock[s].state = "ending"
    /\ sock' = [x \in Sockets |->
                   IF x = s THEN [sock[x] EXCEPT !.state = "closed", !.timed = FALSE, !.disowned = FALSE]
                   ELSE [sock[x] EXCEPT !.disowned = @ \/ x = socket]]
    /\ socket' = NoSocket
    /\ UNCHANGED <<user, mounted, active, timers, messages, fetches, server, past>>

\* onclose of s: the store forgets whatever socket it has, and s's user connects
\* again after three seconds.
OnClose(s) ==
    /\ sock[s].state = "ending"
    /\ timers[sock[s].user] < MaxTimers
    /\ timers' = [timers EXCEPT ![sock[s].user] = @ + 1]
    /\ sock' = [x \in Sockets |->
                   IF x = s THEN [sock[x] EXCEPT !.state = "closed", !.timed = FALSE, !.disowned = FALSE]
                   ELSE [sock[x] EXCEPT !.disowned = @ \/ x = socket]]
    /\ socket' = NoSocket
    /\ UNCHANGED <<user, mounted, active, messages, fetches, server, past>>

Timer(u) ==
    /\ timers[u] > 0
    /\ timers' = [timers EXCEPT ![u] = @ - 1]
    /\ connect(u, TRUE)
    /\ UNCHANGED <<user, mounted, active, messages, fetches, server, past>>

(***************************************************************************)
(* Sockets of the server.                                                  *)
(***************************************************************************)
Opens(s) ==
    /\ sock[s].state = "connecting"
    /\ sock' = [sock EXCEPT ![s].state = "open"]
    /\ online' = [online EXCEPT ![sock[s].user] = s]
    /\ held' = held \cup {s}
    /\ UNCHANGED <<user, mounted, active, socket, timers, messages, fetches, sent, db, flying, past>>

\* The handshake or the network fails.
Breaks(s) ==
    /\ sock[s].state \in {"connecting", "open"}
    /\ sock' = Ended(s)
    /\ UNCHANGED <<user, mounted, active, socket, timers, messages, fetches, server, past>>

\* The server sees that s has ended: it removes the connection of its user,
\* and closes it, whichever it is by now.
Removes(s) ==
    /\ s \in held /\ sock[s].state \in {"ending", "closed"}
    /\ LET h == online[sock[s].user]
       IN  sock' = IF IsOpen(h) THEN Ended(h) ELSE sock
    /\ online' = [online EXCEPT ![sock[s].user] = NoSocket]
    /\ held' = held \ {s}
    /\ UNCHANGED <<user, mounted, active, socket, timers, messages, fetches, sent, db, flying, past>>

(***************************************************************************)
(* Messages.                                                               *)
(***************************************************************************)
\* The server stores a message, or fails to, and broadcasts it all the same.
\* (Bound: one is on its way at a time.)
Store ==
    /\ sent < MaxMessages /\ flying = 0
    /\ sent' = sent + 1
    /\ db' \in {db, Append(db, sent')}
    /\ flying' = sent'
    /\ UNCHANGED <<client, messages, fetches, online, held, past>>

\* Somebody else writes to the room.
OtherSends == Store

\* Defect: what is sent is listed at once, and again when it comes back.
SendAndShow ==
    /\ mounted /\ active /\ IsOpen(socket)
    /\ sent < MaxMessages /\ flying = 0
    /\ sent' = sent + 1
    /\ db' = Append(db, sent')
    /\ flying' = sent'
    /\ messages' = Append(messages, sent')
    /\ heard' = heard \cup {sent'}
    /\ UNCHANGED <<client, fetches, online, held, page, copied>>

\* handleSend empties the input; without an open socket the message is gone.
SendMessage ==
    /\ mounted /\ active
    /\ \/ IsOpen(socket) /\ Store
       \/ /\ ~IsOpen(socket)
          /\ sent < MaxMessages
          /\ sent' = sent + 1
          /\ UNCHANGED <<client, messages, fetches, db, flying, online, held, past>>

\* The broadcast reaches some of the connections the hub has of this client;
\* onmessage of each appends it, whether the store has that socket or another.
OnMessage ==
    /\ flying # 0
    /\ flying' = 0
    /\ \E reached \in SUBSET {online[u] : u \in {v \in Accounts : IsOpen(online[v])}} :
         /\ messages' = messages \o [i \in 1..Cardinality(reached) |-> flying]
         /\ heard' = heard \cup {flying : s \in reached}
         /\ copied' = copied \cup {m \in {flying} : Cardinality(reached) > 1}
    /\ UNCHANGED <<client, fetches, sent, db, online, held, page>>

\* handleRoomSelect: the room becomes active and a page is asked for.  (The
\* join it sends too adds no room that the server had not loaded.)
SelectRoom ==
    /\ mounted
    /\ active' = TRUE
    /\ Cardinality(fetches) < MaxFetches
    /\ fetches' = fetches \cup {[state |-> "asked", n |-> 0, heard |-> heard]}
    /\ UNCHANGED <<user, mounted, socket, sock, timers, messages, server, past>>

GetMessages(f) ==
    /\ f.state = "asked"
    /\ fetches' = (fetches \ {f}) \cup {[f EXCEPT !.state = "answered", !.n = Len(db)]}
    /\ UNCHANGED <<client, messages, server, past>>

\* The page replaces the list.
PageArrives(f) ==
    /\ f.state = "answered"
    /\ fetches' = fetches \ {f}
    /\ messages' = Page(f.n)
    /\ page' = Page(f.n)
    /\ heard' = heard \cup ToSet(Page(f.n))
    /\ UNCHANGED <<client, server, copied>>

PageFails(f) ==
    /\ fetches' = fetches \ {f}
    /\ UNCHANGED <<client, messages, server, past>>

ClientNext ==
    \/ Mount \/ Unmount \/ SelectRoom \/ SendMessage \/ OtherSends \/ OnMessage
    \/ \E u \in Accounts : SwitchUser(u) \/ Timer(u)
    \/ \E s \in Sockets : Opens(s) \/ Breaks(s) \/ OnClose(s) \/ Removes(s)
    \/ \E f \in fetches : GetMessages(f) \/ PageArrives(f) \/ PageFails(f)

ClientSpec == ClientInit /\ [][ClientNext]_clientVars

-----------------------------------------------------------------------------

ClientTypeOK ==
    /\ user \in Accounts /\ mounted \in BOOLEAN /\ active \in BOOLEAN
    /\ socket \in Sockets \cup {NoSocket}
    /\ sock \in [Sockets -> Socket]
    /\ timers \in [Accounts -> 0..MaxTimers]
    /\ messages \in Seq(Message)
    /\ fetches \subseteq Fetch
    /\ sent \in 0..MaxMessages /\ db \in Seq(Message) /\ flying \in 0..sent
    /\ online \in [Accounts -> Sockets \cup {NoSocket}] /\ held \subseteq Sockets
    /\ heard \subseteq Message /\ page \in Seq(Message) /\ copied \subseteq Message

\* While the page is shown the chat is never given up: the store has a socket,
\* whose end will be seen, or a timer will make it connect.
ReconnectComes == mounted => socket # NoSocket \/ \E u \in Accounts : timers[u] > 0

\* The page sends under another user's name only by a socket that a timer of
\* his made after he had left: connect does not look whose socket it keeps.
ImpostorOnlyByTimer ==
    mounted /\ socket # NoSocket /\ sock[socket].user # user => sock[socket].timed

\* A socket that nobody will close is open beside the store's only if the
\* onclose of another came when the store had it.
StrayOnlyByLateClose ==
    \A s \in Sockets : sock[s].state \in {"connecting", "open"} /\ s # socket => sock[s].disowned

\* A message is listed twice only if a page had brought it before its frame, or
\* if it was sent to two sockets of this client, under two names.
RepeatedOnlyByPage ==
    \A i, j \in DOMAIN messages :
        i # j /\ messages[i] = messages[j] => messages[i] \in ToSet(page) \cup copied

\* A page keeps every message that was shown when it was asked for, but those
\* the server failed to store and those beyond its first PageSize.
PageKeepsHeard ==
    [][\A f \in fetches \ fetches' : messages' # messages =>
         \A m \in f.heard : \/ m \in ToSet(messages')
                            \/ m \notin ToSet(db)
                            \/ Len(page') = PageSize]_clientVars

\* The state is well formed, and the chat is never given up.
ClientInv == ClientTypeOK /\ ReconnectComes

\* The store's socket is its user's, and the only one it has open, but for what
\* a late timer and a late onclose do.
SocketIsOwn == ImpostorOnlyByTimer /\ StrayOnlyByLateClose
=============================================================================
