-------------------------------- MODULE Ledger --------------------------------
(***************************************************************************)
(* The traceability ledger (backend/blockchain/ledger.go).  Every handler  *)
(* that records an event calls RecordEvent on its own goroutine: it reads  *)
(* the newest log's hash, stamps and hashes the new log, and inserts it -   *)
(* three steps with no lock and no transaction around them.                *)
(*                                                                         *)
(* calculateHash is a SHA-256 over the previous hash, the payload, the     *)
(* event type and the nanosecond timestamp: here an injective function of  *)
(* the log's stamp, so that a log's CurrentHash is its stamp.  The stamp   *)
(* is also the created_at the insert is given, by which the table is       *)
(* sorted; the timestamp column, read just before, only feeds the hash.    *)
(***************************************************************************)
EXTENDS Integers

CONSTANTS
    Recorders,   \* the request goroutines that may be inside RecordEvent
    MaxStamps    \* bound: the number of logs stamped in a behaviour

ASSUME MaxStampsAssumption == MaxStamps \in Nat

VARIABLES
    logs,    \* the traceability_logs table: a set of records
    clock,   \* the server clock, ticking once per time.Now()
    rec      \* what each recorder holds in its local variables

vars == <<logs, clock, rec>>

\* The 64 zeros getLastHash answers when it finds no log.
Genesis == 0

Hash == 1..MaxStamps

(***************************************************************************)
(* "seen" is a history field: the logs that were in the table when this    *)
(* log's recorder asked for the newest one.  No action's guard reads it.    *)
(***************************************************************************)
Log == [previous : Hash \cup {Genesis}, current : Hash, seen : SUBSET Hash]

Recorder == [pc : {"idle", "hash", "insert"}, previous : Hash \cup {Genesis},
             current : Hash \cup {Genesis}, seen : SUBSET Hash]

Idle == [pc |-> "idle", previous |-> Genesis, current |-> Genesis, seen |-> {}]

TypeOK ==
    /\ logs \subseteq Log
    /\ clock \in Hash \cup {0}
    /\ rec \in [Recorders -> Recorder]

Init ==
    /\ logs = {}
    /\ clock = 0
    /\ rec = [r \in Recorders |-> Idle]

-----------------------------------------------------------------------------

Hashes == {l.current : l \in logs}

\* Defect: the sort order forgotten, so the first log is always answered.
IsOldest(h) == h \in Hashes /\ \A g \in Hashes : h <= g

\* ORDER BY created_at DESC LIMIT 1.
IsNewest(h) == h \in Hashes /\ \A g \in Hashes : g <= h

BeginRecord(r, previous, seen) ==
    /\ rec[r].pc = "idle"
    /\ rec' = [rec EXCEPT ![r] = [pc |-> "hash", previous |-> previous,
                                  current |-> Genesis, seen |-> seen]]
    /\ UNCHANGED <<logs, clock>>

ReadNewest(r) == \E h \in Hashes : IsNewest(h) /\ BeginRecord(r, h, Hashes)

ReadEmpty(r) == Hashes = {} /\ BeginRecord(r, Genesis, {})

\* Any database error in getLastHash is answered with the genesis hash too.
ReadFails(r) == BeginRecord(r, Genesis, {})

StampAndHash(r) ==
    /\ rec[r].pc = "hash"
    /\ clock < MaxStamps
    /\ clock' = clock + 1
    /\ rec' = [rec EXCEPT ![r] = [@ EXCEPT !.pc = "insert", !.current = clock + 1]]
    /\ UNCHANGED logs

NewLog(r) == [previous |-> rec[r].previous, current |-> rec[r].current,
              seen |-> rec[r].seen]

\* Defect: an upsert keyed by the previous hash.
Upsert(r) ==
    /\ rec[r].pc = "insert"
    /\ logs' = {l \in logs : l.previous # rec[r].previous} \cup {NewLog(r)}
    /\ rec' = [rec EXCEPT ![r] = Idle]
    /\ UNCHANGED clock

Insert(r) ==
    /\ rec[r].pc = "insert"
    /\ logs' = logs \cup {NewLog(r)}
    /\ rec' = [rec EXCEPT ![r] = Idle]
    /\ UNCHANGED clock

\* The insert fails, or the process dies first; every caller of RecordEvent
\* drops its error, so the event is silently missing from the ledger.
Abandon(r) ==
    /\ rec[r].pc \in {"hash", "insert"}
    /\ rec' = [rec EXCEPT ![r] = Idle]
    /\ UNCHANGED <<logs, clock>>

RecordEvent(r) ==
    \/ ReadNewest(r)
    \/ ReadEmpty(r)
    \/ ReadFails(r)
    \/ StampAndHash(r)
    \/ Insert(r)
    \/ Abandon(r)

Next == \E r \in Recorders : RecordEvent(r)

Spec == Init /\ [][Next]_vars

-----------------------------------------------------------------------------

\* b follows a when the table is read ORDER BY created_at ASC.
Follows(a, b) ==
    /\ a.current < b.current
    /\ \A c \in logs : c.current <= a.current \/ b.current <= c.current

\* Defect: only the two newest logs are compared.
VerifyNewestPair ==
    \A a, b \in logs : Follows(a, b) /\ IsNewest(b.current) => b.previous = a.current

\* The administrator's check: every log but the oldest names its predecessor.
VerifyChain == \A a, b \in logs : Follows(a, b) => b.previous = a.current

\* b's recorder had asked for the newest log before a was inserted.
MissedBy(a, b) == a.current \notin b.seen

(***************************************************************************)
(* Every log names the genesis hash or a log stamped strictly before it,   *)
(* whatever interleaving and whatever failures: the table is a forest      *)
(* growing backwards in time, never a cycle and never a dangling link.      *)
(***************************************************************************)
LinksPointBack ==
    \A l \in logs : l.previous = Genesis
                    \/ (l.previous \in Hashes /\ l.previous < l.current)

(***************************************************************************)
(* VerifyChain rejects the table exactly when, for some two neighbouring   *)
(* logs, the later one's recorder looked before the earlier one was        *)
(* inserted (or its lookup failed): nothing else breaks the chain, and     *)
(* such an overlap never passes unnoticed.                                  *)
(***************************************************************************)
BrokenExactlyByOverlap ==
    VerifyChain <=> \A a, b \in logs : Follows(a, b) => ~MissedBy(a, b)

(***************************************************************************)
(* A fork - two logs naming the same log as their predecessor - is made    *)
(* only by two recordings that overlapped: neither saw the other.          *)
(***************************************************************************)
ForksOnlyFromOverlap ==
    \A a, b \in logs :
        (a # b /\ a.previous = b.previous /\ a.previous # Genesis)
        => MissedBy(a, b) /\ MissedBy(b, a)

(***************************************************************************)
(* Once VerifyChain fails it fails forever: no later log, not even one     *)
(* stamped between the two that disagree, repairs the chain.               *)
(***************************************************************************)
BrokenForever == [][~VerifyChain => ~VerifyChain']_vars

(***************************************************************************)
(* The ledger seen from outside is an append-only forest of hashes.        *)
(***************************************************************************)
Forest == INSTANCE HashForest WITH
              links <- {<<l.current, l.previous>> : l \in logs}

ImplementsForest == Forest!Spec
=============================================================================
