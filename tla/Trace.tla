-------------------------------- MODULE Trace ---------------------------------
(***************************************************************************)
(* From farm to table: the rows that the services of farms, cultivation,   *)
(* harvests, products, orders and shipments create, the event that each    *)
(* records once its row is in, and what a customer who enters a batch code *)
(* is shown of them.                                                        *)
(*                                                                         *)
(* Rows have no contents but what they were created from.  The stock of a   *)
(* product, the lines of an order one by one, and the legs of a shipment    *)
(* are in Stock and Orders, and the hashes of the log in Ledger: of        *)
(* RecordEvent the timestamp and the insertion are here, which are all that *)
(* a trace depends on. A batch stands for its code, which a unique index    *)
(* makes its own.                                                           *)
(***************************************************************************)
EXTENDS Integers, FiniteSets, SequencesExt

CONSTANTS
    Farms, Ponds, Cycles, Harvests, Batches, Products, Orders, Shipments,
    Handlers,    \* the request goroutines that create rows and record events
    MaxTimes,    \* bound: the number of timestamps taken in a behaviour
    Deletable,   \* bound: the farms, ponds and products that anybody deletes
    On           \* what a row refers to: a sequence, which for an order are its lines

\* The kinds of rows, from farm to table: each refers to rows of the one before.
Kinds == <<Farms, Ponds, Cycles, Harvests, Batches, Products, Orders, Shipments>>

Rows == UNION {Kinds[k] : k \in DOMAIN Kinds}

\* An id says of which kind its row is.  A foreign key is a single column, which
\* only a product may leave NULL; orders, through their lines, refer to several rows.
ASSUME KindsAssumption ==
    \A k, m \in DOMAIN Kinds : k # m => Kinds[k] \cap Kinds[m] = {}
ASSUME OnAssumption ==
    /\ On \in [Rows -> Seq(Rows)]
    /\ \A x \in Farms : On[x] = <<>>
    /\ \A k \in DOMAIN Kinds \ {1} : \A x \in Kinds[k] :
          /\ \A i \in DOMAIN On[x] : On[x][i] \in Kinds[k - 1]
          /\ x \in Products => Len(On[x]) <= 1
          /\ x \notin Orders \cup Products => Len(On[x]) = 1
ASSUME BoundsAssumption == MaxTimes \in Nat /\ Deletable \subseteq Farms \cup Ponds \cup Products

VARIABLES
    rows,      \* the rows there are, deleted ones included
    deleted,   \* those with a deleted_at
    task,      \* what each handler is doing
    ledger,    \* the traceability_logs table
    hasty,     \* history: rows referred to before their creation was recorded
    dropped    \* history: rows whose handler ended without recording them

traceVars == <<rows, deleted, task, ledger, hasty, dropped>>

NoTask == [pc |-> "idle"]

Time == 1..MaxTimes

\* An event is the creation of a row, or something else that was done with it.
Event == [of : Rows, creates : BOOLEAN]

Task == [pc : {"idle"}]
        \cup [pc : {"record"}, event : Event]
        \cup [pc : {"append"}, event : Event, timestamp : Time]

Entry == [event : Event, timestamp : Time]

TraceInit ==
    /\ rows = {} /\ deleted = {} /\ hasty = {} /\ dropped = {}
    /\ task = [r \in Handlers |-> NoTask]
    /\ ledger = {}

-----------------------------------------------------------------------------
(* Creating rows.                                                          *)

Visible(x) == x \in rows \ deleted

\* A foreign key asks for the row only; some services look for it first, and
\* then see no deleted one.
Ready(x) ==
    /\ x \notin rows
    /\ \A y \in ToSet(On[x]) :
         /\ y \in rows
         /\ x \in Ponds \cup Cycles \cup Orders => Visible(y)
         /\ x \in Cycles => \A f \in ToSet(On[y]) : Visible(f)

\* The rows among S whose own handler has not finished recording them.
Unrecorded(S) ==
    {y \in S : \E r \in Handlers :
        task[r].pc # "idle" /\ task[r].event = [of |-> y, creates |-> TRUE]}

\* Every service but those of ponds and shipments goes on to record the event.
Recorded(x) == x \notin Ponds \cup Shipments

ToRecord(x, creates) == [pc |-> "record", event |-> [of |-> x, creates |-> creates]]

Create(r, x) ==
    /\ task[r].pc = "idle" /\ Ready(x)
    /\ rows' = rows \cup {x}
    /\ hasty' = hasty \cup Unrecorded(ToSet(On[x]))
    /\ task' = IF Recorded(x) THEN [task EXCEPT ![r] = ToRecord(x, TRUE)] ELSE task
    /\ UNCHANGED <<deleted, ledger, dropped>>

\* A feed or water quality log of a cycle, or a courier's update of a shipment,
\* which is recorded under the id of the shipment's order.
LogMore(r, x) ==
    /\ task[r].pc = "idle" /\ x \in rows
    /\ hasty' = hasty \cup Unrecorded({x})
    /\ task' = [task EXCEPT ![r] = ToRecord(x, FALSE)]
    /\ UNCHANGED <<rows, deleted, ledger, dropped>>

-----------------------------------------------------------------------------
(* Deleting them: deleted_at is set, and the row stays.                    *)

Delete(x) ==
    /\ Visible(x)
    /\ x \in Ponds => \A f \in ToSet(On[x]) : Visible(f)
    /\ deleted' = deleted \cup {x}
    /\ UNCHANGED <<rows, task, ledger, hasty, dropped>>

\* gorm's Save inserts or overwrites the whole row when its UPDATE finds none:
\* an update that read the row before it was deleted brings it back.
SaveOldCopy(x) ==
    /\ x \in deleted
    /\ deleted' = deleted \ {x}
    /\ UNCHANGED <<rows, task, ledger, hasty, dropped>>

-----------------------------------------------------------------------------
(* Recording.                                                              *)

\* The timestamps that matter still: of them only the order does.
Stamped == {l.timestamp : l \in ledger}
           \cup {task[r].timestamp : r \in {q \in Handlers : task[q].pc = "append"}}

\* RecordEvent takes the timestamp, after it has read the newest hash ...
Timestamp(r) ==
    /\ task[r].pc = "record"
    /\ \E now \in Time :
         /\ now = 1 + Max(Stamped \cup {0})
         /\ task' = [task EXCEPT ![r] = [pc |-> "append", event |-> task[r].event, timestamp |-> now]]
    /\ UNCHANGED <<rows, deleted, ledger, hasty, dropped>>

\* ... and inserts the log.
InsertLog(r) ==
    /\ task[r].pc = "append"
    /\ ledger' = ledger \cup {[event |-> task[r].event, timestamp |-> task[r].timestamp]}
    /\ task' = [task EXCEPT ![r] = NoTask]
    /\ UNCHANGED <<rows, deleted, hasty, dropped>>

\* The insertion of the log fails, and every service drops the error, or the
\* process dies.
GiveUp(r) ==
    /\ task[r].pc # "idle"
    /\ task' = [task EXCEPT ![r] = NoTask]
    /\ dropped' = IF task[r].event.creates THEN dropped \cup {task[r].event.of} ELSE dropped
    /\ UNCHANGED <<rows, deleted, ledger, hasty>>

TraceNext ==
    \/ \E r \in Handlers :
         \/ \E x \in Rows : Create(r, x)
         \/ \E x \in Cycles \cup Shipments : LogMore(r, x)
         \/ Timestamp(r) \/ InsertLog(r) \/ GiveUp(r)
    \/ \E x \in Deletable : Delete(x) \/ SaveOldCopy(x)

TraceSpec == TraceInit /\ [][TraceNext]_traceVars

-----------------------------------------------------------------------------
(* Reading: GetTraceByBatchCode.                                           *)

\* The logs of some rows, as the table has them.
LogsOf(S) == SetToSeq({l \in ledger : l.event.of \in S})

\* The lists of a function, one after the other.
Concat(lists) ==
    LET keys == SetToSeq(DOMAIN lists)
    IN  FlattenSeq([i \in DOMAIN keys |-> lists[keys[i]]])

\* The lines that orders have of a product.
OrderItems(p) == UNION {{o} \X {i \in DOMAIN On[o] : On[o][i] = p} : o \in Orders \cap rows}

LogsOfItem(item) == LogsOf({item[1]}) \o LogsOf({s \in Shipments : On[s][1] = item[1]})

LogsOfProduct(p) == LogsOf({p}) \o Concat([item \in OrderItems(p) |-> LogsOfItem(item)])

\* Defect: the farm is looked for under the id of the pond.
FarmLogsByPond(pond) == IF Visible(pond) THEN LogsOf({pond}) ELSE <<>>

\* Of the rows upstream only the pond can be missing: the others are never deleted.
FarmLogs(pond) == IF Visible(pond) THEN LogsOf({On[pond][1]}) ELSE <<>>

\* Defect: the logs are left as they were collected.
LeaveUnsorted(list) == list

\* An exchange sort: what comes later in the list and is older changes places.
Exchange(list, i, j) ==
    IF list[i].timestamp > list[j].timestamp
    THEN [list EXCEPT ![i] = list[j], ![j] = list[i]] ELSE list

\* Place i is compared with every place behind it.
Pass(list, i) ==
    LET inner[j \in i..Len(list)] == IF j = i THEN list ELSE Exchange(inner[j - 1], i, j)
    IN  inner[Len(list)]

sortLogsByTimestamp(list) ==
    LET outer[i \in 0..Len(list)] == IF i = 0 THEN list ELSE Pass(outer[i - 1], i)
    IN  outer[Len(list)]

GetTraceByBatchCode(b) ==
    LET harvest == On[b][1]
        cycle == On[harvest][1]
        sorted == [list \in Seq(Entry) |-> sortLogsByTimestamp(list)]
    IN  sorted[LogsOf({b}) \o LogsOf({harvest}) \o LogsOf({cycle}) \o FarmLogs(On[cycle][1])
               \o Concat([p \in {q \in Products : Visible(q) /\ On[q] = <<b>>} |-> LogsOfProduct(p)])]

-----------------------------------------------------------------------------

Above[x \in Rows] == ToSet(On[x]) \cup UNION {Above[y] : y \in ToSet(On[x])}

\* The pairs of a row and one that it was made from, however indirectly.
Made == {pair \in Rows \X Rows : pair[2] \in Above[pair[1]]}

TraceTypeOK ==
    /\ deleted \subseteq rows /\ rows \subseteq Rows
    /\ task \in [Handlers -> Task]
    /\ ledger \subseteq Entry
    /\ hasty \subseteq rows /\ dropped \subseteq rows

(***************************************************************************)
(* A trace tells the creation of a thing before all that was done with it  *)
(* or made of it, unless something was before its handler had recorded it: *)
(* for the row can be used as soon as it is in.                            *)
(***************************************************************************)
TraceInOrder ==
    \A b \in Batches \cap rows :
        LET trace == GetTraceByBatchCode(b)
        IN  \A i, j \in DOMAIN trace :
              LET x == trace[i].event.of
                  y == trace[j].event.of
              IN  /\ i < j /\ trace[i] # trace[j]
                  /\ trace[j].event.creates /\ (x = y \/ <<x, y>> \in Made)
                  => y \in hasty

\* The state is well formed, and every trace is in order.
TraceInv == TraceTypeOK /\ TraceInOrder

\* What was made from batch b or b from it.
IsKin(x, b) == x = b \/ <<x, b>> \in Made \/ <<b, x>> \in Made

\* What deletions hide from the trace of b: with its pond the farm, with a
\* product the orders that have no line of another product of the batch.
Hidden(x, b) ==
    \/ x \in Farms /\ \E d \in deleted : d \in Ponds /\ <<b, d>> \in Made
    \/ /\ <<x, b>> \in Made
       /\ \A p \in Products \ deleted : <<p, b>> \in Made => ~(x = p \/ <<x, p>> \in Made)

(***************************************************************************)
(* Every step from farm to table is recorded, once its handler is done,    *)
(* unless the handler dropped it; and a batch's trace tells all that was   *)
(* recorded of what it was made from and what was made from it, no less    *)
(* and no more, but for what a deletion hides.                             *)
(***************************************************************************)
TraceComplete ==
    /\ \A x \in rows \ dropped : Recorded(x) /\ Unrecorded({x}) = {} =>
         \E l \in ledger : l.event = [of |-> x, creates |-> TRUE]
    /\ \A b \in Batches \cap rows :
         LET trace == GetTraceByBatchCode(b)
         IN  ToSet(trace) = {l \in ledger : IsKin(l.event.of, b) /\ ~Hidden(l.event.of, b)}
=============================================================================
