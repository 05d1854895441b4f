-------------------------- MODULE TraceabilityProofs --------------------------
(***************************************************************************)
(* Theorems about the traceability ledger, for any number of concurrent    *)
(* recorders and any bound on the stamps; and about the traces read from    *)
(* it, for any farms, products and orders that refer to one another in any  *)
(* way the foreign keys allow, any number of handlers and any bound on the  *)
(* timestamps.                                                              *)
(***************************************************************************)
EXTENDS Ledger, Trace, FiniteSetTheorems, FunctionTheorems, SequenceTheorems, TLAPS

(***************************************************************************)
(* The chain of hashes: Ledger.                                             *)
(***************************************************************************)

(***************************************************************************)
(* The inductive invariant.  What a recorder holds (Held) and what a       *)
(* committed log says of its own past are the same statement, Informed:    *)
(* the previous hash is the newest of the logs seen, or genesis if none.   *)
(***************************************************************************)
Informed(x) ==
    /\ x.seen \subseteq Hashes
    /\ IF x.seen = {} THEN x.previous = Genesis ELSE x.previous \in x.seen
    /\ \A h \in x.seen : h <= x.previous

\* A stamp is newer than every log its recorder saw.
StampedLast(x) == \A h \in x.seen : h < x.current

InFlight == {r \in Recorders : rec[r].pc = "insert"}

\* Stamps are unique among the logs and the recorders about to insert.
UniqueStamps ==
    /\ \A a, b \in logs : a.current = b.current => a = b
    /\ \A r \in InFlight : rec[r].current \notin Hashes
    /\ \A r, q \in InFlight : rec[r].current = rec[q].current => r = q

PastStamps ==
    /\ \A h \in Hashes : h <= clock
    /\ \A r \in InFlight : rec[r].current <= clock /\ rec[r].current # Genesis

LedgerInv ==
    /\ TypeOK
    /\ UniqueStamps
    /\ PastStamps
    /\ \A l \in logs : Informed(l) /\ StampedLast(l)
    /\ \A r \in Recorders : rec[r].pc # "idle" => Informed(rec[r])
    /\ \A r \in InFlight : StampedLast(rec[r])

-----------------------------------------------------------------------------

\* The ledger starts empty, with every recorder idle: the invariant holds.
LEMMA InitInv == Init => LedgerInv
BY MaxStampsAssumption
   DEF Init, LedgerInv, TypeOK, UniqueStamps, PastStamps, Informed, StampedLast,
       InFlight, Hashes, Log, Recorder, Idle, Hash, Genesis

\* What getLastHash hands back informs the recorder, whether it found the
\* newest log, an empty table, or failed.
LEMMA BeginStep ==
    ASSUME LedgerInv, NEW r \in Recorders,
           NEW p \in Hash \cup {Genesis}, NEW s \in SUBSET Hashes,
           IF s = {} THEN p = Genesis ELSE p \in s,
           \A h \in s : h <= p,
           BeginRecord(r, p, s)
    PROVE  LedgerInv'
<1> DEFINE new == [pc |-> "hash", previous |-> p, current |-> Genesis, seen |-> s]
<1>1. /\ rec' = [rec EXCEPT ![r] = new]
      /\ rec[r].pc = "idle"
      /\ logs' = logs /\ clock' = clock
      /\ Hashes' = Hashes
  BY DEF BeginRecord, Hashes
<1>2. Hashes \subseteq Hash
  BY DEF LedgerInv, TypeOK, Hashes, Log
<1>3. new \in Recorder
  BY <1>2 DEF Recorder, Hash, Genesis
<1>4. TypeOK'
  BY <1>1, <1>3 DEF LedgerInv, TypeOK
<1>5. \A q \in Recorders : rec'[q] = IF q = r THEN new ELSE rec[q]
  BY <1>1 DEF LedgerInv, TypeOK
<1>6. InFlight' = InFlight /\ \A q \in InFlight : rec'[q] = rec[q]
  BY <1>1, <1>5 DEF InFlight
<1>7. UniqueStamps' /\ PastStamps'
  BY <1>1, <1>6 DEF LedgerInv, UniqueStamps, PastStamps
<1>8. (\A l \in logs : Informed(l) /\ StampedLast(l))'
  BY <1>1 DEF LedgerInv, Informed, StampedLast
<1>9. (\A q \in Recorders : rec[q].pc # "idle" => Informed(rec[q]))'
  BY <1>1, <1>5 DEF LedgerInv, Informed
<1>10. (\A q \in InFlight : StampedLast(rec[q]))'
  BY <1>1, <1>6 DEF LedgerInv, StampedLast
<1>11. QED
  BY <1>4, <1>7, <1>8, <1>9, <1>10 DEF LedgerInv

\* A fresh tick of the clock is newer than everything committed or in flight.
LEMMA StampStep ==
    ASSUME LedgerInv, NEW r \in Recorders, StampAndHash(r)
    PROVE  LedgerInv'
<1> DEFINE new == [rec[r] EXCEPT !.pc = "insert", !.current = clock + 1]
<1>1. /\ rec[r].pc = "hash" /\ clock < MaxStamps
      /\ logs' = logs /\ clock' = clock + 1 /\ Hashes' = Hashes
  BY DEF StampAndHash, Hashes
<1>2. /\ rec \in [Recorders -> Recorder] /\ clock \in 0..MaxStamps
      /\ Hashes \subseteq Hash
  BY MaxStampsAssumption DEF LedgerInv, TypeOK, Hashes, Log, Hash
<1>3. rec' = [rec EXCEPT ![r] = new]
  BY DEF StampAndHash
<1>4. new \in Recorder /\ clock' \in Hash
  <2>1. clock + 1 \in Hash
    BY <1>1, <1>2, MaxStampsAssumption DEF Hash
  <2>2. rec[r] \in Recorder
    BY <1>2
  <2>3. QED BY <1>1, <2>1, <2>2 DEF Recorder
<1>5. TypeOK'
  BY <1>1, <1>2, <1>3, <1>4 DEF LedgerInv, TypeOK
<1>6. \A q \in Recorders : rec'[q] = IF q = r THEN new ELSE rec[q]
  BY <1>2, <1>3
<1>7. /\ new.pc = "insert" /\ new.current = clock + 1
      /\ new.seen = rec[r].seen /\ new.previous = rec[r].previous
  BY <1>2 DEF Recorder
<1>8. InFlight' = InFlight \cup {r} /\ r \notin InFlight
  <2>1. \A q \in Recorders : (rec'[q].pc = "insert") <=> (q = r \/ rec[q].pc = "insert")
    BY <1>6, <1>7
  <2>2. QED BY <1>1, <2>1 DEF InFlight
<1>9. /\ \A h \in Hashes : h < clock + 1
      /\ \A q \in InFlight : rec[q].current < clock + 1
  BY <1>2, MaxStampsAssumption DEF LedgerInv, PastStamps, InFlight, Hash, Recorder, Genesis
<1>10. UniqueStamps'
  <2>1. \A q \in InFlight' : rec'[q].current = IF q = r THEN clock + 1 ELSE rec[q].current
    BY <1>6, <1>7, <1>8 DEF InFlight
  <2>2. \A q \in InFlight' : rec'[q].current \notin Hashes
    BY <2>1, <1>8, <1>9, <1>2 DEF LedgerInv, UniqueStamps, Hash
  <2>3. \A q, z \in InFlight' : rec'[q].current = rec'[z].current => q = z
    BY <2>1, <1>8, <1>9, <1>2 DEF LedgerInv, UniqueStamps
  <2>4. QED BY <1>1, <2>2, <2>3 DEF LedgerInv, UniqueStamps
<1>11. PastStamps'
  <2>1. \A h \in Hashes : h <= clock + 1
    BY <1>2, <1>9 DEF Hash
  <2>2. \A q \in InFlight : /\ rec'[q] = rec[q] /\ rec[q].current # Genesis
                            /\ rec[q].current <= clock + 1
    BY <1>2, <1>6, <1>8, <1>9, MaxStampsAssumption
       DEF InFlight, LedgerInv, PastStamps, Recorder, Hash, Genesis
  <2>3. /\ rec'[r].current = clock + 1 /\ clock + 1 # Genesis
        /\ clock + 1 <= clock + 1
    <3>1. rec'[r].current = clock + 1
      BY <1>6, <1>7
    <3>2. clock + 1 # Genesis /\ clock + 1 <= clock + 1
      BY <1>2 DEF Genesis
    <3>3. QED BY <3>1, <3>2
  <2>4. \A q \in InFlight' : rec'[q].current <= clock' /\ rec'[q].current # Genesis
    BY <1>1, <1>8, <2>2, <2>3
  <2>5. QED BY <1>1, <2>1, <2>4 DEF PastStamps
<1>12. (\A l \in logs : Informed(l) /\ StampedLast(l))'
  BY <1>1 DEF LedgerInv, Informed, StampedLast
<1>13. Informed(rec[r])
  BY <1>1 DEF LedgerInv
<1>14. (\A q \in Recorders : rec[q].pc # "idle" => Informed(rec[q]))'
  BY <1>1, <1>6, <1>7, <1>13 DEF LedgerInv, Informed
<1>15. (\A q \in InFlight : StampedLast(rec[q]))'
  <2>1. \A h \in rec[r].seen : h < clock + 1
    BY <1>9, <1>13 DEF Informed
  <2>2. StampedLast(rec'[r])
    BY <1>6, <1>7, <2>1 DEF StampedLast
  <2>3. \A q \in InFlight : rec'[q] = rec[q] /\ StampedLast(rec[q])
    BY <1>6, <1>8 DEF LedgerInv, InFlight
  <2>4. QED BY <1>8, <2>2, <2>3 DEF StampedLast
<1>16. QED
  BY <1>5, <1>10, <1>11, <1>12, <1>14, <1>15 DEF LedgerInv

\* Inserting a stamped log: nothing already there, or in flight, has its hash.
LEMMA InsertStep ==
    ASSUME LedgerInv, NEW r \in Recorders, Insert(r)
    PROVE  LedgerInv'
<1> DEFINE new == NewLog(r)
<1>1. /\ rec[r].pc = "insert" /\ r \in InFlight
      /\ logs' = logs \cup {new} /\ clock' = clock
      /\ rec' = [rec EXCEPT ![r] = Idle]
  BY DEF Insert, InFlight
<1>2. /\ new.previous = rec[r].previous /\ new.current = rec[r].current
      /\ new.seen = rec[r].seen
  BY DEF NewLog
<1>3. rec[r] \in Recorder /\ rec[r].current \in Hash
  BY <1>1 DEF LedgerInv, TypeOK, PastStamps, Recorder, Genesis
<1>4. new \in Log
  BY <1>3 DEF NewLog, Log, Recorder
<1>5. Hashes' = Hashes \cup {new.current}
  BY <1>1 DEF Hashes
<1>6. \A q \in Recorders : rec'[q] = IF q = r THEN Idle ELSE rec[q]
  BY <1>1 DEF LedgerInv, TypeOK
<1>7. TypeOK'
  <2>1. Idle \in Recorder
    BY DEF Idle, Recorder, Genesis
  <2>2. QED BY <1>1, <1>4, <2>1 DEF LedgerInv, TypeOK
<1>8. InFlight' = InFlight \ {r}
  BY <1>1, <1>6 DEF InFlight, Idle
<1>9. UniqueStamps'
  <2>1. new.current \notin Hashes
    BY <1>1, <1>2 DEF LedgerInv, UniqueStamps
  <2>2. \A a, b \in logs' : a.current = b.current => a = b
    BY <1>1, <2>1 DEF LedgerInv, UniqueStamps, Hashes
  <2>3. \A q \in InFlight' : rec'[q] = rec[q] /\ rec[q].current # new.current
    BY <1>1, <1>2, <1>6, <1>8 DEF LedgerInv, UniqueStamps, InFlight
  <2>4. QED BY <1>5, <1>8, <2>2, <2>3 DEF LedgerInv, UniqueStamps
<1>10. PastStamps'
  <2>1. \A q \in InFlight' : rec'[q] = rec[q]
    BY <1>6, <1>8 DEF InFlight
  <2>2. QED BY <1>1, <1>2, <1>5, <1>8, <2>1 DEF LedgerInv, PastStamps
<1>11. (\A l \in logs : Informed(l) /\ StampedLast(l))'
  <2>1. Informed(rec[r]) /\ StampedLast(rec[r])
    BY <1>1 DEF LedgerInv
  <2>2. \A l \in logs' : Informed(l) /\ StampedLast(l)
    BY <1>1, <1>2, <2>1 DEF LedgerInv, Informed, StampedLast
  <2>3. QED BY <1>5, <2>2 DEF Informed, StampedLast
<1>12. (\A q \in Recorders : rec[q].pc # "idle" => Informed(rec[q]))'
  BY <1>5, <1>6 DEF LedgerInv, Informed, Idle
<1>13. (\A q \in InFlight : StampedLast(rec[q]))'
  BY <1>6, <1>8 DEF LedgerInv, StampedLast, InFlight
<1>14. QED
  BY <1>7, <1>9, <1>10, <1>11, <1>12, <1>13 DEF LedgerInv

\* A recorder that gives up only forgets.
LEMMA AbandonStep ==
    ASSUME LedgerInv, NEW r \in Recorders, Abandon(r)
    PROVE  LedgerInv'
<1>1. /\ logs' = logs /\ clock' = clock /\ Hashes' = Hashes
      /\ rec' = [rec EXCEPT ![r] = Idle]
  BY DEF Abandon, Hashes
<1>2. \A q \in Recorders : rec'[q] = IF q = r THEN Idle ELSE rec[q]
  BY <1>1 DEF LedgerInv, TypeOK
<1>3. InFlight' = InFlight \ {r} /\ \A q \in InFlight' : rec'[q] = rec[q]
  BY <1>2 DEF InFlight, Idle
<1>4. TypeOK'
  <2>1. Idle \in Recorder
    BY DEF Idle, Recorder, Genesis
  <2>2. QED BY <1>1, <2>1 DEF LedgerInv, TypeOK
<1>5. UniqueStamps' /\ PastStamps'
  BY <1>1, <1>3 DEF LedgerInv, UniqueStamps, PastStamps
<1>6. (\A l \in logs : Informed(l) /\ StampedLast(l))'
  BY <1>1 DEF LedgerInv, Informed, StampedLast
<1>7. (\A q \in Recorders : rec[q].pc # "idle" => Informed(rec[q]))'
  BY <1>1, <1>2 DEF LedgerInv, Informed, Idle
<1>8. (\A q \in InFlight : StampedLast(rec[q]))'
  BY <1>3 DEF LedgerInv, StampedLast
<1>9. QED
  BY <1>4, <1>5, <1>6, <1>7, <1>8 DEF LedgerInv

\* LedgerInv is inductive: one case per action of RecordEvent.
LEMMA StepInv == LedgerInv /\ [Next]_vars => LedgerInv'
<1> SUFFICES ASSUME LedgerInv, [Next]_vars PROVE LedgerInv'
  OBVIOUS
<1>1. Hashes \subseteq Hash
  BY DEF LedgerInv, TypeOK, Hashes, Log
<1>2. ASSUME NEW r \in Recorders, ReadNewest(r) PROVE LedgerInv'
  <2>1. PICK h \in Hashes : IsNewest(h) /\ BeginRecord(r, h, Hashes)
    BY <1>2 DEF ReadNewest
  <2>2. h \in Hash \cup {Genesis} /\ Hashes # {}
    BY <1>1
  <2>3. \A g \in Hashes : g <= h
    BY <2>1 DEF IsNewest
  <2>4. QED BY <2>1, <2>2, <2>3, BeginStep
<1>3. ASSUME NEW r \in Recorders, ReadEmpty(r) \/ ReadFails(r) PROVE LedgerInv'
  <2>1. BeginRecord(r, Genesis, {})
    BY <1>3 DEF ReadEmpty, ReadFails
  <2>2. QED BY <2>1, BeginStep
<1>4. CASE UNCHANGED vars
  BY <1>4 DEF vars, LedgerInv, TypeOK, UniqueStamps, PastStamps, Informed,
              StampedLast, InFlight, Hashes
<1>5. QED
  BY <1>2, <1>3, <1>4, StampStep, InsertStep, AbandonStep DEF Next, RecordEvent

\* Every reachable state of the ledger satisfies the inductive invariant.
THEOREM LedgerInvariant == Spec => []LedgerInv
BY InitInv, StepInv, PTL DEF Spec

-----------------------------------------------------------------------------

\* Hashes are stamps, logs have them, and distinct logs have distinct ones.
LEMMA LogFacts ==
    ASSUME LedgerInv
    PROVE  /\ Hashes \subseteq Nat /\ Genesis \notin Hashes
           /\ \A l \in logs : l.current \in Hashes /\ l.seen \subseteq Hashes
           /\ \A h \in Hashes : \E l \in logs : l.current = h
BY MaxStampsAssumption
   DEF LedgerInv, TypeOK, Informed, Hashes, Log, Hash, Genesis

\* No link of the traceability ledger dangles or points forward in time.
THEOREM LinksAlwaysPointBack == Spec => []LinksPointBack
<1>1. LedgerInv => LinksPointBack
  BY LogFacts DEF LedgerInv, LinksPointBack, Informed, StampedLast
<1>2. QED BY <1>1, LedgerInvariant, PTL

\* Two logs that fork from one predecessor were recorded by overlapping calls.
THEOREM ForksAlwaysOverlap == Spec => []ForksOnlyFromOverlap
<1>1. LedgerInv => ForksOnlyFromOverlap
  <2> SUFFICES ASSUME LedgerInv, NEW a \in logs, NEW b \in logs,
                      a # b, a.previous = b.previous, a.previous # Genesis
               PROVE  MissedBy(a, b) /\ MissedBy(b, a)
    BY DEF ForksOnlyFromOverlap
  <2>1. /\ a.previous < a.current /\ b.previous < b.current
        /\ a.previous \in Nat /\ a.current \in Nat /\ b.current \in Nat
    BY LogFacts DEF LedgerInv, Informed, StampedLast
  <2>2. /\ \A h \in a.seen : h <= a.previous
        /\ \A h \in b.seen : h <= b.previous
    BY DEF LedgerInv, Informed
  <2>3. QED BY <2>1, <2>2 DEF MissedBy
<1>2. QED BY <1>1, LedgerInvariant, PTL

\* The administrator's check fails exactly when two neighbours' recordings
\* overlapped or a lookup failed.
THEOREM BrokenExactlyByOverlaps == Spec => []BrokenExactlyByOverlap
<1>1. LedgerInv => BrokenExactlyByOverlap
  <2> SUFFICES ASSUME LedgerInv, NEW a \in logs, NEW b \in logs, Follows(a, b)
               PROVE  b.previous = a.current <=> ~MissedBy(a, b)
    BY DEF BrokenExactlyByOverlap, VerifyChain
  <2>1. a.current # Genesis
    BY LogFacts
  <2>2. b.previous = a.current => a.current \in b.seen
    BY <2>1 DEF LedgerInv, Informed
  <2>3. ASSUME a.current \in b.seen PROVE b.previous = a.current
    <3>1. b.previous \in b.seen /\ a.current <= b.previous
      BY <2>3 DEF LedgerInv, Informed
    <3>2. b.previous < b.current
      BY <3>1 DEF LedgerInv, StampedLast
    <3>3. PICK c \in logs : c.current = b.previous
      BY <3>1, LogFacts
    <3>4. c.current <= a.current
      <4>1. c.current \in Nat /\ a.current \in Nat /\ b.current \in Nat
        BY LogFacts
      <4>2. QED BY <3>2, <3>3, <4>1 DEF Follows
    <3>5. QED BY <3>1, <3>3, <3>4, LogFacts
  <2>4. QED BY <2>2, <2>3 DEF MissedBy
<1>2. QED BY <1>1, LedgerInvariant, PTL

\* A chain that fails to verify fails in every later state: the log inserted
\* between two disagreeing neighbours cannot be the one the later names.
THEOREM BrokenStaysBroken == Spec => BrokenForever
<1>1. LedgerInv /\ LedgerInv' /\ [Next]_vars => [~VerifyChain => ~VerifyChain']_vars
  <2> SUFFICES ASSUME LedgerInv, LedgerInv', [Next]_vars, ~VerifyChain
               PROVE  ~VerifyChain'
    OBVIOUS
  <2>1. CASE logs' = logs
    BY <2>1 DEF VerifyChain, Follows
  <2>2. ASSUME NEW r \in Recorders, Insert(r) PROVE ~VerifyChain'
    <3>0. PICK n : n = NewLog(r)
      OBVIOUS
    <3>1. PICK a \in logs, b \in logs : Follows(a, b) /\ b.previous # a.current
      BY DEF VerifyChain
    <3>2. logs' = logs \cup {n} /\ n.current \notin Hashes
      BY <2>2, <3>0 DEF Insert, NewLog, LedgerInv, UniqueStamps, InFlight
    <3>3. /\ a.current \in Nat /\ b.current \in Nat
          /\ \A l \in logs' : l.current \in Nat
      BY MaxStampsAssumption, <3>2 DEF LedgerInv, TypeOK, Log, Hash
    <3>4. CASE n.current <= a.current \/ b.current <= n.current
      <4>1. Follows(a, b)'
        BY <3>1, <3>2, <3>4 DEF Follows
      <4>2. QED BY <3>1, <3>2, <4>1 DEF VerifyChain
    <3>5. CASE a.current < n.current /\ n.current < b.current
      <4>1. Follows(n, b)'
        BY <3>1, <3>2, <3>3, <3>5 DEF Follows
      <4>2. b.previous # n.current
        BY <3>2, <3>3, <3>5 DEF LedgerInv, Informed, Genesis
      <4>3. QED BY <3>2, <4>1, <4>2 DEF VerifyChain
    <3>6. n.current \in Nat
      BY <3>2, <3>3
    <3>7. QED BY <3>3, <3>4, <3>5, <3>6
  <2>3. QED
    BY <2>1, <2>2 DEF Next, RecordEvent, ReadNewest, ReadEmpty, ReadFails,
                      BeginRecord, StampAndHash, Abandon, vars
<1>2. QED BY <1>1, LedgerInvariant, PTL DEF Spec, BrokenForever

\* The interleaved three-step recording implements an append-only forest.
THEOREM LedgerIsForest == Spec => ImplementsForest
<1> DEFINE links == {<<l.current, l.previous>> : l \in logs}
<1>1. Forest!Linked = Hashes
  <2>1. Forest!Linked = {l[1] : l \in links}
    BY DEF Forest!Linked
  <2>2. \A l \in logs : <<l.current, l.previous>>[1] = l.current
    OBVIOUS
  <2>3. QED BY <2>1, <2>2 DEF Hashes
<1>2. Init => Forest!Init
  BY DEF Init, Forest!Init
<1>3. LedgerInv /\ [Next]_vars => [Forest!Next]_links
  <2> SUFFICES ASSUME LedgerInv, [Next]_vars PROVE [Forest!Next]_links
    OBVIOUS
  <2>1. CASE logs' = logs
    BY <2>1
  <2>2. ASSUME NEW r \in Recorders, Insert(r) PROVE Forest!Next
    <3> DEFINE n == NewLog(r)
    <3>1. /\ logs' = logs \cup {n} /\ n.current \notin Hashes
          /\ n.current \in Hash /\ n.previous \in Hashes \cup {Genesis}
      BY <2>2 DEF Insert, NewLog, LedgerInv, TypeOK, UniqueStamps, PastStamps,
                  Informed, InFlight, Recorder, Genesis
    <3>2. links' = links \cup {<<n.current, n.previous>>}
      BY <3>1
    <3>3. QED BY <1>1, <3>1, <3>2 DEF Forest!Next, Forest!Grow, Forest!Genesis, Genesis
  <2>3. QED
    BY <2>1, <2>2 DEF Next, RecordEvent, ReadNewest, ReadEmpty, ReadFails,
                      BeginRecord, StampAndHash, Abandon, vars
<1>4. QED
  BY <1>2, <1>3, LedgerInvariant, PTL DEF Spec, ImplementsForest, Forest!Spec

-----------------------------------------------------------------------------
(***************************************************************************)
(* Lists and numbers.  Induction is on sets of numbers: no predicate has to be *)
(* a parameter.                                                            *)
(***************************************************************************)

\* Induction on the numbers, for a set of them: a set that has 0 and with each
\* number the next leaves none out, for else the pigeons below it would not fit.
LEMMA SetInduction ==
    ASSUME NEW S, 0 \in S, \A n \in Nat : n \in S => n + 1 \in S
    PROVE  Nat \subseteq S
<1>1. SUFFICES ASSUME NEW n \in Nat, n \notin S PROVE FALSE
  OBVIOUS
<1> DEFINE T == S \cap (0..n)
           F == [x \in T |-> x + 1]
<1>2. IsFiniteSet(T) /\ IsFiniteSet(T \ {0}) /\ Cardinality(T \ {0}) < Cardinality(T)
  <2>1. IsFiniteSet(0..n) /\ T \in SUBSET (0..n)
    BY FS_Interval
  <2>2. IsFiniteSet(T)
    BY <2>1, FS_Subset
  <2>3. 0 \in T
    OBVIOUS
  <2> HIDE DEF T
  <2>4. Cardinality(T) \in Nat
    BY <2>2, FS_CardinalityType
  <2>5. IsFiniteSet(T \ {0}) /\ Cardinality(T \ {0}) = Cardinality(T) - 1
    BY <2>2, <2>3, FS_RemoveElement
  <2>6. QED BY <2>2, <2>4, <2>5
<1>3. F \in [T -> T \ {0}]
  <2>1. ASSUME NEW x \in T PROVE x + 1 \in T \ {0}
    <3>1. x \in Nat /\ x <= n /\ x + 1 \in S
      OBVIOUS
    <3>2. x + 1 # n + 1
      BY <1>1, <3>1
    <3>3. QED BY <1>1, <3>1, <3>2
  <2> HIDE DEF T
  <2>2. QED BY <2>1
<1>4. \A x, y \in T : F[x] = F[y] => x = y
  OBVIOUS
<1> HIDE DEF T, F
<1>5. \E x, y \in T : x # y /\ F[x] = F[y]
  BY <1>2, <1>3, FS_PigeonHole
<1>6. QED BY <1>4, <1>5

\* f starts with a at m, and g makes each of its values from the one before.
Iterates(f, m, n, a, g) == f = [i \in m..n |-> IF i = m THEN a ELSE g[<<i, f[i - 1]>>]]

\* Such an f exists.
LEMMA Iteration ==
    ASSUME NEW X, NEW m \in Nat, NEW n \in Nat, m <= n,
           NEW a \in X, NEW g \in [(m..n) \X X -> X]
    PROVE  \E f \in [m..n -> X] : Iterates(f, m, n, a, g)
<1> DEFINE Good(k, f) == f[m] = a /\ \A i \in (m + 1)..k : f[i] = g[<<i, f[i - 1]>>]
           S == {k \in Nat : m + k <= n => \E f \in [m..n -> X] : Good(m + k, f)}
<1>1. 0 \in S
  <2>1. [i \in m..n |-> a] \in [m..n -> X] /\ Good(m + 0, [i \in m..n |-> a])
    OBVIOUS
  <2>2. QED BY <2>1
<1>2. ASSUME NEW k \in Nat, k \in S PROVE k + 1 \in S
  <2>1. SUFFICES ASSUME m + k + 1 <= n PROVE \E f \in [m..n -> X] : Good(m + k + 1, f)
    OBVIOUS
  <2>2. PICK f \in [m..n -> X] : Good(m + k, f)
    BY <1>2, <2>1
  <2> DEFINE j == m + k + 1
             h == [f EXCEPT ![j] = g[<<j, f[j - 1]>>]]
  <2>a. j \in Nat /\ j \in m..n /\ j - 1 \in m..n /\ j > m /\ j - 1 = m + k
    BY <2>1
  <2> HIDE DEF j
  <2>3. g[<<j, f[j - 1]>>] \in X
    BY <2>a
  <2>4. h \in [m..n -> X] /\ h[j] = g[<<j, f[j - 1]>>]
        /\ \A i \in m..(j - 1) : h[i] = f[i]
    BY <2>a, <2>3
  <2> HIDE DEF h
  <2>5. h[m] = a
    BY <2>2, <2>4, <2>a
  <2>6. ASSUME NEW i \in (m + 1)..j PROVE h[i] = g[<<i, h[i - 1]>>]
    <3>1. CASE i = j
      <4>1. j - 1 \in m..(j - 1)
        BY <2>a
      <4>2. h[j - 1] = f[j - 1]
        BY <2>4, <4>1
      <4>3. QED BY <2>4, <4>2, <3>1
    <3>2. CASE i \in (m + 1)..(j - 1)
      <4>1. i \in m..(j - 1) /\ i - 1 \in m..(j - 1)
        BY <3>2, <2>a
      <4>2. h[i] = f[i] /\ h[i - 1] = f[i - 1]
        BY <2>4, <4>1
      <4>3. QED BY <2>2, <4>2, <3>2, <2>a
    <3>3. QED BY <3>1, <3>2, <2>a
  <2>7. QED BY <2>4, <2>5, <2>6 DEF j
<1>3. n - m \in Nat /\ m + (n - m) = n
  OBVIOUS
<1>4. n - m \in S
  <2> HIDE DEF S
  <2>1. QED BY <1>1, <1>2, <1>3, SetInduction
<1>5. PICK f \in [m..n -> X] : Good(n, f)
  BY <1>3, <1>4
<1>6. f = [i \in m..n |-> IF i = m THEN a ELSE g[<<i, f[i - 1]>>]]
  BY <1>5
<1>7. QED BY <1>6 DEF Iterates

\* A set of numbers that is bounded has a greatest, and Max is it.
LEMMA MaxOf ==
    ASSUME NEW S \in SUBSET Nat, S # {}, NEW n \in Nat, \A x \in S : x <= n
    PROVE  Max(S) \in S /\ \A x \in S : x <= Max(S)
<1> DEFINE U == {k \in Nat : \A T \in SUBSET (S \cap (0..k)) :
                    T # {} => \E x \in T : \A y \in T : x >= y}
<1>1. 0 \in U
  <2>1. ASSUME NEW T \in SUBSET (S \cap (0..0)), T # {} PROVE \E x \in T : \A y \in T : x >= y
    <3>1. \A y \in T : y = 0
      OBVIOUS
    <3>2. PICK x \in T : TRUE
      BY <2>1
    <3>3. \A y \in T : x >= y
      BY <3>1
    <3>4. QED BY <3>3
  <2>2. QED BY <2>1
<1>2. ASSUME NEW k \in Nat, k \in U PROVE k + 1 \in U
  <2>1. SUFFICES ASSUME NEW T \in SUBSET (S \cap (0..(k + 1))), T # {}
                 PROVE  \E x \in T : \A y \in T : x >= y
    OBVIOUS
  <2>2. CASE k + 1 \in T
    BY <2>2
  <2>3. CASE k + 1 \notin T
    <3>1. T \in SUBSET (S \cap (0..k))
      BY <2>3
    <3>2. QED BY <1>2, <2>1, <3>1
  <2>4. QED BY <2>2, <2>3
<1>3. n \in U
  <2> HIDE DEF U
  <2>1. QED BY <1>1, <1>2, SetInduction
<1>4. S \in SUBSET (S \cap (0..n))
  OBVIOUS
<1>5. \E x \in S : \A y \in S : x >= y
  BY <1>3, <1>4
<1>6. QED BY <1>5 DEF Max

\* The list of a finite set has its elements and no others.
LEMMA SetToSeqFacts ==
    ASSUME NEW S, IsFiniteSet(S)
    PROVE  SetToSeq(S) \in Seq(S) /\ ToSet(SetToSeq(S)) = S
<1> DEFINE n == Cardinality(S)
           s == SetToSeq(S)
<1>1. n \in Nat /\ ExistsBijection(1..n, S)
  BY FS_CardinalityType
<1>2. PICK f \in [1..n -> S] : IsInjective(f)
  BY <1>1 DEF ExistsBijection, Bijection, Injection, IsInjective
<1>3. s \in [1..n -> S] /\ IsInjective(s)
  BY <1>2 DEF SetToSeq
<1> HIDE DEF s
<1>4. s \in Seq(S)
  BY <1>1, <1>3
<1>5. IsFiniteSet(1..n) /\ Cardinality(1..n) = n
  BY <1>1, FS_Interval
<1>6. s \in Injection(1..n, S)
  BY <1>3 DEF IsInjective, Injection
<1>7. s \in Surjection(1..n, S)
  BY <1>5, <1>6, FS_Injection
<1>8. \A x \in S : \E i \in 1..n : s[i] = x
  BY <1>7 DEF Surjection
<1>9. ToSet(s) = S
  <2>1. DOMAIN s = 1..n
    BY <1>3
  <2>2. QED BY <2>1, <1>3, <1>8 DEF ToSet
<1>10. QED BY <1>4, <1>9 DEF s

\* Lists end to end have what each of them has.
LEMMA ConcatFacts ==
    ASSUME NEW X, NEW s \in Seq(X), NEW t \in Seq(X)
    PROVE  s \o t \in Seq(X) /\ ToSet(s \o t) = ToSet(s) \cup ToSet(t)
<1> DEFINE u == s \o t
<1>1. /\ u \in Seq(X) /\ Len(u) = Len(s) + Len(t)
      /\ \A i \in 1..(Len(s) + Len(t)) : u[i] = IF i <= Len(s) THEN s[i] ELSE t[i - Len(s)]
  BY ConcatProperties
<1>2. /\ Len(s) \in Nat /\ Len(t) \in Nat
      /\ DOMAIN s = 1..Len(s) /\ DOMAIN t = 1..Len(t) /\ DOMAIN u = 1..Len(u)
  BY <1>1, LenProperties
<1> HIDE DEF u
<1>3. ASSUME NEW i \in DOMAIN u PROVE u[i] \in ToSet(s) \cup ToSet(t)
  <2>1. CASE i <= Len(s)
    BY <1>1, <1>2, <2>1 DEF ToSet
  <2>2. CASE i > Len(s)
    <3>1. i - Len(s) \in DOMAIN t /\ u[i] = t[i - Len(s)]
      BY <1>1, <1>2, <2>2
    <3>2. QED BY <3>1 DEF ToSet
  <2>3. QED BY <1>1, <1>2, <2>1, <2>2
<1>4. ASSUME NEW i \in DOMAIN s PROVE s[i] \in ToSet(u)
  <2>1. i \in DOMAIN u /\ u[i] = s[i]
    BY <1>1, <1>2
  <2>2. QED BY <2>1 DEF ToSet
<1>5. ASSUME NEW i \in DOMAIN t PROVE t[i] \in ToSet(u)
  <2>1. i + Len(s) \in DOMAIN u /\ u[i + Len(s)] = t[i]
    BY <1>1, <1>2
  <2>2. QED BY <2>1 DEF ToSet
<1>6. ToSet(u) = ToSet(s) \cup ToSet(t)
  BY <1>3, <1>4, <1>5 DEF ToSet
<1>7. QED BY <1>1, <1>6 DEF u

\* A list of lists made into one has what each of them has.
LEMMA FlattenSeqFacts ==
    ASSUME NEW X, NEW ss \in Seq(Seq(X))
    PROVE  /\ FlattenSeq(ss) \in Seq(X)
           /\ ToSet(FlattenSeq(ss)) = UNION {ToSet(ss[i]) : i \in DOMAIN ss}
<1> DEFINE n == Len(ss)
<1>1. n \in Nat /\ DOMAIN ss = 1..n /\ \A i \in 1..n : ss[i] \in Seq(X)
  BY LenProperties, ElementOfSeq
<1>2. CASE n = 0
  <2>1. FlattenSeq(ss) = ss
    BY <1>2 DEF FlattenSeq
  <2>2. ss = <<>>
    BY <1>2
  <2>3. QED BY <2>1, <2>2 DEF ToSet
<1>3. CASE n # 0
  <2> DEFINE g == [p \in (1..n) \X Seq(X) |-> p[2] \o ss[p[1]]]
             R(f) == [i \in 1..n |-> IF i = 1 THEN ss[i] ELSE f[i - 1] \o ss[i]]
             flatten == CHOOSE f : f = R(f)
  <2>1. g \in [(1..n) \X Seq(X) -> Seq(X)]
    <3>1. \A i \in 1..n, l \in Seq(X) : l \o ss[i] \in Seq(X)
      BY <1>1, ConcatFacts
    <3>2. QED BY <3>1
  <2>2. 1 \in Nat /\ 1 <= n /\ ss[1] \in Seq(X)
    BY <1>1, <1>3
  <2>3. PICK f \in [1..n -> Seq(X)] : Iterates(f, 1, n, ss[1], g)
    <3>1. n \in Nat
      BY <1>1
    <3> HIDE DEF g, n
    <3>2. QED BY <2>1, <2>2, <3>1, Iteration
  <2>4. f = R(f)
    <3>1. ASSUME NEW i \in 1..n, i # 1 PROVE g[<<i, f[i - 1]>>] = f[i - 1] \o ss[i]
      <4>1. i - 1 \in 1..n
        BY <1>1, <3>1
      <4>2. f[i - 1] \in Seq(X)
        BY <4>1, Zenon
      <4>3. QED BY <4>2
    <3> HIDE DEF g
    <3>2. QED BY <2>3, <3>1 DEF Iterates
  <2>5. flatten = R(flatten)
    BY <2>4, Zenon
  <2>6. FlattenSeq(ss) = flatten[n]
    BY <1>3, Zenon DEF FlattenSeq
  <2> HIDE DEF flatten, n
  <2> DEFINE S == {k \in Nat : k + 1 <= n => /\ flatten[k + 1] \in Seq(X)
                                 /\ \A e : e \in ToSet(flatten[k + 1]) <=> \E i \in 1..(k + 1) : e \in ToSet(ss[i])}
  <2>7. 0 \in S
    <3>1. flatten[1] = ss[1] /\ 0 + 1 = 1 /\ 1..1 = {1}
      BY <2>2, <2>5, <1>1
    <3>2. QED BY <3>1, <2>2
  <2>8. ASSUME NEW k \in Nat, k \in S PROVE k + 1 \in S
    <3>0. (k + 1) + 1 = k + 2
      OBVIOUS
    <3>1. SUFFICES ASSUME k + 2 <= n
                   PROVE  /\ flatten[k + 2] \in Seq(X)
                          /\ \A e : e \in ToSet(flatten[k + 2]) <=> \E i \in 1..(k + 2) : e \in ToSet(ss[i])
      BY <3>0
    <3>2. /\ flatten[k + 1] \in Seq(X)
          /\ \A e : e \in ToSet(flatten[k + 1]) <=> \E i \in 1..(k + 1) : e \in ToSet(ss[i])
      BY <2>8, <3>1, <1>1
    <3>3. flatten[k + 2] = flatten[k + 1] \o ss[k + 2]
      <4>1. k + 2 \in 1..n /\ k + 2 # 1 /\ (k + 2) - 1 = k + 1
        BY <3>1, <1>1
      <4>2. flatten[k + 2] = flatten[(k + 2) - 1] \o ss[k + 2]
        BY <2>5, <4>1
      <4>3. QED BY <4>1, <4>2
    <3>4. ss[k + 2] \in Seq(X)
      BY <1>1, <3>1
    <3>5. /\ flatten[k + 2] \in Seq(X)
          /\ ToSet(flatten[k + 2]) = ToSet(flatten[k + 1]) \cup ToSet(ss[k + 2])
      BY <3>2, <3>3, <3>4, ConcatFacts
    <3>6. \A i : i \in 1..(k + 2) <=> i \in 1..(k + 1) \/ i = k + 2
      OBVIOUS
    <3>7. QED BY <3>2, <3>5, <3>6, Zenon
  <2>9. n - 1 \in Nat /\ (n - 1) + 1 = n /\ n - 1 \in S
    <3>1. n - 1 \in Nat /\ (n - 1) + 1 = n
      BY <1>1, <2>2
    <3> HIDE DEF S
    <3>2. QED BY <2>7, <2>8, <3>1, SetInduction
  <2>10. flatten[n] \in Seq(X) /\ \A e : e \in ToSet(flatten[n]) <=> \E i \in 1..n : e \in ToSet(ss[i])
    BY <2>9
  <2>11. QED BY <1>1, <2>6, <2>10
<1>4. QED BY <1>2, <1>3

-----------------------------------------------------------------------------
(***************************************************************************)
(* Rows and what they refer to: Trace.                                     *)
(***************************************************************************)

\* A kind is one of the eight, and every row is of one of them.
LEMMA KindFacts ==
    /\ DOMAIN Kinds = 1..8
    /\ \A k \in 1..8 : Kinds[k] \subseteq Rows
    /\ \A x \in Rows : \E k \in 1..8 : x \in Kinds[k]
    /\ \A k, m \in 1..8 : \A x : x \in Kinds[k] /\ x \in Kinds[m] => k = m
<1>1. DOMAIN Kinds = 1..8
  BY DEF Kinds
<1>2. \A k \in 1..8 : Kinds[k] \subseteq Rows
  BY <1>1, Zenon DEF Rows
<1>3. \A x \in Rows : \E k \in 1..8 : x \in Kinds[k]
  BY <1>1, Zenon DEF Rows
<1>4. \A k, m \in 1..8 : \A x : x \in Kinds[k] /\ x \in Kinds[m] => k = m
  BY <1>1, KindsAssumption, Zenon
<1>5. QED BY <1>1, <1>2, <1>3, <1>4

\* Which kinds they are.
LEMMA KindNames ==
    /\ Kinds[1] = Farms /\ Kinds[2] = Ponds /\ Kinds[3] = Cycles /\ Kinds[4] = Harvests
    /\ Kinds[5] = Batches /\ Kinds[6] = Products /\ Kinds[7] = Orders /\ Kinds[8] = Shipments
BY DEF Kinds

\* What a row refers to are rows of the kind before.
LEMMA OnFacts ==
    /\ \A x \in Rows : On[x] \in Seq(Rows) /\ ToSet(On[x]) \subseteq Rows
    /\ \A x \in Kinds[1] : ToSet(On[x]) = {}
    /\ \A k \in 2..8 : \A x \in Kinds[k] : ToSet(On[x]) \subseteq Kinds[k - 1]
<1>1. ASSUME NEW x \in Rows PROVE On[x] \in Seq(Rows) /\ ToSet(On[x]) \subseteq Rows
  <2>1. On[x] \in Seq(Rows)
    BY OnAssumption
  <2>2. QED BY <2>1, LenProperties DEF ToSet
<1>2. ASSUME NEW x \in Kinds[1] PROVE ToSet(On[x]) = {}
  <2>1. On[x] = <<>>
    BY OnAssumption, KindNames
  <2>2. QED BY <2>1 DEF ToSet
<1>3. ASSUME NEW k \in 2..8, NEW x \in Kinds[k] PROVE ToSet(On[x]) \subseteq Kinds[k - 1]
  <2>1. k \in DOMAIN Kinds \ {1}
    BY KindFacts
  <2>2. \A i \in DOMAIN On[x] : On[x][i] \in Kinds[k - 1]
    BY <2>1, OnAssumption, Zenon
  <2>3. QED BY <2>2, Zenon DEF ToSet
<1>4. QED BY <1>1, <1>2, <1>3

\* What x was made from when f says what each row was made from.
From(f, x) == ToSet(On[x]) \cup UNION {f[y] : y \in ToSet(On[x])}

\* Above is well defined: rows refer to rows of earlier kinds only.
LEMMA AboveFacts ==
    /\ Above \in [Rows -> SUBSET Rows]
    /\ \A x \in Rows : Above[x] = From(Above, x)
<1> DEFINE S == {n \in Nat : \E f \in [Rows -> SUBSET Rows] :
                    \A k \in 1..8 : k <= n => \A x \in Kinds[k] : f[x] = From(f, x)}
           R(f) == [x \in Rows |-> From(f, x)]
<1>1. 0 \in S
  <2>1. [x \in Rows |-> {}] \in [Rows -> SUBSET Rows]
    OBVIOUS
  <2>2. \A k \in 1..8 : ~(k <= 0)
    OBVIOUS
  <2>3. QED BY <2>1, <2>2, Zenon
<1>2. ASSUME NEW n \in Nat, n \in S PROVE n + 1 \in S
  <2>1. PICK f \in [Rows -> SUBSET Rows] :
            \A k \in 1..8 : k <= n => \A x \in Kinds[k] : f[x] = From(f, x)
    BY <1>2
  <2> DEFINE IsNext(x) == n + 1 \in 1..8 /\ x \in Kinds[n + 1]
             h == [x \in Rows |-> IF IsNext(x) THEN From(f, x) ELSE f[x]]
  <2>2. ASSUME NEW x \in Rows PROVE From(f, x) \in SUBSET Rows
    <3>1. ToSet(On[x]) \subseteq Rows
      BY OnFacts
    <3>2. \A y \in ToSet(On[x]) : f[y] \subseteq Rows
      BY <3>1
    <3>3. QED BY <3>1, <3>2, Zenon DEF From
  <2>3. h \in [Rows -> SUBSET Rows]
    <3> HIDE DEF IsNext
    <3>1. QED BY <2>2
  <2>4. ASSUME NEW k \in 1..8, k <= n + 1, NEW x \in Kinds[k] PROVE h[x] = From(h, x)
    <3>1. x \in Rows /\ ToSet(On[x]) \subseteq Rows
      BY KindFacts, OnFacts
    <3>2. ASSUME NEW y \in ToSet(On[x]) PROVE ~IsNext(y)
      <4>1. k # 1
        BY <3>2, OnFacts
      <4>2. y \in Kinds[k - 1] /\ k - 1 \in 1..8
        BY <4>1, OnFacts
      <4>3. k - 1 # n + 1
        BY <2>4
      <4>4. QED BY <4>2, <4>3, KindFacts
    <3>3. \A y \in ToSet(On[x]) : h[y] = f[y]
      BY <3>1, <3>2
    <3>4. From(h, x) = From(f, x)
      <4> HIDE DEF h
      <4>1. QED BY <3>3, Zenon DEF From
    <3>5. CASE k = n + 1
      BY <3>1, <3>4, <3>5
    <3>6. CASE k <= n
      <4>1. ~IsNext(x)
        BY <3>6, KindFacts
      <4>2. h[x] = f[x]
        BY <3>1, <4>1
      <4>3. f[x] = From(f, x)
        BY <2>1, <3>6
      <4>4. QED BY <3>4, <4>2, <4>3
    <3>7. QED BY <2>4, <3>5, <3>6
  <2> HIDE DEF h
  <2>5. QED BY <2>3, <2>4
<1>3. 8 \in S
  <2> HIDE DEF S
  <2>1. QED BY <1>1, <1>2, SetInduction
<1>4. PICK f \in [Rows -> SUBSET Rows] : \A k \in 1..8 : \A x \in Kinds[k] : f[x] = From(f, x)
  BY <1>3
<1>5. \A x \in Rows : f[x] = From(f, x)
  BY <1>4, KindFacts
<1>6. f = R(f)
  BY <1>5
<1>7. Above = [x \in Rows |-> From(Above, x)]
  <2>1. Above = CHOOSE g : g = R(g)
    BY Zenon DEF Above, From
  <2>2. QED BY <1>6, <2>1, Zenon
<1>8. \A x \in Rows : Above[x] = From(Above, x)
  BY <1>7
<1> DEFINE T == {n \in Nat : \A k \in 1..8 : k <= n => \A x \in Kinds[k] : Above[x] \subseteq Rows}
<1>9. 0 \in T
  OBVIOUS
<1>10. ASSUME NEW n \in Nat, n \in T PROVE n + 1 \in T
  <2>1. SUFFICES ASSUME NEW k \in 1..8, k = n + 1, NEW x \in Kinds[k] PROVE Above[x] \subseteq Rows
    BY <1>10
  <2>2. x \in Rows /\ ToSet(On[x]) \subseteq Rows
    BY KindFacts, OnFacts
  <2>3. ASSUME NEW y \in ToSet(On[x]) PROVE Above[y] \subseteq Rows
    <3>1. k # 1
      BY <2>3, OnFacts
    <3>2. y \in Kinds[k - 1] /\ k - 1 \in 1..8 /\ k - 1 <= n
      BY <2>1, <3>1, OnFacts
    <3>3. QED BY <1>10, <3>2
  <2>4. Above[x] = From(Above, x)
    BY <1>8, <2>2
  <2>5. QED BY <2>2, <2>3, <2>4, Zenon DEF From
<1>11. 8 \in T
  <2> HIDE DEF T
  <2>1. QED BY <1>9, <1>10, SetInduction
<1>12. \A x \in Rows : Above[x] \subseteq Rows
  BY <1>11, KindFacts
<1>13. Above \in [Rows -> SUBSET Rows]
  BY <1>7, <1>12
<1>14. QED BY <1>8, <1>13

\* In a set of rows that has with each row what the row refers to, what a row
\* was made from is there, and some row refers to it.
LEMMA AboveReferred ==
    ASSUME NEW S \in SUBSET Rows, \A x \in S : ToSet(On[x]) \subseteq S
    PROVE  \A x \in S : \A y \in Above[x] : y \in S /\ \E z \in S : y \in ToSet(On[z])
<1> DEFINE Fine(x) == \A y \in Above[x] : y \in S /\ \E z \in S : y \in ToSet(On[z])
           T == {n \in Nat : \A k \in 1..8 : k <= n => \A x \in Kinds[k] \cap S : Fine(x)}
<1>1. 0 \in T
  OBVIOUS
<1>2. ASSUME NEW n \in Nat, n \in T PROVE n + 1 \in T
  <2>1. SUFFICES ASSUME NEW k \in 1..8, k = n + 1, NEW x \in Kinds[k] \cap S PROVE Fine(x)
    <3> HIDE DEF Fine
    <3>1. QED BY <1>2
  <2>2. ASSUME NEW z \in ToSet(On[x]) PROVE z \in S /\ Fine(z)
    <3>1. k # 1
      BY <2>2, OnFacts
    <3>2. z \in Kinds[k - 1] /\ k - 1 \in 1..8 /\ k - 1 <= n
      BY <2>1, <2>2, <3>1, OnFacts
    <3>3. z \in S
      OBVIOUS
    <3> HIDE DEF Fine
    <3>4. QED BY <1>2, <3>2, <3>3
  <2>3. Above[x] = From(Above, x)
    BY AboveFacts
  <2>4. SUFFICES ASSUME NEW y \in Above[x] PROVE y \in S /\ \E z \in S : y \in ToSet(On[z])
    OBVIOUS
  <2>5. y \in ToSet(On[x]) \/ \E z \in ToSet(On[x]) : y \in Above[z]
    BY <2>3, Zenon DEF From
  <2>6. QED BY <2>2, <2>5
<1>3. 8 \in T
  <2> HIDE DEF T
  <2>1. QED BY <1>1, <1>2, SetInduction
<1>4. \A x \in S : Fine(x)
  <2> HIDE DEF Fine
  <2>1. QED BY <1>3, KindFacts
<1>5. QED BY <1>4

-----------------------------------------------------------------------------
(***************************************************************************)
(* Sorting by timestamp.                                                   *)
(***************************************************************************)

\* What the sort may do to a list of logs: their order changes, and nothing else.
Rearranged(list, new) ==
    /\ new \in [DOMAIN list -> Entry]
    /\ ToSet(new) = ToSet(list)

\* What a log has.
LEMMA EntryType == \A l \in Entry : l.timestamp \in Nat /\ l.event \in Event /\ l.event.of \in Rows
BY BoundsAssumption DEF Entry, Time, Event

\* An exchange puts the older of two logs first.
LEMMA ExchangeFacts ==
    ASSUME NEW n \in Nat, NEW list \in [1..n -> Entry], NEW i \in 1..n, NEW j \in i..n,
           NEW new, new = Exchange(list, i, j)
    PROVE  /\ Rearranged(list, new)
           /\ new[i].timestamp <= new[j].timestamp
           /\ new[i].timestamp <= list[i].timestamp
           /\ \A k \in 1..n \ {i, j} : new[k] = list[k]
           /\ new[i] \in {list[i], list[j]} /\ new[j] \in {list[i], list[j]}
<1> DEFINE older == list[i].timestamp > list[j].timestamp
<1>1. DOMAIN list = 1..n /\ i \in 1..n /\ j \in 1..n /\ list[i] \in Entry /\ list[j] \in Entry
  OBVIOUS
<1>2. list[i].timestamp \in Nat /\ list[j].timestamp \in Nat
  BY <1>1, EntryType
<1>3. CASE older
  <2>1. new = [list EXCEPT ![i] = list[j], ![j] = list[i]]
    BY <1>3 DEF Exchange
  <2>2. new \in [1..n -> Entry] /\ new[i] = list[j] /\ new[j] = list[i]
        /\ \A k \in 1..n \ {i, j} : new[k] = list[k]
    BY <1>1, <2>1
  <2>3. ToSet(new) = ToSet(list)
    <3>1. \A k \in 1..n : new[k] \in ToSet(list)
      BY <1>1, <2>2 DEF ToSet
    <3>2. \A k \in 1..n : list[k] \in ToSet(new)
      BY <1>1, <2>2 DEF ToSet
    <3>3. QED BY <1>1, <2>2, <3>1, <3>2 DEF ToSet
  <2>4. QED BY <1>1, <1>2, <1>3, <2>2, <2>3 DEF Rearranged
<1>4. CASE ~older
  <2>1. new = list
    BY <1>4 DEF Exchange
  <2>2. QED BY <1>1, <1>2, <1>4, <2>1 DEF Rearranged
<1>5. QED BY <1>3, <1>4

\* new is a list of n logs with the oldest of those from place i on put there, and
\* those before it left alone.
Passed(n, list, i, new) ==
    /\ Rearranged(list, new)
    /\ \A k \in 1..(i - 1) : new[k] = list[k]
    /\ \A k \in i..n : \E m \in i..n : new[k] = list[m]
    /\ \A k \in i..n : new[i].timestamp <= new[k].timestamp

\* That is what a pass does.
LEMMA PassFacts ==
    ASSUME NEW n \in Nat, NEW list \in [1..n -> Entry], NEW i \in 1..n,
           NEW new, new = Pass(list, i)
    PROVE  Passed(n, list, i, new)
<1> DEFINE X == [1..n -> Entry]
           g == [p \in (i..n) \X X |-> Exchange(p[2], i, p[1])]
           R(f) == [j \in i..Len(list) |-> IF j = i THEN list ELSE Exchange(f[j - 1], i, j)]
           inner == CHOOSE f : f = R(f)
<1>1. Len(list) = n /\ DOMAIN list = 1..n /\ i \in Nat /\ i <= n
  OBVIOUS
<1>2. \A l \in X, j \in i..n : Exchange(l, i, j) \in X
  BY ExchangeFacts DEF Rearranged
<1>3. g \in [(i..n) \X X -> X]
  BY <1>2
<1>4. PICK f \in [i..n -> X] : Iterates(f, i, n, list, g)
  <2> HIDE DEF g
  <2>1. QED BY <1>1, <1>3, Iteration
<1>5. f = R(f)
  <2>1. ASSUME NEW j \in i..n, j # i PROVE g[<<j, f[j - 1]>>] = Exchange(f[j - 1], i, j)
    <3>1. j - 1 \in i..n
      BY <2>1
    <3> HIDE DEF X
    <3>2. f[j - 1] \in X
      BY <3>1, Zenon
    <3>3. QED BY <3>2
  <2> HIDE DEF g
  <2>2. QED BY <1>1, <1>4, <2>1 DEF Iterates
<1>6. inner = R(inner)
  BY <1>5, Zenon
<1>7. Pass(list, i) = inner[n]
  <2>1. Pass(list, i) = inner[Len(list)]
    BY Zenon DEF Pass
  <2>2. QED BY <1>1, <2>1
<1> HIDE DEF inner
<1> DEFINE Upto(now, j) == /\ Rearranged(list, now)
                           /\ \A k \in 1..(i - 1) : now[k] = list[k]
                           /\ \A k \in i..n : \E m \in i..n : now[k] = list[m]
                           /\ \A k \in i..j : now[i].timestamp <= now[k].timestamp
           S == {k \in Nat : i + k <= n => Upto(inner[i + k], i + k)}
<1>8. 0 \in S
  <2>1. inner[i] = list
    BY <1>1, <1>6
  <2>2. Rearranged(list, list)
    BY <1>1 DEF Rearranged
  <2>3. list[i].timestamp <= list[i].timestamp
    <3>1. list[i] \in Entry
      OBVIOUS
    <3>2. QED BY <3>1, EntryType
  <2>4. \A k \in i..i : k = i
    OBVIOUS
  <2>5. Upto(list, i)
    BY <2>2, <2>3, <2>4
  <2>6. i + 0 = i
    OBVIOUS
  <2> HIDE DEF Upto
  <2>7. QED BY <2>1, <2>5, <2>6
<1>9. ASSUME NEW k \in Nat, k \in S PROVE k + 1 \in S
  <2> DEFINE j == i + k + 1
             old == inner[j - 1]
             now == inner[j]
  <2>1. j = i + (k + 1) /\ j - 1 = i + k
    OBVIOUS
  <2>2. SUFFICES ASSUME j <= n PROVE Upto(now, j)
    <3> HIDE DEF Upto, j
    <3>1. QED BY <2>1
  <2>3. Upto(old, j - 1)
    <3>1. i + k <= n
      BY <2>2, <1>1
    <3>2. Upto(inner[i + k], i + k)
      BY <1>9, <3>1
    <3>3. QED BY <2>1, <3>2
  <2>4. j \in i..n /\ j # i /\ j \in 1..n /\ j - 1 \in i..n /\ j > i
    BY <2>2, <1>1
  <2>5. old \in X /\ ToSet(old) = ToSet(list)
    BY <1>1, <2>3 DEF Rearranged
  <2> HIDE DEF j
  <2>6. now = Exchange(old, i, j)
    BY <1>1, <1>6, <2>4
  <2> HIDE DEF old, now
  <2>7. /\ Rearranged(old, now)
        /\ now[i].timestamp <= now[j].timestamp
        /\ now[i].timestamp <= old[i].timestamp
        /\ \A l \in 1..n \ {i, j} : now[l] = old[l]
        /\ now[i] \in {old[i], old[j]} /\ now[j] \in {old[i], old[j]}
    <3>1. old \in [1..n -> Entry] /\ j \in i..n /\ now = Exchange(old, i, j)
      BY <2>4, <2>5, <2>6
    <3> HIDE DEF X, g, R, Upto, S
    <3>2. QED BY <3>1, ExchangeFacts
  <2>8. Rearranged(list, now)
    BY <1>1, <2>5, <2>7 DEF Rearranged
  <2>9. ASSUME NEW l \in 1..(i - 1) PROVE now[l] = list[l]
    <3>1. l \in 1..n \ {i, j}
      BY <2>4, <1>1
    <3>2. QED BY <2>3, <2>7, <3>1
  <2>10. ASSUME NEW l \in i..n PROVE \E m \in i..n : now[l] = list[m]
    <3>1. now[l] = old[l] \/ now[l] = old[i] \/ now[l] = old[j]
      <4>1. l \in 1..n
        BY <1>1
      <4>2. QED BY <2>7, <4>1
    <3>2. i \in i..n /\ j \in i..n
      BY <1>1, <2>4
    <3>3. QED BY <2>3, <3>1, <3>2
  <2>11. ASSUME NEW l \in i..j PROVE now[i].timestamp <= now[l].timestamp
    <3>1. CASE l = i
      <4>1. now[i] \in Entry
        BY <1>1, <2>8 DEF Rearranged
      <4>2. QED BY <3>1, <4>1, EntryType
    <3>2. CASE l = j
      BY <2>7, <3>2
    <3>3. CASE l # i /\ l # j
      <4>1. l \in 1..n \ {i, j} /\ l \in i..(j - 1)
        BY <3>3, <2>4, <1>1
      <4>2. now[l] = old[l] /\ old[i].timestamp <= old[l].timestamp
        BY <2>3, <2>7, <4>1
      <4>3. old[i] \in Entry /\ old[l] \in Entry /\ now[i] \in Entry
        BY <1>1, <2>5, <2>8, <4>1 DEF Rearranged
      <4>4. old[i].timestamp \in Nat /\ old[l].timestamp \in Nat /\ now[i].timestamp \in Nat
        BY <4>3, EntryType
      <4>5. QED BY <2>7, <4>2, <4>4
    <3>4. QED BY <3>1, <3>2, <3>3
  <2>12. QED BY <2>8, <2>9, <2>10, <2>11
<1>10. Upto(inner[n], n)
  <2>1. n - i \in Nat /\ i + (n - i) = n
    BY <1>1
  <2>2. n - i \in S
    <3> HIDE DEF S
    <3>1. QED BY <1>8, <1>9, <2>1, SetInduction
  <2> HIDE DEF Upto
  <2>3. QED BY <2>1, <2>2
<1>11. QED BY <1>7, <1>10 DEF Passed

\* sortLogsByTimestamp gives back the logs it got, and none before an older one.
THEOREM SortedByTimestamp ==
    ASSUME NEW list \in Seq(Entry), NEW new, new = sortLogsByTimestamp(list)
    PROVE  /\ new \in Seq(Entry) /\ Len(new) = Len(list) /\ ToSet(new) = ToSet(list)
           /\ \A i, j \in DOMAIN new : i < j => new[i].timestamp <= new[j].timestamp
<1> DEFINE n == Len(list)
           X == [1..n -> Entry]
           g == [p \in (0..n) \X X |-> IF p[1] = 0 THEN p[2] ELSE Pass(p[2], p[1])]
           R(f) == [i \in 0..Len(list) |-> IF i = 0 THEN list ELSE Pass(f[i - 1], i)]
           outer == CHOOSE f : f = R(f)
<1>1. n \in Nat /\ list \in X /\ DOMAIN list = 1..n
  BY LenProperties
<1>2. g \in [(0..n) \X X -> X]
  <2>1. ASSUME NEW l \in X, NEW i \in 1..n PROVE Pass(l, i) \in X
    <3>1. DOMAIN l = 1..n /\ l \in [1..n -> Entry]
      OBVIOUS
    <3>2. Rearranged(l, Pass(l, i))
      <4> HIDE DEF n, X
      <4>1. QED BY <1>1, <3>1, PassFacts DEF Passed
    <3>3. QED BY <3>1, <3>2 DEF Rearranged
  <2>2. \A i \in 0..n : i = 0 \/ i \in 1..n
    BY <1>1
  <2> HIDE DEF X, n
  <2>3. QED BY <2>1, <2>2
<1>3. PICK f \in [0..n -> X] : Iterates(f, 0, n, list, g)
  <2>1. n \in Nat /\ 0 \in Nat /\ 0 <= n
    BY <1>1
  <2> HIDE DEF g, n
  <2>2. QED BY <1>1, <1>2, <2>1, Iteration
<1>4. f = R(f)
  <2>1. ASSUME NEW i \in 0..n, i # 0 PROVE g[<<i, f[i - 1]>>] = Pass(f[i - 1], i)
    <3>1. i - 1 \in 0..n
      BY <1>1, <2>1
    <3> HIDE DEF X, n
    <3>2. f[i - 1] \in X
      BY <3>1, Zenon
    <3>3. QED BY <2>1, <3>2
  <2> HIDE DEF g
  <2>2. QED BY <1>1, <1>3, <2>1 DEF Iterates
<1>5. outer = R(outer)
  BY <1>4, Zenon
<1>6. new = outer[n]
  BY Zenon DEF sortLogsByTimestamp
<1> HIDE DEF outer
<1> DEFINE Upto(l, i) == /\ Rearranged(list, l)
                         /\ \A a \in 1..i : \A b \in a..n : l[a].timestamp <= l[b].timestamp
           S == {i \in Nat : i <= n => Upto(outer[i], i)}
<1>7. 0 \in S
  <2>1. outer[0] = list
    BY <1>1, <1>5
  <2>2. Rearranged(list, list)
    BY <1>1 DEF Rearranged
  <2>3. QED BY <2>1, <2>2
<1>8. ASSUME NEW i \in Nat, i \in S PROVE i + 1 \in S
  <2> DEFINE j == i + 1
             old == outer[i]
             now == outer[j]
  <2>1. j - 1 = i
    OBVIOUS
  <2>2. SUFFICES ASSUME j <= n PROVE Upto(now, j)
    <3> HIDE DEF Upto, n
    <3>1. QED OBVIOUS
  <2>3. Upto(old, i)
    <3>1. i <= n
      BY <1>1, <2>2
    <3> HIDE DEF Upto, n
    <3>2. QED BY <1>8, <3>1
  <2>4. j \in 1..n /\ j \in 0..n /\ j # 0
    BY <1>1, <2>2
  <2>5. old \in [1..n -> Entry] /\ ToSet(old) = ToSet(list) /\ DOMAIN old = 1..n
    BY <1>1, <2>3 DEF Rearranged
  <2> HIDE DEF j
  <2>6. now = Pass(old, j)
    <3>1. now = Pass(outer[j - 1], j)
      BY <1>5, <2>4
    <3>2. QED BY <2>1, <3>1
  <2> HIDE DEF old, now
  <2>7. /\ Rearranged(old, now)
        /\ \A k \in 1..(j - 1) : now[k] = old[k]
        /\ \A k \in j..n : \E m \in j..n : now[k] = old[m]
        /\ \A k \in j..n : now[j].timestamp <= now[k].timestamp
    <3>1. n \in Nat /\ j \in 1..n /\ old \in [1..n -> Entry]
      BY <1>1, <2>4, <2>5
    <3> HIDE DEF n, X, g, R, S, Upto
    <3>2. Passed(n, old, j, now)
      BY <2>6, <3>1, PassFacts
    <3>3. QED BY <3>2 DEF Passed
  <2>8. Rearranged(list, now)
    BY <1>1, <2>5, <2>7 DEF Rearranged
  <2>9. ASSUME NEW a \in 1..j, NEW b \in a..n PROVE now[a].timestamp <= now[b].timestamp
    <3>1. CASE a = j
      BY <2>7, <3>1
    <3>2. CASE a < j /\ b < j
      <4>1. a \in 1..(j - 1) /\ b \in 1..(j - 1) /\ a \in 1..i /\ b \in a..n
        BY <2>1, <2>4, <3>2
      <4>2. QED BY <2>3, <2>7, <4>1
    <3>3. CASE a < j /\ b >= j
      <4>1. a \in 1..(j - 1) /\ a \in 1..i /\ b \in j..n
        BY <2>1, <2>4, <3>3
      <4>2. PICK m \in j..n : now[b] = old[m]
        BY <2>7, <4>1
      <4>3. m \in a..n
        BY <4>1, <2>4
      <4>4. QED BY <2>3, <2>7, <4>1, <4>2, <4>3
    <3>4. QED BY <2>4, <3>1, <3>2, <3>3
  <2>10. QED BY <2>8, <2>9
<1>9. Upto(outer[n], n)
  <2>1. n \in S
    <3> HIDE DEF S
    <3>1. QED BY <1>1, <1>7, <1>8, SetInduction
  <2> HIDE DEF Upto
  <2>2. QED BY <1>1, <2>1
<1>10. new \in [1..n -> Entry] /\ ToSet(new) = ToSet(list) /\ DOMAIN new = 1..n
  BY <1>1, <1>6, <1>9 DEF Rearranged
<1>11. new \in Seq(Entry) /\ Len(new) = n
  <2> HIDE DEF n
  <2>1. QED BY <1>1, <1>10
<1>12. ASSUME NEW i \in DOMAIN new, NEW j \in DOMAIN new, i < j
       PROVE  new[i].timestamp <= new[j].timestamp
  <2>1. i \in 1..n /\ j \in i..n
    BY <1>1, <1>10, <1>12
  <2>2. QED BY <1>6, <1>9, <2>1
<1>13. QED BY <1>10, <1>11, <1>12

-----------------------------------------------------------------------------
(***************************************************************************)
(* The inductive invariant of Trace.  A timestamp is taken some time before the *)
(* log is in: what is said of the logs is said of the timestamps that handlers *)
(* hold as well (Marks), and the creation of a row that is still to get its *)
(* timestamp is of a row that nothing was done with, or of a hasty one.    *)
(***************************************************************************)

Creation(y) == [of |-> y, creates |-> TRUE]

\* The handlers that have an event to record, and those of them that created y.
Busy == {r \in Handlers : task[r].pc # "idle"}
Making(y) == {r \in Busy : task[r].event = Creation(y)}

\* The events in the log or on their way there, and those with a timestamp.
Events == {l.event : l \in ledger} \cup {task[r].event : r \in Busy}
Marks == ledger \cup {[event |-> task[r].event, timestamp |-> task[r].timestamp] :
                        r \in {q \in Handlers : task[q].pc = "append"}}

\* The rows that another refers to, or with which something was done.
Used == {y \in rows : \/ \E z \in rows : y \in ToSet(On[z])
                      \/ [of |-> y, creates |-> FALSE] \in Events}

\* Foreign keys hold, and events are of rows that there are.
RowsKnown ==
    /\ IsFiniteSet(rows) /\ IsFiniteSet(ledger)
    /\ \A x \in rows : ToSet(On[x]) \subseteq rows
    /\ \A e \in Events : e.of \in rows /\ (e.creates => Recorded(e.of)) /\ e.of \notin Ponds

\* One handler creates a row and records it, at most once.
MadeOnce ==
    /\ \A r, q \in Busy : task[r].event = task[q].event /\ task[r].event.creates => r = q
    /\ \A r \in Busy : task[r].pc = "record" /\ task[r].event.creates =>
         \A m \in Marks : m.event # task[r].event
    /\ \A m, n \in Marks : m.event = n.event /\ m.event.creates => m = n

\* A row was used while its creation was being recorded, or is not being so.
UsedWhenMade == \A y \in Used \ hasty : Making(y) = {}

\* No two events have the same timestamp.
MarksApart == \A m, n \in Marks : m.timestamp = n.timestamp => m = n

\* The creation of a row comes before what was done with it or made from it.
MarksInOrder ==
    \A m, n \in Marks :
       LET x == m.event.of
           y == n.event.of
       IN  /\ n.event.creates /\ m # n
           /\ x = y \/ y \in Above[x]
           => y \in hasty \/ n.timestamp < m.timestamp

\* The first half of TraceComplete.
AllRecorded ==
    \A x \in rows \ dropped : Recorded(x) /\ Unrecorded({x}) = {} =>
         \E l \in ledger : l.event = Creation(x)

\* All of it.
TraceKnown ==
    /\ TraceTypeOK /\ RowsKnown /\ MadeOnce /\ UsedWhenMade /\ MarksApart /\ MarksInOrder
    /\ AllRecorded

-----------------------------------------------------------------------------

\* At first there is nothing, and no handler does anything.
LEMMA TraceInitKnown == TraceInit => TraceKnown
<1> SUFFICES ASSUME TraceInit PROVE TraceKnown
  OBVIOUS
<1>1. \A r \in Handlers : task[r] = NoTask /\ task[r].pc = "idle"
  BY DEF TraceInit, NoTask
<1>2. Busy = {} /\ Events = {} /\ Marks = {} /\ rows = {} /\ ledger = {}
  BY <1>1 DEF Busy, Events, Marks, TraceInit
<1>3. TraceTypeOK
  BY DEF TraceInit, TraceTypeOK, NoTask, Task
<1>4. RowsKnown
  BY <1>2, FS_EmptySet DEF RowsKnown
<1>5. MadeOnce /\ UsedWhenMade /\ MarksApart /\ MarksInOrder /\ AllRecorded
  BY <1>2 DEF MadeOnce, UsedWhenMade, MarksApart, MarksInOrder, AllRecorded, Used
<1>6. QED BY <1>3, <1>4, <1>5 DEF TraceKnown

\* What the type says of a handler at work.
LEMMA BusyFacts ==
    ASSUME TraceTypeOK
    PROVE  /\ \A r \in Busy : /\ task[r].event \in Event
                              /\ task[r].pc \in {"record", "append"}
                              /\ task[r].pc = "append" => task[r].timestamp \in Time
           /\ \A r \in Handlers : r \notin Busy => task[r].pc = "idle"
           /\ \A r \in Handlers : task[r].pc = "append" => r \in Busy
           /\ Events \subseteq Event /\ Marks \subseteq Entry
           /\ \A m \in Marks : m.event \in Events
<1>1. ASSUME NEW r \in Busy
      PROVE  /\ task[r].event \in Event
             /\ task[r].pc \in {"record", "append"}
             /\ task[r].pc = "append" => task[r].timestamp \in Time
  BY DEF Busy, TraceTypeOK, Task
<1>2. \A r \in Handlers : (r \notin Busy => task[r].pc = "idle") /\ (task[r].pc = "append" => r \in Busy)
  BY DEF Busy
<1>3. \A l \in ledger : l \in Entry /\ l.event \in Event
  BY DEF TraceTypeOK, Entry
<1>4. Events \subseteq Event
  BY <1>1, <1>3 DEF Events
<1>5. Marks \subseteq Entry
  BY <1>1, <1>2, <1>3 DEF Marks, Entry
<1>6. \A m \in Marks : m.event \in Events
  BY <1>2 DEF Marks, Events
<1>7. QED BY <1>1, <1>2, <1>4, <1>5, <1>6

\* An event is a creation when it says so.
LEMMA EventIsCreation ==
    /\ \A e \in Event : e.creates => e = Creation(e.of)
    /\ \A e \in Event : ~e.creates => e = [of |-> e.of, creates |-> FALSE]
    /\ \A y : Creation(y).of = y /\ Creation(y).creates
BY DEF Event, Creation

\* Unrecorded, in terms of who makes what.
LEMMA UnrecordedFacts ==
    /\ \A S : Unrecorded(S) = {y \in S : Making(y) # {}}
    /\ \A x : Unrecorded({x}) = {} <=> Making(x) = {}
<1>1. \A y : (\E r \in Handlers : task[r].pc # "idle" /\ task[r].event = [of |-> y, creates |-> TRUE])
             <=> Making(y) # {}
  BY DEF Making, Busy, Creation
<1>2. \A S : Unrecorded(S) = {y \in S : Making(y) # {}}
  BY <1>1 DEF Unrecorded
<1>3. QED BY <1>2

\* A handler with nothing to do gets an event to record.
LEMMA TaskBegun ==
    ASSUME TraceTypeOK, NEW r \in Handlers, task[r].pc = "idle",
           NEW x \in Rows, NEW c \in BOOLEAN,
           task' = [task EXCEPT ![r] = ToRecord(x, c)], UNCHANGED ledger
    PROVE  /\ task' \in [Handlers -> Task]
           /\ r \notin Busy /\ Busy' = Busy \cup {r}
           /\ task'[r] = ToRecord(x, c) /\ task'[r].pc = "record"
           /\ task'[r].event = [of |-> x, creates |-> c]
           /\ \A q \in Busy : task'[q] = task[q]
           /\ Events' = Events \cup {[of |-> x, creates |-> c]}
           /\ Marks' = Marks
<1>1. ToRecord(x, c) \in Task
  BY DEF ToRecord, Task, Event
<1>2. task' \in [Handlers -> Task] /\ \A q \in Handlers : task'[q] = IF q = r THEN ToRecord(x, c) ELSE task[q]
  BY <1>1 DEF TraceTypeOK
<1>3. r \notin Busy
  BY DEF Busy
<1>4. ToRecord(x, c).pc = "record" /\ ToRecord(x, c).event = [of |-> x, creates |-> c]
  BY DEF ToRecord
<1>5. Busy' = Busy \cup {r} /\ \A q \in Busy : task'[q] = task[q]
  BY <1>2, <1>3, <1>4 DEF Busy
<1>6. Events' = Events \cup {[of |-> x, creates |-> c]}
  BY <1>2, <1>4, <1>5 DEF Events
<1>7. {q \in Handlers : task[q].pc = "append"}' = {q \in Handlers : task[q].pc = "append"}
      /\ \A q \in Handlers : task[q].pc = "append" => task'[q] = task[q]
  BY <1>2, <1>4
<1>8. Marks' = Marks
  BY <1>7 DEF Marks
<1>9. QED BY <1>2, <1>3, <1>4, <1>5, <1>6, <1>8

\* A handler is done with its event.
LEMMA TaskEnded ==
    ASSUME TraceTypeOK, NEW r \in Busy, task' = [task EXCEPT ![r] = NoTask]
    PROVE  /\ task' \in [Handlers -> Task]
           /\ Busy' = Busy \ {r}
           /\ \A q \in Busy' : task'[q] = task[q]
           /\ \A q \in Handlers : task'[q].pc = "append" => task[q].pc = "append" /\ task'[q] = task[q]
<1>1. NoTask \in Task /\ NoTask.pc = "idle" /\ r \in Handlers
  BY DEF NoTask, Task, Busy
<1>2. task' \in [Handlers -> Task] /\ \A q \in Handlers : task'[q] = IF q = r THEN NoTask ELSE task[q]
  BY <1>1 DEF TraceTypeOK
<1>3. QED BY <1>1, <1>2 DEF Busy

\* Steps after which there are fewer events and timestamps, of handlers that do
\* what they did: what they were known to be they still are.
LEMMA FewerStep ==
    ASSUME TraceKnown, TraceTypeOK',
           rows' = rows, hasty' = hasty, IsFiniteSet(ledger'),
           Busy' \subseteq Busy, \A r \in Busy' : task'[r] = task[r],
           Events' \subseteq Events, Marks' \subseteq Marks
    PROVE  RowsKnown' /\ MadeOnce' /\ UsedWhenMade' /\ MarksApart' /\ MarksInOrder'
<1>1. RowsKnown'
  BY DEF TraceKnown, RowsKnown, Recorded
<1>2. MadeOnce'
  <2>1. MadeOnce
    BY DEF TraceKnown
  <2>2. QED BY <2>1 DEF MadeOnce
<1>3. UsedWhenMade'
  <2>1. Used' \subseteq Used
    BY DEF Used
  <2>2. \A y : Making(y)' \subseteq Making(y)
    BY DEF Making
  <2>3. UsedWhenMade
    BY DEF TraceKnown
  <2>4. QED BY <2>1, <2>2, <2>3 DEF UsedWhenMade
<1>4. MarksApart' /\ MarksInOrder'
  <2>1. MarksApart /\ MarksInOrder
    BY DEF TraceKnown
  <2>2. QED BY <2>1 DEF MarksApart, MarksInOrder
<1>5. QED BY <1>1, <1>2, <1>3, <1>4

\* A row of a kind whose service records its creation is made.
LEMMA CreateRecordedStep ==
    ASSUME TraceKnown, NEW r \in Handlers, NEW x \in Rows, Create(r, x), Recorded(x)
    PROVE  TraceKnown'
<1>1. /\ TraceTypeOK /\ RowsKnown /\ MadeOnce /\ UsedWhenMade /\ MarksApart /\ MarksInOrder
      /\ AllRecorded
  BY DEF TraceKnown
<1>2. /\ task[r].pc = "idle" /\ x \notin rows /\ ToSet(On[x]) \subseteq rows
      /\ rows' = rows \cup {x}
      /\ hasty' = hasty \cup Unrecorded(ToSet(On[x]))
      /\ task' = [task EXCEPT ![r] = ToRecord(x, TRUE)]
      /\ UNCHANGED <<deleted, ledger, dropped>>
  BY DEF Create, Ready
<1> DEFINE e == Creation(x)
<1>3. /\ task' \in [Handlers -> Task]
      /\ r \notin Busy /\ Busy' = Busy \cup {r}
      /\ task'[r].pc = "record" /\ task'[r].event = e
      /\ \A q \in Busy : task'[q] = task[q]
      /\ Events' = Events \cup {e}
      /\ Marks' = Marks
  BY <1>1, <1>2, TaskBegun DEF Creation
<1> HIDE DEF e
<1>4. e.of = x /\ e.creates /\ e \in Event
  BY EventIsCreation DEF e, Creation, Event
<1>5. \A f \in Events : f.of \in rows /\ f # e
  BY <1>1, <1>2, <1>4 DEF RowsKnown
<1>6. x \notin Ponds
  BY DEF Recorded
<1>7. TraceTypeOK'
  <2>1. Unrecorded(ToSet(On[x])) \subseteq rows
    BY <1>2, UnrecordedFacts
  <2>2. QED BY <1>1, <1>2, <1>3, <2>1 DEF TraceTypeOK
<1>8. RowsKnown'
  <2>1. IsFiniteSet(rows \cup {x})
    BY <1>1, FS_AddElement DEF RowsKnown
  <2>2. \A y \in rows' : ToSet(On[y]) \subseteq rows'
    BY <1>1, <1>2 DEF RowsKnown
  <2>3. \A f \in Events' : f.of \in rows' /\ (f.creates => Recorded(f.of)) /\ f.of \notin Ponds
    BY <1>1, <1>2, <1>3, <1>4, <1>6 DEF RowsKnown
  <2>4. QED BY <1>1, <1>2, <2>1, <2>2, <2>3 DEF RowsKnown, Recorded
<1>9. MadeOnce'
  <2>1. \A q \in Busy : task[q].event \in Events
    BY DEF Events
  <2>2. \A m \in Marks : m.event \in Events
    BY <1>1, BusyFacts
  <2>3. \A p, q \in Busy' : task'[p].event = task'[q].event /\ task'[p].event.creates => p = q
    BY <1>1, <1>3, <1>5, <2>1 DEF MadeOnce
  <2>4. ASSUME NEW p \in Busy', task'[p].pc = "record", task'[p].event.creates, NEW m \in Marks
        PROVE m.event # task'[p].event
    BY <1>1, <1>3, <1>5, <2>2, <2>4 DEF MadeOnce
  <2>5. QED BY <1>1, <1>3, <2>3, <2>4 DEF MadeOnce
<1>10. UsedWhenMade'
  <2>1. SUFFICES ASSUME NEW y \in Used', y \notin hasty' PROVE Making(y)' = {}
    BY DEF UsedWhenMade
  <2>2. y \in Used \/ y \in ToSet(On[x])
    <3>1. CASE \E z \in rows' : y \in ToSet(On[z])
      BY <1>1, <1>2, <3>1 DEF Used, RowsKnown
    <3>2. CASE [of |-> y, creates |-> FALSE] \in Events'
      <4>1. [of |-> y, creates |-> FALSE] \in Events
        BY <1>3, <1>4, <3>2
      <4>2. y \in rows
        BY <1>5, <4>1
      <4>3. QED BY <4>1, <4>2 DEF Used
    <3>3. QED BY <2>1, <3>1, <3>2 DEF Used
  <2>3. y \in rows /\ y # x
    BY <1>2, <2>2 DEF Used
  <2>4. Making(y) = {}
    BY <1>1, <1>2, <2>1, <2>2, UnrecordedFacts DEF UsedWhenMade
  <2>5. e # Creation(y)
    BY <1>4, <2>3, EventIsCreation
  <2>6. QED BY <1>3, <2>4, <2>5 DEF Making
<1>11. MarksApart' /\ MarksInOrder'
  BY <1>1, <1>2, <1>3 DEF MarksApart, MarksInOrder
<1>12. AllRecorded'
  <2>1. SUFFICES ASSUME NEW y \in rows' \ dropped', Recorded(y), Making(y)' = {}
                 PROVE  \E l \in ledger' : l.event = Creation(y)
    <3>1. \A y : Unrecorded({y})' = {} <=> Making(y)' = {}
      BY DEF Unrecorded, Making, Busy, Creation
    <3>2. QED BY <3>1 DEF AllRecorded, Recorded
  <2>2. y # x
    BY <1>3, <2>1 DEF Making, e
  <2>3. Making(y) = {}
    BY <1>3, <2>1 DEF Making
  <2>4. QED BY <1>1, <1>2, <2>1, <2>2, <2>3, UnrecordedFacts DEF AllRecorded
<1>13. QED BY <1>7, <1>8, <1>9, <1>10, <1>11, <1>12 DEF TraceKnown

\* A row of a kind whose service records nothing is made.
LEMMA CreateUnrecordedStep ==
    ASSUME TraceKnown, NEW r \in Handlers, NEW x \in Rows, Create(r, x), ~Recorded(x)
    PROVE  TraceKnown'
<1>1. /\ TraceTypeOK /\ RowsKnown /\ MadeOnce /\ UsedWhenMade /\ MarksApart /\ MarksInOrder
      /\ AllRecorded
  BY DEF TraceKnown
<1>2. /\ x \notin rows /\ ToSet(On[x]) \subseteq rows
      /\ rows' = rows \cup {x}
      /\ hasty' = hasty \cup Unrecorded(ToSet(On[x]))
      /\ UNCHANGED <<task, deleted, ledger, dropped>>
  BY DEF Create, Ready
<1>3. Busy' = Busy /\ Events' = Events /\ Marks' = Marks /\ \A y : Making(y)' = Making(y)
  BY <1>2 DEF Busy, Events, Marks, Making
<1>4. TraceTypeOK'
  <2>1. Unrecorded(ToSet(On[x])) \subseteq rows
    BY <1>2, UnrecordedFacts
  <2>2. QED BY <1>1, <1>2, <2>1 DEF TraceTypeOK
<1>5. RowsKnown'
  <2>1. IsFiniteSet(rows \cup {x})
    BY <1>1, FS_AddElement DEF RowsKnown
  <2>2. QED BY <1>1, <1>2, <1>3, <2>1 DEF RowsKnown, Recorded
<1>6. MadeOnce' /\ MarksApart' /\ MarksInOrder'
  BY <1>1, <1>2, <1>3 DEF MadeOnce, MarksApart, MarksInOrder
<1>7. UsedWhenMade'
  <2>1. SUFFICES ASSUME NEW y \in Used', y \notin hasty' PROVE Making(y) = {}
    BY <1>3 DEF UsedWhenMade
  <2>2. y \in Used \/ y \in ToSet(On[x])
    BY <1>1, <1>2, <1>3, <2>1 DEF Used, RowsKnown
  <2>3. QED BY <1>1, <1>2, <2>1, <2>2, UnrecordedFacts DEF UsedWhenMade
<1>8. AllRecorded'
  <2>1. \A y : Unrecorded({y})' = Unrecorded({y})
    BY <1>2 DEF Unrecorded
  <2>2. QED BY <1>1, <1>2, <2>1 DEF AllRecorded, Recorded
<1>9. QED BY <1>4, <1>5, <1>6, <1>7, <1>8 DEF TraceKnown

\* Something else is done with a row, and is to be recorded.
LEMMA LogMoreStep ==
    ASSUME TraceKnown, NEW r \in Handlers, NEW x \in Cycles \cup Shipments, LogMore(r, x)
    PROVE  TraceKnown'
<1>1. /\ TraceTypeOK /\ RowsKnown /\ MadeOnce /\ UsedWhenMade /\ MarksApart /\ MarksInOrder
      /\ AllRecorded
  BY DEF TraceKnown
<1>2. /\ task[r].pc = "idle" /\ x \in rows
      /\ hasty' = hasty \cup Unrecorded({x})
      /\ task' = [task EXCEPT ![r] = ToRecord(x, FALSE)]
      /\ UNCHANGED <<rows, deleted, ledger, dropped>>
  BY DEF LogMore
<1> DEFINE e == [of |-> x, creates |-> FALSE]
<1>3. x \in Rows /\ x \notin Ponds
  <2>1. x \in Rows
    BY <1>1, <1>2 DEF TraceTypeOK
  <2>2. x \in Kinds[3] \/ x \in Kinds[8]
    BY KindNames
  <2>3. x \notin Kinds[2]
    BY <2>2, KindFacts
  <2>4. QED BY <2>1, <2>3, KindNames
<1>4. /\ task' \in [Handlers -> Task]
      /\ r \notin Busy /\ Busy' = Busy \cup {r}
      /\ task'[r].pc = "record" /\ task'[r].event = e
      /\ \A q \in Busy : task'[q] = task[q]
      /\ Events' = Events \cup {e}
      /\ Marks' = Marks
  BY <1>1, <1>2, <1>3, TaskBegun
<1>5. e.of = x /\ ~e.creates /\ \A y : e # Creation(y)
  BY DEF Creation
<1> HIDE DEF e
<1>6. \A y : Making(y)' = Making(y)
  BY <1>4, <1>5 DEF Making
<1>7. TraceTypeOK'
  <2>1. Unrecorded({x}) \subseteq rows
    BY <1>2, UnrecordedFacts
  <2>2. QED BY <1>1, <1>2, <1>4, <2>1 DEF TraceTypeOK
<1>8. RowsKnown'
  BY <1>1, <1>2, <1>3, <1>4, <1>5 DEF RowsKnown, Recorded
<1>9. MadeOnce'
  BY <1>1, <1>4, <1>5 DEF MadeOnce
<1>10. UsedWhenMade'
  <2>1. SUFFICES ASSUME NEW y \in Used', y \notin hasty' PROVE Making(y) = {}
    BY <1>6 DEF UsedWhenMade
  <2>2. y \in Used \/ y = x
    BY <1>2, <1>4, <2>1 DEF Used, e
  <2>3. QED BY <1>1, <1>2, <2>1, <2>2, UnrecordedFacts DEF UsedWhenMade
<1>11. MarksApart' /\ MarksInOrder'
  BY <1>1, <1>2, <1>4 DEF MarksApart, MarksInOrder
<1>12. AllRecorded'
  <2>1. \A y : Unrecorded({y})' = {} <=> Unrecorded({y}) = {}
    <3>1. \A y : Unrecorded({y})' = {} <=> Making(y)' = {}
      BY DEF Unrecorded, Making, Busy, Creation
    <3>2. QED BY <1>6, <3>1, UnrecordedFacts
  <2>2. QED BY <1>1, <1>2, <2>1 DEF AllRecorded, Recorded
<1>13. QED BY <1>7, <1>8, <1>9, <1>10, <1>11, <1>12 DEF TraceKnown

\* A timestamp is later than all there are.
LEMMA TimestampFacts ==
    ASSUME TraceTypeOK
    PROVE  \A m \in Marks : m.timestamp < 1 + Max(Stamped \cup {0})
<1> DEFINE T == Stamped \cup {0}
<1>1. \A m \in Marks : m.timestamp \in Stamped
  BY DEF Stamped, Marks
<1>2. Stamped \subseteq Time
  <2>1. \A l \in ledger : l.timestamp \in Time
    BY DEF TraceTypeOK, Entry
  <2>2. \A r \in Handlers : task[r].pc = "append" => task[r].timestamp \in Time
    BY BusyFacts
  <2>3. QED BY <2>1, <2>2 DEF Stamped
<1>3. T \in SUBSET Nat /\ T # {} /\ MaxTimes \in Nat /\ \A t \in T : t <= MaxTimes
  BY <1>2, BoundsAssumption DEF Time
<1> HIDE DEF T
<1>4. Max(T) \in T /\ \A t \in T : t <= Max(T)
  BY <1>3, MaxOf
<1>5. Max(T) \in Nat
  BY <1>3, <1>4
<1>6. \A m \in Marks : m.timestamp \in T
  BY <1>1 DEF T
<1>7. ASSUME NEW m \in Marks PROVE m.timestamp < 1 + Max(T)
  <2>1. m.timestamp \in T /\ m.timestamp \in Nat
    BY <1>3, <1>6
  <2>2. m.timestamp <= Max(T)
    BY <1>4, <2>1
  <2>3. QED BY <1>5, <2>1, <2>2
<1>8. QED BY <1>7 DEF T

\* An event gets its timestamp.
LEMMA TimestampStep ==
    ASSUME TraceKnown, NEW r \in Handlers, Timestamp(r)
    PROVE  TraceKnown'
<1>1. /\ TraceTypeOK /\ RowsKnown /\ MadeOnce /\ UsedWhenMade /\ MarksApart /\ MarksInOrder
      /\ AllRecorded
  BY DEF TraceKnown
<1> DEFINE e == task[r].event
           now == 1 + Max(Stamped \cup {0})
           w == [event |-> e, timestamp |-> now]
           new == [pc |-> "append", event |-> e, timestamp |-> now]
<1>2. now \in Time /\ \A m \in Marks : m.timestamp < now
  <2>1. \A m \in Marks : m.timestamp < now
    BY <1>1, TimestampFacts
  <2>2. now \in Time
    BY DEF Timestamp
  <2>3. QED BY <2>1, <2>2
<1>3. task[r].pc = "record" /\ r \in Busy /\ e \in Event
  BY <1>1, BusyFacts DEF Timestamp, Busy
<1>4. task' = [task EXCEPT ![r] = new] /\ UNCHANGED <<rows, deleted, ledger, hasty, dropped>>
  BY DEF Timestamp
<1> HIDE DEF now
<1>5. new \in Task /\ new.pc = "append" /\ new.event = e /\ new.timestamp = now
  BY <1>2, <1>3 DEF Task
<1>6. w.event = e /\ w.timestamp = now
  OBVIOUS
<1> HIDE DEF new
<1>7. task' \in [Handlers -> Task] /\ \A q \in Handlers : task'[q] = IF q = r THEN new ELSE task[q]
  BY <1>1, <1>4, <1>5 DEF TraceTypeOK
<1>8. Busy' = Busy /\ \A q \in Busy : task'[q].event = task[q].event
  <2>1. \A q \in Handlers : task'[q].pc # "idle" <=> task[q].pc # "idle"
    BY <1>3, <1>5, <1>7
  <2>2. Busy' = Busy
    BY <2>1 DEF Busy
  <2>3. QED BY <1>5, <1>7, <2>2 DEF Busy
<1>9. Events' = Events /\ \A y : Making(y)' = Making(y)
  BY <1>4, <1>8 DEF Events, Making
<1>10. Marks' = Marks \cup {w}
  <2> DEFINE A == {q \in Handlers : task[q].pc = "append"}
             M(q) == [event |-> task[q].event, timestamp |-> task[q].timestamp]
  <2>1. r \notin A /\ A' = A \cup {r}
    BY <1>3, <1>5, <1>7
  <2>2. \A q \in A : M(q)' = M(q)
    BY <1>7, <2>1
  <2>3. M(r)' = w
    BY <1>5, <1>7
  <2>4. Marks = ledger \cup {M(q) : q \in A}
    BY DEF Marks
  <2>5. Marks' = ledger \cup {M(q)' : q \in A'}
    BY <1>4 DEF Marks
  <2> HIDE DEF A, M
  <2>6. {M(q)' : q \in A'} = {M(q) : q \in A} \cup {w}
    BY <2>1, <2>2, <2>3
  <2>7. QED BY <2>4, <2>5, <2>6
<1> HIDE DEF w
<1>11. TraceTypeOK'
  BY <1>1, <1>4, <1>7 DEF TraceTypeOK
<1>12. RowsKnown' /\ UsedWhenMade'
  BY <1>1, <1>4, <1>9 DEF RowsKnown, UsedWhenMade, Used, Recorded
<1>13. e.creates => \A m \in Marks : m.event # e
  BY <1>1, <1>3 DEF MadeOnce
<1>14. MadeOnce'
  <2>1. \A p, q \in Busy' : task'[p].event = task'[q].event /\ task'[p].event.creates => p = q
    BY <1>1, <1>8 DEF MadeOnce
  <2>2. ASSUME NEW p \in Busy', task'[p].pc = "record", task'[p].event.creates, NEW m \in Marks'
        PROVE  m.event # task'[p].event
    <3>1. p \in Busy /\ p # r /\ task[p].pc = "record" /\ task'[p].event = task[p].event
      BY <1>5, <1>7, <1>8, <2>2 DEF Busy
    <3>2. CASE m \in Marks
      BY <1>1, <2>2, <3>1, <3>2 DEF MadeOnce
    <3>3. CASE m = w
      BY <1>1, <1>3, <1>6, <2>2, <3>1, <3>3 DEF MadeOnce
    <3>4. QED BY <1>10, <3>2, <3>3
  <2>3. \A m, n \in Marks' : m.event = n.event /\ m.event.creates => m = n
    BY <1>1, <1>6, <1>10, <1>13 DEF MadeOnce
  <2>4. QED BY <2>1, <2>2, <2>3 DEF MadeOnce
<1>15. now \in Nat /\ \A m \in Marks : m.timestamp \in Nat
  BY <1>1, <1>2, BusyFacts, EntryType, BoundsAssumption DEF Time
<1>16. MarksApart'
  <2>1. ASSUME NEW m \in Marks PROVE m.timestamp # now
    BY <1>2, <1>15
  <2>2. QED BY <1>1, <1>6, <1>10, <2>1 DEF MarksApart
<1>17. MarksInOrder'
  <2>1. SUFFICES ASSUME NEW m \in Marks', NEW n \in Marks', n.event.creates, m # n,
                        m.event.of = n.event.of \/ n.event.of \in Above[m.event.of],
                        n.event.of \notin hasty
                 PROVE  n.timestamp < m.timestamp
    BY <1>4 DEF MarksInOrder
  <2>2. CASE m \in Marks /\ n \in Marks
    BY <1>1, <2>1, <2>2 DEF MarksInOrder
  <2>3. CASE m = w /\ n \in Marks
    BY <1>2, <1>6, <2>3
  <2>4. CASE n = w /\ m \in Marks'
    <3> DEFINE y == n.event.of
    <3>1. n.event = e /\ e = Creation(y) /\ r \in Making(y)
      <4>1. e = Creation(e.of)
        BY <1>3, <1>6, <2>1, <2>4, EventIsCreation
      <4>2. QED BY <1>3, <1>6, <2>4, <4>1 DEF Making
    <3>2. m.event \in Events /\ m.event \in Event
      BY <1>1, <1>3, <1>6, <1>10, BusyFacts DEF Events
    <3>3. m.event.of \in rows
      BY <1>1, <3>2 DEF RowsKnown
    <3>4. y \in Used
      <4>1. CASE y \in Above[m.event.of]
        <5>1. rows \in SUBSET Rows
          BY <1>1 DEF TraceTypeOK
        <5>2. y \in rows /\ \E z \in rows : y \in ToSet(On[z])
          BY <1>1, <3>3, <4>1, <5>1, AboveReferred DEF RowsKnown
        <5>3. QED BY <5>2 DEF Used
      <4>2. CASE m.event.of = y
        <5>1. m \in Marks
          BY <1>10, <2>1, <2>4
        <5>2. ~m.event.creates
          <6>1. SUFFICES ASSUME m.event.creates PROVE FALSE
            OBVIOUS
          <6>2. m.event = e
            BY <3>1, <3>2, <4>2, <6>1, EventIsCreation
          <6>3. QED BY <1>13, <5>1, <6>1, <6>2
        <5>3. m.event = [of |-> y, creates |-> FALSE]
          BY <3>2, <4>2, <5>2, EventIsCreation
        <5>4. QED BY <3>2, <3>3, <4>2, <5>3 DEF Used
      <4>3. QED BY <2>1, <4>1, <4>2
    <3>5. Making(y) = {}
      BY <1>1, <2>1, <3>4 DEF UsedWhenMade
    <3>6. QED BY <3>1, <3>5
  <2>5. QED BY <1>10, <2>1, <2>2, <2>3, <2>4
<1>18. AllRecorded'
  <2>1. \A y : Unrecorded({y})' = {} <=> Unrecorded({y}) = {}
    <3>1. \A y : Unrecorded({y})' = {} <=> Making(y)' = {}
      BY DEF Unrecorded, Making, Busy, Creation
    <3>2. QED BY <1>9, <3>1, UnrecordedFacts
  <2>2. QED BY <1>1, <1>4, <2>1 DEF AllRecorded, Recorded
<1>19. QED BY <1>11, <1>12, <1>14, <1>16, <1>17, <1>18 DEF TraceKnown

\* A log is inserted.
LEMMA InsertLogStep ==
    ASSUME TraceKnown, NEW r \in Handlers, InsertLog(r)
    PROVE  TraceKnown'
<1>1. TraceTypeOK /\ RowsKnown /\ AllRecorded
  BY DEF TraceKnown
<1> DEFINE w == [event |-> task[r].event, timestamp |-> task[r].timestamp]
<1>2. task[r].pc = "append" /\ r \in Busy
  BY DEF InsertLog, Busy
<1>3. /\ ledger' = ledger \cup {w} /\ task' = [task EXCEPT ![r] = NoTask]
      /\ UNCHANGED <<rows, deleted, hasty, dropped>>
  BY DEF InsertLog
<1>4. w \in Marks /\ w.event = task[r].event /\ w \in Entry
  <2>1. w \in Marks
    BY <1>2 DEF Marks, Busy
  <2>2. QED BY <1>1, <2>1, BusyFacts
<1> HIDE DEF w
<1>5. /\ task' \in [Handlers -> Task]
      /\ Busy' = Busy \ {r}
      /\ \A q \in Busy' : task'[q] = task[q]
      /\ \A q \in Handlers : task'[q].pc = "append" => task[q].pc = "append" /\ task'[q] = task[q]
  BY <1>1, <1>2, <1>3, TaskEnded
<1>6. TraceTypeOK'
  BY <1>1, <1>3, <1>4, <1>5 DEF TraceTypeOK
<1>7. Events' \subseteq Events
  BY <1>2, <1>3, <1>4, <1>5 DEF Events
<1>8. Marks' \subseteq Marks
  BY <1>3, <1>4, <1>5 DEF Marks
<1>9. IsFiniteSet(ledger')
  BY <1>1, <1>3, FS_AddElement DEF RowsKnown
<1>10. RowsKnown' /\ MadeOnce' /\ UsedWhenMade' /\ MarksApart' /\ MarksInOrder'
  BY <1>3, <1>5, <1>6, <1>7, <1>8, <1>9, FewerStep
<1>11. AllRecorded'
  <2>1. SUFFICES ASSUME NEW y \in rows' \ dropped', Recorded(y), Making(y)' = {}
                 PROVE  \E l \in ledger' : l.event = Creation(y)
    <3>1. \A y : Unrecorded({y})' = {} <=> Making(y)' = {}
      BY DEF Unrecorded, Making, Busy, Creation
    <3>2. QED BY <3>1 DEF AllRecorded, Recorded
  <2>2. CASE Making(y) = {}
    BY <1>1, <1>3, <2>1, <2>2, UnrecordedFacts DEF AllRecorded
  <2>3. CASE Making(y) # {}
    <3>1. r \in Making(y)
      BY <1>5, <2>1, <2>3 DEF Making
    <3>2. w.event = Creation(y)
      BY <1>4, <3>1 DEF Making
    <3>3. QED BY <1>3, <3>2
  <2>4. QED BY <2>2, <2>3
<1>12. QED BY <1>6, <1>10, <1>11 DEF TraceKnown

\* An event is not recorded after all.
LEMMA GiveUpStep ==
    ASSUME TraceKnown, NEW r \in Handlers, GiveUp(r)
    PROVE  TraceKnown'
<1>1. TraceTypeOK /\ RowsKnown /\ AllRecorded
  BY DEF TraceKnown
<1>2. /\ r \in Busy /\ task' = [task EXCEPT ![r] = NoTask]
      /\ dropped' = IF task[r].event.creates THEN dropped \cup {task[r].event.of} ELSE dropped
      /\ UNCHANGED <<rows, deleted, ledger, hasty>>
  BY DEF GiveUp, Busy
<1>3. /\ task' \in [Handlers -> Task]
      /\ Busy' = Busy \ {r}
      /\ \A q \in Busy' : task'[q] = task[q]
      /\ \A q \in Handlers : task'[q].pc = "append" => task[q].pc = "append" /\ task'[q] = task[q]
  BY <1>1, <1>2, TaskEnded
<1>4. TraceTypeOK'
  <2>1. task[r].event.of \in rows
    BY <1>1, <1>2 DEF RowsKnown, Events
  <2>2. QED BY <1>1, <1>2, <1>3, <2>1 DEF TraceTypeOK
<1>5. Events' \subseteq Events
  BY <1>2, <1>3 DEF Events
<1>6. Marks' \subseteq Marks
  BY <1>2, <1>3 DEF Marks
<1>7. RowsKnown' /\ MadeOnce' /\ UsedWhenMade' /\ MarksApart' /\ MarksInOrder'
  BY <1>1, <1>2, <1>3, <1>4, <1>5, <1>6, FewerStep DEF RowsKnown
<1>8. AllRecorded'
  <2>1. SUFFICES ASSUME NEW y \in rows' \ dropped', Recorded(y), Making(y)' = {}
                 PROVE  \E l \in ledger' : l.event = Creation(y)
    <3>1. \A y : Unrecorded({y})' = {} <=> Making(y)' = {}
      BY DEF Unrecorded, Making, Busy, Creation
    <3>2. QED BY <3>1 DEF AllRecorded, Recorded
  <2>2. Making(y) = {}
    <3>1. SUFFICES ASSUME Making(y) # {} PROVE FALSE
      OBVIOUS
    <3>2. r \in Making(y)
      BY <1>3, <2>1, <3>1 DEF Making
    <3>3. y \in dropped'
      BY <1>2, <3>2, EventIsCreation DEF Making
    <3>4. QED BY <2>1, <3>3
  <2>3. y \notin dropped
    BY <1>2, <2>1
  <2>4. QED BY <1>1, <1>2, <2>1, <2>2, <2>3, UnrecordedFacts DEF AllRecorded
<1>9. QED BY <1>4, <1>7, <1>8 DEF TraceKnown

\* A row is deleted, or an old copy of it saved; or nothing happens at all.
LEMMA DeletionStep ==
    ASSUME TraceKnown, UNCHANGED <<rows, task, ledger, hasty, dropped>>, deleted' \subseteq rows
    PROVE  TraceKnown'
<1>1. /\ TraceTypeOK /\ RowsKnown /\ MadeOnce /\ UsedWhenMade /\ MarksApart /\ MarksInOrder
      /\ AllRecorded
  BY DEF TraceKnown
<1>2. Busy' = Busy /\ Events' = Events /\ Marks' = Marks /\ Used' = Used
      /\ \A y : Making(y)' = Making(y) /\ Unrecorded({y})' = Unrecorded({y})
  BY DEF Busy, Events, Marks, Used, Making, Unrecorded
<1>3. TraceTypeOK' /\ RowsKnown' /\ MadeOnce'
  BY <1>1, <1>2 DEF TraceTypeOK, RowsKnown, MadeOnce, Recorded
<1>4. UsedWhenMade' /\ MarksApart' /\ MarksInOrder' /\ AllRecorded'
  BY <1>1, <1>2 DEF UsedWhenMade, MarksApart, MarksInOrder, AllRecorded, Recorded
<1>5. QED BY <1>3, <1>4 DEF TraceKnown

\* Every step keeps the invariant.
LEMMA TraceStepKnown == TraceKnown /\ [TraceNext]_traceVars => TraceKnown'
<1> SUFFICES ASSUME TraceKnown, [TraceNext]_traceVars PROVE TraceKnown'
  OBVIOUS
<1>1. ASSUME NEW r \in Handlers, NEW x \in Rows, Create(r, x) PROVE TraceKnown'
  BY <1>1, CreateRecordedStep, CreateUnrecordedStep
<1>2. ASSUME NEW r \in Handlers, NEW x \in Cycles \cup Shipments, LogMore(r, x) PROVE TraceKnown'
  BY <1>2, LogMoreStep
<1>3. ASSUME NEW r \in Handlers, Timestamp(r) \/ InsertLog(r) \/ GiveUp(r) PROVE TraceKnown'
  BY <1>3, TimestampStep, InsertLogStep, GiveUpStep
<1>4. deleted \subseteq rows
  BY DEF TraceKnown, TraceTypeOK
<1>5. ASSUME NEW x \in Deletable, Delete(x) \/ SaveOldCopy(x) PROVE TraceKnown'
  BY <1>4, <1>5, DeletionStep DEF Delete, SaveOldCopy, Visible
<1>6. CASE UNCHANGED traceVars
  BY <1>4, <1>6, DeletionStep DEF traceVars
<1>7. QED BY <1>1, <1>2, <1>3, <1>5, <1>6 DEF TraceNext

\* What is known of rows, events and timestamps holds always.
THEOREM TraceKnownAlways == TraceSpec => []TraceKnown
BY TraceInitKnown, TraceStepKnown, PTL DEF TraceSpec

-----------------------------------------------------------------------------
(***************************************************************************)
(* What a trace is made of.                                                *)
(***************************************************************************)

\* The logs of some rows, as a list.
LEMMA LogsOfFacts ==
    ASSUME IsFiniteSet(ledger), ledger \subseteq Entry, NEW S
    PROVE  LogsOf(S) \in Seq(Entry) /\ ToSet(LogsOf(S)) = {l \in ledger : l.event.of \in S}
<1> DEFINE L == {l \in ledger : l.event.of \in S}
<1>1. L \subseteq ledger /\ L \subseteq Entry
  OBVIOUS
<1>2. IsFiniteSet(L)
  BY <1>1, FS_Subset
<1> HIDE DEF L
<1>3. SetToSeq(L) \in Seq(L) /\ ToSet(SetToSeq(L)) = L
  BY <1>2, SetToSeqFacts
<1>4. SetToSeq(L) \in Seq(Entry)
  BY <1>1, <1>3, SeqMonotonic
<1>5. LogsOf(S) = SetToSeq(L)
  BY DEF LogsOf, L
<1>6. QED BY <1>3, <1>4, <1>5 DEF L

\* Concat leaves no list out and adds none.
LEMMA ConcatOfFacts ==
    ASSUME NEW X, NEW K, IsFiniteSet(K), NEW f \in [K -> Seq(X)]
    PROVE  /\ Concat(f) \in Seq(X)
           /\ \A e : e \in ToSet(Concat(f)) <=> \E k \in K : e \in ToSet(f[k])
<1> DEFINE keys == SetToSeq(DOMAIN f)
           ss == [i \in DOMAIN keys |-> f[keys[i]]]
<1>1. DOMAIN f = K
  OBVIOUS
<1>2. keys \in Seq(K) /\ ToSet(keys) = K
  BY <1>1, SetToSeqFacts
<1>3. Concat(f) = FlattenSeq(ss)
  BY DEF Concat
<1> HIDE DEF keys
<1>4. Len(keys) \in Nat /\ DOMAIN keys = 1..Len(keys) /\ \A i \in DOMAIN keys : keys[i] \in K
  BY <1>2, LenProperties
<1>5. ss \in [1..Len(keys) -> Seq(X)]
  BY <1>4
<1>6. ss \in Seq(Seq(X)) /\ DOMAIN ss = DOMAIN keys /\ \A i \in DOMAIN keys : ss[i] = f[keys[i]]
  BY <1>4, <1>5
<1> HIDE DEF ss
<1>7. Concat(f) \in Seq(X) /\ ToSet(Concat(f)) = UNION {ToSet(ss[i]) : i \in DOMAIN ss}
  BY <1>3, <1>6, FlattenSeqFacts
<1>8. \A k \in K : \E i \in DOMAIN keys : keys[i] = k
  BY <1>2, Zenon DEF ToSet
<1>9. ASSUME NEW e PROVE e \in ToSet(Concat(f)) <=> \E k \in K : e \in ToSet(f[k])
  <2>1. e \in ToSet(Concat(f)) <=> \E i \in DOMAIN keys : e \in ToSet(f[keys[i]])
    BY <1>6, <1>7
  <2>2. QED BY <1>4, <1>8, <2>1
<1>10. QED BY <1>7, <1>9

\* There are finitely many lines of a product.
LEMMA OrderItemsFacts ==
    ASSUME IsFiniteSet(rows), rows \subseteq Rows, NEW p
    PROVE  /\ IsFiniteSet(OrderItems(p))
           /\ \A item \in OrderItems(p) : item[1] \in Orders \cap rows /\ p \in ToSet(On[item[1]])
           /\ \A o \in Orders \cap rows : p \in ToSet(On[o]) =>
                \E item \in OrderItems(p) : item[1] = o
<1> DEFINE lines(o) == {i \in DOMAIN On[o] : On[o][i] = p}
           f == [o \in Orders \cap rows |-> {o} \X lines(o)]
           U == {f[o] : o \in Orders \cap rows}
<1>1. OrderItems(p) = UNION U
  <2>1. \A o \in Orders \cap rows : f[o] = {o} \X {i \in DOMAIN On[o] : On[o][i] = p}
    OBVIOUS
  <2>2. \A item : item \in OrderItems(p) <=>
           \E o \in Orders \cap rows : item \in {o} \X {i \in DOMAIN On[o] : On[o][i] = p}
    BY Zenon DEF OrderItems
  <2> HIDE DEF f
  <2>3. \A item : item \in UNION U <=> \E o \in Orders \cap rows : item \in f[o]
    BY Zenon
  <2> HIDE DEF U
  <2>4. \A item : item \in UNION U <=> item \in OrderItems(p)
    BY <2>1, <2>2, <2>3
  <2>5. QED BY <2>4, Zenon
<1>2. IsFiniteSet(Orders \cap rows)
  BY FS_Intersection
<1>3. IsFiniteSet(U)
  <2>1. f \in Surjection(Orders \cap rows, U)
    <3> HIDE DEF f
    <3>1. f \in [Orders \cap rows -> U]
      <4>1. f = [o \in Orders \cap rows |-> f[o]]
        BY DEF f
      <4>2. QED BY <4>1
    <3>2. \A u \in U : \E o \in Orders \cap rows : f[o] = u
      OBVIOUS
    <3> HIDE DEF U
    <3>3. QED BY <3>1, <3>2, Fun_IsSurj
  <2> HIDE DEF f, U
  <2>2. QED BY <1>2, <2>1, FS_Surjection
<1>4. ASSUME NEW o \in Orders \cap rows PROVE IsFiniteSet(f[o])
  <2>1. On[o] \in Seq(Rows)
    BY OnFacts
  <2>2. DOMAIN On[o] = 1..Len(On[o]) /\ Len(On[o]) \in Nat
    BY <2>1, LenProperties
  <2>3. IsFiniteSet(DOMAIN On[o])
    BY <2>2, FS_Interval
  <2>4. IsFiniteSet(lines(o)) /\ IsFiniteSet({o})
    BY <2>3, FS_Subset, FS_Singleton
  <2> HIDE DEF lines
  <2>5. IsFiniteSet({o} \X lines(o))
    BY <2>4, FS_Product
  <2>6. QED BY <2>5
<1>5. IsFiniteSet(UNION U)
  <2>1. \A u \in U : IsFiniteSet(u)
    BY <1>4
  <2> HIDE DEF U
  <2>2. QED BY <1>3, <2>1, FS_UNION
<1>6. \A item : item \in OrderItems(p) <=>
         \E o \in Orders \cap rows : item \in {o} \X {i \in DOMAIN On[o] : On[o][i] = p}
  BY Zenon DEF OrderItems
<1>7. ASSUME NEW item \in OrderItems(p)
      PROVE  item[1] \in Orders \cap rows /\ p \in ToSet(On[item[1]])
  <2>1. PICK o \in Orders \cap rows : item \in {o} \X {i \in DOMAIN On[o] : On[o][i] = p}
    BY <1>6
  <2>2. item[1] = o /\ item[2] \in DOMAIN On[o] /\ On[o][item[2]] = p
    BY <2>1
  <2>3. QED BY <2>2, Zenon DEF ToSet
<1>8. ASSUME NEW o \in Orders \cap rows, p \in ToSet(On[o])
      PROVE  \E item \in OrderItems(p) : item[1] = o
  <2>1. PICK i \in DOMAIN On[o] : On[o][i] = p
    BY <1>8, Zenon DEF ToSet
  <2>2. <<o, i>> \in {o} \X {j \in DOMAIN On[o] : On[o][j] = p}
    BY <2>1
  <2>3. <<o, i>> \in OrderItems(p) /\ <<o, i>>[1] = o
    BY <1>6, <2>2
  <2>4. QED BY <2>3
<1>9. QED BY <1>1, <1>5, <1>7, <1>8

\* x is product p, an order of it, or a shipment of such an order.
SoldAs(x, p) ==
    \/ x = p
    \/ \E o \in Orders \cap rows : p \in ToSet(On[o]) /\ (x = o \/ (x \in Shipments /\ On[x][1] = o))

\* The logs of a product are of it, of its orders and of their shipments.
LEMMA LogsOfProductFacts ==
    ASSUME TraceTypeOK, RowsKnown, NEW p
    PROVE  /\ LogsOfProduct(p) \in Seq(Entry)
           /\ \A l : l \in ToSet(LogsOfProduct(p)) <=> l \in ledger /\ SoldAs(l.event.of, p)
<1> DEFINE K == OrderItems(p)
           f == [item \in K |-> LogsOfItem(item)]
<1>1. IsFiniteSet(rows) /\ rows \subseteq Rows /\ IsFiniteSet(ledger) /\ ledger \subseteq Entry
  BY DEF TraceTypeOK, RowsKnown
<1>2. /\ IsFiniteSet(K)
      /\ \A item \in K : item[1] \in Orders \cap rows /\ p \in ToSet(On[item[1]])
      /\ \A o \in Orders \cap rows : p \in ToSet(On[o]) => \E item \in K : item[1] = o
  BY <1>1, OrderItemsFacts
<1>3. ASSUME NEW item
      PROVE  /\ LogsOfItem(item) \in Seq(Entry)
             /\ \A l : l \in ToSet(LogsOfItem(item)) <=>
                  /\ l \in ledger
                  /\ \/ l.event.of = item[1]
                     \/ l.event.of \in Shipments /\ On[l.event.of][1] = item[1]
  <2> DEFINE s == LogsOf({item[1]})
             t == LogsOf({x \in Shipments : On[x][1] = item[1]})
  <2>1. s \in Seq(Entry) /\ ToSet(s) = {l \in ledger : l.event.of \in {item[1]}}
    BY <1>1, LogsOfFacts
  <2>2. /\ t \in Seq(Entry)
        /\ ToSet(t) = {l \in ledger : l.event.of \in {x \in Shipments : On[x][1] = item[1]}}
    BY <1>1, LogsOfFacts
  <2>3. LogsOfItem(item) = s \o t
    BY DEF LogsOfItem
  <2> HIDE DEF s, t
  <2>4. s \o t \in Seq(Entry) /\ ToSet(s \o t) = ToSet(s) \cup ToSet(t)
    BY <2>1, <2>2, ConcatFacts
  <2>5. QED BY <2>1, <2>2, <2>3, <2>4
<1> HIDE DEF K
<1>4. f \in [K -> Seq(Entry)] /\ \A item \in K : f[item] = LogsOfItem(item)
  BY <1>3
<1>5. LogsOfProduct(p) = LogsOf({p}) \o Concat(f)
  BY DEF LogsOfProduct, K
<1> HIDE DEF f
<1>6. /\ Concat(f) \in Seq(Entry)
      /\ \A l : l \in ToSet(Concat(f)) <=> \E item \in K : l \in ToSet(f[item])
  BY <1>2, <1>4, ConcatOfFacts
<1>7. LogsOf({p}) \in Seq(Entry) /\ ToSet(LogsOf({p})) = {l \in ledger : l.event.of \in {p}}
  BY <1>1, LogsOfFacts
<1>8. LogsOfProduct(p) \in Seq(Entry)
      /\ ToSet(LogsOfProduct(p)) = ToSet(LogsOf({p})) \cup ToSet(Concat(f))
  <2> DEFINE s == LogsOf({p})
             t == Concat(f)
  <2>1. s \in Seq(Entry) /\ t \in Seq(Entry) /\ LogsOfProduct(p) = s \o t
    BY <1>5, <1>6, <1>7
  <2> HIDE DEF s, t
  <2>2. s \o t \in Seq(Entry) /\ ToSet(s \o t) = ToSet(s) \cup ToSet(t)
    BY <2>1, ConcatFacts
  <2>3. QED BY <2>1, <2>2 DEF s, t
<1>9. ASSUME NEW l
      PROVE  l \in ToSet(LogsOfProduct(p)) <=> l \in ledger /\ SoldAs(l.event.of, p)
  <2>1. l \in ToSet(LogsOfProduct(p)) <=>
           \/ l \in ledger /\ l.event.of = p
           \/ \E item \in K : l \in ToSet(LogsOfItem(item))
    BY <1>4, <1>6, <1>7, <1>8
  <2>2. (\E item \in K : l \in ToSet(LogsOfItem(item))) <=>
           /\ l \in ledger
           /\ \E o \in Orders \cap rows : p \in ToSet(On[o]) /\
                (l.event.of = o \/ (l.event.of \in Shipments /\ On[l.event.of][1] = o))
    <3> DEFINE Of(o) == l.event.of = o \/ (l.event.of \in Shipments /\ On[l.event.of][1] = o)
    <3>1. \A item : l \in ToSet(LogsOfItem(item)) <=> l \in ledger /\ Of(item[1])
      BY <1>3
    <3> HIDE DEF Of
    <3>2. ASSUME NEW item \in K, Of(item[1])
          PROVE  \E o \in Orders \cap rows : p \in ToSet(On[o]) /\ Of(o)
      BY <1>2, <3>2
    <3>3. ASSUME NEW o \in Orders \cap rows, p \in ToSet(On[o]), Of(o)
          PROVE  \E item \in K : Of(item[1])
      <4>1. PICK item \in K : item[1] = o
        BY <1>2, <3>3
      <4>2. QED BY <3>3, <4>1
    <3>4. (\E item \in K : l \in ToSet(LogsOfItem(item))) <=>
             l \in ledger /\ \E o \in Orders \cap rows : p \in ToSet(On[o]) /\ Of(o)
      BY <3>1, <3>2, <3>3
    <3>5. QED BY <3>4 DEF Of
  <2>3. QED BY <2>1, <2>2 DEF SoldAs
<1>10. QED BY <1>8, <1>9

\* Rows were made from rows of earlier kinds.
LEMMA AboveIsEarlier ==
    \A k \in 1..8 : \A x \in Kinds[k] : \A y \in Above[x] : \E m \in 1..(k - 1) : y \in Kinds[m]
<1> DEFINE Fine(k) == \A x \in Kinds[k] : \A y \in Above[x] : \E m \in 1..(k - 1) : y \in Kinds[m]
           T == {n \in Nat : \A k \in 1..8 : k <= n => Fine(k)}
<1>1. 0 \in T
  OBVIOUS
<1>2. ASSUME NEW n \in Nat, n \in T PROVE n + 1 \in T
  <2>1. SUFFICES ASSUME NEW k \in 1..8, k = n + 1 PROVE Fine(k)
    <3> HIDE DEF Fine
    <3>1. QED BY <1>2
  <2>2. SUFFICES ASSUME NEW x \in Kinds[k], NEW y \in Above[x]
                 PROVE  \E m \in 1..(k - 1) : y \in Kinds[m]
    OBVIOUS
  <2>3. x \in Rows
    BY KindFacts
  <2>4. y \in ToSet(On[x]) \/ \E z \in ToSet(On[x]) : y \in Above[z]
    <3>1. Above[x] = From(Above, x)
      BY <2>3, AboveFacts
    <3>2. QED BY <3>1, Zenon DEF From
  <2>5. ASSUME NEW z \in ToSet(On[x]) PROVE k - 1 \in 1..8 /\ z \in Kinds[k - 1]
    <3>1. k # 1
      BY <2>5, OnFacts
    <3>2. QED BY <2>5, <3>1, OnFacts
  <2>6. CASE y \in ToSet(On[x])
    BY <2>5, <2>6
  <2>7. ASSUME NEW z \in ToSet(On[x]), y \in Above[z] PROVE \E m \in 1..(k - 1) : y \in Kinds[m]
    <3>1. k - 1 \in 1..8 /\ z \in Kinds[k - 1] /\ k - 1 <= n
      BY <2>1, <2>5
    <3>2. Fine(k - 1)
      <4> HIDE DEF Fine
      <4>1. QED BY <1>2, <3>1
    <3>3. PICK m \in 1..((k - 1) - 1) : y \in Kinds[m]
      BY <2>7, <3>1, <3>2
    <3>4. m \in 1..(k - 1)
      OBVIOUS
    <3>5. QED BY <3>3, <3>4
  <2>8. QED BY <2>4, <2>6, <2>7
<1>3. 8 \in T
  <2> HIDE DEF T
  <2>1. QED BY <1>1, <1>2, SetInduction
<1>4. \A k \in 1..8 : Fine(k)
  <2> HIDE DEF Fine
  <2>1. QED BY <1>3
<1>5. QED BY <1>4

\* A row that refers to one other was made from it and from what that was made from.
LEMMA OneReference ==
    ASSUME NEW k \in 2..8, NEW x \in Kinds[k], Len(On[x]) = 1
    PROVE  /\ On[x] = <<On[x][1]>> /\ ToSet(On[x]) = {On[x][1]}
           /\ On[x][1] \in Kinds[k - 1]
           /\ Above[x] = {On[x][1]} \cup Above[On[x][1]]
<1>1. x \in Rows
  BY KindFacts
<1>2. On[x] \in Seq(Rows)
  BY <1>1, OnFacts
<1>3. On[x] = <<On[x][1]>> /\ DOMAIN On[x] = {1}
  BY <1>2
<1>4. ToSet(On[x]) = {On[x][1]}
  BY <1>3, Zenon DEF ToSet
<1>5. On[x][1] \in Kinds[k - 1]
  BY <1>4, OnFacts
<1>6. Above[x] = From(Above, x)
  BY <1>1, AboveFacts
<1>7. Above[x] = {On[x][1]} \cup Above[On[x][1]]
  BY <1>4, <1>6, Zenon DEF From
<1>8. QED BY <1>3, <1>4, <1>5, <1>7

\* So do all rows but products and orders.
LEMMA OnIsOne ==
    ASSUME NEW k \in 2..8, k \notin {6, 7}, NEW x \in Kinds[k]
    PROVE  /\ On[x] = <<On[x][1]>> /\ ToSet(On[x]) = {On[x][1]}
           /\ On[x][1] \in Kinds[k - 1]
           /\ Above[x] = {On[x][1]} \cup Above[On[x][1]]
<1>1. x \notin Orders \cup Products
  BY KindFacts, KindNames
<1>2. k \in DOMAIN Kinds \ {1}
  BY KindFacts
<1>3. Len(On[x]) = 1
  BY <1>1, <1>2, OnAssumption, Zenon
<1>4. QED BY <1>3, OneReference

\* Batch b is of harvest h of cycle c in pond d of farm f, and of nothing else.
Upstream(b, h, c, d, f) ==
    /\ h \in Harvests /\ c \in Cycles /\ d \in Ponds /\ f \in Farms
    /\ Above[b] = {h, c, d, f}
    /\ ToSet(On[b]) = {h} /\ ToSet(On[h]) = {c} /\ ToSet(On[c]) = {d} /\ ToSet(On[d]) = {f}

\* The references say which.
LEMMA UpstreamFacts ==
    ASSUME NEW b \in Batches, NEW h, h = On[b][1], NEW c, c = On[h][1],
           NEW d, d = On[c][1], NEW f, f = On[d][1]
    PROVE  Upstream(b, h, c, d, f)
<1> DEFINE One(k, m) == \A x \in Kinds[k] : /\ On[x][1] \in Kinds[m]
                                             /\ Above[x] = {On[x][1]} \cup Above[On[x][1]]
                                             /\ ToSet(On[x]) = {On[x][1]}
<1>0. ASSUME NEW k \in 2..8, NEW m \in 1..8, k \notin {6, 7}, m = k - 1 PROVE One(k, m)
  BY <1>0, OnIsOne
<1>1. One(5, 4) /\ One(4, 3) /\ One(3, 2) /\ One(2, 1)
  <2> HIDE DEF One
  <2>1. QED BY <1>0
<1>2. h \in Kinds[4] /\ Above[b] = {h} \cup Above[h] /\ ToSet(On[b]) = {h}
  BY <1>1, KindNames, Zenon
<1>3. c \in Kinds[3] /\ Above[h] = {c} \cup Above[c] /\ ToSet(On[h]) = {c}
  BY <1>1, <1>2, Zenon
<1>4. d \in Kinds[2] /\ Above[c] = {d} \cup Above[d] /\ ToSet(On[c]) = {d}
  BY <1>1, <1>3, Zenon
<1>5. f \in Kinds[1] /\ Above[d] = {f} \cup Above[f] /\ ToSet(On[d]) = {f}
  BY <1>1, <1>4, Zenon
<1>6. Above[f] = {}
  <2>0. 1 \in 1..8 /\ \A k \in 1..8 : Kinds[k] \subseteq Rows
    BY KindFacts
  <2>1. \A x \in Kinds[1] : Above[x] = From(Above, x) /\ ToSet(On[x]) = {}
    <3>1. \A x \in Kinds[1] : x \in Rows
      BY <2>0, Zenon
    <3>2. QED BY <3>1, AboveFacts, OnFacts, Zenon
  <2>2. Above[f] = From(Above, f) /\ ToSet(On[f]) = {}
    BY <1>5, <2>1, Zenon
  <2>3. QED BY <2>2, Zenon DEF From
<1>7. QED BY <1>2, <1>3, <1>4, <1>5, <1>6, KindNames DEF Upstream

\* The products of a batch are on it.
LEMMA ProductOfBatch ==
    ASSUME NEW b \in Batches, NEW p \in Products
    PROVE  b \in Above[p] <=> On[p] = <<b>>
<1>1. p \in Kinds[6] /\ b \in Kinds[5] /\ p \in Rows
  BY KindNames, KindFacts
<1>2. On[p] \in Seq(Rows) /\ Len(On[p]) <= 1
  <2>1. 6 \in DOMAIN Kinds \ {1}
    BY KindFacts
  <2>2. Len(On[p]) <= 1
    BY <1>1, <2>1, OnAssumption, Zenon
  <2>3. QED BY <1>1, <2>2, OnFacts
<1>3. CASE Len(On[p]) = 0
  <2>1. On[p] = <<>> /\ On[p] # <<b>>
    <3>1. On[p] = <<>>
      BY <1>2, <1>3, EmptySeq
    <3>2. Len(<<b>>) = 1
      OBVIOUS
    <3>3. QED BY <1>3, <3>1, <3>2
  <2>2. ToSet(On[p]) = {}
    BY <2>1 DEF ToSet
  <2>3. Above[p] = From(Above, p)
    BY <1>1, AboveFacts
  <2>4. b \notin Above[p]
    BY <2>2, <2>3, Zenon DEF From
  <2>5. QED BY <2>1, <2>4
<1>4. CASE Len(On[p]) = 1
  <2>1. On[p] = <<On[p][1]>> /\ On[p][1] \in Kinds[5] /\ Above[p] = {On[p][1]} \cup Above[On[p][1]]
    BY <1>1, <1>4, OneReference
  <2>2. b \notin Above[On[p][1]]
    <3>1. ASSUME b \in Above[On[p][1]] PROVE FALSE
      <4>1. PICK m \in 1..4 : b \in Kinds[m]
        BY <2>1, <3>1, AboveIsEarlier
      <4>2. QED BY <1>1, <4>1, KindFacts
    <3>2. QED BY <3>1
  <2>3. QED BY <2>1, <2>2
<1>5. Len(On[p]) = 0 \/ Len(On[p]) = 1
  <2>1. Len(On[p]) \in Nat
    BY <1>2, LenProperties
  <2>2. \A n \in Nat : n <= 1 => n = 0 \/ n = 1
    OBVIOUS
  <2>3. QED BY <1>2, <2>1, <2>2, Zenon
<1>6. QED BY <1>3, <1>4, <1>5

\* What was made from a product: the orders with a line of it, and their shipments.
LEMMA MadeFromProduct ==
    ASSUME NEW p \in Products, NEW x \in Rows
    PROVE  p \in Above[x] <=> \/ x \in Orders /\ p \in ToSet(On[x])
                              \/ x \in Shipments /\ p \in ToSet(On[On[x][1]])
<1>1. p \in Kinds[6]
  BY KindNames
<1>2. PICK k \in 1..8 : x \in Kinds[k]
  BY KindFacts
<1>3. ASSUME NEW o \in Kinds[7] PROVE p \in Above[o] <=> p \in ToSet(On[o])
  <2>1. Above[o] = From(Above, o)
    BY KindFacts, AboveFacts
  <2>2. ASSUME NEW q \in ToSet(On[o]), p \in Above[q] PROVE FALSE
    <3>1. q \in Kinds[6]
      BY OnFacts
    <3>2. PICK m \in 1..5 : p \in Kinds[m]
      BY <2>2, <3>1, AboveIsEarlier
    <3>3. QED BY <1>1, <3>2, KindFacts
  <2>3. QED BY <2>1, <2>2, Zenon DEF From
<1>4. CASE k <= 6
  <2>1. p \notin Above[x]
    <3>1. ASSUME p \in Above[x] PROVE FALSE
      <4>1. PICK m \in 1..(k - 1) : p \in Kinds[m]
        BY <1>2, <3>1, AboveIsEarlier
      <4>2. QED BY <1>1, <1>4, <4>1, KindFacts
    <3>2. QED BY <3>1
  <2>2. x \notin Kinds[7] /\ x \notin Kinds[8]
    BY <1>2, <1>4, KindFacts
  <2>3. QED BY <2>1, <2>2, KindNames
<1>5. CASE k = 7
  <2>1. x \notin Kinds[8] /\ x \in Kinds[7]
    BY <1>2, <1>5, KindFacts
  <2>2. QED BY <1>3, <2>1, KindNames
<1>6. CASE k = 8
  <2>1. x \notin Kinds[7] /\ x \in Kinds[8]
    BY <1>2, <1>6, KindFacts
  <2>2. On[x][1] \in Kinds[7] /\ Above[x] = {On[x][1]} \cup Above[On[x][1]]
    BY <2>1, OnIsOne
  <2>3. p # On[x][1]
    BY <1>1, <2>2, KindFacts
  <2>4. p \in Above[x] <=> p \in ToSet(On[On[x][1]])
    BY <1>3, <2>2, <2>3
  <2>5. QED BY <2>1, <2>4, KindNames
<1>7. QED BY <1>4, <1>5, <1>6

\* What was made from a batch was made from one of its products.
LEMMA MadeFromBatch ==
    ASSUME NEW b \in Batches, NEW x \in Rows
    PROVE  b \in Above[x] <=> \E p \in Products : On[p] = <<b>> /\ (x = p \/ p \in Above[x])
<1>1. b \in Kinds[5]
  BY KindNames
<1>2. PICK k \in 1..8 : x \in Kinds[k]
  BY KindFacts
<1>3. ASSUME NEW o \in Kinds[7]
      PROVE  b \in Above[o] <=> \E p \in ToSet(On[o]) : On[p] = <<b>>
  <2>1. Above[o] = From(Above, o)
    BY KindFacts, AboveFacts
  <2>2. ToSet(On[o]) \subseteq Kinds[6]
    BY OnFacts
  <2>3. b \notin ToSet(On[o])
    BY <1>1, <2>2, KindFacts
  <2>4. \A p \in ToSet(On[o]) : b \in Above[p] <=> On[p] = <<b>>
    BY <2>2, ProductOfBatch, KindNames
  <2>5. b \in Above[o] <=> \E p \in ToSet(On[o]) : b \in Above[p]
    BY <2>1, <2>3, Zenon DEF From
  <2>6. QED BY <2>4, <2>5
<1>4. CASE k <= 5
  <2>1. b \notin Above[x]
    <3>1. ASSUME b \in Above[x] PROVE FALSE
      <4>1. PICK m \in 1..(k - 1) : b \in Kinds[m]
        BY <1>2, <3>1, AboveIsEarlier
      <4>2. QED BY <1>1, <1>4, <4>1, KindFacts
    <3>2. QED BY <3>1
  <2>2. x \notin Kinds[6] /\ x \notin Kinds[7] /\ x \notin Kinds[8]
    BY <1>2, <1>4, KindFacts
  <2>3. ASSUME NEW p \in Products PROVE x # p /\ p \notin Above[x]
    BY <2>2, MadeFromProduct, KindNames
  <2>4. QED BY <2>1, <2>3
<1>5. CASE k = 6
  <2>1. x \notin Kinds[7] /\ x \notin Kinds[8] /\ x \in Products
    BY <1>2, <1>5, KindFacts, KindNames
  <2>2. \A p \in Products : p \notin Above[x]
    BY <2>1, MadeFromProduct, KindNames
  <2>3. b \in Above[x] <=> On[x] = <<b>>
    BY <2>1, ProductOfBatch
  <2>4. QED BY <2>1, <2>2, <2>3
<1>6. CASE k = 7
  <2>1. x \notin Kinds[6] /\ x \notin Kinds[8] /\ x \in Kinds[7] /\ ToSet(On[x]) \subseteq Kinds[6]
    BY <1>2, <1>6, KindFacts, OnFacts
  <2>2. \A p \in Products : x # p /\ (p \in Above[x] <=> p \in ToSet(On[x]))
    BY <2>1, MadeFromProduct, KindNames
  <2>3. b \in Above[x] <=> \E p \in ToSet(On[x]) : On[p] = <<b>>
    BY <1>3, <2>1
  <2>4. \A p \in ToSet(On[x]) : p \in Products
    BY <2>1, KindNames
  <2>5. QED BY <2>2, <2>3, <2>4
<1>7. CASE k = 8
  <2> DEFINE o == On[x][1]
  <2>1. x \notin Kinds[6] /\ x \notin Kinds[7] /\ x \in Kinds[8]
    BY <1>2, <1>7, KindFacts
  <2>2. o \in Kinds[7] /\ Above[x] = {o} \cup Above[o]
    BY <2>1, OnIsOne
  <2>3. ToSet(On[o]) \subseteq Kinds[6] /\ b # o
    BY <1>1, <2>2, KindFacts, OnFacts
  <2>4. \A p \in Products : x # p /\ (p \in Above[x] <=> p \in ToSet(On[o]))
    BY <2>1, MadeFromProduct, KindNames
  <2> HIDE DEF o
  <2>5. b \in Above[x] <=> \E p \in ToSet(On[o]) : On[p] = <<b>>
    BY <1>3, <2>2, <2>3
  <2>6. \A p \in ToSet(On[o]) : p \in Products
    BY <2>3, KindNames
  <2>7. QED BY <2>4, <2>5, <2>6
<1>8. QED BY <1>4, <1>5, <1>6, <1>7

\* The rows a product was sold as are those made from it.
LEMMA SoldAsFacts ==
    ASSUME TraceTypeOK, RowsKnown, NEW p \in Products, NEW x \in rows
    PROVE  SoldAs(x, p) <=> x = p \/ p \in Above[x]
<1>1. x \in Rows /\ rows \subseteq Rows /\ ToSet(On[x]) \subseteq rows
  BY DEF TraceTypeOK, RowsKnown
<1>2. p \in Above[x] <=> \/ x \in Orders /\ p \in ToSet(On[x])
                         \/ x \in Shipments /\ p \in ToSet(On[On[x][1]])
  BY <1>1, MadeFromProduct
<1>3. x \in Shipments => On[x][1] \in Orders \cap rows
  <2>1. SUFFICES ASSUME x \in Kinds[8] PROVE On[x][1] \in Kinds[7] /\ On[x][1] \in rows
    BY KindNames
  <2>2. On[x][1] \in Kinds[7] /\ ToSet(On[x]) = {On[x][1]}
    BY <2>1, OnIsOne
  <2>3. QED BY <1>1, <2>2
<1>4. QED BY <1>2, <1>3 DEF SoldAs

\* The rows whose logs a trace of b shows.
Shown(x, b) ==
    LET h == On[b][1]
        c == On[h][1]
        d == On[c][1]
    IN  \/ x \in {b, h, c}
        \/ Visible(d) /\ x = On[d][1]
        \/ \E p \in Products : Visible(p) /\ On[p] = <<b>> /\ SoldAs(x, p)

\* A trace has the logs of those rows and no others, by timestamp.
LEMMA TraceFacts ==
    ASSUME TraceTypeOK, RowsKnown, NEW b \in Batches, NEW trace, trace = GetTraceByBatchCode(b)
    PROVE  /\ trace \in Seq(Entry)
           /\ ToSet(trace) = {l \in ledger : Shown(l.event.of, b)}
           /\ \A i, j \in DOMAIN trace : i < j => trace[i].timestamp <= trace[j].timestamp
<1> DEFINE h == On[b][1]
           c == On[h][1]
           d == On[c][1]
           P == {q \in Products : Visible(q) /\ On[q] = <<b>>}
           ps == [p \in P |-> LogsOfProduct(p)]
           list == LogsOf({b}) \o LogsOf({h}) \o LogsOf({c}) \o FarmLogs(d) \o Concat(ps)
           sorted == [l \in Seq(Entry) |-> sortLogsByTimestamp(l)]
<1>1. IsFiniteSet(rows) /\ IsFiniteSet(ledger) /\ ledger \subseteq Entry
  BY DEF TraceTypeOK, RowsKnown
<1>2. trace = sorted[list]
  BY Zenon DEF GetTraceByBatchCode
<1> HIDE DEF h, c, d
<1> DEFINE Holds(s, S) == s \in Seq(Entry) /\ ToSet(s) = {l \in ledger : l.event.of \in S}
<1>3. \A S : Holds(LogsOf(S), S)
  BY <1>1, LogsOfFacts
<1>4. Holds(FarmLogs(d), IF Visible(d) THEN {On[d][1]} ELSE {})
  <2>1. CASE Visible(d)
    BY <1>3, <2>1 DEF FarmLogs
  <2>2. CASE ~Visible(d)
    <3>1. FarmLogs(d) = <<>>
      BY <2>2 DEF FarmLogs
    <3>2. <<>> \in Seq(Entry) /\ ToSet(<<>>) = {}
      BY DEF ToSet
    <3>3. QED BY <2>2, <3>1, <3>2
  <2>3. QED BY <2>1, <2>2
<1>5. /\ Concat(ps) \in Seq(Entry)
      /\ \A l : l \in ToSet(Concat(ps)) <=> \E p \in P : l \in ledger /\ SoldAs(l.event.of, p)
  <2>1. IsFiniteSet(P)
    <3>1. P \in SUBSET rows
      BY DEF Visible
    <3>2. QED BY <1>1, <3>1, FS_Subset
  <2> HIDE DEF P
  <2>2. /\ ps \in [P -> Seq(Entry)]
        /\ \A p \in P : \A l : l \in ToSet(ps[p]) <=> l \in ledger /\ SoldAs(l.event.of, p)
    BY LogsOfProductFacts
  <2> HIDE DEF ps
  <2>3. /\ Concat(ps) \in Seq(Entry)
        /\ \A l : l \in ToSet(Concat(ps)) <=> \E p \in P : l \in ToSet(ps[p])
    BY <2>1, <2>2, ConcatOfFacts
  <2>4. QED BY <2>2, <2>3
<1> DEFINE s1 == LogsOf({b})
           s2 == LogsOf({h})
           s3 == LogsOf({c})
           s4 == FarmLogs(d)
           s5 == Concat(ps)
<1>6. Holds(s1, {b}) /\ Holds(s2, {h}) /\ Holds(s3, {c}) /\ s5 \in Seq(Entry)
  <2> HIDE DEF Holds
  <2>1. QED BY <1>3, <1>5
<1>7. list = s1 \o s2 \o s3 \o s4 \o s5
  OBVIOUS
<1>8. list \in Seq(Entry) /\ ToSet(list) = ToSet(s1) \cup ToSet(s2) \cup ToSet(s3) \cup ToSet(s4) \cup ToSet(s5)
  <2> HIDE DEF s1, s2, s3, s4, s5, list
  <2>1. s1 \in Seq(Entry) /\ s2 \in Seq(Entry) /\ s3 \in Seq(Entry) /\ s4 \in Seq(Entry) /\ s5 \in Seq(Entry)
    BY <1>4, <1>6 DEF s4
  <2> DEFINE t2 == s1 \o s2
             t3 == t2 \o s3
             t4 == t3 \o s4
             t5 == t4 \o s5
  <2>2. list = t5
    BY <1>7
  <2>3. t2 \in Seq(Entry) /\ ToSet(t2) = ToSet(s1) \cup ToSet(s2)
    BY <2>1, ConcatFacts
  <2> HIDE DEF t2
  <2>4. t3 \in Seq(Entry) /\ ToSet(t3) = ToSet(t2) \cup ToSet(s3)
    BY <2>1, <2>3, ConcatFacts
  <2> HIDE DEF t3
  <2>5. t4 \in Seq(Entry) /\ ToSet(t4) = ToSet(t3) \cup ToSet(s4)
    BY <2>1, <2>4, ConcatFacts
  <2> HIDE DEF t4
  <2>6. t5 \in Seq(Entry) /\ ToSet(t5) = ToSet(t4) \cup ToSet(s5)
    BY <2>1, <2>5, ConcatFacts
  <2>7. QED BY <2>2, <2>3, <2>4, <2>5, <2>6
<1>9. ASSUME NEW l PROVE l \in ToSet(list) <=> l \in ledger /\ Shown(l.event.of, b)
  <2>1. l \in ToSet(list) <=>
           \/ l \in ledger /\ l.event.of \in {b, h, c}
           \/ l \in ledger /\ Visible(d) /\ l.event.of = On[d][1]
           \/ \E p \in P : l \in ledger /\ SoldAs(l.event.of, p)
    <3> HIDE DEF list, ps, P
    <3>1. QED BY <1>4, <1>5, <1>6, <1>8
  <2>2. QED BY <2>1 DEF Shown, h, c, d
<1>10. trace = sortLogsByTimestamp(list)
  <2> HIDE DEF list
  <2>1. QED BY <1>2, <1>8
<1> HIDE DEF list
<1>11. /\ trace \in Seq(Entry) /\ ToSet(trace) = ToSet(list)
       /\ \A i, j \in DOMAIN trace : i < j => trace[i].timestamp <= trace[j].timestamp
  BY <1>8, <1>10, SortedByTimestamp
<1>12. ToSet(trace) = {l \in ledger : Shown(l.event.of, b)}
  BY <1>9, <1>11
<1>13. QED BY <1>11, <1>12

\* The order of the logs is that of their timestamps, and these are in order.
LEMMA KnownInOrder == TraceKnown => TraceInOrder
<1> SUFFICES ASSUME TraceKnown, NEW b \in Batches \cap rows, NEW trace, trace = GetTraceByBatchCode(b),
                    NEW i \in DOMAIN trace, NEW j \in DOMAIN trace,
                    i < j, trace[i] # trace[j], trace[j].event.creates,
                    \/ trace[i].event.of = trace[j].event.of
                    \/ <<trace[i].event.of, trace[j].event.of>> \in Made,
                    trace[j].event.of \notin hasty
             PROVE  FALSE
  BY DEF TraceInOrder
<1>1. TraceTypeOK /\ RowsKnown /\ MarksInOrder
  BY DEF TraceKnown
<1>2. /\ trace \in Seq(Entry)
      /\ ToSet(trace) = {l \in ledger : Shown(l.event.of, b)}
      /\ trace[i].timestamp <= trace[j].timestamp
  BY <1>1, TraceFacts
<1>3. trace[i] \in ledger /\ trace[j] \in ledger
  <2>1. trace[i] \in ToSet(trace) /\ trace[j] \in ToSet(trace)
    BY DEF ToSet
  <2>2. QED BY <1>2, <2>1
<1>4. trace[i] \in Marks /\ trace[j] \in Marks /\ trace[i] \in Entry /\ trace[j] \in Entry
  BY <1>1, <1>3 DEF Marks, TraceTypeOK
<1>5. trace[i].event.of = trace[j].event.of \/ trace[j].event.of \in Above[trace[i].event.of]
  BY DEF Made
<1>6. trace[j].timestamp < trace[i].timestamp
  BY <1>1, <1>4, <1>5 DEF MarksInOrder
<1>7. QED BY <1>2, <1>4, <1>6, EntryType

\* Of the rows upstream of a batch, only what deletions hide is not shown; and so
\* it is downstream.
LEMMA ShownFacts ==
    ASSUME TraceTypeOK, RowsKnown, NEW b \in Batches \cap rows, NEW x \in rows \ Ponds
    PROVE  Shown(x, b) <=> IsKin(x, b) /\ ~Hidden(x, b)
<1> DEFINE h == On[b][1]
           c == On[h][1]
           d == On[c][1]
           f == On[d][1]
<1>1. rows \subseteq Rows /\ deleted \subseteq rows /\ \A y \in rows : ToSet(On[y]) \subseteq rows
  BY DEF TraceTypeOK, RowsKnown
<1>2. Shown(x, b) <=> \/ x \in {b, h, c}
                      \/ Visible(d) /\ x = f
                      \/ \E p \in Products : Visible(p) /\ On[p] = <<b>> /\ SoldAs(x, p)
  BY DEF Shown
<1>0. b \in Batches /\ h = On[b][1] /\ c = On[h][1] /\ d = On[c][1] /\ f = On[d][1]
  OBVIOUS
<1> HIDE DEF h, c, d, f
<1>3. /\ h \in Harvests /\ c \in Cycles /\ d \in Ponds /\ f \in Farms
      /\ Above[b] = {h, c, d, f}
      /\ ToSet(On[b]) = {h} /\ ToSet(On[h]) = {c} /\ ToSet(On[c]) = {d} /\ ToSet(On[d]) = {f}
  <2>1. Upstream(b, h, c, d, f)
    BY <1>0, UpstreamFacts, Zenon
  <2>2. QED BY <2>1 DEF Upstream
<1>4. d \in rows
  <2>1. h \in rows
    BY <1>1, <1>3
  <2>2. c \in rows
    BY <1>1, <1>3, <2>1
  <2>3. QED BY <1>1, <1>3, <2>2
<1>5. /\ <<x, b>> \in Made <=> b \in Above[x]
      /\ \A y \in rows : <<b, y>> \in Made <=> y \in Above[b]
      /\ \A p \in Products : <<p, b>> \in Made <=> On[p] = <<b>>
      /\ \A p \in Products : <<x, p>> \in Made <=> p \in Above[x]
  <2>1. b \in Rows /\ x \in Rows /\ Products \subseteq Rows
    BY <1>1, KindFacts, KindNames
  <2>2. \A y, z \in Rows : <<y, z>> \in Made <=> z \in Above[y]
    BY DEF Made
  <2>3. QED BY <1>1, <2>1, <2>2, ProductOfBatch
<1>6. b \in Above[x] <=> \E p \in Products : On[p] = <<b>> /\ (x = p \/ p \in Above[x])
  BY <1>1, MadeFromBatch
<1>7. \A y : ~(y \in Farms /\ y \in Ponds \cup Cycles \cup Harvests \cup Batches \cup Products)
  <2>1. \A y, k : y \in Kinds[1] /\ k \in 2..6 => y \notin Kinds[k]
    BY KindFacts
  <2>2. QED BY <2>1, KindNames
<1>8. ASSUME NEW y \in {b, h, c, f} PROVE b \notin Above[y]
  <2>1. ASSUME b \in Above[y] PROVE FALSE
    <3>1. PICK k \in 1..5 : y \in Kinds[k]
      BY <1>3, KindNames
    <3>2. PICK m \in 1..(k - 1) : b \in Kinds[m]
      BY <2>1, <3>1, AboveIsEarlier
    <3>3. b \in Kinds[5] /\ m \in 1..8 /\ m # 5
      BY KindNames
    <3>4. QED BY <3>2, <3>3, KindFacts
  <2>2. QED BY <2>1
<1>9. Hidden(x, b) <=>
         \/ x \in Farms /\ \E y \in deleted : y \in Ponds /\ y \in Above[b]
         \/ /\ b \in Above[x]
            /\ \A p \in Products \ deleted : On[p] = <<b>> => ~(x = p \/ p \in Above[x])
  <2>1. \A y \in deleted : <<b, y>> \in Made <=> y \in Above[b]
    BY <1>1, <1>5
  <2>2. QED BY <1>5, <2>1 DEF Hidden
<1>10. IsKin(x, b) <=> x = b \/ b \in Above[x] \/ x \in Above[b]
  BY <1>5 DEF IsKin
<1>11. \A p \in Products : SoldAs(x, p) <=> x = p \/ p \in Above[x]
  BY SoldAsFacts
<1>12. CASE x \in {b, h, c}
  <2>1. x \notin Farms /\ b \notin Above[x]
    BY <1>3, <1>7, <1>8, <1>12
  <2>2. QED BY <1>3, <1>2, <1>9, <1>10, <1>12, <2>1
<1>13. CASE x = f
  <2>1. x \notin {b, h, c} /\ b \notin Above[x]
    BY <1>3, <1>7, <1>8, <1>13
  <2>2. (\E y \in deleted : y \in Ponds /\ y \in Above[b]) <=> d \in deleted
    <3>1. \A y \in Above[b] : y \in Ponds => y = d
      <4>1. \A y, k : y \in Kinds[2] /\ k \in {1, 3, 4} => y \notin Kinds[k]
        BY KindFacts
      <4>2. QED BY <1>3, <4>1, KindNames
    <3>2. QED BY <1>3, <3>1
  <2>3. Hidden(x, b) <=> d \in deleted
    BY <1>3, <1>9, <1>13, <2>1, <2>2
  <2>4. \A p \in Products : On[p] = <<b>> => ~SoldAs(x, p)
    BY <1>6, <1>11, <2>1
  <2>5. QED BY <1>3, <1>2, <1>4, <1>10, <1>13, <2>1, <2>3, <2>4 DEF Visible
<1>14. CASE x \notin {b, h, c, f}
  <2>1. x # d
    BY <1>3
  <2>2. IsKin(x, b) <=> b \in Above[x]
    BY <1>3, <1>10, <1>14, <2>1
  <2>3. ASSUME b \in Above[x] PROVE x \notin Farms
    <3>1. ASSUME x \in Kinds[1] PROVE FALSE
      <4>1. PICK m \in 1..(1 - 1) : b \in Kinds[m]
        BY <2>3, <3>1, AboveIsEarlier
      <4>2. QED BY <4>1
    <3>2. QED BY <3>1, KindNames
  <2>4. ASSUME NEW p \in Products, x = p \/ p \in Above[x] PROVE p \in rows
    <3>1. \A y \in rows : \A z \in Above[y] : z \in rows
      BY <1>1, AboveReferred
    <3>2. QED BY <2>4, <3>1
  <2>5. Shown(x, b) <=>
           \E p \in Products : p \notin deleted /\ On[p] = <<b>> /\ (x = p \/ p \in Above[x])
    BY <1>2, <1>11, <1>14, <2>4 DEF Visible
  <2>6. QED BY <1>6, <1>9, <2>2, <2>3, <2>5
<1>15. QED BY <1>12, <1>13, <1>14

\* A trace tells all of its kin that is not hidden, and what it tells is true.
LEMMA KnownComplete == TraceKnown => TraceComplete
<1> SUFFICES ASSUME TraceKnown PROVE TraceComplete
  OBVIOUS
<1>1. TraceTypeOK /\ RowsKnown /\ AllRecorded
  BY DEF TraceKnown
<1>2. ASSUME NEW b \in Batches \cap rows, NEW trace, trace = GetTraceByBatchCode(b)
      PROVE  ToSet(trace) = {l \in ledger : IsKin(l.event.of, b) /\ ~Hidden(l.event.of, b)}
  <2>1. ToSet(trace) = {l \in ledger : Shown(l.event.of, b)}
    BY <1>1, <1>2, TraceFacts
  <2>2. \A l \in ledger : l.event.of \in rows \ Ponds
    BY <1>1 DEF RowsKnown, Events
  <2>3. \A l \in ledger :
           Shown(l.event.of, b) <=> IsKin(l.event.of, b) /\ ~Hidden(l.event.of, b)
    BY <1>1, <2>2, ShownFacts
  <2>4. QED BY <2>1, <2>3
<1>3. QED BY <1>1, <1>2 DEF TraceComplete, AllRecorded, Creation

\* Whatever the handlers do and in whatever order they record it, a trace tells
\* the creation of a row first, unless the row was used before that was recorded.
THEOREM TracesInOrder == TraceSpec => []TraceInv
<1>1. TraceKnown => TraceInv
  BY KnownInOrder DEF TraceKnown, TraceInv
<1>2. QED BY <1>1, TraceKnownAlways, PTL

\* Whatever was created is recorded or dropped, and a trace has the logs of all
\* that a batch was made from or into, of no other row, and none hidden.
THEOREM TracesComplete == TraceSpec => []TraceComplete
BY KnownComplete, TraceKnownAlways, PTL
=============================================================================
