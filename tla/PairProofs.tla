------------------------------ MODULE PairProofs ------------------------------
(***************************************************************************)
(* An event and the observation behind it stay together in the Collector's *)
(* Outbox, for any sessions, records, batch sizes and faults: ingest       *)
(* spools them side by side, EnforceSpoolPolicy discards both or neither   *)
(* although it chooses its rows before it discards them, and an ACK that   *)
(* separates them tells of an event the Primary has.                       *)
(***************************************************************************)
EXTENDS ReplicationProofs

------------------------------------------------------------------------------
(* The inductive invariant.                                                 *)

Proper(f) ==
  /\ f.kind = "event" => f = EventOf(f)
  /\ f.kind = "observation" => f = ObservationOf(f)

FactsAreProper == \A r \in outbox : Proper(r.fact)

\* The row before an observation is its event, until the Primary has that event.
Follows(o) ==
  \/ EventOf(o.fact) \in replicated
  \/ \E e \in outbox : e.id + 1 = o.id /\ e.fact = EventOf(o.fact)

ObservationsFollow == \A o \in outbox : o.fact.kind = "observation" => Follows(o)

\* While Ingest takes an event for a duplicate, its observation is one as well.
StoredInPairs ==
  \A f \in stored : f.kind = "event" => f \in replicated \/ ObservationOf(f) \in stored

\* EnforceSpoolPolicy has read the observation together with its event.
SelectedInPairs ==
  \A e \in selected, o \in outbox :
     o.fact.kind = "observation" /\ e.id + 1 = o.id /\ e.fact = EventOf(o.fact) =>
        EventOf(o.fact) \in replicated \/ o \in selected

SelectedIsPrefix == \A s \in selected, r \in outbox : r.id < s.id => r \in selected

\* What it has read and an ACK released since had its event at the Primary.
ReleasedArePaired ==
  \A s \in selected : s \notin outbox /\ s.fact.kind = "observation" => EventOf(s.fact) \in replicated

PairInv ==
  /\ FactsAreProper /\ ObservationsFollow /\ StoredInPairs
  /\ SelectedInPairs /\ SelectedIsPrefix /\ ReleasedArePaired

------------------------------------------------------------------------------
(* A batch spools an event and its observation side by side.                *)

\* Halves: places 2i and 2i+1 belong to record i.
LEMMA Halves ==
  \A i \in Int : /\ (2 * i) % 2 = 0 /\ (2 * i) \div 2 = i
                 /\ (2 * i + 1) % 2 = 1 /\ (2 * i + 1) \div 2 = i
OBVIOUS

\* PlaceKinds: at the places of a record are the record, never an observation,
\* and, if it is an event, the observation of that event.
LEMMA PlaceKinds ==
  ASSUME CollectorAssumption, NEW batch \in Batches
  PROVE  /\ DOMAIN batch \subseteq Int
         /\ \A i \in DOMAIN batch :
              /\ 2 * i \in Places(batch)
              /\ FactAt(batch, 2 * i) = batch[i]
              /\ batch[i].kind \in {"event", "gap"} /\ Proper(batch[i])
              /\ FactAt(batch, 2 * i + 1) = ObservationOf(batch[i])
              /\ batch[i].kind = "event" => /\ 2 * i + 1 \in Places(batch)
                                            /\ EventOf(ObservationOf(batch[i])) = batch[i]
         /\ \A p \in Places(batch) : \E i \in DOMAIN batch :
              p = 2 * i \/ (p = 2 * i + 1 /\ batch[i].kind = "event")
<1>1. PICK k \in 1 .. BatchRecords : batch \in [1 .. k -> AgentRecords]
  BY DEF Batches
<1>2. /\ DOMAIN batch \subseteq Int
      /\ \A i \in DOMAIN batch : batch[i] \in Record
  BY <1>1 DEF CollectorAssumption
<1>3. \A i \in DOMAIN batch : /\ FactAt(batch, 2 * i) = batch[i]
                              /\ FactAt(batch, 2 * i + 1) = ObservationOf(batch[i])
  <2> SUFFICES ASSUME NEW i \in DOMAIN batch
               PROVE  /\ FactAt(batch, 2 * i) = batch[i]
                      /\ FactAt(batch, 2 * i + 1) = ObservationOf(batch[i])
    OBVIOUS
  <2>1. /\ (2 * i) % 2 = 0 /\ (2 * i) \div 2 = i
        /\ (2 * i + 1) % 2 = 1 /\ (2 * i + 1) \div 2 = i
    BY <1>2, Halves
  <2>2. FactAt(batch, 2 * i) = batch[i]
    BY <2>1 DEF FactAt
  <2>3. FactAt(batch, 2 * i + 1) = ObservationOf(batch[i])
    BY <2>1 DEF FactAt
  <2> QED  BY <2>2, <2>3
<1>4. \A f \in Record : /\ f.kind \in {"event", "gap"} /\ Proper(f)
                        /\ f.kind = "event" => EventOf(ObservationOf(f)) = f
  <2> SUFFICES ASSUME NEW f \in Record
               PROVE  /\ f.kind \in {"event", "gap"} /\ Proper(f)
                      /\ f.kind = "event" => EventOf(ObservationOf(f)) = f
    OBVIOUS
  <2>1. /\ f \in Fact /\ f.gid = 0 /\ f.kind \in {"event", "gap"}
        /\ f.kind = "event" => f.end = f.start
    BY DEF Record
  <2>2. f.kind = "event" => f = Event(f.session, f.start)
    BY <2>1 DEF Fact, Event
  <2>3. ObservationOf(f).session = f.session /\ ObservationOf(f).start = f.start
    BY DEF ObservationOf, Observation
  <2> QED  BY <2>1, <2>2, <2>3 DEF Proper, EventOf
<1>5. \A i \in DOMAIN batch : 2 * i \in Places(batch) /\ (batch[i].kind = "event" => 2 * i + 1 \in Places(batch))
  BY DEF Places
<1>6. \A p \in Places(batch) : \E i \in DOMAIN batch : p = 2 * i \/ (p = 2 * i + 1 /\ batch[i].kind = "event")
  BY DEF Places
<1> QED  BY <1>2, <1>3, <1>4, <1>5, <1>6

\* NextSpoolIdIsOnePlaceOn: neighbouring places get neighbouring spool ids.
LEMMA NextSpoolIdIsOnePlaceOn ==
  ASSUME NEW P \in SUBSET Int, IsFiniteSet(P), nextSpoolId \in Sequence, NEW p \in P, p + 1 \in P
  PROVE  SpoolId(P, p + 1) = SpoolId(P, p) + 1
<1> DEFINE below == {q \in P : q < p}
<1>1. IsFiniteSet(below) /\ Cardinality(below) \in Nat
  BY FS_Subset, FS_CardinalityType
<1>2. {q \in P : q < p + 1} = below \cup {p}
  <2>1. \A q \in P : q < p + 1 <=> q < p \/ q = p
    <3> TAKE q \in P
    <3>1. q \in Int /\ p \in Int
      OBVIOUS
    <3> QED  BY <3>1
  <2> QED  BY <2>1
<1>3. p \notin below
  OBVIOUS
<1>4. Cardinality(below \cup {p}) = Cardinality(below) + 1
  BY <1>1, <1>3, FS_AddElement
<1> QED  BY <1>1, <1>2, <1>4 DEF SpoolId, Sequence

\* ObservationBehindEvent: a new observation is at the place behind its event,
\* which is new too unless the Primary has it.
LEMMA ObservationBehindEvent ==
  ASSUME CollectorAssumption, StoredInPairs, NEW batch \in Batches,
         NEW p \in NewPlaces(batch), FactAt(batch, p).kind = "observation",
         EventOf(FactAt(batch, p)) \notin replicated
  PROVE  /\ p - 1 \in NewPlaces(batch)
         /\ FactAt(batch, p - 1) = EventOf(FactAt(batch, p))
<1>1. p \in Places(batch) /\ FactAt(batch, p) \notin stored
  BY DEF NewPlaces
<1>2. PICK i \in DOMAIN batch : p = 2 * i \/ (p = 2 * i + 1 /\ batch[i].kind = "event")
  BY <1>1, PlaceKinds
<1>3. i \in Int /\ p = 2 * i + 1 /\ batch[i].kind = "event"
  BY <1>2, PlaceKinds
<1>4. /\ FactAt(batch, p) = ObservationOf(batch[i]) /\ EventOf(FactAt(batch, p)) = batch[i]
      /\ p - 1 = 2 * i /\ 2 * i \in Places(batch) /\ FactAt(batch, 2 * i) = batch[i]
  BY <1>3, PlaceKinds
<1>5. batch[i] \notin stored
  BY <1>1, <1>3, <1>4 DEF StoredInPairs
<1>6. ASSUME NEW q \in Places(batch), q < 2 * i, FactAt(batch, q) = batch[i]
      PROVE  FALSE
  <2>1. PICK j \in DOMAIN batch : q = 2 * j \/ (q = 2 * j + 1 /\ batch[j].kind = "event")
    BY PlaceKinds
  <2>2. j \in Int /\ q = 2 * j /\ batch[j] = batch[i]
    <3>1. ObservationOf(batch[j]).kind = "observation"
      BY DEF ObservationOf, Observation
    <3> QED  BY <1>3, <1>6, <2>1, <3>1, PlaceKinds
  <2>3. 2 * j + 1 \in Places(batch) /\ FactAt(batch, 2 * j + 1) = FactAt(batch, p)
    BY <1>3, <1>4, <2>2, PlaceKinds
  <2>4. 2 * j + 1 < p
    BY <1>3, <1>6, <2>2
  <2> QED  BY <2>3, <2>4 DEF NewPlaces
<1> QED  BY <1>4, <1>5, <1>6 DEF NewPlaces

\* EventBeforeObservation: behind a new event is its observation, new or stored.
LEMMA EventBeforeObservation ==
  ASSUME CollectorAssumption, NEW batch \in Batches,
         NEW p \in NewPlaces(batch), FactAt(batch, p).kind = "event"
  PROVE  \/ ObservationOf(FactAt(batch, p)) \in stored
         \/ p + 1 \in NewPlaces(batch) /\ FactAt(batch, p + 1) = ObservationOf(FactAt(batch, p))
<1>1. p \in Places(batch)
  BY DEF NewPlaces
<1>2. PICK i \in DOMAIN batch : p = 2 * i \/ (p = 2 * i + 1 /\ batch[i].kind = "event")
  BY <1>1, PlaceKinds
<1>3. i \in Int /\ p = 2 * i /\ batch[i].kind = "event" /\ FactAt(batch, p) = batch[i]
  <2>1. ObservationOf(batch[i]).kind = "observation"
    BY DEF ObservationOf, Observation
  <2> QED  BY <1>2, <2>1, PlaceKinds
<1>4. /\ p + 1 \in Places(batch) /\ FactAt(batch, p + 1) = ObservationOf(batch[i])
      /\ EventOf(FactAt(batch, p + 1)) = batch[i]
  BY <1>3, PlaceKinds
<1>5. ASSUME NEW q \in Places(batch), q < p + 1, FactAt(batch, q) = FactAt(batch, p + 1)
      PROVE  FALSE
  <2>1. PICK j \in DOMAIN batch : q = 2 * j \/ (q = 2 * j + 1 /\ batch[j].kind = "event")
    BY PlaceKinds
  <2>2. FactAt(batch, q).kind = "observation"
    BY <1>4, <1>5 DEF ObservationOf, Observation
  <2>3. j \in Int /\ q = 2 * j + 1 /\ batch[j].kind = "event"
    BY <2>1, <2>2, PlaceKinds
  <2>4. batch[j] = batch[i]
    BY <1>4, <1>5, <2>3, PlaceKinds
  <2>5. 2 * j \in Places(batch) /\ 2 * j < p /\ FactAt(batch, 2 * j) = FactAt(batch, p)
    BY <1>3, <1>5, <2>3, <2>4, PlaceKinds
  <2> QED  BY <2>5 DEF NewPlaces
<1> QED  BY <1>3, <1>4, <1>5 DEF NewPlaces

------------------------------------------------------------------------------
(* What each step does to the pairs.                                        *)

\* EventKind: the event of an observation is an event, and of itself.
LEMMA EventKind ==
  \A f : /\ EventOf(f).kind = "event" /\ Accounts(EventOf(f))
         /\ ObservationOf(f).kind = "observation" /\ Proper(ObservationOf(f))
         /\ EventOf(ObservationOf(f)) = EventOf(f)
         /\ ObservationOf(EventOf(f)) = ObservationOf(f)
BY DEF EventOf, Event, ObservationOf, Observation, Accounts, Proper

\* AddedRows: rows at fresh spool ids, each new observation behind its event
\* or of an event the Primary has, leave the pairs as they are.
LEMMA AddedRows ==
  ASSUME StoreTypeOK, SelectedIds, PairInv, UNCHANGED <<replicated, selected>>,
         NEW new, outbox' = outbox \cup new,
         \A r \in new : r.id \in Nat /\ nextSpoolId <= r.id /\ Proper(r.fact),
         \A o \in new : o.fact.kind = "observation" =>
            \/ EventOf(o.fact) \in replicated
            \/ \E e \in new : e.id + 1 = o.id /\ e.fact = EventOf(o.fact)
  PROVE  /\ FactsAreProper' /\ ObservationsFollow' /\ SelectedInPairs'
         /\ SelectedIsPrefix' /\ ReleasedArePaired'
<1>1. /\ nextSpoolId \in Nat
      /\ \A s \in selected : s.id \in Nat /\ s.id < nextSpoolId
      /\ \A r \in outbox : r.id \in Nat
  BY DEF StoreTypeOK, SelectedIds, Row, Sequence
<1>2. FactsAreProper'
  BY DEF PairInv, FactsAreProper
<1>3. ObservationsFollow'
  <2> SUFFICES ASSUME NEW o \in outbox', o.fact.kind = "observation"
               PROVE  Follows(o)'
    BY DEF ObservationsFollow
  <2>1. CASE o \in outbox
    BY <2>1 DEF PairInv, ObservationsFollow, Follows
  <2>2. CASE o \in new
    BY <2>2 DEF Follows
  <2> QED  BY <2>1, <2>2
<1>4. SelectedInPairs'
  <2> SUFFICES ASSUME NEW e \in selected, NEW o \in outbox', o.fact.kind = "observation",
                      e.id + 1 = o.id, e.fact = EventOf(o.fact)
               PROVE  EventOf(o.fact) \in replicated \/ o \in selected
    BY DEF SelectedInPairs
  <2>1. CASE o \in outbox
    BY <2>1 DEF PairInv, SelectedInPairs
  <2>2. CASE o \in new
    <3> SUFFICES ASSUME NEW f \in new, f.id + 1 = o.id PROVE FALSE
      BY <2>2
    <3> QED  BY <1>1
  <2> QED  BY <2>1, <2>2
<1>5. SelectedIsPrefix'
  BY <1>1 DEF PairInv, SelectedIsPrefix
<1>6. ReleasedArePaired'
  BY DEF PairInv, ReleasedArePaired
<1> QED  BY <1>2, <1>3, <1>4, <1>5, <1>6

\* IngestPairs: a batch adds events and observations in pairs.
LEMMA IngestPairs ==
  ASSUME CollectorAssumption, StoreTypeOK, SelectedIds, PairInv, NEW batch \in Batches, Ingest(batch),
         UNCHANGED replicated
  PROVE  PairInv'
<1> DEFINE P == NewPlaces(batch)
           new == {[id |-> SpoolId(P, p), fact |-> FactAt(batch, p)] : p \in P}
<1>1. /\ stored' = stored \cup {FactAt(batch, p) : p \in P} /\ outbox' = outbox \cup new
      /\ UNCHANGED selected
  BY DEF Ingest
<1>2. /\ P \in SUBSET Int /\ IsFiniteSet(P) /\ new \subseteq Row
      /\ \A r \in new : nextSpoolId <= r.id
  BY IngestRows
<1>3. \A p \in P : p \in Places(batch) /\ Proper(FactAt(batch, p))
  <2> SUFFICES ASSUME NEW p \in P PROVE p \in Places(batch) /\ Proper(FactAt(batch, p))
    OBVIOUS
  <2>1. p \in Places(batch)
    BY DEF NewPlaces
  <2>2. PICK i \in DOMAIN batch : p = 2 * i \/ p = 2 * i + 1
    BY <2>1, PlaceKinds
  <2>3. FactAt(batch, p) = batch[i] \/ FactAt(batch, p) = ObservationOf(batch[i])
    BY <2>2, PlaceKinds
  <2> QED  BY <2>1, <2>3, PlaceKinds, EventKind
<1>4. ASSUME NEW o \in new, o.fact.kind = "observation", EventOf(o.fact) \notin replicated
      PROVE  \E e \in new : e.id + 1 = o.id /\ e.fact = EventOf(o.fact)
  <2>1. PICK p \in P : o = [id |-> SpoolId(P, p), fact |-> FactAt(batch, p)]
    OBVIOUS
  <2>2. p - 1 \in P /\ FactAt(batch, p - 1) = EventOf(FactAt(batch, p))
    BY <1>4, <2>1, ObservationBehindEvent DEF PairInv
  <2>3. p \in Int /\ (p - 1) + 1 = p
    BY <1>2
  <2>4. SpoolId(P, (p - 1) + 1) = SpoolId(P, p - 1) + 1
    BY <1>2, <2>2, <2>3, NextSpoolIdIsOnePlaceOn DEF StoreTypeOK
  <2> DEFINE e == [id |-> SpoolId(P, p - 1), fact |-> FactAt(batch, p - 1)]
  <2>5. e \in new
    BY <2>2
  <2>6. e.id + 1 = o.id /\ e.fact = EventOf(o.fact)
    BY <2>1, <2>2, <2>3, <2>4
  <2> QED  BY <2>5, <2>6
<1>5. \A r \in new : r.id \in Nat /\ nextSpoolId <= r.id /\ Proper(r.fact)
  <2>1. \A r \in new : Proper(r.fact)
    BY <1>3
  <2>2. \A r \in Row : r.id \in Nat
    BY DEF Row, Sequence
  <2> QED  BY <1>2, <2>1, <2>2
<1>6. StoredInPairs'
  <2> SUFFICES ASSUME NEW f \in stored', f.kind = "event", f \notin replicated
               PROVE  ObservationOf(f) \in stored'
    BY DEF StoredInPairs
  <2>1. CASE f \in stored
    BY <1>1, <2>1 DEF PairInv, StoredInPairs
  <2>2. CASE f \notin stored
    <3>1. PICK p \in P : f = FactAt(batch, p)
      BY <1>1, <2>2
    <3>2. \/ ObservationOf(f) \in stored
          \/ p + 1 \in P /\ FactAt(batch, p + 1) = ObservationOf(f)
      BY <3>1, EventBeforeObservation
    <3> QED  BY <1>1, <3>2
  <2> QED  BY <2>1, <2>2
<1> HIDE DEF new
<1>7. /\ FactsAreProper' /\ ObservationsFollow' /\ SelectedInPairs'
      /\ SelectedIsPrefix' /\ ReleasedArePaired'
  BY <1>1, <1>4, <1>5, AddedRows
<1> QED  BY <1>6, <1>7 DEF PairInv

\* HealthPairs: a health sample is neither an event nor an observation.
LEMMA HealthPairs ==
  ASSUME StoreTypeOK, SelectedIds, PairInv, RecordHealth, UNCHANGED replicated
  PROVE  PairInv'
<1> DEFINE row == [id |-> nextSpoolId, fact |-> Health(nextSpoolId)]
<1>1. stored' = stored \cup {row.fact} /\ outbox' = outbox \cup {row} /\ UNCHANGED selected
  BY DEF RecordHealth
<1>2. row.id = nextSpoolId /\ row.fact.kind = "health" /\ nextSpoolId \in Nat
  BY DEF Health, StoreTypeOK, Sequence
<1> HIDE DEF row
<1>3. Proper(row.fact)
  BY <1>2 DEF Proper
<1>4. /\ FactsAreProper' /\ ObservationsFollow' /\ SelectedInPairs'
      /\ SelectedIsPrefix' /\ ReleasedArePaired'
  <2> DEFINE new == {row}
  <2>1. \A r \in new : r.id \in Nat /\ nextSpoolId <= r.id /\ Proper(r.fact)
    BY <1>2, <1>3
  <2>2. \A r \in new : r.fact.kind # "observation"
    BY <1>2
  <2>3. outbox' = outbox \cup new /\ UNCHANGED selected
    BY <1>1
  <2> HIDE DEF new
  <2> QED  BY <2>1, <2>2, <2>3, AddedRows
<1>5. StoredInPairs'
  BY <1>1, <1>2 DEF PairInv, StoredInPairs
<1> QED  BY <1>4, <1>5 DEF PairInv

\* StoredAreProper: a local fact has a row.
LEMMA StoredAreProper ==
  ASSUME StoredHasRow, FactsAreProper
  PROVE  \A f \in stored : Proper(f)
BY DEF StoredHasRow, FactsAreProper, FactsOf

\* AckPairs: an ACK separates a pair only when the Primary has the event.
LEMMA AckPairs ==
  ASSUME StoreTypeOK, StoredHasRow, PairInv, NEW c, c.through \in Nat, AnswerHolds(c),
         CommitReplicationAck(c.through), UNCHANGED replicated
  PROVE  PairInv'
<1> USE DEF PairInv
<1> DEFINE released == {r \in outbox : r.id <= c.through}
<1>1. stored' = stored \ FactsOf(released) /\ outbox' = outbox \ released /\ UNCHANGED selected
  BY DEF CommitReplicationAck
<1>2. \A r \in outbox : r.id \in Nat
  BY DEF StoreTypeOK, Row, Sequence
<1>3. \A r \in released : Accounts(r.fact) => r.fact \in replicated
  BY DEF AnswerHolds, Accounts
<1>4. ASSUME NEW o \in released, o.fact.kind = "observation"
      PROVE  EventOf(o.fact) \in replicated
  <2> SUFFICES ASSUME NEW e \in outbox, e.id + 1 = o.id, e.fact = EventOf(o.fact)
               PROVE  EventOf(o.fact) \in replicated
    BY <1>4 DEF ObservationsFollow, Follows
  <2>1. e \in released
    BY <1>2
  <2> QED  BY <1>3, <2>1, EventKind
<1>5. FactsAreProper' /\ SelectedInPairs' /\ SelectedIsPrefix'
  BY <1>1 DEF FactsAreProper, SelectedInPairs, SelectedIsPrefix
<1>6. ObservationsFollow'
  <2> SUFFICES ASSUME NEW o \in outbox, o.fact.kind = "observation"
               PROVE  Follows(o)'
    BY <1>1 DEF ObservationsFollow
  <2>1. CASE EventOf(o.fact) \in replicated
    BY <2>1 DEF Follows
  <2>2. CASE EventOf(o.fact) \notin replicated
    <3>1. PICK e \in outbox : e.id + 1 = o.id /\ e.fact = EventOf(o.fact)
      BY <2>2 DEF ObservationsFollow, Follows
    <3>2. e \notin released
      BY <1>3, <2>2, <3>1, EventKind
    <3> QED  BY <1>1, <3>1, <3>2 DEF Follows
  <2> QED  BY <2>1, <2>2
<1>7. StoredInPairs'
  <2> SUFFICES ASSUME NEW f \in stored, f.kind = "event", ObservationOf(f) \in FactsOf(released)
               PROVE  f \in replicated
    BY <1>1 DEF StoredInPairs, FactsOf
  <2>1. PICK o \in released : o.fact = ObservationOf(f)
    BY DEF FactsOf
  <2>2. EventOf(f) \in replicated
    BY <1>4, <2>1, EventKind
  <2> QED  BY <2>2, StoredAreProper DEF Proper
<1>8. ReleasedArePaired'
  BY <1>1, <1>4 DEF ReleasedArePaired
<1> QED  BY <1>5, <1>6, <1>7, <1>8

\* ReadPairs: EnforceSpoolPolicy reads a prefix that ends with a whole pair.
LEMMA ReadPairs ==
  ASSUME StoreTypeOK, PairInv, ReadSpool, UNCHANGED replicated
  PROVE  PairInv'
<1> USE DEF PairInv
<1>1. PICK last \in outbox : selected' = PrefixThrough(last.id) \cup PairTail(last.id)
  BY DEF ReadSpool
<1>2. UNCHANGED <<stored, outbox>>
  BY DEF ReadSpool
<1>3. \A r \in outbox : r.id \in Nat
  BY DEF StoreTypeOK, Row, Sequence
<1>4. /\ \A r \in outbox : r.id <= last.id => r \in selected'
      /\ \A s \in selected' : s \in outbox /\ (s.id <= last.id \/ s \in PairTail(last.id))
  BY <1>1 DEF PrefixThrough, PairTail, NextRow
<1>5. \A s \in PairTail(last.id) : s.fact.kind = "observation" /\ \A r \in outbox : r.id > last.id => s.id <= r.id
  BY DEF PairTail, NextRow
<1>6. FactsAreProper' /\ ObservationsFollow' /\ StoredInPairs' /\ ReleasedArePaired'
  BY <1>2, <1>4 DEF FactsAreProper, ObservationsFollow, Follows, StoredInPairs, ReleasedArePaired
<1>7. SelectedInPairs'
  <2> SUFFICES ASSUME NEW e \in selected', NEW o \in outbox, o.fact.kind = "observation",
                      e.id + 1 = o.id, e.fact = EventOf(o.fact), o.id > last.id
               PROVE  o \in selected'
    BY <1>2, <1>3, <1>4 DEF SelectedInPairs
  <2>1. e \in outbox /\ e.fact.kind = "event"
    BY <1>4, EventKind
  <2>2. e.id <= last.id
    BY <1>4, <1>5, <2>1
  <2>3. e.id = last.id /\ \A r \in outbox : r.id > last.id => o.id <= r.id
    BY <1>3, <2>1, <2>2
  <2>4. o \in PairTail(last.id)
    BY <2>1, <2>3 DEF PairTail, NextRow
  <2> QED  BY <1>1, <2>4
<1>8. SelectedIsPrefix'
  <2> SUFFICES ASSUME NEW s \in selected', NEW r \in outbox, r.id < s.id, r.id > last.id
               PROVE  FALSE
    BY <1>2, <1>3, <1>4 DEF SelectedIsPrefix
  <2> QED  BY <1>3, <1>4, <1>5
<1> QED  BY <1>6, <1>7, <1>8

\* DiscardPairs: what EnforceSpoolPolicy discards, later than it has read it,
\* leaves no observation behind whose event nobody has.
LEMMA DiscardPairs ==
  ASSUME StoreTypeOK, SelectedIds, StoredHasRow, PairInv, DiscardSelected, UNCHANGED replicated
  PROVE  PairInv'
<1> USE DEF PairInv
<1> DEFINE last == nextSpoolId + Cardinality(LossIds)
           loss == {LossGap(r) : r \in Lossy}
           kept == {r \in outbox : r.id \notin {q.id : q \in selected}}
           note == [id |-> last, fact |-> DataLoss(last)]
<1>1. /\ stored' = ((stored \cup loss) \ FactsOf(selected)) \cup {DataLoss(last)}
      /\ outbox' = kept \cup LossNew \cup {note}
      /\ selected' = {}
  BY DEF DiscardSelected, LossIds, LossNew
<1>2. \A f \in loss \cup {DataLoss(last)} : f.kind # "event" /\ f.kind # "observation"
  BY DEF LossGap, Gap, DataLoss
<1>3. \A r \in LossNew \cup {note} : r.fact \in loss \cup {DataLoss(last)}
  <2>1. FactsOf(LossNew) = loss
    BY LossRows
  <2> QED  BY <2>1 DEF FactsOf
<1>4. \A r \in outbox : r \in kept <=> r \notin selected
  BY DEF SelectedIds
<1>5. kept \subseteq outbox
  OBVIOUS
<1> HIDE DEF kept, note, loss, last
<1>6. FactsAreProper'
  BY <1>1, <1>2, <1>3, <1>5 DEF FactsAreProper, Proper
<1>7. ObservationsFollow'
  <2> SUFFICES ASSUME NEW o \in kept, o.fact.kind = "observation", EventOf(o.fact) \notin replicated
               PROVE  \E e \in kept : e.id + 1 = o.id /\ e.fact = EventOf(o.fact)
    BY <1>1, <1>2, <1>3 DEF ObservationsFollow, Follows
  <2>1. PICK e \in outbox : e.id + 1 = o.id /\ e.fact = EventOf(o.fact)
    BY <1>5 DEF ObservationsFollow, Follows
  <2>2. e \notin selected
    BY <1>4, <1>5, <2>1 DEF SelectedInPairs
  <2> QED  BY <1>4, <2>1, <2>2
<1>8. StoredInPairs'
  <2> SUFFICES ASSUME NEW f \in stored, f.kind = "event", f \notin FactsOf(selected), f \notin replicated
               PROVE  ObservationOf(f) \in stored'
    BY <1>1, <1>2 DEF StoredInPairs
  <2>1. ObservationOf(f) \in stored
    BY DEF StoredInPairs
  <2>2. ASSUME NEW s \in selected, s.fact = ObservationOf(f)
        PROVE  FALSE
    <3>1. f = EventOf(s.fact) /\ s.fact.kind = "observation"
      BY <2>2, EventKind, StoredAreProper DEF Proper
    <3>2. s \in outbox
      BY <3>1 DEF ReleasedArePaired
    <3>3. PICK e \in outbox : e.id + 1 = s.id /\ e.fact = f
      BY <3>1, <3>2 DEF ObservationsFollow, Follows
    <3>4. e \in selected
      BY <3>2, <3>3 DEF SelectedIsPrefix, StoreTypeOK, Row, Sequence
    <3> QED  BY <3>3, <3>4 DEF FactsOf
  <2> QED  BY <1>1, <2>1, <2>2 DEF FactsOf
<1>9. SelectedInPairs' /\ SelectedIsPrefix' /\ ReleasedArePaired'
  BY <1>1 DEF SelectedInPairs, SelectedIsPrefix, ReleasedArePaired
<1> QED  BY <1>6, <1>7, <1>8, <1>9

\* OtherPairs: the Primary only learns, and a restart forgets what was selected.
LEMMA OtherPairs ==
  ASSUME PairInv, replicated \subseteq replicated', UNCHANGED <<stored, outbox>>,
         selected' = selected \/ selected' = {}
  PROVE  PairInv'
<1> USE DEF PairInv
<1>1. FactsAreProper' /\ StoredInPairs'
  BY DEF FactsAreProper, StoredInPairs
<1>2. ObservationsFollow'
  BY DEF ObservationsFollow, Follows
<1>3. SelectedInPairs' /\ SelectedIsPrefix' /\ ReleasedArePaired'
  BY DEF SelectedInPairs, SelectedIsPrefix, ReleasedArePaired
<1> QED  BY <1>1, <1>2, <1>3

------------------------------------------------------------------------------
(* The theorem.                                                             *)

\* StepKeepsPairs: every step of the pipeline keeps the pairs.
LEMMA StepKeepsPairs ==
  ASSUME CollectorAssumption, IInv, PairInv, [Next]_vars
  PROVE  PairInv'
<1> USE DEF IInv, TypeOK
<1>1. CASE AgentSends
  BY <1>1, IngestPairs DEF AgentSends, primaryVars
<1>2. CASE SampleHealth
  BY <1>2, HealthPairs DEF SampleHealth, primaryVars
<1>3. CASE BeginEnforce
  BY <1>3, ReadPairs DEF BeginEnforce, primaryVars
<1>4. CASE FinishEnforce
  BY <1>4, DiscardPairs DEF FinishEnforce, primaryVars
<1>5. CASE ReceiveAck
  <2>1. PICK a \in ack : CommitReplicationAck(a.through)
    BY <1>5 DEF ReceiveAck
  <2>2. AnswerHolds(a) /\ a.through \in Nat
    BY DEF AnswersHold, StreamTypeOK, Ack
  <2>3. UNCHANGED replicated
    BY <1>5 DEF ReceiveAck, primaryVars
  <2> QED  BY <2>1, <2>2, <2>3, AckPairs
<1>6. CASE CollectorRestarts \/ SendBatch \/ StreamBreaks \/ PrimaryNext \/ UNCHANGED vars
  <2>1. UNCHANGED <<stored, outbox>> /\ (selected' = selected \/ selected' = {})
    BY <1>6 DEF CollectorRestarts, SendBatch, StreamBreaks, PrimaryNext, PrimaryHandles,
       PrimaryFailsToApply, PrimaryRejects, PrimaryHandlesStale, StaleCancelled, vars, storeVars
  <2>2. replicated \subseteq replicated'
    BY StepAdvances
  <2> QED  BY <2>1, <2>2, OtherPairs
<1> QED  BY <1>1, <1>2, <1>3, <1>4, <1>5, <1>6 DEF Next, CollectorNext

\* PairsHold: the pairs of an event and its observation, at every moment.
THEOREM PairsHold == Spec => []PairInv
<1>1. Init => PairInv
  BY DEF Init, StoreInit, PairInv, FactsAreProper, ObservationsFollow, StoredInPairs, SelectedInPairs,
     SelectedIsPrefix, ReleasedArePaired
<1>2. IInv /\ PairInv /\ [Next]_vars => PairInv'
  BY StepKeepsPairs, CollectorAssumption
<1> QED  BY <1>1, <1>2, InvariantHolds, PTL DEF Spec

\* ObservationsArePaired: however a discard that was chosen earlier interleaves
\* with ingest and with ACKs, an observation in the Outbox is of an event that
\* the Primary has or that is spooled before it.
THEOREM ObservationsArePaired == Spec => []ObservationHasEvent
<1>1. IInv /\ PairInv => ObservationHasEvent
  <2> SUFFICES ASSUME IInv, PairInv, NEW o \in outbox, o.fact.kind = "observation",
                      EventOf(o.fact) \notin replicated
               PROVE  \E e \in outbox : e.id < o.id /\ e.fact = EventOf(o.fact)
    BY DEF ObservationHasEvent
  <2>1. PICK e \in outbox : e.id + 1 = o.id /\ e.fact = EventOf(o.fact)
    BY DEF PairInv, ObservationsFollow, Follows
  <2>2. e.id \in Nat
    BY DEF IInv, TypeOK, StoreTypeOK, Row, Sequence
  <2> QED  BY <2>1, <2>2
<1> QED  BY <1>1, InvariantHolds, PairsHold, PTL

------------------------------------------------------------------------------
(* The evidence of an observation is recorded before an ACK releases it.    *)

EvidenceHolds(c) ==
  \A o \in outbox : o.id <= c.through /\ o.fact.kind = "observation" /\ Persistent(o.fact) => o.fact \in replicated

\* An answer, sent or on record, covers only evidence the Primary has.
EvidenceRecorded == \A c \in ack \cup receipts : EvidenceHolds(c)

\* ReplicateRecords: the transaction of a batch finds the event of each of its
\* observations of a persisted event, in the batch or in the table.
LEMMA ReplicateRecords ==
  ASSUME IInv, PairInv, EvidenceRecorded, NEW b \in request \cup stale, NEW committed, Replicate(b, committed),
         UNCHANGED outbox
  PROVE  /\ \A c \in receipts' : EvidenceHolds(c)'
         /\ \A c : c.through = committed => EvidenceHolds(c)'
<1>1. replicated \subseteq replicated'
  BY DEF Replicate, primaryVars
<1>2. \A c \in receipts : EvidenceHolds(c)'
  BY <1>1 DEF EvidenceRecorded, EvidenceHolds
<1>3. CASE UNCHANGED primaryVars /\ \E r \in ReceiptsOf(b) : committed = r.through
  BY <1>2, <1>3 DEF primaryVars, ReceiptsOf, EvidenceHolds
<1>4. CASE /\ committed = b.through
           /\ replicated' = replicated \cup {f \in b.facts : f.kind # "observation"} \cup Resolved(b)
           /\ receipts' = receipts \cup {[session |-> b.session, sequence |-> b.sequence, through |-> b.through]}
  <2>1. \A r \in outbox : r.id \in Nat /\ (r.id <= b.through => r.fact \in b.facts)
    BY DEF IInv, TypeOK, StoreTypeOK, Row, Sequence, BatchesName, BatchNames
  <2>2. b.through \in Nat
    BY DEF IInv, TypeOK, StreamTypeOK, Batch
  <2>3. ASSUME NEW o \in outbox, o.id <= b.through, o.fact.kind = "observation", Persistent(o.fact)
        PROVE  o.fact \in replicated'
    <3>1. \/ EventOf(o.fact) \in replicated
          \/ \E e \in outbox : e.id + 1 = o.id /\ e.fact = EventOf(o.fact)
      BY <2>3 DEF PairInv, ObservationsFollow, Follows
    <3>2. EventOf(o.fact) \in replicated \/ EventOf(o.fact) \in b.facts
      BY <2>1, <2>2, <2>3, <3>1
    <3>3. o.fact \in Resolved(b)
      BY <2>1, <2>3, <3>2 DEF Resolved
    <3> QED  BY <1>4, <3>3
  <2>4. \A c : c.through = b.through => EvidenceHolds(c)'
    BY <2>3 DEF EvidenceHolds
  <2> QED  BY <1>2, <1>4, <2>4
<1> QED  BY <1>3, <1>4 DEF Replicate

\* EvidenceKept: answers stay true of the evidence as the Outbox moves on.
LEMMA EvidenceKept ==
  ASSUME CollectorAssumption, ReplicationAssumption, IInv, PairInv, EvidenceRecorded, [Next]_vars
  PROVE  EvidenceRecorded'
<1>0. /\ nextSpoolId \in Nat /\ StoreTypeOK'
      /\ \A r \in outbox \cup outbox' : r.id \in Nat
  <2>1. StoreTypeOK'
    BY StepInvariant DEF IInv, TypeOK
  <2> QED  BY <2>1 DEF IInv, TypeOK, StoreTypeOK, Row, Sequence
<1>1. RowsAdvance /\ replicated \subseteq replicated'
  BY StepAdvances
<1>2. ASSUME NEW c \in ack \cup receipts
      PROVE  EvidenceHolds(c)'
  <2>1. c.through < nextSpoolId /\ c.through \in Nat
    BY DEF IInv, AnswersHold, AnswerHolds, TypeOK, PrimaryTypeOK, StreamTypeOK, Ack
  <2>2. \A r \in outbox' : r.id <= c.through => r \in outbox
    BY <1>0, <1>1, <2>1 DEF RowsAdvance
  <2> QED  BY <1>1, <2>2 DEF EvidenceRecorded, EvidenceHolds
<1>3. CASE PrimaryHandles
  <2>1. PICK b \in request : \E committed \in {b.through} \cup {r.through : r \in receipts} :
          Replicate(b, committed) /\ ack' = Reply(b, committed)
    BY <1>3 DEF PrimaryHandles
  <2>2. PICK committed : Replicate(b, committed) /\ ack' = Reply(b, committed)
    BY <2>1
  <2>3. UNCHANGED outbox
    BY <1>3 DEF PrimaryHandles, storeVars
  <2>4. \A c \in receipts' : EvidenceHolds(c)'
    BY <2>2, <2>3, ReplicateRecords
  <2>5. \A c \in ack' : c.through = committed
    BY <2>2 DEF Reply
  <2>6. \A c \in ack' : EvidenceHolds(c)'
    BY <2>2, <2>3, <2>5, ReplicateRecords
  <2> QED  BY <2>4, <2>6 DEF EvidenceRecorded
<1>4. CASE PrimaryFailsToApply \/ PrimaryHandlesStale
  <2>1. PICK b \in request \cup stale : \E committed : Replicate(b, committed)
    BY <1>4 DEF PrimaryFailsToApply, PrimaryHandlesStale
  <2>2. UNCHANGED <<outbox, ack>>
    BY <1>4 DEF PrimaryFailsToApply, PrimaryHandlesStale, storeVars
  <2>3. \A c \in receipts' : EvidenceHolds(c)'
    BY <2>1, <2>2, ReplicateRecords
  <2> QED  BY <1>2, <2>2, <2>3 DEF EvidenceRecorded
<1>5. CASE CollectorNext \/ PrimaryRejects \/ StaleCancelled \/ UNCHANGED vars
  <2>1. ack' \subseteq ack /\ receipts' = receipts
    BY <1>5 DEF CollectorNext, AgentSends, SampleHealth, BeginEnforce, FinishEnforce, SendBatch, ReceiveAck,
       StreamBreaks, CollectorRestarts, PrimaryRejects, StaleCancelled, vars, streamVars, primaryVars
  <2> QED  BY <1>2, <2>1 DEF EvidenceRecorded
<1> QED  BY <1>3, <1>4, <1>5 DEF Next, PrimaryNext

\* AckReleasesRecorded: only an ACK moves the committed spool id, and what it
\* releases is what the answer covers.
LEMMA AckReleasesRecorded ==
  ASSUME IInv, EvidenceRecorded, [Next]_vars
  PROVE  \A f \in ReleasedObservations : Persistent(f) => f \in replicated'
<1> SUFFICES ASSUME NEW f \in ReleasedObservations, Persistent(f)
             PROVE  f \in replicated'
  OBVIOUS
<1>1. committedThrough' # committedThrough /\ f.kind = "observation" /\ f \notin FactsOf(outbox')
  BY DEF ReleasedObservations
<1>2. PICK o \in outbox : o.fact = f
  BY DEF ReleasedObservations, FactsOf
<1>3. ReceiveAck
  BY <1>1 DEF Next, CollectorNext, PrimaryNext, AgentSends, Ingest, SampleHealth, RecordHealth, BeginEnforce, ReadSpool,
     FinishEnforce, DiscardSelected, SendBatch, StreamBreaks, CollectorRestarts, PrimaryHandles, PrimaryFailsToApply,
     PrimaryRejects, PrimaryHandlesStale, StaleCancelled, vars, storeVars
<1>4. PICK a \in ack : CommitReplicationAck(a.through)
  BY <1>3 DEF ReceiveAck
<1>5. o.id <= a.through
  BY <1>1, <1>2, <1>4 DEF CommitReplicationAck, FactsOf
<1>6. f \in replicated
  BY <1>1, <1>2, <1>5 DEF EvidenceRecorded, EvidenceHolds
<1> QED  BY <1>3, <1>6 DEF ReceiveAck, primaryVars

\* EvidenceIsKept: wherever a batch ends, whichever answer is lost or comes from
\* a receipt, no ACK releases an observation of a persisted event before its
\* path evidence is recorded at the Primary.
THEOREM EvidenceIsKept == Spec => PersistentObservationKept
<1>1. Init => EvidenceRecorded
  BY DEF Init, PrimaryInit, EvidenceRecorded
<1>2. IInv /\ PairInv /\ EvidenceRecorded /\ [Next]_vars => EvidenceRecorded'
  BY EvidenceKept, CollectorAssumption, ReplicationAssumption
<1>3. Spec => []EvidenceRecorded
  BY <1>1, <1>2, InvariantHolds, PairsHold, PTL DEF Spec
<1>4. IInv /\ EvidenceRecorded /\ [Next]_vars
        => [\A o \in ReleasedObservations : Persistent(o) => o \in replicated']_vars
  BY AckReleasesRecorded
<1> QED  BY <1>3, <1>4, InvariantHolds, PTL DEF Spec, PersistentObservationKept

------------------------------------------------------------------------------
(* Nothing is invented.                                                     *)

\* Every fact on its way stands for a record of an Agent: in the Outbox, among
\* the rows a discard has read, in a batch, at the Primary.
AllStandForRecords ==
  /\ NothingInvented
  /\ \A f \in FactsOf(selected) : StandsForRecord(f)
  /\ \A b \in request \cup stale : \A f \in b.facts : StandsForRecord(f)

\* PlacesStandForRecords: a batch holds an Agent's records and what the Collector
\* derives from them.
LEMMA PlacesStandForRecords ==
  ASSUME CollectorAssumption, NEW batch \in Batches, NEW p \in Places(batch)
  PROVE  StandsForRecord(FactAt(batch, p))
<1>1. PICK i \in DOMAIN batch : p = 2 * i \/ (p = 2 * i + 1 /\ batch[i].kind = "event")
  BY PlaceKinds
<1>2. batch[i] \in AgentRecords /\ batch[i].kind \in {"event", "gap"}
  <2>1. PICK k \in 1 .. BatchRecords : batch \in [1 .. k -> AgentRecords]
    BY DEF Batches
  <2> QED  BY <2>1, PlaceKinds
<1>3. CASE p = 2 * i
  BY <1>2, <1>3, PlaceKinds DEF StandsForRecord
<1>4. CASE p = 2 * i + 1 /\ batch[i].kind = "event"
  <2>1. FactAt(batch, p) = ObservationOf(batch[i]) /\ EventOf(FactAt(batch, p)) = batch[i]
    BY <1>4, PlaceKinds
  <2>2. FactAt(batch, p).kind = "observation"
    BY <2>1 DEF ObservationOf, Observation
  <2> QED  BY <1>2, <2>1, <2>2 DEF StandsForRecord
<1> QED  BY <1>1, <1>3, <1>4

\* LossStandsForRecord: the gap that replaces a discarded row covers what the
\* record behind that row covered, however often it was discarded before.
LEMMA LossStandsForRecord ==
  ASSUME NEW r \in Lossy, StandsForRecord(r.fact)
  PROVE  StandsForRecord(LossGap(r))
<1>1. \E a \in AgentRecords : a.session = r.fact.session /\ a.start = r.fact.start /\ a.end = r.fact.end
  BY DEF StandsForRecord, Lossy, Accounts
<1>2. /\ LossGap(r).kind = "gap" /\ LossGap(r).session = r.fact.session
      /\ LossGap(r).start = r.fact.start /\ LossGap(r).end = r.fact.end
  BY DEF LossGap, Gap
<1> QED  BY <1>1, <1>2 DEF StandsForRecord

\* SpooledStandForRecords: every fact a step spools stands for a record.
LEMMA SpooledStandForRecords ==
  ASSUME CollectorAssumption, IInv, AllStandForRecords, [Next]_vars
  PROVE  \A f \in FactsOf(outbox') : StandsForRecord(f)
<1> USE DEF IInv, TypeOK
<1>1. \A f \in FactsOf(outbox) : StandsForRecord(f)
  BY DEF AllStandForRecords, NothingInvented
<1>2. CASE AgentSends
  <2>1. PICK batch \in Batches : Ingest(batch)
    BY <1>2 DEF AgentSends
  <2> DEFINE new == {[id |-> SpoolId(NewPlaces(batch), p), fact |-> FactAt(batch, p)] : p \in NewPlaces(batch)}
  <2>2. outbox' = outbox \cup new
    BY <2>1 DEF Ingest
  <2>3. \A f \in FactsOf(new) : \E p \in Places(batch) : f = FactAt(batch, p)
    <3>1. FactsOf(new) = {FactAt(batch, p) : p \in NewPlaces(batch)}
      BY IngestRows
    <3>2. NewPlaces(batch) \subseteq Places(batch)
      BY DEF NewPlaces
    <3> QED  BY <3>1, <3>2
  <2>4. FactsOf(outbox') = FactsOf(outbox) \cup FactsOf(new)
    BY <2>2, FactsOfUnion
  <2> QED  BY <1>1, <2>3, <2>4, PlacesStandForRecords
<1>3. CASE SampleHealth
  <2> DEFINE row == [id |-> nextSpoolId, fact |-> Health(nextSpoolId)]
  <2>1. outbox' = outbox \cup {row} /\ row.fact = Health(nextSpoolId)
    BY <1>3 DEF SampleHealth, RecordHealth
  <2> HIDE DEF row
  <2>2. FactsOf(outbox') = FactsOf(outbox) \cup {Health(nextSpoolId)}
    BY <2>1 DEF FactsOf
  <2>3. StandsForRecord(Health(nextSpoolId))
    BY DEF StandsForRecord, Health
  <2> QED  BY <1>1, <2>2, <2>3
<1>4. CASE FinishEnforce
  <2> DEFINE last == nextSpoolId + Cardinality(LossIds)
             kept == {r \in outbox : r.id \notin {q.id : q \in selected}}
             note == [id |-> last, fact |-> DataLoss(last)]
  <2>1. outbox' = kept \cup LossNew \cup {note}
    BY <1>4 DEF FinishEnforce, DiscardSelected, LossIds, LossNew
  <2>2. \A f \in FactsOf(kept) : StandsForRecord(f)
    BY <1>1 DEF FactsOf
  <2>3. \A r \in Lossy : StandsForRecord(LossGap(r))
    BY LossStandsForRecord DEF AllStandForRecords, Lossy, FactsOf
  <2>4. \A f \in FactsOf(LossNew) : StandsForRecord(f)
    BY <2>3, LossRows
  <2>5. StandsForRecord(DataLoss(last))
    BY DEF StandsForRecord, DataLoss
  <2>6. note.fact = DataLoss(last)
    OBVIOUS
  <2> HIDE DEF kept, last, note
  <2>7. \A r \in outbox' : r \in kept \/ r \in LossNew \/ r.fact = DataLoss(last)
    BY <2>1, <2>6
  <2>8. \A f \in FactsOf(outbox') : f \in FactsOf(kept) \/ f \in FactsOf(LossNew) \/ f = DataLoss(last)
    BY <2>7 DEF FactsOf
  <2> QED  BY <2>2, <2>4, <2>5, <2>8
<1>5. CASE outbox' \subseteq outbox
  BY <1>1, <1>5 DEF FactsOf
<1>6. AgentSends \/ SampleHealth \/ FinishEnforce \/ outbox' \subseteq outbox
  BY DEF Next, CollectorNext, PrimaryNext, BeginEnforce, ReadSpool, ReceiveAck, CommitReplicationAck, SendBatch,
     StreamBreaks, CollectorRestarts, PrimaryHandles, PrimaryFailsToApply,
     PrimaryRejects, PrimaryHandlesStale, StaleCancelled, vars, storeVars
<1> QED  BY <1>2, <1>3, <1>4, <1>5, <1>6

\* StepInventsNothing: and so does all the rest.
LEMMA StepInventsNothing ==
  ASSUME CollectorAssumption, IInv, AllStandForRecords, [Next]_vars
  PROVE  AllStandForRecords'
<1>1. \A f \in FactsOf(outbox') : StandsForRecord(f)
  BY SpooledStandForRecords
<1>2. \A f \in replicated' : StandsForRecord(f)
  <2>1. \A b \in request \cup stale : \A committed : Replicate(b, committed) => replicated' \subseteq replicated \cup b.facts
    BY DEF Replicate, primaryVars, Resolved
  <2>2. CASE PrimaryHandles \/ PrimaryFailsToApply \/ PrimaryHandlesStale
    <3>1. PICK b \in request \cup stale : \E committed : Replicate(b, committed)
      BY <2>2 DEF PrimaryHandles, PrimaryFailsToApply, PrimaryHandlesStale
    <3>2. replicated' \subseteq replicated \cup b.facts
      BY <2>1, <3>1
    <3> QED  BY <3>2 DEF AllStandForRecords, NothingInvented
  <2>3. CASE replicated' = replicated
    BY <2>3 DEF AllStandForRecords, NothingInvented
  <2>4. PrimaryHandles \/ PrimaryFailsToApply \/ PrimaryHandlesStale \/ replicated' = replicated
    BY DEF Next, CollectorNext, PrimaryNext, AgentSends, SampleHealth, BeginEnforce, FinishEnforce, SendBatch, ReceiveAck,
       StreamBreaks, CollectorRestarts, PrimaryRejects, StaleCancelled, vars, primaryVars
  <2> QED  BY <2>2, <2>3, <2>4
<1>3. \A f \in FactsOf(selected') : StandsForRecord(f)
  <2>1. selected' \subseteq selected \cup outbox
    BY DEF Next, CollectorNext, PrimaryNext, AgentSends, Ingest, SampleHealth, RecordHealth, BeginEnforce, ReadSpool,
       PrefixThrough, PairTail, NextRow, FinishEnforce, DiscardSelected, SendBatch, ReceiveAck, CommitReplicationAck,
       StreamBreaks, CollectorRestarts, PrimaryHandles, PrimaryFailsToApply,
       PrimaryRejects, PrimaryHandlesStale, StaleCancelled, vars, storeVars
  <2>2. FactsOf(selected') \subseteq FactsOf(selected) \cup FactsOf(outbox)
    BY <2>1 DEF FactsOf
  <2> QED  BY <2>2 DEF AllStandForRecords, NothingInvented
<1>4. \A b \in request' \cup stale' : \A f \in b.facts : StandsForRecord(f)
  <2>1. CASE SendBatch
    <3>1. PICK last \in outbox :
            request' = {[session |-> session, sequence |-> batchSequence, through |-> last.id,
                         facts |-> FactsOf(PrefixThrough(last.id))]}
      BY <2>1 DEF SendBatch
    <3>2. stale' = stale
      BY <2>1 DEF SendBatch
    <3>3. \A b \in request' : b.facts \subseteq FactsOf(outbox)
      BY <3>1 DEF FactsOf, PrefixThrough
    <3> QED  BY <3>2, <3>3 DEF AllStandForRecords, NothingInvented
  <2>2. CASE ~SendBatch
    <3>1. request' \cup stale' \subseteq request \cup stale
      BY <2>2 DEF Next, CollectorNext, PrimaryNext, AgentSends, SampleHealth, BeginEnforce, FinishEnforce,
         ReceiveAck, StreamBreaks, CollectorRestarts, PrimaryHandles, PrimaryFailsToApply,
         PrimaryRejects, PrimaryHandlesStale, StaleCancelled, vars, streamVars
    <3> QED  BY <3>1 DEF AllStandForRecords
  <2> QED  BY <2>1, <2>2
<1> QED  BY <1>1, <1>2, <1>3, <1>4 DEF AllStandForRecords, NothingInvented, FactsOf

\* NoFactIsInvented: whatever is discarded, declared lost, discarded again,
\* re-sent or committed late, the Primary hears only of what Agents sent, and
\* every gap it is told of is exactly the range of one of their records.
THEOREM NoFactIsInvented == Spec => []NothingInvented
<1>1. Init => AllStandForRecords
  BY DEF Init, StoreInit, PrimaryInit, AllStandForRecords, NothingInvented, FactsOf
<1>2. IInv /\ AllStandForRecords /\ [Next]_vars => AllStandForRecords'
  BY StepInventsNothing, CollectorAssumption
<1>3. AllStandForRecords => NothingInvented
  BY DEF AllStandForRecords
<1> QED  BY <1>1, <1>2, <1>3, InvariantHolds, PTL DEF Spec

============================================================================
