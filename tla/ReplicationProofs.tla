-------------------------- MODULE ReplicationProofs --------------------------
(***************************************************************************)
(* Proofs about Replication for any set of sessions, any records of the    *)
(* Agents, any batch size and any number of faults.                        *)
(***************************************************************************)
EXTENDS Replication, TLAPS, FiniteSetTheorems

------------------------------------------------------------------------------
(* The image of a finite set under a function is finite.                    *)

\* ImageFinite: as the library's theorem on images, for a function.
LEMMA ImageFinite ==
  ASSUME NEW S, IsFiniteSet(S), NEW f, f = [x \in S |-> f[x]]
  PROVE  IsFiniteSet({f[x] : x \in S})
<1> DEFINE T == {f[x] : x \in S}
<1>1. f \in Surjection(S, T)
  BY DEF Surjection
<1> QED  BY <1>1, FS_Surjection

------------------------------------------------------------------------------
(* Spool identifiers.                                                       *)

\* SpoolIdsFresh: the identifiers one transaction hands out lie in a fresh range
\* after the counter and differ from each other (AUTOINCREMENT).
LEMMA SpoolIdsFresh ==
  ASSUME NEW P \in SUBSET Int, IsFiniteSet(P), nextSpoolId \in Sequence
  PROVE  /\ Cardinality(P) \in Nat
         /\ \A p \in P : /\ SpoolId(P, p) \in Sequence
                         /\ nextSpoolId <= SpoolId(P, p)
                         /\ SpoolId(P, p) < nextSpoolId + Cardinality(P)
         /\ \A p, q \in P : p # q => SpoolId(P, p) # SpoolId(P, q)
<1> DEFINE below(p) == {q \in P : q < p}
<1>1. Cardinality(P) \in Nat
  BY FS_CardinalityType
<1>2. \A p \in P : /\ IsFiniteSet(below(p)) /\ Cardinality(below(p)) \in Nat
                   /\ Cardinality(below(p)) < Cardinality(P)
  <2> TAKE p \in P
  <2>1. below(p) \subseteq P /\ below(p) # P
    BY p \notin below(p), p \in Int
  <2> QED  BY <2>1, <1>1, FS_Subset, FS_CardinalityType
<1>3. \A p, q \in P : p < q => Cardinality(below(p)) < Cardinality(below(q))
  <2> SUFFICES ASSUME NEW p \in P, NEW q \in P, p < q
               PROVE  Cardinality(below(p)) < Cardinality(below(q))
    OBVIOUS
  <2>1. p \in Int /\ q \in Int /\ \A x \in P : x \in Int
    OBVIOUS
  <2>2. below(p) \subseteq below(q)
    <3> SUFFICES ASSUME NEW x \in P, x < p
                 PROVE  x < q
      OBVIOUS
    <3> QED  BY <2>1
  <2>3. p \in below(q) /\ p \notin below(p)
    BY <2>1
  <2> QED  BY <2>2, <2>3, <1>2, FS_Subset
<1>4. \A p \in P : SpoolId(P, p) = nextSpoolId + Cardinality(below(p))
  BY DEF SpoolId
<1>5. \A p, q \in P : p # q => Cardinality(below(p)) # Cardinality(below(q))
  <2> SUFFICES ASSUME NEW p \in P, NEW q \in P, p # q
               PROVE  Cardinality(below(p)) # Cardinality(below(q))
    OBVIOUS
  <2>1. p < q \/ q < p
    OBVIOUS
  <2> QED  BY <2>1, <1>2, <1>3
<1> HIDE DEF below
<1> QED  BY <1>1, <1>2, <1>4, <1>5 DEF Sequence

------------------------------------------------------------------------------
(* What a batch of an Agent may contain.                                    *)

\* BatchFacts: every place of a batch is a well-formed fact, an event or gap of
\* the Agent or the observation of an event.
LEMMA BatchFacts ==
  ASSUME CollectorAssumption, NEW batch \in Batches
  PROVE  /\ Places(batch) \in SUBSET Int /\ IsFiniteSet(Places(batch))
         /\ \A p \in Places(batch) : FactAt(batch, p) \in Fact
<1>1. PICK k \in 1 .. BatchRecords : batch \in [1 .. k -> AgentRecords]
  BY DEF Batches
<1>2. k \in Nat /\ DOMAIN batch = 1 .. k /\ \A i \in 1 .. k : batch[i] \in AgentRecords
  BY <1>1 DEF CollectorAssumption
<1>3. \A i \in 1 .. k : batch[i] \in Record
  BY <1>2 DEF CollectorAssumption
<1>4. \A p \in Places(batch) : p \in Int /\ p \div 2 \in 1 .. k
  BY <1>2 DEF Places
<1>5. IsFiniteSet(Places(batch))
  <2>1. IsFiniteSet(2 .. 2 * k + 1)
    BY <1>2, FS_Interval
  <2>2. Places(batch) \subseteq 2 .. 2 * k + 1
    BY <1>2 DEF Places
  <2> QED  BY <2>1, <2>2, FS_Subset
<1>6. \A p \in Places(batch) : FactAt(batch, p) \in Fact
  <2> TAKE p \in Places(batch)
  <2>1. batch[p \div 2] \in Record
    BY <1>3, <1>4
  <2> QED  BY <2>1 DEF FactAt, ObservationOf, Observation, Record, Fact, Kinds, Sequence
<1> QED  BY <1>4, <1>5, <1>6

------------------------------------------------------------------------------
(* Type correctness.                                                        *)

\* IngestRows: what a batch adds to the Outbox.
LEMMA IngestRows ==
  ASSUME CollectorAssumption, StoreTypeOK, NEW batch \in Batches,
         NEW new, new = {[id |-> SpoolId(NewPlaces(batch), p), fact |-> FactAt(batch, p)] : p \in NewPlaces(batch)}
  PROVE  /\ NewPlaces(batch) \in SUBSET Int /\ IsFiniteSet(NewPlaces(batch))
         /\ Cardinality(NewPlaces(batch)) \in Nat
         /\ new \subseteq Row /\ IsFiniteSet(new)
         /\ FactsOf(new) = {FactAt(batch, p) : p \in NewPlaces(batch)}
         /\ \A r \in new : nextSpoolId <= r.id /\ r.id < nextSpoolId + Cardinality(NewPlaces(batch))
         /\ \A r, q \in new : r.id = q.id => r = q
<1> DEFINE P == NewPlaces(batch)
<1>1. P \subseteq Places(batch) /\ P \in SUBSET Int /\ IsFiniteSet(P)
  BY BatchFacts, FS_Subset DEF NewPlaces
<1>2. /\ Cardinality(P) \in Nat
      /\ \A p \in P : /\ SpoolId(P, p) \in Sequence /\ nextSpoolId <= SpoolId(P, p)
                      /\ SpoolId(P, p) < nextSpoolId + Cardinality(P)
      /\ \A p, q \in P : p # q => SpoolId(P, p) # SpoolId(P, q)
  BY <1>1, SpoolIdsFresh DEF StoreTypeOK
<1>3. \A p \in P : FactAt(batch, p) \in Fact
  BY <1>1, BatchFacts
<1>4. IsFiniteSet(new)
  <2> DEFINE row == [p \in P |-> [id |-> SpoolId(P, p), fact |-> FactAt(batch, p)]]
  <2>1. IsFiniteSet({row[p] : p \in P})
    BY <1>1, ImageFinite
  <2> QED  BY <2>1
<1>5. new \subseteq Row
  BY <1>2, <1>3 DEF Row
<1>6. FactsOf(new) = {FactAt(batch, p) : p \in P}
  <2>1. \A p \in P : \E r \in new : r.fact = FactAt(batch, p)
    <3> TAKE p \in P
    <3> DEFINE row == [id |-> SpoolId(P, p), fact |-> FactAt(batch, p)]
    <3>1. row \in new /\ row.fact = FactAt(batch, p)
      OBVIOUS
    <3> QED  BY <3>1
  <2>2. \A r \in new : \E p \in P : r.fact = FactAt(batch, p)
    OBVIOUS
  <2> HIDE DEF P
  <2>3. \A p \in P : FactAt(batch, p) \in FactsOf(new)
    BY <2>1 DEF FactsOf
  <2>4. \A f \in FactsOf(new) : \E p \in P : f = FactAt(batch, p)
    BY <2>2 DEF FactsOf
  <2> QED  BY <2>3, <2>4
<1>7. \A r \in new : nextSpoolId <= r.id /\ r.id < nextSpoolId + Cardinality(P)
  BY <1>2
<1>8. \A r, q \in new : r.id = q.id => r = q
  BY <1>2
<1> QED  BY <1>1, <1>2, <1>4, <1>5, <1>6, <1>7, <1>8

\* IngestTyped: a batch leaves the database well formed.
LEMMA IngestTyped ==
  ASSUME CollectorAssumption, StoreTypeOK, NEW batch \in Batches, Ingest(batch)
  PROVE  StoreTypeOK'
<1> DEFINE new == {[id |-> SpoolId(NewPlaces(batch), p), fact |-> FactAt(batch, p)] : p \in NewPlaces(batch)}
           facts == stored \cup {FactAt(batch, p) : p \in NewPlaces(batch)}
<1>1. /\ stored' = facts /\ outbox' = outbox \cup new
      /\ nextSpoolId' = nextSpoolId + Cardinality(NewPlaces(batch))
      /\ AdvanceCursors(facts, batch)
      /\ UNCHANGED <<committedThrough, selected>>
  BY DEF Ingest
<1>2. /\ Cardinality(NewPlaces(batch)) \in Nat /\ new \subseteq Row /\ IsFiniteSet(new)
      /\ FactsOf(new) = {FactAt(batch, p) : p \in NewPlaces(batch)}
  BY IngestRows
<1>3. facts \subseteq Fact
  BY <1>2 DEF FactsOf, Row, StoreTypeOK
<1>4. IsFiniteSet(outbox \cup new)
  BY <1>2, FS_Union DEF StoreTypeOK
<1>5. ackThrough' \in [Sessions -> Nat]
  <2>1. {ackThrough[s] : s \in Sessions} \cup {f.end : f \in {g \in facts : Accounts(g)}} \subseteq Nat
    BY <1>3 DEF StoreTypeOK, Fact
  <2> HIDE DEF facts
  <2> QED  BY <1>1, <2>1 DEF AdvanceCursors
<1> QED  BY <1>1, <1>2, <1>3, <1>4, <1>5 DEF StoreTypeOK, Sequence

\* The discarded events and gaps by id, and the rows of the gaps that replace them.
LossIds == {r.id : r \in Lossy}
LossNew == {[id |-> SpoolId(LossIds, r.id), fact |-> LossGap(r)] : r \in Lossy}

\* LossRows: what discarding the selected rows adds to the Outbox.
LEMMA LossRows ==
  ASSUME StoreTypeOK
  PROVE  /\ LossIds \in SUBSET Int /\ IsFiniteSet(LossIds) /\ Cardinality(LossIds) \in Nat
         /\ {LossGap(r) : r \in Lossy} \subseteq Fact
         /\ LossNew \subseteq Row /\ IsFiniteSet(LossNew)
         /\ FactsOf(LossNew) = {LossGap(r) : r \in Lossy}
         /\ \A r \in LossNew : nextSpoolId <= r.id /\ r.id < nextSpoolId + Cardinality(LossIds)
<1>1. Lossy \subseteq Row /\ IsFiniteSet(Lossy)
  BY FS_Subset DEF StoreTypeOK, Lossy
<1>2. IsFiniteSet(LossIds) /\ LossIds \in SUBSET Int
  <2> DEFINE f == [r \in Lossy |-> r.id]
  <2>1. IsFiniteSet({f[r] : r \in Lossy})
    BY <1>1, ImageFinite
  <2>2. LossIds = {f[r] : r \in Lossy}
    BY DEF LossIds
  <2>3. \A r \in Lossy : r.id \in Int
    BY <1>1 DEF Row, Sequence
  <2> QED  BY <2>1, <2>2, <2>3
<1>3. /\ Cardinality(LossIds) \in Nat
      /\ \A p \in LossIds : /\ SpoolId(LossIds, p) \in Sequence /\ nextSpoolId <= SpoolId(LossIds, p)
                        /\ SpoolId(LossIds, p) < nextSpoolId + Cardinality(LossIds)
  BY <1>2, SpoolIdsFresh DEF StoreTypeOK
<1>4. \A r \in Lossy : LossGap(r) \in Fact /\ r.id \in LossIds
  BY <1>1 DEF LossIds, LossGap, Gap, Row, Fact, Kinds, Sequence
<1>5. IsFiniteSet(LossNew)
  <2> DEFINE row == [r \in Lossy |-> [id |-> SpoolId(LossIds, r.id), fact |-> LossGap(r)]]
  <2>1. IsFiniteSet({row[r] : r \in Lossy})
    BY <1>1, ImageFinite
  <2> QED  BY <2>1 DEF LossNew
<1>6. FactsOf(LossNew) = {LossGap(r) : r \in Lossy}
  <2>1. \A r \in Lossy : \E q \in LossNew : q.fact = LossGap(r)
    <3> TAKE r \in Lossy
    <3> DEFINE row == [id |-> SpoolId(LossIds, r.id), fact |-> LossGap(r)]
    <3>1. row \in LossNew /\ row.fact = LossGap(r)
      BY DEF LossNew
    <3> QED  BY <3>1
  <2>2. \A q \in LossNew : \E r \in Lossy : q.fact = LossGap(r)
    BY DEF LossNew
  <2>3. \A r \in Lossy : LossGap(r) \in FactsOf(LossNew)
    BY <2>1 DEF FactsOf
  <2>4. \A f \in FactsOf(LossNew) : \E r \in Lossy : f = LossGap(r)
    BY <2>2 DEF FactsOf
  <2> QED  BY <2>3, <2>4
<1>7. \A r \in Lossy : SpoolId(LossIds, r.id) \in Sequence /\ nextSpoolId <= SpoolId(LossIds, r.id)
                        /\ SpoolId(LossIds, r.id) < nextSpoolId + Cardinality(LossIds)
  BY <1>3, <1>4
<1>8. LossNew \subseteq Row
  <2> SUFFICES ASSUME NEW r \in Lossy
               PROVE  [id |-> SpoolId(LossIds, r.id), fact |-> LossGap(r)] \in Row
    BY DEF LossNew
  <2> QED  BY <1>4, <1>7 DEF Row
<1>9. \A r \in LossNew : nextSpoolId <= r.id /\ r.id < nextSpoolId + Cardinality(LossIds)
  BY <1>7 DEF LossNew
<1>10. {LossGap(r) : r \in Lossy} \subseteq Fact
  BY <1>4
<1> QED  BY <1>2, <1>3, <1>5, <1>6, <1>8, <1>9, <1>10

\* DiscardTyped: so does a discard of EnforceSpoolPolicy.
LEMMA DiscardTyped ==
  ASSUME StoreTypeOK, DiscardSelected
  PROVE  StoreTypeOK'
<1> DEFINE last == nextSpoolId + Cardinality(LossIds)
           loss == {LossGap(r) : r \in Lossy}
           kept == {r \in outbox : r.id \notin {q.id : q \in selected}}
           note == [id |-> last, fact |-> DataLoss(last)]
<1>1. /\ stored' = ((stored \cup loss) \ FactsOf(selected)) \cup {DataLoss(last)}
      /\ outbox' = kept \cup LossNew \cup {note}
      /\ nextSpoolId' = last + 1 /\ selected' = {}
      /\ UNCHANGED <<ackThrough, committedThrough>>
  BY DEF DiscardSelected, LossIds, LossNew
<1>2. Cardinality(LossIds) \in Nat /\ loss \subseteq Fact /\ LossNew \subseteq Row /\ IsFiniteSet(LossNew)
  BY LossRows
<1>3. last \in Sequence /\ note \in Row /\ DataLoss(last) \in Fact
  BY <1>2 DEF StoreTypeOK, Sequence, Row, DataLoss, Fact, Kinds
<1>4. IsFiniteSet(outbox')
  <2>1. IsFiniteSet(kept)
    BY FS_Subset DEF StoreTypeOK
  <2>2. IsFiniteSet({note})
    BY FS_Singleton
  <2> QED  BY <1>1, <1>2, <2>1, <2>2, FS_Union
<1>5. outbox' \subseteq Row /\ stored' \subseteq Fact
  BY <1>1, <1>2, <1>3 DEF StoreTypeOK
<1>6. selected' \subseteq Row /\ IsFiniteSet(selected')
  BY <1>1, FS_EmptySet
<1>7. nextSpoolId' \in Sequence
  BY <1>1, <1>3 DEF Sequence
<1> QED  BY <1>1, <1>4, <1>5, <1>6, <1>7 DEF StoreTypeOK

\* StoreTyped: the Collector's database keeps its types in every step.
LEMMA StoreTyped ==
  ASSUME CollectorAssumption, StoreTypeOK, PrimaryTypeOK, StreamTypeOK, [Next]_vars
  PROVE  StoreTypeOK'
<1>1. CASE AgentSends
  BY <1>1, IngestTyped DEF AgentSends
<1>2. CASE SampleHealth
  <2>1. IsFiniteSet(outbox \cup {[id |-> nextSpoolId, fact |-> Health(nextSpoolId)]})
    BY FS_AddElement DEF StoreTypeOK
  <2>2. Health(nextSpoolId) \in Fact /\ [id |-> nextSpoolId, fact |-> Health(nextSpoolId)] \in Row
    BY DEF StoreTypeOK, Health, Fact, Row, Sequence, Kinds
  <2> QED  BY <1>2, <2>1, <2>2 DEF SampleHealth, RecordHealth, StoreTypeOK, Sequence
<1>3. CASE BeginEnforce
  <2>1. selected' \subseteq outbox
    BY <1>3 DEF BeginEnforce, ReadSpool, PrefixThrough, PairTail, NextRow
  <2>2. IsFiniteSet(selected')
    BY <2>1, FS_Subset DEF StoreTypeOK
  <2> QED  BY <1>3, <2>1, <2>2 DEF BeginEnforce, ReadSpool, StoreTypeOK
<1>4. CASE FinishEnforce
  BY <1>4, DiscardTyped DEF FinishEnforce
<1>5. CASE ReceiveAck
  <2>1. PICK a \in ack : CommitReplicationAck(a.through)
    BY <1>5 DEF ReceiveAck
  <2>2. a.through \in Nat
    BY DEF StreamTypeOK, Ack
  <2>3. outbox' \subseteq outbox /\ IsFiniteSet(outbox')
    BY <2>1, FS_Subset DEF CommitReplicationAck, StoreTypeOK
  <2> QED  BY <2>1, <2>2, <2>3 DEF CommitReplicationAck, StoreTypeOK
<1>6. CASE CollectorRestarts
  BY <1>6, FS_EmptySet DEF CollectorRestarts, StoreTypeOK
<1>7. CASE SendBatch \/ StreamBreaks \/ PrimaryNext \/ UNCHANGED vars
  BY <1>7 DEF SendBatch, StreamBreaks, PrimaryNext, PrimaryHandles, PrimaryFailsToApply, PrimaryRejects,
     PrimaryHandlesStale, StaleCancelled, vars, storeVars, StoreTypeOK
<1> QED  BY <1>1, <1>2, <1>3, <1>4, <1>5, <1>6, <1>7 DEF Next, CollectorNext

\* PrimaryTyped: the Primary's tables keep their types in every step.
LEMMA PrimaryTyped ==
  ASSUME PrimaryTypeOK, StreamTypeOK, [Next]_vars
  PROVE  PrimaryTypeOK'
<1>1. ASSUME NEW b \in Batch, NEW committed, Replicate(b, committed)
      PROVE  PrimaryTypeOK'
  <2>1. b.facts \subseteq Fact /\ b.session \in Nat /\ b.sequence \in Sequence /\ b.through \in Nat
    BY DEF Batch
  <2>2. Resolved(b) \subseteq b.facts
    BY DEF Resolved
  <2> QED  BY <1>1, <2>1, <2>2 DEF Replicate, primaryVars, PrimaryTypeOK, Ack
<1>2. request \subseteq Batch /\ stale \subseteq Batch
  BY DEF StreamTypeOK
<1>3. CASE PrimaryHandles \/ PrimaryFailsToApply \/ PrimaryHandlesStale
  BY <1>1, <1>2, <1>3 DEF PrimaryHandles, PrimaryFailsToApply, PrimaryHandlesStale
<1>4. CASE CollectorNext \/ PrimaryRejects \/ StaleCancelled \/ UNCHANGED vars
  BY <1>4 DEF CollectorNext, AgentSends, SampleHealth, BeginEnforce, FinishEnforce, SendBatch, ReceiveAck,
     StreamBreaks, CollectorRestarts, PrimaryRejects, StaleCancelled, vars, primaryVars, PrimaryTypeOK
<1> QED  BY <1>3, <1>4 DEF Next, PrimaryNext

\* StreamTyped: batches and answers in flight are well formed in every step.
LEMMA StreamTyped ==
  ASSUME StoreTypeOK, PrimaryTypeOK, StreamTypeOK, ReplicationAssumption, [Next]_vars
  PROVE  StreamTypeOK'
<1>1. CASE SendBatch
  <2>1. PICK last \in outbox :
          request' = {[session |-> session, sequence |-> batchSequence, through |-> last.id,
                       facts |-> FactsOf(PrefixThrough(last.id))]}
    BY <1>1 DEF SendBatch
  <2>2. FactsOf(PrefixThrough(last.id)) \subseteq Fact /\ last.id \in Nat
    BY DEF FactsOf, PrefixThrough, StoreTypeOK, Row, Sequence
  <2>3. [session |-> session, sequence |-> batchSequence, through |-> last.id,
         facts |-> FactsOf(PrefixThrough(last.id))] \in Batch
    BY <2>2 DEF StreamTypeOK, Batch
  <2> QED  BY <1>1, <2>1, <2>3 DEF SendBatch, StreamTypeOK
<1>2. CASE PrimaryHandles
  <2>1. PICK b \in request :
          \E committed \in {b.through} \cup {r.through : r \in receipts} : ack' = Reply(b, committed)
    BY <1>2 DEF PrimaryHandles
  <2>2. b \in Batch /\ {b.through} \cup {r.through : r \in receipts} \subseteq Nat
    BY DEF StreamTypeOK, PrimaryTypeOK, Batch, Ack
  <2> QED  BY <1>2, <2>1, <2>2 DEF PrimaryHandles, StreamTypeOK, Reply, Batch, Ack
<1>3. CASE AgentSends \/ SampleHealth \/ BeginEnforce \/ FinishEnforce \/ UNCHANGED vars
  BY <1>3 DEF AgentSends, SampleHealth, BeginEnforce, FinishEnforce, streamVars, vars, StreamTypeOK
<1>4. CASE ReceiveAck \/ StreamBreaks \/ CollectorRestarts
  BY <1>4 DEF ReceiveAck, StreamBreaks, CollectorRestarts, Fault, StreamTypeOK, Sequence
<1>5. CASE PrimaryFailsToApply \/ PrimaryRejects \/ PrimaryHandlesStale \/ StaleCancelled
  BY <1>5 DEF PrimaryFailsToApply, PrimaryRejects, PrimaryHandlesStale, StaleCancelled, Fault, StreamTypeOK
<1> QED  BY <1>1, <1>2, <1>3, <1>4, <1>5 DEF Next, CollectorNext, PrimaryNext

\* InitTyped: an empty Collector and an empty Primary are well formed.
LEMMA InitTyped == Init => TypeOK
<1> SUFFICES ASSUME Init PROVE TypeOK
  OBVIOUS
<1>1. IsFiniteSet({})
  BY FS_EmptySet
<1> QED  BY <1>1 DEF Init, StoreInit, PrimaryInit, TypeOK, StoreTypeOK, PrimaryTypeOK, StreamTypeOK, Sequence

\* TypeCorrect: every table, counter and message of the pipeline keeps its type,
\* for any sessions, records, bounds and number of faults.
THEOREM TypeCorrect == Spec => []TypeOK
<1>1. TypeOK /\ [Next]_vars => TypeOK'
  BY StoreTyped, PrimaryTyped, StreamTyped, CollectorAssumption, ReplicationAssumption DEF TypeOK
<1> QED  BY InitTyped, <1>1, PTL DEF Spec

------------------------------------------------------------------------------
(* The inductive invariant.                                                 *)

\* All that answers for a sequence: what the Collector holds for the Primary
\* and what the Primary has.
Custodial == FactsOf(outbox) \cup replicated

CursorBehind == committedThrough < nextSpoolId

\* What EnforceSpoolPolicy has read may be gone, but no other row took its id.
SelectedIds ==
  \A r \in selected : r.id < nextSpoolId /\ \A q \in outbox \cup selected : q.id = r.id => q = r

\* A batch out for the Primary, on this stream or an earlier one, names every
\* row still in the Outbox up to its last, and no sequence nobody answers for.
BatchNames(b) ==
  /\ b.through < nextSpoolId
  /\ \A r \in outbox : r.id <= b.through => r.fact \in b.facts
  /\ \A f \in b.facts : Accounts(f) =>
        \A n \in f.start .. f.end : Covered(Custodial, f.session, n)

BatchesName == \A b \in request \cup stale : BatchNames(b)

\* An answer, sent or on record, covers only rows the Primary has.
AnswerHolds(c) ==
  /\ c.through < nextSpoolId
  /\ \A r \in outbox : r.id <= c.through /\ r.fact.kind # "observation" => r.fact \in replicated

AnswersHold == \A c \in ack \cup receipts : AnswerHolds(c)

IInv ==
  /\ TypeOK /\ SpoolIdsAdvance /\ CursorBehind /\ SelectedIds /\ StoredHasRow
  /\ BatchesName /\ AnswersHold /\ NoSilentLoss

------------------------------------------------------------------------------
(* What every step does to the rows.  The invariant is preserved because a  *)
(* step adds rows only above the spool ids given so far and never loses a   *)
(* sequence that somebody answered for.                                     *)

RowsAdvance ==
  /\ nextSpoolId <= nextSpoolId'
  /\ \A r \in outbox' : r \in outbox \/ (nextSpoolId <= r.id /\ r.id < nextSpoolId')
  /\ \A r, q \in outbox' : r \notin outbox /\ q \notin outbox /\ r.id = q.id => r = q

SpoolGrows   == \A s, n : Covered(FactsOf(outbox), s, n) => Covered(FactsOf(outbox'), s, n)
CustodyGrows == \A s, n : Covered(Custodial, s, n) => Covered(Custodial', s, n)

\* CoveredMore: more facts account for no fewer sequences.
LEMMA CoveredMore ==
  ASSUME NEW A, NEW B, A \subseteq B
  PROVE  \A s, n : Covered(A, s, n) => Covered(B, s, n)
BY DEF Covered

\* FactsOfUnion: the facts of two sets of rows.
LEMMA FactsOfUnion ==
  ASSUME NEW A, NEW B
  PROVE  FactsOf(A \cup B) = FactsOf(A) \cup FactsOf(B)
BY DEF FactsOf

\* SpoolIsCustody: what the Outbox does not lose, nobody loses.
LEMMA SpoolIsCustody ==
  ASSUME SpoolGrows, UNCHANGED replicated
  PROVE  CustodyGrows
BY DEF SpoolGrows, CustodyGrows, Custodial, Covered

\* IngestSteps: a batch adds rows, and each new local fact has one of them.
LEMMA IngestSteps ==
  ASSUME CollectorAssumption, StoreTypeOK, StoredHasRow, NEW batch \in Batches, Ingest(batch)
  PROVE  RowsAdvance /\ SpoolGrows /\ StoredHasRow'
<1> DEFINE new == {[id |-> SpoolId(NewPlaces(batch), p), fact |-> FactAt(batch, p)] : p \in NewPlaces(batch)}
           facts == stored \cup {FactAt(batch, p) : p \in NewPlaces(batch)}
<1>1. /\ stored' = facts /\ outbox' = outbox \cup new
      /\ nextSpoolId' = nextSpoolId + Cardinality(NewPlaces(batch))
  BY DEF Ingest
<1>2. /\ Cardinality(NewPlaces(batch)) \in Nat
      /\ FactsOf(new) = {FactAt(batch, p) : p \in NewPlaces(batch)}
      /\ \A r \in new : nextSpoolId <= r.id /\ r.id < nextSpoolId + Cardinality(NewPlaces(batch))
      /\ \A r, q \in new : r.id = q.id => r = q
  BY IngestRows
<1> HIDE DEF new
<1>3. RowsAdvance
  BY <1>1, <1>2 DEF RowsAdvance, StoreTypeOK, Sequence
<1>4. FactsOf(outbox') = FactsOf(outbox) \cup FactsOf(new)
  BY <1>1, FactsOfUnion
<1>5. SpoolGrows
  BY <1>4, CoveredMore DEF SpoolGrows
<1>6. StoredHasRow'
  BY <1>1, <1>2, <1>4 DEF StoredHasRow
<1> QED  BY <1>3, <1>5, <1>6

\* HealthSteps: a health sample adds one row.
LEMMA HealthSteps ==
  ASSUME StoreTypeOK, StoredHasRow, RecordHealth
  PROVE  RowsAdvance /\ SpoolGrows /\ StoredHasRow'
<1> DEFINE row == [id |-> nextSpoolId, fact |-> Health(nextSpoolId)]
<1>1. stored' = stored \cup {row.fact} /\ outbox' = outbox \cup {row} /\ nextSpoolId' = nextSpoolId + 1
  BY DEF RecordHealth
<1>2. row.id = nextSpoolId
  OBVIOUS
<1> HIDE DEF row
<1>3. RowsAdvance
  BY <1>1, <1>2 DEF RowsAdvance, StoreTypeOK, Sequence
<1>4. FactsOf(outbox') = FactsOf(outbox) \cup {row.fact}
  BY <1>1 DEF FactsOf
<1>5. SpoolGrows
  BY <1>4, CoveredMore DEF SpoolGrows
<1>6. StoredHasRow'
  BY <1>1, <1>4 DEF StoredHasRow
<1> QED  BY <1>3, <1>5, <1>6

\* DiscardSteps: EnforceSpoolPolicy leaves a gap for each event or gap it drops.
LEMMA DiscardSteps ==
  ASSUME StoreTypeOK, SpoolIdsAdvance, SelectedIds, StoredHasRow, DiscardSelected
  PROVE  RowsAdvance /\ SpoolGrows /\ StoredHasRow'
<1> DEFINE last == nextSpoolId + Cardinality(LossIds)
           loss == {LossGap(r) : r \in Lossy}
           kept == {r \in outbox : r.id \notin {q.id : q \in selected}}
           note == [id |-> last, fact |-> DataLoss(last)]
<1>1. /\ stored' = ((stored \cup loss) \ FactsOf(selected)) \cup {DataLoss(last)}
      /\ outbox' = kept \cup LossNew \cup {note}
      /\ nextSpoolId' = last + 1
  BY DEF DiscardSelected, LossIds, LossNew
<1>2. /\ Cardinality(LossIds) \in Nat /\ FactsOf(LossNew) = loss /\ LossNew \subseteq Row
      /\ \A r \in LossNew : nextSpoolId <= r.id /\ r.id < last
  BY LossRows
<1>3. \A r, q \in LossNew : r.id = q.id => r = q
  <2>1. \A r \in Lossy : r.id \in LossIds
    BY DEF LossIds
  <2>2. \A r, q \in Lossy : r.id = q.id => r = q
    BY DEF SelectedIds, Lossy
  <2>3. LossIds \in SUBSET Int /\ IsFiniteSet(LossIds)
    BY LossRows
  <2>4. \A r, q \in Lossy : SpoolId(LossIds, r.id) = SpoolId(LossIds, q.id) => r = q
    BY <2>1, <2>2, <2>3, SpoolIdsFresh DEF StoreTypeOK
  <2>5. \A x \in LossNew : \E r \in Lossy : x = [id |-> SpoolId(LossIds, r.id), fact |-> LossGap(r)]
    BY DEF LossNew
  <2> SUFFICES ASSUME NEW x \in LossNew, NEW y \in LossNew, x.id = y.id
               PROVE  x = y
    OBVIOUS
  <2>6. PICK r \in Lossy : x = [id |-> SpoolId(LossIds, r.id), fact |-> LossGap(r)]
    BY <2>5
  <2>7. PICK q \in Lossy : y = [id |-> SpoolId(LossIds, q.id), fact |-> LossGap(q)]
    BY <2>5
  <2>8. SpoolId(LossIds, r.id) = SpoolId(LossIds, q.id)
    BY <2>6, <2>7
  <2> QED  BY <2>4, <2>6, <2>7, <2>8
<1>4. FactsOf(outbox') = FactsOf(kept) \cup loss \cup {DataLoss(last)}
  <2>1. FactsOf({note}) = {DataLoss(last)}
    BY DEF FactsOf
  <2>2. FactsOf(kept \cup LossNew) = FactsOf(kept) \cup FactsOf(LossNew)
    BY FactsOfUnion
  <2>3. FactsOf((kept \cup LossNew) \cup {note}) = FactsOf(kept \cup LossNew) \cup FactsOf({note})
    BY FactsOfUnion
  <2> HIDE DEF kept, note, loss, last
  <2> QED  BY <1>1, <1>2, <2>1, <2>2, <2>3
<1>5. \A r \in outbox : r \in kept \/ r \in selected
  BY DEF SelectedIds
<1>6. note.id = last
  OBVIOUS
<1>7. RowsAdvance
  <2> HIDE DEF note, last
  <2>1. last \in Nat /\ nextSpoolId <= last /\ nextSpoolId \in Nat
    BY <1>2 DEF StoreTypeOK, Sequence, last
  <2>2. \A r \in LossNew : nextSpoolId <= r.id /\ r.id < last /\ r.id \in Nat
    BY <1>2 DEF Row, Sequence
  <2> QED  BY <1>1, <1>3, <1>6, <2>1, <2>2 DEF RowsAdvance
<1>8. SpoolGrows
  <2> SUFFICES ASSUME NEW s, NEW n, Covered(FactsOf(outbox), s, n)
               PROVE  Covered(FactsOf(outbox'), s, n)
    BY DEF SpoolGrows
  <2>1. PICK r \in outbox : /\ Accounts(r.fact) /\ r.fact.session = s
                            /\ r.fact.start <= n /\ n <= r.fact.end
    BY DEF Covered, FactsOf
  <2>2. CASE r \in kept
    <3>1. r.fact \in FactsOf(outbox')
      BY <1>4, <2>2 DEF FactsOf
    <3> QED  BY <2>1, <3>1 DEF Covered
  <2>3. CASE r \in selected
    <3>1. r \in Lossy
      BY <2>1, <2>3 DEF Lossy
    <3>2. LossGap(r) \in FactsOf(outbox')
      BY <1>4, <3>1
    <3>3. Accounts(LossGap(r)) /\ LossGap(r).session = s /\ LossGap(r).start <= n /\ n <= LossGap(r).end
      BY <2>1 DEF LossGap, Gap, Accounts
    <3> QED  BY <3>2, <3>3 DEF Covered
  <2> QED  BY <1>5, <2>2, <2>3
<1>9. StoredHasRow'
  <2> SUFFICES ASSUME NEW f \in stored, f \notin FactsOf(selected)
               PROVE  f \in FactsOf(kept)
    BY <1>1, <1>4 DEF StoredHasRow
  <2>1. PICK r \in outbox : f = r.fact
    BY DEF StoredHasRow, FactsOf
  <2>2. r \notin selected
    BY <2>1 DEF FactsOf
  <2> QED  BY <1>5, <2>1, <2>2 DEF FactsOf
<1> QED  BY <1>7, <1>8, <1>9

\* AckSteps: an ACK releases only rows whose events and gaps the Primary has.
LEMMA AckSteps ==
  ASSUME StoreTypeOK, StoredHasRow, NEW c, AnswerHolds(c), CommitReplicationAck(c.through), UNCHANGED replicated
  PROVE  RowsAdvance /\ CustodyGrows /\ StoredHasRow'
<1> DEFINE released == {r \in outbox : r.id <= c.through}
<1>1. /\ stored' = stored \ FactsOf(released) /\ outbox' = outbox \ released
      /\ UNCHANGED nextSpoolId
  BY DEF CommitReplicationAck
<1>2. RowsAdvance
  BY <1>1 DEF RowsAdvance, StoreTypeOK, Sequence
<1>3. CustodyGrows
  <2>1. \A r \in released : Accounts(r.fact) => r.fact \in replicated
    BY DEF AnswerHolds, Accounts
  <2>2. \A f \in Custodial : Accounts(f) => f \in Custodial'
    BY <1>1, <2>1 DEF Custodial, FactsOf
  <2> QED  BY <2>2 DEF CustodyGrows, Covered
<1>4. StoredHasRow'
  BY <1>1 DEF StoredHasRow, FactsOf
<1> QED  BY <1>2, <1>3, <1>4

\* StepAdvances: so does every step of the pipeline, and the Primary forgets nothing.
LEMMA StepAdvances ==
  ASSUME CollectorAssumption, IInv, [Next]_vars
  PROVE  RowsAdvance /\ CustodyGrows /\ StoredHasRow' /\ replicated \subseteq replicated'
<1> USE DEF IInv, TypeOK
<1>1. CASE AgentSends
  BY <1>1, IngestSteps, SpoolIsCustody DEF AgentSends, primaryVars
<1>2. CASE SampleHealth
  BY <1>2, HealthSteps, SpoolIsCustody DEF SampleHealth, primaryVars
<1>3. CASE FinishEnforce
  BY <1>3, DiscardSteps, SpoolIsCustody DEF FinishEnforce, primaryVars
<1>4. CASE ReceiveAck
  BY <1>4, AckSteps DEF ReceiveAck, AnswersHold, primaryVars
<1>5. CASE BeginEnforce \/ CollectorRestarts \/ SendBatch \/ StreamBreaks \/ PrimaryNext \/ UNCHANGED vars
  <2>1. UNCHANGED <<stored, outbox, nextSpoolId>>
    BY <1>5 DEF BeginEnforce, ReadSpool, CollectorRestarts, SendBatch, StreamBreaks, PrimaryNext, PrimaryHandles,
       PrimaryFailsToApply, PrimaryRejects, PrimaryHandlesStale, StaleCancelled, vars, storeVars
  <2>2. replicated \subseteq replicated'
    BY <1>5 DEF BeginEnforce, CollectorRestarts, SendBatch, StreamBreaks, PrimaryNext, PrimaryHandles,
       PrimaryFailsToApply, PrimaryRejects, PrimaryHandlesStale, StaleCancelled, vars, primaryVars, Replicate
  <2>3. CustodyGrows
    BY <2>1, <2>2 DEF CustodyGrows, Custodial, Covered
  <2>4. RowsAdvance /\ StoredHasRow'
    BY <2>1 DEF RowsAdvance, StoredHasRow, StoreTypeOK, Sequence
  <2> QED  BY <2>2, <2>3, <2>4
<1> QED  BY <1>1, <1>2, <1>3, <1>4, <1>5 DEF Next, CollectorNext

------------------------------------------------------------------------------
(* The parts of the invariant, one by one.                                  *)

\* SpoolIdsKept: spool ids stay unique, fresh and above the committed one.
LEMMA SpoolIdsKept ==
  ASSUME IInv, StoreTypeOK', [Next]_vars, RowsAdvance
  PROVE  SpoolIdsAdvance' /\ CursorBehind'
<1> USE DEF IInv, TypeOK
<1>1. /\ nextSpoolId \in Nat /\ nextSpoolId' \in Nat /\ committedThrough \in Nat /\ committedThrough' \in Nat
      /\ \A r \in outbox : r.id \in Nat
      /\ \A r \in outbox' : r.id \in Nat
  BY DEF StoreTypeOK, Row, Sequence
<1>2. \A r \in outbox' : r.id < nextSpoolId'
  BY <1>1 DEF RowsAdvance, SpoolIdsAdvance
<1>3. \A r, q \in outbox' : r.id = q.id => r = q
  BY <1>1 DEF RowsAdvance, SpoolIdsAdvance
<1>4. CASE ReceiveAck
  <2>1. PICK a \in ack : CommitReplicationAck(a.through)
    BY <1>4 DEF ReceiveAck
  <2>2. a.through < nextSpoolId /\ a.through \in Nat
    BY DEF AnswersHold, AnswerHolds, StreamTypeOK, Ack
  <2>3. \A r \in outbox' : committedThrough' < r.id
    BY <1>1, <2>1, <2>2 DEF CommitReplicationAck
  <2> QED  BY <1>2, <1>3, <2>1, <2>2, <2>3 DEF CommitReplicationAck, SpoolIdsAdvance, CursorBehind
<1>5. CASE ~ReceiveAck
  <2>1. committedThrough' = committedThrough
    BY <1>5 DEF Next, CollectorNext, PrimaryNext, AgentSends, Ingest, SampleHealth, RecordHealth, BeginEnforce, ReadSpool,
       FinishEnforce, DiscardSelected, SendBatch, StreamBreaks, CollectorRestarts, PrimaryHandles, PrimaryFailsToApply,
       PrimaryRejects, PrimaryHandlesStale, StaleCancelled, vars, storeVars
  <2>2. \A r \in outbox' : committedThrough < r.id
    BY <1>1 DEF RowsAdvance, SpoolIdsAdvance, CursorBehind
  <2>3. committedThrough < nextSpoolId'
    BY <1>1 DEF RowsAdvance, CursorBehind
  <2> QED  BY <1>2, <1>3, <2>1, <2>2, <2>3 DEF SpoolIdsAdvance, CursorBehind
<1> QED  BY <1>4, <1>5

\* SelectedKept: what EnforceSpoolPolicy has selected keeps naming rows by their ids.
LEMMA SelectedKept ==
  ASSUME IInv, StoreTypeOK', [Next]_vars, RowsAdvance
  PROVE  SelectedIds'
<1> USE DEF IInv, TypeOK
<1>1. /\ nextSpoolId \in Nat /\ nextSpoolId' \in Nat
      /\ \A r \in outbox \cup outbox' \cup selected : r.id \in Nat
  BY DEF StoreTypeOK, Row, Sequence
<1>2. CASE selected' = selected
  <2> SUFFICES ASSUME NEW r \in selected
               PROVE  r.id < nextSpoolId' /\ \A q \in outbox' \cup selected : q.id = r.id => q = r
    BY <1>2 DEF SelectedIds
  <2>1. r.id < nextSpoolId /\ \A q \in outbox \cup selected : q.id = r.id => q = r
    BY DEF SelectedIds
  <2>2. \A q \in outbox' : q.id = r.id => q \in outbox
    BY <1>1, <2>1 DEF RowsAdvance
  <2>3. r.id < nextSpoolId'
    BY <1>1, <2>1 DEF RowsAdvance
  <2> QED  BY <2>1, <2>2, <2>3
<1>3. CASE selected' = {}
  BY <1>3 DEF SelectedIds
<1>4. CASE BeginEnforce
  <2>1. selected' \subseteq outbox /\ UNCHANGED <<outbox, nextSpoolId>>
    BY <1>4 DEF BeginEnforce, ReadSpool, PrefixThrough, PairTail, NextRow
  <2> QED  BY <2>1 DEF SelectedIds, SpoolIdsAdvance
<1>5. selected' = selected \/ selected' = {} \/ BeginEnforce
  BY DEF Next, CollectorNext, PrimaryNext, AgentSends, Ingest, SampleHealth, RecordHealth, FinishEnforce, DiscardSelected,
     SendBatch, ReceiveAck, CommitReplicationAck, StreamBreaks, CollectorRestarts, PrimaryHandles, PrimaryFailsToApply,
     PrimaryRejects, PrimaryHandlesStale, StaleCancelled, vars, storeVars
<1> QED  BY <1>2, <1>3, <1>4, <1>5

\* BatchesKept: a batch in flight holds every row up to the id it names.
LEMMA BatchesKept ==
  ASSUME IInv, StoreTypeOK', [Next]_vars, RowsAdvance, CustodyGrows
  PROVE  BatchesName'
<1> USE DEF IInv, TypeOK
<1>1. /\ nextSpoolId \in Nat /\ nextSpoolId' \in Nat
      /\ \A r \in outbox \cup outbox' \cup selected : r.id \in Nat
  BY DEF StoreTypeOK, Row, Sequence
<1>2. ASSUME NEW b \in request \cup stale
      PROVE  BatchNames(b)'
  <2>1. BatchNames(b) /\ b.through \in Nat
    BY DEF BatchesName, StreamTypeOK, Batch
  <2>2. b.through < nextSpoolId'
    BY <1>1, <2>1 DEF BatchNames, RowsAdvance
  <2>3. \A r \in outbox' : r.id <= b.through => r.fact \in b.facts
    BY <1>1, <2>1 DEF BatchNames, RowsAdvance
  <2>4. \A f \in b.facts : Accounts(f) => \A n \in f.start .. f.end : Covered(Custodial', f.session, n)
    BY <2>1 DEF BatchNames, CustodyGrows
  <2> QED  BY <2>2, <2>3, <2>4 DEF BatchNames
<1>3. CASE SendBatch
  <2>1. PICK last \in outbox :
          request' = {[session |-> session, sequence |-> batchSequence, through |-> last.id,
                       facts |-> FactsOf(PrefixThrough(last.id))]}
    BY <1>3 DEF SendBatch
  <2>2. UNCHANGED <<outbox, nextSpoolId, replicated, stale>>
    BY <1>3 DEF SendBatch, storeVars, primaryVars
  <2>3. last.id < nextSpoolId
    BY DEF SpoolIdsAdvance
  <2>4. \A r \in outbox : r.id <= last.id => r.fact \in FactsOf(PrefixThrough(last.id))
    BY DEF FactsOf, PrefixThrough
  <2>5. \A f \in FactsOf(PrefixThrough(last.id)) : Accounts(f) =>
           \A n \in f.start .. f.end : Covered(Custodial, f.session, n)
    <3>1. FactsOf(PrefixThrough(last.id)) \subseteq Custodial
      BY DEF FactsOf, PrefixThrough, Custodial
    <3>2. \A f \in FactsOf(PrefixThrough(last.id)) : f.start \in Nat /\ f.end \in Nat
      BY DEF FactsOf, PrefixThrough, StoreTypeOK, Row, Fact
    <3> QED  BY <3>1, <3>2 DEF Covered
  <2>6. \A b \in request' : BatchNames(b)'
    <3> SUFFICES ASSUME NEW b \in request'
                 PROVE  BatchNames(b)'
      OBVIOUS
    <3>1. b.through = last.id /\ b.facts = FactsOf(PrefixThrough(last.id))
      BY <2>1
    <3>2. Custodial' = Custodial
      BY <2>2 DEF Custodial
    <3> QED  BY <2>2, <2>3, <2>4, <2>5, <3>1, <3>2 DEF BatchNames
  <2> QED  BY <1>2, <2>2, <2>6 DEF BatchesName
<1>4. CASE ~SendBatch
  <2>1. request' \cup stale' \subseteq request \cup stale
    BY <1>4 DEF Next, CollectorNext, PrimaryNext, AgentSends, SampleHealth, BeginEnforce, FinishEnforce,
       ReceiveAck, StreamBreaks, CollectorRestarts, PrimaryHandles, PrimaryFailsToApply,
       PrimaryRejects, PrimaryHandlesStale, StaleCancelled, vars, streamVars
  <2> QED  BY <1>2, <2>1 DEF BatchesName
<1> QED  BY <1>3, <1>4

\* ReplicateAnswers: whichever receipt the Primary answers from, the answer
\* covers no Outbox row whose event or gap it lacks.
LEMMA ReplicateAnswers ==
  ASSUME AnswersHold, BatchesName, NEW b \in request \cup stale, NEW committed, Replicate(b, committed),
         UNCHANGED <<outbox, nextSpoolId>>
  PROVE  /\ \A c \in receipts' : AnswerHolds(c)'
         /\ \A c : c.through = committed => AnswerHolds(c)'
<1>1. replicated \subseteq replicated'
  BY DEF Replicate, primaryVars
<1>2. \A c \in receipts : AnswerHolds(c)'
  BY <1>1 DEF AnswersHold, AnswerHolds
<1>3. CASE ReceiptsOf(b) # {} /\ UNCHANGED primaryVars /\ \E r \in ReceiptsOf(b) : committed = r.through
  BY <1>2, <1>3 DEF primaryVars, ReceiptsOf, AnswerHolds
<1>4. CASE /\ committed = b.through
           /\ replicated' = replicated \cup {f \in b.facts : f.kind # "observation"} \cup Resolved(b)
           /\ receipts' = receipts \cup {[session |-> b.session, sequence |-> b.sequence, through |-> b.through]}
  <2>1. \A r \in outbox : r.id <= b.through /\ r.fact.kind # "observation" => r.fact \in replicated'
    BY <1>4 DEF BatchesName, BatchNames
  <2>2. b.through < nextSpoolId
    BY DEF BatchesName, BatchNames
  <2>3. \A c : c.through = b.through => AnswerHolds(c)'
    BY <2>1, <2>2 DEF AnswerHolds
  <2> QED  BY <1>2, <1>4, <2>3
<1> QED  BY <1>3, <1>4 DEF Replicate

\* AnswersKept: receipts and ACKs stay true of the Outbox they are applied to.
LEMMA AnswersKept ==
  ASSUME IInv, StoreTypeOK', [Next]_vars, RowsAdvance, replicated \subseteq replicated'
  PROVE  AnswersHold'
<1> USE DEF IInv, TypeOK
<1>0. /\ nextSpoolId \in Nat /\ nextSpoolId' \in Nat
      /\ \A r \in outbox \cup outbox' : r.id \in Nat
  BY DEF StoreTypeOK, Row, Sequence
<1>1. ASSUME NEW c \in ack \cup receipts
      PROVE  AnswerHolds(c)'
  <2>1. AnswerHolds(c) /\ c.through \in Nat
    BY DEF AnswersHold, PrimaryTypeOK, StreamTypeOK, Ack
  <2>2. c.through < nextSpoolId'
    BY <1>0, <2>1 DEF AnswerHolds, RowsAdvance
  <2>3. \A r \in outbox' : r.id <= c.through => r \in outbox
    BY <1>0, <2>1 DEF AnswerHolds, RowsAdvance
  <2> QED  BY <2>1, <2>2, <2>3 DEF AnswerHolds
<1>2. CASE PrimaryHandles
  <2>1. PICK b \in request : \E committed \in {b.through} \cup {r.through : r \in receipts} :
          Replicate(b, committed) /\ ack' = Reply(b, committed)
    BY <1>2 DEF PrimaryHandles
  <2>2. PICK committed : Replicate(b, committed) /\ ack' = Reply(b, committed)
    BY <2>1
  <2>3. UNCHANGED <<outbox, nextSpoolId>>
    BY <1>2 DEF PrimaryHandles, storeVars
  <2>4. \A c \in receipts' : AnswerHolds(c)'
    BY <2>2, <2>3, ReplicateAnswers
  <2>5. \A c \in ack' : c.through = committed
    BY <2>2 DEF Reply
  <2>6. \A c \in ack' : AnswerHolds(c)'
    BY <2>2, <2>3, <2>5, ReplicateAnswers
  <2> QED  BY <2>4, <2>6 DEF AnswersHold
<1>3. CASE PrimaryFailsToApply \/ PrimaryHandlesStale
  <2>1. PICK b \in request \cup stale : \E committed : Replicate(b, committed)
    BY <1>3 DEF PrimaryFailsToApply, PrimaryHandlesStale
  <2>2. UNCHANGED <<outbox, nextSpoolId, ack>>
    BY <1>3 DEF PrimaryFailsToApply, PrimaryHandlesStale, storeVars
  <2>3. \A c \in receipts' : AnswerHolds(c)'
    BY <2>1, <2>2, ReplicateAnswers
  <2> QED  BY <1>1, <2>2, <2>3 DEF AnswersHold
<1>4. CASE CollectorNext \/ PrimaryRejects \/ StaleCancelled \/ UNCHANGED vars
  <2>1. ack' \subseteq ack /\ receipts' = receipts
    BY <1>4 DEF CollectorNext, AgentSends, SampleHealth, BeginEnforce, FinishEnforce, SendBatch, ReceiveAck,
       StreamBreaks, CollectorRestarts, PrimaryRejects, StaleCancelled, vars, streamVars, primaryVars
  <2> QED  BY <1>1, <2>1 DEF AnswersHold
<1> QED  BY <1>2, <1>3, <1>4 DEF Next, PrimaryNext

------------------------------------------------------------------------------
(* The cumulative ACK.                                                      *)

\* CursorStepFacts: the cursor moves to the end of a stored event or gap that
\* accounts for the next sequence.
LEMMA CursorStepFacts ==
  ASSUME NEW facts, NEW batch, NEW s, NEW x, NEW y \in CursorStep(facts, batch, s, x), x \in Nat
  PROVE  \E f \in facts : /\ Accounts(f) /\ f.session = s
                          /\ f.start <= x + 1 /\ x + 1 <= f.end /\ y = f.end
<1>1. CASE Event(s, x + 1) \in facts /\ y = x + 1
  <2>1. /\ Accounts(Event(s, x + 1)) /\ Event(s, x + 1).session = s
        /\ Event(s, x + 1).start = x + 1 /\ Event(s, x + 1).end = x + 1
    BY DEF Event, Accounts
  <2> QED  BY <1>1, <2>1
<1>2. CASE y \in {f.end : f \in {g \in facts : /\ g.kind = "gap" /\ g.session = s
                                               /\ g.start <= x + 1 /\ x + 1 <= g.end}}
  BY <1>2 DEF Accounts
<1> QED  BY <1>1, <1>2 DEF CursorStep

\* CursorInduction: what holds at the cursor and is kept by each turn of the
\* loop holds wherever the loop stops.
LEMMA CursorInduction ==
  ASSUME NEW facts \in SUBSET Fact, ackThrough \in [Sessions -> Nat], NEW batch, NEW s \in Sessions,
         NEW a \in CursorStops(facts, batch, s),
         NEW S, S \subseteq Nat, ackThrough[s] \in S,
         \A x \in S : CursorStep(facts, batch, s, x) \subseteq S
  PROVE  a \in S
<1> DEFINE stops == {ackThrough[s]} \cup {f.end : f \in {g \in facts : g.session = s /\ Accounts(g)}}
           T == S \cap stops
<1>1. ackThrough[s] \in T
  OBVIOUS
<1>2. \A x \in T : CursorStep(facts, batch, s, x) \subseteq T
  <2> SUFFICES ASSUME NEW x \in T, NEW y \in CursorStep(facts, batch, s, x)
               PROVE  y \in stops
    OBVIOUS
  <2> QED  BY CursorStepFacts
<1>3. T \in SUBSET stops
  OBVIOUS
<1> HIDE DEF T
<1>4. a \in T
  BY <1>1, <1>2, <1>3 DEF CursorStops
<1> QED  BY <1>4 DEF T

\* CursorsCover: a batch raises the ACK of a session only over sequences that
\* local facts account for.
LEMMA CursorsCover ==
  ASSUME CollectorAssumption, StoreTypeOK, StoreTypeOK', NoSilentLoss, CustodyGrows, StoredHasRow',
         NEW batch \in Batches, Ingest(batch)
  PROVE  NoSilentLoss' /\ \A s \in Sessions : ackThrough'[s] >= ackThrough[s]
<1>1. AdvanceCursors(stored', batch) /\ stored' \in SUBSET Fact /\ ackThrough \in [Sessions -> Nat]
  BY DEF Ingest, StoreTypeOK
<1>2. stored' \subseteq Custodial'
  BY DEF StoredHasRow, Custodial
<1>3. ASSUME NEW s \in Sessions
      PROVE  /\ ackThrough'[s] >= ackThrough[s]
             /\ \A n \in 1 .. ackThrough'[s] : Covered(Custodial', s, n)
  <2> DEFINE S == {a \in Nat : a >= ackThrough[s] /\ \A n \in 1 .. a : Covered(Custodial', s, n)}
  <2>1. ackThrough'[s] \in CursorStops(stored', batch, s)
    BY <1>1 DEF AdvanceCursors
  <2>2. ackThrough[s] \in S
    BY <1>1 DEF NoSilentLoss, CustodyGrows, Custodial
  <2>3. \A x \in S : CursorStep(stored', batch, s, x) \subseteq S
    <3> SUFFICES ASSUME NEW x \in S, NEW y \in CursorStep(stored', batch, s, x)
                 PROVE  y \in S
      OBVIOUS
    <3>1. PICK f \in stored' : /\ Accounts(f) /\ f.session = s
                               /\ f.start <= x + 1 /\ x + 1 <= f.end /\ y = f.end
      BY CursorStepFacts
    <3>2. f.start \in Nat /\ f.end \in Nat /\ f \in Custodial' /\ ackThrough[s] \in Nat
      BY <1>1, <1>2 DEF Fact
    <3>3. \A n \in 1 .. y : Covered(Custodial', s, n)
      <4> SUFFICES ASSUME NEW n \in 1 .. y
                   PROVE  Covered(Custodial', s, n)
        OBVIOUS
      <4>1. CASE n <= x
        BY <4>1
      <4>2. CASE x + 1 <= n
        <5>1. f.start <= n /\ n <= f.end
          BY <3>1, <3>2, <4>2
        <5> QED  BY <3>1, <3>2, <5>1 DEF Covered
      <4> QED  BY <3>1, <3>2, <4>1, <4>2
    <3> QED  BY <3>1, <3>2, <3>3
  <2> HIDE DEF S
  <2>4. S \subseteq Nat
    BY DEF S
  <2>5. ackThrough'[s] \in S
    BY <1>1, <2>1, <2>2, <2>3, <2>4, CursorInduction
  <2> QED  BY <2>5 DEF S
<1> QED  BY <1>3 DEF NoSilentLoss, Custodial

\* CursorsKept: and every other step leaves the cumulative ACKs alone.
LEMMA CursorsKept ==
  ASSUME CollectorAssumption, IInv, StoreTypeOK', [Next]_vars, CustodyGrows, StoredHasRow'
  PROVE  NoSilentLoss' /\ \A s \in Sessions : ackThrough'[s] >= ackThrough[s]
<1> USE DEF IInv, TypeOK
<1>1. CASE AgentSends
  BY <1>1, CursorsCover DEF AgentSends
<1>2. CASE ~AgentSends
  <2>1. ackThrough' = ackThrough
    BY <1>2 DEF Next, CollectorNext, PrimaryNext, SampleHealth, RecordHealth, BeginEnforce, ReadSpool,
       FinishEnforce, DiscardSelected, SendBatch, ReceiveAck, CommitReplicationAck, StreamBreaks, CollectorRestarts,
       PrimaryHandles, PrimaryFailsToApply, PrimaryRejects, PrimaryHandlesStale, StaleCancelled, vars, storeVars
  <2>2. \A s \in Sessions : ackThrough[s] \in Nat
    BY DEF StoreTypeOK
  <2>3. NoSilentLoss'
    <3> SUFFICES ASSUME NEW s \in Sessions, NEW n \in 1 .. ackThrough[s]
                 PROVE  Covered(Custodial', s, n)
      BY <2>1 DEF NoSilentLoss, Custodial
    <3> QED  BY DEF NoSilentLoss, CustodyGrows, Custodial
  <2> QED  BY <2>1, <2>2, <2>3
<1> QED  BY <1>1, <1>2

------------------------------------------------------------------------------
(* The theorems.                                                            *)

\* InitInvariant: nothing is acknowledged, spooled or in flight at first.
LEMMA InitInvariant == Init => IInv
<1> SUFFICES ASSUME Init PROVE IInv
  OBVIOUS
<1>1. TypeOK
  BY InitTyped
<1>2. /\ stored = {} /\ outbox = {} /\ selected = {} /\ request = {} /\ ack = {} /\ stale = {} /\ receipts = {}
      /\ ackThrough = [s \in Sessions |-> 0] /\ committedThrough = 0 /\ nextSpoolId = 1
  BY DEF Init, StoreInit, PrimaryInit
<1>3. NoSilentLoss
  BY <1>2 DEF NoSilentLoss
<1> QED  BY <1>1, <1>2, <1>3 DEF IInv, SpoolIdsAdvance, CursorBehind, SelectedIds, StoredHasRow, FactsOf, BatchesName,
            AnswersHold

\* StepInvariant: every step keeps the invariant.
LEMMA StepInvariant == IInv /\ [Next]_vars => IInv'
<1> SUFFICES ASSUME IInv, [Next]_vars PROVE IInv'
  OBVIOUS
<1> USE CollectorAssumption, ReplicationAssumption
<1>1. TypeOK'
  BY StoreTyped, PrimaryTyped, StreamTyped DEF IInv, TypeOK
<1>2. StoreTypeOK'
  BY <1>1 DEF TypeOK
<1>3. RowsAdvance /\ CustodyGrows /\ StoredHasRow' /\ replicated \subseteq replicated'
  BY StepAdvances
<1>4. SpoolIdsAdvance' /\ CursorBehind'
  BY <1>2, <1>3, SpoolIdsKept
<1>5. SelectedIds'
  BY <1>2, <1>3, SelectedKept
<1>6. BatchesName'
  BY <1>2, <1>3, BatchesKept
<1>7. AnswersHold'
  BY <1>2, <1>3, AnswersKept
<1>8. NoSilentLoss'
  BY <1>2, <1>3, CursorsKept
<1> QED  BY <1>1, <1>3, <1>4, <1>5, <1>6, <1>7, <1>8 DEF IInv

\* InvariantHolds: the inductive invariant, from which the safety theorems follow.
THEOREM InvariantHolds == Spec => []IInv
BY InitInvariant, StepInvariant, PTL DEF Spec

\* AcknowledgedAreAccountedFor: whatever the interleaving of ingest, spool
\* discards, replication, broken streams, late commits and restarts, no
\* sequence acknowledged to an Agent disappears without a trace.
THEOREM AcknowledgedAreAccountedFor == Spec => []NoSilentLoss
<1>1. IInv => NoSilentLoss
  BY DEF IInv
<1> QED  BY <1>1, InvariantHolds, PTL

\* DuplicatesAreSpooled: what Ingest drops as a duplicate is on its way.
THEOREM DuplicatesAreSpooled == Spec => []StoredHasRow
<1>1. IInv => StoredHasRow
  BY DEF IInv
<1> QED  BY <1>1, InvariantHolds, PTL

\* SpoolIdsNameRows: spool ids are unique and never given at or below the
\* committed one, so that a cumulative ACK names what it releases.
THEOREM SpoolIdsNameRows == Spec => []SpoolIdsAdvance
<1>1. IInv => SpoolIdsAdvance
  BY DEF IInv
<1> QED  BY <1>1, InvariantHolds, PTL

\* AnswersAreTrue: the ACK of a batch, fresh or from the receipt of an earlier
\* batch of the same identity, releases nothing the Primary lacks.
THEOREM AnswersAreTrue == Spec => []CommittedIsReplicated
<1>1. IInv => CommittedIsReplicated
  BY DEF IInv, AnswersHold, AnswerHolds, CommittedIsReplicated, Accounts
<1> QED  BY <1>1, InvariantHolds, PTL

\* CumulativeAckIsMonotone: the ACK an Agent reads never goes back.
THEOREM CumulativeAckIsMonotone == Spec => AckThroughGrows
<1>1. IInv /\ IInv' /\ [Next]_vars => [\A s \in Sessions : ackThrough'[s] >= ackThrough[s]]_vars
  BY StepAdvances, CursorsKept, CollectorAssumption DEF IInv, TypeOK
<1> QED  BY <1>1, InvariantHolds, PTL DEF Spec, AckThroughGrows

------------------------------------------------------------------------------
(* The pipeline implements Custody.                                         *)

\* KeysInMore: more coverage, more keys.
LEMMA KeysInMore ==
  ASSUME NEW A, NEW B, \A s, n : Covered(A, s, n) => Covered(B, s, n)
  PROVE  KeysIn(A) \subseteq KeysIn(B)
BY DEF KeysIn

\* KeysOfUnion: two sets of facts account together for what either does.
LEMMA KeysOfUnion ==
  ASSUME NEW A, NEW B
  PROVE  KeysIn(A \cup B) = KeysIn(A) \cup KeysIn(B)
BY DEF KeysIn, Covered

\* KeysAreSequences: a key names a session and a sequence from 1 on.
LEMMA KeysAreSequences ==
  ASSUME CollectorAssumption, NEW k \in Keys
  PROVE  k[1] \in Sessions /\ k[2] \in Sequence
<1>1. PICK r \in AgentRecords : k \in {r.session} \X (r.start .. r.end)
  BY DEF Keys
<1>2. r \in Record
  BY DEF CollectorAssumption
<1> QED  BY <1>1, <1>2 DEF Record, Fact, Sequence

AckedKeys == {k \in Keys : k[2] <= ackThrough[k[1]]}

\* AckedAreKept: NoSilentLoss, said of keys.
LEMMA AckedAreKept ==
  ASSUME CollectorAssumption, IInv
  PROVE  AckedKeys \subseteq KeysIn(FactsOf(outbox)) \cup KeysIn(replicated)
<1> SUFFICES ASSUME NEW k \in Keys, k[2] <= ackThrough[k[1]]
             PROVE  k \in KeysIn(FactsOf(outbox) \cup replicated)
  BY KeysOfUnion DEF AckedKeys
<1>1. k[1] \in Sessions /\ k[2] \in Sequence
  BY KeysAreSequences
<1>2. ackThrough[k[1]] \in Nat
  BY <1>1 DEF IInv, TypeOK, StoreTypeOK
<1>3. k[2] \in 1 .. ackThrough[k[1]]
  BY <1>1, <1>2 DEF Sequence
<1> QED  BY <1>1, <1>3 DEF IInv, NoSilentLoss, KeysIn

\* AcceptSteps: a step that only adds coverage at the Collector accepts sequences.
LEMMA AcceptSteps ==
  ASSUME CollectorAssumption, IInv, IInv', UNCHANGED replicated,
         \A s \in Sessions : ackThrough'[s] >= ackThrough[s], SpoolGrows
  PROVE  C!Accept
<1>1. KeysIn(FactsOf(outbox)) \subseteq KeysIn(FactsOf(outbox')) /\ KeysIn(FactsOf(outbox')) \subseteq Keys
  BY KeysInMore DEF KeysIn, SpoolGrows
<1>2. AckedKeys \subseteq AckedKeys'
  <2> SUFFICES ASSUME NEW k \in Keys, k[2] <= ackThrough[k[1]]
               PROVE  k[2] <= ackThrough'[k[1]]
    BY DEF AckedKeys
  <2>1. k[1] \in Sessions /\ k[2] \in Nat
    BY KeysAreSequences DEF Sequence
  <2>2. ackThrough[k[1]] \in Nat /\ ackThrough'[k[1]] \in Nat
    BY <2>1 DEF IInv, TypeOK, StoreTypeOK
  <2> QED  BY <2>1, <2>2
<1>3. AckedKeys' \subseteq KeysIn(FactsOf(outbox')) \cup KeysIn(replicated')
  <2> SUFFICES ASSUME NEW k \in Keys, k[2] <= ackThrough'[k[1]]
               PROVE  k \in KeysIn(FactsOf(outbox') \cup replicated')
    BY KeysOfUnion DEF AckedKeys
  <2>1. k[1] \in Sessions /\ k[2] \in Sequence
    BY KeysAreSequences
  <2>2. ackThrough'[k[1]] \in Nat
    BY <2>1 DEF IInv, TypeOK, StoreTypeOK
  <2>3. k[2] \in 1 .. ackThrough'[k[1]]
    BY <2>1, <2>2 DEF Sequence
  <2> QED  BY <2>1, <2>3 DEF IInv, NoSilentLoss, KeysIn
<1> QED  BY <1>1, <1>2, <1>3 DEF C!Accept, AckedKeys

\* HandOverSteps: the transaction of a batch settles only what the Collector
\* holds or the Primary had.
LEMMA HandOverSteps ==
  ASSUME IInv, NEW b \in request \cup stale, NEW committed, Replicate(b, committed),
         UNCHANGED <<outbox, ackThrough>>
  PROVE  C!HandOver
<1>1. KeysIn(replicated) \subseteq KeysIn(replicated')
  <2>1. replicated \subseteq replicated'
    BY DEF Replicate, primaryVars
  <2> QED  BY <2>1, CoveredMore, KeysInMore
<1>2. KeysIn(replicated') \subseteq KeysIn(replicated) \cup KeysIn(FactsOf(outbox))
  <2> SUFFICES ASSUME NEW k \in KeysIn(replicated')
               PROVE  k \in KeysIn(FactsOf(outbox) \cup replicated)
    BY KeysOfUnion
  <2>0. k \in Keys
    BY DEF KeysIn
  <2>1. PICK f \in replicated' : Accounts(f) /\ f.session = k[1] /\ f.start <= k[2] /\ k[2] <= f.end
    BY DEF KeysIn, Covered
  <2>2. f \in replicated \/ f \in b.facts
    BY <2>1 DEF Replicate, primaryVars, Resolved
  <2>3. CASE f \in replicated
    BY <2>0, <2>1, <2>3 DEF KeysIn, Covered
  <2>4. CASE f \in b.facts
    <3>1. f \in Fact
      BY <2>4 DEF IInv, TypeOK, StreamTypeOK, Batch
    <3>2. k[2] \in Nat
      BY <2>0, KeysAreSequences, CollectorAssumption DEF Sequence
    <3>3. k[2] \in f.start .. f.end
      BY <2>1, <3>1, <3>2 DEF Fact
    <3>4. Covered(Custodial, f.session, k[2])
      BY <2>1, <2>4, <3>3 DEF IInv, BatchesName, BatchNames
    <3> QED  BY <2>0, <2>1, <3>4 DEF KeysIn, Custodial
  <2> QED  BY <2>2, <2>3, <2>4
<1> QED  BY <1>1, <1>2 DEF C!HandOver

\* ReleaseSteps: an ACK drops from the Outbox only what the Primary has.
LEMMA ReleaseSteps ==
  ASSUME IInv, CustodyGrows, outbox' \subseteq outbox, UNCHANGED <<ackThrough, replicated>>
  PROVE  C!Release
<1>1. KeysIn(FactsOf(outbox')) \subseteq KeysIn(FactsOf(outbox))
  <2>1. FactsOf(outbox') \subseteq FactsOf(outbox)
    BY DEF FactsOf
  <2> QED  BY <2>1, CoveredMore, KeysInMore
<1>2. KeysIn(FactsOf(outbox)) \subseteq KeysIn(FactsOf(outbox')) \cup KeysIn(replicated)
  <2>1. KeysIn(FactsOf(outbox) \cup replicated) \subseteq KeysIn(FactsOf(outbox') \cup replicated)
    BY KeysInMore DEF CustodyGrows, Custodial
  <2> QED  BY <2>1, KeysOfUnion
<1> QED  BY <1>1, <1>2 DEF C!Release

\* StepIsCustody: every step of the pipeline is a step of Custody or changes
\* nothing it speaks of.
LEMMA StepIsCustody ==
  ASSUME CollectorAssumption, IInv, IInv', [Next]_vars
  PROVE  C!Next \/ UNCHANGED C!vars
<1> USE DEF IInv, TypeOK
<1>1. /\ RowsAdvance /\ CustodyGrows /\ StoredHasRow'
      /\ \A s \in Sessions : ackThrough'[s] >= ackThrough[s]
  BY StepAdvances, CursorsKept
<1>2. CASE AgentSends
  <2>1. SpoolGrows /\ UNCHANGED replicated
    BY <1>2, IngestSteps DEF AgentSends, primaryVars
  <2>2. C!Accept
    BY <1>1, <2>1, AcceptSteps
  <2> QED  BY <2>2 DEF C!Next
<1>3. CASE SampleHealth
  <2>1. SpoolGrows /\ UNCHANGED replicated
    BY <1>3, HealthSteps DEF SampleHealth, primaryVars
  <2>2. C!Accept
    BY <1>1, <2>1, AcceptSteps
  <2> QED  BY <2>2 DEF C!Next
<1>4. CASE FinishEnforce
  <2>1. SpoolGrows /\ UNCHANGED replicated
    BY <1>4, DiscardSteps DEF FinishEnforce, primaryVars
  <2>2. C!Accept
    BY <1>1, <2>1, AcceptSteps
  <2> QED  BY <2>2 DEF C!Next
<1>5. CASE ReceiveAck
  <2>1. outbox' \subseteq outbox /\ UNCHANGED <<ackThrough, replicated>>
    BY <1>5 DEF ReceiveAck, CommitReplicationAck, primaryVars
  <2>2. C!Release
    BY <1>1, <2>1, ReleaseSteps
  <2> QED  BY <2>2 DEF C!Next
<1>6. CASE PrimaryHandles \/ PrimaryFailsToApply \/ PrimaryHandlesStale
  <2>1. PICK b \in request \cup stale : \E committed : Replicate(b, committed)
    BY <1>6 DEF PrimaryHandles, PrimaryFailsToApply, PrimaryHandlesStale
  <2>2. UNCHANGED <<outbox, ackThrough>>
    BY <1>6 DEF PrimaryHandles, PrimaryFailsToApply, PrimaryHandlesStale, storeVars
  <2>3. C!HandOver
    BY <2>1, <2>2, HandOverSteps
  <2> QED  BY <2>3 DEF C!Next
<1>7. CASE BeginEnforce \/ CollectorRestarts \/ SendBatch \/ StreamBreaks \/ PrimaryRejects \/ StaleCancelled \/ UNCHANGED vars
  <2>1. UNCHANGED <<outbox, ackThrough, replicated>>
    BY <1>7 DEF BeginEnforce, ReadSpool, CollectorRestarts, SendBatch, StreamBreaks, PrimaryRejects, StaleCancelled,
       vars, storeVars, primaryVars
  <2> QED  BY <2>1 DEF C!vars, KeysIn, FactsOf
<1> QED  BY <1>2, <1>3, <1>4, <1>5, <1>6, <1>7 DEF Next, CollectorNext, PrimaryNext

\* InitIsCustody: at first nothing is acknowledged, held or settled.
LEMMA InitIsCustody ==
  ASSUME CollectorAssumption, Init
  PROVE  C!Init
<1>1. outbox = {} /\ replicated = {} /\ ackThrough = [s \in Sessions |-> 0]
  BY DEF Init, StoreInit, PrimaryInit
<1>2. KeysIn(FactsOf(outbox)) = {} /\ KeysIn(replicated) = {}
  BY <1>1 DEF KeysIn, FactsOf, Covered
<1>3. \A k \in Keys : ~(k[2] <= ackThrough[k[1]])
  <2> TAKE k \in Keys
  <2>1. k[1] \in Sessions /\ k[2] \in Nat \ {0}
    BY KeysAreSequences DEF Sequence
  <2> QED  BY <1>1, <2>1
<1> QED  BY <1>2, <1>3 DEF C!Init

\* RefinesCustody: the pipeline implements the custody of acknowledged
\* sequences, for any sessions, records, batch sizes, bounds and faults.
THEOREM RefinesCustody == Spec => ImplementsCustody
<1>1. Init => C!Init
  BY InitIsCustody, CollectorAssumption
<1>2. IInv /\ IInv' /\ [Next]_vars => [C!Next]_(C!vars)
  BY StepIsCustody, CollectorAssumption
<1> QED  BY <1>1, <1>2, InvariantHolds, PTL DEF Spec, ImplementsCustody, C!Spec

------------------------------------------------------------------------------
(* One batch at a time.                                                     *)

\* What is out on the open stream is one batch or its answer, with the
\* identity the Collector is waiting for.
OneOutstanding ==
  /\ request = {} \/ ack = {}
  /\ \A m \in request \cup ack : m.session = session /\ m.sequence = batchSequence

\* AnswersAreExpected: replicateBatch never meets the answer to another batch on
\* an open stream, although a new stream re-uses the batch sequence.
THEOREM AnswersAreExpected == Spec => []AckIsExpected
<1>1. Init => OneOutstanding
  BY DEF Init, OneOutstanding
<1>2. OneOutstanding /\ [Next]_vars => OneOutstanding'
  <2> SUFFICES ASSUME OneOutstanding, [Next]_vars PROVE OneOutstanding'
    OBVIOUS
  <2>1. CASE SendBatch
    BY <2>1 DEF SendBatch, OneOutstanding
  <2>2. CASE PrimaryHandles
    <3>1. PICK b \in request : \E committed : ack' = Reply(b, committed)
      BY <2>2 DEF PrimaryHandles
    <3>2. request' = {} /\ UNCHANGED <<session, batchSequence>>
      BY <2>2 DEF PrimaryHandles
    <3>3. \A m \in ack' : m.session = b.session /\ m.sequence = b.sequence
      BY <3>1 DEF Reply
    <3> QED  BY <3>2, <3>3 DEF OneOutstanding
  <2>3. CASE ReceiveAck
    BY <2>3 DEF ReceiveAck, OneOutstanding
  <2>4. CASE StreamBreaks \/ CollectorRestarts
    BY <2>4 DEF StreamBreaks, CollectorRestarts, OneOutstanding
  <2>5. CASE PrimaryFailsToApply \/ PrimaryRejects \/ PrimaryHandlesStale \/ StaleCancelled
    BY <2>5 DEF PrimaryFailsToApply, PrimaryRejects, PrimaryHandlesStale, StaleCancelled, OneOutstanding
  <2>6. CASE AgentSends \/ SampleHealth \/ BeginEnforce \/ FinishEnforce \/ UNCHANGED vars
    BY <2>6 DEF AgentSends, SampleHealth, BeginEnforce, FinishEnforce, streamVars, vars, OneOutstanding
  <2> QED  BY <2>1, <2>2, <2>3, <2>4, <2>5, <2>6 DEF Next, CollectorNext, PrimaryNext
<1>3. OneOutstanding => AckIsExpected
  BY DEF OneOutstanding, AckIsExpected
<1> QED  BY <1>1, <1>2, <1>3, PTL DEF Spec

------------------------------------------------------------------------------
(* Batch identities.                                                        *)

\* A batch or answer of an identity the Collector has counted past, and one of
\* the identity it counts at now.
Past(m)    == m.session < session \/ (m.session = session /\ m.sequence < batchSequence)
Current(m) == m.session = session /\ m.sequence = batchSequence

\* Wherever they are, batches and answers of the current identity, the stale
\* ones too, end above the committed spool id; all others are past.
IdentitiesAdvance ==
  \A m \in request \cup stale \cup ack \cup receipts :
     Past(m) \/ (Current(m) /\ committedThrough < m.through)

\* AnswerHasIdentity: the Primary answers for the identity it was asked for, and
\* keeps a receipt of nothing else.
LEMMA AnswerHasIdentity ==
  ASSUME IInv, IdentitiesAdvance, NEW b \in request \cup stale, NEW committed, Replicate(b, committed),
         UNCHANGED <<session, batchSequence, committedThrough>>
  PROVE  \A m \in Reply(b, committed) \cup receipts' :
            (Past(m) \/ (Current(m) /\ committedThrough < m.through))'
<1>1. PICK c \in {b} \cup receipts : c.session = b.session /\ c.sequence = b.sequence /\ c.through = committed
  BY DEF Replicate, ReceiptsOf
<1>2. Past(c) \/ (Current(c) /\ committedThrough < c.through)
  BY DEF IdentitiesAdvance
<1>3. \A m \in Reply(b, committed) : m.session = c.session /\ m.sequence = c.sequence /\ m.through = c.through
  BY <1>1 DEF Reply
<1>4. receipts' \subseteq receipts \cup {[session |-> b.session, sequence |-> b.sequence, through |-> b.through]}
  BY DEF Replicate, primaryVars
<1>5. \A m \in receipts' : m \in receipts \/ (m.session = b.session /\ m.sequence = b.sequence /\ m.through = b.through)
  BY <1>4
<1> QED  BY <1>2, <1>3, <1>5 DEF IdentitiesAdvance, Past, Current

\* IdentitiesKept: only a new batch takes the current identity, and it ends in a
\* row above the committed id; counting up leaves all there is in the past.
LEMMA IdentitiesKept ==
  ASSUME IInv, IdentitiesAdvance, [Next]_vars
  PROVE  IdentitiesAdvance'
<1> DEFINE Fine(m) == Past(m) \/ (Current(m) /\ committedThrough < m.through)
<1>1. /\ session \in Nat /\ batchSequence \in Nat
      /\ \A m \in request \cup stale \cup ack \cup receipts : m.session \in Nat /\ m.sequence \in Nat
  BY DEF IInv, TypeOK, StreamTypeOK, PrimaryTypeOK, Batch, Ack, Sequence
<1>2. CASE SendBatch
  <2>1. PICK last \in outbox :
          request' = {[session |-> session, sequence |-> batchSequence, through |-> last.id,
                       facts |-> FactsOf(PrefixThrough(last.id))]}
    BY <1>2 DEF SendBatch
  <2>2. UNCHANGED <<session, batchSequence, stale, ack, receipts, committedThrough>>
    BY <1>2 DEF SendBatch, storeVars, primaryVars
  <2>3. \A m \in request' : m.session = session /\ m.sequence = batchSequence /\ m.through = last.id
    BY <2>1
  <2>4. committedThrough < last.id
    BY DEF IInv, SpoolIdsAdvance
  <2> QED  BY <2>2, <2>3, <2>4 DEF IdentitiesAdvance, Past, Current
<1>3. CASE ReceiveAck
  <2>1. /\ batchSequence' = batchSequence + 1 /\ ack' = {}
        /\ UNCHANGED <<session, request, stale, receipts>>
    BY <1>3 DEF ReceiveAck, primaryVars
  <2>2. \A m \in request \cup stale \cup receipts : Past(m)'
    BY <1>1, <2>1 DEF IdentitiesAdvance, Past, Current
  <2> QED  BY <2>1, <2>2 DEF IdentitiesAdvance
<1>4. CASE CollectorRestarts
  <2>1. /\ session' = session + 1 /\ request' = {} /\ ack' = {}
        /\ stale' \subseteq stale \cup request /\ receipts' = receipts
    BY <1>4 DEF CollectorRestarts, primaryVars
  <2>2. \A m \in request \cup stale \cup receipts : Past(m)'
    BY <1>1, <2>1 DEF IdentitiesAdvance, Past, Current
  <2> QED  BY <2>1, <2>2 DEF IdentitiesAdvance
<1>5. CASE PrimaryHandles
  <2>1. PICK b \in request : \E committed : Replicate(b, committed) /\ ack' = Reply(b, committed)
    BY <1>5 DEF PrimaryHandles
  <2>2. PICK committed : Replicate(b, committed) /\ ack' = Reply(b, committed)
    BY <2>1
  <2>3. request' = {} /\ UNCHANGED <<session, batchSequence, stale, committedThrough>>
    BY <1>5 DEF PrimaryHandles, storeVars
  <2>4. \A m \in ack' \cup receipts' : Fine(m)'
    BY <2>2, <2>3, AnswerHasIdentity
  <2>5. \A m \in stale : Fine(m)'
    BY <2>3 DEF IdentitiesAdvance, Past, Current
  <2> QED  BY <2>3, <2>4, <2>5 DEF IdentitiesAdvance
<1>6. CASE PrimaryFailsToApply \/ PrimaryHandlesStale
  <2>1. PICK b \in request \cup stale : \E committed : Replicate(b, committed)
    BY <1>6 DEF PrimaryFailsToApply, PrimaryHandlesStale
  <2>2. /\ request' \subseteq request /\ stale' \subseteq stale
        /\ UNCHANGED <<session, batchSequence, ack, committedThrough>>
    BY <1>6 DEF PrimaryFailsToApply, PrimaryHandlesStale, storeVars
  <2>3. \A m \in receipts' : Fine(m)'
    BY <2>1, <2>2, AnswerHasIdentity
  <2>4. \A m \in request \cup stale \cup ack : Fine(m)'
    BY <2>2 DEF IdentitiesAdvance, Past, Current
  <2> QED  BY <2>2, <2>3, <2>4 DEF IdentitiesAdvance
<1>7. CASE AgentSends \/ SampleHealth \/ BeginEnforce \/ FinishEnforce \/ StreamBreaks \/ PrimaryRejects
           \/ StaleCancelled \/ UNCHANGED vars
  <2>1. /\ request' \subseteq request \cup stale /\ stale' \subseteq request \cup stale /\ ack' \subseteq ack
        /\ UNCHANGED <<session, batchSequence, receipts, committedThrough>>
    BY <1>7 DEF AgentSends, Ingest, SampleHealth, RecordHealth, BeginEnforce, ReadSpool, FinishEnforce, DiscardSelected,
       StreamBreaks, PrimaryRejects, StaleCancelled, vars, streamVars, primaryVars, storeVars
  <2> QED  BY <2>1 DEF IdentitiesAdvance, Past, Current
<1> QED  BY <1>2, <1>3, <1>4, <1>5, <1>6, <1>7 DEF Next, CollectorNext, PrimaryNext

\* AcksAdvance: the committed spool id never goes back and every ACK moves it on,
\* whatever stale batch, receipt or restart the answer went through.
THEOREM AcksAdvance == Spec => CommittedThroughGrows
<1>1. Init => IdentitiesAdvance
  BY DEF Init, PrimaryInit, IdentitiesAdvance
<1>2. IInv /\ IdentitiesAdvance /\ [Next]_vars => IdentitiesAdvance'
  BY IdentitiesKept
<1>3. IInv /\ IdentitiesAdvance /\ [Next]_vars =>
        [/\ committedThrough' >= committedThrough
         /\ ReceiveAck => committedThrough' > committedThrough]_vars
  <2> SUFFICES ASSUME IInv, IdentitiesAdvance, Next
               PROVE  /\ committedThrough' >= committedThrough
                      /\ ReceiveAck => committedThrough' > committedThrough
    OBVIOUS
  <2>1. committedThrough \in Nat
    BY DEF IInv, TypeOK, StoreTypeOK
  <2>2. CASE ReceiveAck
    <3>1. PICK a \in ack : a.session = session /\ a.sequence = batchSequence /\ CommitReplicationAck(a.through)
      BY <2>2 DEF ReceiveAck
    <3>2. a.through \in Nat /\ a.session \in Nat /\ a.sequence \in Nat
      BY DEF IInv, TypeOK, StreamTypeOK, Ack, Sequence
    <3>3. committedThrough < a.through
      BY <3>1, <3>2 DEF IdentitiesAdvance, Past, Current
    <3> QED  BY <2>1, <3>1, <3>2, <3>3 DEF CommitReplicationAck
  <2>3. CASE ~ReceiveAck
    <3>1. committedThrough' = committedThrough
      BY <2>3 DEF Next, CollectorNext, PrimaryNext, AgentSends, Ingest, SampleHealth, RecordHealth, BeginEnforce, ReadSpool,
         FinishEnforce, DiscardSelected, SendBatch, StreamBreaks, CollectorRestarts, PrimaryHandles, PrimaryFailsToApply,
         PrimaryRejects, PrimaryHandlesStale, StaleCancelled, vars, storeVars
    <3> QED  BY <2>1, <2>3, <3>1
  <2> QED  BY <2>2, <2>3
<1> QED  BY <1>1, <1>2, <1>3, InvariantHolds, PTL DEF Spec, CommittedThroughGrows

------------------------------------------------------------------------------
(* What EnforceSpoolPolicy has read.                                        *)

\* SelectedKnown: a selected row leaves the Outbox only on an ACK, which covers
\* only what the Primary has.
LEMMA SelectedKnown ==
  ASSUME IInv, SelectedIsKnown, [Next]_vars, replicated \subseteq replicated'
  PROVE  SelectedIsKnown'
<1>1. CASE selected' = {}
  BY <1>1 DEF SelectedIsKnown
<1>2. CASE BeginEnforce
  <2>1. selected' \subseteq outbox /\ outbox' = outbox
    BY <1>2 DEF BeginEnforce, ReadSpool, PrefixThrough, PairTail, NextRow
  <2> QED  BY <2>1 DEF SelectedIsKnown
<1>3. CASE ReceiveAck
  <2>1. PICK a \in ack : CommitReplicationAck(a.through)
    BY <1>3 DEF ReceiveAck
  <2>2. outbox' = outbox \ {r \in outbox : r.id <= a.through} /\ UNCHANGED selected
    BY <2>1 DEF CommitReplicationAck
  <2>3. \A r \in outbox : r.id <= a.through /\ r.fact.kind # "observation" => r.fact \in replicated
    BY DEF IInv, AnswersHold, AnswerHolds
  <2> QED  BY <2>2, <2>3 DEF SelectedIsKnown
<1>4. CASE selected' = selected /\ outbox \subseteq outbox'
  BY <1>4 DEF SelectedIsKnown
<1>5. selected' = {} \/ BeginEnforce \/ ReceiveAck \/ (selected' = selected /\ outbox \subseteq outbox')
  BY DEF Next, CollectorNext, PrimaryNext, AgentSends, Ingest, SampleHealth, RecordHealth, FinishEnforce, DiscardSelected,
     SendBatch, StreamBreaks, CollectorRestarts, PrimaryHandles, PrimaryFailsToApply,
     PrimaryRejects, PrimaryHandlesStale, StaleCancelled, vars, storeVars
<1> QED  BY <1>1, <1>2, <1>3, <1>4, <1>5

\* DeclaredLostIsKnown: the losses EnforceSpoolPolicy reports for rows it no longer
\* finds are of events and gaps the Primary has, never of sequences that are gone.
THEOREM DeclaredLostIsKnown == Spec => []SelectedIsKnown
<1>1. Init => SelectedIsKnown
  BY DEF Init, StoreInit, SelectedIsKnown
<1>2. IInv /\ SelectedIsKnown /\ [Next]_vars => SelectedIsKnown'
  BY StepAdvances, SelectedKnown, CollectorAssumption
<1> QED  BY <1>1, <1>2, InvariantHolds, PTL DEF Spec

------------------------------------------------------------------------------
(* What Custody is for.                                                     *)

\* CustodyIsAccountable: the abstract specification keeps its promise, from its
\* own three steps alone.
LEMMA CustodyIsAccountable == C!Spec => []C!Accountable
<1>1. C!Init => C!Accountable
  BY DEF C!Init, C!Accountable
<1>2. C!Accountable /\ [C!Next]_(C!vars) => C!Accountable'
  BY DEF C!Accountable, C!Next, C!Accept, C!HandOver, C!Release, C!vars
<1> QED  BY <1>1, <1>2, PTL DEF C!Spec

\* PipelineIsAccountable: so the pipeline keeps it, as an implementation: an
\* acknowledged sequence is held by the Collector or settled at the Primary.
THEOREM PipelineIsAccountable == Spec => []C!Accountable
BY RefinesCustody, CustodyIsAccountable, PTL DEF ImplementsCustody

============================================================================
