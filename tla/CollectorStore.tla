---------------------------- MODULE CollectorStore ----------------------------
(***************************************************************************)
(* The Collector's database, collector.db (service/collector/store.go).    *)
(* Every operation is one SQLite transaction and therefore one action,     *)
(* except EnforceSpoolPolicy, which reads the Outbox before it opens its   *)
(* transaction: ReadSpool and DiscardSelected are two actions and anything *)
(* may commit between them.                                                *)
(***************************************************************************)
EXTENDS Telemetry

CONSTANTS
  AgentRecords,     \* the records an Agent may send
  BatchRecords,     \* bound: records in one TelemetryBatch
  MaxSpoolId        \* bound: no row is enqueued once this many were

ASSUME CollectorAssumption ==
  /\ NoSession \notin Sessions
  /\ AgentRecords \subseteq Record
  /\ BatchRecords \in Nat /\ MaxSpoolId \in Nat

VARIABLES
  stored,           \* facts in the local fact tables (the de-duplication keys)
  ackThrough,       \* CollectorAgentCursor.AckThrough of each session
  outbox,           \* CollectorOutbox rows [id, fact]
  nextSpoolId,      \* the AUTOINCREMENT counter of CollectorOutbox.SpoolID
  committedThrough, \* CollectorReplicationCursor.CommittedSpoolThroughID
  selected          \* rows EnforceSpoolPolicy has read and chosen to discard

storeVars == <<stored, ackThrough, outbox, nextSpoolId, committedThrough, selected>>

Row == [id : Sequence, fact : Fact]

FactsOf(rows) == {r.fact : r \in rows}

StoreTypeOK ==
  /\ stored \subseteq Fact
  /\ ackThrough \in [Sessions -> Nat]
  /\ outbox \subseteq Row /\ IsFiniteSet(outbox)
  /\ nextSpoolId \in Sequence
  /\ committedThrough \in Nat
  /\ selected \subseteq Row /\ IsFiniteSet(selected)

StoreInit ==
  /\ stored = {}
  /\ ackThrough = [s \in Sessions |-> 0]
  /\ outbox = {}
  /\ nextSpoolId = 1
  /\ committedThrough = 0
  /\ selected = {}

------------------------------------------------------------------------------
\* Mutant: counting from zero.
SpoolIdFromZero(P, p) == nextSpoolId - 1 + Cardinality({q \in P : q < p})

\* Mutant: INTEGER PRIMARY KEY without AUTOINCREMENT, which starts again behind
\* the greatest identifier still in the table.
SpoolIdReused(P, p) ==
  LET greatest == {r.id : r \in {x \in outbox : \A y \in outbox : y.id <= x.id}}
  IN  Cardinality({q \in P : q <= p}) + (IF greatest = {} THEN 0 ELSE CHOOSE m \in greatest : TRUE)

\* AUTOINCREMENT: the rows inserted at the places P (in that order) get the
\* identifiers that follow every one ever given.
SpoolId(P, p) == nextSpoolId + Cardinality({q \in P : q < p})

------------------------------------------------------------------------------
(* Ingest.  Place 2i of a batch is record i, place 2i+1 the observation the *)
(* Collector adds behind an event; a fact already stored inserts nothing.   *)

FactAt(batch, p) ==
  IF p % 2 = 0 THEN batch[p \div 2] ELSE ObservationOf(batch[p \div 2])

Places(batch) ==
  {2 * i : i \in DOMAIN batch} \cup {2 * i + 1 : i \in {j \in DOMAIN batch : batch[j].kind = "event"}}

NewPlaces(batch) ==
  {p \in Places(batch) : /\ FactAt(batch, p) \notin stored
                         /\ \A q \in Places(batch) : q < p => FactAt(batch, q) # FactAt(batch, p)}

\* Mutant: any stored event or gap beyond the cursor advances it.
CursorJumps(facts, batch, s, a) ==
  {f.end : f \in {g \in facts : g.session = s /\ Accounts(g) /\ g.end > a}}

\* Mutant: the start of a gap is not compared with the next sequence.
CursorTakesAnyGap(facts, batch, s, a) ==
  IF Event(s, a + 1) \in facts THEN {a + 1}
  ELSE {f.end : f \in {g \in facts : g.kind = "gap" /\ g.session = s /\ a + 1 <= g.end}}

\* One turn of advanceCursor's loop from cursor a towards the greatest sequence
\* of the batch: the next event, else the end of a gap over it (the gaps come
\* in no particular order), else none.
CursorStep(facts, batch, s, a) ==
  LET below == \E i \in DOMAIN batch : batch[i].session = s /\ a < batch[i].end
  IN  CASE ~below -> {}
        [] below /\ Event(s, a + 1) \in facts -> {a + 1}
        [] OTHER -> {f.end : f \in {g \in facts : /\ g.kind = "gap" /\ g.session = s
                                                  /\ g.start <= a + 1 /\ a + 1 <= g.end}}

\* Mutant: the ACK is computed from the stored facts alone, not from the cursor.
CursorForgets(facts, batch, s) ==
  {a \in {0} \cup {f.end : f \in {g \in facts : g.session = s /\ Accounts(g)}} :
     /\ \A n \in 1 .. a : Covered(facts, s, n)
     /\ ~Covered(facts, s, a + 1)}

\* The places the loop can stop at: reached from the cursor, and no way on.
CursorStops(facts, batch, s) ==
  LET stops == {ackThrough[s]} \cup {f.end : f \in {g \in facts : g.session = s /\ Accounts(g)}}
      Closed(S) == ackThrough[s] \in S /\ \A a \in S : CursorStep(facts, batch, s, a) \subseteq S
  IN  {a \in stops : /\ \A S \in SUBSET stops : Closed(S) => a \in S
                     /\ CursorStep(facts, batch, s, a) = {}}

AdvanceCursors(facts, batch) ==
  \E ack \in [Sessions -> {ackThrough[s] : s \in Sessions} \cup {f.end : f \in {g \in facts : Accounts(g)}}] :
     /\ \A s \in Sessions : ack[s] \in CursorStops(facts, batch, s)
     /\ ackThrough' = ack

Ingest(batch) ==
  LET P     == NewPlaces(batch)
      facts == stored \cup {FactAt(batch, p) : p \in P}
  IN  /\ P # {} => nextSpoolId <= MaxSpoolId
      /\ stored' = facts
      /\ outbox' = outbox \cup {[id |-> SpoolId(P, p), fact |-> FactAt(batch, p)] : p \in P}
      /\ nextSpoolId' = nextSpoolId + Cardinality(P)
      /\ AdvanceCursors(facts, batch)
      /\ UNCHANGED <<committedThrough, selected>>

Batches == UNION {[1 .. k -> AgentRecords] : k \in 1 .. BatchRecords}

------------------------------------------------------------------------------
\* healthLoop records a sample before it enforces the policy, never in between.
RecordHealth ==
  /\ selected = {}
  /\ nextSpoolId <= MaxSpoolId
  /\ stored' = stored \cup {Health(nextSpoolId)}
  /\ outbox' = outbox \cup {[id |-> nextSpoolId, fact |-> Health(nextSpoolId)]}
  /\ nextSpoolId' = nextSpoolId + 1
  /\ UNCHANGED <<ackThrough, committedThrough, selected>>

\* Mutant: the rows go, the local facts stay.
CommitKeepsFacts(through) ==
  /\ outbox' = {r \in outbox : r.id > through}
  /\ committedThrough' = through
  /\ UNCHANGED <<stored, ackThrough, nextSpoolId, selected>>

\* The Primary has everything up to through: drop the rows and the local facts.
CommitReplicationAck(through) ==
  LET released == {r \in outbox : r.id <= through}
  IN  /\ stored' = stored \ FactsOf(released)
      /\ outbox' = outbox \ released
      /\ committedThrough' = through
      /\ UNCHANGED <<ackThrough, nextSpoolId, selected>>

------------------------------------------------------------------------------
(* EnforceSpoolPolicy.  Sizes and ages decide how long a prefix of the      *)
(* Outbox goes; the model leaves that open.  A prefix that ends in an event *)
(* takes the observation behind it along.                                   *)

PrefixThrough(k) == {r \in outbox : r.id <= k}

NextRow(k) == {r \in outbox : /\ r.id > k
                              /\ \A q \in outbox : q.id > k => r.id <= q.id}

\* Mutant: no regard for pairs.
NoPairTail(k) == {}

PairTail(k) ==
  {r \in NextRow(k) : /\ r.fact.kind = "observation"
                      /\ \E q \in outbox : q.id = k /\ q.fact.kind = "event"}

ReadSpool ==
  /\ selected = {}
  /\ \E r \in outbox : selected' = PrefixThrough(r.id) \cup PairTail(r.id)
  /\ UNCHANGED <<stored, ackThrough, outbox, nextSpoolId, committedThrough>>

\* Mutant: a gap that is discarded is not declared again.
LossyEvents == {r \in selected : r.fact.kind = "event"}

Lossy == {r \in selected : Accounts(r.fact)}

LossGap(r) == Gap(r.fact.session, r.fact.start, r.fact.end, r.id)

\* A gap for each discarded event or gap, the facts and rows removed, then one
\* data-loss fact for the lot.
DiscardSelected ==
  LET ids  == {r.id : r \in Lossy}
      last == nextSpoolId + Cardinality(ids)
      loss == {LossGap(r) : r \in Lossy}
  IN  /\ selected # {}
      /\ nextSpoolId <= MaxSpoolId
      /\ stored' = ((stored \cup loss) \ FactsOf(selected)) \cup {DataLoss(last)}
      /\ outbox' = {r \in outbox : r.id \notin {q.id : q \in selected}}
                     \cup {[id |-> SpoolId(ids, r.id), fact |-> LossGap(r)] : r \in Lossy}
                     \cup {[id |-> last, fact |-> DataLoss(last)]}
      /\ nextSpoolId' = last + 1
      /\ selected' = {}
      /\ UNCHANGED <<ackThrough, committedThrough>>
==============================================================================
