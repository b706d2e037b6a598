----------------------------- MODULE Replication -----------------------------
(***************************************************************************)
(* Collector and Primary joined by the replication stream                  *)
(* (service/collector/runtime.go, Replicate in                             *)
(* service/rpc/collector_primary.go), with the Agent as environment.       *)
(*                                                                         *)
(* replicationLoop has at most one batch outstanding: it sends, waits for  *)
(* the ACK, commits it, and only then counts the batch sequence up.  When  *)
(* the stream breaks it reads the Outbox again and sends what it finds now *)
(* under the SAME batch sequence, while the Primary may still be about to  *)
(* commit the earlier batch of that sequence (stale).  Batch sequences     *)
(* start over at 1 in a new process, under a new random session.           *)
(***************************************************************************)
EXTENDS CollectorStore, PrimaryReplica

CONSTANTS
  BatchSize,        \* replicationBatchSize: Outbox rows in one batch
  MaxFaults         \* bound: broken streams, failed handlers and restarts

ASSUME ReplicationAssumption == BatchSize \in Nat \ {0} /\ MaxFaults \in Nat

VARIABLES
  session,          \* Runtime.replicationSession of the running process
  batchSequence,    \* Runtime.nextBatchSequence
  request,          \* the batch sent on the open stream, {} when none is out
  ack,              \* the ACK on its way back on the open stream, {} when none
  stale,            \* batches of broken streams the Primary may still handle
  faults            \* counts the faults against MaxFaults

streamVars == <<session, batchSequence, request, ack, stale>>
vars == <<storeVars, primaryVars, streamVars, faults>>

StreamTypeOK ==
  /\ session \in Nat /\ batchSequence \in Sequence
  /\ request \in SUBSET Batch /\ ack \in SUBSET Ack /\ stale \in SUBSET Batch
  /\ faults \in Nat

\* TypeOK: what every table, counter and message of the pipeline can hold.
TypeOK == StoreTypeOK /\ PrimaryTypeOK /\ StreamTypeOK

Init ==
  /\ StoreInit
  /\ PrimaryInit
  /\ session = 1 /\ batchSequence = 1
  /\ request = {} /\ ack = {} /\ stale = {}
  /\ faults = 0

------------------------------------------------------------------------------
(* The Collector.                                                           *)

AgentSends ==
  /\ \E batch \in Batches : Ingest(batch)
  /\ UNCHANGED <<primaryVars, streamVars, faults>>

SampleHealth  == RecordHealth    /\ UNCHANGED <<primaryVars, streamVars, faults>>
BeginEnforce  == ReadSpool       /\ UNCHANGED <<primaryVars, streamVars, faults>>
FinishEnforce == DiscardSelected /\ UNCHANGED <<primaryVars, streamVars, faults>>

Least(n, m) == IF n <= m THEN n ELSE m

\* Mutant: the batch sequence counts up when the batch is sent.
SendBatchCounts ==
  /\ request = {} /\ ack = {}
  /\ \E last \in outbox :
       /\ Cardinality(PrefixThrough(last.id)) = Least(BatchSize, Cardinality(outbox))
       /\ request' = {[session |-> session, sequence |-> batchSequence,
                       through |-> last.id, facts |-> FactsOf(PrefixThrough(last.id))]}
  /\ batchSequence' = batchSequence + 1
  /\ UNCHANGED <<storeVars, primaryVars, session, ack, stale, faults>>

\* ReadOutbox: the first BatchSize rows in spool order; then stream.Send.
SendBatch ==
  /\ request = {} /\ ack = {}
  /\ \E last \in outbox :
       LET rows == PrefixThrough(last.id)
       IN  /\ Cardinality(rows) = Least(BatchSize, Cardinality(outbox))
           /\ request' = {[session |-> session, sequence |-> batchSequence,
                           through |-> last.id, facts |-> FactsOf(rows)]}
  /\ UNCHANGED <<storeVars, primaryVars, session, batchSequence, ack, stale, faults>>

\* Mutant: the batch sequence stays after the ACK.
ReceiveAckKeepsSequence ==
  /\ \E a \in ack : CommitReplicationAck(a.through)
  /\ ack' = {}
  /\ UNCHANGED <<primaryVars, session, batchSequence, request, stale, faults>>

\* The ACK is for the batch that is out; commit it, then count up.
ReceiveAck ==
  /\ \E a \in ack : /\ a.session = session /\ a.sequence = batchSequence
                    /\ CommitReplicationAck(a.through)
  /\ ack' = {}
  /\ batchSequence' = batchSequence + 1
  /\ UNCHANGED <<primaryVars, session, request, stale, faults>>

Fault == faults < MaxFaults /\ faults' = faults + 1

\* Send or Recv fails: the batch never arrives, or the Primary has yet to
\* handle it, or it has been handled and the ACK is lost.
StreamBreaks ==
  /\ Fault
  /\ request \cup ack # {}
  /\ request' = {} /\ ack' = {}
  /\ stale' \in {stale, stale \cup request}
  /\ UNCHANGED <<storeVars, primaryVars, session, batchSequence>>

CollectorRestarts ==
  /\ Fault
  /\ session' = session + 1 /\ batchSequence' = 1
  /\ request' = {} /\ ack' = {}
  /\ stale' \in {stale, stale \cup request}
  /\ selected' = {}
  /\ UNCHANGED <<stored, ackThrough, outbox, nextSpoolId, committedThrough, primaryVars>>

------------------------------------------------------------------------------
(* The Primary.                                                             *)

Reply(b, committed) == {[session |-> b.session, sequence |-> b.sequence, through |-> committed]}

\* Commit, apply the recent events to the runtime, answer.
PrimaryHandles ==
  /\ \E b \in request : \E committed \in {b.through} \cup {r.through : r \in receipts} :
        /\ Replicate(b, committed)
        /\ ack' = Reply(b, committed)
  /\ request' = {}
  /\ UNCHANGED <<storeVars, session, batchSequence, stale, faults>>

\* ApplyTrustedTelemetryEvents fails after the commit: no ACK, stream closed.
PrimaryFailsToApply ==
  /\ Fault
  /\ \E b \in request : \E committed \in {b.through} \cup {r.through : r \in receipts} :
        Replicate(b, committed)
  /\ request' = {}
  /\ UNCHANGED <<storeVars, session, batchSequence, ack, stale>>

\* A batch with an event only the Primary finds invalid: rolled back, stream
\* closed, and the Collector reads the same rows again.
PrimaryRejects ==
  /\ \E b \in request : ReceiptsOf(b) = {} /\ ~Valid(b)
  /\ request' = {}
  /\ UNCHANGED <<storeVars, primaryVars, session, batchSequence, ack, stale, faults>>

\* A batch of a broken stream is committed late; nobody reads the answer.
PrimaryHandlesStale ==
  /\ \E b \in stale : \E committed \in {b.through} \cup {r.through : r \in receipts} :
        /\ Replicate(b, committed)
        /\ stale' = stale \ {b}
  /\ UNCHANGED <<storeVars, session, batchSequence, request, ack, faults>>

\* The Primary notices that the stream's context is gone.
StaleCancelled ==
  /\ \E b \in stale : stale' = stale \ {b}
  /\ UNCHANGED <<storeVars, primaryVars, session, batchSequence, request, ack, faults>>

------------------------------------------------------------------------------
CollectorNext ==
  \/ AgentSends \/ SampleHealth \/ BeginEnforce \/ FinishEnforce
  \/ SendBatch \/ ReceiveAck \/ StreamBreaks \/ CollectorRestarts

PrimaryNext ==
  \/ PrimaryHandles \/ PrimaryFailsToApply \/ PrimaryRejects
  \/ PrimaryHandlesStale \/ StaleCancelled

Next == CollectorNext \/ PrimaryNext

Spec == Init /\ [][Next]_vars

\* replicationLoop retries for ever and the Primary answers what it receives:
\* each of the three steps of a round trip is taken when it stays possible.
FairSpec ==
  /\ Spec
  /\ WF_vars(SendBatch) /\ WF_vars(PrimaryHandles) /\ WF_vars(ReceiveAck)

------------------------------------------------------------------------------
(* Properties.                                                              *)

\* NoSilentLoss: every sequence the Collector has acknowledged to an Agent
\* (which may then delete it from its WAL) is accounted for, by the event or by
\* a gap that declares it lost, in an Outbox row or already at the Primary.
NoSilentLoss ==
  \A s \in Sessions : \A n \in 1 .. ackThrough[s] : Covered(FactsOf(outbox) \cup replicated, s, n)

\* StoredHasRow: a local fact, which makes Ingest take a resent record for a
\* duplicate, exists only while a row still carries that fact to the Primary.
StoredHasRow == stored \subseteq FactsOf(outbox)

\* CommittedIsReplicated: whatever answer the Primary gives, and from whichever
\* receipt, it covers no Outbox row whose event or gap the Primary lacks.
CommittedIsReplicated ==
  \A a \in ack : \A r \in outbox :
     r.id <= a.through /\ Accounts(r.fact) => r.fact \in replicated

\* SpoolIdsAdvance: a row never (re)appears at or below the committed spool id,
\* which is what lets an ACK name its rows by a single number.
SpoolIdsAdvance ==
  /\ \A r \in outbox : committedThrough < r.id /\ r.id < nextSpoolId
  /\ \A r, q \in outbox : r.id = q.id => r = q

\* ObservationHasEvent: an observation in the Outbox is of an event that the
\* Primary has or that is spooled before it (the pair rule of the discard).
ObservationHasEvent ==
  \A o \in outbox : o.fact.kind = "observation" =>
     \/ EventOf(o.fact) \in replicated
     \/ \E e \in outbox : e.id < o.id /\ e.fact = EventOf(o.fact)

\* AckIsExpected: the only ACK that can be read answers the batch that is out,
\* so the identity check of replicateBatch never fails on an open stream.
AckIsExpected == \A a \in ack : a.session = session /\ a.sequence = batchSequence

\* AckThroughGrows: the cumulative ACK of a session never goes back.
AckThroughGrows == [][\A s \in Sessions : ackThrough'[s] >= ackThrough[s]]_vars

\* The observations that an ACK releases from the Outbox in this step.
ReleasedObservations ==
  {f \in FactsOf(outbox) : f.kind = "observation" /\ f \notin FactsOf(outbox') /\ committedThrough' # committedThrough}

\* PersistentObservationKept: an observation of a persisted event leaves the
\* Outbox on an ACK only after its path evidence was recorded at the Primary.
PersistentObservationKept ==
  [][\A o \in ReleasedObservations : Persistent(o) => o \in replicated']_vars

\* ObservationKept: the same of every observation, of HEARTBEAT and STATE
\* events too, whose evidence is all the availability engine has.
ObservationKept == [][\A o \in ReleasedObservations : o \in replicated']_vars

\* LossIsUnsynced: what EnforceSpoolPolicy reports as lost is what it takes
\* out of the Outbox, not rows the Primary had acknowledged before.
LossIsUnsynced == [][FinishEnforce => selected \subseteq outbox]_vars

\* CommittedThroughGrows: CommitReplicationAck overwrites the committed spool id
\* with whatever the ACK says; it still only grows, and with every ACK, although
\* an ACK may come from the receipt of an earlier batch of the same identity.
CommittedThroughGrows ==
  [][/\ committedThrough' >= committedThrough
     /\ ReceiveAck => committedThrough' > committedThrough]_vars

\* SelectedIsKnown: what an ACK takes out of the Outbox between the two halves of
\* EnforceSpoolPolicy, and is then declared lost, is known to the Primary.
SelectedIsKnown ==
  \A r \in selected : r.fact.kind # "observation" => r \in outbox \/ r.fact \in replicated

\* The record of an Agent that a fact stands for: the event itself, the event an
\* observation is of, or what a gap (once or repeatedly declared lost) replaces.
StandsForRecord(f) ==
  /\ f.kind = "event" => f \in AgentRecords
  /\ f.kind = "observation" => EventOf(f) \in AgentRecords
  /\ f.kind = "gap" => \E r \in AgentRecords : r.session = f.session /\ r.start = f.start /\ r.end = f.end

\* NothingInvented: no event, observation or gap reaches the Primary, or waits in
\* the Outbox, that no Agent ever sent or sent a record for: discards declare
\* neither more nor other sequences lost than the ones they drop.
NothingInvented == \A f \in FactsOf(outbox) \cup replicated : StandsForRecord(f)

\* The sequences the Agents may send, which is all that can be acknowledged.
Keys == UNION {{r.session} \X (r.start .. r.end) : r \in AgentRecords}

KeysIn(facts) == {k \in Keys : Covered(facts, k[1], k[2])}

\* BacklogDrains: what the Collector holds for the Primary gets there, as the
\* event or as a declared gap, once faults cease.
BacklogDrains == \A k \in Keys : (k \in KeysIn(FactsOf(outbox))) ~> (k \in KeysIn(replicated))

------------------------------------------------------------------------------
(* The pipeline implements Custody.                                         *)

C == INSTANCE Custody WITH
       acked   <- {k \in Keys : k[2] <= ackThrough[k[1]]},
       held    <- KeysIn(FactsOf(outbox)),
       settled <- KeysIn(replicated)

\* ImplementsCustody: every step of the pipeline is a step of Custody: an
\* acknowledged sequence is never without someone who answers for it, and what
\* has reached the Primary stays there.
ImplementsCustody == C!Spec
==============================================================================
