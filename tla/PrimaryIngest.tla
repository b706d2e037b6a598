---------------------------- MODULE PrimaryIngest ----------------------------
(***************************************************************************)
(* The direct path: an Agent's TelemetryBatch at the Primary               *)
(* (V2Handler.Ingest in service/rpc/v2.go, Store.Ingest and advanceCursor  *)
(* in service/telemetry/store.go).                                         *)
(*                                                                         *)
(* Batches wait in a bounded queue for the one goroutine that ingests.     *)
(* Unlike a Collector, the Primary keeps no row of HEARTBEAT and STATE     *)
(* events, so what lies beyond a hole is known only as far as it is        *)
(* persisted or in the batch at hand, and a hole that stays open for the   *)
(* grace period is declared lost by the Primary itself.  Events and gaps   *)
(* that Collectors replicate land in the same tables.                      *)
(***************************************************************************)
EXTENDS Telemetry

CONSTANTS
  AgentRecords,     \* the records an Agent may send
  ReplicatedRecords,\* the events and gaps Collectors may deliver
  BatchRecords,     \* bound: records in one TelemetryBatch
  QueueSize,        \* Telemetry.IngestQueueSize
  Grace,            \* sequenceHoleGrace: 0 means that holes are never closed
  MaxTime           \* bound: the clock stops here

ASSUME IngestAssumption ==
  /\ NoSession \notin Sessions
  /\ AgentRecords \subseteq Record /\ ReplicatedRecords \subseteq Record
  /\ BatchRecords \in Nat /\ QueueSize \in Nat /\ Grace \in Nat /\ MaxTime \in Nat

VARIABLES
  now,              \* the Primary's clock
  queue,            \* ingestQueue: batch, receive time, stream still open
  events,           \* TelemetryEvent rows
  gaps,             \* TelemetryGap rows somebody sent
  inferred,         \* TelemetryGap rows, each with its TelemetryDataLoss row,
                    \* of inferCompactedHole
  cursor,           \* TelemetryIngestCursor of each session
  accepted,         \* history: events taken in on this path, persisted or not
  stood             \* history: receive times of the batches that went beyond the ACK of a
                    \* session and left it where it is

vars == <<now, queue, events, gaps, inferred, cursor, accepted, stood>>

\* A batch is the set of its records: nothing in Ingest depends on their order.
Batches == {b \in SUBSET AgentRecords : b # {} /\ IsFiniteSet(b) /\ Cardinality(b) <= BatchRecords}
Job     == [batch : Batches, at : Nat, open : BOOLEAN]
Cursor  == [ackThrough : Nat, holeSequence : Nat, holeSince : Nat]

\* TypeOK: what the tables, the cursors and the queue can hold.
TypeOK ==
  /\ now \in Nat
  /\ queue \in Seq(Job) /\ Len(queue) <= QueueSize
  /\ events \subseteq Record /\ gaps \subseteq Record /\ inferred \subseteq Record
  /\ cursor \in [Sessions -> Cursor]
  /\ accepted \subseteq Record
  /\ stood \in [Sessions -> SUBSET Nat]

Init ==
  /\ now = 0
  /\ queue = <<>>
  /\ events = {} /\ gaps = {} /\ inferred = {}
  /\ cursor = [s \in Sessions |-> [ackThrough |-> 0, holeSequence |-> 0, holeSince |-> 0]]
  /\ accepted = {}
  /\ stood = [s \in Sessions |-> {}]

------------------------------------------------------------------------------
(* The stream and the queue.                                                *)

\* The handler stamps the batch, queues it and waits; a full queue closes the
\* stream, and the Agent keeps what it has.
Receive ==
  /\ \A i \in DOMAIN queue : ~queue[i].open
  /\ Len(queue) < QueueSize
  /\ \E batch \in Batches : queue' = Append(queue, [batch |-> batch, at |-> now, open |-> TRUE])
  /\ UNCHANGED <<now, events, gaps, inferred, cursor, accepted, stood>>

\* The stream ends while its batch waits: nobody will read the answer.
StreamEnds ==
  /\ \E i \in DOMAIN queue : queue[i].open /\ queue' = [queue EXCEPT ![i].open = FALSE]
  /\ UNCHANGED <<now, events, gaps, inferred, cursor, accepted, stood>>

Tick ==
  /\ now < MaxTime
  /\ now' = now + 1
  /\ UNCHANGED <<queue, events, gaps, inferred, cursor, accepted, stood>>

\* Store.Replicate shares the two tables (see PrimaryReplica).
CollectorDelivers ==
  /\ \E f \in ReplicatedRecords :
        /\ events' = events \cup {e \in {f} : e.kind = "event" /\ Persistent(e)}
        /\ gaps' = gaps \cup {g \in {f} : g.kind = "gap"}
  /\ UNCHANGED <<now, queue, inferred, cursor, accepted, stood>>

------------------------------------------------------------------------------
(* advanceCursor.                                                           *)

\* present: the sequences of the events known to have arrived; rows: the gaps.
Known(present, rows, n) == n \in present \/ \E g \in rows : g.start <= n /\ n <= g.end

\* Mutant: any gap that ends further on is taken, whether it begins at the hole or not.
CursorTakesAnyGap(present, rows, max, a) ==
  IF a >= max THEN {}
  ELSE IF a + 1 \in present THEN {a + 1}
  ELSE {g.end : g \in {r \in rows : a + 1 <= r.end}}

\* One turn of the loop: the next event, else the end of a gap over it.
CursorStep(present, rows, max, a) ==
  IF a >= max THEN {}
  ELSE IF a + 1 \in present THEN {a + 1}
  ELSE {g.end : g \in {r \in rows : r.start <= a + 1 /\ a + 1 <= r.end}}

\* Mutant: the ACK is worked out anew from the rows there are.
CursorFromRows(present, rows, max, a0) ==
  LET step(a) == CursorStep(present, rows, max, a)
      stops   == {0} \cup present \cup {g.end : g \in rows}
  IN  {a \in stops : step(a) = {} /\ \A b \in stops : b < a => step(b) # {}}

\* Where the loop, coming from a0, finds nothing further to step on.
CursorStops(present, rows, max, a0) ==
  LET stops == {a0} \cup present \cup {g.end : g \in rows}
  IN  {a \in stops : /\ CursorStep(present, rows, max, a) = {}
                     /\ \A S \in SUBSET stops :
                          a0 \in S /\ (\A b \in S : CursorStep(present, rows, max, b) \subseteq S) => a \in S}

\* Mutant: the hole is taken to reach up to the last sequence of the batch.
HoleEndIsMax(present, rows, max, a) == max

\* Mutant: the end of the hole is taken as exclusive.
HoleEndExclusive(present, rows, max, a) ==
  CHOOSE e \in a .. max : /\ \A n \in a + 2 .. e + 1 : ~Known(present, rows, n)
                          /\ e + 1 = max \/ Known(present, rows, e + 2)

\* The last sequence of the hole that begins after a.
HoleEnd(present, rows, max, a) ==
  CHOOSE e \in a + 1 .. max : /\ \A n \in a + 2 .. e : ~Known(present, rows, n)
                              /\ e = max \/ Known(present, rows, e + 1)

\* Mutant: the time at which the hole was found is not recorded.
AtHoleSinceEver(a, since) == [ackThrough |-> a, holeSequence |-> a + 1, holeSince |-> 0]

At(a)            == [ackThrough |-> a, holeSequence |-> 0, holeSince |-> 0]
AtHole(a, since) == [ackThrough |-> a, holeSequence |-> a + 1, holeSince |-> since]

Outcome(c, lost) == [cursor |-> c, lost |-> lost]

\* Mutant: the hole the ACK has passed stays recorded.
ReachesOnly(c, a) == [c EXCEPT !.ackThrough = a]

\* A hole is passed once the ACK has reached it.
Reaches(c, a) == IF c.holeSequence # 0 /\ a >= c.holeSequence THEN At(a) ELSE [c EXCEPT !.ackThrough = a]

\* The hole after a has been open for the grace period: a gap covers it, and the
\* loop goes on behind it.
Inferences(s, present, rows, max, a, at) ==
  LET hole == Gap(s, a + 1, HoleEnd(present, rows, max, a), 0)
  IN  {Outcome(IF b >= max THEN At(b) ELSE AtHole(b, at), {hole}) :
         b \in CursorStops(present, rows \cup {hole}, max, hole.end)}

Outcomes(s, present, rows, max, at) ==
  LET c == cursor[s]
      From(a) ==
        LET r == Reaches(c, a)
        IN  CASE a >= max \/ Grace = 0         -> {Outcome(r, {})}
              [] a < max /\ Grace > 0 /\ r.holeSequence # a + 1
                                               -> {Outcome(AtHole(a, at), {})}
              [] a < max /\ Grace > 0 /\ r.holeSequence = a + 1 /\ at - r.holeSince < Grace
                                               -> {Outcome(r, {})}
              [] OTHER                         -> Inferences(s, present, rows, max, a, at)
  IN  IF max <= c.ackThrough THEN {Outcome(c, {})}
      ELSE UNION {From(a) : a \in CursorStops(present, rows, max, c.ackThrough)}

------------------------------------------------------------------------------
(* Ingest.                                                                  *)

EventsIn(records) == {r \in records : r.kind = "event"}
GapsIn(records)   == {r \in records : r.kind = "gap"}
OfSession(records, s) == {r \in records : r.session = s}

\* The end of every record of the session in the batch counts as present.
Present(s, rows, records) == {r.end : r \in OfSession(rows \cup records, s)}

Latest(s, records) ==
  LET ends == {r.end : r \in OfSession(records, s)}
  IN  IF ends = {} THEN 0 ELSE CHOOSE m \in ends : \A n \in ends : n <= m

\* The batches that have met the ACK where it is, with this one if it ends further on.
Stood(s, ack, max, at) ==
  (IF ack = cursor[s].ackThrough THEN stood[s] ELSE {}) \cup {t \in {at} : ack < max}

\* The transaction of the job at the head of the queue.
Ingest(job) ==
  LET records   == job.batch
      allEvents == events \cup {e \in EventsIn(records) : Persistent(e)}
      allGaps   == gaps \cup GapsIn(records)
      Of(s)     == Outcomes(s, Present(s, allEvents, records), OfSession(allGaps \cup inferred, s),
                            Latest(s, records), job.at)
  IN  /\ events' = allEvents
      /\ gaps' = allGaps
      /\ accepted' = accepted \cup EventsIn(records)
      /\ \E result \in [Sessions -> UNION {Of(s) : s \in Sessions}] :
            /\ \A s \in Sessions : result[s] \in Of(s)
            /\ cursor' = [s \in Sessions |-> result[s].cursor]
            /\ inferred' = inferred \cup UNION {result[s].lost : s \in Sessions}
            /\ stood' = [s \in Sessions |->
                           Stood(s, result[s].cursor.ackThrough, Latest(s, records), job.at)]

RunIngest ==
  /\ queue # <<>>
  /\ Ingest(Head(queue))
  /\ queue' = Tail(queue)
  /\ UNCHANGED now

\* The context of an ended stream may stop the transaction: it is rolled back.
IngestCancelled ==
  /\ queue # <<>> /\ ~Head(queue).open
  /\ queue' = Tail(queue)
  /\ UNCHANGED <<now, events, gaps, inferred, cursor, accepted, stood>>

------------------------------------------------------------------------------
Next == Receive \/ StreamEnds \/ Tick \/ CollectorDelivers \/ RunIngest \/ IngestCancelled

Spec == Init /\ [][Next]_vars

------------------------------------------------------------------------------
(* Properties.                                                              *)

\* AckIsAccounted: every sequence the Primary has acknowledged was taken in, has
\* a row, or is declared lost by a gap.
AckIsAccounted ==
  \A s \in Sessions : \A n \in 1 .. cursor[s].ackThrough :
     Covered(accepted \cup events \cup gaps \cup inferred, s, n)

\* HoleIsNext: a recorded hole is the sequence the ACK waits for; no hole behind
\* the ACK is left over to be taken for a later one that has not waited.
HoleIsNext ==
  \A s \in Sessions : cursor[s].holeSequence \in {0, cursor[s].ackThrough + 1}

\* The gaps declared in this step.
NewlyInferred == inferred' \ inferred

\* AckGrows: the cumulative ACK never goes back.
AckGrows == [][\A s \in Sessions : cursor'[s].ackThrough >= cursor[s].ackThrough]_vars

\* HolePatience: what is declared lost begins with the sequence the ACK waits for, and
\* another batch, received the grace period earlier, was served before and left the ACK
\* waiting for the same sequence: no batch alone, and no age of an earlier hole, makes a
\* loss.  The times are those of receipt (HoleSince and receivedAt in advanceCursor), so
\* that the time the two batches spent in the queue counts.
HolePatience ==
  [][\A g \in NewlyInferred :
        /\ g.start = cursor[g.session].ackThrough + 1
        /\ \E t \in stood[g.session] : Head(queue).at - t >= Grace]_vars

\* RowsAreNotLost: no event with a row, from whichever path, and nothing another
\* gap speaks for is declared lost.
RowsAreNotLost ==
  [][\A g \in NewlyInferred : \A r \in events' \cup gaps' \cup inferred :
        r.session = g.session => r.end < g.start \/ g.end < r.start]_vars

\* ReceivedAreNotLost: the same of every event the Primary took in.
ReceivedAreNotLost ==
  [][\A g \in NewlyInferred : \A r \in accepted' :
        r.session = g.session => r.end < g.start \/ g.end < r.start]_vars

\* LossesAreDisjoint: no sequence of a session is declared lost twice, so that
\* the data-loss rows of the Primary add up.
LossesAreDisjoint ==
  \A g, h \in inferred : g.session = h.session /\ g # h => g.end < h.start \/ h.end < g.start

\* LossIsAwaited: what is declared lost begins with the sequence the ACK waits
\* for, never behind the ACK, and the ACK passes all of it in the same step.
LossIsAwaited ==
  [][\A g \in NewlyInferred : /\ g.start = cursor[g.session].ackThrough + 1
                              /\ g.end <= cursor'[g.session].ackThrough]_vars

\* AckStopsAtHole: the answer to a batch that goes beyond the ACK acknowledges
\* all of it, or stops before a sequence for which neither the batch nor any
\* table has an event or gap: the Agent is left with nothing it could delete.
AckStopsAtHole ==
  [][RunIngest => \A s \in Sessions :
        LET batch == Head(queue).batch
            ack   == cursor'[s].ackThrough
        IN  Latest(s, batch) > cursor[s].ackThrough =>
              \/ ack >= Latest(s, batch)
              \/ ~Covered(batch \cup events' \cup gaps' \cup inferred', s, ack + 1)]_vars

\* HolesClose: the first batch that goes beyond a hole at the end of its grace
\* period gets the ACK past that hole, by what has arrived since or by a loss.
HolesClose ==
  [][RunIngest => \A s \in Sessions :
        LET job == Head(queue)
            c   == cursor[s]
        IN  /\ Grace > 0 /\ c.holeSequence # 0 /\ c.holeSequence <= Latest(s, job.batch)
            /\ job.at - c.holeSince >= Grace
            => cursor'[s].ackThrough >= c.holeSequence]_vars
==============================================================================
