# Santaizi Dashboard: a formal model

TLA+ modules that model the reliable-telemetry core of the Santaizi Dashboard and the parts
around it that run concurrently, TLC configurations that check them on small instances, and
TLAPS proofs about them. Paths
below are relative to the repository's root (`src/` here).

    tlc -workers 2 -config MCReplication.cfg MCReplication     # model-check one run
    tlapm ReplicationProofs.tla                                # check the proofs

`PROJECT.json` lists the components, the runs, the theorems, the source lines behind each
definition (`map`) and, for each checked property, a plausible mistake in the code that the
property catches (`mutants`; their operators carry the comment "Mutant:" and no action uses
them).

## 1. The system

One Go binary runs in two modes. The **Primary** holds the web UI, the API, the rules and
the database of record (SQLite). **Collectors** stand elsewhere in the network and take
telemetry from Agents on the Primary's behalf. **Agents** (a separate program) write every
sample to a local WAL first, and send it both to the Primary and to the Collectors they are
assigned to. A record carries (node, session, sequence); sequences of a session start at 1,
and an Agent may replace a range of them by an explicit `SequenceGap`. The documentation of
all this is `docs/reliable-telemetry.md`.

| Component | State it keeps | Operations | Talks to |
|---|---|---|---|
| Collector store (`service/collector/store.go`) | fact tables (events, observations, gaps, health, data loss), `CollectorAgentCursor`, `CollectorOutbox` with AUTOINCREMENT spool ids, replication cursor, authorization cache | Ingest, ReadOutbox, CommitReplicationAck, RecordHealth, EnforceSpoolPolicy, SaveAuthorization, DiscardOutbox | SQLite |
| Collector runtime (`service/collector/runtime.go`) | replication session and batch sequence, identity, kind | Agent stream handler, replicationLoop, healthLoop, syncLoop, registration | Collector store; Primary over gRPC |
| Primary replication (`service/rpc/collector_primary.go`, `service/telemetry/store.go` Replicate) | telemetry tables, receipts per (collector, session, batch sequence), path and health evidence | Replicate, Sync, Register | Collectors; availability queue; node runtime |
| Primary direct ingest (`service/rpc/v2.go`, `service/telemetry/store.go` Ingest) | ingest queue, event/gap tables, `TelemetryIngestCursor` with the hole under watch | enqueuePrimaryIngest, runPrimaryIngest, advanceCursor, inferCompactedHole | Agents; node runtime |
| Availability engine (`service/availability/engine.go`) | health and path buckets, availability buckets, recompute queue, incidents and their revisions | RecordPrimaryHealth, ProcessQueue, Recompute, CloseStaleIncidents | fed by both ingest paths and by replication |
| Offline runtime (`service/singleton/offline_detector*.go`) | server runtime rows, offline history rows | detection loop, report handlers, reconciliation at start | availability buckets (V2), report times (V1), notifications |
| Node runtime (`service/singleton/telemetry_runtime.go`) | node bindings, per-node runtime rows, in-memory server list | ApplyV2Event, ApplyTrustedTelemetryEvents, bind and rebind | both ingest paths |
| Configuration sync (`collector_primary.go` Sync, `runtime.go` syncOnce, `telemetry_runtime.go`, handlers in `api_v2_spa.go`) | bindings, scopes, assignments, configuration version, revocations; their cache at the Collector | bind, save and delete servers, scope, revoke, rotate, Register, Sync, SaveAuthorization | Collectors, administrators, Agents |
| Probes and routes (`service/telemetry/probes*.go`, `service/collector/probe*.go`) | route jobs with a TTL; at the Collector a queue, marks of what is in flight, pending samples | create, dispatch, trace, record, finish, expire | sync stream |
| Public network page (`web/packages/theme-server-status`) | cache and fetch pool shared by all components, one chart, tiles | load, acquire, release, change server, refresh | Primary over HTTP |
| Status store (`web/apps/status/src/stores/status.ts`) | server list, WebSocket | connect, reconnect, apply frames | Primary over WebSocket |
| Alerts and notifications (`service/telemetry/alerts.go`, `service/singleton/alertsentinel.go`, `notification_aggregate.go`) | alert state per rule and server, aggregation windows | evaluate, aggregate, send | availability, offline history |
| Service monitors, NAT, control streams (`servicesentinel.go`, `service/rpc/control.go`, `nat.go`) | pending probes, stream pairs | dispatch, answer, pair | Agents |
| Traffic policy (`service/traffic/*.go`) | counters per billing period | accumulate, reset | node runtime |

Further parts (web controllers, bot, reports, PKI, rollups and retention, front end, utility
packages) are listed in `PROJECT.json` with the reason they are left out: queries,
formatting, cryptography or I/O.

**What is hard here.** Three processes hold the same fact in three databases and agree only
through cumulative numbers: the Agent's `ack_through` and the Outbox's
`committed_spool_through_id`. Agents, the replication loop, the health loop with its spool
policy, and the Primary's handlers run concurrently; streams break at any point; the Primary
may commit a batch whose stream is gone; a new process starts its batch sequence over at 1;
the spool policy deletes rows that may be in flight. On the direct path the cursor must be
computed from tables that, by design, do not hold most of the events. Administrators' handlers
change bindings, scopes and assignments in several transactions while the Sync stream compares
one number, the version, to decide whether a Collector is up to date. A route job lives at the
Primary, on the stream and at three goroutines of the Collector, which forgets all of it when it
restarts. And in the browser, loads that were started in one order end in another.

**What makes it correct.**

* Collector store: whatever is acknowledged to an Agent is in the Outbox, at the Primary, or
  declared lost by a gap that is; a local fact (which turns a resent record into a duplicate)
  never outlives its Outbox row; spool ids never come back.
* Replication: an ACK never releases a row the Primary lacks, whichever receipt answers;
  an observation reaches the Primary not before its event; the backlog drains.
* Direct ingest: the ACK passes only what was taken in, persisted, or declared lost; nothing
  is declared lost before the grace period, reckoned by receive times, or when it is there.
* Availability: every bucket is judged again once its window is over; late evidence is counted
  (it is not always, see the findings); the audit trail of an incident has no holes; incidents
  start apart, end after they start, and end when the node has recovered or is gone.
* Configuration: assignments are those of bindings and scopes; equal versions mean equal
  assignments; the Collector's cache never goes back and catches up in the end.
* Routes: a key is traced once at a time and no mark outlives its work; a job is settled once,
  with its row or by its deadline; every job of a key that the Collector still has among its
  targets is settled without its deadline.
* Network page: no slot of the pool leaks; the chart shows the server it is for, never an older
  history after a refresh; every load ends.
* Offline history (planned): at most one open row per server; rows do not overlap.

## 2. Modules

    Telemetry ──── CollectorStore ──┐
        │  └────── PrimaryReplica ──┴── Replication ── MCReplication
        │                                │      └───── ReplicationProofs ── PairProofs
        │                             Custody (abstract)
        └───────── PrimaryIngest ────── MCPrimaryIngest
                          └──────────── PrimaryIngestProofs

    Availability ──── MCAvailability,   AvailabilityProofs
    ConfigSync ────── MCConfigSync,     ConfigSyncProofs
    RouteJobs ─────── MCRouteJobs,      RouteJobsProofs
    NetworkHistory ── MCNetworkHistory, NetworkHistoryProofs

* **Telemetry** — the facts. A record is (kind, session, start, end, gid). `HotEvents` are the
  HEARTBEAT, STATE and STATE_ROLLUP events, which the Primary does not persist
  (`persistTelemetryEvent`). Identifiers that the Collector draws at random (gap ids, fact
  ids) are represented by the spool id of the row they are put in, which is as unique.
* **CollectorStore** — `collector.db`. Each SQLite transaction (`BEGIN IMMEDIATE`, one writer)
  is one action: `Ingest`, `RecordHealth`, `CommitReplicationAck`. `EnforceSpoolPolicy` is two
  actions, `ReadSpool` and `DiscardSelected`, because the code reads the Outbox before it
  opens its transaction. Payload sizes and ages are abstracted: they decide how long a prefix
  of the Outbox is selected, and the model selects any. (With a clock that steps back,
  `CreatedAt` need not grow along the Outbox and the selection need not be a prefix; that is
  not modelled.) The cursor's loop is modelled by the places where it can stop, since the
  order in which the gaps come from the database is not specified.
* **PrimaryReplica** — `Store.Replicate`: receipt lookup, validation, observation lookup,
  receipt. `replicated` says which facts have been applied. For an event that is not persisted
  it stands for its effects (runtime, rollup), and `Resolved` does not look at it.
* **Replication** — both joined by the stream. `request` is the batch that is out, `ack` its
  answer, `stale` the batches of broken streams that the Primary has yet to commit or drop.
  `StreamBreaks` covers Send and Recv errors at every point of the exchange; the rows are then
  read again under the same batch sequence. `CollectorRestarts` begins a new session with
  batch sequence 1 and forgets the selection of the spool policy. `PrimaryRejects` is the batch
  with an event that the Collector's `validateEvent` accepts and the Primary's does not.
  The Agent is the environment: it may send any batch of its records at any time, again and
  out of order, which is more than the real Agent does.
* **Custody** — what the Collector promises: sequences are acknowledged only while held or
  settled, settled ones stay settled, held ones are released only when settled.
* **PrimaryIngest** — the direct path: the bounded ingest queue with one consumer, streams that
  end while their batch waits (the transaction then runs or is cancelled), `Store.Ingest`, and
  `advanceCursor` with the hole, its age and the inferred gap. `CollectorDelivers` is what
  replication writes to the same tables. `accepted` and `stood` (the receive times of the batches
  that went beyond the ACK and left it where it is) are history variables that no action reads.
  The clock is an integer; jobs are stamped when they are received and served first in, first
  out, so stamps do not go back in the queue. All ages are differences of such stamps, as in
  `advanceCursor`: the time a batch waits in the queue counts. A job of an ended stream may
  wait before the Agent's next one; batches of other Agents matter only for the length of the
  queue. The retention job, which deletes old event rows, is not modelled.
* **Availability** — the engine for one node, with the writers of its evidence. Evidence of an
  observer falls into a bucket, and whoever writes it queues the bucket in the same
  transaction (`RecordPath`, `EnqueuedByHealth`). The one goroutine of `Engine.Run` is `at` one
  of five places: it reads some of the queue (`ReadQueue`), recomputes the row of each entry
  (`Recompute`, with `Classify` and `ReviseIncident` in the same transaction), deletes the entry
  in another transaction (`DeleteItem`), looks after stale incidents (`CloseStaleIncidents`), or
  waits in its select, where a health sample is the other choice. `EndBinding` comes from
  `singleton/telemetry_runtime.go`. Abstractions:
  * Times are instants, and a bucket is the instant it starts at, so that "the window has ended"
    and the ends of incidents are the code's own comparisons.
  * The two states of a row, host and connectivity, are folded into the classification that
    `incidentClassification` makes of them; no two pairs that `classify` returns share one.
  * `closed` says that a row was computed after its window had ended, which the code can tell
    from RecalculatedAt. `Finalized`, which no code of the engine reads, is left out.
  * The health ticker fires at the start of a bucket. The code's ticker has any phase, but fires
    once per bucket all the same.
  * Assumed: the sample of a bucket is recorded before that of the next one arrives, and its
    transaction does not fail. The code throws that error away; with a failure `RowsSettle`
    does not hold (listed as a hazard).
  * The reads and the transaction of `closeStaleNode` are one step. Only the engine writes rows,
    and an end of the binding in between closes the same incidents.
  * A locked database (`Busy`) ends the turn; any other error of `Recompute` does so too.
  * An Agent may report although its binding has ended, since `Store.Ingest` looks at its
    credential only; `Lingers` bounds for how long.
  * A Collector's fact is delivered once. Receipts see to that, except across a restart of the
    Collector.
  * Hour spans and compaction are not modelled.
* **ConfigSync** — which nodes a Collector may serve. `tag`, `binding`, `scope`, `status`,
  `version` and `open` (the nodes with an assignment whose ValidTo is 0) are tables of the
  Primary; every transaction is one action, and a handler that does its work in two has a
  variable for what it has yet to do (`refreshing`, `deleting`, `rotating`). `BindServerNode`
  closes the assignment of the node before and syncs that of the new one; `UpdateScope` is
  `replaceCollectorScopes`, which walks through the bindings and may give up; the Sync handler is
  `OpenStream`, `SendConfig` and `HandleRuntime`, with `sent` its copy of the version, read before
  the assignments; `cache` is what `SaveAuthorization` has stored at the Collector. Tags stand for
  everything a scope matches a server by. One observer Collector: other Collectors have rows of
  their own. A browser or a Collector that asks twice is an action taken twice. `edition`,
  `overwritten` and `lagging` are history variables that no guard reads.
* **RouteJobs** — a route job from the administrator's request (`RequestRoute` looks for a pending
  job, `CreateJob` inserts one, in two steps, as in the code) to its row. The handler of the Sync
  stream answers a Runtime (`HandleRuntime`), inserts the rows of a batch of samples and finishes
  their jobs (`InsertRoute`, `FinishJob`: no transaction holds the two together). At the Collector
  `Mark` and `Push` are the two halves of `enqueueRoute`, inside and outside the lock, for both of
  its callers; `routeWorker` is `StartTrace`, `QueueSample`, `MarkRouteDone`. `targets` is what the
  Collector has cached of the last configuration that arrived, as the keys it allows: `SaveTargets`
  replaces it, `EnqueueJob` passes over a job it lacks, and a batch is passed over as a whole when it
  cannot be read (`TargetsUnreadable`). How the Primary makes a configuration is left to
  **ConfigSync**: here any may arrive at any time, and a key may be in `targets` at the start, as an
  earlier process left it. The prober's copy of the targets may be older than the cache, so
  `ScheduleRoute` takes any key. `SyncTick` is the ticker, which fires whatever became of its last
  messages; the model stops it only while `StreamCap` messages are on the stream. Capacities are
  constants. A key is a server and a protocol; what a trace measures, and whether it succeeded, is
  left out, since a job is finished either way.
* **NetworkHistory** — `networkHistoryCache.ts` (cache, `inflight`, `waiting`, `active`) with its
  two users, the tiles and the chart. JavaScript runs to the next await: an action is what lies
  between two awaits. A history is the number of times it has grown; `requests` is what
  `loadNetworkHistory` has started and `loads` who waits for what. `Settle` is the end of a
  request with its `finally` block. A tile loads once: `useInView` sets its `load` and never resets
  it. A tile that finds its history in the cache when it is mounted is a load that is a cache hit;
  one that is unmounted and mounted again is not modelled. HTTP errors and timeouts are `FetchFails`. `Math.max(0, ...)`
  of `release` is not needed: `TypeOK` shows it.

## 3. Runs

| Run | Question | Instance |
|---|---|---|
| `replication` | Safety of the whole pipeline, and that it implements `Custody` | one session, events 1 (HEARTBEAT) and 2, or a gap 2–3 instead; one record per TelemetryBatch; 4 rows enqueued, after which only rows that fit in a last transaction; replication batches of 2; an event that the Primary rejects; one fault (broken stream, failed handler, restart) |
| `replication_live` | The same with TelemetryBatches of 2 records, whose transaction advances the cursor several times, and progress under fairness | 3 rows, one fault |
| `replication_observation` | finding, see below | no faults |
| `replication_loss` | finding, see below | no faults |
| `primary_ingest` | Safety of the direct path | events 1, 3 (HEARTBEAT), 4 and a gap 2–3 from the Agent, event 2 or gap 2–2 from a Collector; batches of up to 2 records; queue of 2; grace 2; clock 0 to 3 |
| `primary_ingest_lost` | finding, see below | the same |
| `availability` | Safety of the engine, and progress under fairness | the Primary and one Collector; buckets of 2 instants, the node bound within the second one, clock up to the fourth; an observation and an unhealthy sample of the Collector, however late; the Agent still reports in the instant its binding ends; 2 entries per turn; one failure or restart |
| `availability_replay` | finding, see below | the same with the late observation only; the Agent reports for an instant longer |
| `config_sync` | Do assignments follow bindings and scopes, and the Collector's cache the assignments? | two servers, which may share a node, two nodes; two tags, two scopes, of which one matches everything; three changes of any kind; one broken stream, crash or expired certificate |
| `route_jobs` | Marks, queue, deadline and resending of route jobs | two keys, two jobs, one administrator, one scheduled route; a queue and a sample list of length 1; one of the keys among the cached targets; two messages on the stream; one disturbance: broken stream, restart, unreadable cache or new configuration |
| `route_jobs_once` | finding, see below | both keys among the cached targets; no scheduled routes and no disturbance, two samples |
| `network_history` | Pool, chart and refresh of the network page | two servers, one of them with a tile; three loads of the chart; two slots; a history that grows twice; any number of failures |

What each property says stands above its definition. In short:

* `NoSilentLoss`: each acknowledged sequence is covered by an event or gap in the Outbox or at
  the Primary. `StoredHasRow`, `SpoolIdsAdvance` and `CommittedIsReplicated` are what it rests
  on: duplicates are still spooled, a cumulative spool id names what it releases, and no answer
  covers a row the Primary lacks.
* `ObservationHasEvent`, `PersistentObservationKept`: the pairing of an event with the
  observation behind it survives discards, batch boundaries and lost ACKs, as far as the event
  is persisted.
* `AckIsExpected`: the identity check of `replicateBatch` never fails on an open stream.
* `AckThroughGrows`, `AckGrows`: cumulative ACKs never go back.
* `BacklogDrains`: what the Outbox accounts for is at some time accounted for at the Primary.
* `AckIsAccounted`: the direct ACK passes only what was taken in, has a row, or has a gap.
* `HoleIsNext`, `HolePatience`, `RowsAreNotLost`: the hole under watch is the one the ACK waits
  at; nothing is declared lost unless another batch, received a grace period earlier, had already left
  the ACK waiting there; an inferred gap covers no persisted event and nothing another gap covers.
  `HolePatience` is about receive times. Two batches that waited in the queue can be served back to
  back, and the second then declares lost what the first has just left open; the code ages holes by
  receive times, no document says which clock counts, and the property does not exclude it.
* `RowsSettle`: once the sample of a bucket is recorded, the bucket before is queued or its row
  was computed after its window: no "unknown" of a running window stays for want of a last look.
* `RevisionsAreComplete`, `OneIncidentPerStart`, `IncidentsEndAfterStart`: every correction of an
  incident is in its audit trail under its own number; an incident is found again by the bucket
  it starts with, although its end moves back and forth; no end lies before its start.
* `QueueDrains`: the queue is empty again and again. `Recovers`: if from some time on the node's
  last ended bucket is recovered, or its binding has ended, then from some time on no incident
  is open.

* `EqualVersionsAgree`: the Sync handler may compare versions instead of assignments, although it
  reads the one before the other and in no common transaction. `ScopesAreApplied`,
  `AssignedNodesAreBound`: what many small transactions add and close is what the scopes ask for,
  and nothing stays that nobody would close. `CacheAdvances`, `ConfigArrives`: the Collector never
  goes back, and ends up with the assignments of the Primary. The exemptions are stated above the
  definitions and are real: a crash between the two transactions of a handler leaves a server
  behind until somebody changes it again, and a rotation that overwrites a newer version
  (`api_v2_spa.go:2207`) may leave a Collector with a stale configuration.
* `OneTracePerKey`: `routeInflight` is the set of keys of the accepted work, each there once,
  although it is set and cleared by three goroutines. `SettlesOnce`: a job leaves "pending" once,
  after its row or after its deadline. `JobsSettle`: if a key stays among the cached targets from some
  time on, all its jobs are settled, whether or not the clock goes on. A job of any other key is
  passed over at each tick and settles by its deadline only; so the property says nothing of it.
* `SlotsAreHeld`: the counter of slots is the number of requests that have one, never more than
  the limit, and nobody waits while one is free. `ShownIsCurrent`: what is on screen is for the
  server that is selected. `RefreshNeverGoesBack`: a refresh does not replace a history by an older
  one. `LoadsSettle`: every load ends and every slot comes back.

**Bounds.** A spool of four rows holds an event, its observation, a gap and one more, so that
a batch of two can split a pair, overtake a discard and be answered from the receipt of an
earlier batch with other rows. One fault suffices for every combination of a resent batch and
a stale one; the proofs below cover any number. Three time units with a grace of two let a
hole appear, fill, reappear, and run out. Three buckets are enough for an incident, the one it is
prolonged by, and one that recovers, and for evidence that arrives one and two buckets late; the
bucket before them, which the first sample queues too, is one the node was not assigned in. With
two entries per turn a third one has to wait. Three changes let a server be bound, moved to the other's node and taken out of scope while a
configuration is on the way. With a queue and a sample list of one place, two keys fill them;
two jobs can be for the same key, one after the other has expired or been finished. A second
administrator, with whom two jobs of one key can be pending at a time, is beyond TLC's reach
here: the actions allow it, the instance has one. Three loads of the chart and a tile are four
requests for two slots, so that two wait, and a load can be overtaken twice.
`MaxSpoolId`, `MaxFaults`, `MaxTime`, `BatchRecords`, `MaxChanges`, `MaxJobs`, `MaxScheduled`,
`MaxDisturbances`, `StreamCap`, `Lingers`, `MaxHistory` and `MaxLoads` appear only in guards, in types
or in the set of possible inputs. The
configurations of `replication`, `replication_live`, `config_sync` and `network_history` say
`CHECK_DEADLOCK FALSE` because the system may stop: when the bounds are used up and the Outbox is
empty; when the Collector is deleted; when nobody touches the page.

**Fairness.** `FairSpec` asks weak fairness of `SendBatch`, `PrimaryHandles` and `ReceiveAck`:
`replicationLoop` retries for ever with a bounded back-off (`nextReplicationRetry`), the
handler answers each batch it receives, and the loop reads the answer. Nothing is assumed of
Agents, of faults, of the health loop or of stale batches. Faults are bounded, i.e. they cease
at some time. Without the bound the property is false, as it should be.
The specification of `Availability` asks weak fairness of `Loop`, the steps of the goroutine of
`Engine.Run`, as one action: the process ticker fires every two seconds, and the goroutine blocks
nowhere else. Nothing is assumed of evidence, of the clock or of the end of the binding. The runs
of `Availability` allow deadlock to be checked: the loop always has a next step.
`ConfigSync`: `syncLoop` connects again ten seconds after any end of a stream, its ticker sends a
Runtime every fifteen, which the handler answers; the Collector saves what it receives. Nothing is
assumed of administrators; changes and faults are bounded, i.e. they cease.
`RouteJobs`: each goroutine that has a step to take takes it at some time: the handler of the
stream, the `routeWorker` (a trace has a timeout of 45 seconds), and the prober once it has marked a
key. The Sync goroutine has two fairness conditions, for its ticker (`SyncTick`) and for what comes
from the stream, since its select takes neither for ever. Nothing is assumed of the clock, of
configurations or of routes that come due; disturbances are bounded, i.e. they cease.
`NetworkHistory`: the browser goes on with whatever can go on, and a fetch that does not fail is
answered at some time; weak fairness of the disjunction (`Continue`) suffices, since each request
and each load has finitely many steps.

### Findings

* `replication_observation` violates `ObservationKept`. The 512-row limit of `ReadOutbox` can
  fall between a HEARTBEAT and the observation behind it. The Primary then finds the event
  neither in the batch nor in a table, skips the observation (`service/telemetry/store.go:103`)
  and acknowledges the batch. The evidence that this Collector saw the node is lost, unless
  another observation falls into the same 30-second bucket. For persisted events the same
  situation is handled (`PersistentObservationKept` holds).
* `replication_loss` violates `LossIsUnsynced`. An ACK that is committed between the read and
  the transaction of `EnforceSpoolPolicy` does not keep the acknowledged rows from being
  declared lost: the Primary gets HARD_LIMIT gaps and a count of lost records for data it has.
  Nothing is lost by it (`NoSilentLoss` holds).
* `primary_ingest_lost` violates `ReceivedAreNotLost`. Sequences of events that are not
  persisted and arrived beyond a hole are swallowed by the gap the Primary infers when the
  grace period ends, unless the batch at hand repeats them. `TestHoleHealsAfterGrace` has it
  repeat them and expects the gap to be the missing sequence only.
* `availability_replay` violates `LateReplayIsRecomputed`. `ProcessQueue` deletes a queue entry by
  its key after the recompute, in another transaction (`service/availability/engine.go:96-103`).
  A late observation recorded in between queues the bucket again, the deletion removes that entry,
  and the row of the ended bucket never counts the observation, contrary to
  `docs/reliable-telemetry.md:62`. For a bucket that is still open the next health sample repairs
  it (`RowsSettle` holds).

* `route_jobs_once` violates `RunsOnce`. `docs/reliable-telemetry.md:38` offers to run a route once
  more. The Collector sends the Runtime of a tick before its samples
  (`service/collector/runtime.go:256-261`), so the Primary lists a job as pending whose trace is the
  next message; the mark of the key is cleared by then, and the job is traced and recorded again.

**What no property covers** although the models can do it, because the code does it and no document
promises otherwise: a rotation overwrites a newer version, and the Collector keeps a stale
configuration; two administrators create two jobs for one pair; an older response overwrites a newer
cache entry of the network page. Each is a hazard without properties in `PROJECT.json`.

Two more observations, which contradict no document and are listed as hazards: a late correction
can reopen an incident while another one of the node is open, and can end an incident whose later
buckets stay OFFLINE without one.

## 4. Proofs

`ReplicationProofs` proves, for all sessions, records, batch sizes, bounds and numbers of
faults, from the two assumptions on the constants (`CollectorAssumption`,
`ReplicationAssumption`):

| Theorem | Statement |
|---|---|
| `TypeCorrect` | `Spec => []TypeOK` |
| `InvariantHolds` | `Spec => []IInv` |
| `AcknowledgedAreAccountedFor` | `Spec => []NoSilentLoss` |
| `DuplicatesAreSpooled` | `Spec => []StoredHasRow` |
| `SpoolIdsNameRows` | `Spec => []SpoolIdsAdvance` |
| `AnswersAreTrue` | `Spec => []CommittedIsReplicated` |
| `AnswersAreExpected` | `Spec => []AckIsExpected` |
| `CumulativeAckIsMonotone` | `Spec => AckThroughGrows` |
| `RefinesCustody` | `Spec => ImplementsCustody` |
| `AcksAdvance` | `Spec => CommittedThroughGrows` |
| `DeclaredLostIsKnown` | `Spec => []SelectedIsKnown` |
| `PipelineIsAccountable` | `Spec => []C!Accountable` |

`PairProofs` proves, from the same assumptions and the invariant of `ReplicationProofs`:

| Theorem | Statement |
|---|---|
| `PairsHold` | `Spec => []PairInv` |
| `ObservationsArePaired` | `Spec => []ObservationHasEvent` |
| `EvidenceIsKept` | `Spec => PersistentObservationKept` |
| `NoFactIsInvented` | `Spec => []NothingInvented` |

`AvailabilityProofs` proves, for all bucket sizes, observers, facts, queue limits and numbers of
failures, from `AvailabilityAssumption` (which says, among others, that there are finitely many
Collectors, so that healthy observers can be counted):

| Theorem | Statement |
|---|---|
| `TypeCorrect` | `Spec => []TypeOK` |
| `InvariantHolds` | `Spec => []IInv` |
| `AuditTrailComplete` | `Spec => []RevisionsAreComplete` |
| `StartsAreDistinct` | `Spec => []OneIncidentPerStart` |
| `EndsFollowStarts` | `Spec => []IncidentsEndAfterStart` |
| `RowsAlwaysSettle` | `Spec => []RowsSettle` |
| `StatesFitSummaries` | `Spec => []StatesAreWitnessed` |
| `OfflineNeedsWitnesses` | `Spec => []OfflineIsWitnessed` |
| `IncidentsSayTheFault` | `Spec => []IncidentsAreFaults` |
| `AuditKeepsHistory` | `Spec => AuditIsAppendOnly` |
| `LookupsAreDecided` | `Spec => []LookupsDecide` |

`ConfigSyncProofs` proves, for all servers, nodes, tags and scopes and any number of changes and
faults, from `ConfigSyncAssumption`:

| Theorem | Statement |
|---|---|
| `TypeCorrect` | `Spec => []TypeOK` |
| `AssignmentsBound` | `Spec => []AssignedNodesAreBound` |
| `AssignmentsApplied` | `Spec => []ScopesAreApplied` |
| `VersionsSuffice` | `Spec => []EqualVersionsAgree` |
| `CacheNeverOlder` | `Spec => CacheAdvances` |
| `VersionsTell` | `Spec => []VersionTellsAssignments` |
| `DeletedServes` | `Spec => []DeletedServesNobody` |

`PrimaryIngestProofs` proves, for all sessions, records, batches, queue sizes and grace periods, from
`IngestAssumption`:

| Theorem | Statement |
|---|---|
| `TypeCorrect` | `Spec => []TypeOK` |
| `HoleStaysNext` | `Spec => []HoleIsNext` |
| `AckAccounted` | `Spec => []AckIsAccounted` |
| `AckNeverBack` | `Spec => AckGrows` |
| `RowsNeverLost` | `Spec => RowsAreNotLost` |
| `PatienceProved` | `Spec => HolePatience` |
| `LossesCountOnce` | `Spec => []LossesAreDisjoint` |
| `AcknowledgedNeverLost` | `Spec => LossIsAwaited` |
| `AnswersAreMaximal` | `Spec => AckStopsAtHole` |
| `HolesAreClosed` | `Spec => HolesClose` |

`NetworkHistoryProofs` proves, for any servers, tiles, slots and number of loads, from
`NetworkHistoryAssumption`:

| Theorem | Statement |
|---|---|
| `InvariantHolds` | `Spec => []IInv` |
| `TypeCorrect` | `Spec => []TypeOK` |
| `SlotsAreCounted` | `Spec => []SlotsAreHeld` |
| `ChartIsCurrent` | `Spec => []ShownIsCurrent` |
| `RefreshIsNewer` | `Spec => RefreshNeverGoesBack` |
| `HistoriesReachTheirServer` | `Spec => []LoadsGetTheirServer` |
| `NobodyIsForgotten` | `Spec => []NobodyWaitsInVain` |

`RouteJobsProofs` proves, for any keys, cached targets, administrators, queue sizes and numbers of jobs
and disturbances, from `RouteJobsAssumption`:

| Theorem | Statement |
|---|---|
| `TypeCorrect` | `Spec => []TypeOK` |
| `JobsSettleOnce` | `Spec => SettlesOnce` |
| `TracesDoNotMeet` | `Spec => []OneTracePerKey` |
| `TracesAnswer` | `Spec => []TracesAnswerTheirJobs` |

Seventeen definitions in these tables, from `CommittedThroughGrows` and `SelectedIsKnown` to
`TracesAnswerTheirJobs`, and `Accountable` of `Custody`, stand in the
`Properties` sections of the models but in no configuration under `tla/`: they were tried with TLC on
the instances of the runs above and then proved for every instance. To try one again, add it to the
INVARIANTS or PROPERTIES of the configuration of its module.

**The argument for replication.** `NoSilentLoss` is not inductive: an ACK removes rows on the word of the
Primary, and that word may be a receipt written long before, for a batch with the same
sequence but other rows. `IInv` adds what makes the word good:

* `SpoolIdsAdvance`, `CursorBehind`: spool ids are unique, above the committed one and below
  the counter, so that "up to id k" means the same rows for ever;
* `SelectedIds`: the same for the rows EnforceSpoolPolicy has read, although they may be gone;
* `BatchesName`: every batch in flight, on this stream or a broken one, contains the fact of
  each Outbox row up to the id it names, and no sequence that nobody accounts for;
* `AnswersHold`: every ACK in flight and every receipt covers only rows whose events and gaps
  the Primary has. It is kept because new rows get ids above all that are named, and because
  the rows that a discard adds are new rows;
* `StoredHasRow`: a batch of duplicates therefore adds nothing and acknowledges only what rows
  answer for.

Each part has a lemma that says every step keeps it (`SpoolIdsKept`, `SelectedKept`,
`BatchesKept`, `AnswersKept`, `CursorsKept`), on top of lemmas about what each action does to
the rows (`IngestRows`, `LossRows`, `RowsAdvance`, `CustodyGrows`). The cursor's loop enters
through `CursorInduction`: what holds at the cursor and is kept by one turn holds where the
loop stops. `AcksAdvance` needs `IdentitiesAdvance`: every answer that can still arrive under the
present identity was given for an id above the committed one. `DeclaredLostIsKnown` is the good half
of the finding `LossIsUnsynced`: the rows that `EnforceSpoolPolicy` wrongly declares lost are of events
and gaps the Primary has; it follows from `AnswersHold`. `PipelineIsAccountable` is an invariant of
`Custody` (`CustodyIsAccountable`), which the refinement carries over. `RefinesCustody` maps `Ingest`, `RecordHealth` and `DiscardSelected` to `Accept`,
the Primary's commits to `HandOver` and `ReceiveAck` to `Release`.

**The argument for the pairs.** An event and the observation behind it are rows with consecutive
ids. `ObservationHasEvent` alone is not inductive, because a discard is chosen in one step and made
in others, and because an ACK may end between the two rows. `PairInv` adds:

* `ObservationsFollow`: the row just before an observation is its event, unless the Primary has the
  event;
* `StoredInPairs`: an event that Ingest would take for a duplicate has its observation stored too,
  or the Primary has it, so that ingest never spools half a pair;
* `SelectedInPairs`, `SelectedIsPrefix`: what EnforceSpoolPolicy has read is a prefix of the Outbox
  that does not end inside a pair;
* `ReleasedArePaired`: of what it has read, only rows whose event the Primary has can have gone
  before they are discarded.

An ACK that separates a pair tells of an event the Primary has, by `AnswersHold` of the previous
invariant. `EvidenceIsKept` needs `EvidenceRecorded` besides: an answer that covers the row of a
persistent observation was given by a Primary that has recorded it. `NoFactIsInvented` needs the same
of every fact that a discard has read, or that is in a batch on this stream or a broken one
(`AllStandForRecords`).

**The argument for availability.** The three properties of incidents are inductive together with
`TypeOK` (`IInv`): what the table holds changes only by closing (`ClosingKeeps`), updating
(`UpdateKeeps`) and creating (`CreateKeeps`), and `ReviseKeeps` shows that `reviseIncident` uses
them within their conditions. For `OneIncidentPerStart` that is the fact that `lookupIncident`
finds the incident of a bucket before anything is created (`LookupFinds`). For
`IncidentsEndAfterStart` it is that an incident is prolonged or ended only by a bucket that does
not precede its start; an incident that the end 0 reopens ends nowhere.
`RowsSettle` is not inductive, because time passes and entries are deleted. `SettleInv` adds that a
sample that waits is the one of the present bucket, and that the row whose entry is deleted next
has settled if it is due. Hence a bucket that becomes due is queued in the same step (`SampleSettles`), time alone makes nothing due
(`AdvanceSettles`), what is recomputed when it is due has ended (`RecomputeSettles`), and what is
deleted has been recomputed since it was due or is not due yet (`DeletionSettles`). The arithmetic
of buckets, which are multiples of `Size`, is proved in `MultiplesAreApart`, `BucketBounds`,
`BucketStep` and `NextBucketOrEarlier`.
What is on record is explained by what is recorded beside it (`StatesAreWitnessed`), which is inductive
since a summary and its state are written together, and since an incident that ends or reopens keeps
both; `OfflineIsWitnessed` is that and the definition of `Classify`. `LookupsDecide` follows from
`OneIncidentPerStart` and from the greatest start there is, of finitely many.

**The argument for the configuration.** `ScopesAreApplied` needs `SharedLag` (servers that share a
node are all exempt, so that a server that is not decides alone over its node) and `Applied`, the same
statement for a Collector that is disabled too, since a rotation enables it again. `EqualVersionsAgree` compares a copy of the version with tables that were
read later. What it rests on: the version rises with every change of the assignments, unless a
rotation writes an old one back; hence what is sent is no newer than the tables (`SentIsPast`), and
as long as the version is the one sent, the assignments are those that were sent. `CacheAdvances`
needs that the editions on the way and in the cache stand in the order they were sent in
(`EditionsInOrder`), which a broken stream keeps because it loses them all. `VersionTellsAssignments` drops the handler's
copy from the statement: a configuration anywhere on its way, or in the cache, whose version is that of
the tables has their assignments. It adds that no configuration has a version that is yet to come
(`VersionsPast`). `DeletedServesNobody` holds because a deletion closes the assignments in the
transaction that sets the status, and every action that assigns looks at the status.

**The argument for the direct path.** The places where the cursor's loop can stop are defined by
sets rather than by recursion; that they exist and what lies before them (`StopsKnown`,
`HoleEndFacts`) is induction over the sequences, in the form of least and greatest elements of sets
of naturals (`LeastNatural`, `GreatestNatural`, from the well-foundedness of the naturals).
`OutcomeFacts` says what a cursor becomes, `IngestFacts` what a job changes, and `InferredBy` that a
declared gap starts behind the ACK at a hole that is old enough. `HoleIsNext` is inductive
with the types, and `AckIsAccounted` with both, since what accounts for a sequence is never taken
back (`RowsGrow`). `RowsAreNotLost` adds that the event table holds events only (`EventRows`), and
`HolePatience` adds `HoleMet`: the time a hole is recorded with is the receive time of a batch in
`stood`, that is of one that left the ACK where it still is. The four properties of one answer rest on what
`OutcomeEnds` says of the place the cursor stops at: what is inferred is awaited and passed (`Awaited`),
nothing known is left behind the ACK (`Thorough`), and a hole that is old enough is passed (`Closes`).
`LossIsAwaited` limits the finding `ReceivedAreNotLost`: what the Primary declares lost by mistake was
received beyond the ACK, and never acknowledged before.

**The argument for the network page.** `PoolInv` joins the counter of slots to the requests that
have one and the queue to those that wait, each once (`QueueWaits`): a release either lowers the
counter and removes a holder or replaces one holder by the head of the queue. `FewRequests` bounds
the requests by the loads. `RefreshNeverGoesBack` needs that rows come from the history
(`RowsKnown`), that a number is given to one load only (`LoadsNumbered`), so that the chart does not
change while its latest load waits, and that a refresh has a request of its own, which the Primary
answers after that load began (`ForcedFresh`). Without the second fact a refresh could be overtaken
by a load with the same number; without the third it could be given the rows of an older request.
`LoadsGetTheirServer` is inductive with these: a load that joins takes what `inflight` has for its
server, and an entry is only ever deleted or replaced by a new request of the server, even when the
request that deletes it is not the one it names. `NobodyWaitsInVain` is what the liveness of
`LoadsSettle` needs of every state, and holds for any number of loads: a waiting request has its place
in the queue (`QueueIsComplete`), a spinner a load (`SpinnersHaveLoads`), and by `SlotsAreHeld` a queue
means that all slots are taken, of which there is at least one.

**The argument for the route jobs.** `OneTracePerKey` is inductive with the types: a key that is
marked is in flight nowhere else, work moves from a mark to the queue and from the queue to the
routeWorker with its key, and a mark goes only with the one piece of work it stands for (`MarkKeeps`,
`PushKeeps`, `StartKeeps`, `DoneKeeps`). The action property `SettlesOnce` needs one more fact:
the row that `InsertRoute` has inserted is recorded until `FinishJob`, whatever interrupts the handler
(`InsertedIsRecorded`). `TracesAnswerTheirJobs` is inductive in a form that names every place where
work can be, those a fault empties included (`OnlyRightful`).

**Only model-checked:** `BacklogDrains`, `QueueDrains`, `Recovers`, `ConfigArrives`, `JobsSettle` and
`LoadsSettle` (liveness under fairness is out of the prover's reach). Every other property of a
passing run is proved. Of `LoadsSettle` and `ConfigArrives` the safety part that can be stated alone
is proved instead: `NobodyWaitsInVain`, `VersionTellsAssignments`.

## 5. Not modelled, and plan

Most TypeScript and Vue of the repository is a generated API client, translations, forms, tables,
charts and vendored scripts. It keeps little state of its own and decides nothing; the core logic of
the system is the Go code above. Of the front end the network page is modelled, because it is where
responses overtake each other. Queries, formatting, cryptography, file handling and wiring (reports,
bot, PKI, controllers, start) are left out for the same reason, each listed in `PROJECT.json`.

Done: the pipeline Agent → Collector → Primary, the direct path, the availability engine, the
configuration of Collectors, the route jobs and the network page, each with its proofs. The rest,
in order:

1. Compaction of availability rows into spans, against late corrections.
2. The offline detectors (V2 and V1, report handlers, reconciliation at start; at most one open row
   per server, no overlap), and the status store of the public page (frames against the snapshot,
   reconnection).
3. Runtime updates of events (`telemetry_runtime.go`) against a rebinding in between.
4. Probe samples other than routes: targets, caps, retention.
5. Notifications, traffic policy, NAT and control streams as far as they add questions of their own.
