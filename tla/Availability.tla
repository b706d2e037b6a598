---------------------------- MODULE Availability ----------------------------
(***************************************************************************)
(* The availability engine of the Primary, for one node                    *)
(* (service/availability/engine.go), with the writers of its input         *)
(* (recordPathEvidence and Replicate in service/telemetry/store.go).       *)
(*                                                                         *)
(* Evidence falls into time buckets.  Whoever writes evidence queues its   *)
(* bucket in the same transaction; one goroutine, Engine.Run, reads some   *)
(* of the queue, recomputes the row of each bucket in a transaction of its *)
(* own and then deletes the queue entry in another.  A changed row opens,  *)
(* extends, corrects or ends an incident.                                  *)
(*                                                                         *)
(* Times are instants, a bucket is the instant at which it starts.  Rows   *)
(* that compaction merged into hour spans are not modelled.                *)
(***************************************************************************)
EXTENDS Integers, FiniteSets, Sequences

CONSTANTS
  Collectors,       \* the observers assigned to the node beside the Primary
  Primary,          \* the observer "primary"
  Size,             \* bucketSize
  MinObservers,     \* Engine.minimum
  Limit,            \* how much of the queue one ProcessQueue reads
  BoundAt,          \* when the node was bound and its observers assigned
  MaxTime,          \* bound: the clock stops here
  Facts,            \* what Collectors replicate, each once and however late
  Lingers,          \* bound: how long an Agent reports on when its binding has ended
  MaxFaults         \* bound: failed transactions and restarts

ASSUME AvailabilityAssumption ==
  /\ Primary \notin Collectors /\ IsFiniteSet(Collectors)
  /\ Size \in Nat \ {0} /\ MinObservers \in Nat \ {0} /\ Limit \in Nat \ {0}
  /\ MaxTime \in Nat /\ BoundAt \in Size .. MaxTime /\ MaxFaults \in Nat /\ Lingers \in Nat
  /\ Facts \subseteq [observer : Collectors, bucket : {(t \div Size) * Size : t \in BoundAt .. MaxTime},
                      view : {"unhealthy", "healthy", "seen"}]

VARIABLES
  now,              \* the clock
  until,            \* end of the binding and its assignments, 0 while current
  healthy,          \* ObserverHealthBucket rows that say healthy
  seen,             \* ObserverPathBucket rows
  queue,            \* AvailabilityRecomputeQueue
  rows,             \* AvailabilityBucket rows
  incidents,        \* AvailabilityIncident rows, by ID
  revisions,        \* IncidentRevision rows
  tick,             \* the sample time in healthTicker's channel, 0 for none
  at,               \* where Engine.Run is
  todo,             \* what ProcessQueue read and has not finished
  delivered,        \* the facts replicated so far
  faults            \* what MaxFaults bounds

evidenceVars == <<healthy, seen>>
incidentVars == <<incidents, revisions>>
loopVars     == <<tick, at, todo>>
vars == <<now, until, healthy, seen, queue, rows, incidents, revisions, tick, at, todo, delivered, faults>>

Observers  == Collectors \cup {Primary}
Bucket(t)  == (t \div Size) * Size
Buckets    == {Bucket(t) : t \in 0 .. MaxTime} \ {0}
States     == {"HEALTHY", "CONNECTIVITY_DEGRADED", "HOST_OFFLINE", "EVIDENCE_UNKNOWN"}
Recovered  == {"HEALTHY", "EVIDENCE_UNKNOWN"}
Views      == {"unhealthy", "healthy", "seen"}
Summary    == UNION {[S -> Views] : S \in SUBSET Observers}
NoRow      == [state |-> "NONE"]

\* closed: the window had ended when the row was computed (from RecalculatedAt).
Row        == [state : States, summary : Summary, revision : Nat \ {0}, closed : BOOLEAN]
Incident   == [startedAt : Buckets, endedAt : Nat, state : States, revision : Nat \ {0}, summary : Summary]
Revision   == [incident : Nat \ {0}, revision : Nat \ {0}, state : States, summary : Summary]

\* TypeOK: what the tables hold, and that ProcessQueue holds work exactly while
\* it runs.
TypeOK ==
  /\ now \in BoundAt .. MaxTime /\ until \in {0} \cup BoundAt .. MaxTime /\ tick \in {0} \cup BoundAt .. MaxTime
  /\ healthy \subseteq Observers \X Buckets /\ seen \subseteq Observers \X Buckets
  /\ queue \subseteq Buckets
  /\ rows \in [Buckets -> Row \cup {NoRow}]
  /\ incidents \in Seq(Incident) /\ revisions \subseteq Revision
  /\ at \in {"starting", "select", "recompute", "delete", "closing"}
  /\ todo \subseteq Buckets /\ (todo # {} <=> at \in {"recompute", "delete"})
  /\ delivered \subseteq Facts /\ faults \in Nat

\* The Primary starts in the bucket in which the node is bound.
Init ==
  /\ now = BoundAt /\ until = 0
  /\ healthy = {} /\ seen = {} /\ queue = {}
  /\ rows = [b \in Buckets |-> NoRow]
  /\ incidents = <<>> /\ revisions = {}
  /\ tick = BoundAt /\ at = "starting" /\ todo = {}
  /\ delivered = {} /\ faults = 0

------------------------------------------------------------------------------
(* Evidence.                                                                *)

Assigned(b) == {o \in Observers : BoundAt < b + Size /\ (until = 0 \/ until > b)}

\* Mutant: the bucket that has just ended is left alone.
EnqueuesCurrentOnly(b) == {b} \ {0}

\* Health of a bucket gives the one before it, now ended, its last recompute.
EnqueuedByHealth(b) == {b, b - Size} \cap Buckets

RecordPath(o, b) ==
  /\ healthy' = healthy \cup {<<o, b>>}
  /\ seen' = seen \cup {<<o, b>>}
  /\ queue' = queue \cup {b}

\* The Primary ingests an Agent's batch, which asks for no binding: it sees the node now.
PrimarySees ==
  /\ until = 0 \/ now <= until + Lingers
  /\ RecordPath(Primary, Bucket(now))
  /\ UNCHANGED <<now, until, rows, incidentVars, loopVars, delivered, faults>>

\* A Collector replicates an observation or a health sample of a bucket that
\* has begun; an observation says that its observer is healthy.
CollectorDelivers ==
  /\ \E f \in Facts \ delivered :
       LET o == f.observer
           b == f.bucket
       IN  /\ b <= now
           /\ delivered' = delivered \cup {f}
           /\ IF f.view = "seen" THEN RecordPath(o, b)
              ELSE /\ healthy' = IF f.view = "healthy" THEN healthy \cup {<<o, b>>} ELSE healthy \ {<<o, b>>}
                   /\ queue' = queue \cup (IF o \in Assigned(b) THEN EnqueuedByHealth(b) ELSE {})
                   /\ UNCHANGED seen
  /\ UNCHANGED <<now, until, rows, incidentVars, loopVars, faults>>

\* The ticker fires once a bucket; the sample before has been recorded by then.
Advance ==
  /\ now < MaxTime /\ now' = now + 1
  /\ IF now' = Bucket(now') THEN tick = 0 /\ tick' = now' ELSE UNCHANGED tick
  /\ UNCHANGED <<until, evidenceVars, queue, rows, incidentVars, at, todo, delivered, faults>>

------------------------------------------------------------------------------
(* Incidents.                                                               *)

Open      == {i \in DOMAIN incidents : incidents[i].endedAt = 0}
Latest(S) == {i \in S : \A j \in S : incidents[j].startedAt <= incidents[i].startedAt}

\* Mutant: the end of an incident is not kept behind its start.
CloseAtAnyTime(end) ==
  [i \in DOMAIN incidents |-> IF i \in Open THEN [incidents[i] EXCEPT !.endedAt = end] ELSE incidents[i]]

CloseOpenIncidents(end) ==
  [i \in DOMAIN incidents |->
     IF i \in Open
     THEN [incidents[i] EXCEPT !.endedAt = IF end < incidents[i].startedAt THEN incidents[i].startedAt ELSE end]
     ELSE incidents[i]]

\* Mutant: only an incident that reaches over the bucket is looked for.
LookupCovering(b) ==
  Latest({i \in DOMAIN incidents : incidents[i].startedAt < b /\ (i \in Open \/ incidents[i].endedAt >= b + Size)})

\* The incident that starts with the bucket, else the last one that covers it.
LookupIncident(b) ==
  LET exact == {i \in DOMAIN incidents : incidents[i].startedAt = b}
  IN  IF exact # {} THEN exact
      ELSE Latest({i \in DOMAIN incidents :
                     incidents[i].startedAt < b /\ (i \in Open \/ incidents[i].endedAt >= b + Size)})

\* The incident a bucket outside all of them prolongs.
LookupExtendable(b) ==
  IF Open # {} THEN Latest(Open)
  ELSE Latest({i \in DOMAIN incidents : incidents[i].endedAt = b /\ incidents[i].state # "HEALTHY"})

RevisionRow(i, n, row) == [incident |-> i, revision |-> n, state |-> row.state, summary |-> row.summary]

CreateIncident(b, row) ==
  /\ incidents' = Append(incidents, [startedAt |-> b, endedAt |-> 0, state |-> row.state,
                                     revision |-> 1, summary |-> row.summary])
  /\ revisions' = revisions \cup {RevisionRow(Len(incidents) + 1, 1, row)}

\* Mutant: a revision is written only when the classification changes.
ApplyByState(i, row, end) ==
  LET inc == incidents[i]
      n   == inc.revision + 1
  IN  IF inc.state = row.state
      THEN /\ incidents' = [incidents EXCEPT ![i].endedAt = end, ![i].summary = row.summary]
           /\ UNCHANGED revisions
      ELSE /\ incidents' = [incidents EXCEPT ![i] = [inc EXCEPT !.endedAt = end, !.state = row.state,
                                                               !.revision = n, !.summary = row.summary]]
           /\ revisions' = revisions \cup {RevisionRow(i, n, row)}

\* A new end alone is no revision; a new classification or new evidence is.
ApplyIncidentUpdate(i, row, end) ==
  LET inc == incidents[i]
      n   == inc.revision + 1
  IN  IF inc.state = row.state /\ inc.summary = row.summary
      THEN /\ incidents' = [incidents EXCEPT ![i].endedAt = end]
           /\ UNCHANGED revisions
      ELSE /\ incidents' = [incidents EXCEPT ![i] = [inc EXCEPT !.endedAt = end, !.state = row.state,
                                                               !.revision = n, !.summary = row.summary]]
           /\ revisions' = revisions \cup {RevisionRow(i, n, row)}

ReviseIncident(b, row) ==
  LET found == LookupIncident(b)
      known == IF found # {} THEN found ELSE LookupExtendable(b)
  IN  \/ /\ row.state \in Recovered /\ found = {}
         /\ UNCHANGED incidentVars
      \/ /\ row.state \in Recovered
         /\ \E i \in found :
              IF incidents[i].startedAt = b THEN ApplyIncidentUpdate(i, row, b + Size)
              ELSE /\ incidents' = [incidents EXCEPT ![i].endedAt = IF @ = 0 \/ @ > b THEN b ELSE @]
                   /\ UNCHANGED revisions
      \/ /\ row.state \notin Recovered
         /\ \E i \in known : ApplyIncidentUpdate(i, row, 0)
      \/ /\ row.state \notin Recovered /\ known = {}
         /\ CreateIncident(b, row)

------------------------------------------------------------------------------
(* Engine.Run.                                                              *)

RecordPrimaryHealth ==
  /\ tick # 0 /\ at \in {"starting", "select"}
  /\ LET b == Bucket(tick) IN
       /\ healthy' = healthy \cup {<<Primary, b>>}
       /\ queue' = queue \cup (IF Primary \in Assigned(b) THEN EnqueuedByHealth(b) ELSE {})
  /\ tick' = 0
  /\ at' = IF at = "starting" THEN "closing" ELSE at
  /\ UNCHANGED <<now, until, seen, rows, incidentVars, todo, delivered, faults>>

\* ProcessQueue reads the first entries of the queue and takes them in order.
First(S) == {b \in S : \A c \in S : b <= c}

ReadQueue ==
  /\ at = "select"
  /\ todo' = {b \in queue : Cardinality({c \in queue : c < b}) < Limit}
  /\ at' = IF todo' = {} THEN "closing" ELSE "recompute"
  /\ UNCHANGED <<now, until, evidenceVars, queue, rows, incidentVars, tick, delivered, faults>>

View(o, b) == IF <<o, b>> \notin healthy THEN "unhealthy" ELSE IF <<o, b>> \in seen THEN "seen" ELSE "healthy"

\* classify and incidentClassification: the two states of a row are one here.
Classify(summary, closed) ==
  LET alive == Cardinality({o \in DOMAIN summary : summary[o] # "unhealthy"})
      saw   == Cardinality({o \in DOMAIN summary : summary[o] = "seen"})
  IN  CASE saw > 0 /\ saw = alive -> "HEALTHY"
        [] saw > 0 /\ saw # alive -> "CONNECTIVITY_DEGRADED"
        [] saw = 0 /\ closed /\ alive >= MinObservers -> "HOST_OFFLINE"
        [] OTHER -> "EVIDENCE_UNKNOWN"

RecomputeBucket(b) ==
  LET summary == [o \in Assigned(b) |-> View(o, b)]
      closed  == b + Size <= now
      state   == Classify(summary, closed)
      old     == rows[b]
      changed == IF old = NoRow THEN TRUE ELSE old.state # state \/ old.summary # summary
      row     == [state |-> state, summary |-> summary, closed |-> closed,
                  revision |-> IF old = NoRow THEN 1 ELSE IF changed THEN old.revision + 1 ELSE old.revision]
  IN  /\ rows' = [rows EXCEPT ![b] = row]
      /\ IF changed THEN ReviseIncident(b, row) ELSE UNCHANGED incidentVars

Recompute ==
  /\ at = "recompute" /\ at' = "delete"
  /\ \E b \in First(todo) : RecomputeBucket(b)
  /\ UNCHANGED <<now, until, evidenceVars, queue, tick, todo, delivered, faults>>

\* Mutant: the entry stays in the queue.
KeepItem ==
  /\ at = "delete"
  /\ \E b \in First(todo) : todo' = todo \ {b}
  /\ at' = IF todo' = {} THEN "closing" ELSE "recompute"
  /\ UNCHANGED <<now, until, evidenceVars, queue, rows, incidentVars, tick, delivered, faults>>

\* The entry is deleted by its key, whatever was queued since it was read.
DeleteItem ==
  /\ at = "delete"
  /\ \E b \in First(todo) : queue' = queue \ {b} /\ todo' = todo \ {b}
  /\ at' = IF todo' = {} THEN "closing" ELSE "recompute"
  /\ UNCHANGED <<now, until, evidenceVars, rows, incidentVars, tick, delivered, faults>>

\* Mutant: what ProcessQueue has read survives the failure.
BusyKeepsTodo ==
  /\ at \in {"recompute", "delete"} /\ faults < MaxFaults
  /\ at' = "closing" /\ faults' = faults + 1
  /\ UNCHANGED <<now, until, evidenceVars, queue, rows, incidentVars, tick, todo, delivered>>

\* The database is locked, for the recompute or the delete: this turn ends.
Busy ==
  /\ at \in {"recompute", "delete"} /\ faults < MaxFaults
  /\ at' = "closing" /\ todo' = {} /\ faults' = faults + 1
  /\ UNCHANGED <<now, until, evidenceVars, queue, rows, incidentVars, tick, delivered>>

\* The ended bucket that ends last.
LatestClosedBucket == {b \in Buckets : /\ rows[b] # NoRow /\ b + Size <= now
                                       /\ \A c \in Buckets : rows[c] # NoRow /\ c + Size <= now => c <= b}

\* Mutant: whether the node is still somebody is not asked.
EndOfRecovered == {b \in LatestClosedBucket : rows[b].state \in Recovered}

\* Where the open incidents of a node are to end: with its binding, or, while
\* it is bound, with its last ended bucket if that has recovered.
StaleEnd == IF until # 0 THEN {until} ELSE {b \in LatestClosedBucket : rows[b].state \in Recovered}

CloseStaleIncidents ==
  /\ at = "closing" /\ at' = "select"
  /\ incidents' = IF StaleEnd = {} THEN incidents ELSE CloseOpenIncidents(CHOOSE t \in StaleEnd : TRUE)
  /\ UNCHANGED <<now, until, evidenceVars, queue, rows, revisions, tick, todo, delivered, faults>>

------------------------------------------------------------------------------
(* Around the engine.                                                       *)

\* EndServerNodeBinding, or another identity bound in place of this one.
EndBinding ==
  /\ until = 0 /\ until' = now
  /\ incidents' = CloseOpenIncidents(now)
  /\ UNCHANGED <<now, evidenceVars, queue, rows, revisions, loopVars, delivered, faults>>

\* The Primary stops and starts again: Run begins with a health sample.
Restart ==
  /\ faults < MaxFaults /\ faults' = faults + 1
  /\ at' = "starting" /\ tick' = now /\ todo' = {}
  /\ UNCHANGED <<now, until, evidenceVars, queue, rows, incidentVars, delivered>>

Loop == RecordPrimaryHealth \/ ReadQueue \/ Recompute \/ DeleteItem \/ CloseStaleIncidents

Next == \/ PrimarySees \/ CollectorDelivers \/ Advance
        \/ RecordPrimaryHealth \/ ReadQueue \/ Recompute \/ DeleteItem \/ CloseStaleIncidents
        \/ Busy \/ EndBinding \/ Restart

\* Run's goroutine is never stopped for good; failures are finitely many.
Spec == Init /\ [][Next]_vars /\ WF_vars(Loop)

------------------------------------------------------------------------------
(* What the engine must guarantee.                                          *)

\* RowsSettle: once the health sample of a bucket has been recorded, the bucket
\* before it is queued or its row was computed after its window had ended: a
\* row computed too early does not stay, whatever evidence, failed
\* transactions and restarts come between (engine.go, RecordPrimaryHealth).
Sampled == IF tick = 0 THEN Bucket(now) ELSE Bucket(now) - Size

RowsSettle ==
  \A b \in Buckets :
     b >= Bucket(BoundAt) /\ b + Size <= Sampled /\ Primary \in Assigned(b + Size)
        => b \in queue \/ (rows[b] # NoRow /\ rows[b].closed)

\* RevisionsAreComplete: the revisions of an incident are numbered without a
\* gap up to its own, there is one of each number, and the last one is what
\* the incident now says: the audit trail loses no correction.
RevisionsAreComplete ==
  \A i \in DOMAIN incidents :
     LET own == {r \in revisions : r.incident = i} IN
       /\ {r.revision : r \in own} = 1 .. incidents[i].revision
       /\ \A r, q \in own : r.revision = q.revision => r = q
       /\ RevisionRow(i, incidents[i].revision, incidents[i]) \in own

\* OneIncidentPerStart: no two incidents start with the same bucket, in
\* whatever order its evidence arrives and its row changes.
OneIncidentPerStart ==
  \A i, j \in DOMAIN incidents : incidents[i].startedAt = incidents[j].startedAt => i = j

\* IncidentsEndAfterStart: no incident ends before it starts, though late
\* evidence, an ended binding and stale rows all end incidents with times of
\* their own.
IncidentsEndAfterStart ==
  \A i \in DOMAIN incidents : i \notin Open => incidents[i].endedAt >= incidents[i].startedAt

\* StatesAreWitnessed: what a row, an incident or a revision says of the node is
\* what classify makes of the views recorded beside it, through every correction,
\* end and reopening (recomputeTx, applyIncidentUpdate).
Explains(summary, state) == \E closed \in BOOLEAN : state = Classify(summary, closed)

StatesAreWitnessed ==
  /\ \A b \in Buckets : rows[b] # NoRow => rows[b].state = Classify(rows[b].summary, rows[b].closed)
  /\ \A i \in DOMAIN incidents : Explains(incidents[i].summary, incidents[i].state)
  /\ \A r \in revisions : Explains(r.summary, r.state)

\* OfflineIsWitnessed: a host is never said to be offline, in an incident or its
\* audit trail, unless enough observers were healthy and none of them saw it.
OfflineIsWitnessed ==
  \A said \in {incidents[i] : i \in DOMAIN incidents} \cup revisions :
     said.state = "HOST_OFFLINE" =>
        /\ \A o \in DOMAIN said.summary : said.summary[o] # "seen"
        /\ Cardinality({o \in DOMAIN said.summary : said.summary[o] = "healthy"}) >= MinObservers

\* IncidentsAreFaults: an incident begins with a fault, and while it is open it
\* says what the fault is: a correction that says the node is well ends it.
IncidentsAreFaults ==
  /\ \A r \in revisions : r.revision = 1 => r.state \notin Recovered
  /\ \A i \in Open : incidents[i].state \notin Recovered

\* AuditIsAppendOnly: a correction adds to the audit trail and rewrites none of
\* it; an incident is never removed, nor moved to another start.
AuditIsAppendOnly ==
  [][/\ revisions \subseteq revisions'
     /\ \A i \in DOMAIN incidents :
          /\ i \in DOMAIN incidents'
          /\ incidents'[i].startedAt = incidents[i].startedAt
          /\ incidents'[i].revision >= incidents[i].revision]_vars

\* LookupsDecide: the lookups read one row "ORDER BY started_at DESC": there is never
\* a tie, and a bucket that an incident covers is never taken for a new one.
LookupsDecide ==
  \A b \in Buckets :
     /\ \A i, j \in LookupIncident(b) : i = j
     /\ \A i, j \in LookupExtendable(b) : i = j
     /\ (\E i \in DOMAIN incidents :
           incidents[i].startedAt <= b /\ (i \in Open \/ incidents[i].endedAt >= b + Size))
          => LookupIncident(b) # {}

\* QueueDrains: the queue is empty again and again, though ProcessQueue reads
\* only some of it, and a lock or a restart can cut it short.
QueueDrains == []<>(queue = {})

\* Recovers: when the last ended bucket of the node stays recovered, or the
\* node's binding has ended, it is left without an open incident for good.
AllClear == until # 0 \/ \E b \in LatestClosedBucket : rows[b].state \in Recovered

Recovers == <>[]AllClear => <>[](Open = {})

\* LateReplayIsRecomputed: when no health sample will come back to a bucket, an
\* observation of a healthy observer is counted in its row, or the bucket is
\* queued.  docs/reliable-telemetry.md says that a late replay recomputes the
\* historical bucket.
LateReplayIsRecomputed ==
  \A b \in Buckets : rows[b] # NoRow /\ b + Size <= Sampled /\ b \notin queue =>
     \A o \in DOMAIN rows[b].summary :
        <<o, b>> \in healthy \cap seen => rows[b].summary[o] = "seen"
==============================================================================
