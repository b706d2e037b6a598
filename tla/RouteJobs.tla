------------------------------ MODULE RouteJobs ------------------------------
(***************************************************************************)
(* Routes traced by a probing Collector.  An administrator's request is a  *)
(* row of the Primary (ProbeRouteJob) that stays pending until a trace     *)
(* with its id arrives or ten minutes have passed; until then the Sync     *)
(* stream sends it to the Collector in answer to every CollectorRuntime.   *)
(* At the Collector two goroutines, the prober for routes that are due and *)
(* the one of the Sync stream for jobs, put work into one queue for one    *)
(* routeWorker.  Both know only the targets of the last configuration that *)
(* arrived: what the Primary asks for beyond them is passed over.          *)
(*                                                                         *)
(* How a configuration comes about and arrives is the matter of            *)
(* ConfigSync; here any may arrive.                                        *)
(*                                                                         *)
(* No step of the Primary runs in a transaction with another.              *)
(***************************************************************************)
EXTENDS Integers, FiniteSets, Sequences, SequencesExt

CONSTANTS
  Keys,          \* what is traced: a server and a protocol
  Admins,
  CachedTargets, \* the keys that an earlier process left among the cached targets
  None,          \* no work, no key
  QueueCap,      \* capacity of routeCh: 32
  SampleCap,     \* length of pendingSamples: 256
  TTL,           \* probeRouteJobTTL: 10 minutes
  MaxTime,       \* bound: the clock
  MaxJobs,       \* bound: job rows
  MaxScheduled,  \* bound: routes that come due
  StreamCap,     \* bound: messages of the Sync stream under way or in the handler's hands
  MaxDisturbances  \* bound: broken streams, restarts, errors and configurations that arrive

JobIds == 1 .. MaxJobs

\* A job has its id; a route that was due has none.
Work == [key : Keys, job : JobIds \cup {0}]

ASSUME RouteJobsAssumption ==
  /\ CachedTargets \subseteq Keys
  /\ None \notin Keys \cup Work
  /\ QueueCap \in Nat \ {0} /\ SampleCap \in Nat \ {0} /\ TTL \in Nat /\ StreamCap \in Nat
  /\ MaxTime \in Nat /\ MaxJobs \in Nat /\ MaxScheduled \in Nat
  /\ MaxDisturbances \in Nat

VARIABLES
  clock,
  jobs,       \* ProbeRouteJob rows; a job's id is its position
  checked,    \* what each administrator's handler found no pending job for
  up, down,   \* messages of the Sync stream
  ingesting,  \* traces that the handler of a sample batch has yet to ingest
  inserted,   \* the row of the first of them is inserted
  pendingSamples,
  inflight,   \* routeInflight
  todo,       \* jobs of the batch that the Sync goroutine works through
  marked,     \* work that a goroutine has marked in flight and has yet to queue
  queue,      \* routeCh
  running,    \* the routeWorker's work
  traced,     \* whether its sample is queued
  targets,    \* CollectorCachedProbeTarget rows: the keys they allow
  scheduled, disturbances,
  recorded    \* history: jobs that have had a ProbeRouteRecord

primaryVars   == <<jobs, checked, ingesting, inserted>>
streamVars    == <<up, down>>
collectorVars == <<pendingSamples, inflight, todo, marked, queue, running, traced>>
countVars     == <<scheduled, disturbances>>
vars == <<clock, primaryVars, streamVars, collectorVars, targets, countVars, recorded>>

Goroutines == {"prober", "syncer"}

\* A job is finished, done or failed as its trace did, or failed as not picked up.
Job == [key : Keys, requested : 0 .. MaxTime, status : {"pending", "finished", "expired"}]

\* What the Collector sends: a batch of samples, which is never empty, or a Runtime.
Runtime == <<>>

\* What may come in between, up to a bound.
Disturbance == disturbances < MaxDisturbances /\ disturbances' = disturbances + 1

\* What the code needs its rows, messages and queues to be.
TypeOK ==
  /\ clock \in 0 .. MaxTime
  /\ jobs \in Seq(Job) /\ Len(jobs) <= MaxJobs
  /\ checked \in [Admins -> Keys \cup {None}]
  /\ up \in Seq(Seq(Work))
  /\ down \in Seq(Seq(Work))
  /\ ingesting \in Seq(Work)
  /\ inserted \in BOOLEAN
  /\ pendingSamples \in Seq(Work) /\ Len(pendingSamples) <= SampleCap
  /\ inflight \in SUBSET Keys
  /\ todo \in Seq(Work)
  /\ marked \in [Goroutines -> Work \cup {None}]
  /\ queue \in Seq(Work) /\ Len(queue) <= QueueCap
  /\ running \in Work \cup {None}
  /\ traced \in BOOLEAN
  /\ targets \in SUBSET Keys
  /\ scheduled \in 0 .. MaxScheduled /\ disturbances \in 0 .. MaxDisturbances
  /\ recorded \in SUBSET JobIds

Init ==
  /\ clock = 0
  /\ jobs = <<>> /\ checked = [a \in Admins |-> None]
  /\ up = <<>> /\ down = <<>>
  /\ ingesting = <<>> /\ inserted = FALSE
  /\ pendingSamples = <<>>
  /\ inflight = {} /\ todo = <<>> /\ marked = [g \in Goroutines |-> None]
  /\ queue = <<>> /\ running = None /\ traced = FALSE
  /\ targets = CachedTargets
  /\ scheduled = 0 /\ disturbances = 0
  /\ recorded = {}

----------------------------------------------------------------------------
(* The Primary.                                                            *)

Pending(js) == {j \in DOMAIN js : js[j].status = "pending"}

Overdue(j) == clock > jobs[j].requested + TTL

\* expireStaleProbeRouteJobs.
Expired ==
  [j \in DOMAIN jobs |->
     IF j \in Pending(jobs) /\ Overdue(j) THEN [jobs[j] EXCEPT !.status = "expired"] ELSE jobs[j]]

\* EnqueueProbeRouteJob expires what is stale and looks for a pending job of the
\* same collector, server and protocol.  If there is one it is the answer.
RequestRoute(a, k) ==
  /\ checked[a] = None
  /\ clock + TTL < MaxTime
  /\ jobs' = Expired
  /\ checked' = IF \E j \in Pending(Expired) : jobs[j].key = k
                THEN checked ELSE [checked EXCEPT ![a] = k]
  /\ UNCHANGED <<clock, ingesting, inserted, streamVars, collectorVars, targets, countVars, recorded>>

\* Otherwise it creates one.
CreateJob(a) ==
  /\ checked[a] # None
  /\ Len(jobs) < MaxJobs
  /\ jobs' = Append(jobs, [key |-> checked[a], requested |-> clock, status |-> "pending"])
  /\ checked' = [checked EXCEPT ![a] = None]
  /\ UNCHANGED <<clock, ingesting, inserted, streamVars, collectorVars, targets, countVars, recorded>>

\* An administrator looks at the routes of a server, which expires what is stale.
ViewRoutes ==
  /\ jobs' = Expired
  /\ UNCHANGED <<clock, checked, ingesting, inserted, streamVars, collectorVars, targets, countVars, recorded>>

\* The jobs J in the order of their ids, as the one element of a set.
Ascending(J) ==
  {s \in [1 .. Cardinality(J) -> J] : \A i, k \in DOMAIN s : i < k => s[i] < s[k]}

\* The handler of the Sync stream answers a Runtime with the pending jobs, if any.
HandleRuntime ==
  /\ ingesting = <<>>
  /\ up # <<>> /\ Head(up) = Runtime
  /\ up' = Tail(up)
  /\ jobs' = Expired
  /\ \E order \in Ascending(Pending(Expired)) :
        LET batch == [i \in DOMAIN order |-> [key |-> jobs[order[i]].key, job |-> order[i]]]
        IN  down' = IF batch = <<>> THEN down ELSE Append(down, batch)
  /\ UNCHANGED <<clock, checked, ingesting, inserted, collectorVars, targets, countVars, recorded>>

ReceiveSamples ==
  /\ ingesting = <<>>
  /\ up # <<>> /\ Head(up) # Runtime
  /\ ingesting' = Head(up)
  /\ up' = Tail(up)
  /\ UNCHANGED <<clock, jobs, checked, inserted, down, collectorVars, targets, countVars, recorded>>

\* ingestProbeRoutes: the row of the trace comes first,
InsertRoute ==
  /\ ingesting # <<>> /\ ~inserted
  /\ recorded' = recorded \cup ({Head(ingesting).job} \ {0})
  /\ inserted' = TRUE
  /\ UNCHANGED <<clock, jobs, checked, ingesting, streamVars, collectorVars, targets, countVars>>

\* Mutant: before its row is inserted.
FinishJobFirst ==
  /\ ingesting # <<>>
  /\ LET j == Head(ingesting).job
     IN  jobs' = IF j \in Pending(jobs) THEN [jobs EXCEPT ![j].status = "finished"] ELSE jobs
  /\ ingesting' = IF inserted THEN Tail(ingesting) ELSE ingesting
  /\ inserted' = FALSE
  /\ UNCHANGED <<clock, checked, streamVars, collectorVars, targets, countVars, recorded>>

\* Mutant: whatever has become of the job.
FinishJobAnyway ==
  /\ ingesting # <<>> /\ inserted
  /\ LET j == Head(ingesting).job
     IN  jobs' = IF j = 0 THEN jobs ELSE [jobs EXCEPT ![j].status = "finished"]
  /\ ingesting' = Tail(ingesting) /\ inserted' = FALSE
  /\ UNCHANGED <<clock, checked, streamVars, collectorVars, targets, countVars, recorded>>

\* and its job, if still pending, is finished after it.
FinishJob ==
  /\ ingesting # <<>> /\ inserted
  /\ LET j == Head(ingesting).job
     IN  jobs' = IF j \in Pending(jobs) THEN [jobs EXCEPT ![j].status = "finished"] ELSE jobs
  /\ ingesting' = Tail(ingesting) /\ inserted' = FALSE
  /\ UNCHANGED <<clock, checked, streamVars, collectorVars, targets, countVars, recorded>>

----------------------------------------------------------------------------
(* The Collector.                                                          *)

\* The Sync goroutine sends a CollectorRuntime every fifteen seconds, whatever has become
\* of the last one, and the pending samples after it.
SyncTick ==
  /\ todo = <<>> /\ marked["syncer"] = None
  /\ LET sent == IF pendingSamples = <<>> THEN <<Runtime>> ELSE <<Runtime, pendingSamples>>
     IN  Len(up \o sent) + Len(down) + Len(ingesting) <= StreamCap /\ up' = up \o sent
  /\ pendingSamples' = <<>>
  /\ UNCHANGED <<clock, primaryVars, down, inflight, todo, marked, queue, running, traced,
                 targets, countVars, recorded>>

\* It works through the jobs one after the other before it looks at the stream again.
ReceiveJobs ==
  /\ down # <<>> /\ todo = <<>> /\ marked["syncer"] = None
  /\ todo' = Head(down)
  /\ down' = Tail(down)
  /\ UNCHANGED <<clock, primaryVars, up, pendingSamples, inflight, marked, queue, running,
                 traced, targets, countVars, recorded>>

\* SaveAuthorization replaces the cached targets by those of a configuration: servers in
\* scope with an address to probe, and the protocols enabled for them (BuildProbeTargets).
SaveTargets ==
  /\ todo = <<>> /\ marked["syncer"] = None
  /\ Disturbance
  /\ targets' \in SUBSET Keys
  /\ UNCHANGED <<clock, primaryVars, streamVars, collectorVars, scheduled, recorded>>

\* Mutant: the key is not looked up.
MarkAgain(g, work) ==
  /\ inflight' = inflight \cup {work.key}
  /\ marked' = [marked EXCEPT ![g] = work]

\* enqueueRoute, under the lock: a key in flight is refused, any other marked.
Mark(g, work) ==
  IF work.key \in inflight
  THEN UNCHANGED <<inflight, marked>>
  ELSE /\ inflight' = inflight \cup {work.key}
       /\ marked' = [marked EXCEPT ![g] = work]

\* A job of a key that the cached targets lack is passed over; they cannot change before
\* the batch is through.  A job passed over or refused is not remembered: the Primary will
\* send it again.
EnqueueJob ==
  /\ todo # <<>> /\ marked["syncer"] = None
  /\ todo' = Tail(todo)
  /\ \/ Head(todo).key \in targets /\ Mark("syncer", Head(todo))
     \/ Head(todo).key \notin targets /\ UNCHANGED <<inflight, marked>>
  /\ UNCHANGED <<clock, primaryVars, streamVars, pendingSamples, queue, running, traced,
                 targets, countVars, recorded>>

\* scheduleRoutes: a route is due.  The prober's tick has read the targets some time ago, so
\* whether they still have the key is left open.
ScheduleRoute(k) ==
  /\ scheduled < MaxScheduled /\ scheduled' = scheduled + 1
  /\ marked["prober"] = None
  /\ Mark("prober", [key |-> k, job |-> 0])
  /\ UNCHANGED <<clock, primaryVars, streamVars, pendingSamples, todo, queue, running, traced,
                 targets, disturbances, recorded>>

\* Mutant: the mark of work that found no place stays.
PushKeepsMark(g) ==
  /\ marked[g] # None
  /\ marked' = [marked EXCEPT ![g] = None]
  /\ queue' = IF Len(queue) < QueueCap THEN Append(queue, marked[g]) ELSE queue
  /\ UNCHANGED <<clock, primaryVars, streamVars, pendingSamples, inflight, todo, running,
                 traced, targets, countVars, recorded>>

\* enqueueRoute, without the lock: into the queue if there is a place in it.
Push(g) ==
  /\ marked[g] # None
  /\ marked' = [marked EXCEPT ![g] = None]
  /\ IF Len(queue) < QueueCap
     THEN queue' = Append(queue, marked[g]) /\ UNCHANGED inflight
     ELSE inflight' = inflight \ {marked[g].key} /\ UNCHANGED queue
  /\ UNCHANGED <<clock, primaryVars, streamVars, pendingSamples, todo, running, traced,
                 targets, countVars, recorded>>

\* routeWorker.
StartTrace ==
  /\ running = None /\ queue # <<>>
  /\ running' = Head(queue) /\ traced' = FALSE
  /\ queue' = Tail(queue)
  /\ UNCHANGED <<clock, primaryVars, streamVars, pendingSamples, inflight, todo, marked,
                 targets, countVars, recorded>>

\* Mutant: nothing is dropped.
QueueSampleUncapped ==
  /\ running # None /\ ~traced
  /\ traced' = TRUE
  /\ pendingSamples' = Append(pendingSamples, running)
  /\ UNCHANGED <<clock, primaryVars, streamVars, inflight, todo, marked, queue, running,
                 targets, countVars, recorded>>

\* queueProbeSamples drops the oldest samples.
QueueSample ==
  /\ running # None /\ ~traced
  /\ traced' = TRUE
  /\ LET all == Append(pendingSamples, running)
     IN  pendingSamples' = IF Len(all) > SampleCap THEN Tail(all) ELSE all
  /\ UNCHANGED <<clock, primaryVars, streamVars, inflight, todo, marked, queue, running,
                 targets, countVars, recorded>>

MarkRouteDone ==
  /\ running # None /\ traced
  /\ inflight' = inflight \ {running.key}
  /\ running' = None /\ traced' = FALSE
  /\ UNCHANGED <<clock, primaryVars, streamVars, pendingSamples, todo, marked, queue,
                 targets, countVars, recorded>>

----------------------------------------------------------------------------
(* Time and faults.                                                        *)

Tick ==
  /\ clock < MaxTime
  /\ clock' = clock + 1
  /\ UNCHANGED <<primaryVars, streamVars, collectorVars, targets, countVars, recorded>>

\* What is under way is lost, and the Primary's handler ends wherever it is.  The
\* Collector's goroutines go on.
LoseStream ==
  /\ up' = <<>> /\ down' = <<>>
  /\ ingesting' = <<>> /\ inserted' = FALSE

StreamBreaks ==
  /\ Disturbance
  /\ LoseStream
  /\ UNCHANGED <<clock, jobs, checked, collectorVars, targets, scheduled, recorded>>

\* Of all this only the cached targets are on disk.
CollectorRestarts ==
  /\ Disturbance
  /\ LoseStream
  /\ pendingSamples' = <<>>
  /\ inflight' = {} /\ todo' = <<>> /\ marked' = [g \in Goroutines |-> None]
  /\ queue' = <<>> /\ running' = None /\ traced' = FALSE
  /\ UNCHANGED <<clock, jobs, checked, targets, scheduled, recorded>>

\* The cached targets cannot be read, and the whole batch of jobs is passed over.
TargetsUnreadable ==
  /\ Disturbance
  /\ down # <<>> /\ todo = <<>> /\ marked["syncer"] = None
  /\ down' = Tail(down)
  /\ UNCHANGED <<clock, primaryVars, up, collectorVars, targets, scheduled, recorded>>

----------------------------------------------------------------------------
Administrators ==
  \/ ViewRoutes
  \/ \E a \in Admins : CreateJob(a) \/ \E k \in Keys : RequestRoute(a, k)

Handler == HandleRuntime \/ ReceiveSamples \/ InsertRoute \/ FinishJob

Prober == Push("prober") \/ \E k \in Keys : ScheduleRoute(k)

Syncer == SyncTick \/ ReceiveJobs \/ SaveTargets \/ EnqueueJob \/ Push("syncer")

RouteWorker == StartTrace \/ QueueSample \/ MarkRouteDone

Next ==
  \/ Administrators \/ Handler
  \/ Prober \/ Syncer \/ RouteWorker
  \/ Tick \/ StreamBreaks \/ CollectorRestarts \/ TargetsUnreadable

Spec == Init /\ [][Next]_vars

\* The goroutines run on, and the select of the Sync goroutine takes neither the ticker nor
\* the stream for ever; a trace ends after 45 seconds.  Administrators, configurations, routes
\* that come due and the clock need do nothing more.
FairSpec ==
  /\ Spec
  /\ WF_vars(Handler) /\ WF_vars(RouteWorker) /\ WF_vars(Push("prober"))
  /\ WF_vars(SyncTick) /\ WF_vars(ReceiveJobs \/ EnqueueJob \/ Push("syncer"))

----------------------------------------------------------------------------
(* Properties.                                                             *)

\* Who holds work outside the queue: the routeWorker what it traces, the
\* goroutines what they have marked.
Held == [g \in Goroutines \cup {"worker"} |-> IF g = "worker" THEN running ELSE marked[g]]
Busy == {g \in DOMAIN Held : Held[g] # None}

\* No key is traced twice at a time, and none is refused for work that is no longer
\* there: through both goroutines, a full queue and the routeWorker, the marks of
\* routeInflight are those of the accepted work (enqueueRoute, markRouteDone).
OneTracePerKey ==
  /\ inflight = {queue[i].key : i \in DOMAIN queue} \cup {Held[g].key : g \in Busy}
  /\ \A i, k \in DOMAIN queue : queue[i].key = queue[k].key => i = k
  /\ \A g, h \in Busy : Held[g].key = Held[h].key => g = h
  /\ \A g \in Busy, i \in DOMAIN queue : Held[g].key # queue[i].key

\* A job is settled once and for a reason: finished after its row was inserted, wherever
\* the handler is interrupted, or expired because its time had passed.  Neither an
\* answer that comes late or twice nor the expiry touches it again (ingestProbeRoutes,
\* expireStaleProbeRouteJobs).
SettlesOnce ==
  [][\A j \in DOMAIN jobs :
       jobs'[j] # jobs[j] =>
         /\ j \in Pending(jobs)
         /\ jobs'[j].status = "finished" => j \in recorded
         /\ jobs'[j].status = "expired" => Overdue(j)]_vars

\* All work there is: in the queues, on the stream and under way.
Afoot ==
  {Held[g] : g \in Busy} \cup
    UNION {ToSet(s) : s \in {queue, todo, pendingSamples, ingesting} \cup ToSet(up) \cup ToSet(down)}

\* A trace that carries the id of a job is a trace of what that job asked for, through
\* every queue, message, fault and restart, and a recorded id is that of a row: finishing
\* by id alone settles the right request (ingestProbeRoutes, finishProbeRouteJob).
TracesAnswerTheirJobs ==
  /\ \A w \in Afoot : w.job # 0 => w.job \in DOMAIN jobs /\ jobs[w.job].key = w.key
  /\ recorded \subseteq DOMAIN jobs

\* Once nobody asks any more and a key stays among the cached targets, every job of that
\* key is settled, and not by its deadline alone: whatever batch, mark, sample or row a fault,
\* an earlier configuration or a full queue has cost, the job is sent again until its trace
\* arrives.  A job of a key that is not among them has nothing but its deadline
\* (enqueueRouteJobs, expireStaleProbeRouteJobs).
JobsSettle ==
  \A k \in Keys : <>[](k \in targets) => <>[](\A j \in Pending(jobs) : jobs[j].key # k)

\* docs/reliable-telemetry.md: a route may be run once more on demand.  No work is
\* accepted for a job whose trace is already there, sent or recorded.
RunsOnce ==
  LET sent    == ToSet(pendingSamples \o FlattenSeq(up) \o ingesting)
      settled == recorded \cup {w.job : w \in sent}
      waiting == ToSet(queue) \cup {Held[g] : g \in IF traced THEN Busy \ {"worker"} ELSE Busy}
  IN  \A w \in waiting : w.job \notin settled \ {0}
=============================================================================
