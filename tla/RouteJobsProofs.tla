--------------------------- MODULE RouteJobsProofs ---------------------------
(***************************************************************************)
(* Proofs about RouteJobs for any keys, administrators, queue sizes,       *)
(* deadlines, cached targets and numbers of jobs, routes and disturbances. *)
(***************************************************************************)
EXTENDS RouteJobs, TLAPS, FiniteSetTheorems

------------------------------------------------------------------------------
(* Type correctness.                                                        *)

PrimaryTyped ==
  /\ clock \in 0 .. MaxTime
  /\ jobs \in Seq(Job) /\ Len(jobs) <= MaxJobs
  /\ checked \in [Admins -> Keys \cup {None}]
  /\ ingesting \in Seq(Work)
  /\ inserted \in BOOLEAN
  /\ recorded \in SUBSET JobIds

StreamTyped ==
  /\ up \in Seq(Seq(Work))
  /\ down \in Seq(Seq(Work))

CollectorTyped ==
  /\ pendingSamples \in Seq(Work) /\ Len(pendingSamples) <= SampleCap
  /\ inflight \in SUBSET Keys
  /\ todo \in Seq(Work)
  /\ marked \in [Goroutines -> Work \cup {None}]
  /\ queue \in Seq(Work) /\ Len(queue) <= QueueCap
  /\ running \in Work \cup {None}
  /\ traced \in BOOLEAN

TargetsTyped ==
  /\ targets \in SUBSET Keys
  /\ scheduled \in 0 .. MaxScheduled /\ disturbances \in 0 .. MaxDisturbances

\* TypeParts: the types, component by component.
LEMMA TypeParts == TypeOK <=> PrimaryTyped /\ StreamTyped /\ CollectorTyped /\ TargetsTyped
BY DEF TypeOK, PrimaryTyped, StreamTyped, CollectorTyped, TargetsTyped

\* TailTyped: what is behind the head of a sequence.
LEMMA TailTyped ==
  ASSUME NEW S, NEW s \in Seq(S), s # <<>>
  PROVE  Head(s) \in S /\ Tail(s) \in Seq(S) /\ Len(Tail(s)) = Len(s) - 1
OBVIOUS

\* EmptyTyped: the empty sequence is one of anything.
LEMMA EmptyTyped ==
  ASSUME NEW S
  PROVE  <<>> \in Seq(S) /\ Len(<<>>) = 0
OBVIOUS

\* AppendTyped: what is appended to a sequence makes it longer by one.
LEMMA AppendTyped ==
  ASSUME NEW S, NEW s \in Seq(S), NEW e \in S
  PROVE  /\ Append(s, e) \in Seq(S) /\ Append(s, e) # <<>>
         /\ Len(s) \in Nat /\ Len(Append(s, e)) = Len(s) + 1
OBVIOUS

\* ConcatTyped: one sequence of something after another.
LEMMA ConcatTyped ==
  ASSUME NEW S, NEW s \in Seq(S), NEW t \in Seq(S)
  PROVE  s \o t \in Seq(S)
OBVIOUS

\* WorkKeys: work has a key and is not None.
LEMMA WorkKeys ==
  ASSUME RouteJobsAssumption
  PROVE  \A w \in Work : w # None /\ w.key \in Keys /\ w.job \in JobIds \cup {0}
BY DEF RouteJobsAssumption, Work

\* ExpiredTyped: expiring touches the status of rows and nothing else.
LEMMA ExpiredTyped ==
  ASSUME jobs \in Seq(Job)
  PROVE  /\ Expired \in Seq(Job) /\ Len(Expired) = Len(jobs)
         /\ \A j \in DOMAIN jobs : /\ Expired[j] \in Job /\ Expired[j].key = jobs[j].key
                                   /\ Expired[j] # jobs[j] =>
                                        j \in Pending(jobs) /\ Overdue(j) /\ Expired[j].status = "expired"
<1>1. \A j \in DOMAIN jobs : jobs[j] \in Job
  OBVIOUS
<1>2. \A j \in DOMAIN jobs :
        /\ Expired[j] = IF j \in Pending(jobs) /\ Overdue(j) THEN [jobs[j] EXCEPT !.status = "expired"] ELSE jobs[j]
  BY DEF Expired
<1>3. \A r \in Job : /\ [r EXCEPT !.status = "expired"] \in Job
                     /\ [r EXCEPT !.status = "expired"].key = r.key
                     /\ [r EXCEPT !.status = "expired"].status = "expired"
  BY DEF Job
<1>4. \A j \in DOMAIN jobs : /\ Expired[j] \in Job /\ Expired[j].key = jobs[j].key
                             /\ Expired[j] # jobs[j] =>
                                  j \in Pending(jobs) /\ Overdue(j) /\ Expired[j].status = "expired"
  <2> TAKE j \in DOMAIN jobs
  <2>1. CASE j \in Pending(jobs) /\ Overdue(j)
    BY <1>1, <1>2, <1>3, <2>1
  <2>2. CASE ~(j \in Pending(jobs) /\ Overdue(j))
    BY <1>1, <1>2, <2>2
  <2> QED  BY <2>1, <2>2
<1>5. DOMAIN jobs = 1 .. Len(jobs) /\ Len(jobs) \in Nat
  OBVIOUS
<1>6. Expired \in [1 .. Len(jobs) -> Job]
  <2>1. Expired = [j \in 1 .. Len(jobs) |-> Expired[j]]
    BY <1>5 DEF Expired
  <2> HIDE DEF Expired
  <2> QED  BY <1>4, <1>5, <2>1
<1>7. Expired \in Seq(Job) /\ Len(Expired) = Len(jobs)
  <2> HIDE DEF Expired
  <2> QED  BY <1>5, <1>6
<1> QED  BY <1>4, <1>7

\* Settle: what finishProbeRouteJob makes of the rows.
Settle(j) == IF j \in Pending(jobs) THEN [jobs EXCEPT ![j].status = "finished"] ELSE jobs

\* SettleTyped: finishing touches the status of one pending row.
LEMMA SettleTyped ==
  ASSUME jobs \in Seq(Job), NEW j
  PROVE  /\ Settle(j) \in Seq(Job) /\ Len(Settle(j)) = Len(jobs)
         /\ \A i \in DOMAIN jobs : Settle(j)[i] # jobs[i] =>
              i = j /\ j \in Pending(jobs) /\ Settle(j)[i].status = "finished"
<1>1. CASE j \notin Pending(jobs)
  <2>1. Settle(j) = jobs
    BY <1>1 DEF Settle
  <2> QED  BY <2>1
<1>2. CASE j \in Pending(jobs)
  <2>1. j \in DOMAIN jobs /\ jobs[j] \in Job
    BY <1>2 DEF Pending
  <2> DEFINE row == [jobs[j] EXCEPT !.status = "finished"]
  <2>2. row \in Job /\ row.status = "finished"
    BY <2>1 DEF Job
  <2>3. Settle(j) = [jobs EXCEPT ![j] = row]
    <3>1. Settle(j) = [jobs EXCEPT ![j].status = "finished"]
      BY <1>2 DEF Settle
    <3> QED  BY <3>1, Zenon
  <2> HIDE DEF row
  <2>4. /\ Settle(j) \in Seq(Job) /\ Len(Settle(j)) = Len(jobs)
        /\ \A i \in DOMAIN jobs : Settle(j)[i] = IF i = j THEN row ELSE jobs[i]
    BY <2>1, <2>2, <2>3
  <2> QED  BY <1>2, <2>2, <2>4
<1> QED  BY <1>1, <1>2

\* BatchTyped: the jobs that go to the Collector carry their ids and keys.
LEMMA BatchTyped ==
  ASSUME jobs \in Seq(Job), Len(jobs) <= MaxJobs, RouteJobsAssumption, NEW order \in Ascending(Pending(Expired))
  PROVE  [i \in DOMAIN order |-> [key |-> jobs[order[i]].key, job |-> order[i]]] \in Seq(Work)
<1> DEFINE J == Pending(Expired)
           work(i) == [key |-> jobs[order[i]].key, job |-> order[i]]
<1>1. J \subseteq 1 .. Len(jobs) /\ Len(jobs) \in Nat
  <2>1. DOMAIN Expired = 1 .. Len(jobs) /\ Len(jobs) \in Nat
    BY ExpiredTyped
  <2> QED  BY <2>1 DEF Pending
<1>2. IsFiniteSet(J) /\ Cardinality(J) \in Nat
  <2> HIDE DEF J
  <2>1. IsFiniteSet(1 .. Len(jobs))
    BY <1>1, FS_Interval
  <2>2. IsFiniteSet(J)
    BY <1>1, <2>1, FS_Subset
  <2> QED  BY <2>2, FS_CardinalityType
<1>3. order \in [1 .. Cardinality(J) -> J]
  BY DEF Ascending
<1>4. \A i \in 1 .. Cardinality(J) : work(i) \in Work
  <2> TAKE i \in 1 .. Cardinality(J)
  <2>1. order[i] \in 1 .. Len(jobs)
    BY <1>1, <1>3
  <2>2. jobs[order[i]].key \in Keys
    <3>1. jobs[order[i]] \in Job
      BY <2>1
    <3> QED  BY <3>1 DEF Job
  <2>3. order[i] \in JobIds
    BY <1>1, <2>1 DEF JobIds, RouteJobsAssumption
  <2> QED  BY <2>2, <2>3 DEF Work
<1> HIDE DEF J, work
<1>5. [i \in 1 .. Cardinality(J) |-> work(i)] \in Seq(Work)
  BY <1>2, <1>4
<1>6. DOMAIN order = 1 .. Cardinality(J)
  BY <1>3
<1> QED  BY <1>5, <1>6 DEF work

\* PrimarySteps: the rows and what the handler is at keep their types.
LEMMA PrimarySteps ==
  ASSUME RouteJobsAssumption, PrimaryTyped, StreamTyped, CollectorTyped, [Next]_vars
  PROVE  PrimaryTyped'
<1> USE DEF PrimaryTyped
<1>1. CASE ViewRoutes \/ HandleRuntime \/ \E a \in Admins, k \in Keys : RequestRoute(a, k)
  <2>1. jobs' = Expired /\ UNCHANGED <<clock, ingesting, inserted, recorded>>
    BY <1>1 DEF ViewRoutes, HandleRuntime, RequestRoute
  <2>2. checked' \in [Admins -> Keys \cup {None}]
    BY <1>1 DEF ViewRoutes, HandleRuntime, RequestRoute
  <2> QED  BY <2>1, <2>2, ExpiredTyped
<1>2. ASSUME NEW a \in Admins, CreateJob(a)
      PROVE  PrimaryTyped'
  <2> DEFINE row == [key |-> checked[a], requested |-> clock, status |-> "pending"]
  <2>1. row \in Job
    BY <1>2 DEF CreateJob, Job
  <2> HIDE DEF row
  <2>2. jobs' = Append(jobs, row) /\ Len(jobs) < MaxJobs /\ MaxJobs \in Nat
    BY <1>2 DEF CreateJob, RouteJobsAssumption, row
  <2>3. jobs' \in Seq(Job) /\ Len(jobs') <= MaxJobs
    BY <2>1, <2>2
  <2> QED  BY <1>2, <2>3 DEF CreateJob
<1>3. CASE ReceiveSamples
  <2>1. Head(up) \in Seq(Work)
    BY <1>3, TailTyped DEF ReceiveSamples, StreamTyped
  <2> QED  BY <1>3, <2>1 DEF ReceiveSamples
<1>4. CASE InsertRoute
  <2>1. Head(ingesting) \in Work
    BY <1>4, TailTyped DEF InsertRoute
  <2>2. {Head(ingesting).job} \ {0} \subseteq JobIds
    BY <2>1, WorkKeys
  <2> QED  BY <1>4, <2>2 DEF InsertRoute
<1>5. CASE FinishJob
  <2>1. jobs' = Settle(Head(ingesting).job)
    BY <1>5 DEF FinishJob, Settle
  <2>2. ingesting' \in Seq(Work)
    BY <1>5, TailTyped DEF FinishJob
  <2>3. jobs' \in Seq(Job) /\ Len(jobs') <= MaxJobs
    BY <2>1, SettleTyped
  <2>4. inserted' = FALSE /\ UNCHANGED <<clock, checked, recorded>>
    BY <1>5 DEF FinishJob
  <2> QED  BY <2>2, <2>3, <2>4
<1>6. CASE Tick
  BY <1>6 DEF Tick, primaryVars, RouteJobsAssumption
<1>7. CASE StreamBreaks \/ CollectorRestarts
  BY <1>7, EmptyTyped DEF StreamBreaks, CollectorRestarts, LoseStream
<1>8. CASE TargetsUnreadable \/ UNCHANGED vars
  BY <1>8 DEF TargetsUnreadable, vars, primaryVars
<1>9. CASE Prober \/ Syncer \/ RouteWorker
  <2>1. UNCHANGED <<clock, primaryVars, recorded>>
    BY <1>9 DEF Prober, Push, ScheduleRoute, Syncer, SyncTick, ReceiveJobs, SaveTargets, EnqueueJob, RouteWorker, StartTrace,
       QueueSample, MarkRouteDone
  <2> QED  BY <2>1 DEF primaryVars
<1> QED  BY <1>1, <1>2, <1>3, <1>4, <1>5, <1>6, <1>7, <1>8, <1>9 DEF Next, Administrators, Handler

\* StreamSteps: so do the messages of the Sync stream.
LEMMA StreamSteps ==
  ASSUME RouteJobsAssumption, PrimaryTyped, StreamTyped, CollectorTyped, [Next]_vars
  PROVE  StreamTyped'
<1> USE DEF StreamTyped
<1>1. CASE HandleRuntime
  <2>1. PICK order \in Ascending(Pending(Expired)) :
          LET batch == [i \in DOMAIN order |-> [key |-> jobs[order[i]].key, job |-> order[i]]]
          IN  down' = IF batch = <<>> THEN down ELSE Append(down, batch)
    BY <1>1 DEF HandleRuntime
  <2> DEFINE batch == [i \in DOMAIN order |-> [key |-> jobs[order[i]].key, job |-> order[i]]]
  <2>2. batch \in Seq(Work)
    BY BatchTyped DEF PrimaryTyped
  <2>3. down' = down \/ down' = Append(down, batch)
    BY <2>1
  <2> HIDE DEF batch
  <2>4. down' \in Seq(Seq(Work))
    BY <2>2, <2>3, AppendTyped
  <2>5. up' \in Seq(Seq(Work))
    BY <1>1, TailTyped DEF HandleRuntime
  <2> QED  BY <2>4, <2>5
<1>2. CASE ReceiveSamples
  BY <1>2, TailTyped DEF ReceiveSamples
<1>3. CASE SyncTick
  <2>1. <<>> \in Seq(Work) /\ pendingSamples \in Seq(Work)
    BY DEF CollectorTyped
  <2>2. <<Runtime>> \in Seq(Seq(Work)) /\ <<Runtime, pendingSamples>> \in Seq(Seq(Work))
    BY <2>1 DEF Runtime
  <2>3. /\ up' = up \o <<Runtime>> \/ up' = up \o <<Runtime, pendingSamples>>
        /\ down' = down
    BY <1>3 DEF SyncTick
  <2> QED  BY <2>2, <2>3, ConcatTyped
<1>4. CASE ReceiveJobs \/ TargetsUnreadable
  BY <1>4, TailTyped DEF ReceiveJobs, TargetsUnreadable
<1>5. CASE StreamBreaks \/ CollectorRestarts
  BY <1>5, EmptyTyped DEF StreamBreaks, CollectorRestarts, LoseStream
<1>6. CASE \/ Administrators \/ InsertRoute \/ FinishJob \/ Prober \/ SaveTargets \/ EnqueueJob \/ Push("syncer")
           \/ RouteWorker \/ Tick \/ UNCHANGED vars
  <2>1. UNCHANGED streamVars
    BY <1>6 DEF Administrators, ViewRoutes, CreateJob, RequestRoute, InsertRoute, FinishJob, Prober, Push,
       ScheduleRoute, SaveTargets, EnqueueJob, RouteWorker, StartTrace, QueueSample, MarkRouteDone, Tick, vars
  <2> QED  BY <2>1 DEF streamVars
<1> QED  BY <1>1, <1>2, <1>3, <1>4, <1>5, <1>6 DEF Next, Handler, Syncer

\* MarkTyped: marking keeps the types, whichever goroutine marks.
LEMMA MarkTyped ==
  ASSUME RouteJobsAssumption, CollectorTyped, NEW g \in Goroutines, NEW work \in Work, Mark(g, work)
  PROVE  /\ inflight' \in SUBSET Keys
         /\ marked' \in [Goroutines -> Work \cup {None}]
BY WorkKeys DEF CollectorTyped, Mark

\* CollectorSteps: so do the queues and marks of the Collector.
LEMMA CollectorSteps ==
  ASSUME RouteJobsAssumption, PrimaryTyped, StreamTyped, CollectorTyped, [Next]_vars
  PROVE  CollectorTyped'
<1> USE DEF CollectorTyped
<1>0. /\ "prober" \in Goroutines /\ "syncer" \in Goroutines
      /\ QueueCap \in Nat \ {0} /\ SampleCap \in Nat \ {0} /\ MaxJobs \in Nat
  BY DEF Goroutines, RouteJobsAssumption
<1>1. CASE SyncTick
  BY <1>0, <1>1 DEF SyncTick
<1>2. CASE ReceiveJobs
  BY <1>2, TailTyped DEF ReceiveJobs, StreamTyped
<1>3. CASE EnqueueJob
  <2>1. Head(todo) \in Work /\ Tail(todo) \in Seq(Work)
    BY <1>3, TailTyped DEF EnqueueJob
  <2>2. inflight' \in SUBSET Keys /\ marked' \in [Goroutines -> Work \cup {None}]
    <3>1. Mark("syncer", Head(todo)) \/ UNCHANGED <<inflight, marked>>
      BY <1>3 DEF EnqueueJob
    <3> QED  BY <1>0, <2>1, <3>1, MarkTyped
  <2> QED  BY <1>3, <2>1, <2>2 DEF EnqueueJob
<1>4. ASSUME NEW k \in Keys, ScheduleRoute(k)
      PROVE  CollectorTyped'
  <2>1. [key |-> k, job |-> 0] \in Work
    BY DEF Work
  <2>2. inflight' \in SUBSET Keys /\ marked' \in [Goroutines -> Work \cup {None}]
    BY <1>0, <1>4, <2>1, MarkTyped DEF ScheduleRoute
  <2> QED  BY <1>4, <2>2 DEF ScheduleRoute
<1>5. ASSUME NEW g \in Goroutines, Push(g)
      PROVE  CollectorTyped'
  <2>1. marked[g] \in Work
    BY <1>5 DEF Push
  <2>2. queue' \in Seq(Work) /\ Len(queue') <= QueueCap
    <3>1. CASE Len(queue) < QueueCap
      <4>1. queue' = Append(queue, marked[g])
        BY <1>5, <3>1 DEF Push
      <4> QED  BY <1>0, <2>1, <3>1, <4>1
    <3>2. CASE ~(Len(queue) < QueueCap)
      BY <1>5, <3>2 DEF Push
    <3> QED  BY <3>1, <3>2
  <2>3. inflight' \in SUBSET Keys /\ marked' \in [Goroutines -> Work \cup {None}]
    BY <1>5 DEF Push
  <2> QED  BY <1>5, <2>2, <2>3 DEF Push
<1>6. CASE StartTrace
  <2>1. Head(queue) \in Work /\ Tail(queue) \in Seq(Work) /\ Len(Tail(queue)) = Len(queue) - 1 /\ Len(queue) \in Nat
    BY <1>6, TailTyped DEF StartTrace
  <2>2. queue' \in Seq(Work) /\ Len(queue') <= QueueCap /\ running' \in Work /\ traced' = FALSE
    BY <1>0, <1>6, <2>1 DEF StartTrace
  <2>3. UNCHANGED <<pendingSamples, inflight, todo, marked>>
    BY <1>6 DEF StartTrace
  <2> QED  BY <2>2, <2>3
<1>7. CASE QueueSample
  <2> DEFINE all == Append(pendingSamples, running)
  <2>1. running \in Work
    BY <1>7 DEF QueueSample
  <2>2. all \in Seq(Work) /\ Len(all) = Len(pendingSamples) + 1 /\ all # <<>>
    BY <2>1, AppendTyped
  <2>3. pendingSamples' = IF Len(all) > SampleCap THEN Tail(all) ELSE all
    BY <1>7 DEF QueueSample
  <2> HIDE DEF all
  <2>4. Tail(all) \in Seq(Work) /\ Len(Tail(all)) = Len(all) - 1 /\ Len(pendingSamples) \in Nat
    BY <2>2, TailTyped
  <2>5. pendingSamples' \in Seq(Work) /\ Len(pendingSamples') <= SampleCap
    BY <1>0, <2>2, <2>3, <2>4
  <2> QED  BY <1>7, <2>5 DEF QueueSample
<1>8. CASE MarkRouteDone
  BY <1>8 DEF MarkRouteDone
<1>9. CASE CollectorRestarts
  <2>1. <<>> \in Seq(Work) /\ Len(<<>>) = 0
    BY EmptyTyped
  <2>2. [g \in Goroutines |-> None] \in [Goroutines -> Work \cup {None}]
    OBVIOUS
  <2>3. /\ pendingSamples' = <<>> /\ inflight' = {} /\ todo' = <<>> /\ marked' = [g \in Goroutines |-> None]
        /\ queue' = <<>> /\ running' = None /\ traced' = FALSE
    BY <1>9 DEF CollectorRestarts
  <2>4. /\ pendingSamples' \in Seq(Work) /\ Len(pendingSamples') <= SampleCap
        /\ todo' \in Seq(Work) /\ queue' \in Seq(Work) /\ Len(queue') <= QueueCap
    BY <1>0, <2>1, <2>3
  <2>5. marked' \in [Goroutines -> Work \cup {None}]
    BY <2>2, <2>3
  <2> QED  BY <2>3, <2>4, <2>5
<1>10. CASE \/ Administrators \/ Handler \/ SaveTargets \/ Tick \/ StreamBreaks \/ TargetsUnreadable
            \/ UNCHANGED vars
  <2>1. UNCHANGED collectorVars
    BY <1>10 DEF Administrators, ViewRoutes, CreateJob, RequestRoute, Handler, HandleRuntime, ReceiveSamples,
       InsertRoute, FinishJob, SaveTargets, Tick, StreamBreaks, TargetsUnreadable, vars
  <2> QED  BY <2>1 DEF collectorVars
<1> QED  BY <1>0, <1>1, <1>2, <1>3, <1>4, <1>5, <1>6, <1>7, <1>8, <1>9, <1>10 DEF Next, Prober, Syncer, RouteWorker

\* TargetsSteps: so do the cached targets and the bounds.
LEMMA TargetsSteps ==
  ASSUME RouteJobsAssumption, TargetsTyped, [Next]_vars
  PROVE  TargetsTyped'
<1> USE DEF TargetsTyped
<1>1. CASE StreamBreaks \/ CollectorRestarts \/ TargetsUnreadable
  BY <1>1 DEF StreamBreaks, CollectorRestarts, TargetsUnreadable, Disturbance, RouteJobsAssumption
<1>2. CASE SaveTargets
  BY <1>2 DEF SaveTargets, Disturbance, RouteJobsAssumption
<1>3. ASSUME NEW k \in Keys, ScheduleRoute(k)
      PROVE  TargetsTyped'
  BY <1>3 DEF ScheduleRoute, RouteJobsAssumption
<1>4. CASE \/ Administrators \/ Handler \/ Push("prober") \/ SyncTick \/ ReceiveJobs \/ EnqueueJob
           \/ Push("syncer") \/ RouteWorker \/ Tick \/ UNCHANGED vars
  <2>1. UNCHANGED <<targets, countVars>>
    BY <1>4 DEF Administrators, ViewRoutes, CreateJob, RequestRoute, Handler, HandleRuntime, ReceiveSamples,
       InsertRoute, FinishJob, Push, SyncTick, ReceiveJobs, EnqueueJob, RouteWorker, StartTrace,
       QueueSample, MarkRouteDone, Tick, vars
  <2> QED  BY <2>1 DEF countVars
<1> QED  BY <1>1, <1>2, <1>3, <1>4 DEF Next, Prober, Syncer

\* TypeCorrect: rows, messages, queues and marks keep their types, and neither the
\* queue of the routeWorker nor the pending samples exceed their capacity.
THEOREM TypeCorrect == Spec => []TypeOK
<1>1. Init => TypeOK
  <2> SUFFICES ASSUME Init PROVE TypeOK
    OBVIOUS
  <2>1. \A S : <<>> \in Seq(S) /\ Len(<<>>) = 0
    BY EmptyTyped
  <2>2. /\ QueueCap \in Nat /\ SampleCap \in Nat /\ MaxTime \in Nat /\ MaxJobs \in Nat
        /\ MaxScheduled \in Nat /\ MaxDisturbances \in Nat /\ CachedTargets \subseteq Keys
    BY RouteJobsAssumption DEF RouteJobsAssumption
  <2>3. PrimaryTyped
    <3>1. /\ clock = 0 /\ jobs = <<>> /\ checked = [a \in Admins |-> None]
          /\ ingesting = <<>> /\ inserted = FALSE /\ recorded = {}
      BY DEF Init
    <3>2. /\ jobs \in Seq(Job) /\ Len(jobs) <= MaxJobs /\ ingesting \in Seq(Work)
      BY <2>1, <2>2, <3>1
    <3>3. clock \in 0 .. MaxTime
      BY <2>2, <3>1
    <3>4. checked \in [Admins -> Keys \cup {None}]
      BY <3>1
    <3>5. inserted \in BOOLEAN /\ recorded \in SUBSET JobIds
      BY <3>1
    <3> QED  BY <3>2, <3>3, <3>4, <3>5 DEF PrimaryTyped
  <2>4. StreamTyped
    BY <2>1 DEF Init, StreamTyped
  <2>5. CollectorTyped
    <3>1. /\ pendingSamples = <<>> /\ inflight = {} /\ todo = <<>> /\ marked = [g \in Goroutines |-> None]
          /\ queue = <<>> /\ running = None /\ traced = FALSE
      BY DEF Init
    <3>2. /\ pendingSamples \in Seq(Work) /\ Len(pendingSamples) <= SampleCap
          /\ todo \in Seq(Work) /\ queue \in Seq(Work) /\ Len(queue) <= QueueCap
      BY <2>1, <2>2, <3>1
    <3>3. marked \in [Goroutines -> Work \cup {None}]
      BY <3>1
    <3> QED  BY <3>1, <3>2, <3>3 DEF CollectorTyped
  <2>6. TargetsTyped
    BY <2>2 DEF Init, TargetsTyped
  <2> QED  BY <2>3, <2>4, <2>5, <2>6, TypeParts
<1>2. TypeOK /\ [Next]_vars => TypeOK'
  <2> SUFFICES ASSUME TypeOK, [Next]_vars PROVE TypeOK'
    OBVIOUS
  <2>1. PrimaryTyped /\ StreamTyped /\ CollectorTyped /\ TargetsTyped
    BY TypeParts
  <2>2. PrimaryTyped' /\ StreamTyped' /\ CollectorTyped' /\ TargetsTyped'
    BY <2>1, RouteJobsAssumption, PrimarySteps, StreamSteps, CollectorSteps, TargetsSteps
  <2> QED  BY <2>2 DEF TypeOK, PrimaryTyped, StreamTyped, CollectorTyped, TargetsTyped
<1> QED  BY <1>1, <1>2, PTL DEF Spec

------------------------------------------------------------------------------
(* A job is settled once.                                                   *)

\* A row that is inserted is recorded before its job is looked at, wherever the
\* handler has been interrupted.
InsertedIsRecorded == inserted => ingesting # <<>> /\ Head(ingesting).job \in recorded \cup {0}

\* InsertedKept: every step keeps that.
LEMMA InsertedKept ==
  ASSUME InsertedIsRecorded, [Next]_vars
  PROVE  InsertedIsRecorded'
<1> USE DEF InsertedIsRecorded
<1>1. CASE InsertRoute
  BY <1>1 DEF InsertRoute
<1>2. CASE FinishJob \/ StreamBreaks \/ CollectorRestarts
  BY <1>2 DEF FinishJob, StreamBreaks, CollectorRestarts, LoseStream
<1>3. CASE ReceiveSamples
  BY <1>3 DEF ReceiveSamples
<1>4. CASE \/ Administrators \/ HandleRuntime \/ Prober \/ Syncer \/ RouteWorker \/ Tick \/ TargetsUnreadable
           \/ UNCHANGED vars
  <2>1. UNCHANGED <<ingesting, inserted, recorded>>
    BY <1>4 DEF Administrators, ViewRoutes, CreateJob, RequestRoute, HandleRuntime, Prober, Push, ScheduleRoute,
       Syncer, SyncTick, ReceiveJobs, SaveTargets, EnqueueJob, RouteWorker, StartTrace, QueueSample, MarkRouteDone,
       Tick, TargetsUnreadable, primaryVars, vars
  <2> QED  BY <2>1
<1> QED  BY <1>1, <1>2, <1>3, <1>4 DEF Next, Handler

\* What SettlesOnce says of one step.
SettlesNow ==
  \A j \in DOMAIN jobs :
    jobs'[j] # jobs[j] =>
      /\ j \in Pending(jobs)
      /\ jobs'[j].status = "finished" => j \in recorded
      /\ jobs'[j].status = "expired" => Overdue(j)

\* StepSettles: rows change only when they expire or their trace has arrived.
LEMMA StepSettles ==
  ASSUME PrimaryTyped, InsertedIsRecorded, [Next]_vars
  PROVE  SettlesNow
<1> USE DEF PrimaryTyped, SettlesNow
<1>1. CASE jobs' = Expired
  BY <1>1, ExpiredTyped
<1>2. CASE FinishJob
  <2> DEFINE i == Head(ingesting).job
  <2>1. jobs' = Settle(i)
    BY <1>2 DEF FinishJob, Settle
  <2>2. i \in recorded \cup {0}
    BY <1>2 DEF FinishJob, InsertedIsRecorded
  <2> HIDE DEF i
  <2>3. 0 \notin DOMAIN jobs
    OBVIOUS
  <2>4. \A j \in DOMAIN jobs : jobs'[j] # jobs[j] => j = i /\ j \in Pending(jobs) /\ jobs'[j].status = "finished"
    BY <2>1, SettleTyped
  <2> QED  BY <2>2, <2>3, <2>4
<1>3. ASSUME NEW a \in Admins, CreateJob(a)
      PROVE  SettlesNow
  <2> DEFINE row == [key |-> checked[a], requested |-> clock, status |-> "pending"]
  <2>1. jobs' = Append(jobs, row)
    BY <1>3 DEF CreateJob
  <2> HIDE DEF row
  <2>2. \A j \in DOMAIN jobs : jobs'[j] = jobs[j]
    BY <2>1
  <2> QED  BY <2>2
<1>4. CASE ViewRoutes \/ HandleRuntime \/ \E a \in Admins, k \in Keys : RequestRoute(a, k)
  BY <1>1, <1>4 DEF ViewRoutes, HandleRuntime, RequestRoute
<1>5. CASE \/ ReceiveSamples \/ InsertRoute \/ Prober \/ Syncer \/ RouteWorker \/ Tick
           \/ StreamBreaks \/ CollectorRestarts \/ TargetsUnreadable \/ UNCHANGED vars
  <2>1. UNCHANGED jobs
    BY <1>5 DEF ReceiveSamples, InsertRoute, Prober, Push, ScheduleRoute, Syncer, SyncTick, ReceiveJobs, SaveTargets, EnqueueJob,
       RouteWorker, StartTrace, QueueSample, MarkRouteDone, Tick, StreamBreaks, CollectorRestarts, TargetsUnreadable, primaryVars,
       vars
  <2> QED  BY <2>1
<1> QED  BY <1>2, <1>3, <1>4, <1>5 DEF Next, Administrators, Handler

\* JobsSettleOnce: for any deadline, clock and interleaving of administrators, the
\* handler and its interruptions, a job is finished only after its trace is
\* recorded, expires only when overdue, and is never touched again.
THEOREM JobsSettleOnce == Spec => SettlesOnce
<1>1. Init => InsertedIsRecorded
  BY DEF Init, InsertedIsRecorded
<1>2. Spec => []InsertedIsRecorded
  BY <1>1, InsertedKept, PTL DEF Spec
<1>3. TypeOK /\ InsertedIsRecorded /\ [Next]_vars => SettlesNow
  BY StepSettles, TypeParts
<1>4. SettlesNow => [\A j \in DOMAIN jobs :
                       jobs'[j] # jobs[j] =>
                         /\ j \in Pending(jobs)
                         /\ jobs'[j].status = "finished" => j \in recorded
                         /\ jobs'[j].status = "expired" => Overdue(j)]_vars
  BY DEF SettlesNow
<1> QED  BY <1>2, <1>3, <1>4, TypeCorrect, PTL DEF Spec, SettlesOnce

------------------------------------------------------------------------------
(* One trace of a key at a time.                                            *)

\* HeldFacts: who holds what.
LEMMA HeldFacts ==
  /\ DOMAIN Held = {"prober", "syncer", "worker"}
  /\ Held["worker"] = running
  /\ \A g \in Goroutines : g \in DOMAIN Held /\ g # "worker" /\ Held[g] = marked[g]
  /\ DOMAIN Held = Goroutines \cup {"worker"}
  /\ Busy \subseteq DOMAIN Held
  /\ \A g \in DOMAIN Held : g \in Busy <=> Held[g] # None
BY DEF Held, Busy, Goroutines

\* HeldTyped: what is held outside the queue is work.
LEMMA HeldTyped ==
  ASSUME CollectorTyped
  PROVE  \A g \in Busy : Held[g] \in Work
BY HeldFacts DEF CollectorTyped

\* MarkKeeps: marking a key that is not in flight makes its goroutine busy with it.
LEMMA MarkKeeps ==
  ASSUME RouteJobsAssumption, CollectorTyped, OneTracePerKey, NEW g \in Goroutines, NEW work \in Work,
         marked[g] = None, Mark(g, work), UNCHANGED <<queue, running>>
  PROVE  OneTracePerKey'
<1>1. CASE work.key \in inflight
  <2>1. UNCHANGED <<inflight, marked>>
    BY <1>1 DEF Mark
  <2>2. Held' = Held /\ Busy' = Busy
    BY <2>1 DEF Held, Busy
  <2> QED  BY <2>1, <2>2 DEF OneTracePerKey
<1>2. CASE work.key \notin inflight
  <2>1. inflight' = inflight \cup {work.key} /\ marked' = [marked EXCEPT ![g] = work]
    BY <1>2 DEF Mark
  <2>2. \A h \in Goroutines : marked'[h] = IF h = g THEN work ELSE marked[h]
    BY <2>1 DEF CollectorTyped
  <2>3. \A h \in DOMAIN Held : Held'[h] = IF h = g THEN work ELSE Held[h]
    BY <2>2 DEF Held, Goroutines
  <2>4. g \notin Busy /\ Busy' = Busy \cup {g} /\ Busy \subseteq DOMAIN Held /\ g \in DOMAIN Held
    <3>1. work # None /\ DOMAIN Held' = DOMAIN Held
      BY WorkKeys DEF Held
    <3>2. g \in DOMAIN Held /\ Held[g] = None
      BY HeldFacts
    <3> QED  BY <2>3, <3>1, <3>2 DEF Busy
  <2>5. \A h \in Busy : Held'[h] = Held[h] /\ Held[h].key # work.key
    BY <1>2, <2>3, <2>4 DEF OneTracePerKey
  <2>6. Held'[g] = work
    BY <2>3, <2>4
  <2>7. \A i \in DOMAIN queue : queue[i].key # work.key
    BY <1>2 DEF OneTracePerKey
  <2>8. inflight' = {queue'[i].key : i \in DOMAIN queue'} \cup {Held'[h].key : h \in Busy'}
    BY <2>1, <2>4, <2>5, <2>6 DEF OneTracePerKey
  <2>9. \A h, k \in Busy' : Held'[h].key = Held'[k].key => h = k
    BY <2>4, <2>5, <2>6 DEF OneTracePerKey
  <2>10. \A h \in Busy', i \in DOMAIN queue' : Held'[h].key # queue'[i].key
    BY <2>4, <2>5, <2>6, <2>7 DEF OneTracePerKey
  <2> QED  BY <2>8, <2>9, <2>10 DEF OneTracePerKey
<1> QED  BY <1>1, <1>2

\* PushKeeps: marked work goes into the queue, or its mark goes.
LEMMA PushKeeps ==
  ASSUME CollectorTyped, OneTracePerKey, NEW g \in Goroutines, Push(g)
  PROVE  OneTracePerKey'
<1>1. marked[g] # None /\ marked' = [marked EXCEPT ![g] = None] /\ UNCHANGED running
  BY DEF Push
<1>2. \A h \in DOMAIN Held : Held'[h] = IF h = g THEN None ELSE Held[h]
  BY <1>1 DEF Held, Goroutines, CollectorTyped
<1>3. DOMAIN Held' = DOMAIN Held
  BY DEF Held
<1>4. g \in Busy /\ Held[g] = marked[g]
  BY <1>1, HeldFacts
<1>5. Busy' = Busy \ {g} /\ Busy \subseteq DOMAIN Held
  BY <1>2, <1>3, <1>4 DEF Busy
<1>6. \A h \in Busy' : h \in Busy /\ h # g /\ Held'[h] = Held[h]
  BY <1>2, <1>5
<1>7. \A h, k \in Busy' : Held'[h].key = Held'[k].key => h = k
  BY <1>6 DEF OneTracePerKey
<1>8. CASE Len(queue) < QueueCap
  <2>1. queue' = Append(queue, marked[g]) /\ UNCHANGED inflight
    BY <1>8 DEF Push
  <2>2. /\ DOMAIN queue' = DOMAIN queue \cup {Len(queue) + 1}
        /\ Len(queue) + 1 \notin DOMAIN queue
        /\ queue'[Len(queue) + 1] = Held[g]
        /\ \A i \in DOMAIN queue : queue'[i] = queue[i]
    BY <1>4, <2>1 DEF CollectorTyped
  <2>3. {queue'[i].key : i \in DOMAIN queue'} = {queue[i].key : i \in DOMAIN queue} \cup {Held[g].key}
    BY <2>2
  <2>4. {Held[h].key : h \in Busy} = {Held'[h].key : h \in Busy'} \cup {Held[g].key}
    BY <1>4, <1>5, <1>6
  <2>5. inflight' = {queue'[i].key : i \in DOMAIN queue'} \cup {Held'[h].key : h \in Busy'}
    BY <2>1, <2>3, <2>4 DEF OneTracePerKey
  <2>6. \A i, k \in DOMAIN queue' : queue'[i].key = queue'[k].key => i = k
    BY <1>4, <2>2 DEF OneTracePerKey
  <2>7. \A h \in Busy', i \in DOMAIN queue' : Held'[h].key # queue'[i].key
    BY <1>4, <1>6, <2>2 DEF OneTracePerKey
  <2> QED  BY <1>7, <2>5, <2>6, <2>7 DEF OneTracePerKey
<1>9. CASE ~(Len(queue) < QueueCap)
  <2>1. inflight' = inflight \ {Held[g].key} /\ UNCHANGED queue
    BY <1>4, <1>9 DEF Push
  <2>2. {Held'[h].key : h \in Busy'} = {Held[h].key : h \in Busy} \ {Held[g].key}
    BY <1>4, <1>5, <1>6 DEF OneTracePerKey
  <2>3. \A i \in DOMAIN queue : queue[i].key # Held[g].key
    BY <1>4 DEF OneTracePerKey
  <2>4. inflight' = {queue'[i].key : i \in DOMAIN queue'} \cup {Held'[h].key : h \in Busy'}
    BY <2>1, <2>2, <2>3 DEF OneTracePerKey
  <2>5. \A h \in Busy', i \in DOMAIN queue' : Held'[h].key # queue'[i].key
    BY <1>6, <2>1 DEF OneTracePerKey
  <2> QED  BY <1>7, <2>1, <2>4, <2>5 DEF OneTracePerKey
<1> QED  BY <1>8, <1>9

\* StartKeeps: the routeWorker takes its work from the head of the queue.
LEMMA StartKeeps ==
  ASSUME RouteJobsAssumption, CollectorTyped, OneTracePerKey, StartTrace
  PROVE  OneTracePerKey'
<1> DEFINE work == queue[1]
<1>1. queue # <<>> /\ running = None /\ running' = Head(queue) /\ queue' = Tail(queue) /\ UNCHANGED <<inflight, marked>>
  BY DEF StartTrace
<1>2. /\ 1 \in DOMAIN queue /\ Head(queue) = work /\ work \in Work
      /\ \A i \in DOMAIN queue' : i + 1 \in DOMAIN queue /\ i + 1 # 1 /\ queue'[i] = queue[i + 1]
      /\ \A i \in DOMAIN queue : i # 1 => i - 1 \in DOMAIN queue' /\ queue'[i - 1] = queue[i]
      /\ \A i, k \in DOMAIN queue' : i + 1 = k + 1 => i = k
  BY <1>1 DEF CollectorTyped
<1>3. work # None
  BY <1>2, WorkKeys
<1> HIDE DEF work
<1>4. /\ \A h \in DOMAIN Held : Held'[h] = IF h = "worker" THEN work ELSE Held[h]
      /\ DOMAIN Held' = DOMAIN Held
  BY <1>1, <1>2 DEF Held
<1>5. "worker" \notin Busy /\ Busy' = Busy \cup {"worker"} /\ Busy \subseteq DOMAIN Held
  BY <1>1, <1>3, <1>4, HeldFacts DEF Busy
<1>6. Held'["worker"] = work /\ \A h \in Busy : Held'[h] = Held[h] /\ Held[h].key # work.key
  <2>1. \A h \in Busy : Held[h].key # work.key
    BY <1>2 DEF OneTracePerKey, work
  <2> QED  BY <1>4, <1>5, <2>1, HeldFacts
<1>7. {queue[i].key : i \in DOMAIN queue} = {queue'[i].key : i \in DOMAIN queue'} \cup {work.key}
  <2>1. \A i \in DOMAIN queue : queue[i].key \in {queue'[k].key : k \in DOMAIN queue'} \cup {work.key}
    BY <1>2 DEF work
  <2>2. \A i \in DOMAIN queue' : queue'[i].key \in {queue[k].key : k \in DOMAIN queue}
    BY <1>2
  <2>3. work.key \in {queue[k].key : k \in DOMAIN queue}
    BY <1>2 DEF work
  <2> QED  BY <2>1, <2>2, <2>3
<1>8. {Held'[h].key : h \in Busy'} = {Held[h].key : h \in Busy} \cup {work.key}
  BY <1>5, <1>6
<1>9. inflight' = {queue'[i].key : i \in DOMAIN queue'} \cup {Held'[h].key : h \in Busy'}
  BY <1>1, <1>7, <1>8 DEF OneTracePerKey
<1>10. \A i, k \in DOMAIN queue' : queue'[i].key = queue'[k].key => i = k
  BY <1>2 DEF OneTracePerKey
<1>11. \A h, k \in Busy' : Held'[h].key = Held'[k].key => h = k
  BY <1>5, <1>6 DEF OneTracePerKey
<1>12. \A h \in Busy', i \in DOMAIN queue' : Held'[h].key # queue'[i].key
  <2>1. \A i \in DOMAIN queue' : queue'[i].key # work.key
    BY <1>2 DEF OneTracePerKey, work
  <2>2. \A h \in Busy, i \in DOMAIN queue' : Held[h].key # queue'[i].key
    BY <1>2 DEF OneTracePerKey
  <2> QED  BY <1>5, <1>6, <2>1, <2>2
<1> QED  BY <1>9, <1>10, <1>11, <1>12 DEF OneTracePerKey

\* DoneKeeps: the mark of a trace goes with it.
LEMMA DoneKeeps ==
  ASSUME OneTracePerKey, MarkRouteDone
  PROVE  OneTracePerKey'
<1>1. /\ running # None /\ running' = None /\ inflight' = inflight \ {running.key} /\ UNCHANGED <<queue, marked>>
  BY DEF MarkRouteDone
<1>2. /\ \A h \in DOMAIN Held : Held'[h] = IF h = "worker" THEN None ELSE Held[h]
      /\ DOMAIN Held' = DOMAIN Held
  BY <1>1 DEF Held
<1>3. "worker" \in Busy /\ Held["worker"] = running /\ Busy' = Busy \ {"worker"} /\ Busy \subseteq DOMAIN Held
  BY <1>1, <1>2, HeldFacts DEF Busy
<1>4. \A h \in Busy' : h \in Busy /\ h # "worker" /\ Held'[h] = Held[h]
  BY <1>2, <1>3
<1>5. {Held'[h].key : h \in Busy'} = {Held[h].key : h \in Busy} \ {running.key}
  BY <1>3, <1>4 DEF OneTracePerKey
<1>6. \A i \in DOMAIN queue : queue[i].key # running.key
  BY <1>3 DEF OneTracePerKey
<1>7. inflight' = {queue'[i].key : i \in DOMAIN queue'} \cup {Held'[h].key : h \in Busy'}
  <2> DEFINE queued == {queue[i].key : i \in DOMAIN queue}
             held   == {Held[h].key : h \in Busy}
  <2>1. {queue'[i].key : i \in DOMAIN queue'} = queued
    BY <1>1
  <2>2. inflight = queued \cup held
    BY DEF OneTracePerKey
  <2>3. running.key \notin queued
    BY <1>6
  <2> HIDE DEF queued, held
  <2>4. inflight' = queued \cup (held \ {running.key})
    BY <1>1, <2>2, <2>3
  <2> QED  BY <1>5, <2>1, <2>4 DEF held
<1>8. \A h, k \in Busy' : Held'[h].key = Held'[k].key => h = k
  BY <1>4 DEF OneTracePerKey
<1>9. \A h \in Busy', i \in DOMAIN queue' : Held'[h].key # queue'[i].key
  BY <1>1, <1>4 DEF OneTracePerKey
<1> QED  BY <1>1, <1>7, <1>8, <1>9 DEF OneTracePerKey

\* NothingHeld: an idle Collector has nothing in flight.
LEMMA NothingHeld ==
  ASSUME inflight = {}, queue = <<>>, running = None, marked = [g \in Goroutines |-> None]
  PROVE  OneTracePerKey
<1>1. Busy = {}
  BY DEF Busy, Held
<1> QED  BY <1>1 DEF OneTracePerKey

\* RouteKept: every step keeps one trace per key.
LEMMA RouteKept ==
  ASSUME RouteJobsAssumption, TypeOK, OneTracePerKey, [Next]_vars
  PROVE  OneTracePerKey'
<1>0. CollectorTyped /\ "prober" \in Goroutines /\ "syncer" \in Goroutines
  BY TypeParts DEF Goroutines
<1>1. CASE EnqueueJob
  <2>1. Head(todo) \in Work
    BY <1>0, <1>1, TailTyped DEF EnqueueJob, CollectorTyped
  <2>2. marked["syncer"] = None /\ UNCHANGED <<queue, running>>
    BY <1>1 DEF EnqueueJob
  <2>3. CASE Mark("syncer", Head(todo))
    BY <1>0, <2>1, <2>2, <2>3, MarkKeeps
  <2>4. CASE UNCHANGED <<inflight, marked>>
    <3>1. Held' = Held /\ Busy' = Busy
      BY <2>2, <2>4 DEF Held, Busy
    <3> QED  BY <2>2, <2>4, <3>1 DEF OneTracePerKey
  <2> QED  BY <1>1, <2>3, <2>4 DEF EnqueueJob
<1>2. ASSUME NEW k \in Keys, ScheduleRoute(k)
      PROVE  OneTracePerKey'
  <2>1. [key |-> k, job |-> 0] \in Work
    BY DEF Work
  <2> QED  BY <1>0, <1>2, <2>1, MarkKeeps DEF ScheduleRoute
<1>3. CASE Push("prober") \/ Push("syncer")
  BY <1>0, <1>3, PushKeeps
<1>4. CASE StartTrace
  BY <1>0, <1>4, StartKeeps
<1>5. CASE MarkRouteDone
  BY <1>5, DoneKeeps
<1>6. CASE CollectorRestarts
  <2>1. inflight' = {} /\ queue' = <<>> /\ running' = None /\ marked' = [g \in Goroutines |-> None]
    BY <1>6 DEF CollectorRestarts
  <2>2. Busy' = {}
    BY <2>1 DEF Busy, Held
  <2> QED  BY <2>1, <2>2 DEF OneTracePerKey
<1>7. CASE \/ Administrators \/ Handler \/ SyncTick \/ ReceiveJobs \/ SaveTargets \/ QueueSample
           \/ Tick \/ StreamBreaks \/ TargetsUnreadable \/ UNCHANGED vars
  <2>1. UNCHANGED <<inflight, queue, running, marked>>
    BY <1>7 DEF Administrators, ViewRoutes, CreateJob, RequestRoute, Handler, HandleRuntime, ReceiveSamples,
       InsertRoute, FinishJob, SyncTick, ReceiveJobs, SaveTargets, QueueSample, Tick, StreamBreaks, TargetsUnreadable,
       collectorVars, vars
  <2>2. Held' = Held /\ Busy' = Busy
    BY <2>1 DEF Held, Busy
  <2> QED  BY <2>1, <2>2 DEF OneTracePerKey
<1> QED  BY <1>1, <1>2, <1>3, <1>4, <1>5, <1>6, <1>7 DEF Next, Prober, Syncer, RouteWorker

\* TracesDoNotMeet: whatever the order in which the prober, the Sync goroutine and
\* the routeWorker mark, queue, refuse and finish work, and however small the
\* queue, the marks are those of the accepted work and no key has two.
THEOREM TracesDoNotMeet == Spec => []OneTracePerKey
<1>1. Init => OneTracePerKey
  BY NothingHeld DEF Init
<1>2. RouteJobsAssumption /\ TypeOK /\ OneTracePerKey /\ [Next]_vars => OneTracePerKey'
  BY RouteKept
<1> QED  BY <1>1, <1>2, RouteJobsAssumption, TypeCorrect, PTL DEF Spec

------------------------------------------------------------------------------
(* The work and the rows it answers.                                        *)

\* Work whose id, if it has one, is that of a row for the same key.
Rightful(js) == {w \in Work : w.job # 0 => w.job \in DOMAIN js /\ js[w.job].key = w.key}

\* Every queue, message and goroutine holds only such work: the strengthening of
\* TracesAnswerTheirJobs that every step keeps.
OnlyRightful ==
  /\ queue \in Seq(Rightful(jobs)) /\ todo \in Seq(Rightful(jobs))
  /\ pendingSamples \in Seq(Rightful(jobs)) /\ ingesting \in Seq(Rightful(jobs))
  /\ up \in Seq(Seq(Rightful(jobs))) /\ down \in Seq(Seq(Rightful(jobs)))
  /\ marked \in [Goroutines -> Rightful(jobs) \cup {None}]
  /\ running \in Rightful(jobs) \cup {None}
  /\ recorded \subseteq DOMAIN jobs

\* SeqGrows: a sequence of some things is one of more things.
LEMMA SeqGrows ==
  ASSUME NEW S, NEW T, S \subseteq T
  PROVE  Seq(S) \subseteq Seq(T)
OBVIOUS

\* RowsStay: rows are neither removed nor given another key.
LEMMA RowsStay ==
  ASSUME RouteJobsAssumption, PrimaryTyped, [Next]_vars
  PROVE  /\ DOMAIN jobs \subseteq DOMAIN jobs'
         /\ \A j \in DOMAIN jobs : jobs'[j].key = jobs[j].key
<1> USE DEF PrimaryTyped
<1>1. CASE jobs' = Expired
  BY <1>1, ExpiredTyped
<1>2. CASE FinishJob
  <2> DEFINE i == Head(ingesting).job
  <2>1. jobs' = Settle(i)
    BY <1>2 DEF FinishJob, Settle
  <2> HIDE DEF i
  <2>2. Len(jobs') = Len(jobs) /\ jobs' \in Seq(Job)
    BY <2>1, SettleTyped
  <2>3. \A j \in DOMAIN jobs : jobs'[j].key = jobs[j].key
    <3>1. CASE i \in Pending(jobs)
      BY <2>1, <3>1 DEF Settle, Job, Pending
    <3>2. CASE i \notin Pending(jobs)
      BY <2>1, <3>2 DEF Settle
    <3> QED  BY <3>1, <3>2
  <2> QED  BY <2>2, <2>3
<1>3. ASSUME NEW a \in Admins, CreateJob(a)
      PROVE  DOMAIN jobs \subseteq DOMAIN jobs' /\ \A j \in DOMAIN jobs : jobs'[j].key = jobs[j].key
  <2> DEFINE row == [key |-> checked[a], requested |-> clock, status |-> "pending"]
  <2>1. jobs' = Append(jobs, row)
    BY <1>3 DEF CreateJob
  <2> HIDE DEF row
  <2> QED  BY <2>1
<1>4. CASE ViewRoutes \/ HandleRuntime \/ \E a \in Admins, k \in Keys : RequestRoute(a, k)
  BY <1>1, <1>4 DEF ViewRoutes, HandleRuntime, RequestRoute
<1>5. CASE \/ ReceiveSamples \/ InsertRoute \/ Prober \/ Syncer \/ RouteWorker \/ Tick
           \/ StreamBreaks \/ CollectorRestarts \/ TargetsUnreadable \/ UNCHANGED vars
  <2>1. UNCHANGED jobs
    BY <1>5 DEF ReceiveSamples, InsertRoute, Prober, Push, ScheduleRoute, Syncer, SyncTick, ReceiveJobs, SaveTargets, EnqueueJob,
       RouteWorker, StartTrace, QueueSample, MarkRouteDone, Tick, StreamBreaks, CollectorRestarts, TargetsUnreadable, primaryVars,
       vars
  <2> QED  BY <2>1
<1> QED  BY <1>2, <1>3, <1>4, <1>5 DEF Next, Administrators, Handler

\* BatchRightful: the jobs that go to the Collector are rows of the Primary.
LEMMA BatchRightful ==
  ASSUME RouteJobsAssumption, PrimaryTyped, jobs' = Expired, NEW order \in Ascending(Pending(Expired))
  PROVE  [i \in DOMAIN order |-> [key |-> jobs[order[i]].key, job |-> order[i]]] \in Seq(Rightful(jobs'))
<1> DEFINE batch == [i \in DOMAIN order |-> [key |-> jobs[order[i]].key, job |-> order[i]]]
<1>1. batch \in Seq(Work)
  BY BatchTyped DEF PrimaryTyped
<1>2. \A i \in DOMAIN order : order[i] \in DOMAIN Expired
  BY DEF Ascending, Pending
<1>3. /\ DOMAIN Expired = DOMAIN jobs
      /\ \A j \in DOMAIN jobs : Expired[j].key = jobs[j].key
  BY ExpiredTyped DEF PrimaryTyped
<1>4. \A i \in DOMAIN order : batch[i].job \in DOMAIN jobs' /\ jobs'[batch[i].job].key = batch[i].key
  BY <1>2, <1>3
<1>5. DOMAIN batch = DOMAIN order
  OBVIOUS
<1> HIDE DEF batch
<1>6. \A i \in DOMAIN batch : batch[i] \in Rightful(jobs')
  BY <1>1, <1>4, <1>5 DEF Rightful
<1>7. batch \in Seq(Rightful(jobs'))
  BY <1>1, <1>6
<1> QED  BY <1>7 DEF batch

\* RightfulStays: what was rightful work stays so, wherever it is.
LEMMA RightfulStays ==
  ASSUME RouteJobsAssumption, PrimaryTyped, OnlyRightful, [Next]_vars
  PROVE  /\ Rightful(jobs) \subseteq Rightful(jobs')
         /\ Seq(Rightful(jobs)) \subseteq Seq(Rightful(jobs'))
         /\ Seq(Seq(Rightful(jobs))) \subseteq Seq(Seq(Rightful(jobs')))
         /\ recorded \subseteq DOMAIN jobs'
<1>1. Rightful(jobs) \subseteq Rightful(jobs')
  BY RowsStay DEF Rightful
<1>2. Seq(Rightful(jobs)) \subseteq Seq(Rightful(jobs'))
  BY <1>1, SeqGrows
<1>3. Seq(Seq(Rightful(jobs))) \subseteq Seq(Seq(Rightful(jobs')))
  BY <1>2, SeqGrows
<1> QED  BY <1>1, <1>2, <1>3, RowsStay DEF OnlyRightful

\* OnlyRightfulKept: every step hands on rightful work.
LEMMA OnlyRightfulKept ==
  ASSUME RouteJobsAssumption, TypeOK, OnlyRightful, [Next]_vars
  PROVE  OnlyRightful'
<1> DEFINE old == Rightful(jobs)
           new == Rightful(jobs')
<1>1. /\ old \subseteq new /\ Seq(old) \subseteq Seq(new) /\ Seq(Seq(old)) \subseteq Seq(Seq(new))
      /\ recorded \subseteq DOMAIN jobs'
  BY TypeParts, RightfulStays
<1>2. /\ queue \in Seq(old) /\ todo \in Seq(old) /\ pendingSamples \in Seq(old) /\ ingesting \in Seq(old)
      /\ up \in Seq(Seq(old)) /\ down \in Seq(Seq(old))
      /\ marked \in [Goroutines -> old \cup {None}] /\ running \in old \cup {None}
  BY DEF OnlyRightful
<1>3. /\ queue \in Seq(new) /\ todo \in Seq(new) /\ pendingSamples \in Seq(new) /\ ingesting \in Seq(new)
      /\ up \in Seq(Seq(new)) /\ down \in Seq(Seq(new))
      /\ marked \in [Goroutines -> new \cup {None}] /\ running \in new \cup {None}
  BY <1>1, <1>2
<1> DEFINE Result == /\ queue' \in Seq(new) /\ todo' \in Seq(new)
                     /\ pendingSamples' \in Seq(new) /\ ingesting' \in Seq(new)
                     /\ up' \in Seq(Seq(new)) /\ down' \in Seq(Seq(new))
                     /\ marked' \in [Goroutines -> new \cup {None}]
                     /\ running' \in new \cup {None}
                     /\ recorded' \subseteq DOMAIN jobs'
<1>4. CollectorTyped /\ "prober" \in Goroutines /\ "syncer" \in Goroutines /\ old \subseteq Work
  BY TypeParts DEF Goroutines, Rightful
<1>5. SUFFICES Result
  BY DEF OnlyRightful
<1> HIDE DEF old, new
<1>6. CASE Administrators \/ SaveTargets \/ Tick \/ UNCHANGED vars
  <2>1. UNCHANGED <<queue, todo, pendingSamples, ingesting, up, down, marked, running, recorded>>
    BY <1>6 DEF Administrators, ViewRoutes, CreateJob, RequestRoute, SaveTargets, Tick, collectorVars, streamVars, primaryVars, vars
  <2> QED  BY <1>1, <1>3, <2>1
<1>7. CASE HandleRuntime
  <2>1. UNCHANGED <<queue, todo, pendingSamples, ingesting, marked, running, recorded>> /\ jobs' = Expired
    BY <1>7 DEF HandleRuntime, collectorVars
  <2>2. up' \in Seq(Seq(new))
    BY <1>3, <1>7, TailTyped DEF HandleRuntime
  <2>3. PICK order \in Ascending(Pending(Expired)) :
          LET batch == [i \in DOMAIN order |-> [key |-> jobs[order[i]].key, job |-> order[i]]]
          IN  down' = IF batch = <<>> THEN down ELSE Append(down, batch)
    BY <1>7 DEF HandleRuntime
  <2> DEFINE batch == [i \in DOMAIN order |-> [key |-> jobs[order[i]].key, job |-> order[i]]]
  <2>4. batch \in Seq(new)
    BY <2>1, BatchRightful, TypeParts DEF new
  <2>5. down' = down \/ down' = Append(down, batch)
    BY <2>3
  <2> HIDE DEF batch
  <2>6. down \in Seq(Seq(new))
    BY <1>3
  <2>7. Append(down, batch) \in Seq(Seq(new))
    BY <2>4, <2>6, AppendTyped
  <2>8. down' \in Seq(Seq(new))
    BY <2>5, <2>6, <2>7
  <2> QED  BY <1>1, <1>3, <2>1, <2>2, <2>8
<1>8. CASE ReceiveSamples
  <2>1. UNCHANGED <<queue, todo, pendingSamples, down, marked, running, recorded>>
    BY <1>8 DEF ReceiveSamples, collectorVars
  <2>2. ingesting' \in Seq(new) /\ up' \in Seq(Seq(new))
    BY <1>3, <1>8, TailTyped DEF ReceiveSamples
  <2> QED  BY <1>1, <1>3, <2>1, <2>2
<1>9. CASE InsertRoute
  <2>1. UNCHANGED <<queue, todo, pendingSamples, ingesting, up, down, marked, running>>
    BY <1>9 DEF InsertRoute, collectorVars, streamVars
  <2>2. Head(ingesting) \in new
    BY <1>3, <1>9, TailTyped DEF InsertRoute
  <2>3. recorded' \subseteq DOMAIN jobs'
    BY <1>1, <1>9, <2>2 DEF InsertRoute, new, Rightful
  <2> QED  BY <1>3, <2>1, <2>3
<1>10. CASE FinishJob
  <2>1. UNCHANGED <<queue, todo, pendingSamples, up, down, marked, running, recorded>>
    BY <1>10 DEF FinishJob, collectorVars, streamVars
  <2>2. ingesting' \in Seq(new)
    BY <1>3, <1>10, TailTyped DEF FinishJob
  <2> QED  BY <1>1, <1>3, <2>1, <2>2
<1>11. CASE SyncTick
  <2>1. UNCHANGED <<queue, todo, ingesting, down, marked, running, recorded>> /\ pendingSamples' = <<>>
    BY <1>11 DEF SyncTick, primaryVars
  <2>2. <<>> \in Seq(new) /\ <<Runtime>> \in Seq(Seq(new)) /\ <<Runtime, pendingSamples>> \in Seq(Seq(new))
    BY <1>3 DEF Runtime
  <2>3. up' = up \o <<Runtime>> \/ up' = up \o <<Runtime, pendingSamples>>
    BY <1>11 DEF SyncTick
  <2>4. up \in Seq(Seq(new))
    BY <1>3
  <2>5. up \o <<Runtime>> \in Seq(Seq(new)) /\ up \o <<Runtime, pendingSamples>> \in Seq(Seq(new))
    BY <2>2, <2>4, ConcatTyped
  <2>6. up' \in Seq(Seq(new))
    BY <2>3, <2>5
  <2> QED  BY <1>1, <1>3, <2>1, <2>2, <2>6
<1>12. CASE ReceiveJobs
  <2>1. UNCHANGED <<queue, pendingSamples, ingesting, up, marked, running, recorded>>
    BY <1>12 DEF ReceiveJobs, primaryVars
  <2>2. todo' \in Seq(new) /\ down' \in Seq(Seq(new))
    BY <1>3, <1>12, TailTyped DEF ReceiveJobs
  <2> QED  BY <1>1, <1>3, <2>1, <2>2
<1>13. ASSUME NEW g \in Goroutines, NEW work \in new, Mark(g, work)
       PROVE  marked' \in [Goroutines -> new \cup {None}]
  BY <1>3, <1>13 DEF Mark
<1>14. CASE EnqueueJob
  <2>1. UNCHANGED <<queue, pendingSamples, ingesting, up, down, running, recorded>>
    BY <1>14 DEF EnqueueJob, primaryVars, streamVars
  <2>2. Head(todo) \in new /\ todo' \in Seq(new)
    BY <1>3, <1>14, TailTyped DEF EnqueueJob
  <2>3. Mark("syncer", Head(todo)) \/ UNCHANGED marked
    BY <1>14 DEF EnqueueJob
  <2>4. marked' \in [Goroutines -> new \cup {None}]
    BY <1>3, <1>4, <1>13, <2>2, <2>3
  <2> QED  BY <1>1, <1>3, <2>1, <2>2, <2>4
<1>15. ASSUME NEW k \in Keys, ScheduleRoute(k)
       PROVE  Result
  <2>1. UNCHANGED <<queue, todo, pendingSamples, ingesting, up, down, running, recorded>>
    BY <1>15 DEF ScheduleRoute, primaryVars, streamVars
  <2>2. [key |-> k, job |-> 0] \in new
    BY DEF new, Rightful, Work
  <2>3. marked' \in [Goroutines -> new \cup {None}]
    BY <1>4, <1>13, <1>15, <2>2 DEF ScheduleRoute
  <2> QED  BY <1>1, <1>3, <2>1, <2>3
<1>16. ASSUME NEW g \in Goroutines, Push(g)
       PROVE  Result
  <2>1. UNCHANGED <<todo, pendingSamples, ingesting, up, down, running, recorded>>
    BY <1>16 DEF Push, primaryVars, streamVars
  <2>2. marked[g] \in new
    BY <1>3, <1>16 DEF Push
  <2>3. queue' = queue \/ queue' = Append(queue, marked[g])
    BY <1>16 DEF Push
  <2>4. queue' \in Seq(new)
    <3>1. Append(queue, marked[g]) \in Seq(new)
      BY <1>3, <2>2
    <3> QED  BY <1>3, <2>3, <3>1
  <2>5. marked' \in [Goroutines -> new \cup {None}]
    BY <1>3, <1>16 DEF Push
  <2> QED  BY <1>1, <1>3, <2>1, <2>4, <2>5
<1>17. CASE StartTrace
  <2>1. UNCHANGED <<todo, pendingSamples, ingesting, up, down, marked, recorded>>
    BY <1>17 DEF StartTrace, primaryVars, streamVars
  <2>2. running' \in new /\ queue' \in Seq(new)
    BY <1>3, <1>17, TailTyped DEF StartTrace
  <2> QED  BY <1>1, <1>3, <2>1, <2>2
<1>18. CASE QueueSample
  <2> DEFINE all == Append(pendingSamples, running)
  <2>1. UNCHANGED <<queue, todo, ingesting, up, down, marked, running, recorded>>
    BY <1>18 DEF QueueSample, primaryVars, streamVars
  <2>2. running \in new
    BY <1>3, <1>18 DEF QueueSample
  <2>3. all \in Seq(new) /\ all # <<>>
    BY <1>3, <2>2, AppendTyped
  <2>4. pendingSamples' = Tail(all) \/ pendingSamples' = all
    BY <1>18 DEF QueueSample
  <2> HIDE DEF all
  <2>5. pendingSamples' \in Seq(new)
    BY <2>3, <2>4, TailTyped
  <2> QED  BY <1>1, <1>3, <2>1, <2>5
<1>19. CASE MarkRouteDone
  <2>1. UNCHANGED <<queue, todo, pendingSamples, ingesting, up, down, marked, recorded>> /\ running' = None
    BY <1>19 DEF MarkRouteDone, primaryVars, streamVars
  <2> QED  BY <1>1, <1>3, <2>1
<1>20. CASE StreamBreaks
  <2>1. UNCHANGED <<queue, todo, pendingSamples, marked, running, recorded>>
        /\ up' = <<>> /\ down' = <<>> /\ ingesting' = <<>>
    BY <1>20 DEF StreamBreaks, LoseStream, collectorVars
  <2> QED  BY <1>1, <1>3, <2>1, EmptyTyped
<1>21. CASE CollectorRestarts
  <2>1. /\ UNCHANGED recorded
        /\ up' = <<>> /\ down' = <<>> /\ ingesting' = <<>> /\ pendingSamples' = <<>>
        /\ todo' = <<>> /\ marked' = [g \in Goroutines |-> None] /\ queue' = <<>> /\ running' = None
    BY <1>21 DEF CollectorRestarts, LoseStream
  <2> QED  BY <1>1, <2>1, EmptyTyped
<1>22. CASE TargetsUnreadable
  <2>1. UNCHANGED <<queue, todo, pendingSamples, ingesting, up, marked, running, recorded>>
    BY <1>22 DEF TargetsUnreadable, collectorVars, primaryVars
  <2>2. down' \in Seq(Seq(new))
    BY <1>3, <1>22, TailTyped DEF TargetsUnreadable
  <2> QED  BY <1>1, <1>3, <2>1, <2>2
<1> QED
  BY <1>4, <1>6, <1>7, <1>8, <1>9, <1>10, <1>11, <1>12, <1>14, <1>15, <1>16, <1>17, <1>18, <1>19, <1>20, <1>21, <1>22
  DEF Next, Handler, Prober, Syncer, RouteWorker

\* RightfulAnswers: then the work there is answers its rows.
LEMMA RightfulAnswers ==
  ASSUME OnlyRightful
  PROVE  TracesAnswerTheirJobs
<1>1. \A s \in Seq(Rightful(jobs)) : ToSet(s) \subseteq Rightful(jobs)
  BY DEF ToSet
<1>2. ToSet(up) \subseteq Seq(Rightful(jobs)) /\ ToSet(down) \subseteq Seq(Rightful(jobs))
  BY DEF OnlyRightful, ToSet
<1>3. \A g \in Busy : Held[g] \in Rightful(jobs)
  BY HeldFacts DEF OnlyRightful
<1>4. \A s \in {queue, todo, pendingSamples, ingesting} \cup ToSet(up) \cup ToSet(down) : s \in Seq(Rightful(jobs))
  BY <1>2 DEF OnlyRightful
<1>5. Afoot \subseteq Rightful(jobs)
  <2> DEFINE Lists == {queue, todo, pendingSamples, ingesting} \cup ToSet(up) \cup ToSet(down)
  <2>1. \A s \in Lists : ToSet(s) \subseteq Rightful(jobs)
    BY <1>1, <1>4
  <2>2. Afoot = {Held[g] : g \in Busy} \cup UNION {ToSet(s) : s \in Lists}
    BY DEF Afoot
  <2> HIDE DEF Lists
  <2>3. UNION {ToSet(s) : s \in Lists} \subseteq Rightful(jobs)
    <3>1. ASSUME NEW w \in UNION {ToSet(s) : s \in Lists}
          PROVE  w \in Rightful(jobs)
      <4>1. PICK s \in Lists : w \in ToSet(s)
        BY <3>1, Zenon
      <4> QED  BY <2>1, <4>1
    <3> QED  BY <3>1, Zenon
  <2>4. {Held[g] : g \in Busy} \subseteq Rightful(jobs)
    BY <1>3
  <2> QED  BY <2>2, <2>3, <2>4
<1> QED  BY <1>5 DEF Rightful, OnlyRightful, TracesAnswerTheirJobs

\* TracesAnswer: for any queue lengths, faults and restarts, the traces that arrive
\* for a job are of the server and protocol it was created for.
THEOREM TracesAnswer == Spec => []TracesAnswerTheirJobs
<1>1. Init => OnlyRightful
  BY EmptyTyped DEF Init, OnlyRightful
<1>2. RouteJobsAssumption /\ TypeOK /\ OnlyRightful /\ [Next]_vars => OnlyRightful'
  BY OnlyRightfulKept
<1>3. OnlyRightful => TracesAnswerTheirJobs
  BY RightfulAnswers
<1> QED  BY <1>1, <1>2, <1>3, RouteJobsAssumption, TypeCorrect, PTL DEF Spec

============================================================================
