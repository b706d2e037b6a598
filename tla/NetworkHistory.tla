--------------------------- MODULE NetworkHistory ---------------------------
(***************************************************************************)
(* The delay histories of the public status page: the module-wide cache of *)
(* networkHistoryCache.ts, its pool of at most LIMIT fetches, the tiles of *)
(* the network page (NetworkHostCard.vue), which load once, and the chart  *)
(* (useNetworkMonitor.ts), which changes servers and refreshes itself.     *)
(*                                                                         *)
(* The browser runs one piece of code at a time: an action is what runs    *)
(* from one await to the next.                                             *)
(***************************************************************************)
EXTENDS Integers, Sequences, FiniteSets

CONSTANTS
  Servers,
  Tiles,        \* servers that have a tile
  LIMIT,
  MaxHistory,   \* bound: how often the Primary's history grows
  MaxLoads      \* bound: loads of the chart

ASSUME NetworkHistoryAssumption ==
  /\ IsFiniteSet(Servers) /\ Tiles \subseteq Servers
  /\ LIMIT \in Nat \ {0} /\ MaxHistory \in Nat \ {0} /\ MaxLoads \in Nat \ {0}

VARIABLES
  history,   \* the history at the Primary: how often it has grown
  cache,     \* by server; 0 stands for no entry
  inflight,  \* by server; 0 stands for no entry
  waiting,   \* requests that wait for a slot
  active,    \* slots taken
  requests,  \* what loadNetworkHistory has started
  loads,     \* who waits for what
  tile,
  chart

vars == <<history, cache, inflight, waiting, active, requests, loads, tile, chart>>

Rows == 0 .. MaxHistory

RequestIds == 1 .. MaxLoads + Cardinality(Tiles)

Phases == {"waiting", "granted", "fetching", "answered", "done", "failed"}

Request == [server : Servers, force : BOOLEAN, phase : Phases, rows : Rows]

\* A load of the chart has its requestSeq, one of a tile has none.  request = 0 stands
\* for rows that were in the cache.
Load == [server : Servers, seq : 0 .. MaxLoads, force : BOOLEAN,
         request : RequestIds \cup {0}, rows : Rows]

\* rows = 0 stands for none.
Chart == [server : Servers, of : Servers, rows : Rows, loading : BOOLEAN, failed : BOOLEAN,
          seq : 0 .. MaxLoads]

\* What the code needs its maps, counters and refs to be.
TypeOK ==
  /\ history \in 1 .. MaxHistory
  /\ cache \in [Servers -> Rows]
  /\ inflight \in [Servers -> RequestIds \cup {0}]
  /\ waiting \in Seq(RequestIds)
  /\ active \in Nat
  /\ requests \in Seq(Request)
  /\ loads \in SUBSET Load
  /\ tile \in [Tiles -> {"hidden", "loading", "shown", "failed"}]
  /\ chart \in Chart

Init ==
  /\ history = 1
  /\ cache = [s \in Servers |-> 0]
  /\ inflight = [s \in Servers |-> 0]
  /\ waiting = <<>> /\ active = 0
  /\ requests = <<>> /\ loads = {}
  /\ tile = [s \in Tiles |-> "hidden"]
  /\ chart \in {[server |-> s, of |-> s, rows |-> 0, loading |-> FALSE, failed |-> FALSE,
                 seq |-> 0] : s \in Servers}

----------------------------------------------------------------------------
(* networkHistoryCache.ts                                                  *)

\* acquire, for the request with this id: a slot or a place in the queue.
Acquire(id) ==
  IF active < LIMIT
  THEN active' = active + 1 /\ UNCHANGED waiting
  ELSE waiting' = Append(waiting, id) /\ UNCHANGED active

\* Mutant: the slot is given to nobody.
ReleaseOnly == active' = active - 1 /\ UNCHANGED waiting

\* Mutant: whoever waited does not count as active.
ReleaseUncounted ==
  /\ active' = active - 1
  /\ waiting' = IF waiting = <<>> THEN waiting ELSE Tail(waiting)

\* release: the slot goes to the first that waits.  TypeOK shows that active needs no
\* Math.max(0, ...).
Release ==
  IF waiting = <<>>
  THEN active' = active - 1 /\ UNCHANGED waiting
  ELSE waiting' = Tail(waiting) /\ UNCHANGED active

Started(s, force) ==
  [server |-> s, force |-> force, rows |-> 0,
   phase  |-> IF active < LIMIT THEN "granted" ELSE "waiting"]

\* loadNetworkHistory: the cache, a request under way, or a request of its own.
LoadNetworkHistory(s, seq, force) ==
  LET load == [server |-> s, seq |-> seq, force |-> force, request |-> 0, rows |-> 0]
      id   == Len(requests) + 1
  IN  \/ /\ ~force /\ cache[s] # 0
         /\ loads' = loads \cup {[load EXCEPT !.rows = cache[s]]}
         /\ UNCHANGED <<inflight, waiting, active, requests>>
      \/ /\ ~force /\ cache[s] = 0 /\ inflight[s] # 0
         /\ loads' = loads \cup {[load EXCEPT !.request = inflight[s]]}
         /\ UNCHANGED <<inflight, waiting, active, requests>>
      \/ /\ force \/ (cache[s] = 0 /\ inflight[s] = 0)
         /\ Acquire(id)
         /\ requests' = Append(requests, Started(s, force))
         /\ inflight' = [inflight EXCEPT ![s] = id]
         /\ loads' = loads \cup {[load EXCEPT !.request = id]}

\* The end of a request: the slot is released, on errors too, and whatever entry the
\* server has in inflight is deleted.
Settle(r, phase, rows) ==
  /\ Release
  /\ requests' =
       [i \in DOMAIN requests |->
          IF i = r THEN [requests[i] EXCEPT !.phase = phase, !.rows = rows]
          ELSE IF waiting # <<>> /\ i = Head(waiting) THEN [requests[i] EXCEPT !.phase = "granted"]
          ELSE requests[i]]
  /\ inflight' = [inflight EXCEPT ![requests[r].server] = 0]

\* A request that has a slot looks into the cache again, unless it is a forced one.
UseSlot(r) ==
  /\ requests[r].phase = "granted"
  /\ LET s == requests[r].server
     IN  IF ~requests[r].force /\ cache[s] # 0
         THEN Settle(r, "done", cache[s])
         ELSE /\ requests' = [requests EXCEPT ![r].phase = "fetching"]
              /\ UNCHANGED <<inflight, waiting, active>>
  /\ UNCHANGED <<history, cache, loads, tile, chart>>

\* The Primary answers with the history it has by then.
PrimaryAnswers(r) ==
  /\ requests[r].phase = "fetching"
  /\ requests' = [requests EXCEPT ![r].phase = "answered", ![r].rows = history]
  /\ UNCHANGED <<history, cache, inflight, waiting, active, loads, tile, chart>>

ResponseArrives(r) ==
  /\ requests[r].phase = "answered"
  /\ cache' = [cache EXCEPT ![requests[r].server] = requests[r].rows]
  /\ Settle(r, "done", requests[r].rows)
  /\ UNCHANGED <<history, loads, tile, chart>>

\* Mutant: without the finally block.
FetchFailsKeepsSlot(r) ==
  /\ requests[r].phase \in {"fetching", "answered"}
  /\ requests' = [requests EXCEPT ![r].phase = "failed", ![r].rows = 0]
  /\ UNCHANGED <<history, cache, inflight, waiting, active, loads, tile, chart>>

FetchFails(r) ==
  /\ requests[r].phase \in {"fetching", "answered"}
  /\ Settle(r, "failed", 0)
  /\ UNCHANGED <<history, cache, loads, tile, chart>>

----------------------------------------------------------------------------
(* Tiles and chart.                                                        *)

\* A tile that comes into view loads its history, and only once: useInView sets load and never
\* resets it, so a tile whose load failed stays failed until it is mounted anew, which is not
\* modelled.  A tile mounted with its server in the cache shows those rows at once; here it takes
\* them as a load that is a cache hit.
ShowTile(s) ==
  /\ tile[s] = "hidden"
  /\ tile' = [tile EXCEPT ![s] = "loading"]
  /\ LoadNetworkHistory(s, 0, FALSE)
  /\ UNCHANGED <<history, cache, chart>>

\* load, for the server on screen.
LoadChart(s, force) ==
  /\ chart.seq < MaxLoads
  /\ chart' = [chart EXCEPT !.server = s, !.seq = @ + 1, !.loading = TRUE, !.failed = FALSE]
  /\ LoadNetworkHistory(s, chart.seq + 1, force)
  /\ UNCHANGED <<history, cache, tile>>

\* watch(serverId), which runs at once for the first server.
SelectServer(s) ==
  /\ chart.seq = 0 <=> s = chart.server
  /\ LoadChart(s, FALSE)

\* syncTimer, every minute.
Refresh == chart.seq > 0 /\ LoadChart(chart.server, TRUE)

Settled(load) == load.request # 0 => requests[load.request].phase \in {"done", "failed"}

Failed(load) == load.request # 0 /\ requests[load.request].phase = "failed"

RowsOf(load) == IF load.request = 0 THEN load.rows ELSE requests[load.request].rows

ResumeTile(load) ==
  /\ load \in loads /\ Settled(load) /\ load.seq = 0
  /\ loads' = loads \ {load}
  /\ tile' = [tile EXCEPT ![load.server] = IF Failed(load) THEN "failed" ELSE "shown"]
  /\ UNCHANGED <<history, cache, inflight, waiting, active, requests, chart>>

\* Mutant: whichever load this is.
ResumeChartAnyway(load) ==
  /\ load \in loads /\ Settled(load) /\ load.seq > 0
  /\ loads' = loads \ {load}
  /\ chart' = [chart EXCEPT !.of = load.server, !.rows = RowsOf(load), !.failed = Failed(load),
                            !.loading = FALSE]
  /\ UNCHANGED <<history, cache, inflight, waiting, active, requests, tile>>

\* Mutant: only a load for another server is ignored.
ResumeChartOfServer(load) ==
  /\ load \in loads /\ Settled(load) /\ load.seq > 0
  /\ loads' = loads \ {load}
  /\ IF load.server = chart.server
     THEN chart' = [chart EXCEPT !.of = load.server, !.rows = RowsOf(load),
                                 !.failed = Failed(load), !.loading = FALSE]
     ELSE UNCHANGED chart
  /\ UNCHANGED <<history, cache, inflight, waiting, active, requests, tile>>

\* What only the latest load may do is show rows or a failure and end the spinner.
ResumeChart(load) ==
  /\ load \in loads /\ Settled(load) /\ load.seq > 0
  /\ loads' = loads \ {load}
  /\ IF load.seq = chart.seq
     THEN chart' = [chart EXCEPT !.of = load.server, !.rows = RowsOf(load),
                                 !.failed = Failed(load), !.loading = FALSE]
     ELSE UNCHANGED chart
  /\ UNCHANGED <<history, cache, inflight, waiting, active, requests, tile>>

----------------------------------------------------------------------------
HistoryGrows ==
  /\ history < MaxHistory /\ history' = history + 1
  /\ UNCHANGED <<cache, inflight, waiting, active, requests, loads, tile, chart>>

Continue ==
  \/ \E r \in DOMAIN requests : UseSlot(r) \/ PrimaryAnswers(r) \/ ResponseArrives(r)
  \/ \E load \in loads : ResumeTile(load) \/ ResumeChart(load)

Next ==
  \/ \E s \in Tiles : ShowTile(s)
  \/ \E s \in Servers : SelectServer(s)
  \/ Refresh
  \/ Continue
  \/ \E r \in DOMAIN requests : FetchFails(r)
  \/ HistoryGrows

Spec == Init /\ [][Next]_vars

\* The browser goes on with whatever can go on, and a fetch that does not fail is
\* answered.
FairSpec == Spec /\ WF_vars(Continue)

----------------------------------------------------------------------------
(* Properties.                                                             *)

\* The pool neither leaks a slot nor grants one twice, whatever fails or is found in the
\* cache, and no request waits while a slot is free (acquire, release).
SlotsAreHeld ==
  /\ active = Cardinality({r \in DOMAIN requests :
                             requests[r].phase \in {"granted", "fetching", "answered"}})
  /\ active <= LIMIT
  /\ waiting # <<>> => active = LIMIT

\* When the spinner is gone the chart shows the history of the server it is for, however
\* often the server was changed while loads were under way (requestSeq).
ShownIsCurrent == ~chart.loading /\ ~chart.failed /\ chart.seq > 0 => chart.of = chart.server

\* A refresh never replaces the history on screen by an older one, in whatever order
\* the requests get their slots, are answered and arrive.
RefreshNeverGoesBack ==
  [][\A load \in loads \ loads' :
       load.force /\ chart'.rows > 0 /\ chart.of = chart'.of => chart'.rows >= chart.rows]_vars

\* Whoever waits for a request waits for one of the server asked for, own or joined: the
\* entry of a server in inflight, set before a place in the queue is taken and deleted by
\* whichever request of the server ends first, never leads to another server's history
\* (loadNetworkHistory).
LoadsGetTheirServer ==
  /\ \A load \in loads :
       load.request # 0 => requests[load.request].server = load.server
  /\ \A s \in Servers : inflight[s] # 0 => requests[inflight[s]].server = s

\* Nobody waits in vain: behind a spinner there is a load, behind a waiting request a place
\* in the queue, and behind a queue a request that has a slot to hand on, however many
\* loads were superseded and whatever failed (acquire, release, requestSeq).
NobodyWaitsInVain ==
  /\ chart.loading => \E load \in loads : load.seq > 0 /\ load.seq = chart.seq
  /\ \A s \in Tiles :
       tile[s] = "loading" => \E load \in loads : load.seq = 0 /\ load.server = s
  /\ \A r \in DOMAIN requests :
       requests[r].phase = "waiting" =>
         /\ \E i \in DOMAIN waiting : waiting[i] = r
         /\ \E h \in DOMAIN requests : requests[h].phase \in {"granted", "fetching", "answered"}

\* Every load ends and every slot comes back.
LoadsSettle == <>[](loads = {} /\ ~chart.loading /\ active = 0 /\ waiting = <<>>)
=============================================================================
