------------------------ MODULE NetworkHistoryProofs ------------------------
(***************************************************************************)
(* Proofs about NetworkHistory for any servers, tiles and number of slots, *)
(* and any number of loads.                                                *)
(***************************************************************************)
EXTENDS NetworkHistory, FiniteSetTheorems, TLAPS

----------------------------------------------------------------------------
(* Requests and their ids.                                                 *)

\* Tiles that have started to load.
Begun == {s \in Tiles : tile[s] # "hidden"}

\* A tile and a load of the chart start one request at most.
FewRequests == Len(requests) <= chart.seq + Cardinality(Begun)

\* What inflight and the loads refer to exists.
IdsExist ==
  /\ \A s \in Servers : inflight[s] \in DOMAIN requests \cup {0}
  /\ \A load \in loads : load.request \in DOMAIN requests \cup {0}

\* Whoever is in the queue waits, and is there once.
QueueWaits ==
  /\ \A i \in DOMAIN waiting :
        waiting[i] \in DOMAIN requests /\ requests[waiting[i]].phase = "waiting"
  /\ \A i, j \in DOMAIN waiting : waiting[i] = waiting[j] => i = j

\* The requests that have a slot.
Holding == {r \in DOMAIN requests : requests[r].phase \in {"granted", "fetching", "answered"}}

\* The pool: its types, references, queue and slots.
PoolInv == TypeOK /\ IdsExist /\ QueueWaits /\ SlotsAreHeld

\* The same without the variables that are not the pool's.
PoolTyped ==
  /\ inflight \in [Servers -> RequestIds \cup {0}]
  /\ waiting \in Seq(RequestIds)
  /\ active \in Nat
  /\ requests \in Seq(Request)
  /\ loads \in SUBSET Load

\* RequestsTyped: the requests are numbered from 1.
LEMMA RequestsTyped ==
  ASSUME TypeOK
  PROVE  /\ requests \in Seq(Request) /\ Len(requests) \in Nat /\ DOMAIN requests = 1 .. Len(requests)
         /\ \A r \in DOMAIN requests : requests[r] \in Request
         /\ waiting \in Seq(RequestIds) /\ Len(waiting) \in Nat /\ DOMAIN waiting = 1 .. Len(waiting)
         /\ chart \in Chart /\ chart.seq \in 0 .. MaxLoads /\ chart.seq \in Nat
<1>1. requests \in Seq(Request) /\ waiting \in Seq(RequestIds) /\ chart \in Chart
  BY DEF TypeOK
<1>2. chart.seq \in 0 .. MaxLoads
  BY <1>1 DEF Chart
<1> QED  BY <1>1, <1>2

\* BegunCounted: no more tiles have begun than there are.
LEMMA BegunCounted ==
  ASSUME NetworkHistoryAssumption
  PROVE  /\ IsFiniteSet(Begun) /\ Cardinality(Begun) \in Nat
         /\ Cardinality(Tiles) \in Nat /\ Cardinality(Begun) <= Cardinality(Tiles)
<1>1. IsFiniteSet(Tiles) /\ Begun \subseteq Tiles
  BY FS_Subset DEF NetworkHistoryAssumption, Begun
<1> QED  BY <1>1, FS_Subset, FS_CardinalityType

\* NextIdFits: the id of a new request is one of those there are.
LEMMA NextIdFits ==
  ASSUME NetworkHistoryAssumption, TypeOK, FewRequests,
         \/ chart.seq < MaxLoads
         \/ \E s \in Tiles : tile[s] = "hidden"
  PROVE  Len(requests) + 1 \in RequestIds
<1>1. /\ Cardinality(Begun) \in Nat /\ Cardinality(Tiles) \in Nat /\ MaxLoads \in Nat
      /\ Cardinality(Begun) <= Cardinality(Tiles)
      /\ Len(requests) \in Nat /\ chart.seq \in Nat /\ chart.seq <= MaxLoads
  BY BegunCounted, RequestsTyped DEF NetworkHistoryAssumption
<1>2. CASE chart.seq < MaxLoads
  BY <1>1, <1>2 DEF FewRequests, RequestIds
<1>3. CASE \E s \in Tiles : tile[s] = "hidden"
  <2>1. Begun \subseteq Tiles /\ Begun # Tiles
    BY <1>3 DEF Begun
  <2>2. IsFiniteSet(Tiles)
    BY FS_Subset DEF NetworkHistoryAssumption
  <2>3. Cardinality(Begun) < Cardinality(Tiles)
    BY <1>1, <2>1, <2>2, FS_Subset
  <2> QED  BY <1>1, <2>3 DEF FewRequests, RequestIds
<1> QED  BY <1>2, <1>3

----------------------------------------------------------------------------
(* What loading, settling and resuming do to the maps.                     *)

\* Loaded(s, seq, force, load): what LoadNetworkHistory makes of its load.
Loaded(s, seq, force, load) ==
  /\ loads' = loads \cup {load}
  /\ load.server = s /\ load.seq = seq /\ load.force = force
  /\ \/ /\ ~force /\ UNCHANGED <<inflight, waiting, active, requests>>
        /\ load.request \in DOMAIN requests \cup {0}
        /\ load.request = 0 => load.rows = cache[s]
        /\ load.request # 0 => load.request = inflight[s]
     \/ /\ requests' = Append(requests, Started(s, force))
        /\ inflight' = [inflight EXCEPT ![s] = Len(requests) + 1]
        /\ load.request = Len(requests) + 1
        /\ Acquire(Len(requests) + 1)

\* LoadTyped: a load finds rows in the cache, joins a request, or starts the next one.
LEMMA LoadTyped ==
  ASSUME NetworkHistoryAssumption, TypeOK, IdsExist, NEW s \in Servers, NEW seq \in 0 .. MaxLoads,
         NEW force \in BOOLEAN, Len(requests) + 1 \in RequestIds, LoadNetworkHistory(s, seq, force)
  PROVE  \E load \in Load : Loaded(s, seq, force, load)
<1> DEFINE load == [server |-> s, seq |-> seq, force |-> force, request |-> 0, rows |-> 0]
           id   == Len(requests) + 1
<1>1. load \in Load
  BY DEF Load, Rows, NetworkHistoryAssumption
<1>2. cache[s] \in Rows /\ inflight[s] \in RequestIds \cup {0} /\ inflight[s] \in DOMAIN requests \cup {0}
  BY DEF TypeOK, IdsExist
<1> DEFINE found == [load EXCEPT !.rows = cache[s]]
           joined == [load EXCEPT !.request = inflight[s]]
           own == [load EXCEPT !.request = id]
<1>3. /\ found \in Load /\ joined \in Load /\ own \in Load
      /\ \A l \in {found, joined, own} : l.server = s /\ l.seq = seq /\ l.force = force
      /\ found.request = 0 /\ found.rows = cache[s] /\ joined.request = inflight[s] /\ own.request = id
  BY <1>1, <1>2 DEF Load
<1>4. \/ /\ ~force /\ loads' = loads \cup {found} /\ UNCHANGED <<inflight, waiting, active, requests>>
      \/ /\ ~force /\ inflight[s] # 0 /\ loads' = loads \cup {joined}
         /\ UNCHANGED <<inflight, waiting, active, requests>>
      \/ /\ Acquire(id) /\ requests' = Append(requests, Started(s, force))
         /\ inflight' = [inflight EXCEPT ![s] = id]
         /\ loads' = loads \cup {own}
  BY DEF LoadNetworkHistory
<1> HIDE DEF found, joined, own
<1>5. CASE ~force /\ loads' = loads \cup {found} /\ UNCHANGED <<inflight, waiting, active, requests>>
  BY <1>3, <1>5 DEF Loaded
<1>6. CASE /\ ~force /\ inflight[s] # 0 /\ loads' = loads \cup {joined}
           /\ UNCHANGED <<inflight, waiting, active, requests>>
  BY <1>2, <1>3, <1>6 DEF Loaded
<1>7. CASE /\ Acquire(id) /\ requests' = Append(requests, Started(s, force))
           /\ inflight' = [inflight EXCEPT ![s] = id]
           /\ loads' = loads \cup {own}
  BY <1>3, <1>7 DEF Loaded
<1> QED  BY <1>4, <1>5, <1>6, <1>7

\* StartedTyped: a new request.
LEMMA StartedTyped ==
  ASSUME NetworkHistoryAssumption, NEW s \in Servers, NEW force \in BOOLEAN
  PROVE  /\ Started(s, force) \in Request /\ Started(s, force).rows = 0
         /\ Started(s, force).force = force
         /\ active < LIMIT => Started(s, force).phase = "granted"
         /\ ~(active < LIMIT) => Started(s, force).phase = "waiting"
<1>1. 0 \in Rows
  BY DEF Rows, NetworkHistoryAssumption
<1>2. CASE active < LIMIT
  BY <1>1, <1>2 DEF Started, Request, Phases
<1>3. CASE ~(active < LIMIT)
  BY <1>1, <1>3 DEF Started, Request, Phases
<1> QED  BY <1>2, <1>3

\* Settles(r, phase, rows): what Settle makes of each request.
Settles(r, phase, rows) ==
  /\ requests' \in Seq(Request) /\ DOMAIN requests' = DOMAIN requests /\ Len(requests') = Len(requests)
  /\ requests'[r].phase = phase /\ requests'[r].rows = rows
  /\ \A i \in DOMAIN requests :
        /\ requests'[i].server = requests[i].server /\ requests'[i].force = requests[i].force
        /\ i # r => requests'[i].rows = requests[i].rows
        /\ i # r /\ waiting # <<>> /\ i = waiting[1] => requests'[i].phase = "granted"
        /\ i # r /\ (waiting = <<>> \/ i # waiting[1]) => requests'[i].phase = requests[i].phase

\* SettleTyped: the requests after one has settled.
LEMMA SettleTyped ==
  ASSUME TypeOK, NEW r \in DOMAIN requests, NEW phase \in Phases, NEW rows \in Rows, Settle(r, phase, rows)
  PROVE  /\ Settles(r, phase, rows)
         /\ inflight' = [inflight EXCEPT ![requests[r].server] = 0]
         /\ requests[r].server \in Servers
<1>1. /\ requests \in Seq(Request) /\ DOMAIN requests = 1 .. Len(requests) /\ Len(requests) \in Nat
      /\ \A i \in DOMAIN requests : requests[i] \in Request
      /\ waiting \in Seq(RequestIds)
  BY RequestsTyped
<1>2. \A i \in DOMAIN requests :
         /\ [requests[i] EXCEPT !.phase = phase, !.rows = rows] \in Request
         /\ [requests[i] EXCEPT !.phase = "granted"] \in Request
  BY <1>1 DEF Request, Phases
<1>3. requests' = [i \in DOMAIN requests |->
          IF i = r THEN [requests[i] EXCEPT !.phase = phase, !.rows = rows]
          ELSE IF waiting # <<>> /\ i = Head(waiting) THEN [requests[i] EXCEPT !.phase = "granted"]
          ELSE requests[i]]
  BY Zenon DEF Settle
<1>4. requests' \in [1 .. Len(requests) -> Request]
  <2> DEFINE new(i) == IF i = r THEN [requests[i] EXCEPT !.phase = phase, !.rows = rows]
                       ELSE IF waiting # <<>> /\ i = Head(waiting)
                            THEN [requests[i] EXCEPT !.phase = "granted"]
                            ELSE requests[i]
  <2>1. ASSUME NEW i \in DOMAIN requests
        PROVE  new(i) \in Request
    <3>1. CASE i = r
      <4>1. new(i) = [requests[i] EXCEPT !.phase = phase, !.rows = rows]
        BY <3>1, Zenon
      <4> HIDE DEF new
      <4> QED  BY <1>2, <4>1, Zenon
    <3>2. CASE i # r /\ waiting # <<>> /\ i = Head(waiting)
      <4>1. new(i) = [requests[i] EXCEPT !.phase = "granted"]
        BY <3>2, Zenon
      <4> HIDE DEF new
      <4> QED  BY <1>2, <4>1, Zenon
    <3>3. CASE i # r /\ ~(waiting # <<>> /\ i = Head(waiting))
      <4>1. new(i) = requests[i]
        BY <3>3, Zenon
      <4> HIDE DEF new
      <4> QED  BY <1>1, <4>1, Zenon
    <3> QED  BY <3>1, <3>2, <3>3
  <2>2. requests' = [i \in DOMAIN requests |-> new(i)]
    BY <1>3, Zenon
  <2> HIDE DEF new
  <2> QED  BY <1>1, <2>1, <2>2
<1>5. requests' \in Seq(Request) /\ Len(requests') = Len(requests) /\ DOMAIN requests' = DOMAIN requests
  BY <1>1, <1>4
<1>6. waiting # <<>> => Head(waiting) = waiting[1]
  BY <1>1
<1>7. requests'[r].phase = phase /\ requests'[r].rows = rows
  <2>1. requests'[r] = [requests[r] EXCEPT !.phase = phase, !.rows = rows]
    BY <1>3, Zenon
  <2> QED  BY <1>1, <2>1 DEF Request
<1>8. ASSUME NEW i \in DOMAIN requests
      PROVE  /\ requests'[i].server = requests[i].server /\ requests'[i].force = requests[i].force
             /\ i # r => requests'[i].rows = requests[i].rows
             /\ i # r /\ waiting # <<>> /\ i = waiting[1] => requests'[i].phase = "granted"
             /\ i # r /\ (waiting = <<>> \/ i # waiting[1]) => requests'[i].phase = requests[i].phase
  <2>1. CASE i = r
    <3>1. requests'[i] = [requests[i] EXCEPT !.phase = phase, !.rows = rows]
      BY <1>3, <2>1, Zenon
    <3> QED  BY <1>1, <2>1, <3>1 DEF Request
  <2>2. CASE i # r /\ waiting # <<>> /\ i = waiting[1]
    <3>1. requests'[i] = [requests[i] EXCEPT !.phase = "granted"]
      BY <1>3, <1>6, <2>2, Zenon
    <3> QED  BY <1>1, <2>2, <3>1 DEF Request
  <2>3. CASE i # r /\ (waiting = <<>> \/ i # waiting[1])
    <3>1. requests'[i] = requests[i]
      BY <1>3, <1>6, <2>3, Zenon
    <3> QED  BY <2>3, <3>1
  <2> QED  BY <2>1, <2>2, <2>3
<1>9. requests[r].server \in Servers
  BY <1>1 DEF Request
<1>10. inflight' = [inflight EXCEPT ![requests[r].server] = 0]
  BY DEF Settle
<1> QED  BY <1>5, <1>7, <1>8, <1>9, <1>10 DEF Settles

\* HoldingCounted: active counts the requests that have a slot.
LEMMA HoldingCounted ==
  ASSUME PoolInv
  PROVE  /\ active = Cardinality(Holding) /\ active \in Nat /\ IsFiniteSet(Holding)
         /\ active <= LIMIT /\ (waiting # <<>> => active = LIMIT)
<1>1. IsFiniteSet(DOMAIN requests) /\ Holding \subseteq DOMAIN requests
  BY RequestsTyped, FS_Interval DEF PoolInv, Holding
<1>2. IsFiniteSet(Holding)
  BY <1>1, FS_Subset
<1> QED  BY <1>2 DEF PoolInv, TypeOK, SlotsAreHeld, Holding

\* LoadKeepsPool: a load keeps the pool in order.
LEMMA LoadKeepsPool ==
  ASSUME NetworkHistoryAssumption, PoolInv, NEW s \in Servers, NEW seq \in 0 .. MaxLoads,
         NEW force \in BOOLEAN, Len(requests) + 1 \in RequestIds, LoadNetworkHistory(s, seq, force)
  PROVE  /\ PoolTyped' /\ IdsExist' /\ QueueWaits' /\ SlotsAreHeld'
         /\ Len(requests') <= Len(requests) + 1
<1> DEFINE id == Len(requests) + 1
<1>1. TypeOK /\ IdsExist /\ QueueWaits /\ SlotsAreHeld
  BY DEF PoolInv
<1>2. PICK load \in Load : Loaded(s, seq, force, load)
  BY <1>1, LoadTyped
<1>3. loads' \in SUBSET Load
  BY <1>1, <1>2 DEF TypeOK, Loaded
<1>4. /\ Len(requests) \in Nat /\ DOMAIN requests = 1 .. Len(requests) /\ requests \in Seq(Request)
      /\ waiting \in Seq(RequestIds) /\ Len(waiting) \in Nat /\ DOMAIN waiting = 1 .. Len(waiting)
  BY <1>1, RequestsTyped
<1>5. CASE UNCHANGED <<inflight, waiting, active, requests>> /\ load.request \in DOMAIN requests \cup {0}
  <2>1. PoolTyped'
    BY <1>1, <1>3, <1>5 DEF TypeOK, PoolTyped
  <2>2. IdsExist'
    BY <1>1, <1>2, <1>5 DEF IdsExist, Loaded
  <2>3. QueueWaits' /\ SlotsAreHeld'
    BY <1>1, <1>5 DEF QueueWaits, SlotsAreHeld
  <2> QED  BY <1>4, <1>5, <2>1, <2>2, <2>3
<1>6. CASE /\ requests' = Append(requests, Started(s, force))
           /\ inflight' = [inflight EXCEPT ![s] = id]
           /\ load.request = id
           /\ Acquire(id)
  <2>1. Started(s, force) \in Request
    BY StartedTyped
  <2>2. /\ requests' \in Seq(Request) /\ Len(requests') = id /\ DOMAIN requests' = 1 .. id
        /\ requests'[id] = Started(s, force)
        /\ \A r \in DOMAIN requests : requests'[r] = requests[r]
    BY <1>4, <1>6, <2>1
  <2>3. id \in DOMAIN requests' /\ DOMAIN requests \subseteq DOMAIN requests' /\ id \notin DOMAIN requests
        /\ DOMAIN requests' = DOMAIN requests \cup {id}
    BY <1>4, <2>2
  <2>4. inflight' \in [Servers -> RequestIds \cup {0}]
    BY <1>1, <1>6 DEF TypeOK
  <2>5. IdsExist'
    <3>1. \A t \in Servers : inflight'[t] \in DOMAIN requests' \cup {0}
      BY <1>1, <1>6, <2>3 DEF TypeOK, IdsExist
    <3>2. \A l \in loads' : l.request \in DOMAIN requests' \cup {0}
      BY <1>1, <1>2, <1>6, <2>3 DEF IdsExist, Loaded
    <3> QED  BY <3>1, <3>2 DEF IdsExist
  <2>6. /\ active = Cardinality(Holding) /\ active \in Nat /\ IsFiniteSet(Holding)
        /\ active <= LIMIT /\ (waiting # <<>> => active = LIMIT)
    BY HoldingCounted
  <2>7. LIMIT \in Nat
    BY DEF NetworkHistoryAssumption
  <2>8. CASE active < LIMIT
    <3>1. active' = active + 1 /\ waiting' = waiting /\ waiting = <<>>
      BY <1>6, <2>6, <2>7, <2>8 DEF Acquire
    <3>2. requests'[id].phase = "granted"
      BY <2>2, <2>8, StartedTyped
    <3>3. Holding' = Holding \cup {id} /\ id \notin Holding
      BY <2>2, <2>3, <3>2 DEF Holding
    <3>4. Cardinality(Holding') = active + 1
      BY <2>6, <3>3, FS_AddElement
    <3>5. SlotsAreHeld'
      BY <2>6, <2>7, <2>8, <3>1, <3>4 DEF SlotsAreHeld, Holding
    <3>6. QueueWaits'
      BY <3>1 DEF QueueWaits
    <3> QED  BY <1>3, <1>4, <2>2, <2>4, <2>5, <2>6, <3>1, <3>5, <3>6 DEF PoolTyped
  <2>9. CASE ~(active < LIMIT)
    <3>1. active' = active /\ waiting' = Append(waiting, id) /\ active = LIMIT
      BY <1>6, <2>6, <2>7, <2>9 DEF Acquire
    <3>2. requests'[id].phase = "waiting"
      BY <2>2, <2>9, StartedTyped
    <3>3. Holding' = Holding
      BY <2>2, <2>3, <3>2 DEF Holding
    <3>4. SlotsAreHeld'
      BY <2>6, <2>7, <3>1, <3>3 DEF SlotsAreHeld, Holding
    <3>5. /\ waiting' \in Seq(RequestIds) /\ DOMAIN waiting' = 1 .. Len(waiting) + 1
          /\ waiting'[Len(waiting) + 1] = id
          /\ \A i \in 1 .. Len(waiting) : waiting'[i] = waiting[i]
      BY <1>4, <3>1
    <3>6. \A i \in 1 .. Len(waiting) : waiting[i] \in DOMAIN requests /\ requests[waiting[i]].phase = "waiting"
      BY <1>1, <1>4 DEF QueueWaits
    <3>7. \A i \in DOMAIN waiting' :
             waiting'[i] \in DOMAIN requests' /\ requests'[waiting'[i]].phase = "waiting"
      BY <1>4, <2>2, <2>3, <3>2, <3>5, <3>6
    <3>8. \A i, j \in DOMAIN waiting' : waiting'[i] = waiting'[j] => i = j
      BY <1>1, <1>4, <2>3, <3>5, <3>6 DEF QueueWaits
    <3> QED  BY <1>3, <1>4, <2>2, <2>4, <2>5, <2>6, <3>1, <3>4, <3>5, <3>7, <3>8 DEF PoolTyped, QueueWaits
  <2> QED  BY <2>8, <2>9
<1> QED  BY <1>2, <1>5, <1>6 DEF Loaded

\* SettleKeepsPool: so does the end of a request that has a slot.
LEMMA SettleKeepsPool ==
  ASSUME NetworkHistoryAssumption, PoolInv, NEW r \in Holding, NEW phase \in {"done", "failed"},
         NEW rows \in Rows, Settle(r, phase, rows), UNCHANGED loads
  PROVE  /\ PoolTyped' /\ IdsExist' /\ QueueWaits' /\ SlotsAreHeld'
         /\ Len(requests') = Len(requests)
<1>1. TypeOK /\ IdsExist /\ QueueWaits /\ SlotsAreHeld
  BY DEF PoolInv
<1>2. r \in DOMAIN requests /\ requests[r].phase \in {"granted", "fetching", "answered"} /\ phase \in Phases
  BY DEF Holding, Phases
<1>3. /\ Settles(r, phase, rows) /\ requests[r].server \in Servers
      /\ inflight' = [inflight EXCEPT ![requests[r].server] = 0]
  BY <1>1, <1>2, SettleTyped
<1>4. Release
  BY DEF Settle
<1>5. /\ Len(requests) \in Nat /\ DOMAIN requests = 1 .. Len(requests)
      /\ waiting \in Seq(RequestIds) /\ Len(waiting) \in Nat /\ DOMAIN waiting = 1 .. Len(waiting)
  BY <1>1, RequestsTyped
<1>6. /\ active = Cardinality(Holding) /\ active \in Nat /\ IsFiniteSet(Holding)
      /\ active <= LIMIT /\ (waiting # <<>> => active = LIMIT)
  BY HoldingCounted
<1>7. inflight' \in [Servers -> RequestIds \cup {0}]
  BY <1>1, <1>3 DEF TypeOK
<1>8. IdsExist'
  BY <1>1, <1>3 DEF IdsExist, Settles, TypeOK
<1>9. /\ Cardinality(Holding \ {r}) = active - 1 /\ IsFiniteSet(Holding \ {r})
      /\ active - 1 \in Nat
  <2>1. IsFiniteSet(Holding \ {r}) /\ Cardinality(Holding \ {r}) = Cardinality(Holding) - 1
    BY <1>6, FS_RemoveElement
  <2>2. Cardinality(Holding \ {r}) \in Nat
    BY <2>1, FS_CardinalityType
  <2> QED  BY <1>6, <2>1, <2>2
<1>10. requests' \in Seq(Request) /\ DOMAIN requests' = DOMAIN requests /\ Len(requests') = Len(requests)
  BY <1>3 DEF Settles
<1>11. loads' \in SUBSET Load
  BY <1>1 DEF TypeOK
<1>12. LIMIT \in Nat
  BY DEF NetworkHistoryAssumption
<1>13. CASE waiting = <<>>
  <2>1. active' = active - 1 /\ waiting' = <<>>
    BY <1>4, <1>13 DEF Release
  <2>2. Holding' = Holding \ {r}
    BY <1>3, <1>13 DEF Holding, Settles
  <2>3. SlotsAreHeld'
    <3>1. Cardinality(Holding') = active' /\ active' <= LIMIT
      BY <1>6, <1>9, <1>12, <2>1, <2>2
    <3> QED  BY <2>1, <3>1 DEF SlotsAreHeld, Holding
  <2>4. QueueWaits'
    BY <2>1 DEF QueueWaits
  <2>5. PoolTyped'
    BY <1>7, <1>9, <1>10, <1>11, <2>1 DEF PoolTyped
  <2> QED  BY <1>8, <1>10, <2>3, <2>4, <2>5
<1>14. CASE waiting # <<>>
  <2> DEFINE h == waiting[1]
  <2>1. active' = active /\ waiting' = Tail(waiting) /\ active = LIMIT
    BY <1>4, <1>6, <1>14 DEF Release
  <2>2. 1 \in DOMAIN waiting
    BY <1>5, <1>14
  <2>3. h \in DOMAIN requests /\ requests[h].phase = "waiting" /\ h # r /\ h \notin Holding
    BY <1>1, <1>2, <2>2 DEF QueueWaits, Holding
  <2>4. requests'[h].phase = "granted"
    BY <1>3, <1>14, <2>3 DEF Settles
  <2>5. Holding' = (Holding \ {r}) \cup {h}
    BY <1>3, <1>14, <2>3, <2>4 DEF Holding, Settles
  <2>6. Cardinality(Holding') = active
    <3>1. h \notin Holding \ {r}
      BY <2>3
    <3> HIDE DEF h
    <3>2. Cardinality((Holding \ {r}) \cup {h}) = Cardinality(Holding \ {r}) + 1
      BY <1>9, <3>1, FS_AddElement
    <3> QED  BY <1>6, <1>9, <2>5, <3>2
  <2>7. SlotsAreHeld'
    BY <1>6, <1>12, <2>1, <2>6 DEF SlotsAreHeld, Holding
  <2>8. /\ waiting' \in Seq(RequestIds) /\ DOMAIN waiting' = 1 .. Len(waiting) - 1
        /\ \A i \in DOMAIN waiting' : waiting'[i] = waiting[i + 1] /\ i + 1 \in DOMAIN waiting /\ i + 1 # 1
    BY <1>5, <1>14, <2>1
  <2>9. ASSUME NEW i \in DOMAIN waiting'
        PROVE  waiting'[i] \in DOMAIN requests' /\ requests'[waiting'[i]].phase = "waiting"
    <3>1. waiting[i + 1] \in DOMAIN requests /\ requests[waiting[i + 1]].phase = "waiting" /\ waiting[i + 1] # h
      BY <1>1, <2>2, <2>8 DEF QueueWaits
    <3>2. waiting[i + 1] # r
      BY <1>2, <3>1
    <3>3. requests'[waiting[i + 1]].phase = "waiting"
      BY <1>3, <3>1, <3>2 DEF Settles
    <3> QED  BY <1>10, <2>8, <3>1, <3>3
  <2>10. \A i, j \in DOMAIN waiting' : waiting'[i] = waiting'[j] => i = j
    BY <1>1, <1>5, <2>8 DEF QueueWaits
  <2>11. PoolTyped'
    BY <1>6, <1>7, <1>10, <1>11, <2>1, <2>8 DEF PoolTyped
  <2> QED  BY <1>8, <1>10, <2>7, <2>9, <2>10, <2>11 DEF QueueWaits
<1> QED  BY <1>13, <1>14

\* Moves(r, request): only this request changes, into the one given.
Moves(r, request) ==
  /\ requests' \in Seq(Request) /\ DOMAIN requests' = DOMAIN requests /\ Len(requests') = Len(requests)
  /\ requests'[r] = request
  /\ \A i \in DOMAIN requests : i # r => requests'[i] = requests[i]
  /\ UNCHANGED <<inflight, waiting, active, loads>>

\* MoveKeepsPool: so does a request that keeps its slot.
LEMMA MoveKeepsPool ==
  ASSUME PoolInv, NEW r \in Holding, NEW request \in Request,
         request.phase \in {"granted", "fetching", "answered"}, Moves(r, request)
  PROVE  /\ PoolTyped' /\ IdsExist' /\ QueueWaits' /\ SlotsAreHeld'
         /\ Len(requests') = Len(requests)
<1>1. TypeOK /\ IdsExist /\ QueueWaits /\ SlotsAreHeld
  BY DEF PoolInv
<1>2. r \in DOMAIN requests /\ requests[r].phase \in {"granted", "fetching", "answered"}
  BY DEF Holding
<1>3. requests \in Seq(Request) /\ DOMAIN requests = 1 .. Len(requests) /\ Len(requests) \in Nat
  BY <1>1, RequestsTyped
<1>4. /\ requests' \in Seq(Request) /\ Len(requests') = Len(requests) /\ DOMAIN requests' = DOMAIN requests
      /\ requests'[r] = request
      /\ \A i \in DOMAIN requests : i # r => requests'[i] = requests[i]
  BY DEF Moves
<1>5. UNCHANGED <<inflight, waiting, active, loads>>
  BY DEF Moves
<1>6. Holding' = Holding
  BY <1>2, <1>4 DEF Holding
<1>7. SlotsAreHeld'
  BY <1>1, <1>5, <1>6 DEF SlotsAreHeld, Holding
<1>8. QueueWaits'
  <2>1. \A i \in DOMAIN waiting : waiting[i] # r
    BY <1>1, <1>2 DEF QueueWaits
  <2> QED  BY <1>1, <1>4, <1>5, <2>1 DEF QueueWaits
<1>9. IdsExist'
  BY <1>1, <1>4, <1>5 DEF IdsExist
<1>10. PoolTyped'
  BY <1>1, <1>4, <1>5 DEF PoolTyped, TypeOK
<1> QED  BY <1>4, <1>7, <1>8, <1>9, <1>10

----------------------------------------------------------------------------
(* The inductive invariant.                                                *)

\* Rows come from the Primary: none are newer than its history, and a failure has none.
RowsKnown ==
  /\ chart.rows <= history
  /\ \A s \in Servers : cache[s] <= history
  /\ \A i \in DOMAIN requests :
        requests[i].rows <= history /\ (requests[i].phase = "failed" => requests[i].rows = 0)
  /\ \A load \in loads : load.request = 0 => load.rows <= history

\* A number is given to one load, and the latest load is for the server on screen.
LoadsNumbered ==
  /\ \A load \in loads :
        /\ load.seq <= chart.seq
        /\ load.seq = chart.seq /\ load.seq > 0 => load.server = chart.server
  /\ \A l, m \in loads : l.seq = m.seq /\ l.seq > 0 => l = m

\* A refresh has a request of its own; the chart does not change before the refresh that
\* is the latest load resumes, so what the Primary answers is no older than the chart.
ForcedFresh ==
  \A load \in loads : load.force =>
    /\ load.request # 0 /\ requests[load.request].force
    /\ load.seq = chart.seq /\ requests[load.request].phase \in {"answered", "done"}
         => requests[load.request].rows >= chart.rows

IInv == PoolInv /\ FewRequests /\ RowsKnown /\ LoadsNumbered /\ ForcedFresh /\ ShownIsCurrent

\* InitInv: it holds at first.
LEMMA InitInv ==
  ASSUME NetworkHistoryAssumption, Init
  PROVE  IInv
<1>1. requests = <<>> /\ waiting = <<>> /\ loads = {} /\ active = 0 /\ DOMAIN requests = {}
  BY DEF Init
<1>2. /\ requests \in Seq(Request) /\ waiting \in Seq(RequestIds) /\ Len(requests) = 0
      /\ DOMAIN waiting = {}
  BY <1>1
<1>3. PICK s \in Servers : chart = [server |-> s, of |-> s, rows |-> 0, loading |-> FALSE,
                                    failed |-> FALSE, seq |-> 0]
  BY DEF Init
<1>4. chart \in Chart /\ chart.rows = 0 /\ chart.seq = 0
  BY <1>3 DEF Chart, Rows, NetworkHistoryAssumption
<1>5. history \in 1 .. MaxHistory /\ history = 1
  BY DEF Init, NetworkHistoryAssumption
<1>6. cache \in [Servers -> Rows] /\ \A t \in Servers : cache[t] = 0
  BY DEF Init, Rows, NetworkHistoryAssumption
<1>7. inflight \in [Servers -> RequestIds \cup {0}] /\ \A t \in Servers : inflight[t] = 0
  BY DEF Init
<1>8. tile \in [Tiles -> {"hidden", "loading", "shown", "failed"}]
  BY DEF Init
<1>9. TypeOK
  BY <1>1, <1>2, <1>4, <1>5, <1>6, <1>7, <1>8 DEF TypeOK
<1>10. IdsExist /\ QueueWaits
  BY <1>1, <1>2, <1>7 DEF IdsExist, QueueWaits
<1>11. SlotsAreHeld
  <2>1. {r \in DOMAIN requests : requests[r].phase \in {"granted", "fetching", "answered"}} = {}
    BY <1>1
  <2> QED  BY <1>1, <2>1, FS_EmptySet DEF SlotsAreHeld, NetworkHistoryAssumption
<1>12. FewRequests
  BY <1>2, <1>4, BegunCounted DEF FewRequests
<1>13. RowsKnown
  BY <1>1, <1>4, <1>5, <1>6 DEF RowsKnown
<1>14. LoadsNumbered /\ ForcedFresh /\ ShownIsCurrent
  BY <1>1, <1>4 DEF LoadsNumbered, ForcedFresh, ShownIsCurrent
<1> QED  BY <1>9, <1>10, <1>11, <1>12, <1>13, <1>14 DEF IInv, PoolInv

\* LoadKeepsRows: a load, with or without a new number, leaves every history in place.
LEMMA LoadKeepsRows ==
  ASSUME NetworkHistoryAssumption, IInv, NEW s \in Servers, NEW seq \in 0 .. MaxLoads,
         NEW force \in BOOLEAN, Len(requests) + 1 \in RequestIds, LoadNetworkHistory(s, seq, force),
         UNCHANGED <<history, cache>>, chart'.rows = chart.rows,
         \/ seq = 0 /\ ~force /\ chart' = chart
         \/ seq = chart.seq + 1 /\ chart'.seq = seq /\ chart'.server = s
  PROVE  RowsKnown' /\ LoadsNumbered' /\ ForcedFresh'
<1>1. TypeOK /\ IdsExist /\ RowsKnown /\ LoadsNumbered /\ ForcedFresh
  BY DEF IInv, PoolInv
<1>2. PICK load \in Load : Loaded(s, seq, force, load)
  BY <1>1, LoadTyped
<1>3. /\ Len(requests) \in Nat /\ DOMAIN requests = 1 .. Len(requests) /\ requests \in Seq(Request)
      /\ chart.seq \in Nat /\ \A r \in DOMAIN requests : requests[r] \in Request
  BY <1>1, RequestsTyped
<1>4. history \in Nat /\ loads \in SUBSET Load
  BY <1>1 DEF TypeOK
<1>5. Started(s, force) \in Request /\ Started(s, force).rows = 0 /\ Started(s, force).force = force
      /\ Started(s, force).phase \in {"granted", "waiting"}
  BY StartedTyped
<1>6. /\ DOMAIN requests \subseteq DOMAIN requests'
      /\ \A i \in DOMAIN requests : requests'[i] = requests[i]
      /\ \A i \in DOMAIN requests' \ DOMAIN requests : requests'[i] = Started(s, force)
  <2>1. CASE requests' = requests
    BY <2>1
  <2>2. CASE requests' = Append(requests, Started(s, force))
    BY <1>3, <1>5, <2>2
  <2> QED  BY <1>2, <2>1, <2>2 DEF Loaded
<1>7. /\ loads' = loads \cup {load} /\ load.server = s /\ load.seq = seq /\ load.force = force
      /\ load.request = 0 => load.rows = cache[s]
      /\ force => /\ load.request \in DOMAIN requests' /\ load.request # 0
                  /\ requests'[load.request] = Started(s, force)
  <2>1. CASE ~force /\ (load.request = 0 => load.rows = cache[s])
    BY <1>2, <2>1 DEF Loaded
  <2>2. CASE requests' = Append(requests, Started(s, force)) /\ load.request = Len(requests) + 1
    <3>1. /\ load.request \in DOMAIN requests' /\ load.request # 0
          /\ requests'[load.request] = Started(s, force)
      BY <1>3, <1>5, <2>2
    <3>2. loads' = loads \cup {load} /\ load.server = s /\ load.seq = seq /\ load.force = force
      BY <1>2 DEF Loaded
    <3> QED  BY <3>1, <3>2
  <2> QED  BY <1>2, <2>1, <2>2 DEF Loaded
<1>8. RowsKnown'
  <2>1. \A i \in DOMAIN requests' :
           requests'[i].rows <= history' /\ (requests'[i].phase = "failed" => requests'[i].rows = 0)
    BY <1>1, <1>4, <1>5, <1>6 DEF RowsKnown
  <2>2. \A l \in loads' : l.request = 0 => l.rows <= history'
    BY <1>1, <1>7 DEF RowsKnown
  <2> QED  BY <1>1, <2>1, <2>2 DEF RowsKnown
<1>9. LoadsNumbered'
  <2>0. \A l \in loads : l.seq \in Nat
    BY <1>4 DEF Load
  <2>1. CASE seq = 0 /\ chart' = chart
    BY <1>1, <1>3, <1>7, <2>0, <2>1 DEF LoadsNumbered
  <2>2. CASE seq = chart.seq + 1 /\ chart'.seq = seq /\ chart'.server = s
    BY <1>1, <1>3, <1>7, <2>0, <2>2 DEF LoadsNumbered
  <2> QED  BY <2>1, <2>2
<1>10. ForcedFresh'
  <2> SUFFICES ASSUME NEW l \in loads', l.force
               PROVE  /\ l.request # 0 /\ requests'[l.request].force
                      /\ l.seq = chart'.seq /\ requests'[l.request].phase \in {"answered", "done"}
                           => requests'[l.request].rows >= chart'.rows
    BY DEF ForcedFresh
  <2>1. CASE l = load
    BY <1>5, <1>7, <2>1
  <2>2. CASE l \in loads
    <3>1. l.request # 0 /\ l.request \in DOMAIN requests /\ requests'[l.request] = requests[l.request]
      BY <1>1, <1>6, <2>2 DEF IdsExist, ForcedFresh
    <3>2. l.seq \in Nat /\ l.seq <= chart.seq
      BY <1>1, <1>4, <2>2 DEF Load, LoadsNumbered
    <3> QED  BY <1>1, <1>3, <2>2, <3>1, <3>2 DEF ForcedFresh
  <2> QED  BY <1>7, <2>1, <2>2
<1> QED  BY <1>8, <1>9, <1>10

----------------------------------------------------------------------------
(* One lemma for each kind of step.                                        *)

\* ChartTyped: what a load makes of the chart.
LEMMA ChartTyped ==
  ASSUME NetworkHistoryAssumption, TypeOK, NEW s \in Servers, chart.seq < MaxLoads,
         chart' = [chart EXCEPT !.server = s, !.seq = @ + 1, !.loading = TRUE, !.failed = FALSE]
  PROVE  /\ chart' \in Chart /\ chart'.server = s /\ chart'.seq = chart.seq + 1
         /\ chart'.rows = chart.rows /\ chart'.loading = TRUE
<1>1. chart \in Chart /\ chart.seq \in 0 .. MaxLoads /\ MaxLoads \in Nat
  BY RequestsTyped DEF NetworkHistoryAssumption
<1>2. chart.seq + 1 \in 0 .. MaxLoads
  BY <1>1
<1>3. chart' = [chart EXCEPT !.server = s, !.seq = chart.seq + 1, !.loading = TRUE, !.failed = FALSE]
  BY Zenon
<1> QED  BY <1>1, <1>2, <1>3 DEF Chart

\* ShowTileStep: a tile begins to load.
LEMMA ShowTileStep ==
  ASSUME NetworkHistoryAssumption, IInv, NEW s \in Tiles, ShowTile(s)
  PROVE  IInv'
<1>1. TypeOK /\ FewRequests /\ PoolInv /\ ShownIsCurrent
  BY DEF IInv, PoolInv
<1>2. s \in Servers /\ 0 \in 0 .. MaxLoads
  BY DEF NetworkHistoryAssumption
<1>3. /\ tile[s] = "hidden" /\ tile' = [tile EXCEPT ![s] = "loading"]
      /\ LoadNetworkHistory(s, 0, FALSE) /\ UNCHANGED <<history, cache, chart>>
  BY DEF ShowTile
<1>4. Len(requests) + 1 \in RequestIds
  BY <1>1, <1>3, NextIdFits
<1>5. /\ PoolTyped' /\ IdsExist' /\ QueueWaits' /\ SlotsAreHeld'
      /\ Len(requests') <= Len(requests) + 1
  BY <1>1, <1>2, <1>3, <1>4, LoadKeepsPool
<1>6. RowsKnown' /\ LoadsNumbered' /\ ForcedFresh'
  BY <1>2, <1>3, <1>4, LoadKeepsRows
<1>7. tile' \in [Tiles -> {"hidden", "loading", "shown", "failed"}]
  BY <1>1, <1>3 DEF TypeOK
<1>8. TypeOK'
  BY <1>1, <1>3, <1>5, <1>7 DEF TypeOK, PoolTyped
<1>9. FewRequests'
  <2>1. Begun' = Begun \cup {s} /\ s \notin Begun
    BY <1>1, <1>3 DEF Begun, TypeOK
  <2>2. IsFiniteSet(Begun) /\ Cardinality(Begun) \in Nat
    BY BegunCounted
  <2>3. Cardinality(Begun') = Cardinality(Begun) + 1
    BY <2>1, <2>2, FS_AddElement
  <2>4. Len(requests) \in Nat /\ Len(requests') \in Nat /\ chart.seq \in Nat
    BY <1>1, <1>5, RequestsTyped DEF PoolTyped
  <2> QED  BY <1>1, <1>3, <1>5, <2>2, <2>3, <2>4 DEF FewRequests
<1>10. ShownIsCurrent'
  BY <1>1, <1>3 DEF ShownIsCurrent
<1> QED  BY <1>5, <1>6, <1>8, <1>9, <1>10 DEF IInv, PoolInv

\* LoadChartStep: the chart begins a load.
LEMMA LoadChartStep ==
  ASSUME NetworkHistoryAssumption, IInv, NEW s \in Servers, NEW force \in BOOLEAN, LoadChart(s, force)
  PROVE  IInv'
<1>1. TypeOK /\ FewRequests /\ PoolInv
  BY DEF IInv, PoolInv
<1>2. /\ chart.seq < MaxLoads
      /\ chart' = [chart EXCEPT !.server = s, !.seq = @ + 1, !.loading = TRUE, !.failed = FALSE]
      /\ LoadNetworkHistory(s, chart.seq + 1, force) /\ UNCHANGED <<history, cache, tile>>
  BY DEF LoadChart
<1>3. /\ chart' \in Chart /\ chart'.server = s /\ chart'.seq = chart.seq + 1
      /\ chart'.rows = chart.rows /\ chart'.loading = TRUE
  BY <1>1, <1>2, ChartTyped
<1>4. chart.seq + 1 \in 0 .. MaxLoads /\ chart.seq \in Nat /\ Len(requests) \in Nat
  BY <1>1, <1>2, RequestsTyped DEF NetworkHistoryAssumption
<1>5. Len(requests) + 1 \in RequestIds
  BY <1>1, <1>2, NextIdFits
<1>6. /\ PoolTyped' /\ IdsExist' /\ QueueWaits' /\ SlotsAreHeld'
      /\ Len(requests') <= Len(requests) + 1
  BY <1>1, <1>2, <1>4, <1>5, LoadKeepsPool
<1>7. RowsKnown' /\ LoadsNumbered' /\ ForcedFresh'
  BY <1>2, <1>3, <1>4, <1>5, LoadKeepsRows
<1>8. TypeOK'
  BY <1>1, <1>2, <1>3, <1>6 DEF TypeOK, PoolTyped
<1>9. FewRequests'
  <2>1. Begun' = Begun
    BY <1>2 DEF Begun
  <2>2. Cardinality(Begun) \in Nat
    BY BegunCounted
  <2>3. Len(requests') \in Nat
    BY <1>6 DEF PoolTyped
  <2> QED  BY <1>1, <1>3, <1>4, <1>6, <2>1, <2>2, <2>3 DEF FewRequests
<1>10. ShownIsCurrent'
  BY <1>3 DEF ShownIsCurrent
<1> QED  BY <1>6, <1>7, <1>8, <1>9, <1>10 DEF IInv, PoolInv

\* SettleStep: a request that has a slot ends.
LEMMA SettleStep ==
  ASSUME NetworkHistoryAssumption, IInv, NEW r \in Holding, NEW phase \in {"done", "failed"},
         NEW rows \in Rows, Settle(r, phase, rows), UNCHANGED <<history, loads, tile, chart>>,
         cache' \in [Servers -> Rows], \A s \in Servers : cache'[s] <= history,
         rows <= history, phase = "failed" => rows = 0,
         phase = "done" /\ requests[r].force
           => requests[r].phase = "answered" /\ rows = requests[r].rows
  PROVE  IInv'
<1>1. TypeOK /\ FewRequests /\ PoolInv /\ RowsKnown /\ LoadsNumbered /\ ForcedFresh /\ ShownIsCurrent /\ IdsExist
  BY DEF IInv, PoolInv
<1>2. /\ PoolTyped' /\ IdsExist' /\ QueueWaits' /\ SlotsAreHeld'
      /\ Len(requests') = Len(requests)
  BY <1>1, SettleKeepsPool
<1>3. r \in DOMAIN requests /\ phase \in Phases
  BY DEF Holding, Phases
<1>4. Settles(r, phase, rows)
  BY <1>1, <1>3, SettleTyped
<1>5. TypeOK'
  BY <1>1, <1>2 DEF TypeOK, PoolTyped
<1>6. FewRequests'
  BY <1>1, <1>2 DEF FewRequests, Begun
<1>7. /\ DOMAIN requests' = DOMAIN requests
      /\ requests'[r].phase = phase /\ requests'[r].rows = rows
      /\ \A i \in DOMAIN requests : requests'[i].force = requests[i].force
      /\ \A i \in DOMAIN requests : i # r =>
            /\ requests'[i].rows = requests[i].rows
            /\ requests'[i].phase = "granted" \/ requests'[i].phase = requests[i].phase
  BY <1>4 DEF Settles
<1>8. RowsKnown'
  <2>1. \A i \in DOMAIN requests' :
           requests'[i].rows <= history' /\ (requests'[i].phase = "failed" => requests'[i].rows = 0)
    <3> TAKE i \in DOMAIN requests'
    <3>1. CASE i = r
      BY <1>7, <3>1
    <3>2. CASE i # r
      BY <1>1, <1>7, <3>2 DEF RowsKnown
    <3> QED  BY <3>1, <3>2
  <2> QED  BY <1>1, <2>1 DEF RowsKnown
<1>9. LoadsNumbered'
  BY <1>1 DEF LoadsNumbered
<1>10. ForcedFresh'
  <2> SUFFICES ASSUME NEW load \in loads, load.force
               PROVE  /\ load.request # 0 /\ requests'[load.request].force
                      /\ load.seq = chart.seq /\ requests'[load.request].phase \in {"answered", "done"}
                           => requests'[load.request].rows >= chart.rows
    BY DEF ForcedFresh
  <2>1. load.request # 0 /\ load.request \in DOMAIN requests /\ requests[load.request].force
    BY <1>1 DEF ForcedFresh, IdsExist
  <2>2. load.seq = chart.seq /\ requests[load.request].phase \in {"answered", "done"}
          => requests[load.request].rows >= chart.rows
    BY <1>1 DEF ForcedFresh
  <2>3. CASE load.request = r
    BY <1>7, <2>1, <2>2, <2>3
  <2>4. CASE load.request # r
    BY <1>7, <2>1, <2>2, <2>4
  <2> QED  BY <2>3, <2>4
<1>11. ShownIsCurrent'
  BY <1>1 DEF ShownIsCurrent
<1> QED  BY <1>2, <1>5, <1>6, <1>8, <1>9, <1>10, <1>11 DEF IInv, PoolInv

\* MoveStep: a request that has a slot goes on.
LEMMA MoveStep ==
  ASSUME NetworkHistoryAssumption, IInv, NEW r \in Holding, NEW request \in Request,
         request.phase \in {"granted", "fetching", "answered"}, Moves(r, request),
         UNCHANGED <<history, cache, tile, chart>>,
         request.force = requests[r].force, request.rows <= history,
         request.phase = "answered" => request.rows = history
  PROVE  IInv'
<1>1. TypeOK /\ FewRequests /\ PoolInv /\ RowsKnown /\ LoadsNumbered /\ ForcedFresh /\ ShownIsCurrent /\ IdsExist
  BY DEF IInv, PoolInv
<1>2. /\ PoolTyped' /\ IdsExist' /\ QueueWaits' /\ SlotsAreHeld'
      /\ Len(requests') = Len(requests)
  BY <1>1, MoveKeepsPool
<1>3. TypeOK'
  BY <1>1, <1>2 DEF TypeOK, PoolTyped
<1>4. FewRequests'
  BY <1>1, <1>2 DEF FewRequests, Begun
<1>5. /\ DOMAIN requests' = DOMAIN requests /\ requests'[r] = request /\ loads' = loads
      /\ \A i \in DOMAIN requests : i # r => requests'[i] = requests[i]
  BY DEF Moves
<1>6. RowsKnown'
  <2>1. \A i \in DOMAIN requests' :
           requests'[i].rows <= history' /\ (requests'[i].phase = "failed" => requests'[i].rows = 0)
    <3> TAKE i \in DOMAIN requests'
    <3>1. CASE i = r
      BY <1>5, <3>1
    <3>2. CASE i # r
      BY <1>1, <1>5, <3>2 DEF RowsKnown
    <3> QED  BY <3>1, <3>2
  <2> QED  BY <1>1, <1>5, <2>1 DEF RowsKnown
<1>7. LoadsNumbered'
  BY <1>1, <1>5 DEF LoadsNumbered
<1>8. ForcedFresh'
  <2> SUFFICES ASSUME NEW load \in loads, load.force
               PROVE  /\ load.request # 0 /\ requests'[load.request].force
                      /\ load.seq = chart.seq /\ requests'[load.request].phase \in {"answered", "done"}
                           => requests'[load.request].rows >= chart.rows
    BY <1>5 DEF ForcedFresh
  <2>1. load.request # 0 /\ load.request \in DOMAIN requests /\ requests[load.request].force
    BY <1>1 DEF ForcedFresh, IdsExist
  <2>2. load.seq = chart.seq /\ requests[load.request].phase \in {"answered", "done"}
          => requests[load.request].rows >= chart.rows
    BY <1>1 DEF ForcedFresh
  <2>3. CASE load.request = r
    <3>1. history >= chart.rows
      BY <1>1 DEF RowsKnown, TypeOK, Chart, Rows
    <3> QED  BY <1>5, <2>1, <2>3, <3>1
  <2>4. CASE load.request # r
    BY <1>5, <2>1, <2>2, <2>4
  <2> QED  BY <2>3, <2>4
<1>9. ShownIsCurrent'
  BY <1>1 DEF ShownIsCurrent
<1> QED  BY <1>2, <1>3, <1>4, <1>6, <1>7, <1>8, <1>9 DEF IInv, PoolInv

\* SetsRequest(r, phase, rows): the phase and the rows of one request are set.
SetsRequest(r, phase, rows) ==
  /\ \/ rows = requests[r].rows /\ requests' = [requests EXCEPT ![r].phase = phase]
     \/ requests' = [requests EXCEPT ![r].phase = phase, ![r].rows = rows]
  /\ UNCHANGED <<inflight, waiting, active, loads>>

\* Moved(r, phase, rows): the request has become one with these.
Moved(r, phase, rows) ==
  \E request \in Request :
     /\ Moves(r, request) /\ request.phase = phase /\ request.rows = rows
     /\ request.force = requests[r].force

\* MovesTo: which makes this request a new one and leaves the others alone.
LEMMA MovesTo ==
  ASSUME TypeOK, NEW r \in DOMAIN requests, NEW phase \in Phases, NEW rows \in Rows,
         SetsRequest(r, phase, rows)
  PROVE  Moved(r, phase, rows)
<1> DEFINE request == [requests[r] EXCEPT !.phase = phase, !.rows = rows]
<1>1. requests \in Seq(Request) /\ DOMAIN requests = 1 .. Len(requests) /\ requests[r] \in Request
  BY RequestsTyped
<1>2. /\ request \in Request /\ request.phase = phase /\ request.rows = rows
      /\ request.force = requests[r].force
  BY <1>1 DEF Request
<1>3. requests' = [requests EXCEPT ![r] = request]
  <2>1. CASE rows = requests[r].rows /\ requests' = [requests EXCEPT ![r].phase = phase]
    <3>1. request = [requests[r] EXCEPT !.phase = phase]
      BY <1>1, <2>1 DEF Request
    <3> QED  BY <1>1, <2>1, <3>1
  <2>2. CASE requests' = [requests EXCEPT ![r].phase = phase, ![r].rows = rows]
    BY <1>1, <2>2
  <2> QED  BY <2>1, <2>2 DEF SetsRequest
<1> HIDE DEF request
<1>4. Moves(r, request)
  BY <1>1, <1>2, <1>3 DEF Moves, SetsRequest
<1> QED  BY <1>2, <1>4 DEF Moved

\* SomeRequest: what is known of a request.
LEMMA SomeRequest ==
  ASSUME NetworkHistoryAssumption, IInv, NEW r \in DOMAIN requests
  PROVE  /\ requests[r] \in Request /\ requests[r].rows \in Rows /\ requests[r].rows <= history
         /\ requests[r].server \in Servers /\ history \in Rows /\ history \in Nat /\ 0 \in Rows
         /\ cache[requests[r].server] \in Rows /\ cache \in [Servers -> Rows]
         /\ \A s \in Servers : cache[s] <= history
<1>1. TypeOK /\ RowsKnown
  BY DEF IInv, PoolInv
<1>2. requests[r] \in Request
  BY <1>1, RequestsTyped
<1>3. requests[r].rows \in Rows /\ requests[r].server \in Servers
  BY <1>2 DEF Request
<1>4. requests[r].rows <= history /\ \A s \in Servers : cache[s] <= history
  BY <1>1 DEF RowsKnown
<1>5. cache \in [Servers -> Rows] /\ history \in Rows /\ history \in Nat /\ 0 \in Rows
  BY <1>1 DEF TypeOK, Rows, NetworkHistoryAssumption
<1> QED  BY <1>2, <1>3, <1>4, <1>5

\* RequestStep: the steps of a request.
LEMMA RequestStep ==
  ASSUME NetworkHistoryAssumption, IInv, NEW r \in DOMAIN requests,
         UseSlot(r) \/ PrimaryAnswers(r) \/ ResponseArrives(r) \/ FetchFails(r)
  PROVE  IInv'
<1>1. TypeOK
  BY DEF IInv, PoolInv
<1>2. /\ requests[r] \in Request /\ requests[r].rows \in Rows /\ requests[r].rows <= history
      /\ requests[r].server \in Servers /\ history \in Rows /\ history \in Nat /\ 0 \in Rows
      /\ cache[requests[r].server] \in Rows /\ cache \in [Servers -> Rows]
      /\ \A s \in Servers : cache[s] <= history
  BY SomeRequest
<1>3. CASE UseSlot(r)
  <2>1. r \in Holding /\ UNCHANGED <<history, cache, loads, tile, chart>>
    BY <1>3 DEF UseSlot, Holding
  <2>2. CASE ~requests[r].force /\ Settle(r, "done", cache[requests[r].server])
    BY <1>2, <2>1, <2>2, SettleStep
  <2>3. CASE /\ requests' = [requests EXCEPT ![r].phase = "fetching"]
             /\ UNCHANGED <<inflight, waiting, active>>
    <3>0. "fetching" \in Phases /\ SetsRequest(r, "fetching", requests[r].rows)
      <4>1. UNCHANGED <<inflight, waiting, active, loads>>
        BY <2>1, <2>3
      <4> QED  BY <2>3, <4>1, Zenon DEF Phases, SetsRequest
    <3>1. PICK request \in Request :
             /\ Moves(r, request) /\ request.phase = "fetching" /\ request.rows = requests[r].rows
             /\ request.force = requests[r].force
      <4>1. Moved(r, "fetching", requests[r].rows)
        BY <1>1, <1>2, <3>0, MovesTo
      <4> QED  BY <4>1 DEF Moved
    <3> QED  BY <1>2, <2>1, <3>1, MoveStep
  <2> QED  BY <1>3, <2>2, <2>3 DEF UseSlot
<1>4. CASE PrimaryAnswers(r)
  <2>1. /\ r \in Holding /\ UNCHANGED <<history, cache, loads, tile, chart>>
        /\ UNCHANGED <<inflight, waiting, active>>
        /\ requests' = [requests EXCEPT ![r].phase = "answered", ![r].rows = history]
    BY <1>4 DEF PrimaryAnswers, Holding
  <2>0. "answered" \in Phases /\ SetsRequest(r, "answered", history)
    <3>1. UNCHANGED <<inflight, waiting, active, loads>>
      BY <2>1
    <3> QED  BY <2>1, <3>1, Zenon DEF Phases, SetsRequest
  <2>2. PICK request \in Request :
           /\ Moves(r, request) /\ request.phase = "answered" /\ request.rows = history
           /\ request.force = requests[r].force
    <3>1. Moved(r, "answered", history)
      BY <1>1, <1>2, <2>0, MovesTo
    <3> QED  BY <3>1 DEF Moved
  <2> QED  BY <1>2, <2>1, <2>2, MoveStep
<1>5. CASE ResponseArrives(r)
  <2>1. /\ r \in Holding /\ UNCHANGED <<history, loads, tile, chart>> /\ requests[r].phase = "answered"
        /\ Settle(r, "done", requests[r].rows)
        /\ cache' = [cache EXCEPT ![requests[r].server] = requests[r].rows]
    BY <1>5 DEF ResponseArrives, Holding
  <2>2. cache' \in [Servers -> Rows] /\ \A s \in Servers : cache'[s] <= history
    BY <1>2, <2>1
  <2> QED  BY <1>2, <2>1, <2>2, SettleStep
<1>6. CASE FetchFails(r)
  <2>1. /\ r \in Holding /\ UNCHANGED <<history, cache, loads, tile, chart>>
        /\ Settle(r, "failed", 0)
    BY <1>6 DEF FetchFails, Holding
  <2> QED  BY <1>2, <2>1, SettleStep
<1> QED  BY <1>3, <1>4, <1>5, <1>6

\* ResumeKeeps: nothing but the loads, a tile and the chart changes.
LEMMA ResumeKeeps ==
  ASSUME NetworkHistoryAssumption, IInv, NEW load \in loads, loads' = loads \ {load},
         UNCHANGED <<history, cache, inflight, waiting, active, requests>>,
         tile' \in [Tiles -> {"hidden", "loading", "shown", "failed"}], Begun \subseteq Begun',
         chart' \in Chart, chart'.seq = chart.seq, chart'.server = chart.server
  PROVE  PoolInv' /\ FewRequests' /\ LoadsNumbered'
<1>1. TypeOK /\ FewRequests /\ IdsExist /\ QueueWaits /\ SlotsAreHeld /\ LoadsNumbered
  BY DEF IInv, PoolInv
<1>2. TypeOK'
  BY <1>1 DEF TypeOK
<1>3. IdsExist' /\ QueueWaits' /\ SlotsAreHeld'
  BY <1>1 DEF IdsExist, QueueWaits, SlotsAreHeld
<1>4. FewRequests'
  <2>1. IsFiniteSet(Tiles) /\ Begun' \subseteq Tiles
    BY FS_Subset DEF NetworkHistoryAssumption, Begun
  <2>2. IsFiniteSet(Begun') /\ Cardinality(Begun') \in Nat
    BY <2>1, FS_Subset, FS_CardinalityType
  <2>3. Cardinality(Begun) <= Cardinality(Begun') /\ Cardinality(Begun) \in Nat
    BY <2>2, FS_Subset, BegunCounted
  <2>4. Len(requests) \in Nat /\ chart.seq \in Nat
    BY <1>1, RequestsTyped
  <2> QED  BY <1>1, <2>2, <2>3, <2>4 DEF FewRequests
<1>5. LoadsNumbered'
  BY <1>1 DEF LoadsNumbered
<1> QED  BY <1>2, <1>3, <1>4, <1>5 DEF PoolInv

\* ResumeTileStep: a tile shows what it has waited for.
LEMMA ResumeTileStep ==
  ASSUME NetworkHistoryAssumption, IInv, NEW load \in loads, ResumeTile(load)
  PROVE  IInv'
<1>1. TypeOK /\ RowsKnown /\ LoadsNumbered /\ ForcedFresh /\ ShownIsCurrent
  BY DEF IInv, PoolInv
<1>2. /\ UNCHANGED <<history, cache, inflight, waiting, active, requests, chart>>
      /\ loads' = loads \ {load}
      /\ tile' = [tile EXCEPT ![load.server] = IF Failed(load) THEN "failed" ELSE "shown"]
  BY DEF ResumeTile
<1>3. tile' \in [Tiles -> {"hidden", "loading", "shown", "failed"}]
  BY <1>1, <1>2 DEF TypeOK
<1>4. Begun \subseteq Begun'
  BY <1>1, <1>2 DEF Begun, TypeOK
<1>5. chart' \in Chart /\ chart'.seq = chart.seq /\ chart'.server = chart.server
  BY <1>1, <1>2 DEF TypeOK
<1>6. PoolInv' /\ FewRequests' /\ LoadsNumbered'
  BY <1>2, <1>3, <1>4, <1>5, ResumeKeeps
<1>7. RowsKnown'
  BY <1>1, <1>2 DEF RowsKnown
<1>8. ForcedFresh' /\ ShownIsCurrent'
  BY <1>1, <1>2 DEF ForcedFresh, ShownIsCurrent
<1> QED  BY <1>6, <1>7, <1>8 DEF IInv

\* RowsOfLoad: a load that resumes brings rows the Primary has, or none.
LEMMA RowsOfLoad ==
  ASSUME NetworkHistoryAssumption, IInv, NEW load \in loads
  PROVE  /\ RowsOf(load) \in Rows /\ RowsOf(load) <= history /\ load.server \in Servers
         /\ Failed(load) \in BOOLEAN
         /\ Settled(load) /\ load.force /\ load.seq = chart.seq /\ RowsOf(load) > 0
              => RowsOf(load) >= chart.rows
<1>1. TypeOK /\ IdsExist /\ RowsKnown /\ ForcedFresh
  BY DEF IInv, PoolInv
<1>2. load \in Load /\ load.server \in Servers /\ load.rows \in Rows
  BY <1>1 DEF TypeOK, Load
<1>3. Failed(load) \in BOOLEAN
  BY DEF Failed
<1>4. CASE load.request = 0
  <2>1. ~load.force
    BY <1>1, <1>4 DEF ForcedFresh
  <2> QED  BY <1>1, <1>2, <1>3, <1>4, <2>1 DEF RowsOf, RowsKnown
<1>5. CASE load.request # 0
  <2>1. load.request \in DOMAIN requests
    BY <1>1, <1>5 DEF IdsExist
  <2>2. requests[load.request].rows \in Rows /\ requests[load.request].rows <= history
    BY <2>1, SomeRequest
  <2>3. RowsOf(load) = requests[load.request].rows
    BY <1>5 DEF RowsOf
  <2>4. requests[load.request].phase = "failed" => RowsOf(load) = 0
    BY <1>1, <2>1, <2>3 DEF RowsKnown
  <2>5. ASSUME Settled(load), load.force, load.seq = chart.seq, RowsOf(load) > 0
        PROVE  RowsOf(load) >= chart.rows
    <3>1. requests[load.request].phase = "done"
      BY <1>5, <2>4, <2>5 DEF Settled
    <3> QED  BY <1>1, <2>3, <2>5, <3>1 DEF ForcedFresh
  <2> QED  BY <1>2, <1>3, <2>2, <2>3, <2>5
<1> QED  BY <1>4, <1>5

\* ResumeChartStep: the chart shows what its latest load has waited for.
LEMMA ResumeChartStep ==
  ASSUME NetworkHistoryAssumption, IInv, NEW load \in loads, ResumeChart(load)
  PROVE  IInv'
<1>1. TypeOK /\ RowsKnown /\ LoadsNumbered /\ ForcedFresh /\ ShownIsCurrent
  BY DEF IInv, PoolInv
<1>2. /\ UNCHANGED <<history, cache, inflight, waiting, active, requests, tile>>
      /\ loads' = loads \ {load} /\ load.seq > 0
      /\ IF load.seq = chart.seq
         THEN chart' = [chart EXCEPT !.of = load.server, !.rows = RowsOf(load),
                                     !.failed = Failed(load), !.loading = FALSE]
         ELSE UNCHANGED chart
  BY DEF ResumeChart
<1>3. tile' \in [Tiles -> {"hidden", "loading", "shown", "failed"}] /\ Begun \subseteq Begun'
  BY <1>1, <1>2 DEF TypeOK, Begun
<1>4. RowsOf(load) \in Rows /\ RowsOf(load) <= history /\ load.server \in Servers /\ Failed(load) \in BOOLEAN
  BY RowsOfLoad
<1>5. CASE load.seq = chart.seq
  <2>1. /\ chart' \in Chart /\ chart'.of = load.server /\ chart'.rows = RowsOf(load)
        /\ chart'.seq = chart.seq /\ chart'.server = chart.server
    <3>1. chart \in Chart
      BY <1>1 DEF TypeOK
    <3>2. chart' = [chart EXCEPT !.of = load.server, !.rows = RowsOf(load), !.failed = Failed(load),
                                 !.loading = FALSE]
      BY <1>2, <1>5
    <3> QED  BY <1>4, <3>1, <3>2 DEF Chart
  <2>2. PoolInv' /\ FewRequests' /\ LoadsNumbered'
    BY <1>2, <1>3, <2>1, ResumeKeeps
  <2>3. RowsKnown'
    BY <1>1, <1>2, <1>4, <2>1 DEF RowsKnown
  <2>4. \A l \in loads' : l.seq # chart.seq
    BY <1>1, <1>2, <1>5 DEF LoadsNumbered
  <2>5. ForcedFresh'
    BY <1>1, <1>2, <2>1, <2>4 DEF ForcedFresh
  <2>6. ShownIsCurrent'
    BY <1>1, <1>2, <1>5, <2>1 DEF ShownIsCurrent, LoadsNumbered
  <2> QED  BY <2>2, <2>3, <2>5, <2>6 DEF IInv
<1>6. CASE load.seq # chart.seq
  <2>1. chart' = chart /\ chart' \in Chart
    BY <1>1, <1>2, <1>6 DEF TypeOK
  <2>2. PoolInv' /\ FewRequests' /\ LoadsNumbered'
    BY <1>2, <1>3, <2>1, ResumeKeeps
  <2>3. RowsKnown' /\ ForcedFresh' /\ ShownIsCurrent'
    BY <1>1, <1>2, <2>1 DEF RowsKnown, ForcedFresh, ShownIsCurrent
  <2> QED  BY <2>2, <2>3 DEF IInv
<1> QED  BY <1>5, <1>6

\* HistoryStep: the history of the Primary grows.
LEMMA HistoryStep ==
  ASSUME NetworkHistoryAssumption, IInv, HistoryGrows
  PROVE  IInv'
<1>1. /\ TypeOK /\ IdsExist /\ QueueWaits /\ SlotsAreHeld /\ FewRequests
      /\ RowsKnown /\ LoadsNumbered /\ ForcedFresh /\ ShownIsCurrent
  BY DEF IInv, PoolInv
<1>2. /\ history < MaxHistory /\ history' = history + 1
      /\ UNCHANGED <<cache, inflight, waiting, active, requests, loads, tile, chart>>
  BY DEF HistoryGrows
<1>3. TypeOK'
  BY <1>1, <1>2 DEF TypeOK, NetworkHistoryAssumption
<1>4. IdsExist' /\ QueueWaits' /\ SlotsAreHeld'
  BY <1>1, <1>2 DEF IdsExist, QueueWaits, SlotsAreHeld
<1>5. FewRequests'
  BY <1>1, <1>2 DEF FewRequests, Begun
<1>6. LoadsNumbered' /\ ForcedFresh' /\ ShownIsCurrent'
  BY <1>1, <1>2 DEF LoadsNumbered, ForcedFresh, ShownIsCurrent
<1>7. RowsKnown'
  <2>1. history \in Nat /\ chart.rows \in Nat /\ \A s \in Servers : cache[s] \in Nat
    BY <1>1 DEF TypeOK, Chart, Rows
  <2>2. \A i \in DOMAIN requests : requests[i].rows \in Nat
    BY <1>1, RequestsTyped DEF Request, Rows
  <2>3. \A load \in loads : load.rows \in Nat
    BY <1>1 DEF TypeOK, Load, Rows
  <2> QED  BY <1>1, <1>2, <2>1, <2>2, <2>3 DEF RowsKnown
<1> QED  BY <1>3, <1>4, <1>5, <1>6, <1>7 DEF IInv, PoolInv

\* NextStep: every step keeps the invariant.
LEMMA NextStep ==
  ASSUME NetworkHistoryAssumption, IInv, [Next]_vars
  PROVE  IInv'
<1>1. CASE \E s \in Tiles : ShowTile(s)
  BY <1>1, ShowTileStep
<1>2. CASE \E s \in Servers : SelectServer(s)
  BY <1>2, LoadChartStep DEF SelectServer
<1>3. CASE Refresh
  <2>1. chart.server \in Servers
    BY DEF IInv, PoolInv, TypeOK, Chart
  <2> QED  BY <1>3, <2>1, LoadChartStep DEF Refresh
<1>4. CASE Continue
  BY <1>4, RequestStep, ResumeTileStep, ResumeChartStep DEF Continue
<1>5. CASE \E r \in DOMAIN requests : FetchFails(r)
  BY <1>5, RequestStep
<1>6. CASE HistoryGrows
  BY <1>6, HistoryStep
<1>7. CASE UNCHANGED vars
  <2>1. TypeOK' /\ IdsExist' /\ QueueWaits' /\ SlotsAreHeld'
    BY <1>7 DEF IInv, PoolInv, TypeOK, IdsExist, QueueWaits, SlotsAreHeld, vars
  <2>2. FewRequests' /\ RowsKnown' /\ LoadsNumbered' /\ ForcedFresh' /\ ShownIsCurrent'
    BY <1>7 DEF IInv, FewRequests, Begun, RowsKnown, LoadsNumbered, ForcedFresh, ShownIsCurrent, vars
  <2> QED  BY <2>1, <2>2 DEF IInv, PoolInv
<1> QED  BY <1>1, <1>2, <1>3, <1>4, <1>5, <1>6, <1>7 DEF Next

\* InvariantHolds: IInv is inductive.
THEOREM InvariantHolds == Spec => []IInv
<1>1. Init => IInv
  BY InitInv, NetworkHistoryAssumption
<1>2. IInv /\ [Next]_vars => IInv'
  BY NextStep, NetworkHistoryAssumption
<1> QED  BY <1>1, <1>2, PTL DEF Spec

----------------------------------------------------------------------------
(* Who waits for what.                                                     *)

\* Behind a spinner there is a load.
SpinnersHaveLoads ==
  /\ chart.loading => \E load \in loads : load.seq > 0 /\ load.seq = chart.seq
  /\ \A s \in Tiles :
       tile[s] = "loading" => \E load \in loads : load.seq = 0 /\ load.server = s

\* Behind a waiting request there is a place in the queue.
QueueIsComplete ==
  \A r \in DOMAIN requests :
    requests[r].phase = "waiting" => \E i \in DOMAIN waiting : waiting[i] = r

\* LoadEffect: a load gets its server, and if it has to wait a place in the queue.
LEMMA LoadEffect ==
  ASSUME NetworkHistoryAssumption, IInv, LoadsGetTheirServer, QueueIsComplete,
         NEW s \in Servers, NEW seq \in 0 .. MaxLoads, NEW force \in BOOLEAN,
         Len(requests) + 1 \in RequestIds, LoadNetworkHistory(s, seq, force)
  PROVE  /\ LoadsGetTheirServer' /\ QueueIsComplete' /\ loads \subseteq loads'
         /\ \E load \in loads' : load.server = s /\ load.seq = seq
<1> DEFINE id == Len(requests) + 1
<1>1. TypeOK /\ IdsExist
  BY DEF IInv, PoolInv
<1>2. PICK load \in Load : Loaded(s, seq, force, load)
  BY <1>1, LoadTyped
<1>3. /\ Len(requests) \in Nat /\ DOMAIN requests = 1 .. Len(requests) /\ requests \in Seq(Request)
      /\ waiting \in Seq(RequestIds) /\ Len(waiting) \in Nat /\ DOMAIN waiting = 1 .. Len(waiting)
  BY <1>1, RequestsTyped
<1>4. loads' = loads \cup {load} /\ load.server = s /\ load.seq = seq
  BY <1>2 DEF Loaded
<1>5. CASE /\ UNCHANGED <<inflight, waiting, active, requests>>
           /\ load.request # 0 => load.request = inflight[s]
  <2>1. LoadsGetTheirServer'
    BY <1>4, <1>5 DEF LoadsGetTheirServer
  <2>2. QueueIsComplete'
    BY <1>5 DEF QueueIsComplete
  <2> QED  BY <1>4, <2>1, <2>2
<1>6. CASE /\ requests' = Append(requests, Started(s, force))
           /\ inflight' = [inflight EXCEPT ![s] = id]
           /\ load.request = id /\ Acquire(id)
  <2>1. /\ Started(s, force) \in Request /\ Started(s, force).server = s
        /\ active < LIMIT => Started(s, force).phase = "granted"
    BY StartedTyped DEF Started
  <2>2. /\ DOMAIN requests' = 1 .. id /\ requests'[id] = Started(s, force) /\ id # 0
        /\ id \notin DOMAIN requests
        /\ \A r \in DOMAIN requests : r \in DOMAIN requests' /\ requests'[r] = requests[r]
    BY <1>3, <1>6, <2>1
  <2>3. inflight \in [Servers -> RequestIds \cup {0}]
    BY <1>1 DEF TypeOK
  <2>4. LoadsGetTheirServer'
    <3>1. ASSUME NEW l \in loads', l.request # 0
          PROVE  requests'[l.request].server = l.server
      <4>1. CASE l = load
        BY <1>4, <1>6, <2>1, <2>2, <4>1
      <4>2. CASE l \in loads
        BY <1>1, <2>2, <3>1, <4>2 DEF IdsExist, LoadsGetTheirServer
      <4> QED  BY <1>4, <4>1, <4>2
    <3>2. ASSUME NEW t \in Servers, inflight'[t] # 0
          PROVE  requests'[inflight'[t]].server = t
      <4>1. CASE t = s
        BY <1>6, <2>1, <2>2, <2>3, <4>1
      <4>2. CASE t # s
        <5>1. inflight'[t] = inflight[t] /\ inflight[t] \in DOMAIN requests
          BY <1>1, <1>6, <2>3, <3>2, <4>2 DEF IdsExist
        <5> QED  BY <2>2, <3>2, <5>1 DEF LoadsGetTheirServer
      <4> QED  BY <4>1, <4>2
    <3> QED  BY <3>1, <3>2 DEF LoadsGetTheirServer
  <2>5. QueueIsComplete'
    <3>1. \A i \in DOMAIN waiting : i \in DOMAIN waiting' /\ waiting'[i] = waiting[i]
      BY <1>3, <1>6 DEF Acquire
    <3>2. ~(active < LIMIT) =>
             /\ Len(waiting) + 1 \in DOMAIN waiting'
             /\ waiting'[Len(waiting) + 1] = id
      BY <1>3, <1>6 DEF Acquire
    <3> SUFFICES ASSUME NEW r \in DOMAIN requests', requests'[r].phase = "waiting"
                 PROVE  \E i \in DOMAIN waiting' : waiting'[i] = r
      BY DEF QueueIsComplete
    <3>3. CASE r = id
      BY <2>1, <2>2, <3>2, <3>3
    <3>4. CASE r \in DOMAIN requests
      BY <2>2, <3>1, <3>4 DEF QueueIsComplete
    <3> QED  BY <1>3, <2>2, <3>3, <3>4
  <2> QED  BY <1>4, <2>4, <2>5
<1> QED  BY <1>2, <1>5, <1>6 DEF Loaded

\* Servers stay with their requests, entries of inflight are at most deleted, and the queue
\* stays complete.
KeepsServers ==
  /\ DOMAIN requests' = DOMAIN requests
  /\ \A i \in DOMAIN requests : requests'[i].server = requests[i].server
  /\ \A s \in Servers : inflight'[s] \in {0, inflight[s]}
  /\ QueueIsComplete => QueueIsComplete'

\* SettleKeepsServers: when a request ends, the first of the queue is no longer waiting and
\* everybody else has a place one further ahead.
LEMMA SettleKeepsServers ==
  ASSUME IInv, NEW r \in DOMAIN requests, NEW phase \in {"done", "failed"}, NEW rows \in Rows,
         Settle(r, phase, rows)
  PROVE  KeepsServers
<1>1. TypeOK
  BY DEF IInv, PoolInv
<1>2. /\ Settles(r, phase, rows) /\ requests[r].server \in Servers
      /\ inflight' = [inflight EXCEPT ![requests[r].server] = 0]
  BY <1>1, SettleTyped DEF Phases
<1>3. inflight \in [Servers -> RequestIds \cup {0}] /\ waiting \in Seq(RequestIds)
  BY <1>1 DEF TypeOK
<1>4. \A s \in Servers : inflight'[s] \in {0, inflight[s]}
  BY <1>2, <1>3
<1>5. ASSUME QueueIsComplete, NEW i \in DOMAIN requests', requests'[i].phase = "waiting"
      PROVE  \E j \in DOMAIN waiting' : waiting'[j] = i
  <2>1. /\ i \in DOMAIN requests /\ i # r /\ requests[i].phase = "waiting"
        /\ waiting # <<>> => i # waiting[1]
    BY <1>2, <1>5 DEF Settles
  <2>2. PICK j \in DOMAIN waiting : waiting[j] = i
    BY <1>5, <2>1 DEF QueueIsComplete
  <2>3. waiting # <<>> /\ j # 1
    BY <1>3, <2>1, <2>2
  <2>4. waiting' = Tail(waiting)
    BY <2>3 DEF Settle, Release
  <2>5. j - 1 \in DOMAIN waiting' /\ waiting'[j - 1] = waiting[j]
    BY <1>3, <2>2, <2>3, <2>4
  <2> QED  BY <2>2, <2>5
<1>6. QueueIsComplete => QueueIsComplete'
  BY <1>5 DEF QueueIsComplete
<1> QED  BY <1>2, <1>4, <1>6 DEF KeepsServers, Settles

\* RequestKeepsServers: so does every step of a request.
LEMMA RequestKeepsServers ==
  ASSUME NetworkHistoryAssumption, IInv, NEW r \in DOMAIN requests,
         UseSlot(r) \/ PrimaryAnswers(r) \/ ResponseArrives(r) \/ FetchFails(r)
  PROVE  KeepsServers /\ UNCHANGED <<loads, tile, chart>>
<1>1. /\ TypeOK /\ requests[r].rows \in Rows /\ 0 \in Rows
      /\ cache[requests[r].server] \in Rows /\ history \in Rows
  BY SomeRequest DEF IInv, PoolInv
<1>2. UNCHANGED <<loads, tile, chart>>
  BY DEF UseSlot, PrimaryAnswers, ResponseArrives, FetchFails
<1>3. ASSUME NEW phase \in {"fetching", "answered"}, NEW rows \in Rows, SetsRequest(r, phase, rows)
      PROVE  KeepsServers
  <2>1. requests \in Seq(Request) /\ DOMAIN requests = 1 .. Len(requests) /\ requests[r] \in Request
    BY <1>1, RequestsTyped
  <2>2. /\ DOMAIN requests' = DOMAIN requests /\ requests'[r].phase = phase
        /\ requests'[r].server = requests[r].server
        /\ \A i \in DOMAIN requests : i # r => requests'[i] = requests[i]
    <3>1. CASE requests' = [requests EXCEPT ![r].phase = phase]
      BY <2>1, <3>1 DEF Request
    <3>2. CASE requests' = [requests EXCEPT ![r].phase = phase, ![r].rows = rows]
      BY <2>1, <3>2 DEF Request
    <3> QED  BY <1>3, <3>1, <3>2 DEF SetsRequest
  <2>3. inflight' = inflight /\ waiting' = waiting
    BY <1>3 DEF SetsRequest
  <2>4. QueueIsComplete => QueueIsComplete'
    BY <2>2, <2>3 DEF QueueIsComplete
  <2> QED  BY <2>2, <2>3, <2>4 DEF KeepsServers
<1>4. CASE UseSlot(r)
  <2>1. CASE Settle(r, "done", cache[requests[r].server])
    BY <1>1, <1>2, <2>1, SettleKeepsServers
  <2>2. CASE /\ requests' = [requests EXCEPT ![r].phase = "fetching"]
             /\ UNCHANGED <<inflight, waiting, active>>
    <3>1. SetsRequest(r, "fetching", requests[r].rows)
      <4>1. UNCHANGED <<inflight, waiting, active, loads>>
        BY <1>2, <2>2
      <4> QED  BY <2>2, <4>1, Zenon DEF SetsRequest
    <3> QED  BY <1>1, <1>2, <1>3, <3>1
  <2> QED  BY <1>4, <2>1, <2>2 DEF UseSlot
<1>5. CASE PrimaryAnswers(r)
  <2>1. SetsRequest(r, "answered", history)
    <3>1. UNCHANGED <<inflight, waiting, active, loads>>
      BY <1>5 DEF PrimaryAnswers
    <3> QED  BY <1>5, <3>1, Zenon DEF SetsRequest, PrimaryAnswers
  <2> QED  BY <1>1, <1>2, <1>3, <2>1
<1>6. CASE ResponseArrives(r)
  BY <1>1, <1>6, SettleKeepsServers DEF ResponseArrives
<1>7. CASE FetchFails(r)
  BY <1>1, <1>7, SettleKeepsServers DEF FetchFails
<1> QED  BY <1>2, <1>4, <1>5, <1>6, <1>7

\* Everybody waits for what they asked for, and for somebody.
WaitsInv == LoadsGetTheirServer /\ QueueIsComplete /\ SpinnersHaveLoads

\* KeptWaits: what keeps the servers and leaves loads, tiles and the chart alone keeps it.
LEMMA KeptWaits ==
  ASSUME IInv, WaitsInv, KeepsServers, UNCHANGED <<loads, tile, chart>>
  PROVE  WaitsInv'
<1>1. IdsExist
  BY DEF IInv, PoolInv
<1>2. LoadsGetTheirServer'
  BY <1>1 DEF WaitsInv, LoadsGetTheirServer, KeepsServers, IdsExist
<1>3. QueueIsComplete' /\ SpinnersHaveLoads'
  BY DEF WaitsInv, KeepsServers, SpinnersHaveLoads
<1> QED  BY <1>2, <1>3 DEF WaitsInv

\* ShowTileWaits, LoadChartWaits: whoever begins to load has a load.
LEMMA ShowTileWaits ==
  ASSUME NetworkHistoryAssumption, IInv, WaitsInv, NEW s \in Tiles, ShowTile(s)
  PROVE  WaitsInv'
<1>1. TypeOK /\ FewRequests
  BY DEF IInv, PoolInv
<1>2. s \in Servers /\ 0 \in 0 .. MaxLoads /\ Len(requests) + 1 \in RequestIds
  BY <1>1, NextIdFits DEF NetworkHistoryAssumption, ShowTile
<1>3. /\ LoadsGetTheirServer' /\ QueueIsComplete' /\ loads \subseteq loads'
      /\ \E load \in loads' : load.server = s /\ load.seq = 0
  BY <1>2, LoadEffect DEF ShowTile, WaitsInv
<1>4. /\ tile' = [tile EXCEPT ![s] = "loading"] /\ chart' = chart
      /\ tile \in [Tiles -> {"hidden", "loading", "shown", "failed"}]
  BY <1>1 DEF ShowTile, TypeOK
<1>5. ASSUME NEW t \in Tiles, tile'[t] = "loading"
      PROVE  \E load \in loads' : load.seq = 0 /\ load.server = t
  <2>1. CASE t = s
    BY <1>3, <2>1
  <2>2. CASE t # s
    BY <1>3, <1>4, <1>5, <2>2 DEF WaitsInv, SpinnersHaveLoads
  <2> QED  BY <2>1, <2>2
<1>6. SpinnersHaveLoads'
  BY <1>3, <1>4, <1>5 DEF WaitsInv, SpinnersHaveLoads
<1> QED  BY <1>3, <1>6 DEF WaitsInv

LEMMA LoadChartWaits ==
  ASSUME NetworkHistoryAssumption, IInv, WaitsInv, NEW s \in Servers, NEW force \in BOOLEAN,
         LoadChart(s, force)
  PROVE  WaitsInv'
<1>1. TypeOK /\ FewRequests
  BY DEF IInv, PoolInv
<1>2. /\ chart.seq \in Nat /\ chart.seq + 1 \in 0 .. MaxLoads /\ Len(requests) + 1 \in RequestIds
  BY <1>1, NextIdFits, RequestsTyped DEF NetworkHistoryAssumption, LoadChart
<1>3. /\ LoadsGetTheirServer' /\ QueueIsComplete' /\ loads \subseteq loads'
      /\ \E load \in loads' : load.server = s /\ load.seq = chart.seq + 1
  BY <1>2, LoadEffect DEF LoadChart, WaitsInv
<1>4. chart'.seq = chart.seq + 1 /\ tile' = tile
  BY <1>1, ChartTyped DEF LoadChart
<1>5. SpinnersHaveLoads'
  BY <1>2, <1>3, <1>4 DEF WaitsInv, SpinnersHaveLoads
<1> QED  BY <1>3, <1>5 DEF WaitsInv

\* ResumeWaits: whoever resumes takes the only load of its spinner, and ends the spinner.
LEMMA ResumeWaits ==
  ASSUME NetworkHistoryAssumption, IInv, WaitsInv, NEW load \in loads,
         ResumeTile(load) \/ ResumeChart(load)
  PROVE  WaitsInv'
<1>1. TypeOK /\ LoadsNumbered
  BY DEF IInv, PoolInv
<1>2. loads' = loads \ {load} /\ UNCHANGED <<inflight, waiting, requests>>
  BY DEF ResumeTile, ResumeChart
<1>3. LoadsGetTheirServer' /\ QueueIsComplete'
  BY <1>2 DEF WaitsInv, LoadsGetTheirServer, QueueIsComplete
<1>4. tile \in [Tiles -> {"hidden", "loading", "shown", "failed"}] /\ chart \in Chart
  BY <1>1 DEF TypeOK
<1>5. SpinnersHaveLoads'
  <2>1. CASE ResumeTile(load)
    <3>1. /\ load.seq = 0 /\ chart' = chart
          /\ tile' = [tile EXCEPT ![load.server] = IF Failed(load) THEN "failed" ELSE "shown"]
      BY <2>1 DEF ResumeTile
    <3>2. \A t \in Tiles : tile'[t] = "loading" => tile[t] = "loading" /\ t # load.server
      BY <1>4, <3>1
    <3> QED  BY <1>2, <3>1, <3>2 DEF WaitsInv, SpinnersHaveLoads
  <2>2. CASE ResumeChart(load)
    <3>1. load.seq > 0 /\ tile' = tile
      BY <2>2 DEF ResumeChart
    <3>2. CASE load.seq = chart.seq
      <4>1. chart' = [chart EXCEPT !.of = load.server, !.rows = RowsOf(load),
                                   !.failed = Failed(load), !.loading = FALSE]
        BY <2>2, <3>2 DEF ResumeChart
      <4>2. chart'.loading = FALSE
        BY <1>4, <4>1 DEF Chart
      <4> QED  BY <1>2, <3>1, <4>2 DEF WaitsInv, SpinnersHaveLoads
    <3>3. CASE load.seq # chart.seq
      <4>1. chart' = chart
        BY <2>2, <3>3 DEF ResumeChart
      <4> QED  BY <1>2, <3>1, <3>3, <4>1 DEF WaitsInv, SpinnersHaveLoads
    <3> QED  BY <3>2, <3>3
  <2> QED  BY <2>1, <2>2
<1> QED  BY <1>3, <1>5 DEF WaitsInv

\* NobodyForgotten: it holds throughout.
LEMMA NobodyForgotten == Spec => []WaitsInv
<1>1. Init => WaitsInv
  <2> SUFFICES ASSUME Init PROVE WaitsInv
    OBVIOUS
  <2>1. /\ loads = {} /\ DOMAIN requests = {} /\ chart.loading = FALSE
        /\ \A s \in Servers : inflight[s] = 0
        /\ \A s \in Tiles : tile[s] = "hidden"
    BY DEF Init
  <2> QED  BY <2>1 DEF WaitsInv, LoadsGetTheirServer, QueueIsComplete, SpinnersHaveLoads
<1>2. IInv /\ WaitsInv /\ [Next]_vars => WaitsInv'
  <2> SUFFICES ASSUME IInv, WaitsInv, [Next]_vars PROVE WaitsInv'
    OBVIOUS
  <2> USE NetworkHistoryAssumption
  <2>1. CASE \E s \in Tiles : ShowTile(s)
    BY <2>1, ShowTileWaits
  <2>2. CASE \E s \in Servers : SelectServer(s)
    BY <2>2, LoadChartWaits DEF SelectServer
  <2>3. CASE Refresh
    <3>1. chart.server \in Servers
      BY DEF IInv, PoolInv, TypeOK, Chart
    <3> QED  BY <2>3, <3>1, LoadChartWaits DEF Refresh
  <2>4. CASE \E r \in DOMAIN requests :
               UseSlot(r) \/ PrimaryAnswers(r) \/ ResponseArrives(r) \/ FetchFails(r)
    BY <2>4, RequestKeepsServers, KeptWaits
  <2>5. CASE \E load \in loads : ResumeTile(load) \/ ResumeChart(load)
    BY <2>5, ResumeWaits
  <2>6. CASE HistoryGrows \/ UNCHANGED vars
    <3>1. UNCHANGED <<inflight, waiting, requests, loads, tile, chart>>
      BY <2>6 DEF HistoryGrows, vars
    <3> QED  BY <3>1 DEF WaitsInv, LoadsGetTheirServer, QueueIsComplete, SpinnersHaveLoads
  <2> QED  BY <2>1, <2>2, <2>3, <2>4, <2>5, <2>6 DEF Next, Continue
<1> QED  BY <1>1, <1>2, InvariantHolds, PTL DEF Spec

----------------------------------------------------------------------------
(* What follows.                                                           *)

\* The maps, the queue, the loads and the chart keep their types: the counter of slots
\* never goes below zero, so that release needs no Math.max.
THEOREM TypeCorrect == Spec => []TypeOK
<1>1. IInv => TypeOK
  BY DEF IInv, PoolInv
<1> QED  BY <1>1, InvariantHolds, PTL

\* The pool never leaks a slot or grants one twice (acquire, release), for any limit and
\* whatever fails.
THEOREM SlotsAreCounted == Spec => []SlotsAreHeld
<1>1. IInv => SlotsAreHeld
  BY DEF IInv, PoolInv
<1> QED  BY <1>1, InvariantHolds, PTL

\* A chart that is not loading shows the server it is for (requestSeq).
THEOREM ChartIsCurrent == Spec => []ShownIsCurrent
<1>1. IInv => ShownIsCurrent
  BY DEF IInv
<1> QED  BY <1>1, InvariantHolds, PTL

\* A refresh never replaces the history on screen by an older one (load, syncTimer).
THEOREM RefreshIsNewer == Spec => RefreshNeverGoesBack
<1> DEFINE NotBack(load) ==
             load.force /\ chart'.rows > 0 /\ chart.of = chart'.of => chart'.rows >= chart.rows
<1>1. ASSUME IInv, [Next]_vars, NEW load \in loads \ loads'
      PROVE  NotBack(load)
  <2>1. chart.rows \in Nat
    BY <1>1 DEF IInv, PoolInv, TypeOK, Chart, Rows
  <2>2. CASE chart'.rows = chart.rows
    BY <2>1, <2>2
  <2>3. CASE ResumeChart(load)
    <3>1. CASE load.seq = chart.seq
      <4>1. chart' = [chart EXCEPT !.of = load.server, !.rows = RowsOf(load), !.failed = Failed(load),
                                   !.loading = FALSE]
        BY <2>3, <3>1 DEF ResumeChart
      <4>2. chart \in Chart
        BY <1>1 DEF IInv, PoolInv, TypeOK
      <4>3. chart'.rows = RowsOf(load)
        BY <4>1, <4>2 DEF Chart
      <4>4. Settled(load)
        BY <2>3 DEF ResumeChart
      <4> QED  BY <1>1, <3>1, <4>3, <4>4, RowsOfLoad, NetworkHistoryAssumption
    <3>2. CASE load.seq # chart.seq
      BY <2>1, <2>3, <3>2 DEF ResumeChart
    <3> QED  BY <3>1, <3>2
  <2>4. chart'.rows = chart.rows \/ ResumeChart(load)
    <3>1. CASE \E m \in loads : ResumeTile(m)
      BY <3>1 DEF ResumeTile
    <3>2. CASE \E m \in loads : ResumeChart(m)
      BY <1>1, <3>2 DEF ResumeChart
    <3>3. CASE \E r \in DOMAIN requests :
                 UseSlot(r) \/ PrimaryAnswers(r) \/ ResponseArrives(r) \/ FetchFails(r)
      BY <3>3 DEF UseSlot, PrimaryAnswers, ResponseArrives, FetchFails
    <3>4. CASE HistoryGrows \/ UNCHANGED vars
      BY <3>4 DEF HistoryGrows, vars
    <3>5. CASE \E s \in Tiles : ShowTile(s)
      BY <3>5 DEF ShowTile
    <3>6. ASSUME NEW s, NEW force, LoadChart(s, force)
          PROVE  chart'.rows = chart.rows
      <4>1. chart \in Chart
        BY <1>1 DEF IInv, PoolInv, TypeOK
      <4>2. chart' = [chart EXCEPT !.server = s, !.seq = @ + 1, !.loading = TRUE, !.failed = FALSE]
        BY <3>6 DEF LoadChart
      <4> QED  BY <4>1, <4>2 DEF Chart
    <3>7. CASE (\E s \in Servers : SelectServer(s)) \/ Refresh
      BY <3>6, <3>7 DEF SelectServer, Refresh
    <3> QED  BY <1>1, <3>1, <3>2, <3>3, <3>4, <3>5, <3>7 DEF Next, Continue
  <2> QED  BY <2>2, <2>3, <2>4
<1>2. IInv /\ [Next]_vars =>
        [\A load \in loads \ loads' :
           load.force /\ chart'.rows > 0 /\ chart.of = chart'.of => chart'.rows >= chart.rows]_vars
  BY <1>1
<1> QED  BY <1>2, InvariantHolds, PTL DEF Spec, RefreshNeverGoesBack

\* What a chart or a tile is given is the history of the server it asked for, though it may
\* have joined a request of somebody else, and though a request that ends deletes an entry
\* of inflight that may belong to a later one (loadNetworkHistory).
THEOREM HistoriesReachTheirServer == Spec => []LoadsGetTheirServer
<1>1. WaitsInv => LoadsGetTheirServer
  BY DEF WaitsInv
<1> QED  BY <1>1, NobodyForgotten, PTL

\* A spinner, a request in the queue and the queue itself always have somebody to end them,
\* for any limit, any number of superseded loads and whatever fails (acquire, release,
\* load).
THEOREM NobodyIsForgotten == Spec => []NobodyWaitsInVain
<1>1. ASSUME IInv, WaitsInv
      PROVE  NobodyWaitsInVain
  <2>1. /\ active = Cardinality(Holding) /\ (waiting # <<>> => active = LIMIT)
        /\ LIMIT \in Nat \ {0} /\ waiting \in Seq(RequestIds)
    BY <1>1, HoldingCounted, NetworkHistoryAssumption DEF IInv, PoolInv, TypeOK, NetworkHistoryAssumption
  <2>2. ASSUME NEW r \in DOMAIN requests, requests[r].phase = "waiting"
        PROVE  /\ \E i \in DOMAIN waiting : waiting[i] = r
               /\ \E h \in DOMAIN requests : requests[h].phase \in {"granted", "fetching", "answered"}
    <3>1. PICK i \in DOMAIN waiting : waiting[i] = r
      BY <1>1, <2>2 DEF WaitsInv, QueueIsComplete
    <3>2. active = LIMIT
      BY <2>1, <3>1
    <3>3. Holding # {}
      BY <2>1, <3>2, FS_EmptySet
    <3> QED  BY <3>1, <3>3 DEF Holding
  <2> QED  BY <1>1, <2>2 DEF NobodyWaitsInVain, WaitsInv, SpinnersHaveLoads
<1>2. IInv /\ WaitsInv => NobodyWaitsInVain
  BY <1>1
<1> QED  BY <1>2, NobodyForgotten, InvariantHolds, PTL

============================================================================
