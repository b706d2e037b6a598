-------------------------- MODULE ConfigSyncProofs --------------------------
(***************************************************************************)
(* Proofs about ConfigSync for any sets of servers, nodes and scopes and   *)
(* any number of changes and faults.                                       *)
(***************************************************************************)
EXTENDS ConfigSync, TLAPS

----------------------------------------------------------------------------
(* The assignments a transaction leaves.                                   *)

\* SyncedTyped: bringing the node of a server up to date yields a set of nodes.
LEMMA SyncedTyped ==
  ASSUME NEW nodes \in SUBSET Nodes, NEW s, NEW n \in Nodes
  PROVE  Synced(nodes, s, n) \in SUBSET Nodes
BY DEF Synced

\* SyncedOthers: syncCollectorAssignmentsForServer leaves every other node alone, and
\* assigns the node of the server exactly if that is desired.
LEMMA SyncedOthers ==
  ASSUME NEW nodes, NEW s, NEW n
  PROVE  /\ \A m : m # n => (m \in Synced(nodes, s, n) <=> m \in nodes)
         /\ n \in Synced(nodes, s, n) <=> Desired(s)
BY DEF Synced

\* BumpTyped: a transaction raises the version by 0 or 1.
LEMMA BumpTyped ==
  ASSUME NEW c
  PROVE  Bump(c) \in Nat /\ (c => Bump(c) = 1) /\ (~c => Bump(c) = 0)
BY DEF Bump

\* AssignTyped: the three things that stand for the assignments keep their types, and
\* neither the version nor the edition goes back.
LEMMA AssignTyped ==
  ASSUME TypeOK, NEW nodes \in SUBSET Nodes, NEW bumps \in Nat, Assign(nodes, bumps)
  PROVE  /\ open' \in SUBSET Nodes /\ version' \in Nat /\ edition' \in Nat
         /\ version' >= version /\ edition' >= edition
BY DEF Assign, TypeOK

\* LaggingTyped: the history variable lagging stays a set of servers.
LEMMA LaggingTyped ==
  ASSUME TypeOK, NEW s \in Servers, NEW n, NEW bound \in SUBSET Servers
  PROVE  LaggingAfter(s, n, bound) \in SUBSET Servers
BY DEF LaggingAfter, TypeOK

----------------------------------------------------------------------------
(* Type correctness.                                                       *)

\* TypedBind: binding a server.
LEMMA TypedBind ==
  ASSUME TypeOK, NEW s \in Servers, NEW n \in Nodes, BindServerNode(s, n)
  PROVE  TypeOK'
<1> DEFINE left == open \ {binding[s]}
           nodes == Synced(left, s, n)
           bumps == Bump(binding[s] \in open) + Bump(nodes # left)
<1>1. left \in SUBSET Nodes /\ nodes \in SUBSET Nodes
  BY SyncedTyped DEF TypeOK
<1>2. bumps \in Nat
  BY BumpTyped
<1>3. Assign(nodes, bumps)
  BY DEF BindServerNode
<1>4. open' \in SUBSET Nodes /\ version' \in Nat /\ edition' \in Nat
  BY <1>1, <1>2, <1>3, AssignTyped
<1>5. lagging' \in SUBSET Servers
  BY LaggingTyped DEF BindServerNode, BoundTo
<1>6. binding' \in [Servers -> Nodes \cup {NoNode}]
  BY DEF BindServerNode, TypeOK
<1>7. changes' \in Nat /\ UNCHANGED <<tag, scope, status, adminVars, syncVars, faults, overwritten>>
  BY DEF BindServerNode, Change, TypeOK
<1> HIDE DEF left, nodes, bumps
<1> QED  BY <1>4, <1>5, <1>6, <1>7 DEF TypeOK, adminVars, syncVars

\* TypedRefresh: refreshing the assignments of a saved server.
LEMMA TypedRefresh ==
  ASSUME TypeOK, NEW s \in Servers, RefreshAssignments(s)
  PROVE  TypeOK'
<1>1. open' \in SUBSET Nodes /\ version' \in Nat /\ edition' \in Nat /\ lagging' \in SUBSET Servers
  <2>1. CASE tag[s] # NoTag /\ binding[s] # NoNode
    <3> DEFINE n == binding[s]
               nodes == Synced(open, s, n)
    <3>1. n \in Nodes
      BY <2>1 DEF TypeOK
    <3>2. nodes \in SUBSET Nodes /\ Bump(nodes # open) \in Nat
      BY <3>1, SyncedTyped, BumpTyped DEF TypeOK
    <3>3. Assign(nodes, Bump(nodes # open)) /\ lagging' = LaggingAfter(s, n, BoundTo(n))
      BY <2>1 DEF RefreshAssignments
    <3> HIDE DEF n, nodes
    <3>4. BoundTo(n) \in SUBSET Servers
      BY DEF BoundTo
    <3> QED  BY <3>2, <3>3, <3>4, AssignTyped, LaggingTyped
  <2>2. CASE ~(tag[s] # NoTag /\ binding[s] # NoNode)
    BY <2>2 DEF RefreshAssignments, TypeOK
  <2> QED  BY <2>1, <2>2
<1> QED  BY <1>1 DEF RefreshAssignments, TypeOK, syncVars

\* TypedEnd: ending the binding of a deleted server.
LEMMA TypedEnd ==
  ASSUME TypeOK, NEW s \in Servers, EndServerNodeBinding(s)
  PROVE  TypeOK'
<1>1. open \ {binding[s]} \in SUBSET Nodes /\ Bump(binding[s] \in open) \in Nat
  BY BumpTyped DEF TypeOK
<1>2. open' \in SUBSET Nodes /\ version' \in Nat /\ edition' \in Nat
  BY <1>1, AssignTyped DEF EndServerNodeBinding
<1> QED  BY <1>2 DEF EndServerNodeBinding, TypeOK, syncVars

\* TypedScope: giving the Collector new scopes.
LEMMA TypedScope ==
  ASSUME TypeOK, NEW new \in Scopes, UpdateScope(new)
  PROVE  TypeOK'
<1>1. PICK nodes \in SUBSET Nodes : Assign(nodes, 1)
  BY DEF UpdateScope
<1>2. open' \in SUBSET Nodes /\ version' \in Nat /\ edition' \in Nat
  BY <1>1, AssignTyped
<1>3. lagging' \in SUBSET Servers
  BY DEF UpdateScope, TypeOK
<1> QED  BY <1>2, <1>3 DEF UpdateScope, TypeOK, Change, adminVars, syncVars

\* TypedOther: the other handlers of the Primary.
LEMMA TypedOther ==
  ASSUME TypeOK,
         \/ \E s \in Servers, t \in Tags : SaveServer(s, t)
         \/ \E s \in Servers : DeleteServer(s)
         \/ \E as \in {"revoked", "deleted"} : DisableCollector(as)
         \/ RotateReads
         \/ RotateSaves
  PROVE  TypeOK'
<1>1. ASSUME NEW s \in Servers, NEW t \in Tags, SaveServer(s, t)
      PROVE  TypeOK'
  <2>1. tag' \in [Servers -> Tags \cup {NoTag}]
    BY <1>1 DEF SaveServer, TypeOK
  <2> QED  BY <1>1, <2>1 DEF SaveServer, TypeOK, Change, syncVars
<1>2. ASSUME NEW s \in Servers, DeleteServer(s)
      PROVE  TypeOK'
  <2>1. tag' \in [Servers -> Tags \cup {NoTag}]
    BY <1>2 DEF DeleteServer, TypeOK
  <2> QED  BY <1>2, <2>1 DEF DeleteServer, TypeOK, Change, syncVars
<1>3. ASSUME NEW as \in {"revoked", "deleted"}, DisableCollector(as)
      PROVE  TypeOK'
  <2>1. open' \in SUBSET Nodes /\ version' \in Nat /\ edition' \in Nat
    BY <1>3, AssignTyped DEF DisableCollector
  <2>2. changes' \in Nat
    BY <1>3 DEF DisableCollector, Change, TypeOK
  <2>3. /\ status' \in {"enabled", "revoked", "deleted"} /\ lagging' \in SUBSET Servers
        /\ UNCHANGED <<tag, binding, scope, adminVars, syncVars, faults, overwritten>>
    BY <1>3 DEF DisableCollector
  <2> QED  BY <2>1, <2>2, <2>3 DEF TypeOK, adminVars, syncVars
<1>4. CASE RotateReads
  BY <1>4 DEF RotateReads, TypeOK, Change, tableVars, syncVars, historyVars
<1>5. CASE RotateSaves
  BY <1>5 DEF RotateSaves, TypeOK, syncVars
<1> QED  BY <1>1, <1>2, <1>3, <1>4, <1>5

\* TypedSync: the Sync stream and the faults.
LEMMA TypedSync ==
  ASSUME TypeOK, Sync \/ StreamBreaks \/ PrimaryCrashes \/ CertificateExpires
  PROVE  TypeOK'
<1> USE DEF TypeOK, tableVars, adminVars, historyVars
<1>1. CASE RegisterWithPrimary
  BY <1>1 DEF RegisterWithPrimary, NoConfig, Config
<1>2. CASE OpenStream
  BY <1>2 DEF OpenStream
<1>3. CASE SendConfig
  <2>1. [version |-> sent, nodes |-> open, edition |-> edition] \in Config
    BY DEF Config
  <2>2. channel' \in Seq(Config)
    BY <1>3, <2>1 DEF SendConfig
  <2> QED  BY <1>3, <2>2 DEF SendConfig
<1>4. CASE HandleRuntime
  BY <1>4 DEF HandleRuntime
<1>5. CASE SaveAuthorization
  <2>1. channel' \in Seq(Config) /\ cache' \in Config
    BY <1>5 DEF SaveAuthorization
  <2> QED  BY <1>5, <2>1 DEF SaveAuthorization
<1>6. CASE StreamBreaks
  BY <1>6 DEF StreamBreaks, CloseStream, Fault
<1>7. CASE PrimaryCrashes
  <2>1. faults' \in Nat /\ channel' \in Seq(Config) /\ stream' = "closed"
    BY <1>7 DEF PrimaryCrashes, CloseStream, Fault
  <2>2. refreshing' \in SUBSET Servers /\ deleting' \in SUBSET Servers /\ rotating' \in SUBSET Nat
    BY <1>7 DEF PrimaryCrashes
  <2> QED  BY <1>7, <2>1, <2>2 DEF PrimaryCrashes, CloseStream
<1>8. CASE CertificateExpires
  <2> HIDE DEF TypeOK
  <2>1. Fault /\ certified' = FALSE
    BY <1>8 DEF CertificateExpires
  <2>2. faults' \in Nat
    BY <2>1 DEF Fault, TypeOK
  <2>3. UNCHANGED <<tableVars, adminVars, stream, sent, channel, cache, changes, historyVars>>
    BY <1>8 DEF CertificateExpires
  <2> QED  BY <2>1, <2>2, <2>3 DEF TypeOK
<1> QED  BY <1>1, <1>2, <1>3, <1>4, <1>5, <1>6, <1>7, <1>8 DEF Sync

\* TypedStep: every step of the specification keeps the types.
LEMMA TypedStep ==
  ASSUME TypeOK, [Next]_vars
  PROVE  TypeOK'
<1>1. CASE Administer
  BY <1>1, TypedBind, TypedRefresh, TypedEnd, TypedScope, TypedOther DEF Administer
<1>2. CASE Sync \/ StreamBreaks \/ PrimaryCrashes \/ CertificateExpires
  BY <1>2, TypedSync
<1>3. CASE UNCHANGED vars
  BY <1>3 DEF TypeOK, vars, tableVars, adminVars, syncVars, historyVars
<1> QED  BY <1>1, <1>2, <1>3 DEF Next

\* TablesKept: neither the Sync stream nor a fault changes what the database holds.
LEMMA TablesKept ==
  ASSUME Sync \/ StreamBreaks \/ PrimaryCrashes \/ CertificateExpires \/ UNCHANGED vars
  PROVE  UNCHANGED tableVars /\ UNCHANGED historyVars
<1> USE DEF tableVars, historyVars
<1>1. CASE Sync
  BY <1>1 DEF Sync, RegisterWithPrimary, OpenStream, SendConfig, HandleRuntime, SaveAuthorization
<1>2. CASE StreamBreaks \/ PrimaryCrashes \/ CertificateExpires
  BY <1>2 DEF StreamBreaks, PrimaryCrashes, CertificateExpires
<1>3. CASE UNCHANGED vars
  BY <1>3 DEF vars
<1> QED  BY <1>1, <1>2, <1>3

\* TypedInit: the tables of a new installation.
LEMMA TypedInit ==
  ASSUME Init
  PROVE  TypeOK
<1>1. tag \in [Servers -> Tags \cup {NoTag}] /\ binding \in [Servers -> Nodes \cup {NoNode}]
  BY DEF Init
<1>2. cache \in Config /\ channel \in Seq(Config)
  BY DEF Init, NoConfig, Config
<1> QED  BY <1>1, <1>2 DEF Init, TypeOK

\* TypeCorrect: the tables, the stream and the cache always hold what the code needs.
THEOREM TypeCorrect == Spec => []TypeOK
<1>1. Init => TypeOK
  BY TypedInit
<1>2. TypeOK /\ [Next]_vars => TypeOK'
  BY TypedStep
<1> QED  BY <1>1, <1>2, PTL DEF Spec

----------------------------------------------------------------------------
(* No assignment outlives the last binding of its node.                    *)

\* AssignmentsBoundStep: closing the assignments of the node that a server leaves, or
\* syncing those of the node it has, never leaves an assignment without a binding.
LEMMA AssignmentsBoundStep ==
  ASSUME TypeOK, AssignedNodesAreBound, [Next]_vars
  PROVE  AssignedNodesAreBound'
<1>1. ASSUME NEW s \in Servers, NEW n \in Nodes, BindServerNode(s, n)
      PROVE  AssignedNodesAreBound'
  <2> DEFINE left == open \ {binding[s]}
  <2>1. /\ binding' = [binding EXCEPT ![s] = n] /\ open' = Synced(left, s, n)
        /\ binding \in [Servers -> Nodes \cup {NoNode}]
    BY <1>1 DEF BindServerNode, Assign, TypeOK
  <2>2. SUFFICES ASSUME NEW m \in open'
                 PROVE  \E t \in Servers : binding'[t] = m
    BY DEF AssignedNodesAreBound, BoundTo
  <2>3. CASE m = n
    BY <2>1, <2>3
  <2>4. CASE m # n
    <3>1. m \in open /\ m # binding[s]
      BY <2>1, <2>4, SyncedOthers
    <3>2. PICK t \in Servers : binding[t] = m
      BY <3>1 DEF AssignedNodesAreBound, BoundTo
    <3> QED  BY <3>1, <3>2, <2>1
  <2> QED  BY <2>3, <2>4
<1>2. ASSUME NEW s \in Servers, RefreshAssignments(s)
      PROVE  AssignedNodesAreBound'
  <2>1. binding' = binding
    BY <1>2 DEF RefreshAssignments
  <2>2. \A m \in open' : m \in open \/ m = binding[s]
    <3>1. CASE tag[s] # NoTag /\ binding[s] # NoNode
      BY <1>2, <3>1, SyncedOthers DEF RefreshAssignments, Assign
    <3>2. CASE ~(tag[s] # NoTag /\ binding[s] # NoNode)
      BY <1>2, <3>2 DEF RefreshAssignments
    <3> QED  BY <3>1, <3>2
  <2> QED  BY <2>1, <2>2 DEF AssignedNodesAreBound, BoundTo
<1>3. ASSUME NEW s \in Servers, EndServerNodeBinding(s)
      PROVE  AssignedNodesAreBound'
  <2>1. /\ binding' = [binding EXCEPT ![s] = NoNode] /\ open' = open \ {binding[s]}
        /\ binding \in [Servers -> Nodes \cup {NoNode}]
    BY <1>3 DEF EndServerNodeBinding, Assign, TypeOK
  <2>2. SUFFICES ASSUME NEW m \in open'
                 PROVE  \E t \in Servers : binding'[t] = m
    BY DEF AssignedNodesAreBound, BoundTo
  <2>3. PICK t \in Servers : binding[t] = m
    BY <2>1 DEF AssignedNodesAreBound, BoundTo
  <2> QED  BY <2>1, <2>3
<1>4. ASSUME NEW new \in Scopes, UpdateScope(new)
      PROVE  AssignedNodesAreBound'
  <2>1. binding' = binding
    BY <1>4 DEF UpdateScope
  <2>2. \A m \in open' : BoundTo(m) # {} \/ m \in open
    BY <1>4 DEF UpdateScope, Assign
  <2> QED  BY <2>1, <2>2 DEF AssignedNodesAreBound, BoundTo
<1>5. ASSUME NEW as \in {"revoked", "deleted"}, DisableCollector(as)
      PROVE  AssignedNodesAreBound'
  BY <1>5 DEF DisableCollector, Assign, AssignedNodesAreBound
<1>6. ASSUME UNCHANGED <<binding, open>>
      PROVE  AssignedNodesAreBound'
  BY <1>6 DEF AssignedNodesAreBound, BoundTo
<1>7. CASE Administer
  <2>1. CASE \E s \in Servers, t \in Tags : SaveServer(s, t)
    BY <2>1, <1>6 DEF SaveServer
  <2>2. CASE \E s \in Servers : DeleteServer(s)
    BY <2>2, <1>6 DEF DeleteServer
  <2>3. CASE RotateReads \/ RotateSaves
    BY <2>3, <1>6 DEF RotateReads, RotateSaves, tableVars
  <2> QED  BY <1>1, <1>2, <1>3, <1>4, <1>5, <1>7, <2>1, <2>2, <2>3 DEF Administer
<1>8. CASE Sync \/ StreamBreaks \/ PrimaryCrashes \/ CertificateExpires \/ UNCHANGED vars
  BY <1>8, TablesKept, <1>6 DEF tableVars
<1> QED  BY <1>7, <1>8 DEF Next

\* AssignmentsBound: no history of bindings, moves, deletions, scopes and crashes leaves
\* an assignment whose node has no server.
THEOREM AssignmentsBound == Spec => []AssignedNodesAreBound
<1>1. Init => AssignedNodesAreBound
  BY DEF Init, AssignedNodesAreBound
<1>2. TypeOK /\ AssignedNodesAreBound /\ [Next]_vars => AssignedNodesAreBound'
  BY AssignmentsBoundStep
<1> QED  BY <1>1, <1>2, TypeCorrect, PTL DEF Spec

----------------------------------------------------------------------------
(* Assignments follow bindings and scopes.                                 *)

\* A node with two servers has the assignment of whichever was synced last: both lag.
SharedLag ==
  \A s, t \in Servers : s # t /\ binding[s] = binding[t] /\ binding[s] # NoNode => s \in lagging

\* As ScopesAreApplied, and while the Collector is disabled, too.
Applied ==
  \A s \in Servers : binding[s] # NoNode /\ s \notin lagging => (binding[s] \in open <=> Included(s))

\* LaggingFacts: who lags after the assignment of s was brought up to date.
LEMMA LaggingFacts ==
  ASSUME NEW s, NEW n, NEW bound, s \in bound, NEW t
  PROVE  LET after == LaggingAfter(s, n, bound)
         IN  /\ t \notin after /\ t = s => bound \subseteq {s} /\ status = "enabled"
             /\ t \notin after /\ t # s => t \notin lagging /\ t \notin bound
             /\ t \in bound /\ ~(bound \subseteq {s}) => t \in after
<1>1. CASE bound \subseteq {s} /\ status = "enabled"
  BY <1>1 DEF LaggingAfter
<1>2. CASE bound \subseteq {s} /\ status # "enabled"
  BY <1>2 DEF LaggingAfter
<1>3. CASE ~(bound \subseteq {s})
  BY <1>3 DEF LaggingAfter
<1> QED  BY <1>1, <1>2, <1>3

\* AppliedBind: binding a server. The servers of the node it leaves, if there are any,
\* lag already.
LEMMA AppliedBind ==
  ASSUME TypeOK, SharedLag, Applied, NEW s \in Servers, NEW n \in Nodes, BindServerNode(s, n)
  PROVE  SharedLag' /\ Applied'
<1> DEFINE left == open \ {binding[s]}
           bound == BoundTo(n) \cup {s}
<1>1. /\ binding' = [binding EXCEPT ![s] = n] /\ open' = Synced(left, s, n)
      /\ lagging' = LaggingAfter(s, n, bound)
      /\ tag' = tag /\ scope' = scope
  BY DEF BindServerNode, Assign
<1>2. binding'[s] = n /\ \A t \in Servers : t # s => binding'[t] = binding[t]
  BY <1>1 DEF TypeOK
<1>3. \A t \in Servers : t \in bound <=> t = s \/ binding[t] = n
  BY DEF BoundTo
<1>4. SharedLag'
  <2> SUFFICES ASSUME NEW t \in Servers, NEW u \in Servers, t # u,
                      binding'[t] = binding'[u], binding'[t] # NoNode
               PROVE  t \in lagging'
    BY DEF SharedLag
  <2>1. CASE t = s \/ u = s
    <3>1. t \in bound /\ u \in bound
      BY <2>1, <1>2, <1>3
    <3>2. ~(bound \subseteq {s})
      BY <2>1, <3>1
    <3> QED  BY <3>1, <3>2, <1>1, LaggingFacts
  <2>2. CASE t # s /\ u # s
    <3>1. t \in lagging
      BY <2>2, <1>2 DEF SharedLag
    <3> QED  BY <3>1, <2>2, <1>1, LaggingFacts
  <2> QED  BY <2>1, <2>2
<1>5. Applied'
  <2> SUFFICES ASSUME NEW t \in Servers, binding'[t] # NoNode, t \notin lagging'
               PROVE  binding'[t] \in open' <=> Included(t)'
    BY DEF Applied
  <2>1. Included(t)' = Included(t)
    BY <1>1 DEF Included
  <2>2. CASE t = s
    <3>1. status = "enabled"
      BY <2>2, <1>1, LaggingFacts
    <3> QED  BY <3>1, <2>1, <2>2, <1>1, <1>2, SyncedOthers DEF Desired
  <2>3. CASE t # s
    <3>1. t \notin lagging /\ t \notin bound
      BY <2>3, <1>1, LaggingFacts
    <3>2. binding'[t] = binding[t] /\ binding[t] # n
      BY <3>1, <2>3, <1>2, <1>3
    <3>3. binding[t] # binding[s]
      BY <3>1, <3>2, <2>3 DEF SharedLag
    <3>4. binding[t] \in open' <=> binding[t] \in open
      BY <3>2, <3>3, <1>1, SyncedOthers
    <3> QED  BY <3>1, <3>2, <3>4, <2>1 DEF Applied
  <2> QED  BY <2>2, <2>3
<1> QED  BY <1>4, <1>5

\* AppliedRefresh: the second transaction of a handler that has saved a server.
LEMMA AppliedRefresh ==
  ASSUME TypeOK, SharedLag, Applied, NEW s \in Servers, RefreshAssignments(s)
  PROVE  SharedLag' /\ Applied'
<1> DEFINE n == binding[s]
           bound == BoundTo(n)
<1>1. CASE ~(tag[s] # NoTag /\ n # NoNode)
  BY <1>1 DEF RefreshAssignments, SharedLag, Applied, Included
<1>2. CASE tag[s] # NoTag /\ n # NoNode
  <2>1. /\ binding' = binding /\ open' = Synced(open, s, n)
        /\ lagging' = LaggingAfter(s, n, bound)
        /\ tag' = tag /\ scope' = scope
    BY <1>2 DEF RefreshAssignments, Assign
  <2>2. \A t \in Servers : t \in bound <=> binding[t] = n
    BY DEF BoundTo
  <2>3. s \in bound
    BY <2>2
  <2>4. SharedLag'
    <3> SUFFICES ASSUME NEW t \in Servers, NEW u \in Servers, t # u,
                        binding[t] = binding[u], binding[t] # NoNode
                 PROVE  t \in lagging'
      BY <2>1 DEF SharedLag
    <3>1. t \in lagging
      BY DEF SharedLag
    <3>2. t = s => u \in bound /\ t \in bound /\ ~(bound \subseteq {s})
      BY <2>2
    <3> QED  BY <3>1, <3>2, <2>1, <2>3, LaggingFacts
  <2>5. Applied'
    <3> SUFFICES ASSUME NEW t \in Servers, binding[t] # NoNode, t \notin lagging'
                 PROVE  binding[t] \in open' <=> Included(t)
      BY <2>1 DEF Applied, Included
    <3>1. CASE t = s
      <4>1. status = "enabled"
        BY <3>1, <2>1, <2>3, LaggingFacts
      <4> QED  BY <4>1, <3>1, <2>1, SyncedOthers DEF Desired
    <3>2. CASE t # s
      <4>1. t \notin lagging /\ t \notin bound
        BY <3>2, <2>1, <2>3, LaggingFacts
      <4>2. binding[t] \in open' <=> binding[t] \in open
        BY <4>1, <2>1, <2>2, SyncedOthers
      <4> QED  BY <4>1, <4>2 DEF Applied
    <3> QED  BY <3>1, <3>2
  <2> QED  BY <2>4, <2>5
<1> QED  BY <1>1, <1>2

\* AppliedEnd: closing the assignment of a deleted server touches no server that counts.
LEMMA AppliedEnd ==
  ASSUME TypeOK, SharedLag, Applied, NEW s \in Servers, EndServerNodeBinding(s)
  PROVE  SharedLag' /\ Applied'
<1>1. /\ binding' = [binding EXCEPT ![s] = NoNode] /\ open' = open \ {binding[s]}
      /\ UNCHANGED <<lagging, tag, scope>>
  BY DEF EndServerNodeBinding, Assign
<1>2. binding'[s] = NoNode /\ \A t \in Servers : t # s => binding'[t] = binding[t]
  BY <1>1 DEF TypeOK
<1>3. SharedLag'
  BY <1>1, <1>2 DEF SharedLag
<1>4. \A t \in Servers : t # s /\ t \notin lagging /\ binding[t] # NoNode => binding[t] # binding[s]
  BY DEF SharedLag
<1>5. Applied'
  <2> SUFFICES ASSUME NEW t \in Servers, binding'[t] # NoNode, t \notin lagging
               PROVE  binding'[t] \in open' <=> Included(t)
    BY <1>1 DEF Applied, Included
  <2>1. t # s /\ binding'[t] = binding[t]
    BY <1>2
  <2> QED  BY <2>1, <1>1, <1>4 DEF Applied
<1> QED  BY <1>3, <1>5

\* AppliedScope: new scopes are applied to every server that shares its node with none.
LEMMA AppliedScope ==
  ASSUME TypeOK, SharedLag, Applied, NEW new \in Scopes, UpdateScope(new)
  PROVE  SharedLag' /\ Applied'
<1>1. PICK last \in [Nodes -> Servers] :
        /\ \A n \in Nodes : BoundTo(n) # {} => last[n] \in BoundTo(n)
        /\ open' = {n \in Nodes : IF BoundTo(n) = {} THEN n \in open ELSE tag[last[n]] \in new}
  BY DEF UpdateScope, Assign
<1>2. /\ binding' = binding /\ tag' = tag /\ scope' = new
      /\ lagging' = {s \in lagging : binding[s] # NoNode /\ BoundTo(binding[s]) # {s}}
  BY DEF UpdateScope
<1>3. \A s, t \in Servers : s # t /\ binding[s] = binding[t] => BoundTo(binding[s]) # {s}
  BY DEF BoundTo
<1>4. SharedLag'
  BY <1>2, <1>3 DEF SharedLag
<1>5. Applied'
  <2> SUFFICES ASSUME NEW s \in Servers, binding[s] # NoNode, s \notin lagging'
               PROVE  binding[s] \in open' <=> tag[s] \in new
    BY <1>2 DEF Applied, Included
  <2>1. binding[s] \in Nodes
    BY DEF TypeOK
  <2>2. s \in BoundTo(binding[s])
    BY DEF BoundTo
  <2>3. BoundTo(binding[s]) = {s}
    <3>1. CASE s \in lagging
      BY <3>1, <1>2
    <3>2. CASE s \notin lagging
      <4>1. \A t \in Servers : binding[t] = binding[s] => t = s
        BY <3>2 DEF SharedLag
      <4> QED  BY <4>1, <2>2 DEF BoundTo
    <3> QED  BY <3>1, <3>2
  <2>4. last[binding[s]] = s
    BY <1>1, <2>1, <2>3
  <2> QED  BY <1>1, <2>1, <2>2, <2>4
<1> QED  BY <1>4, <1>5

\* AppliedStep: every step keeps the assignments of the servers that count in step with
\* bindings and scopes.
LEMMA AppliedStep ==
  ASSUME TypeOK, SharedLag, Applied, [Next]_vars
  PROVE  SharedLag' /\ Applied'
<1>1. ASSUME NEW s \in Servers, NEW t \in Tags, SaveServer(s, t)
      PROVE  SharedLag' /\ Applied'
  <2>1. /\ tag' = [tag EXCEPT ![s] = t] /\ lagging' = lagging \cup {s}
        /\ UNCHANGED <<binding, scope, open>>
    BY <1>1 DEF SaveServer
  <2>2. \A u \in Servers : u # s => tag'[u] = tag[u]
    BY <2>1 DEF TypeOK
  <2> QED  BY <2>1, <2>2 DEF SharedLag, Applied, Included
<1>2. ASSUME NEW s \in Servers, DeleteServer(s)
      PROVE  SharedLag' /\ Applied'
  <2>1. /\ tag' = [tag EXCEPT ![s] = NoTag] /\ lagging' = lagging \cup {s}
        /\ UNCHANGED <<binding, scope, open>>
    BY <1>2 DEF DeleteServer
  <2>2. \A u \in Servers : u # s => tag'[u] = tag[u]
    BY <2>1 DEF TypeOK
  <2> QED  BY <2>1, <2>2 DEF SharedLag, Applied, Included
<1>3. ASSUME NEW as \in {"revoked", "deleted"}, DisableCollector(as)
      PROVE  SharedLag' /\ Applied'
  BY <1>3 DEF DisableCollector, SharedLag, Applied
<1>4. ASSUME UNCHANGED <<tag, binding, scope, open, lagging>>
      PROVE  SharedLag' /\ Applied'
  BY <1>4 DEF SharedLag, Applied, Included
<1>5. CASE RotateReads \/ RotateSaves
  BY <1>5, <1>4 DEF RotateReads, RotateSaves, tableVars, historyVars
<1>6. CASE Administer
  BY <1>6, <1>1, <1>2, <1>3, <1>5, AppliedBind, AppliedRefresh, AppliedEnd, AppliedScope DEF Administer
<1>7. CASE Sync \/ StreamBreaks \/ PrimaryCrashes \/ CertificateExpires \/ UNCHANGED vars
  BY <1>7, TablesKept, <1>4 DEF tableVars, historyVars
<1> QED  BY <1>6, <1>7 DEF Next

\* AssignmentsApplied: through every order of binding, moving and deleting servers and of
\* giving scopes, the assignments of an enabled Collector are those of its scopes.
THEOREM AssignmentsApplied == Spec => []ScopesAreApplied
<1>1. Init => SharedLag /\ Applied
  BY DEF Init, SharedLag, Applied
<1>2. TypeOK /\ SharedLag /\ Applied /\ [Next]_vars => SharedLag' /\ Applied'
  BY AppliedStep
<1>3. Applied => ScopesAreApplied
  BY DEF Applied, ScopesAreApplied
<1> QED  BY <1>1, <1>2, <1>3, TypeCorrect, PTL DEF Spec

----------------------------------------------------------------------------
(* Comparing versions is enough, and what arrives is never older.          *)

\* AdministerRaises: a transaction of the Primary that changes the assignments raises the
\* version with them, and none but a rotation that overwrites a newer row lowers it.
LEMMA AdministerRaises ==
  ASSUME TypeOK, Administer
  PROVE  /\ UNCHANGED syncVars
         /\ overwritten => overwritten'
         /\ ~overwritten' => version' >= version /\ (open' = open \/ version' > version)
         /\ edition' >= edition
<1> DEFINE Goal == /\ UNCHANGED syncVars
                   /\ overwritten => overwritten'
                   /\ ~overwritten' => version' >= version /\ (open' = open \/ version' > version)
                   /\ edition' >= edition
<1>1. version \in Nat /\ edition \in Nat /\ open \in SUBSET Nodes
  BY DEF TypeOK
<1>2. ASSUME UNCHANGED <<version, open, edition, overwritten, syncVars>>
      PROVE  Goal
  BY <1>1, <1>2
<1>3. ASSUME NEW nodes \in SUBSET Nodes, NEW bumps \in Nat, Assign(nodes, bumps),
             nodes = open \/ bumps > 0, UNCHANGED <<overwritten, syncVars>>
      PROVE  Goal
  <2>1. edition' >= edition
    BY <1>1, <1>3, AssignTyped
  <2>2. open' = nodes /\ version' = version + bumps
    BY <1>3 DEF Assign
  <2> QED  BY <1>1, <1>3, <2>1, <2>2
<1> HIDE DEF Goal
<1>4. ASSUME NEW s \in Servers, NEW n \in Nodes, BindServerNode(s, n)
      PROVE  Goal
  <2> DEFINE left == open \ {binding[s]}
             nodes == Synced(left, s, n)
             bumps == Bump(binding[s] \in open) + Bump(nodes # left)
  <2>1. nodes \in SUBSET Nodes
    BY <1>1, SyncedTyped
  <2> HIDE DEF nodes
  <2>2. bumps \in Nat /\ (nodes = open \/ bumps > 0)
    <3>1. CASE binding[s] \in open
      BY <3>1 DEF Bump
    <3>2. CASE binding[s] \notin open /\ nodes # left
      BY <3>2 DEF Bump
    <3>3. CASE binding[s] \notin open /\ nodes = left
      <4>1. left = open
        BY <3>3
      <4> QED  BY <3>3, <4>1 DEF Bump
    <3> QED  BY <3>1, <3>2, <3>3
  <2>3. Assign(nodes, bumps) /\ UNCHANGED <<overwritten, syncVars>>
    BY <1>4 DEF BindServerNode, nodes
  <2> HIDE DEF bumps
  <2> QED  BY <1>3, <2>1, <2>2, <2>3
<1>5. ASSUME NEW s \in Servers, RefreshAssignments(s)
      PROVE  Goal
  <2>1. CASE tag[s] # NoTag /\ binding[s] # NoNode
    <3> DEFINE nodes == Synced(open, s, binding[s])
    <3>1. nodes \in SUBSET Nodes
      BY <2>1, SyncedTyped DEF TypeOK
    <3> HIDE DEF nodes
    <3>2. Bump(nodes # open) \in Nat /\ (nodes = open \/ Bump(nodes # open) > 0)
      BY DEF Bump
    <3>3. Assign(nodes, Bump(nodes # open)) /\ UNCHANGED <<overwritten, syncVars>>
      BY <1>5, <2>1 DEF RefreshAssignments, nodes
    <3> QED  BY <1>3, <3>1, <3>2, <3>3
  <2>2. CASE ~(tag[s] # NoTag /\ binding[s] # NoNode)
    BY <1>5, <2>2, <1>2 DEF RefreshAssignments
  <2> QED  BY <2>1, <2>2
<1>6. ASSUME NEW s \in Servers, EndServerNodeBinding(s)
      PROVE  Goal
  <2> DEFINE nodes == open \ {binding[s]}
             bumps == Bump(binding[s] \in open)
  <2>1. nodes \in SUBSET Nodes /\ bumps \in Nat /\ (nodes = open \/ bumps > 0)
    BY <1>1 DEF Bump
  <2>2. Assign(nodes, bumps) /\ UNCHANGED <<overwritten, syncVars>>
    BY <1>6 DEF EndServerNodeBinding
  <2> HIDE DEF nodes, bumps
  <2> QED  BY <1>3, <2>1, <2>2
<1>7. ASSUME NEW new \in Scopes, UpdateScope(new)
      PROVE  Goal
  <2>1. PICK nodes \in SUBSET Nodes : Assign(nodes, 1)
    BY <1>7 DEF UpdateScope
  <2> QED  BY <1>7, <2>1, <1>3 DEF UpdateScope
<1>8. ASSUME NEW as \in {"revoked", "deleted"}, DisableCollector(as)
      PROVE  Goal
  BY <1>8, <1>3 DEF DisableCollector
<1>9. CASE RotateSaves
  <2>1. PICK v \in rotating : version' = v + 1 /\ overwritten' = (overwritten \/ version # v)
    BY <1>9 DEF RotateSaves
  <2>2. ~overwritten' => version' = version + 1
    BY <2>1
  <2>3. UNCHANGED <<open, edition, syncVars>> /\ (overwritten => overwritten')
    BY <1>9, <2>1 DEF RotateSaves
  <2> QED  BY <1>1, <2>2, <2>3 DEF Goal
<1>10. CASE \/ \E s \in Servers, t \in Tags : SaveServer(s, t)
            \/ \E s \in Servers : DeleteServer(s)
            \/ RotateReads
  <2>1. CASE \E s \in Servers, t \in Tags : SaveServer(s, t)
    BY <2>1, <1>2 DEF SaveServer, Goal
  <2>2. CASE \E s \in Servers : DeleteServer(s)
    BY <2>2, <1>2 DEF DeleteServer, Goal
  <2>3. CASE RotateReads
    BY <2>3, <1>2 DEF RotateReads, tableVars, historyVars, Goal
  <2> QED  BY <1>10, <2>1, <2>2, <2>3
<1> QED  BY <1>4, <1>5, <1>6, <1>7, <1>8, <1>9, <1>10 DEF Administer, Goal

\* The version the handler has sent is one that the tables have had.
SentIsPast == stream # "closed" /\ ~overwritten => sent <= version

\* LatestKept: saving a configuration changes nothing about which one comes last.
LEMMA LatestKept ==
  ASSUME TypeOK, SaveAuthorization
  PROVE  Latest' = Latest
<1>1. /\ channel \in Seq(Config) /\ channel # <<>>
      /\ cache' = Head(channel) /\ channel' = Tail(channel)
  BY DEF TypeOK, SaveAuthorization
<1>2. CASE Len(channel) = 1
  <2>1. channel' = <<>> /\ cache' = channel[1]
    BY <1>1, <1>2
  <2> QED  BY <1>1, <1>2, <2>1 DEF Latest
<1>3. CASE Len(channel) # 1
  <2>1. /\ Len(channel) \in Nat /\ Len(channel) > 1
        /\ Len(channel') = Len(channel) - 1
        /\ channel' # <<>>
    <3>1. Len(channel) \in Nat /\ Len(channel) # 0
      BY <1>1
    <3>2. Len(channel') = Len(channel) - 1
      BY <1>1, <3>1
    <3>3. Len(channel') # 0
      BY <1>3, <3>1, <3>2
    <3> QED  BY <1>3, <3>1, <3>2, <3>3
  <2>2. channel'[Len(channel')] = channel[Len(channel)]
    BY <1>1, <2>1
  <2> QED  BY <1>1, <2>1, <2>2 DEF Latest
<1> QED  BY <1>2, <1>3

\* VersionsStep: a step after which the handler finds its version is one after which its
\* assignments are those of the tables.
LEMMA VersionsStep ==
  ASSUME TypeOK, SentIsPast, EqualVersionsAgree, [Next]_vars
  PROVE  SentIsPast' /\ EqualVersionsAgree'
<1>1. version \in Nat /\ sent \in Nat
  BY DEF TypeOK
<1>2. CASE Administer
  <2>1. /\ UNCHANGED <<stream, sent, Latest>>
        /\ overwritten => overwritten'
        /\ ~overwritten' => version' >= version /\ (open' = open \/ version' > version)
    BY <1>2, AdministerRaises DEF syncVars, Latest
  <2>2. version' \in Nat
    BY <1>2, TypedStep DEF Next, TypeOK
  <2>3. SentIsPast'
    BY <1>1, <2>1, <2>2 DEF SentIsPast
  <2>4. ASSUME stream = "idle", sent = version', ~overwritten'
        PROVE  Latest.nodes = open'
    <3>1. sent <= version /\ version' >= version /\ (open' = open \/ version' > version)
      BY <2>1, <2>4 DEF SentIsPast
    <3>2. sent = version /\ open' = open
      BY <3>1, <1>1, <2>2, <2>4
    <3> QED  BY <3>2, <2>1, <2>4 DEF EqualVersionsAgree
  <2> QED  BY <2>1, <2>3, <2>4 DEF EqualVersionsAgree
<1>3. ASSUME Sync \/ StreamBreaks \/ PrimaryCrashes \/ CertificateExpires \/ UNCHANGED vars
      PROVE  version' = version /\ open' = open /\ overwritten' = overwritten
  BY <1>3, TablesKept DEF tableVars, historyVars
<1>4. CASE RegisterWithPrimary
  BY <1>4, <1>3 DEF RegisterWithPrimary, Sync, SentIsPast, EqualVersionsAgree
<1>5. CASE OpenStream \/ HandleRuntime
  <2>1. stream' = "sending" /\ sent' = version
    BY <1>5 DEF OpenStream, HandleRuntime
  <2> QED  BY <1>1, <1>3, <1>5, <2>1 DEF Sync, SentIsPast, EqualVersionsAgree
<1>6. CASE SendConfig
  <2> DEFINE config == [version |-> sent, nodes |-> open, edition |-> edition]
  <2>1. /\ channel \in Seq(Config) /\ config \in Config
        /\ channel' = Append(channel, config) /\ stream = "sending" /\ sent' = sent
    BY <1>6 DEF TypeOK, Config, SendConfig
  <2> HIDE DEF config
  <2>2. channel' # <<>> /\ channel'[Len(channel')] = config
    BY <2>1
  <2>3. Latest' = config
    BY <2>2 DEF Latest
  <2> QED  BY <1>3, <1>6, <2>1, <2>3 DEF Sync, config, SentIsPast, EqualVersionsAgree
<1>7. CASE SaveAuthorization
  <2>1. UNCHANGED <<stream, sent>> /\ Latest' = Latest
    BY <1>7, LatestKept DEF SaveAuthorization
  <2> QED  BY <1>3, <1>7, <2>1 DEF Sync, SentIsPast, EqualVersionsAgree
<1>8. CASE StreamBreaks \/ PrimaryCrashes
  BY <1>8 DEF StreamBreaks, PrimaryCrashes, CloseStream, SentIsPast, EqualVersionsAgree
<1>9. CASE CertificateExpires \/ UNCHANGED vars
  <2>1. UNCHANGED <<stream, sent, Latest>>
    BY <1>9 DEF CertificateExpires, vars, syncVars, Latest
  <2> QED  BY <1>3, <1>9, <2>1 DEF SentIsPast, EqualVersionsAgree
<1> QED  BY <1>2, <1>4, <1>5, <1>6, <1>7, <1>8, <1>9 DEF Next, Sync

\* VersionsSuffice: without an overwritten version the comparison of versions in Sync finds
\* every difference of assignments, however binding, scopes and sending interleave.
THEOREM VersionsSuffice == Spec => []EqualVersionsAgree
<1>1. Init => SentIsPast /\ EqualVersionsAgree
  BY DEF Init, SentIsPast, EqualVersionsAgree
<1>2. TypeOK /\ SentIsPast /\ EqualVersionsAgree /\ [Next]_vars => SentIsPast' /\ EqualVersionsAgree'
  BY VersionsStep
<1> QED  BY <1>1, <1>2, TypeCorrect, PTL DEF Spec

\* The assignments that wait on the stream stand in the order in which they were read,
\* after those of the cache.
EditionsInOrder ==
  /\ cache.edition <= edition
  /\ \A i \in 1 .. Len(channel) :
        /\ cache.edition <= channel[i].edition /\ channel[i].edition <= edition
        /\ \A j \in 1 .. Len(channel) : i <= j => channel[i].edition <= channel[j].edition

\* EditionsStep: sending appends the newest assignments and saving takes the oldest.
LEMMA EditionsStep ==
  ASSUME TypeOK, EditionsInOrder, [Next]_vars
  PROVE  EditionsInOrder'
<1>1. /\ edition \in Nat /\ cache.edition \in Nat
      /\ channel \in Seq(Config) /\ \A i \in 1 .. Len(channel) : channel[i].edition \in Nat
  <2>1. edition \in Nat /\ cache \in Config /\ channel \in Seq(Config)
    BY DEF TypeOK
  <2>2. \A i \in 1 .. Len(channel) : channel[i] \in Config
    BY <2>1
  <2>3. \A c \in Config : c.edition \in Nat
    BY DEF Config
  <2> QED  BY <2>1, <2>2, <2>3
<1>2. CASE Administer
  <2>1. UNCHANGED <<cache, channel>> /\ edition' >= edition
    BY <1>2, AdministerRaises DEF syncVars
  <2>2. edition' \in Nat
    BY <1>2, TypedStep DEF Next, TypeOK
  <2> QED  BY <1>1, <2>1, <2>2 DEF EditionsInOrder
<1>3. ASSUME Sync \/ StreamBreaks \/ PrimaryCrashes \/ CertificateExpires \/ UNCHANGED vars
      PROVE  edition' = edition
  BY <1>3, TablesKept DEF historyVars
<1>4. CASE RegisterWithPrimary
  <2>1. cache' = [version |-> version, nodes |-> {}, edition |-> 0] /\ UNCHANGED <<channel, edition>>
    BY <1>4 DEF RegisterWithPrimary, NoConfig, historyVars
  <2> QED  BY <1>1, <2>1 DEF EditionsInOrder
<1>5. CASE SendConfig
  <2> DEFINE config == [version |-> sent, nodes |-> open, edition |-> edition]
  <2>1. channel' = Append(channel, config) /\ cache' = cache /\ config \in Config
    BY <1>5 DEF SendConfig, TypeOK, Config
  <2>2. config.edition = edition
    OBVIOUS
  <2> HIDE DEF config
  <2>3. /\ Len(channel') = Len(channel) + 1 /\ Len(channel) \in Nat
        /\ channel'[Len(channel) + 1] = config
        /\ \A i \in 1 .. Len(channel) : channel'[i] = channel[i]
    BY <2>1, <1>1
  <2>4. \A i \in 1 .. Len(channel') : i \in 1 .. Len(channel) \/ i = Len(channel) + 1
    BY <2>3
  <2> QED  BY <1>1, <1>3, <1>5, <2>1, <2>2, <2>3, <2>4 DEF Sync, EditionsInOrder
<1>6. CASE SaveAuthorization
  <2>1. channel # <<>> /\ cache' = channel[1] /\ channel' = Tail(channel)
    BY <1>6, <1>1 DEF SaveAuthorization
  <2>2. /\ Len(channel) \in Nat \ {0} /\ Len(channel') = Len(channel) - 1
        /\ \A i \in 1 .. Len(channel') : channel'[i] = channel[i + 1] /\ i + 1 \in 1 .. Len(channel)
    BY <2>1, <1>1
  <2>3. 1 \in 1 .. Len(channel)
    BY <2>2
  <2>4. cache'.edition <= edition
    BY <2>1, <2>3 DEF EditionsInOrder
  <2>5. ASSUME NEW i \in 1 .. Len(channel')
        PROVE  /\ cache'.edition <= channel'[i].edition /\ channel'[i].edition <= edition
               /\ \A j \in 1 .. Len(channel') : i <= j => channel'[i].edition <= channel'[j].edition
    <3>1. i + 1 \in 1 .. Len(channel) /\ 1 <= i + 1
      BY <2>2
    <3> QED  BY <2>1, <2>2, <2>3, <3>1 DEF EditionsInOrder
  <2> QED  BY <1>3, <1>6, <2>4, <2>5 DEF Sync, EditionsInOrder
<1>7. CASE StreamBreaks \/ PrimaryCrashes
  <2>1. channel' = <<>> /\ cache' = cache
    BY <1>7 DEF StreamBreaks, PrimaryCrashes, CloseStream
  <2> QED  BY <1>3, <1>7, <2>1 DEF EditionsInOrder
<1>8. CASE OpenStream \/ HandleRuntime \/ CertificateExpires \/ UNCHANGED vars
  <2>1. UNCHANGED <<channel, cache>>
    BY <1>8 DEF OpenStream, HandleRuntime, CertificateExpires, vars, syncVars
  <2> QED  BY <1>3, <1>8, <2>1 DEF Sync, EditionsInOrder
<1> QED  BY <1>2, <1>4, <1>5, <1>6, <1>7, <1>8 DEF Next, Sync

\* CacheStep: only saving and registering change the cache.
LEMMA CacheStep ==
  ASSUME TypeOK, EditionsInOrder, [Next]_vars
  PROVE  cache'.edition >= cache.edition \/ cache' = [NoConfig EXCEPT !.version = cache'.version]
<1>1. cache.edition \in Nat
  BY DEF TypeOK, Config
<1>2. CASE UNCHANGED cache
  BY <1>1, <1>2
<1>3. CASE RegisterWithPrimary
  BY <1>3 DEF RegisterWithPrimary, NoConfig
<1>4. CASE SaveAuthorization
  <2>1. cache' = channel[1] /\ 1 \in 1 .. Len(channel)
    BY <1>4 DEF SaveAuthorization, TypeOK
  <2> QED  BY <2>1, <1>1 DEF EditionsInOrder, TypeOK, Config
<1>5. CASE Administer
  BY <1>5, <1>2, AdministerRaises DEF syncVars
<1>6. CASE \/ OpenStream \/ SendConfig \/ HandleRuntime
           \/ StreamBreaks \/ PrimaryCrashes \/ CertificateExpires \/ UNCHANGED vars
  BY <1>6, <1>2 DEF OpenStream, SendConfig, HandleRuntime, StreamBreaks, PrimaryCrashes,
                    CertificateExpires, vars, syncVars
<1> QED  BY <1>3, <1>4, <1>5, <1>6 DEF Next, Sync

\* CacheNeverOlder: whatever is lost with a stream, the Collector never goes back to
\* assignments older than those it has.
THEOREM CacheNeverOlder == Spec => CacheAdvances
<1>1. Init => EditionsInOrder
  BY DEF Init, EditionsInOrder, NoConfig
<1>2. TypeOK /\ EditionsInOrder /\ [Next]_vars => EditionsInOrder'
  BY EditionsStep
<1>3. TypeOK /\ EditionsInOrder /\ [Next]_vars =>
        [cache'.edition >= cache.edition \/ cache' = [NoConfig EXCEPT !.version = cache'.version]]_vars
  BY CacheStep
<1> QED  BY <1>1, <1>2, <1>3, TypeCorrect, PTL DEF Spec, CacheAdvances

----------------------------------------------------------------------------
(* What a version tells of the assignments.                                *)

\* As VersionTellsAssignments, and no configuration is ahead of the tables.
VersionsPast ==
  ~overwritten =>
    \A c \in Configs :
      /\ c.version <= version
      /\ c.version = version => c.nodes = open \/ c = [NoConfig EXCEPT !.version = c.version]

\* VersionsTyped: configurations have a version.
LEMMA VersionsTyped ==
  ASSUME TypeOK
  PROVE  version \in Nat /\ sent \in Nat /\ \A c \in Configs : c.version \in Nat
<1>1. cache \in Config /\ channel \in Seq(Config)
  BY DEF TypeOK
<1>2. Configs \subseteq Config
  BY <1>1 DEF Configs
<1> QED  BY <1>2 DEF Config, TypeOK

\* PastFewer: losing configurations, and changing nothing else, keeps them so.
LEMMA PastFewer ==
  ASSUME VersionsPast, Configs' \subseteq Configs, UNCHANGED <<version, open, overwritten>>
  PROVE  VersionsPast'
BY DEF VersionsPast

\* PastStep: the version is read before the assignments and rises with every change of them.
LEMMA PastStep ==
  ASSUME TypeOK, SentIsPast, VersionsPast, [Next]_vars
  PROVE  VersionsPast'
<1>1. version \in Nat /\ sent \in Nat /\ \A c \in Configs : c.version \in Nat
  BY VersionsTyped
<1>2. CASE Administer
  <2>1. /\ Configs' = Configs
        /\ overwritten => overwritten'
        /\ ~overwritten' => version' >= version /\ (open' = open \/ version' > version)
    BY <1>2, AdministerRaises DEF syncVars, Configs
  <2>2. version' \in Nat
    BY <1>2, TypedStep DEF Next, TypeOK
  <2>3. ASSUME ~overwritten', NEW c \in Configs
        PROVE  /\ c.version <= version'
               /\ c.version = version' => c.nodes = open' \/ c = [NoConfig EXCEPT !.version = c.version]
    <3>1. /\ c.version <= version
          /\ c.version = version => c.nodes = open \/ c = [NoConfig EXCEPT !.version = c.version]
      BY <2>1, <2>3 DEF VersionsPast
    <3>2. c.version <= version'
      BY <1>1, <2>1, <2>2, <2>3, <3>1
    <3>3. c.version = version' => version' = version /\ open' = open
      BY <1>1, <2>1, <2>2, <2>3, <3>1
    <3> QED  BY <3>1, <3>2, <3>3
  <2> QED  BY <2>1, <2>3 DEF VersionsPast
<1>3. ASSUME Sync \/ StreamBreaks \/ PrimaryCrashes \/ CertificateExpires \/ UNCHANGED vars
      PROVE  UNCHANGED <<version, open, overwritten>>
  BY <1>3, TablesKept DEF historyVars, tableVars
<1>4. ASSUME NEW config, Configs' \subseteq Configs \cup {config}, UNCHANGED <<version, open, overwritten>>,
             ~overwritten => /\ config.version <= version
                             /\ config.nodes = open \/ config = [NoConfig EXCEPT !.version = config.version]
      PROVE  VersionsPast'
  BY <1>4 DEF VersionsPast
<1>5. CASE RegisterWithPrimary
  <2> DEFINE config == [NoConfig EXCEPT !.version = version]
  <2>1. cache' = config /\ channel' = channel
    BY <1>5 DEF RegisterWithPrimary
  <2>2. config.version = version /\ config = [NoConfig EXCEPT !.version = config.version]
    BY DEF NoConfig
  <2> HIDE DEF config
  <2>3. Configs' \subseteq Configs \cup {config}
    BY <2>1 DEF Configs
  <2> QED  BY <1>1, <1>3, <1>4, <1>5, <2>2, <2>3 DEF Sync
<1>6. CASE SendConfig
  <2> DEFINE config == [version |-> sent, nodes |-> open, edition |-> edition]
  <2>1. channel' = Append(channel, config) /\ cache' = cache
    BY <1>6 DEF SendConfig
  <2>2. config.version = sent /\ config.nodes = open
    OBVIOUS
  <2> HIDE DEF config
  <2>3. \A i \in DOMAIN channel' : channel'[i] = config \/ (i \in DOMAIN channel /\ channel'[i] = channel[i])
    BY <2>1 DEF TypeOK
  <2>4. Configs' \subseteq Configs \cup {config}
    BY <2>1, <2>3 DEF Configs
  <2>5. ~overwritten => sent <= version
    BY <1>6 DEF SendConfig, SentIsPast
  <2> QED  BY <1>3, <1>4, <1>6, <2>2, <2>4, <2>5 DEF Sync
<1>7. CASE SaveAuthorization
  <2>1. /\ channel # <<>> /\ channel \in Seq(Config)
        /\ cache' = Head(channel) /\ channel' = Tail(channel)
    BY <1>7 DEF SaveAuthorization, TypeOK
  <2>2. /\ 1 \in DOMAIN channel /\ cache' = channel[1]
        /\ \A i \in DOMAIN channel' : i + 1 \in DOMAIN channel /\ channel'[i] = channel[i + 1]
    BY <2>1
  <2>3. Configs' \subseteq Configs
    BY <2>2 DEF Configs
  <2> QED  BY <1>3, <1>7, <2>3, PastFewer DEF Sync
<1>8. CASE StreamBreaks \/ PrimaryCrashes
  <2>1. channel' = <<>> /\ cache' = cache
    BY <1>8 DEF StreamBreaks, PrimaryCrashes, CloseStream
  <2>2. Configs' \subseteq Configs
    BY <2>1 DEF Configs
  <2> QED  BY <1>3, <1>8, <2>2, PastFewer
<1>9. CASE OpenStream \/ HandleRuntime \/ CertificateExpires \/ UNCHANGED vars
  <2>1. UNCHANGED <<channel, cache>>
    BY <1>9 DEF OpenStream, HandleRuntime, CertificateExpires, vars, syncVars
  <2>2. Configs' \subseteq Configs
    BY <2>1 DEF Configs
  <2> QED  BY <1>3, <1>9, <2>2, PastFewer DEF Sync
<1> QED  BY <1>2, <1>5, <1>6, <1>7, <1>8, <1>9 DEF Next, Sync

\* VersionsTell: without an overwritten version, the version of a cached configuration is
\* enough to know whether the Collector serves what it is assigned.
THEOREM VersionsTell == Spec => []VersionTellsAssignments
<1>1. Init => SentIsPast /\ EqualVersionsAgree /\ VersionsPast
  BY DEF Init, NoConfig, Configs, SentIsPast, EqualVersionsAgree, VersionsPast
<1>2. TypeOK /\ SentIsPast /\ EqualVersionsAgree /\ VersionsPast /\ [Next]_vars =>
        SentIsPast' /\ EqualVersionsAgree' /\ VersionsPast'
  BY VersionsStep, PastStep
<1>3. VersionsPast => VersionTellsAssignments
  BY DEF VersionsPast, VersionTellsAssignments
<1> QED  BY <1>1, <1>2, <1>3, TypeCorrect, PTL DEF Spec

----------------------------------------------------------------------------
(* A deleted Collector.                                                    *)

\* DeletedStep: no transaction opens an assignment of a disabled Collector, but new scopes,
\* which a deleted one is not given.
LEMMA DeletedStep ==
  ASSUME TypeOK, DeletedServesNobody, [Next]_vars
  PROVE  DeletedServesNobody'
<1>1. ASSUME UNCHANGED <<status, open>>
      PROVE  DeletedServesNobody'
  BY <1>1 DEF DeletedServesNobody
<1>2. ASSUME NEW s \in Servers, NEW n \in Nodes, BindServerNode(s, n)
      PROVE  DeletedServesNobody'
  BY <1>2 DEF BindServerNode, Assign, Synced, Desired, DeletedServesNobody
<1>3. ASSUME NEW s \in Servers, RefreshAssignments(s)
      PROVE  DeletedServesNobody'
  BY <1>3 DEF RefreshAssignments, Assign, Synced, Desired, DeletedServesNobody
<1>4. ASSUME NEW s \in Servers, EndServerNodeBinding(s)
      PROVE  DeletedServesNobody'
  BY <1>4 DEF EndServerNodeBinding, Assign, DeletedServesNobody
<1>5. ASSUME NEW new \in Scopes, UpdateScope(new)
      PROVE  DeletedServesNobody'
  BY <1>5 DEF UpdateScope, DeletedServesNobody
<1>6. ASSUME NEW as \in {"revoked", "deleted"}, DisableCollector(as)
      PROVE  DeletedServesNobody'
  BY <1>6 DEF DisableCollector, Assign, DeletedServesNobody
<1>7. CASE RotateSaves
  BY <1>7 DEF RotateSaves, DeletedServesNobody
<1>8. CASE \/ \E s \in Servers, t \in Tags : SaveServer(s, t)
           \/ \E s \in Servers : DeleteServer(s)
           \/ RotateReads
  BY <1>1, <1>8 DEF SaveServer, DeleteServer, RotateReads, tableVars
<1>9. CASE Sync \/ StreamBreaks \/ PrimaryCrashes \/ CertificateExpires \/ UNCHANGED vars
  BY <1>1, <1>9, TablesKept DEF tableVars
<1> QED  BY <1>2, <1>3, <1>4, <1>5, <1>6, <1>7, <1>8, <1>9 DEF Next, Administer

\* DeletedServes: no handler that was under way, and no Agent that comes back, gives a
\* deleted Collector an assignment.
THEOREM DeletedServes == Spec => []DeletedServesNobody
<1>1. Init => DeletedServesNobody
  BY DEF Init, DeletedServesNobody
<1>2. TypeOK /\ DeletedServesNobody /\ [Next]_vars => DeletedServesNobody'
  BY DeletedStep
<1> QED  BY <1>1, <1>2, TypeCorrect, PTL DEF Spec

============================================================================
