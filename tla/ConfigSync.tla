----------------------------- MODULE ConfigSync -----------------------------
(***************************************************************************)
(* Which nodes a Collector may serve: the Primary's bindings, scopes and   *)
(* assignments, the configuration version that stands for them, and the    *)
(* Sync stream that brings them into the Collector's cache.                *)
(*                                                                         *)
(* One observer Collector; assignments of other Collectors are separate    *)
(* rows under separate versions.  Every SQLite transaction of the Primary  *)
(* (BEGIN IMMEDIATE) is one action; what a handler does outside of one, or *)
(* in two, is as many actions.                                             *)
(***************************************************************************)
EXTENDS Integers, FiniteSets, Sequences

CONSTANTS
  Servers,
  Nodes,       \* node UUIDs
  Tags,        \* server ids, groups and tags: what scopes match servers by
  Scopes,      \* the scopes an administrator may give the Collector
  NoNode,      \* a server without a current binding
  NoTag,       \* a server whose row is deleted
  MaxChanges,  \* bound: changes made by administrators and Agents
  MaxFaults    \* bound: broken streams, crashes, expired certificates

ASSUME ConfigSyncAssumption ==
  /\ NoNode \notin Nodes
  /\ NoTag \notin Tags
  /\ Scopes \subseteq SUBSET Tags
  /\ MaxChanges \in Nat
  /\ MaxFaults \in Nat

VARIABLES
  tag,         \* Server.Tag
  binding,     \* the current ServerNodeBinding of each server
  scope,       \* CollectorScope rows
  status,      \* Collector.Revoked and Collector.Deleted
  version,     \* Collector.ConfigVersion
  open,        \* nodes with an ObserverAssignment whose ValidTo is 0
  refreshing,  \* servers saved by a handler that has yet to refresh assignments
  deleting,    \* servers whose row is gone and whose binding is yet to end
  rotating,    \* the version that a handler of v2RotateCollector has read
  stream,      \* the Sync stream and what its handler at the Primary does next
  sent,        \* the handler's copy of ConfigVersion
  channel,     \* configurations on the way to the Collector
  cache,       \* the Collector's authorization cache
  certified,   \* the Collector holds a certificate that has not expired
  changes, faults,
  edition,     \* history: how often the assignments have changed
  overwritten, \* history: a rotation has overwritten a newer row
  lagging      \* history: servers whose assignments wait for an administrator

adminVars   == <<refreshing, deleting, rotating>>
syncVars    == <<stream, sent, channel, cache, certified>>
tableVars   == <<tag, binding, scope, status, version, open>>
historyVars == <<edition, overwritten, lagging>>
vars        == <<tableVars, adminVars, syncVars, changes, faults, historyVars>>

Config == [version : Nat, nodes : SUBSET Nodes, edition : Nat]

\* What the code needs its tables, messages and counters to be.
TypeOK ==
  /\ tag \in [Servers -> Tags \cup {NoTag}]
  /\ binding \in [Servers -> Nodes \cup {NoNode}]
  /\ scope \in Scopes
  /\ status \in {"enabled", "revoked", "deleted"}
  /\ version \in Nat
  /\ open \in SUBSET Nodes
  /\ refreshing \in SUBSET Servers
  /\ deleting \in SUBSET Servers
  /\ rotating \in SUBSET Nat
  /\ stream \in {"closed", "sending", "idle"}
  /\ sent \in Nat
  /\ channel \in Seq(Config)
  /\ cache \in Config
  /\ certified \in BOOLEAN
  /\ changes \in Nat
  /\ faults \in Nat
  /\ edition \in Nat
  /\ overwritten \in BOOLEAN
  /\ lagging \in SUBSET Servers

NoConfig == [version |-> 0, nodes |-> {}, edition |-> 0]

Init ==
  /\ tag \in [Servers -> Tags]
  /\ binding = [s \in Servers |-> NoNode]
  /\ scope \in Scopes
  /\ status = "enabled"
  /\ version = 1
  /\ open = {}
  /\ refreshing = {} /\ deleting = {} /\ rotating = {}
  /\ stream = "closed" /\ sent = 0 /\ channel = <<>>
  /\ cache = NoConfig /\ certified = FALSE
  /\ changes = 0 /\ faults = 0
  /\ edition = 0 /\ overwritten = FALSE /\ lagging = {}

----------------------------------------------------------------------------
(* The Primary's tables.                                                   *)

BoundTo(n) == {s \in Servers : binding[s] = n}

Included(s) == tag[s] \in scope

Change == changes < MaxChanges /\ changes' = changes + 1

\* A transaction that leaves these assignments open and has raised the version
\* by bumps.
Assign(nodes, bumps) ==
  /\ open' = nodes
  /\ version' = version + bumps
  /\ edition' = IF nodes = open THEN edition ELSE edition + 1

\* Mutant: the version is not raised with the assignments.
NoBump(condition) == 0

Bump(condition) == IF condition THEN 1 ELSE 0

\* syncCollectorAssignmentsForServer: the node of server s, which is the only one
\* of nodes this may change.
Desired(s) == status = "enabled" /\ Included(s)

\* Mutant: a node whose server has left the scope is kept.
SyncedAdds(nodes, s, n) == IF Desired(s) THEN nodes \cup {n} ELSE nodes

Synced(nodes, s, n) == IF Desired(s) THEN nodes \cup {n} ELSE nodes \ {n}

\* The servers that lag once the assignment of s to n was brought up to date.
\* Neither a disabled Collector nor a node with two servers is.
LaggingAfter(s, n, bound) ==
  IF bound \subseteq {s}
  THEN IF status = "enabled" THEN lagging \ {s} ELSE lagging \cup {s}
  ELSE lagging \cup bound

\* Mutant: the assignments of the node before stay open.
BindServerNodeKeepsPrevious(s, n) ==
  /\ Change
  /\ tag[s] # NoTag /\ binding[s] # n
  /\ binding' = [binding EXCEPT ![s] = n]
  /\ Assign(Synced(open, s, n), Bump(Synced(open, s, n) # open))
  /\ lagging' = LaggingAfter(s, n, BoundTo(n) \cup {s})
  /\ UNCHANGED <<tag, scope, status, adminVars, syncVars, faults, overwritten>>

\* Mutant: the node before is assigned.
BindServerNodeSyncsPrevious(s, n) ==
  /\ Change
  /\ tag[s] # NoTag /\ binding[s] # n
  /\ binding' = [binding EXCEPT ![s] = n]
  /\ Assign(Synced(open, s, binding[s]), Bump(TRUE))
  /\ lagging' = LaggingAfter(s, n, BoundTo(n) \cup {s})
  /\ UNCHANGED <<tag, scope, status, adminVars, syncVars, faults, overwritten>>

\* A Control stream or an enrolment binds server s to node n.
BindServerNode(s, n) ==
  /\ Change
  /\ tag[s] # NoTag /\ binding[s] # n
  /\ binding' = [binding EXCEPT ![s] = n]
  /\ LET left == open \ {binding[s]}
     IN  Assign(Synced(left, s, n),
                Bump(binding[s] \in open) + Bump(Synced(left, s, n) # left))
  /\ lagging' = LaggingAfter(s, n, BoundTo(n) \cup {s})
  /\ UNCHANGED <<tag, scope, status, adminVars, syncVars, faults, overwritten>>

\* An administrator changes the server: a first transaction saves it.
SaveServer(s, t) ==
  /\ Change
  /\ tag[s] # NoTag
  /\ tag' = [tag EXCEPT ![s] = t]
  /\ refreshing' = refreshing \cup {s}
  /\ lagging' = lagging \cup {s}
  /\ UNCHANGED <<binding, scope, status, version, open, deleting, rotating, syncVars,
                 faults, edition, overwritten>>

\* A second one refreshes its assignments; it fails when the server is gone.
RefreshAssignments(s) ==
  /\ s \in refreshing
  /\ refreshing' = refreshing \ {s}
  /\ IF tag[s] # NoTag /\ binding[s] # NoNode
     THEN LET n == binding[s]
          IN  /\ Assign(Synced(open, s, n), Bump(Synced(open, s, n) # open))
              /\ lagging' = LaggingAfter(s, n, BoundTo(n))
     ELSE UNCHANGED <<version, open, edition, lagging>>
  /\ UNCHANGED <<tag, binding, scope, status, deleting, rotating, syncVars, changes,
                 faults, overwritten>>

\* Deleting a server: its row goes first.
DeleteServer(s) ==
  /\ Change
  /\ tag[s] # NoTag
  /\ tag' = [tag EXCEPT ![s] = NoTag]
  /\ deleting' = deleting \cup {s}
  /\ lagging' = lagging \cup {s}
  /\ UNCHANGED <<binding, scope, status, version, open, refreshing, rotating, syncVars,
                 faults, edition, overwritten>>

\* Its binding and every assignment of the node follow.
EndServerNodeBinding(s) ==
  /\ s \in deleting
  /\ deleting' = deleting \ {s}
  /\ binding' = [binding EXCEPT ![s] = NoNode]
  /\ Assign(open \ {binding[s]}, Bump(binding[s] \in open))
  /\ UNCHANGED <<tag, scope, status, refreshing, rotating, syncVars, changes, faults,
                 overwritten, lagging>>

\* An administrator gives the Collector new scopes.  replaceCollectorScopes walks
\* through the current bindings and needs the server of each; of two servers with
\* the same node, the later one decides.
UpdateScope(new) ==
  /\ Change
  /\ status # "deleted"
  /\ \A s \in Servers : binding[s] # NoNode => tag[s] # NoTag
  /\ scope' = new
  /\ \E last \in [Nodes -> Servers] :
       /\ \A n \in Nodes : BoundTo(n) # {} => last[n] \in BoundTo(n)
       /\ Assign({n \in Nodes : IF BoundTo(n) = {} THEN n \in open ELSE tag[last[n]] \in new}, 1)
  /\ lagging' = {s \in lagging : binding[s] # NoNode /\ BoundTo(binding[s]) # {s}}
  /\ UNCHANGED <<tag, binding, status, adminVars, syncVars, faults, overwritten>>

\* Revoking or deleting the Collector closes all its assignments.
DisableCollector(as) ==
  /\ Change
  /\ status # "deleted"
  /\ status' = as
  /\ Assign({}, 1)
  /\ lagging' = Servers
  /\ UNCHANGED <<tag, binding, scope, adminVars, syncVars, faults, overwritten>>

\* Rotating the token reads the Collector and saves all its columns, outside of a
\* transaction.  Assignments are left as they are.
RotateReads ==
  /\ Change
  /\ rotating = {} /\ status # "deleted"
  /\ rotating' = {version}
  /\ UNCHANGED <<tableVars, refreshing, deleting, syncVars, faults, historyVars>>

RotateSaves ==
  /\ \E v \in rotating :
       /\ version' = v + 1
       /\ overwritten' = (overwritten \/ version # v)
  /\ rotating' = {}
  /\ status' = "enabled"
  /\ UNCHANGED <<tag, binding, scope, open, refreshing, deleting, syncVars, changes,
                 faults, edition, lagging>>

----------------------------------------------------------------------------
(* The Sync stream.                                                        *)

\* Without a certificate the Collector registers first.  It caches the version it
\* is told, without any assignment.
RegisterWithPrimary ==
  /\ stream = "closed" /\ ~certified /\ status = "enabled"
  /\ cache' = [NoConfig EXCEPT !.version = version]
  /\ certified' = TRUE
  /\ UNCHANGED <<tableVars, adminVars, stream, sent, channel, changes, faults,
                 historyVars>>

\* The hello: the Primary identifies the Collector and keeps the row it has read.
OpenStream ==
  /\ stream = "closed" /\ certified /\ status = "enabled"
  /\ stream' = "sending"
  /\ sent' = version
  /\ UNCHANGED <<tableVars, adminVars, channel, cache, certified, changes, faults,
                 historyVars>>

\* sendCollectorConfig reads the assignments after the version.
SendConfig ==
  /\ stream = "sending"
  /\ stream' = "idle"
  /\ channel' = Append(channel, [version |-> sent, nodes |-> open, edition |-> edition])
  /\ UNCHANGED <<tableVars, adminVars, sent, cache, certified, changes, faults,
                 historyVars>>

\* Mutant: a single step of the version is missed.
HandleRuntimeMissesOne ==
  /\ stream = "idle" /\ version > sent + 1
  /\ stream' = "sending" /\ sent' = version
  /\ UNCHANGED <<tableVars, adminVars, channel, cache, certified, changes, faults, historyVars>>

\* The Collector's ticker sends a CollectorRuntime again and again.  The handler reads
\* the Collector's row and sends a configuration if the version is another one.
HandleRuntime ==
  /\ stream = "idle" /\ version # sent
  /\ stream' = "sending" /\ sent' = version
  /\ UNCHANGED <<tableVars, adminVars, channel, cache, certified, changes, faults, historyVars>>

\* Mutant: responses are handled as they are scheduled.
SaveAuthorizationUnordered ==
  /\ \E i \in 1 .. Len(channel) :
       /\ cache' = channel[i]
       /\ channel' = SubSeq(channel, 1, i - 1) \o SubSeq(channel, i + 1, Len(channel))
  /\ UNCHANGED <<tableVars, adminVars, stream, sent, certified, changes, faults,
                 historyVars>>

\* SaveAuthorization replaces the cache in one transaction.
SaveAuthorization ==
  /\ channel # <<>>
  /\ cache' = Head(channel)
  /\ channel' = Tail(channel)
  /\ UNCHANGED <<tableVars, adminVars, stream, sent, certified, changes, faults,
                 historyVars>>

----------------------------------------------------------------------------
(* Faults.                                                                 *)

Fault == faults < MaxFaults /\ faults' = faults + 1

CloseStream ==
  /\ stream' = "closed" /\ channel' = <<>>
  /\ UNCHANGED sent

StreamBreaks ==
  /\ Fault
  /\ stream # "closed"
  /\ CloseStream
  /\ UNCHANGED <<tableVars, adminVars, cache, certified, changes, historyVars>>

\* The Primary stops: its handlers end wherever they are.
PrimaryCrashes ==
  /\ Fault
  /\ refreshing' = {} /\ deleting' = {} /\ rotating' = {}
  /\ CloseStream
  /\ UNCHANGED <<tableVars, cache, certified, changes, historyVars>>

\* A Collector that was cut off for long comes back with an expired certificate.
CertificateExpires ==
  /\ Fault
  /\ certified
  /\ certified' = FALSE
  /\ UNCHANGED <<tableVars, adminVars, stream, sent, channel, cache, changes,
                 historyVars>>

----------------------------------------------------------------------------
Administer ==
  \/ \E s \in Servers, n \in Nodes : BindServerNode(s, n)
  \/ \E s \in Servers, t \in Tags : SaveServer(s, t)
  \/ \E s \in Servers : RefreshAssignments(s) \/ DeleteServer(s) \/ EndServerNodeBinding(s)
  \/ \E new \in Scopes : UpdateScope(new)
  \/ \E as \in {"revoked", "deleted"} : DisableCollector(as)
  \/ RotateReads
  \/ RotateSaves

Sync == RegisterWithPrimary \/ OpenStream \/ SendConfig \/ HandleRuntime \/ SaveAuthorization

Next == Administer \/ Sync \/ StreamBreaks \/ PrimaryCrashes \/ CertificateExpires

Spec == Init /\ [][Next]_vars

\* syncLoop connects again every ten seconds and its ticker sends a Runtime every
\* fifteen, which the Primary handles; the Collector saves what it receives.
FairSpec ==
  /\ Spec
  /\ WF_vars(RegisterWithPrimary) /\ WF_vars(OpenStream) /\ WF_vars(SendConfig)
  /\ WF_vars(HandleRuntime) /\ WF_vars(SaveAuthorization)

----------------------------------------------------------------------------
(* Properties.                                                             *)

\* The configuration that the Collector will end up with if nothing more is sent.
Latest == IF channel = <<>> THEN cache ELSE channel[Len(channel)]

\* Comparing versions is enough (Sync, collector_primary.go): when the handler finds
\* the version it has sent, the assignments it has sent are those of the tables,
\* although it read them after the version and in another transaction.
EqualVersionsAgree ==
  stream = "idle" /\ sent = version /\ ~overwritten => Latest.nodes = open

\* Assignments follow bindings and scopes through every order of binding, moving and
\* deleting servers and of giving scopes: a bound node is assigned to an enabled
\* Collector if and only if its server is in scope (syncCollectorAssignmentsForServer
\* and replaceCollectorScopes).  Exempt are servers between the two transactions of
\* their handler, or left there by a crash; the time between the rotation of a
\* disabled Collector and its next scope; and nodes bound to two servers.
ScopesAreApplied ==
  status = "enabled" =>
    \A s \in Servers : binding[s] # NoNode /\ s \notin lagging => (binding[s] \in open <=> Included(s))

\* No assignment outlives the last binding of its node: closing, moving and syncing
\* assignments never leave one behind that nobody would close (closeObserverAssignments).
AssignedNodesAreBound == \A n \in open : BoundTo(n) # {}

\* What the Collector has or is about to have.
Configs == {cache} \cup {channel[i] : i \in DOMAIN channel}

\* The version that the Collector reports in its hello tells what it serves: if it is that
\* of the tables so are the assignments, in the cache and on the stream, at any moment and
\* across streams, unless the cache is what a registration left, which has the version
\* without the assignments (registerWithPrimary, sendCollectorConfig).
VersionTellsAssignments ==
  ~overwritten =>
    \A c \in Configs :
      c.version = version => c.nodes = open \/ c = [NoConfig EXCEPT !.version = version]

\* A deleted Collector is assigned to nobody, and no binding, move, saved server or
\* handler that was under way assigns it again (syncCollectorAssignmentsForServer looks
\* at deleted and revoked).
DeletedServesNobody == status = "deleted" => open = {}

\* What the Collector caches is never older than what it cached before, whatever
\* streams break in between; only a registration empties the cache.
CacheAdvances == [][cache'.edition >= cache.edition \/ cache' = [NoConfig EXCEPT !.version = cache'.version]]_vars

\* The Collector ends up with the assignments of the Primary once changes and faults
\* cease, unless it is disabled or a rotation has overwritten a newer version.
ConfigArrives == <>[](status = "enabled" /\ ~overwritten => cache.nodes = open)
=============================================================================
