---------------------------- MODULE PrimaryReplica ----------------------------
(***************************************************************************)
(* The Primary's side of replication (Store.Replicate in                   *)
(* service/telemetry/store.go): one transaction per batch, answered from   *)
(* the receipt when the same batch was committed before.                   *)
(***************************************************************************)
EXTENDS Telemetry

CONSTANT
  Unclassified      \* <<session, sequence>> of events without type or priority:
                    \* valid to the Collector, invalid to the Primary

VARIABLES
  replicated,       \* facts applied: rows of the telemetry tables, the path
                    \* evidence of the observations, and (in memory, in rollups
                    \* or dropped by design) the events that are not persisted
  receipts          \* CollectorReplicationReceipt rows

primaryVars == <<replicated, receipts>>

\* A ReplicationBatch: the batch's identity, the last spool id in it, its facts.
Batch == [session : Nat, sequence : Sequence, through : Nat, facts : SUBSET Fact]
Ack   == [session : Nat, sequence : Sequence, through : Nat]

PrimaryTypeOK ==
  /\ replicated \subseteq Fact
  /\ receipts \subseteq Ack

PrimaryInit ==
  /\ replicated = {}
  /\ receipts = {}

ReceiptsOf(b) == {r \in receipts : r.session = b.session /\ r.sequence = b.sequence}

\* validateEvent of the Primary accepts every event of the batch.
Valid(b) == \A f \in b.facts : f.kind = "event" => <<f.session, f.start>> \notin Unclassified

\* Mutant: only the events of the batch itself are looked at.
ResolvedInBatch(b) == {o \in b.facts : o.kind = "observation" /\ EventOf(o) \in b.facts}

\* An observation counts only when its event is in the same batch or has a row
\* in the event table; otherwise the loop goes on without it.
Resolved(b) ==
  {o \in b.facts : /\ o.kind = "observation"
                   /\ \/ EventOf(o) \in b.facts
                      \/ Persistent(o) /\ EventOf(o) \in replicated}

\* Mutant: a duplicate is answered with what it asks for, not with the receipt.
ReplicateTrusts(b, committed) ==
  /\ committed = b.through
  /\ \/ ReceiptsOf(b) # {} /\ UNCHANGED primaryVars
     \/ /\ ReceiptsOf(b) = {} /\ Valid(b)
        /\ replicated' = replicated \cup {f \in b.facts : f.kind # "observation"} \cup Resolved(b)
        /\ receipts' = receipts \cup {[session |-> b.session, sequence |-> b.sequence, through |-> b.through]}

\* The transaction, answering with the spool id it has committed through.
Replicate(b, committed) ==
  \/ /\ \E r \in ReceiptsOf(b) : committed = r.through
     /\ UNCHANGED primaryVars
  \/ /\ ReceiptsOf(b) = {}
     /\ Valid(b)
     /\ committed = b.through
     /\ replicated' = replicated \cup {f \in b.facts : f.kind # "observation"} \cup Resolved(b)
     /\ receipts' = receipts \cup {[session |-> b.session, sequence |-> b.sequence, through |-> b.through]}
==============================================================================
