------------------------------ MODULE Telemetry ------------------------------
(***************************************************************************)
(* The facts that travel from an Agent through a Collector to the Primary, *)
(* shared by the modules of the replication pipeline.                      *)
(*                                                                         *)
(* A fact is what one row of the Collector's Outbox carries: a telemetry   *)
(* event, the observation "this Collector saw that event", a sequence gap, *)
(* an observer health sample, or a data-loss fact.  All five have the same *)
(* shape, so that a table of the code is a set of facts of one kind:       *)
(*   session     the (node UUID, session ID) pair the sequence belongs to  *)
(*   start, end  the sequences it accounts for (equal for an event)        *)
(*   gid         0 for what the Agent named; the random 16-byte identifier *)
(*               the Collector draws for a gap, sample or loss fact of its *)
(*               own is the (never reused) spool id it is derived from     *)
(***************************************************************************)
EXTENDS Integers, Sequences, FiniteSets

CONSTANTS
  Sessions,      \* (node, session) pairs
  NoSession,     \* the session of a fact that belongs to none
  HotEvents      \* <<session, sequence>> of the HEARTBEAT, STATE and
                 \* STATE_ROLLUP events, which the Primary does not persist

Sequence == Nat \ {0}

Event(s, n)       == [kind |-> "event", session |-> s, start |-> n, end |-> n, gid |-> 0]
Observation(s, n) == [kind |-> "observation", session |-> s, start |-> n, end |-> n, gid |-> 0]
Gap(s, a, b, g)   == [kind |-> "gap", session |-> s, start |-> a, end |-> b, gid |-> g]
Health(g)         == [kind |-> "health", session |-> NoSession, start |-> 0, end |-> 0, gid |-> g]
DataLoss(g)       == [kind |-> "data_loss", session |-> NoSession, start |-> 0, end |-> 0, gid |-> g]

Kinds == {"event", "observation", "gap", "health", "data_loss"}
Fact  == [kind : Kinds, session : Sessions \cup {NoSession}, start : Nat, end : Nat, gid : Nat]

\* What an Agent may put in a TelemetryBatch and pass validation.
Record ==
  {r \in Fact : /\ r.session \in Sessions /\ r.gid = 0
                /\ \/ r.kind = "event" /\ r.start \in Sequence /\ r.end = r.start
                   \/ r.kind = "gap" /\ r.start \in Sequence /\ r.end >= r.start}

EventOf(f)       == Event(f.session, f.start)
ObservationOf(f) == Observation(f.session, f.start)

\* Whether the Primary keeps a row for the event: persistTelemetryEvent.
Persistent(f) == <<f.session, f.start>> \notin HotEvents

Accounts(f) == f.kind \in {"event", "gap"}

\* Sequence n of session s is accounted for in a set of facts: the event is
\* there, or a gap that declares it lost.
Covered(facts, s, n) ==
  \E f \in facts : Accounts(f) /\ f.session = s /\ f.start <= n /\ n <= f.end
==============================================================================
