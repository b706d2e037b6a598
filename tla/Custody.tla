------------------------------- MODULE Custody -------------------------------
(***************************************************************************)
(* What the Collector promises, without tables, batches or streams: for a  *)
(* sequence it has acknowledged to an Agent there is always someone who    *)
(* answers for it.  The Collector answers while it holds the sequence, the *)
(* Primary answers for good once it is settled there, and the Collector    *)
(* lets go only of what is settled.  "Accounted for" covers a gap that     *)
(* declares the sequence lost; dropping it without a trace is no step.     *)
(***************************************************************************)
CONSTANT Keys       \* <<session, sequence>> pairs

VARIABLES
  acked,            \* acknowledged to the Agent
  held,             \* accounted for in the Collector's Outbox
  settled           \* accounted for at the Primary

vars == <<acked, held, settled>>

Init == acked = {} /\ held = {} /\ settled = {}

\* The Collector takes sequences over and acknowledges some it answers for.
Accept ==
  /\ held \subseteq held' /\ held' \subseteq Keys
  /\ acked \subseteq acked' /\ acked' \subseteq held' \cup settled
  /\ UNCHANGED settled

\* The Primary commits some of what the Collector holds.
HandOver ==
  /\ settled \subseteq settled' /\ settled' \subseteq settled \cup held
  /\ UNCHANGED <<acked, held>>

\* The Collector forgets some of what the Primary has.
Release ==
  /\ held' \subseteq held /\ held \subseteq held' \cup settled
  /\ UNCHANGED <<acked, settled>>

Next == Accept \/ HandOver \/ Release

Spec == Init /\ [][Next]_vars

\* Accountable: nothing acknowledged is without an owner.
Accountable == acked \subseteq held \cup settled
==============================================================================
