--------------------------- MODULE MCAvailability ---------------------------
(***************************************************************************)
(* An instance of Availability for TLC: the Primary and one Collector,     *)
(* buckets of two instants; the node is bound within the second bucket.    *)
(***************************************************************************)
EXTENDS Availability

CONSTANT c1

Fact(b, v) == [observer |-> c1, bucket |-> b, view |-> v]

MCCollectors == {c1}
MCFacts      == {Fact(4, "seen"), Fact(4, "unhealthy")}

\* One late replay: enough for an incident to be corrected after the fact.
MCLateFact   == {Fact(4, "seen")}
==============================================================================
