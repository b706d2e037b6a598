---------------------------- MODULE MCReplication ----------------------------
(***************************************************************************)
(* Instances of Replication for TLC: one Agent session, in which the Agent *)
(* may replace a range of sequences by a gap.  The longer session holds an *)
(* event that the Collector accepts and the Primary rejects.               *)
(***************************************************************************)
EXTENDS Replication

CONSTANT s1

MCSessions      == {s1}
MCAgentRecords  == {Event(s1, 1), Event(s1, 2), Gap(s1, 2, 3, 0)}
MCLongerSession == MCAgentRecords \cup {Event(s1, 3)}
MCHotEvents     == {<<s1, 1>>}
MCUnclassified  == {<<s1, 3>>}
==============================================================================
