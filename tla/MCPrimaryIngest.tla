--------------------------- MODULE MCPrimaryIngest ---------------------------
(***************************************************************************)
(* An instance of PrimaryIngest for TLC: one Agent session of four         *)
(* sequences, of which the third is not persisted; a Collector delivers    *)
(* the second as an event or declares it lost.                             *)
(***************************************************************************)
EXTENDS PrimaryIngest

CONSTANT s1

MCSessions          == {s1}
MCAgentRecords      == {Event(s1, 1), Event(s1, 3), Event(s1, 4), Gap(s1, 2, 3, 0)}
MCReplicatedRecords == {Event(s1, 2), Gap(s1, 2, 2, 0)}
MCHotEvents         == {<<s1, 3>>}
==============================================================================
