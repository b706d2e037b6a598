---------------------------- MODULE MCConfigSync ----------------------------
(***************************************************************************)
(* An instance of ConfigSync for TLC: two servers, which may come to share *)
(* a node, and two tags, one of which every scope includes.                *)
(***************************************************************************)
EXTENDS ConfigSync

CONSTANTS s1, s2, n1, n2, t1, t2

MCServers == {s1, s2}
MCNodes   == {n1, n2}
MCTags    == {t1, t2}
MCScopes  == {{t1}, {t1, t2}}
=============================================================================
