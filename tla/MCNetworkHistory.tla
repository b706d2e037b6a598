-------------------------- MODULE MCNetworkHistory --------------------------
(***************************************************************************)
(* An instance of NetworkHistory for TLC: two servers, one with a tile,    *)
(* and two slots, so that responses may overtake each other while other    *)
(* requests wait.                                                          *)
(***************************************************************************)
EXTENDS NetworkHistory

CONSTANTS s1, s2

MCServers == {s1, s2}
MCTiles   == {s1}
=============================================================================
