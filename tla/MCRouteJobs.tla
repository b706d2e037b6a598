---------------------------- MODULE MCRouteJobs ----------------------------
(***************************************************************************)
(* An instance of RouteJobs for TLC: two keys, so that a queue of one may  *)
(* be full, two jobs and one route that comes due in between.              *)
(***************************************************************************)
EXTENDS RouteJobs

CONSTANTS k1, k2, a1

MCKeys   == {k1, k2}
MCAdmins == {a1}
MCCached == {k1}
=============================================================================
