---------------------------- MODULE MCHostAccess ----------------------------
(***************************************************************************)
(* Small instance of HostAccess: one track, two sessions, and a bound on   *)
(* the leases that are kept at a time.                                     *)
(***************************************************************************)
EXTENDS HostAccess

CONSTANTS video, MaxLeases
MCTracks == {video}

FewLeases == Cardinality(leases) =< MaxLeases
=============================================================================
