----------------------------- MODULE MCHostRoom -----------------------------
(***************************************************************************)
(* Small instances of HostRoom: sessions without video tracks.             *)
(***************************************************************************)
EXTENDS HostRoom

NoTracks == {}
=============================================================================
