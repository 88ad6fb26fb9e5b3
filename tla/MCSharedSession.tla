---------------------------- MODULE MCSharedSession ----------------------------
(* Two windows and a service on one device, so that a viewer follows another *)
(* in a session the service holds, with sessions and logins enough to        *)
(* replace each once.  The windows are alike.                                *)
EXTENDS SharedSession, TLC

CONSTANTS v1, v2

AlikeViewers == Permutations({v1, v2})
==============================================================================
