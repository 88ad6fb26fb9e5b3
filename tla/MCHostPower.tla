----------------------------- MODULE MCHostPower -----------------------------
(***************************************************************************)
(* A small instance of HostPower: one controller, one call that may be     *)
(* delivered again, and reboots.                                           *)
(***************************************************************************)
EXTENDS HostPower

NoTracks == {}
OneCall == {"call"}

\* No guard of the room and no property of the power requests looks at what
\* is shown of a session, at what became of its viewers and reports, at the
\* admission number while no lease carries one, or at the room's own leases
\* once they were taken.
View == <<decision, media, gate, session, held, stopped, minted,
          {l \in leases : l.session # 0}, pc, then, notify, room, slots,
          handle, recent, holders, revoking, acted, pushes, rooms,
          incidents>>
=============================================================================
