----------------------------- MODULE HostAccess -----------------------------
(***************************************************************************)
(* Who may control this machine: the ownership record and the leases of    *)
(* features/host/access.rs, in the process that owns the online room.      *)
(*                                                                         *)
(* The record is guarded by one mutex, so every operation below is one     *)
(* step.  Leases are values that callbacks, workers and peers keep for as  *)
(* long as they like; a lease is only ever checked against the counters    *)
(* of the record.  The module is the most general client of that code: any *)
(* lease that was ever handed out may be used at any time, by anyone, in   *)
(* any order.  HostRoom is the client the program really has.              *)
(*                                                                         *)
(* A session id (a uuid in the code) is the number of the session.  Left   *)
(* out: texts, names, capability caches, media statistics and whether the  *)
(* interface shows the machine as ready.                                   *)
(***************************************************************************)
EXTENDS Naturals, FiniteSets

CONSTANTS Tracks,         \* video tracks a session may publish
          NoTrack,        \* the track of a lease that is not a stream's
          MaxPermission,  \* bound on the permission generations of a run
          MaxSessions,    \* bound on the sessions of a run
          MaxStream,      \* bound on the stream generations of one track
          MaxAdmission,   \* bound on the assistance admissions of a run
          Features        \* of "update", "power", "assistance": those in use

ASSUME BoundsAssumption ==
    /\ NoTrack \notin Tracks
    /\ MaxPermission \in Nat
    /\ MaxSessions \in Nat
    /\ MaxStream \in Nat
    /\ MaxAdmission \in Nat
    /\ Features \subseteq {"update", "power", "assistance"}

VARIABLES
    permission,     \* generation of the local user's decision
    media,          \* generation of the session owner
    allowed,        \* "allow this machine to be controlled"
    active,         \* the login generation still stands
    updating,       \* a local update closed admission
    remotePower,    \* the remote power switch
    powerExecuting, \* a remote power action is being carried out
    desired,        \* the request published to the room, 0 for None
    session,        \* status.connection and session_active, 0 for none
    assistance,     \* status.assistance
    connected,      \* status.connected
    since,          \* connected_since is set
    streams,        \* stream_generations, 0 for a missing entry
    admission,      \* number of the present assistance admission token
    admitted,       \* assistance is enabled and ready
    leases,         \* every lease handed out to a callback, worker or room
    held,           \* the session owners (SessionLease) not dropped yet
    stopped,        \* sessions whose peer token is cancelled
    minted,         \* how many sessions were started
    wentLive,       \* history: sessions that were connected at some time
    reports         \* history: how often each session's end was reported

decision == <<permission, allowed, active, desired>>
gate     == <<updating, remotePower, powerExecuting>>
shown    == <<session, assistance, connected, since, streams>>
assist   == <<admission, admitted>>
handed   == <<leases, held, stopped, minted>>
history  == <<wentLive, reports>>
accessVars == <<decision, media, gate, shown, assist, handed, history>>

\* A lease carries generations that were handed out before it.
Lease == [permission : 1..permission, media : 0..media,
          session : 0..minted, token : 0..admission,
          track : Tracks \cup {NoTrack}, stream : Nat, stop : BOOLEAN]

-----------------------------------------------------------------------------
(***************************************************************************)
(* The checks every use of a lease makes.  media 0 and stream 0 stand for  *)
(* None, token 0 for a lease that is not an assistance one.                *)
(***************************************************************************)
CurrentOwner(l) ==
    /\ active
    /\ allowed
    /\ l.permission = permission
    /\ l.media # 0 => l.media = media
    /\ l.stream # 0 => streams[l.track] = l.stream

Current(l) ==
    /\ CurrentOwner(l)
    /\ l.stop => l.session \notin stopped
    /\ l.token # 0 => l.token = admission

(***************************************************************************)
(* finish_session: a session that was connected leaves one ended           *)
(* connection behind, and everything shown about it goes.                  *)
(***************************************************************************)
ReportEnd ==
    reports' = IF since /\ session # 0
               THEN [reports EXCEPT ![session] = @ + 1]
               ELSE reports

\* Mutation of ClearShown: the connection clock keeps running.
ClearShownKeepsClock ==
    /\ connected' = FALSE
    /\ since' = since
    /\ streams' = [t \in Tracks |-> 0]

ClearShown ==
    /\ connected' = FALSE
    /\ since' = FALSE
    /\ streams' = [t \in Tracks |-> 0]

ClearSession ==
    /\ session' = 0
    /\ assistance' = FALSE
    /\ ClearShown

FinishSession == ReportEnd /\ ClearSession /\ UNCHANGED wentLive

-----------------------------------------------------------------------------
Init ==
    /\ permission = 0
    /\ media = 0
    /\ allowed = FALSE
    /\ active = TRUE
    /\ updating = FALSE
    /\ remotePower = FALSE
    /\ powerExecuting = FALSE
    /\ desired = 0
    /\ session = 0
    /\ assistance = FALSE
    /\ connected = FALSE
    /\ since = FALSE
    /\ streams = [t \in Tracks |-> 0]
    /\ admission = 1
    /\ admitted = FALSE
    /\ leases = {}
    /\ held = {}
    /\ stopped = {}
    /\ minted = 0
    /\ wentLive = {}
    /\ reports = [s \in 1..MaxSessions |-> 0]

(***************************************************************************)
(* The local user's decisions.  Each starts a new permission generation.   *)
(***************************************************************************)
NextPermission ==
    /\ permission < MaxPermission
    /\ permission' = permission + 1

\* The request the room acts on carries the generation it was made in.
Publish(on) == desired' = IF on THEN permission' ELSE 0

SetAllowed(b) ==
    /\ active
    /\ allowed # b
    /\ NextPermission
    /\ allowed' = b
    /\ FinishSession
    /\ Publish(b)
    /\ UNCHANGED <<active, media, gate, assist, handed>>

Retry ==
    /\ active
    /\ allowed
    /\ NextPermission
    /\ FinishSession
    /\ Publish(TRUE)
    /\ UNCHANGED <<active, allowed, media, gate, assist, handed>>

\* Assistance is made unavailable first; nothing can be admitted between the
\* two locks that the new permission generation would not retire.
RevokeAdmission ==
    /\ admission' = admission + 1
    /\ admitted' = FALSE

Retire ==
    /\ active
    /\ RevokeAdmission
    /\ NextPermission
    /\ active' = FALSE
    /\ FinishSession
    /\ Publish(FALSE)
    /\ UNCHANGED <<allowed, media, gate, handed>>

RoomClosed ==
    /\ RevokeAdmission
    /\ NextPermission
    /\ FinishSession
    /\ Publish(active /\ allowed)
    /\ UNCHANGED <<active, allowed, media, gate, handed>>

\* The session is the one the user was shown, which may be gone by now.
DisconnectSession(s) ==
    /\ active
    /\ session = s
    /\ s # 0
    /\ media' = media + 1
    /\ FinishSession
    /\ UNCHANGED <<decision, gate, assist, handed>>

(***************************************************************************)
(* The gates a local update and a remote power action close.               *)
(***************************************************************************)
PrepareUpdate ==
    /\ "update" \in Features
    /\ ~updating
    /\ updating' = TRUE
    /\ UNCHANGED <<decision, media, remotePower, powerExecuting, shown,
                   assist, handed, history>>

CancelUpdate ==
    /\ updating
    /\ updating' = FALSE
    /\ UNCHANGED <<decision, media, remotePower, powerExecuting, shown,
                   assist, handed, history>>

SetPowerAllowed(b) ==
    /\ "power" \in Features
    /\ active
    /\ remotePower # b
    /\ remotePower' = b
    /\ powerExecuting' = FALSE
    /\ UNCHANGED <<decision, media, updating, shown, assist, handed,
                   history>>

BeginPower ==
    /\ active
    /\ allowed
    /\ remotePower
    /\ ~updating
    /\ powerExecuting' = TRUE
    /\ UNCHANGED <<decision, media, updating, remotePower, shown,
                   assist, handed, history>>

PowerResult ==
    /\ powerExecuting' = FALSE
    /\ UNCHANGED <<decision, media, updating, remotePower, shown,
                   assist, handed, history>>

(***************************************************************************)
(* Remote assistance: its admission token is cancelled whenever the user   *)
(* disables it, changes its mode, or its service stops.                    *)
(***************************************************************************)
AssistReady ==
    /\ "assistance" \in Features
    /\ active
    /\ allowed
    /\ ~admitted
    /\ admitted' = TRUE
    /\ UNCHANGED <<decision, media, gate, shown, admission, handed,
                   history>>

AssistConfigure(enabled) ==
    /\ "assistance" \in Features
    /\ admission < MaxAdmission
    /\ admission' = admission + 1
    /\ admitted' = (admitted /\ enabled)
    /\ UNCHANGED <<decision, media, gate, shown, handed, history>>

-----------------------------------------------------------------------------
(***************************************************************************)
(* Leases.                                                                 *)
(***************************************************************************)
RoomLease(generation) ==
    [permission |-> generation, media |-> 0, session |-> 0, token |-> 0,
     track |-> NoTrack, stream |-> 0, stop |-> FALSE]

\* The request was read from the watch channel some time ago, so its
\* generation is any one published so far.
TakeRoomLease(generation) ==
    /\ generation \in 1..permission
    /\ leases' = leases \cup {RoomLease(generation)}
    /\ UNCHANGED <<decision, media, gate, shown, assist, held, stopped,
                   minted, history>>

ForAssistance(l) ==
    /\ l.media = 0
    /\ l.token = 0
    /\ admitted
    /\ leases' = leases \cup {[l EXCEPT !.token = admission]}
    /\ UNCHANGED <<decision, media, gate, shown, assist, held, stopped,
                   minted, history>>

SessionLease(l, owner, s) ==
    [l EXCEPT !.media = owner, !.session = s]

\* Mutation of NextOwner: a new session shares the owner generation.
SameOwner == media' = media

NextOwner == media' = media + 1

PeerLease(l) ==
    /\ l.media = 0
    /\ minted < MaxSessions
    /\ Current(l)
    /\ ~updating
    /\ ~powerExecuting
    /\ NextOwner
    /\ minted' = minted + 1
    /\ ReportEnd
    /\ session' = minted'
    /\ assistance' = (l.token # 0)
    /\ ClearShown
    /\ held' = held \cup {SessionLease(l, media', minted')}
    /\ leases' = leases \cup
                 {[SessionLease(l, media', minted') EXCEPT !.stop = TRUE]}
    /\ UNCHANGED <<decision, gate, assist, stopped, wentLive>>

BeginStream(l, t) ==
    /\ l.media # 0
    /\ l.stream = 0
    /\ Current(l)
    /\ streams[t] < MaxStream
    /\ streams' = [streams EXCEPT ![t] = @ + 1]
    /\ leases' = leases \cup {[l EXCEPT !.track = t, !.stream = streams'[t]]}
    /\ UNCHANGED <<decision, media, gate, session, assistance, connected,
                   since, assist, held, stopped, minted, history>>

ClearStream(l) ==
    /\ l.stream # 0
    /\ CurrentOwner(l)
    /\ streams' = [streams EXCEPT ![l.track] = @ + 1]
    /\ UNCHANGED <<decision, media, gate, session, assistance, connected,
                   since, assist, handed, history>>

\* Only a peer reports a connection; the room only ever reports none.
Show(c) ==
    /\ connected' = c
    /\ since' = (since \/ (c /\ session # 0))
    /\ wentLive' = IF c /\ session # 0 THEN wentLive \cup {session}
                                       ELSE wentLive
    /\ UNCHANGED <<decision, media, gate, session, assistance, streams,
                   assist, handed, reports>>

Update(l, c) ==
    /\ Current(l)
    /\ c => l.media # 0
    /\ Show(c)

\* The room shows "not controllable" without a lease.
UpdateHandle == Show(FALSE)

CancelPeer(s) ==
    /\ s \notin stopped
    /\ stopped' = stopped \cup {s}
    /\ UNCHANGED <<decision, media, gate, shown, assist, leases, held,
                   minted, history>>

\* Mutation of EndOwned: the session ends, its owner generation does not.
EndOwnedKeepsMedia(l) ==
    IF CurrentOwner(l)
    THEN FinishSession /\ UNCHANGED media
    ELSE UNCHANGED <<media, shown, history>>

\* Mutation of EndOwned: the end gives the owner generation back.
EndOwnedRestoresMedia(l) ==
    IF CurrentOwner(l)
    THEN media' = media - 1 /\ FinishSession
    ELSE UNCHANGED <<media, shown, history>>

EndOwned(l) ==
    IF CurrentOwner(l)
    THEN media' = media + 1 /\ FinishSession
    ELSE UNCHANGED <<media, shown, history>>

\* The user backend of the session exited: its clone ends the session.
FinishLease(l) ==
    /\ l.media # 0
    /\ l.stream = 0
    /\ EndOwned(l)
    /\ UNCHANGED <<decision, gate, assist, handed>>

DropOwner(l) ==
    /\ held' = held \ {l}
    /\ EndOwned(l)
    /\ UNCHANGED <<decision, gate, assist, leases, stopped, minted>>

-----------------------------------------------------------------------------
UserStep ==
    \/ \E b \in BOOLEAN : SetAllowed(b)
    \/ Retry
    \/ Retire
    \/ RoomClosed
    \/ \E s \in 1..minted : DisconnectSession(s)

GateStep ==
    \/ PrepareUpdate
    \/ CancelUpdate
    \/ \E b \in BOOLEAN : SetPowerAllowed(b)
    \/ BeginPower
    \/ PowerResult
    \/ AssistReady
    \/ \E b \in BOOLEAN : AssistConfigure(b)

LeaseStep(l) ==
    \/ ForAssistance(l)
    \/ PeerLease(l)
    \/ \E t \in Tracks : BeginStream(l, t)
    \/ ClearStream(l)
    \/ \E c \in BOOLEAN : Update(l, c)
    \/ FinishLease(l)

Next ==
    \/ UserStep
    \/ GateStep
    \/ \E g \in 1..permission : TakeRoomLease(g)
    \/ \E l \in leases : LeaseStep(l)
    \/ UpdateHandle
    \/ \E s \in 1..minted : CancelPeer(s)
    \/ \E l \in held : DropOwner(l)

Spec == Init /\ [][Next]_accessVars

-----------------------------------------------------------------------------
(***************************************************************************)
(* Every counter, lease and history entry has its type.                    *)
(***************************************************************************)
FlagsOK ==
    /\ allowed \in BOOLEAN /\ active \in BOOLEAN
    /\ updating \in BOOLEAN /\ remotePower \in BOOLEAN
    /\ powerExecuting \in BOOLEAN
    /\ assistance \in BOOLEAN /\ connected \in BOOLEAN
    /\ since \in BOOLEAN
    /\ admitted \in BOOLEAN

NumbersOK ==
    /\ permission \in Nat /\ media \in Nat /\ desired \in Nat
    /\ session \in 0..MaxSessions /\ minted \in 0..MaxSessions
    /\ streams \in [Tracks -> Nat]
    /\ admission \in Nat \ {0}
    /\ leases \subseteq Lease /\ held \subseteq Lease
    /\ stopped \subseteq 1..MaxSessions
    /\ wentLive \subseteq 1..MaxSessions
    /\ reports \in [1..MaxSessions -> Nat]

TypeOK == FlagsOK /\ NumbersOK

(***************************************************************************)
(* The session the user is shown always has an owner that is still alive   *)
(* and can still end it, and an owner that can still act is the owner of   *)
(* the session shown: no ghost session, no session without a notice.       *)
(***************************************************************************)
SessionHasOwner ==
    /\ session # 0 =>
         \E l \in held : l.session = session /\ CurrentOwner(l)
    /\ \A l \in held : CurrentOwner(l) => l.session = session

(***************************************************************************)
(* Two leases of different sessions are never both accepted, whoever kept  *)
(* them and however late they are used.                                    *)
(***************************************************************************)
OneSessionAccepted ==
    \A l, m \in leases \cup held :
        /\ l.session # 0 /\ m.session # 0
        /\ CurrentOwner(l) /\ CurrentOwner(m)
        => l.session = m.session

(***************************************************************************)
(* A session that was connected is reported as ended exactly once, after   *)
(* it ended; one that never connected is not reported.                     *)
(***************************************************************************)
EndReportedOnce ==
    \A s \in 1..MaxSessions :
        reports[s] = IF s \in wentLive /\ s # session THEN 1 ELSE 0

(***************************************************************************)
(* A lease that was refused once is refused for ever: neither a later      *)
(* permission, nor a later session, nor stream generations that start      *)
(* again from nothing bring a stale callback back.                         *)
(***************************************************************************)
RefusedForEver ==
    [][\A l \in leases : ~Current(l) => ~Current(l)']_accessVars
=============================================================================
