------------------------------ MODULE HostRoom ------------------------------
(***************************************************************************)
(* The host role of the online room: the actor of transport/signal/host.rs *)
(* and its preparation tasks and peers, as a client of the access record.  *)
(*                                                                         *)
(* The actor takes one event at a time; a handler awaits network calls and *)
(* tasks, and the user, the tasks and the peers act in between.  pc is the *)
(* await the actor is at, then where it goes when a session is taken down. *)
(* Only the shutdown of the presence task interrupts a handler.            *)
(*                                                                         *)
(* Left out: the session description and its capability messages, candidate *)
(* exchange, encoder metadata, a second network path, and update handoff.  *)
(***************************************************************************)
EXTENDS HostAccess

CONSTANTS MaxRooms,      \* bound on the rooms of one presence task
          MaxDecisions,  \* bound on the user's permission generations
          MaxIncidents   \* bound on failed calls, refusals, power requests

ASSUME RoomAssumption ==
    /\ MaxRooms \in Nat \ {0}
    /\ MaxDecisions \in Nat /\ MaxIncidents \in Nat

VARIABLES
    pc,           \* the await the room actor is at, "ready" between events
    then,         \* where the actor goes when the sessions are taken down
    notify,       \* the viewers are told when the sessions are taken down
    initialized,  \* the first event was delivered
    seen,         \* version of the request the actor has read
    request,      \* the request being applied, 0 for None
    authorization,\* generation of the lease the room admits with, 0 for None
    grant,        \* the lease of the controller being admitted
    preparing,    \* session whose task prepares a peer, 0 for none
    joining,      \* session whose cancelled task is awaited
    peer,         \* session whose peer is served
    closing,      \* session whose peer is being closed
    early,        \* an offer arrived before the peer was prepared
    stage,        \* what became of each session
    controllable, \* the server lists this machine as controllable
    told,         \* sessions whose viewers got clear_out
    aware,        \* sessions whose viewers know the end without clear_out
    lost,         \* the room ended itself after a failure of one connection
    rooms, incidents

room == <<initialized, seen, request, authorization, grant>>
slots == <<preparing, joining, peer, closing, early, stage>>
outside == <<controllable, told, aware, lost, rooms, incidents>>
roomVars == <<accessVars, pc, then, notify, room, slots, outside>>

Sessions == 1..MaxSessions

\* The owner of a session and the callbacks' clone of it.
Owners(s) == {l \in held : l.session = s}

Clones(s) == {l \in leases : l.session = s /\ l.stream = 0}

Requested == active /\ allowed /\ ~powerExecuting

Revoked(s) == \A l \in Owners(s) : ~Current(l)

DropSession(s) == \E l \in Owners(s) : DropOwner(l)

Alive(s) == stage[s] \in {"preparing", "built", "live"}

Orphan(s) == s \notin {preparing, joining, peer, closing}

RoomInit ==
    /\ Init
    /\ pc = "ready" /\ then = "ready" /\ notify = FALSE
    /\ initialized = FALSE /\ seen = 0 /\ request = 0 /\ authorization = 0
    /\ grant = RoomLease(0)
    /\ preparing = 0 /\ joining = 0 /\ peer = 0 /\ closing = 0
    /\ early = FALSE
    /\ stage = [s \in Sessions |-> "none"]
    /\ controllable = FALSE
    /\ told = {} /\ aware = {}
    /\ lost = FALSE
    /\ rooms = 1 /\ incidents = 0

Goto(label) == pc' = label /\ UNCHANGED <<then, notify>>

\* clear_out, without arguments, reaches every viewer the room ever had.
Tell == told' = 1..minted

Incident == incidents < MaxIncidents /\ incidents' = incidents + 1

Cancel(s) == IF s \in stopped THEN UNCHANGED accessVars ELSE CancelPeer(s)

UpdateIfCurrent(l, c) ==
    IF Current(l) THEN Update(l, c) ELSE UNCHANGED accessVars

-----------------------------------------------------------------------------
(***************************************************************************)
(* Taking the sessions down: end_control tells the viewers, the other uses *)
(* do not.  First the preparation is cancelled and its task awaited, then  *)
(* the peer is closed.                                                     *)
(***************************************************************************)
TakeDown(label, tell) ==
    /\ pc' = "cancel"
    /\ then' = label
    /\ notify' = tell

CloseSession(s, label, tell) ==
    /\ closing' = s
    /\ pc' = "close"
    /\ then' = label
    /\ notify' = tell

CancelPreparation ==
    /\ pc = "cancel"
    /\ IF preparing # 0
       THEN /\ IF notify THEN Tell ELSE UNCHANGED told
            /\ Cancel(preparing)
            /\ joining' = preparing
            /\ preparing' = 0
            /\ Goto("join")
       ELSE /\ UNCHANGED <<accessVars, joining, preparing, told>>
            /\ Goto("peer")
    /\ early' = FALSE
    /\ UNCHANGED <<room, peer, closing, stage, controllable, aware, lost,
                   rooms, incidents>>

JoinPreparation ==
    /\ pc = "join"
    /\ stage[joining] \in {"built", "failed"}
    /\ joining' = 0
    /\ IF stage[joining] = "built"
       THEN CloseSession(joining, then, notify) /\ UNCHANGED stage
       ELSE /\ stage' = [stage EXCEPT ![joining] = "closed"]
            /\ Goto("peer")
            /\ UNCHANGED closing
    /\ UNCHANGED <<accessVars, room, preparing, peer, early, outside>>

\* Mutation of TakePeer: the peer that was closed is still the room's peer.
TakePeerKeepsSlot ==
    /\ pc = "peer"
    /\ IF peer # 0
       THEN /\ IF notify THEN Tell ELSE UNCHANGED told
            /\ Cancel(peer)
            /\ CloseSession(peer, then, notify)
            /\ peer' = peer
       ELSE /\ pc' = then
            /\ UNCHANGED <<accessVars, then, notify, peer, closing, told>>
    /\ UNCHANGED <<room, preparing, joining, early, stage, controllable,
                   aware, lost, rooms, incidents>>

TakePeer ==
    /\ pc = "peer"
    /\ IF peer # 0
       THEN /\ IF notify THEN Tell ELSE UNCHANGED told
            /\ Cancel(peer)
            /\ CloseSession(peer, then, notify)
            /\ peer' = 0
       ELSE /\ pc' = then
            /\ UNCHANGED <<accessVars, then, notify, peer, closing, told>>
    /\ UNCHANGED <<room, preparing, joining, early, stage, controllable,
                   aware, lost, rooms, incidents>>

\* The workers are joined and the owner is dropped; nothing of it is left.
ClosePeer ==
    /\ pc = "close"
    /\ DropSession(closing)
    /\ stage' = [stage EXCEPT ![closing] = "closed"]
    /\ closing' = 0
    /\ Goto("peer")
    /\ UNCHANGED <<room, preparing, joining, peer, early, outside>>

-----------------------------------------------------------------------------
(***************************************************************************)
(* Change: the user's decision is applied to the room and to the server.   *)
(***************************************************************************)
Change ==
    /\ pc = "ready"
    /\ ~initialized \/ seen # permission
    /\ initialized' = TRUE
    /\ seen' = permission
    /\ request' = desired
    /\ authorization' = 0
    /\ TakeDown("change", TRUE)
    /\ UNCHANGED <<accessVars, grant, slots, outside>>

ApplyRequest ==
    /\ pc = "change"
    /\ IF request # 0
       THEN TakeRoomLease(request) /\ Goto("announce")
       ELSE UpdateHandle /\ Goto("disable")
    /\ UNCHANGED <<room, slots, outside>>

Announce ==
    /\ pc = "announce"
    /\ UpdateIfCurrent(RoomLease(request), FALSE)
    /\ IF Current(RoomLease(request)) THEN Goto("enable") ELSE Goto("ready")
    /\ UNCHANGED <<room, slots, outside>>

\* A call to the server succeeds, or fails before or after it took effect.
SetControllable(on, ok) ==
    /\ IF ok
       THEN controllable' = on /\ UNCHANGED incidents
       ELSE controllable' \in {on, controllable} /\ Incident
    /\ UNCHANGED <<room, slots, told, aware, lost, rooms>>

Enable ==
    /\ pc = "enable"
    /\ UNCHANGED accessVars
    /\ \E ok \in BOOLEAN :
         /\ SetControllable(TRUE, ok)
         /\ Goto(IF ok THEN "enabled" ELSE "undo")

\* Mutation of Enabled: a decision made during the call counts as read.
EnabledReadsLate ==
    /\ pc = "enabled"
    /\ UpdateIfCurrent(RoomLease(request), FALSE)
    /\ authorization' = request
    /\ seen' = permission
    /\ Goto("ready")
    /\ UNCHANGED <<initialized, request, grant, slots, outside>>

Enabled ==
    /\ pc = "enabled"
    /\ UpdateIfCurrent(RoomLease(request), FALSE)
    /\ IF Current(RoomLease(request))
       THEN authorization' = request /\ Goto("ready")
       ELSE Goto("disable") /\ UNCHANGED authorization
    /\ UNCHANGED <<initialized, seen, request, grant, slots, outside>>

Undo ==
    /\ pc = "undo"
    /\ UNCHANGED accessVars
    /\ \E ok \in BOOLEAN : SetControllable(FALSE, ok)
    /\ Goto("report")

Report ==
    /\ pc = "report"
    /\ UpdateIfCurrent(RoomLease(request), FALSE)
    /\ Goto("ready")
    /\ UNCHANGED <<room, slots, outside>>

\* A room that is not wanted shows the failed call; one that gives up a
\* request ignores it.
Disable ==
    /\ pc = "disable"
    /\ \E ok \in BOOLEAN :
         /\ SetControllable(FALSE, ok)
         /\ IF ok \/ request # 0 \/ Requested
            THEN UNCHANGED accessVars
            ELSE UpdateHandle
    /\ Goto("ready")

-----------------------------------------------------------------------------
(***************************************************************************)
(* be-controlled: a controller arrives.  The session it supersedes is      *)
(* taken down before its own begins.                                       *)
(***************************************************************************)
Refuse ==
    /\ pc = "ready"
    /\ active
    /\ ~Requested
    /\ Incident
    /\ Tell
    /\ pc' = "peer" /\ then' = "ready" /\ notify' = FALSE
    /\ UNCHANGED <<accessVars, room, slots, controllable, aware, lost, rooms>>

\* Mutation of Supersede: the preparation it replaces is not awaited.
SupersedePeerOnly == pc' = "peer" /\ then' = "admit" /\ notify' = FALSE

Supersede == TakeDown("admit", FALSE)

BeControlled(assisted) ==
    /\ pc = "ready"
    /\ Requested
    /\ authorization # 0
    /\ Current(RoomLease(authorization))
    /\ minted < MaxSessions
    /\ IF assisted
       THEN /\ ForAssistance(RoomLease(authorization))
            /\ grant' = [RoomLease(authorization) EXCEPT !.token = admission]
       ELSE UNCHANGED accessVars /\ grant' = RoomLease(authorization)
    /\ aware' = 1..minted
    /\ Supersede
    /\ UNCHANGED <<initialized, seen, request, authorization, slots,
                   controllable, told, lost, rooms, incidents>>

Admit ==
    /\ pc = "admit"
    /\ \/ PeerLease(grant) /\ Goto("spawn")
       \/ /\ ~Current(grant) \/ updating \/ powerExecuting
          /\ Goto("ready")
          /\ UNCHANGED accessVars
    /\ UNCHANGED <<room, slots, outside>>

Spawn ==
    /\ pc = "spawn"
    /\ UpdateIfCurrent(grant, FALSE)
    /\ preparing' = minted
    /\ stage' = [stage EXCEPT ![minted] = "preparing"]
    /\ Goto("ready")
    /\ UNCHANGED <<room, joining, peer, closing, early, outside>>

\* The displays of the session cannot be set up: its owner goes at once.
SpawnFails ==
    /\ pc = "spawn"
    /\ DropSession(minted)
    /\ stage' = [stage EXCEPT ![minted] = "closed"]
    /\ Goto("ready")
    /\ UNCHANGED <<room, preparing, joining, peer, closing, early, outside>>

EarlyOffer ==
    /\ pc = "ready"
    /\ Requested
    /\ preparing # 0
    /\ early' = TRUE
    /\ UNCHANGED <<accessVars, pc, then, notify, room, preparing, joining,
                   peer, closing, stage, outside>>

\* left or released, with the ids of the session.
Left ==
    /\ pc = "ready"
    /\ Requested
    /\ preparing # 0 \/ peer # 0
    /\ aware' = aware \cup ({preparing, peer} \ {0})
    /\ TakeDown("ready", FALSE)
    /\ UNCHANGED <<accessVars, room, slots, controllable, told, lost, rooms,
                   incidents>>

-----------------------------------------------------------------------------
(***************************************************************************)
(* The preparation task.  A cancelled one may still build its peer.  One   *)
(* that nobody awaits any more drops what it built.                        *)
(***************************************************************************)
TaskBuilds(s) ==
    /\ stage[s] = "preparing"
    /\ stage' = [stage EXCEPT ![s] = "built"]
    /\ UNCHANGED <<accessVars, pc, then, notify, room, preparing, joining,
                   peer, closing, early, outside>>

TaskFails(s) ==
    /\ stage[s] = "preparing"
    /\ DropSession(s)
    /\ stage' = [stage EXCEPT ![s] = IF Orphan(s) THEN "closed" ELSE "failed"]
    /\ UNCHANGED <<pc, then, notify, room, preparing, joining, peer, closing,
                   early, outside>>

OrphanDropped(s) ==
    /\ stage[s] = "built"
    /\ Orphan(s)
    /\ DropSession(s)
    /\ stage' = [stage EXCEPT ![s] = "closed"]
    /\ UNCHANGED <<pc, then, notify, room, preparing, joining, peer, closing,
                   early, outside>>

PeerPrepared ==
    /\ pc = "ready"
    /\ preparing # 0
    /\ stage[preparing] = "built"
    /\ Requested /\ ~Revoked(preparing)
    /\ peer' = preparing
    /\ preparing' = 0
    /\ stage' = [stage EXCEPT ![preparing] = "live"]
    /\ Goto("flush")
    /\ UNCHANGED <<accessVars, room, joining, closing, early, outside>>

\* The peer is closed without a word to its viewer.
PeerPreparedTooLate ==
    /\ pc = "ready"
    /\ preparing # 0
    /\ stage[preparing] = "built"
    /\ ~Requested \/ Revoked(preparing)
    /\ CloseSession(preparing, "ready", FALSE)
    /\ preparing' = 0
    /\ UNCHANGED <<accessVars, room, joining, peer, early, stage, outside>>

PreparationFailed ==
    /\ pc = "ready"
    /\ preparing # 0
    /\ stage[preparing] = "failed"
    /\ Tell
    /\ preparing' = 0
    /\ early' = FALSE
    /\ stage' = [stage EXCEPT ![preparing] = "closed"]
    /\ UNCHANGED <<accessVars, pc, then, notify, room, joining, peer, closing,
                   controllable, aware, lost, rooms, incidents>>

\* The capabilities are sent and the offer that waited is answered; a failure
\* of either ends the handler with an error, which ends the room.
Flush ==
    /\ pc = "flush"
    /\ early' = FALSE
    /\ \/ Goto("ready") /\ UNCHANGED <<lost, aware>>
       \/ /\ lost' \in {lost, lost \/ early}
          /\ aware' = 1..minted
          /\ TakeDown("leave", FALSE)
    /\ UNCHANGED <<accessVars, room, preparing, joining, peer, closing, stage,
                   controllable, told, rooms, incidents>>

-----------------------------------------------------------------------------
(***************************************************************************)
(* The peer while it is served.                                            *)
(***************************************************************************)
\* Mutation of ConnectionState: the callback does not check its lease.
ConnectionStateUnchecked(c) ==
    /\ peer # 0
    /\ Show(c)
    /\ UNCHANGED <<pc, then, notify, room, slots, outside>>

ConnectionState(c) ==
    /\ peer # 0
    /\ \E l \in Clones(peer) : UpdateIfCurrent(l, c)
    /\ UNCHANGED <<pc, then, notify, room, slots, outside>>

MediaEnds ==
    /\ peer # 0
    /\ CancelPeer(peer)
    /\ UNCHANGED <<pc, then, notify, room, slots, outside>>

\* The user's process behind an installed service exited.
UserBackendExits ==
    /\ peer # 0
    /\ \E l \in Clones(peer) : FinishLease(l)
    /\ UNCHANGED <<pc, then, notify, room, slots, outside>>

(***************************************************************************)
(* Poll, after 250 ms without an event.                                    *)
(***************************************************************************)
\* Mutation of PollRevoked: only the switch ends a session.
PollSwitchedOff ==
    /\ pc = "ready"
    /\ preparing # 0 \/ peer # 0
    /\ ~Requested
    /\ TakeDown("ready", TRUE)
    /\ UNCHANGED <<accessVars, room, slots, outside>>

PollRevoked ==
    /\ pc = "ready"
    /\ preparing # 0 \/ peer # 0
    /\ ~Requested \/ (peer # 0 /\ Revoked(peer))
    /\ TakeDown("ready", TRUE)
    /\ UNCHANGED <<accessVars, room, slots, outside>>

\* Mutation of QuietEnd: a media failure is told like a kick.
ToldEnd == TRUE

\* A media failure is not a user kick: the viewer may come back.
QuietEnd == FALSE

PollEnded ==
    /\ pc = "ready"
    /\ Requested
    /\ peer # 0 /\ ~Revoked(peer)
    /\ peer \in stopped
    /\ aware' = aware \cup {peer}
    /\ pc' = "peer" /\ then' = "ready" /\ notify' = QuietEnd
    /\ UNCHANGED <<accessVars, room, slots, controllable, told, lost, rooms,
                   incidents>>

(***************************************************************************)
(* A remote power action: control ends first, the lease of the room stays. *)
(***************************************************************************)
\* Mutation of ControlEnds: the action starts beside the session.
ControlGoesOn == pc' = "execute" /\ UNCHANGED <<then, notify>>

ControlEnds == TakeDown("execute", TRUE)

\* A request that was not prepared ends with its result.
PowerReady ==
    /\ pc = "ready"
    /\ Incident
    /\ \/ BeginPower /\ ControlEnds
       \/ PowerResult /\ UNCHANGED <<pc, then, notify>>
    /\ UNCHANGED <<room, slots, controllable, told, aware, lost, rooms>>

PowerExecuted ==
    /\ pc = "execute"
    /\ PowerResult
    /\ Goto("ready")
    /\ UNCHANGED <<room, slots, outside>>

-----------------------------------------------------------------------------
(***************************************************************************)
(* The end of a room.  A shutdown drops the handler where it waits: the    *)
(* peer it was closing goes, the task it was awaiting is left to itself.   *)
(***************************************************************************)
Shutdown ==
    /\ pc \in {"ready", "cancel", "join", "peer", "close", "enable", "undo",
               "disable", "flush", "execute"}
    /\ then # "leave"
    /\ aware' = 1..minted
    /\ IF closing # 0
       THEN /\ DropSession(closing)
            /\ stage' = [stage EXCEPT ![closing] = "closed"]
       ELSE UNCHANGED <<accessVars, stage>>
    /\ closing' = 0
    /\ joining' = 0
    /\ rooms' = MaxRooms
    /\ TakeDown("leave", FALSE)
    /\ UNCHANGED <<room, preparing, peer, early, controllable, told, lost,
                   incidents>>

\* The transport failed for good; presence will make another room.
TransportLost ==
    /\ pc = "ready"
    /\ aware' = 1..minted
    /\ TakeDown("leave", FALSE)
    /\ UNCHANGED <<accessVars, room, slots, controllable, told, lost, rooms,
                   incidents>>

Leave ==
    /\ pc = "leave"
    /\ RoomClosed
    /\ Goto("closed")
    /\ UNCHANGED <<room, slots, outside>>

NextRoom ==
    /\ pc = "closed"
    /\ rooms < MaxRooms
    /\ rooms' = rooms + 1
    /\ pc' = "ready" /\ then' = "ready" /\ notify' = FALSE
    /\ initialized' = FALSE
    /\ seen' = permission
    /\ authorization' = 0
    /\ UNCHANGED <<accessVars, request, grant, slots, controllable, told,
                   aware, lost, incidents>>

-----------------------------------------------------------------------------
User ==
    /\ \/ /\ permission < MaxDecisions
          /\ Retry \/ Retire \/ \E b \in BOOLEAN : SetAllowed(b)
       \/ \E s \in 1..minted : DisconnectSession(s)
    /\ UNCHANGED <<pc, then, notify, room, slots, outside>>

Gates ==
    /\ \/ PrepareUpdate
       \/ CancelUpdate
       \/ \E b \in BOOLEAN : SetPowerAllowed(b)
       \/ AssistReady
       \/ \E b \in BOOLEAN : AssistConfigure(b)
    /\ UNCHANGED <<pc, then, notify, room, slots, outside>>

Handler ==
    \/ CancelPreparation \/ JoinPreparation \/ TakePeer \/ ClosePeer
    \/ ApplyRequest \/ Announce \/ Enable \/ Enabled \/ Undo \/ Report
    \/ Disable \/ Admit \/ Spawn \/ SpawnFails \/ Flush \/ Leave

OwnEvent ==
    \/ Change \/ PollRevoked \/ PollEnded
    \/ PeerPrepared \/ PeerPreparedTooLate \/ PreparationFailed

RemoteEvent ==
    \/ Refuse \/ EarlyOffer \/ Left
    \/ \E assisted \in BOOLEAN : BeControlled(assisted)

Power == PowerReady \/ PowerExecuted

Task(s) == TaskBuilds(s) \/ TaskFails(s) \/ OrphanDropped(s)

PeerEvent ==
    \/ \E c \in BOOLEAN : ConnectionState(c)
    \/ MediaEnds \/ UserBackendExits

RoomNext ==
    \/ Handler \/ OwnEvent \/ RemoteEvent \/ PeerEvent \/ Power
    \/ \E s \in Sessions : Task(s)
    \/ User \/ Gates
    \/ Shutdown \/ TransportLost \/ NextRoom

(***************************************************************************)
(* The actor runs: its handlers go on, and between events it takes one of  *)
(* those that are ready.  A preparation task ends.                         *)
(***************************************************************************)
Fairness ==
    /\ WF_roomVars(Handler \/ OwnEvent \/ PowerExecuted)
    /\ \A s \in Sessions : WF_roomVars(Task(s))

RoomSpec == RoomInit /\ [][RoomNext]_roomVars /\ Fairness

-----------------------------------------------------------------------------
(***************************************************************************)
(* The actor is at one of its awaits and its slots hold sessions.          *)
(***************************************************************************)
Labels ==
          {"ready", "cancel", "join", "peer", "close", "change", "announce",
           "enable", "enabled", "undo", "report", "disable", "admit", "spawn",
           "flush", "execute", "leave", "closed"}

RoomTypeOK ==
    /\ TypeOK
    /\ pc \in Labels /\ then \in Labels /\ notify \in BOOLEAN
    /\ initialized \in BOOLEAN
    /\ seen \in 0..permission /\ request \in 0..permission
    /\ authorization \in 0..permission
    /\ {preparing, joining, peer, closing} \subseteq 0..minted
    /\ early \in BOOLEAN
    /\ stage \in [Sessions -> {"none", "preparing", "built", "failed",
                               "live", "closed"}]
    /\ controllable \in BOOLEAN /\ lost \in BOOLEAN
    /\ told \subseteq Sessions /\ aware \subseteq Sessions
    /\ rooms \in 1..MaxRooms /\ incidents \in 0..MaxIncidents

(***************************************************************************)
(* The room uses the access record only as its leases allow: every step of *)
(* the actor, its tasks and its peers is one operation of HostAccess by a  *)
(* lease that was handed out, or leaves the record alone.                  *)
(***************************************************************************)
ImplementsAccess == Spec

(***************************************************************************)
(* Two sessions never hold displays, encoders and transports at once: the  *)
(* one superseded is joined and closed before the next is begun, also when *)
(* its task finished after it was cancelled.                               *)
(***************************************************************************)
OneSessionAlive ==
    \A s, t \in Sessions : Alive(s) /\ Alive(t) => s = t

(***************************************************************************)
(* Every session that holds resources is in exactly one of the actor's     *)
(* hands, or its token is cancelled and its task is about to drop it; and  *)
(* no slot names a session that is already closed.                         *)
(***************************************************************************)
NothingForgotten ==
    /\ \A s \in Sessions :
         Alive(s) => ~Orphan(s) \/ (s \in stopped /\ pc # "ready")
    /\ \A s \in {preparing, joining, peer, closing} \ {0} :
         stage[s] # "closed"

(***************************************************************************)
(* clear_out is never sent while an authorized session is served that the  *)
(* host does not end: it would throw out a viewer nobody meant to.         *)
(***************************************************************************)
ClearOutOnlyWhenCut ==
    [][told' # told => \/ peer = 0
                       \/ Revoked(peer)
                       \/ ~Requested
                       \/ then = "execute"]_roomVars

(***************************************************************************)
(* A session the user revoked is taken down whatever the actor was doing,  *)
(* also when the revocation met a preparation, an early offer or a call    *)
(* to the server.                                                          *)
(***************************************************************************)
RevokedIsCut ==
    \A s \in Sessions :
        (Alive(s) /\ \A l \in Owners(s) : ~CurrentOwner(l)) ~> ~Alive(s)

(***************************************************************************)
(* When the user stops deciding and the calls to the server succeed, the   *)
(* server lists the machine as controllable exactly when the user allows   *)
(* it and the room admits: no decision is lost behind a slow call.         *)
(***************************************************************************)
ServerFollowsDecision ==
    <>[](pc = "ready" /\ incidents = 0 =>
           /\ controllable = (desired # 0)
           /\ authorization = desired)

(***************************************************************************)
(* host.rs, notify_termination: "clear_out (no arguments) precedes local   *)
(* peer destruction".  A viewer whose peer is destroyed was told, or left, *)
(* was superseded, lost its media or its room.                             *)
(***************************************************************************)
NoticeBeforeDestruction ==
    [][\A s \in Sessions :
         stage[s] \in {"built", "live"} /\ stage'[s] = "closed"
             => s \in told' \cup aware']_roomVars

(***************************************************************************)
(* host.rs, Event::Prepared: "A local display/codec failure belongs to     *)
(* this incoming connection; it must not tear down the account's room."    *)
(***************************************************************************)
RoomOutlivesConnections == ~lost
=============================================================================
