--------------------------- MODULE HostRoomProofs ---------------------------
(***************************************************************************)
(* The room implements the access record, for every number of rooms,       *)
(* sessions and decisions: so what HostAccessProofs shows of any user of   *)
(* any lease holds in the room.                                            *)
(***************************************************************************)
EXTENDS HostRoom, HostAccessProofs

USE DEF roomVars, room, slots, outside

(***************************************************************************)
(* The leases the actor uses were handed out: the one of the request it    *)
(* applies, the one it admits with, and the grant of the controller it is  *)
(* admitting.  Its slots hold sessions that were started.                  *)
(***************************************************************************)
Applying == {"announce", "enable", "enabled", "undo", "report"}

RequestHeld ==
    pc \in Applying => request # 0 /\ RoomLease(request) \in leases

AdmissionHeld == authorization # 0 => RoomLease(authorization) \in leases

GrantHeld ==
    /\ then \in {"ready", "change", "admit", "execute", "leave"}
    /\ then = "admit" => authorization # 0 /\ grant \in leases
    /\ pc \in {"admit", "spawn"} => then = "admit"

SlotsStarted == preparing \in 0..minted /\ peer \in 0..minted

RoomInv == RequestHeld /\ AdmissionHeld /\ GrantHeld /\ SlotsStarted

LEMMA RoomInvInit == RoomInit => RoomInv
  BY DEF RoomInit, Init, RoomInv, RequestHeld, AdmissionHeld, GrantHeld,
         SlotsStarted, Applying

-----------------------------------------------------------------------------
(***************************************************************************)
(* Every step of the room is a step of the access record, or leaves it.    *)
(***************************************************************************)
LEMMA UpdateMaps ==
  ASSUME NEW l \in leases, NEW c \in BOOLEAN,
         UpdateIfCurrent(l, c)
  PROVE  [Next]_accessVars
<1>1. CASE Update(l, c)
  BY <1>1 DEF Next, LeaseStep
<1>2. CASE UNCHANGED accessVars
  BY <1>2
<1> QED BY <1>1, <1>2 DEF UpdateIfCurrent

LEMMA CancelMaps ==
  ASSUME NEW s \in 1..minted, Cancel(s)
  PROVE  [Next]_accessVars
  BY DEF Cancel, Next

LEMMA DropMaps ==
  ASSUME NEW s, DropSession(s)
  PROVE  [Next]_accessVars
  BY DEF DropSession, Owners, Next

LEMMA StepMaps ==
  NumbersOK /\ RoomInv /\ [RoomNext]_roomVars => [Next]_accessVars
<1> SUFFICES ASSUME NumbersOK, RoomInv, [RoomNext]_roomVars
             PROVE  [Next]_accessVars
  OBVIOUS
<1>1. CASE Handler
  <2>1. CASE CancelPreparation
    <3>1. CASE preparing # 0
      <4>1. preparing \in 1..minted /\ Cancel(preparing)
        BY <2>1, <3>1 DEF CancelPreparation, RoomInv, SlotsStarted, NumbersOK
      <4> QED BY <4>1, CancelMaps
    <3>2. CASE preparing = 0
      BY <2>1, <3>2 DEF CancelPreparation
    <3> QED BY <3>1, <3>2
  <2>2. CASE TakePeer
    <3>1. CASE peer # 0
      <4>1. peer \in 1..minted /\ Cancel(peer)
        BY <2>2, <3>1 DEF TakePeer, RoomInv, SlotsStarted, NumbersOK
      <4> QED BY <4>1, CancelMaps
    <3>2. CASE peer = 0
      BY <2>2, <3>2 DEF TakePeer
    <3> QED BY <3>1, <3>2
  <2>3. CASE ClosePeer
    BY <2>3, DropMaps DEF ClosePeer
  <2>4. CASE ApplyRequest
    <3>1. CASE TakeRoomLease(request)
      BY <3>1 DEF TakeRoomLease, Next
    <3>2. CASE UpdateHandle
      BY <3>2 DEF Next
    <3> QED BY <2>4, <3>1, <3>2 DEF ApplyRequest
  <2>5. CASE Announce \/ Enabled \/ Report
    <3>1. RoomLease(request) \in leases
      BY <2>5 DEF RoomInv, RequestHeld, Applying, Announce, Enabled, Report
    <3>2. \E c \in BOOLEAN : UpdateIfCurrent(RoomLease(request), c)
      BY <2>5 DEF Announce, Enabled, Report
    <3> QED BY <3>1, <3>2, UpdateMaps
  <2>6. CASE Admit
    <3>1. CASE PeerLease(grant)
      <4>1. grant \in leases
        BY <2>6 DEF Admit, RoomInv, GrantHeld
      <4> QED BY <3>1, <4>1 DEF Next, LeaseStep
    <3>2. CASE UNCHANGED accessVars
      BY <3>2
    <3> QED BY <2>6, <3>1, <3>2 DEF Admit
  <2>7. CASE Spawn
    <3>1. grant \in leases
      BY <2>7 DEF Spawn, RoomInv, GrantHeld
    <3> QED BY <2>7, <3>1, UpdateMaps DEF Spawn
  <2>8. CASE SpawnFails
    BY <2>8, DropMaps DEF SpawnFails
  <2>9. CASE Leave
    BY <2>9 DEF Leave, Next, UserStep
  <2>10. CASE JoinPreparation \/ Enable \/ Undo \/ Flush
    BY <2>10 DEF JoinPreparation, Enable, Undo, Flush
  <2>11. CASE Disable
    BY <2>11 DEF Disable, Next
  <2> QED
    BY <1>1, <2>1, <2>2, <2>3, <2>4, <2>5, <2>6, <2>7, <2>8, <2>9, <2>10,
       <2>11
    DEF Handler
<1>2. CASE OwnEvent
  BY <1>2 DEF OwnEvent, Change, PollRevoked, PollEnded, PeerPrepared,
              PeerPreparedTooLate, PreparationFailed
<1>3. CASE RemoteEvent
  <2>1. CASE Refuse \/ EarlyOffer \/ Left
    BY <2>1 DEF Refuse, EarlyOffer, Left
  <2>2. ASSUME NEW b \in BOOLEAN, BeControlled(b) PROVE [Next]_accessVars
    <3>1. CASE ForAssistance(RoomLease(authorization))
      <4>1. RoomLease(authorization) \in leases
        BY <2>2 DEF BeControlled, RoomInv, AdmissionHeld
      <4> QED BY <3>1, <4>1 DEF Next, LeaseStep
    <3>2. CASE UNCHANGED accessVars
      BY <3>2
    <3> QED BY <2>2, <3>1, <3>2 DEF BeControlled
  <2> QED BY <1>3, <2>1, <2>2 DEF RemoteEvent
<1>4. CASE PeerEvent
  <2>1. ASSUME NEW c \in BOOLEAN, ConnectionState(c) PROVE [Next]_accessVars
    BY <2>1, UpdateMaps DEF ConnectionState, Clones
  <2>2. CASE MediaEnds
    <3>1. peer \in 1..minted /\ CancelPeer(peer)
      BY <2>2 DEF MediaEnds, RoomInv, SlotsStarted, NumbersOK
    <3> QED BY <3>1 DEF Next
  <2>3. CASE UserBackendExits
    BY <2>3 DEF UserBackendExits, Clones, Next, LeaseStep
  <2> QED BY <1>4, <2>1, <2>2, <2>3 DEF PeerEvent
<1>5. ASSUME NEW s \in Sessions, Task(s) PROVE [Next]_accessVars
  BY <1>5, DropMaps DEF Task, TaskBuilds, TaskFails, OrphanDropped
<1>6. CASE User
  BY <1>6 DEF User, Next, UserStep
<1>7. CASE Gates
  BY <1>7 DEF Gates, Next, GateStep
<1>8. CASE Shutdown
  BY <1>8, DropMaps DEF Shutdown
<1>9. CASE TransportLost \/ NextRoom \/ UNCHANGED roomVars
  BY <1>9 DEF TransportLost, NextRoom
<1>10. CASE Power
  BY <1>10 DEF Power, PowerReady, PowerExecuted, Next, GateStep
<1> QED
  BY <1>1, <1>2, <1>3, <1>4, <1>5, <1>6, <1>7, <1>8, <1>9, <1>10 DEF RoomNext

-----------------------------------------------------------------------------
(***************************************************************************)
(* The invariant is kept.  Leases are only added and sessions only         *)
(* started, so it is enough to look at what each step assigns.             *)
(***************************************************************************)
LEMMA SlotsStep ==
  ASSUME NumbersOK, RoomInv, [RoomNext]_roomVars, Forward
  PROVE  SlotsStarted'
<1>1. preparing \in Nat /\ preparing <= minted /\ peer \in Nat /\ peer <= minted
      /\ minted \in Nat /\ minted' \in Nat /\ minted <= minted'
  BY DEF NumbersOK, RoomInv, SlotsStarted, Forward
<1>2. preparing' \in {preparing, 0, minted} /\ peer' \in {peer, 0, preparing}
  <2>1. CASE Handler
    BY <2>1 DEF Handler, CancelPreparation, JoinPreparation, TakePeer,
       ClosePeer, ApplyRequest, Announce, Enable, Enabled, Undo, Report,
       Disable, Admit, Spawn, SpawnFails, Flush, Leave,
       SetControllable
  <2>2. CASE OwnEvent \/ RemoteEvent \/ PeerEvent \/ Power
    BY <2>2 DEF OwnEvent, Change, PollRevoked, PollEnded, PeerPrepared,
       PeerPreparedTooLate, PreparationFailed, RemoteEvent, Refuse,
       EarlyOffer, Left, Power, PowerReady, PowerExecuted, BeControlled,
       PeerEvent, ConnectionState, MediaEnds, UserBackendExits
  <2>3. CASE \/ \E s \in Sessions : Task(s)
             \/ User \/ Gates \/ Shutdown \/ TransportLost \/ NextRoom
             \/ UNCHANGED roomVars
    BY <2>3 DEF Task, TaskBuilds, TaskFails, OrphanDropped, User, Gates,
       Shutdown, TransportLost, NextRoom
  <2> QED BY <2>1, <2>2, <2>3 DEF RoomNext
<1> QED BY <1>1, <1>2 DEF SlotsStarted

\* What the other parts of the invariant depend on.
Held == /\ RequestHeld /\ AdmissionHeld /\ GrantHeld

LEMMA HeldKept ==
  ASSUME Held, leases \subseteq leases',
         UNCHANGED <<request, authorization, grant, then>>,
         pc' \in Applying => pc \in Applying,
         pc' \in {"admit", "spawn"} => pc' = pc
  PROVE  Held'
  BY DEF Held, RequestHeld, AdmissionHeld, GrantHeld, Applying, RoomLease

LEMMA HeldStep ==
  ASSUME NumbersOK, RoomInv, [RoomNext]_roomVars, leases \subseteq leases'
  PROVE  Held'
<1>0. Held
  BY DEF Held, RoomInv
<1>1. CASE Handler
  <2>1. CASE CancelPreparation \/ ClosePeer \/ SpawnFails \/ Leave
             \/ Disable
    BY <1>0, <2>1, HeldKept
    DEF CancelPreparation, ClosePeer, SpawnFails, Leave, Disable, SetControllable, Goto, Applying
  <2>2. CASE JoinPreparation
    BY <1>0, <2>2, HeldKept DEF JoinPreparation, CloseSession, Goto, Applying
  <2>3. CASE TakePeer
    <3>1. CASE peer # 0
      BY <1>0, <2>3, <3>1, HeldKept DEF TakePeer, CloseSession, Applying
    <3>2. CASE peer = 0
      <4>1. /\ pc' = then
            /\ UNCHANGED <<request, authorization, grant, then, leases>>
        <5>1. pc' = then /\ UNCHANGED leases /\ UNCHANGED then
          BY <2>3, <3>2 DEF TakePeer, accessVars, handed
        <5>2. UNCHANGED <<request, authorization, grant>>
          BY <2>3, Zenon DEF TakePeer
        <5> QED BY <5>1, <5>2
      <4>2. RequestHeld' /\ AdmissionHeld'
        BY <1>0, <4>1
        DEF Held, RequestHeld, AdmissionHeld, GrantHeld, Applying, RoomLease
      <4>3. GrantHeld'
        BY <1>0, <4>1 DEF Held, GrantHeld
      <4> QED BY <4>2, <4>3 DEF Held
    <3> QED BY <3>1, <3>2
  <2>4. CASE ApplyRequest
    <3>1. CASE request = 0
      BY <1>0, <2>4, <3>1, HeldKept DEF ApplyRequest, Goto, Applying
    <3>2. CASE request # 0
      <4>1. /\ pc' = "announce"
            /\ UNCHANGED <<request, authorization, grant, then>>
            /\ leases' = leases \cup {RoomLease(request)}
        BY <2>4, <3>2, Zenon DEF ApplyRequest, TakeRoomLease, Goto
      <4> QED
        BY <1>0, <3>2, <4>1
        DEF Held, RequestHeld, AdmissionHeld, GrantHeld, Applying, RoomLease
    <3> QED BY <3>1, <3>2
  <2>5. CASE Announce \/ Enable \/ Undo \/ Report
    BY <1>0, <2>5, HeldKept
    DEF Announce, Enable, Undo, Report, SetControllable, Goto, Applying
  <2>6. CASE Enabled
    <3>1. CASE Current(RoomLease(request))
      <4>1. /\ pc = "enabled" /\ pc' = "ready" /\ authorization' = request
            /\ UNCHANGED <<request, grant, then>>
        BY <2>6, <3>1, Zenon DEF Enabled, Goto
      <4>2. request # 0 /\ RoomLease(request) \in leases
        BY <1>0, <4>1 DEF Held, RequestHeld, Applying
      <4>3. RequestHeld'
        BY <4>1 DEF RequestHeld, Applying
      <4>4. AdmissionHeld'
        BY <4>1, <4>2 DEF AdmissionHeld, RoomLease
      <4>5. authorization' # 0
        BY <4>1, <4>2
      <4>6. GrantHeld'
        BY <1>0, <4>1, <4>5 DEF Held, GrantHeld
      <4> QED BY <4>3, <4>4, <4>6 DEF Held
    <3>2. CASE ~Current(RoomLease(request))
      BY <1>0, <2>6, <3>2, HeldKept DEF Enabled, Goto, Applying
    <3> QED BY <3>1, <3>2
  <2>7. CASE Admit \/ Spawn
    BY <1>0, <2>7
    DEF Admit, Spawn, Goto, Held, RequestHeld, AdmissionHeld, GrantHeld,
        Applying, RoomLease
  <2>8. CASE Flush
    BY <1>0, <2>8
    DEF Flush, TakeDown, Goto, Held, RequestHeld, AdmissionHeld, GrantHeld,
        Applying, RoomLease
  <2> QED BY <1>1, <2>1, <2>2, <2>3, <2>4, <2>5, <2>6, <2>7, <2>8 DEF Handler
<1>2. CASE OwnEvent
  BY <1>0, <1>2
  DEF OwnEvent, Change, PollRevoked, PollEnded, PeerPrepared,
      PeerPreparedTooLate, PreparationFailed, TakeDown, CloseSession, Goto,
      Held, RequestHeld, AdmissionHeld, GrantHeld, Applying, RoomLease
<1>3. CASE RemoteEvent
  <2>1. CASE Refuse \/ EarlyOffer \/ Left
    BY <1>0, <2>1
    DEF Refuse, EarlyOffer, Left, TakeDown, Held, RequestHeld, AdmissionHeld,
        GrantHeld, Applying, RoomLease
  <2>2. ASSUME NEW b \in BOOLEAN, BeControlled(b) PROVE Held'
    <3>1. /\ authorization # 0 /\ UNCHANGED <<request, authorization>>
          /\ pc' = "cancel" /\ then' = "admit"
      BY <2>2 DEF BeControlled, Supersede, TakeDown
    <3>2. grant' \in leases'
      <4>1. CASE ForAssistance(RoomLease(authorization))
        BY <2>2, <4>1, <1>0 DEF BeControlled, ForAssistance, Held, AdmissionHeld
      <4>2. CASE grant' = RoomLease(authorization)
        BY <1>0, <3>1, <4>2 DEF Held, AdmissionHeld
      <4> QED BY <2>2, <4>1, <4>2 DEF BeControlled
    <3>3. RoomLease(authorization)' \in leases'
      BY <1>0, <3>1 DEF Held, AdmissionHeld, RoomLease
    <3> QED BY <3>1, <3>2, <3>3
        DEF Held, RequestHeld, AdmissionHeld, GrantHeld, Applying
  <2> QED BY <1>3, <2>1, <2>2 DEF RemoteEvent
<1>4. CASE PeerEvent \/ User \/ Gates \/ \E s \in Sessions : Task(s)
  <2>1. UNCHANGED <<pc, then, request, authorization, grant>>
    BY <1>4 DEF PeerEvent, ConnectionState, MediaEnds, UserBackendExits,
       User, Gates, Task, TaskBuilds, TaskFails, OrphanDropped
  <2> QED BY <1>0, <2>1, HeldKept
<1>5. CASE Shutdown \/ TransportLost \/ NextRoom
  BY <1>0, <1>5
  DEF Shutdown, TransportLost, NextRoom, TakeDown, Held, RequestHeld,
      AdmissionHeld, GrantHeld, Applying, RoomLease
<1>6. CASE Power
  BY <1>0, <1>6
  DEF Power, PowerReady, PowerExecuted, ControlEnds, TakeDown, Goto, Held,
      RequestHeld, AdmissionHeld, GrantHeld, Applying, RoomLease
<1>7. CASE UNCHANGED roomVars
  BY <1>0, <1>7, HeldKept
<1> QED BY <1>1, <1>2, <1>3, <1>4, <1>5, <1>6, <1>7 DEF RoomNext

LEMMA RoomInvStep ==
  TypeOK /\ RoomInv /\ [RoomNext]_roomVars
      => [Next]_accessVars /\ TypeOK' /\ RoomInv'
<1> SUFFICES ASSUME TypeOK, RoomInv, [RoomNext]_roomVars
             PROVE  [Next]_accessVars /\ TypeOK' /\ RoomInv'
  OBVIOUS
<1>1. NumbersOK
  BY DEF TypeOK
<1>2. [Next]_accessVars
  BY <1>1, StepMaps
<1>3. TypeOK'
  BY <1>2, TypeStep
<1>4. Forward /\ leases \subseteq leases'
  BY <1>1, <1>2, ForwardStep, LeasesGrow
<1>5. SlotsStarted' /\ Held'
  BY <1>1, <1>4, SlotsStep, HeldStep
<1> QED BY <1>2, <1>3, <1>5 DEF RoomInv, Held

(***************************************************************************)
(* The room is a client of the access record: every behaviour of the room  *)
(* is one of HostAccess.                                                   *)
(***************************************************************************)
THEOREM RoomImplementsAccess == RoomSpec => ImplementsAccess
<1>1. RoomInit => Init /\ TypeOK /\ RoomInv
  BY RoomInvInit, TypeInit DEF RoomInit
<1> QED BY <1>1, RoomInvStep, PTL DEF RoomSpec, ImplementsAccess, Spec

(***************************************************************************)
(* So a lease of a superseded or revoked session is never accepted beside  *)
(* one of the present session, whatever the room, its tasks, its peers and *)
(* the user do.                                                            *)
(***************************************************************************)
THEOREM RoomAcceptsOneSession == RoomSpec => []OneSessionAccepted
  BY RoomImplementsAccess, OneSession DEF ImplementsAccess

-----------------------------------------------------------------------------
(***************************************************************************)
(* One session at a time.  The four hands of the actor hold one session at *)
(* most; the two in which a session is taken down are full exactly at the  *)
(* awaits that empty them; and beyond the change of a request, an          *)
(* admission or a power action nothing is in hand.  A session out of hand  *)
(* is one whose task a shutdown left to itself, which ends the last room.  *)
(***************************************************************************)
Stages == {"none", "preparing", "built", "failed", "live", "closed"}

HandsOK ==
    /\ stage \in [Sessions -> Stages]
    /\ {preparing, joining, peer, closing} \subseteq 0..MaxSessions

OneHand ==
    /\ preparing # 0 => joining = 0 /\ peer = 0 /\ closing = 0
    /\ joining # 0 => peer = 0 /\ closing = 0
    /\ peer # 0 => closing = 0

Leaving == then = "leave" /\ rooms = MaxRooms

HandsAtPc ==
    /\ joining # 0 <=> pc = "join"
    /\ closing # 0 <=> pc = "close"
    /\ pc = "peer" /\ then # "ready" => preparing = 0
    /\ pc \notin {"ready", "flush", "cancel", "join", "peer", "close"}
         => preparing = 0 /\ peer = 0
    /\ then = "leave" =>
         pc \in {"cancel", "join", "peer", "close", "leave", "closed"}
    /\ pc = "spawn" => minted # 0

InHand ==
    /\ \A s \in Sessions : Alive(s) => ~Orphan(s) \/ (Leaving /\ s \in stopped)
    /\ joining # 0 => joining \in stopped
    /\ \A s \in {preparing, joining, peer, closing} \ {0} :
         stage[s] # "closed"

SlotInv == HandsOK /\ OneHand /\ HandsAtPc /\ InHand /\ OneSessionAlive

LEMMA SlotInit == RoomInit => SlotInv
<1> SUFFICES ASSUME RoomInit PROVE SlotInv
  OBVIOUS
<1>1. /\ stage = [s \in Sessions |-> "none"]
      /\ preparing = 0 /\ joining = 0 /\ peer = 0 /\ closing = 0
      /\ pc = "ready" /\ then = "ready"
  BY DEF RoomInit
<1>2. HandsOK
  BY <1>1, BoundsAssumption DEF BoundsAssumption, HandsOK, Stages
<1>3. OneHand /\ HandsAtPc
  BY <1>1 DEF OneHand, HandsAtPc
<1>4. InHand /\ OneSessionAlive
  BY <1>1 DEF InHand, OneSessionAlive, Alive
<1> QED BY <1>2, <1>3, <1>4 DEF SlotInv

\* What a step leaves in hand it may still move between its awaits.
LEMMA SlotsLeft ==
  ASSUME SlotInv, stopped \subseteq stopped',
         UNCHANGED <<preparing, joining, peer, closing, stage>>,
         HandsAtPc', Leaving => Leaving'
  PROVE  SlotInv'
  BY DEF SlotInv, HandsOK, OneHand, InHand, OneSessionAlive, Alive, Orphan,
         Sessions

LEMMA SlotStep ==
  ASSUME NumbersOK, RoomInv, SlotInv, [RoomNext]_roomVars,
         Forward, stopped \subseteq stopped'
  PROVE  SlotInv'
<1>0. /\ then \in {"ready", "change", "admit", "execute", "leave"}
      /\ MaxSessions \in Nat /\ minted \in 0..MaxSessions
      /\ minted' \in 0..MaxSessions /\ minted <= minted'
  <2>1. then \in {"ready", "change", "admit", "execute", "leave"}
    BY DEF RoomInv, GrantHeld
  <2>2. /\ MaxSessions \in Nat /\ minted \in 0..MaxSessions
        /\ minted' \in 0..MaxSessions /\ minted <= minted'
    BY BoundsAssumption DEF BoundsAssumption, NumbersOK, Forward
  <2> QED BY <2>1, <2>2
<1> USE DEF SlotInv, HandsOK, OneHand, HandsAtPc, InHand, OneSessionAlive,
            Leaving, Alive, Orphan, Sessions, Stages
<1>1. CASE Handler
  <2>1. CASE CancelPreparation
    <3>1. CASE preparing # 0
      <4>1. preparing \in stopped'
        BY <2>1, <3>1 DEF CancelPreparation, Cancel, CancelPeer
      <4> QED BY <1>0, <2>1, <3>1, <4>1 DEF CancelPreparation, Goto
    <3>2. CASE preparing = 0
      BY <1>0, <2>1, <3>2 DEF CancelPreparation, Goto
    <3> QED BY <3>1, <3>2
  <2>2. CASE JoinPreparation
    BY <1>0, <2>2 DEF JoinPreparation, CloseSession, Goto
  <2>3. CASE TakePeer
    BY <1>0, <2>3 DEF TakePeer, CloseSession
  <2>4. CASE ClosePeer
    BY <1>0, <2>4 DEF ClosePeer, Goto
  <2>5. CASE ApplyRequest \/ Announce \/ Enabled \/ Report
    BY <1>0, <2>5, SlotsLeft DEF ApplyRequest, Announce, Enabled, Report, Goto
  <2>6. CASE Enable \/ Undo \/ Disable
    BY <1>0, <2>6, SlotsLeft DEF Enable, Undo, Disable, SetControllable, Goto
  <2>7. CASE Admit
    <3>1. pc' \in {"spawn", "ready"} /\ then' = then
          /\ (pc' = "spawn" => minted' = minted + 1)
      BY <2>7 DEF Admit, Goto, PeerLease
    <3> QED BY <1>0, <2>7, <3>1, SlotsLeft DEF Admit
  <2>8. CASE Spawn
    BY <1>0, <2>8 DEF Spawn, Goto
  <2>9. CASE SpawnFails
    BY <1>0, <2>9 DEF SpawnFails, Goto
  <2>10. CASE Flush
    BY <1>0, <2>10, SlotsLeft DEF Flush, TakeDown, Goto
  <2>11. CASE Leave
    BY <1>0, <2>11, SlotsLeft DEF Leave, Goto
  <2> QED
    BY <1>1, <2>1, <2>2, <2>3, <2>4, <2>5, <2>6, <2>7, <2>8, <2>9, <2>10,
       <2>11
    DEF Handler
<1>2. CASE OwnEvent
  <2>1. CASE Change \/ PollRevoked \/ PollEnded
    BY <1>0, <2>1, SlotsLeft DEF Change, PollRevoked, PollEnded, TakeDown
  <2>2. CASE PeerPrepared
    BY <1>0, <2>2 DEF PeerPrepared, Goto
  <2>3. CASE PeerPreparedTooLate
    BY <1>0, <2>3 DEF PeerPreparedTooLate, CloseSession
  <2>4. CASE PreparationFailed
    BY <1>0, <2>4 DEF PreparationFailed
  <2> QED BY <1>2, <2>1, <2>2, <2>3, <2>4 DEF OwnEvent
<1>3. CASE RemoteEvent
  <2>1. CASE Refuse \/ EarlyOffer \/ Left
    BY <1>0, <2>1, SlotsLeft DEF Refuse, EarlyOffer, Left, TakeDown
  <2>2. ASSUME NEW b \in BOOLEAN, BeControlled(b) PROVE SlotInv'
    BY <1>0, <2>2, SlotsLeft DEF BeControlled, Supersede, TakeDown
  <2> QED BY <1>3, <2>1, <2>2 DEF RemoteEvent
<1>4. CASE PeerEvent \/ User \/ Gates
  <2>1. UNCHANGED <<pc, then, rooms, preparing, joining, peer, closing, stage>>
    BY <1>4 DEF PeerEvent, ConnectionState, MediaEnds, UserBackendExits,
       User, Gates
  <2> QED BY <1>0, <2>1, SlotsLeft
<1>5. ASSUME NEW s \in Sessions, Task(s) PROVE SlotInv'
  <2>1. UNCHANGED <<pc, then, rooms, preparing, joining, peer, closing>>
    BY <1>5 DEF Task, TaskBuilds, TaskFails, OrphanDropped
  <2>2. CASE TaskBuilds(s)
    BY <1>0, <2>1, <2>2 DEF TaskBuilds
  <2>3. CASE TaskFails(s)
    BY <1>0, <2>1, <2>3 DEF TaskFails
  <2>4. CASE OrphanDropped(s)
    BY <1>0, <2>1, <2>4 DEF OrphanDropped
  <2> QED BY <1>5, <2>2, <2>3, <2>4 DEF Task
<1>6. CASE Shutdown
  BY <1>0, <1>6 DEF Shutdown, TakeDown
<1>7. CASE TransportLost
  BY <1>0, <1>7, SlotsLeft DEF TransportLost, TakeDown
<1>8. CASE NextRoom
  <2>1. ~Leaving
    BY <1>8, RoomAssumption DEF RoomAssumption, NextRoom
  <2> QED BY <1>0, <1>8, <2>1, SlotsLeft DEF NextRoom
<1>9. CASE Power
  BY <1>0, <1>9, SlotsLeft
  DEF Power, PowerReady, PowerExecuted, ControlEnds, TakeDown, Goto
<1>10. CASE UNCHANGED roomVars
  <2>1. UNCHANGED <<pc, then, rooms, preparing, joining, peer, closing, stage>>
    BY <1>10
  <2> QED BY <1>0, <2>1, SlotsLeft
<1> QED
  BY <1>1, <1>2, <1>3, <1>4, <1>5, <1>6, <1>7, <1>8, <1>9, <1>10 DEF RoomNext

LEMMA RoomInvariant == RoomInit /\ [][RoomNext]_roomVars
                         => [](TypeOK /\ LeaseInv /\ RoomInv /\ SlotInv)
<1>1. RoomInit => TypeOK /\ LeaseInv /\ RoomInv /\ SlotInv
  BY RoomInvInit, TypeInit, LeaseInvInit, SlotInit DEF RoomInit
<1>2. TypeOK /\ LeaseInv /\ RoomInv /\ SlotInv /\ [RoomNext]_roomVars
        => (TypeOK /\ LeaseInv /\ RoomInv /\ SlotInv)'
  <2> SUFFICES ASSUME TypeOK, LeaseInv, RoomInv, SlotInv, [RoomNext]_roomVars
               PROVE  (TypeOK /\ LeaseInv /\ RoomInv /\ SlotInv)'
    OBVIOUS
  <2>1. [Next]_accessVars /\ TypeOK' /\ RoomInv'
    BY RoomInvStep
  <2>2. Forward /\ stopped \subseteq stopped'
    BY <2>1, ForwardStep, StepMoves DEF TypeOK
  <2>3. LeaseInv' /\ SlotInv'
    BY <2>1, <2>2, LeaseInvStep, SlotStep DEF TypeOK
  <2> QED BY <2>1, <2>3
<1> QED BY <1>1, <1>2, PTL

(***************************************************************************)
(* Two sessions never hold displays, encoders and transports at once.      *)
(***************************************************************************)
THEOREM OneAlive == RoomSpec => []OneSessionAlive
<1>1. SlotInv => OneSessionAlive
  BY DEF SlotInv
<1> QED BY <1>1, RoomInvariant, PTL DEF RoomSpec

(***************************************************************************)
(* No session that holds resources is out of the actor's hands, except for *)
(* a cancelled one whose task drops it after the last room was shut down.  *)
(***************************************************************************)
THEOREM NoneForgotten == RoomSpec => []NothingForgotten
<1>1. SlotInv => NothingForgotten
  BY DEF SlotInv, HandsAtPc, InHand, Leaving, NothingForgotten
<1> QED BY <1>1, RoomInvariant, PTL DEF RoomSpec

(***************************************************************************)
(* Every session shown in the room has its owner, its end is reported once *)
(* and no stale lease of it comes back.                                    *)
(***************************************************************************)
THEOREM RoomSessionOwned ==
  RoomSpec => []SessionHasOwner /\ []EndReportedOnce /\ RefusedForEver
  BY RoomImplementsAccess, SessionOwned, EndReported, StaleStaysStale
  DEF ImplementsAccess

-----------------------------------------------------------------------------
(***************************************************************************)
(* clear_out.  It is sent at the awaits of a take-down that began with it: *)
(* the user decided, the poll found the session cut off, or control ended  *)
(* for a power action.  What was cut off then is cut off when the message  *)
(* goes out (CutKept): a decision the other way makes the owner stale.     *)
(***************************************************************************)
USE DEF accessVars, decision, gate, shown, assist, handed, history

TakingDown == {"cancel", "join", "peer", "close"}

Cut == ~active \/ ~allowed \/ Revoked(peer)

NotifyInv ==
    pc \in TakingDown /\ notify /\ peer # 0 /\ then # "execute" => Cut

\* While a power action is carried out the room is on its way to it, or out.
ExecutingInv ==
    powerExecuting =>
      \/ then = "execute" /\ pc \in TakingDown \cup {"execute"}
      \/ Leaving

\* No owner is newer than the decision the room has read.
SeenInv ==
    /\ seen \in Nat /\ seen <= permission /\ desired <= permission
    /\ request \in Nat /\ request <= seen
    /\ authorization \in Nat /\ authorization <= seen
    /\ grant.permission \in Nat /\ grant.permission <= seen
    /\ \A l \in held : l.permission <= seen

\* Before its first event a room has no session.
FreshInv ==
    ~initialized =>
      /\ authorization = 0 /\ preparing = 0 /\ peer = 0
      /\ then \in {"ready", "execute", "leave"}
      /\ pc \in TakingDown \cup {"ready", "execute", "leave", "closed"}

LEMMA HeldRefused ==
  ASSUME TypeOK, LeaseInv, [Next]_accessVars, NEW l \in held, Current(l)'
  PROVE  Current(l)
<1>0. /\ permission \in Nat /\ media \in Nat /\ admission \in Nat
      /\ l.permission \in 1..permission /\ l.media \in 0..media
      /\ l.token \in 0..admission
      /\ l.media # 0 /\ l.stream = 0
  BY DEF TypeOK, NumbersOK, Lease, LeaseInv, LeaseKinds
<1>1. Moves /\ stopped \subseteq stopped'
  BY StepMoves
<1>2. admission' \in Nat /\ admission <= admission'
  BY ForwardStep DEF TypeOK, Forward
<1>3. /\ active' /\ allowed' /\ l.permission = permission'
      /\ l.media = media'
      /\ l.stop => l.session \notin stopped'
      /\ l.token # 0 => l.token = admission'
  BY <1>0 DEF Current, CurrentOwner
<1>4. UNCHANGED <<permission, media, active, allowed>>
  <2>1. permission' # permission + 1 /\ media' # media + 1
    BY <1>0, <1>3
  <2> QED BY <1>1, <2>1 DEF Moves
<1>5. l.token # 0 => l.token = admission
  BY <1>0, <1>2, <1>3
<1> QED BY <1>0, <1>1, <1>3, <1>4, <1>5 DEF Current, CurrentOwner

LEMMA CutKept ==
  ASSUME TypeOK, LeaseInv, [Next]_accessVars,
         held' \subseteq held, peer' = peer, Cut
  PROVE  Cut'
<1>0. /\ permission \in Nat
      /\ \A l \in held : l.permission \in 1..permission
  BY DEF TypeOK, NumbersOK, Lease
<1>1. CASE permission' = permission + 1
  <2>1. \A l \in held : ~Current(l)'
    BY <1>0, <1>1 DEF Current, CurrentOwner
  <2> QED BY <2>1 DEF Cut, Revoked, Owners
<1>2. CASE UNCHANGED <<active, allowed>>
  BY <1>2, HeldRefused DEF Cut, Revoked, Owners
<1> QED BY <1>1, <1>2, StepMoves DEF Moves

LEMMA DesiredStep ==
  ASSUME NumbersOK, desired <= permission, [Next]_accessVars
  PROVE  desired' <= permission'
<1>0. /\ permission \in Nat /\ permission' \in Nat
      /\ permission <= permission' /\ desired \in Nat
  BY ForwardStep DEF NumbersOK, Forward
<1>1. CASE UserStep
  BY <1>0, <1>1
  DEF UserStep, SetAllowed, Retry, Retire, RoomClosed, DisconnectSession,
      Publish
<1>2. CASE ~UserStep
  <2>1. desired' = desired
    <3>1. CASE GateStep
      BY <3>1 DEF GateStep, PrepareUpdate, CancelUpdate, SetPowerAllowed,
         BeginPower, PowerResult, AssistReady, AssistConfigure
    <3>2. ASSUME NEW l \in leases, LeaseStep(l) PROVE desired' = desired
      BY <3>2 DEF LeaseStep, ForAssistance, PeerLease, BeginStream,
         ClearStream, Update, Show, FinishLease
    <3>3. CASE \/ UpdateHandle
               \/ \E g \in 1..permission : TakeRoomLease(g)
               \/ \E s \in 1..minted : CancelPeer(s)
               \/ \E l \in held : DropOwner(l)
      BY <3>3 DEF UpdateHandle, Show, TakeRoomLease, CancelPeer, DropOwner
    <3>4. CASE UNCHANGED accessVars
      BY <3>4
    <3> QED BY <1>2, <3>1, <3>2, <3>3, <3>4 DEF Next
  <2> QED BY <1>0, <2>1
<1> QED BY <1>1, <1>2

-----------------------------------------------------------------------------
(* Only the admission of a controller adds an owner.                        *)

LEMMA UpdateKeepsHeld ==
  ASSUME NEW l, NEW c, UpdateIfCurrent(l, c)
  PROVE  held' = held
  BY DEF UpdateIfCurrent, Update, Show

LEMMA DropShrinks ==
  ASSUME NEW s, DropSession(s)
  PROVE  held' \subseteq held
  BY DEF DropSession, DropOwner

LEMMA HeldShrinks ==
  ASSUME [RoomNext]_roomVars, ~Admit
  PROVE  held' \subseteq held
<1>1. CASE CancelPreparation \/ TakePeer
  BY <1>1 DEF CancelPreparation, TakePeer, Cancel, CancelPeer
<1>2. CASE ClosePeer \/ SpawnFails
  BY <1>2, DropShrinks DEF ClosePeer, SpawnFails
<1>3. CASE Announce \/ Enabled \/ Report \/ Spawn
  BY <1>3, UpdateKeepsHeld DEF Announce, Enabled, Report, Spawn
<1>4. CASE ApplyRequest
  BY <1>4 DEF ApplyRequest, TakeRoomLease, UpdateHandle, Show
<1>5. CASE JoinPreparation \/ Enable \/ Undo \/ Disable \/ Flush \/ Leave
  BY <1>5 DEF JoinPreparation, Enable, Undo, Disable, Flush, Leave,
     SetControllable, UpdateHandle, Show, RoomClosed
<1>6. CASE OwnEvent \/ TransportLost \/ NextRoom
  BY <1>6 DEF OwnEvent, Change, PollRevoked, PollEnded, PeerPrepared,
     PeerPreparedTooLate, PreparationFailed, TransportLost, NextRoom
<1>7. CASE RemoteEvent
  BY <1>7 DEF RemoteEvent, Refuse, EarlyOffer, Left, BeControlled,
     ForAssistance
<1>8. CASE PeerEvent
  BY <1>8, UpdateKeepsHeld
  DEF PeerEvent, ConnectionState, MediaEnds, UserBackendExits, CancelPeer,
      FinishLease
<1>9. CASE Power
  BY <1>9 DEF Power, PowerReady, PowerExecuted, BeginPower, PowerResult
<1>10. ASSUME NEW s \in Sessions, Task(s) PROVE held' \subseteq held
  BY <1>10, DropShrinks DEF Task, TaskBuilds, TaskFails, OrphanDropped
<1>11. CASE User
  BY <1>11 DEF User, Retry, Retire, SetAllowed, DisconnectSession
<1>12. CASE Gates
  BY <1>12 DEF Gates, PrepareUpdate, CancelUpdate, SetPowerAllowed,
     AssistReady, AssistConfigure
<1>13. CASE Shutdown
  BY <1>13, DropShrinks DEF Shutdown
<1>14. CASE UNCHANGED roomVars
  BY <1>14
<1> QED
  BY <1>1, <1>2, <1>3, <1>4, <1>5, <1>6, <1>7, <1>8, <1>9, <1>10, <1>11,
     <1>12, <1>13, <1>14
  DEF RoomNext, Handler

-----------------------------------------------------------------------------
(* Each part of the invariant is kept.                                      *)

LEMMA ExecutingBegins ==
  ASSUME [RoomNext]_roomVars, ~PowerReady, powerExecuting'
  PROVE  powerExecuting
<1>1. CASE Handler
  BY <1>1
  DEF Handler, CancelPreparation, JoinPreparation, TakePeer, ClosePeer,
      ApplyRequest, Announce, Enable, Enabled, Undo, Report, Disable, Admit,
      Spawn, SpawnFails, Flush, Leave, SetControllable, Cancel, CancelPeer,
      DropSession, DropOwner, UpdateIfCurrent, Update, UpdateHandle, Show,
      TakeRoomLease, PeerLease, RoomClosed
<1>2. CASE OwnEvent \/ RemoteEvent \/ Shutdown \/ TransportLost \/ NextRoom
  BY <1>2
  DEF OwnEvent, Change, PollRevoked, PollEnded, PeerPrepared,
      PeerPreparedTooLate, PreparationFailed, RemoteEvent, Refuse, EarlyOffer,
      Left, BeControlled, ForAssistance, Shutdown, TransportLost, NextRoom,
      DropSession, DropOwner
<1>3. CASE PeerEvent
  BY <1>3
  DEF PeerEvent, ConnectionState, MediaEnds, UserBackendExits, CancelPeer,
      FinishLease, UpdateIfCurrent, Update, Show
<1>4. CASE PowerExecuted
  BY <1>4 DEF PowerExecuted, PowerResult
<1>5. ASSUME NEW s \in Sessions, Task(s) PROVE powerExecuting
  BY <1>5 DEF Task, TaskBuilds, TaskFails, OrphanDropped, DropSession,
     DropOwner
<1>6. CASE User
  BY <1>6 DEF User, Retry, Retire, SetAllowed, DisconnectSession
<1>7. CASE Gates
  BY <1>7 DEF Gates, PrepareUpdate, CancelUpdate, SetPowerAllowed,
     AssistReady, AssistConfigure
<1>8. CASE UNCHANGED roomVars
  BY <1>8
<1> QED
  BY <1>1, <1>2, <1>3, <1>4, <1>5, <1>6, <1>7, <1>8 DEF RoomNext, Power

LEMMA ExecutingStep ==
  ASSUME RoomInv, SlotInv, ExecutingInv, [RoomNext]_roomVars
  PROVE  ExecutingInv'
<1> SUFFICES ASSUME powerExecuting' PROVE ExecutingInv'
  BY DEF ExecutingInv
<1>1. CASE PowerReady
  BY <1>1
  DEF PowerReady, PowerResult, ControlEnds, TakeDown, ExecutingInv,
      TakingDown
<1>2. CASE ~PowerReady
  <2>1. \/ then = "execute" /\ pc \in TakingDown \cup {"execute"}
        \/ /\ Leaving
           /\ pc \in {"cancel", "join", "peer", "close", "leave", "closed"}
    BY <1>2, ExecutingBegins DEF ExecutingInv, SlotInv, HandsAtPc, Leaving
  <2>2. CASE Handler
    BY <2>1, <2>2
    DEF Handler, CancelPreparation, JoinPreparation, TakePeer, ClosePeer,
        ApplyRequest, Announce, Enable, Enabled, Undo, Report, Disable, Admit,
        Spawn, SpawnFails, Flush, Leave, CloseSession, Goto,
        ExecutingInv, TakingDown, Leaving
  <2>3. CASE OwnEvent
    BY <2>1, <2>3
    DEF OwnEvent, Change, PollRevoked, PollEnded, PeerPrepared,
        PeerPreparedTooLate, PreparationFailed, TakingDown
  <2>4. CASE RemoteEvent \/ TransportLost
    BY <2>1, <2>4
    DEF RemoteEvent, Refuse, EarlyOffer, Left, BeControlled, TransportLost,
        TakingDown
  <2>5. CASE PowerExecuted
    BY <2>5 DEF PowerExecuted, PowerResult
  <2>6. CASE Shutdown
    BY <2>6 DEF Shutdown, TakeDown, ExecutingInv, Leaving
  <2>7. CASE NextRoom
    BY <2>1, <2>7, RoomAssumption
    DEF RoomAssumption, NextRoom, TakingDown, Leaving
  <2>8. CASE \/ PeerEvent \/ User \/ Gates
             \/ \E s \in Sessions : Task(s)
             \/ UNCHANGED roomVars
    <3>1. UNCHANGED <<pc, then, rooms>>
      BY <2>8
      DEF PeerEvent, ConnectionState, MediaEnds, UserBackendExits, User,
          Gates, Task, TaskBuilds, TaskFails, OrphanDropped
    <3> QED BY <2>1, <3>1 DEF ExecutingInv, Leaving
  <2> QED
    BY <1>2, <2>2, <2>3, <2>4, <2>5, <2>6, <2>7, <2>8 DEF RoomNext, Power
<1> QED BY <1>1, <1>2

LEMMA SeenKept ==
  ASSUME TypeOK, SeenInv, [Next]_accessVars, held' \subseteq held,
         UNCHANGED <<seen, request, authorization, grant>>
  PROVE  SeenInv'
<1>1. /\ permission \in Nat /\ permission' \in Nat
      /\ permission <= permission' /\ desired' <= permission'
  BY ForwardStep, DesiredStep DEF TypeOK, NumbersOK, Forward, SeenInv
<1> QED BY <1>1 DEF SeenInv

LEMMA SeenStep ==
  ASSUME TypeOK, RoomInv, SeenInv, [RoomNext]_roomVars
  PROVE  SeenInv'
<1>0. /\ [Next]_accessVars
      /\ permission \in Nat /\ permission' \in Nat /\ desired \in Nat
      /\ permission <= permission' /\ desired' <= permission'
      /\ \A l \in held : l.permission \in Nat
  <2>1. [Next]_accessVars
    BY RoomInvStep
  <2>2. \A l \in held : l.permission \in Nat
    BY DEF TypeOK, NumbersOK, Lease
  <2> QED
    BY <2>1, <2>2, ForwardStep, DesiredStep
    DEF TypeOK, NumbersOK, Forward, SeenInv
<1>1. CASE Change
  <2>1. /\ seen' = permission /\ request' = desired /\ authorization' = 0
        /\ UNCHANGED <<grant, permission, desired, held>>
    BY <1>1 DEF Change
  <2> QED BY <1>0, <2>1 DEF SeenInv
<1>2. CASE Enabled
  <2>1. /\ authorization' \in {authorization, request}
        /\ UNCHANGED <<seen, request, grant>>
    BY <1>2, Zenon DEF Enabled
  <2>2. held' \subseteq held
    BY <1>2, UpdateKeepsHeld DEF Enabled
  <2> QED BY <1>0, <2>1, <2>2 DEF SeenInv
<1>3. ASSUME NEW b \in BOOLEAN, BeControlled(b) PROVE SeenInv'
  <2>1. /\ grant'.permission = authorization
        /\ UNCHANGED <<seen, request, authorization, held>>
    BY <1>3 DEF BeControlled, ForAssistance, RoomLease
  <2> QED BY <1>0, <2>1 DEF SeenInv
<1>4. CASE Admit
  <2>1. UNCHANGED <<seen, request, authorization, grant>>
    BY <1>4 DEF Admit
  <2>2. \A l \in held' : l \in held \/ l.permission = grant.permission
    <3>1. CASE PeerLease(grant)
      <4>1. grant \in Lease
        BY <1>4 DEF Admit, RoomInv, GrantHeld, TypeOK, NumbersOK
      <4> QED BY <3>1, <4>1 DEF PeerLease, SessionLease, Lease
    <3>2. CASE UNCHANGED accessVars
      BY <3>2
    <3> QED BY <1>4, <3>1, <3>2 DEF Admit
  <2> QED BY <1>0, <2>1, <2>2 DEF SeenInv
<1>5. CASE NextRoom
  <2>1. /\ seen' = permission /\ authorization' = 0
        /\ UNCHANGED <<request, grant, permission, held>>
    BY <1>5 DEF NextRoom
  <2> QED BY <1>0, <2>1 DEF SeenInv
<1>6. ASSUME ~Change, ~Enabled, ~Admit, ~NextRoom,
             \A b \in BOOLEAN : ~BeControlled(b)
      PROVE  SeenInv'
  <2>1. held' \subseteq held
    BY <1>6, HeldShrinks
  <2>2. UNCHANGED <<seen, request, authorization, grant>>
    <3>1. CASE Handler
      BY <1>6, <3>1
      DEF Handler, CancelPreparation, JoinPreparation, TakePeer, ClosePeer,
          ApplyRequest, Announce, Enable, Undo, Report, Disable, Spawn,
          SpawnFails, Flush, Leave, SetControllable
    <3>2. CASE OwnEvent \/ RemoteEvent
      BY <1>6, <3>2
      DEF OwnEvent, PollRevoked, PollEnded, PeerPrepared,
          PeerPreparedTooLate, PreparationFailed, RemoteEvent, Refuse,
          EarlyOffer, Left
    <3>3. CASE PeerEvent \/ Power \/ Shutdown \/ TransportLost
      BY <3>3
      DEF PeerEvent, ConnectionState, MediaEnds, UserBackendExits, Power,
          PowerReady, PowerExecuted, Shutdown, TransportLost
    <3>4. CASE \/ User \/ Gates \/ \E s \in Sessions : Task(s)
               \/ UNCHANGED roomVars
      BY <3>4 DEF User, Gates, Task, TaskBuilds, TaskFails, OrphanDropped
    <3> QED BY <1>6, <3>1, <3>2, <3>3, <3>4 DEF RoomNext
  <2> QED BY <1>0, <2>1, <2>2, SeenKept
<1> QED BY <1>1, <1>2, <1>3, <1>4, <1>5, <1>6

LEMMA FreshStep ==
  ASSUME SlotInv, RoomInv, FreshInv, [RoomNext]_roomVars
  PROVE  FreshInv'
<1> SUFFICES ASSUME ~initialized' PROVE FreshInv'
  BY DEF FreshInv
<1>1. CASE NextRoom
  BY <1>1 DEF NextRoom, FreshInv, SlotInv, HandsAtPc
<1>2. CASE ~NextRoom
  <2>0. ~initialized
    BY <1>2
    DEF RoomNext, Handler, CancelPreparation, JoinPreparation, TakePeer,
        ClosePeer, ApplyRequest, Announce, Enable, Enabled, Undo, Report,
        Disable, Admit, Spawn, SpawnFails, Flush, Leave, SetControllable,
        OwnEvent, Change, PollRevoked, PollEnded, PeerPrepared,
        PeerPreparedTooLate, PreparationFailed, RemoteEvent, Refuse,
        EarlyOffer, Left, BeControlled, PeerEvent, ConnectionState, MediaEnds,
        UserBackendExits, Power, PowerReady, PowerExecuted, Task, TaskBuilds,
        TaskFails, OrphanDropped, User, Gates, Shutdown, TransportLost
  <2>1. /\ authorization = 0 /\ preparing = 0 /\ peer = 0
        /\ then \in {"ready", "execute", "leave"}
        /\ pc \in TakingDown \cup {"ready", "execute", "leave", "closed"}
    BY <2>0 DEF FreshInv
  <2>2. CASE Handler
    BY <2>1, <2>2
    DEF Handler, CancelPreparation, JoinPreparation, TakePeer, ClosePeer,
        ApplyRequest, Announce, Enable, Enabled, Undo, Report, Disable, Admit,
        Spawn, SpawnFails, Flush, Leave, CloseSession, Goto, TakingDown,
        FreshInv
  <2>3. CASE OwnEvent
    BY <2>0, <2>1, <2>3
    DEF OwnEvent, Change, PollRevoked, PollEnded, PeerPrepared,
        PeerPreparedTooLate, PreparationFailed
  <2>4. CASE RemoteEvent
    BY <2>1, <2>4
    DEF RemoteEvent, Refuse, EarlyOffer, Left, BeControlled, TakingDown,
        FreshInv
  <2>5. CASE Power
    BY <2>1, <2>5
    DEF Power, PowerReady, PowerExecuted, ControlEnds, TakeDown, Goto,
        TakingDown, FreshInv
  <2>6. CASE Shutdown \/ TransportLost
    BY <2>1, <2>6 DEF Shutdown, TransportLost, TakeDown, TakingDown, FreshInv
  <2>7. CASE \/ PeerEvent \/ User \/ Gates
             \/ \E s \in Sessions : Task(s)
             \/ UNCHANGED roomVars
    <3>1. UNCHANGED <<pc, then, authorization, preparing, peer>>
      BY <2>7
      DEF PeerEvent, ConnectionState, MediaEnds, UserBackendExits, User,
          Gates, Task, TaskBuilds, TaskFails, OrphanDropped
    <3> QED BY <2>1, <3>1 DEF FreshInv
  <2> QED
    BY <1>2, <2>2, <2>3, <2>4, <2>5, <2>6, <2>7 DEF RoomNext
<1> QED BY <1>1, <1>2

LEMMA NotifyKept ==
  ASSUME TypeOK, LeaseInv, [Next]_accessVars, NotifyInv,
         held' \subseteq held, peer' \in {peer, 0}, then' = then,
         notify' = notify, pc' \in TakingDown => pc \in TakingDown
  PROVE  NotifyInv'
<1> SUFFICES ASSUME pc' \in TakingDown, notify', peer' # 0, then' # "execute"
             PROVE  Cut'
  BY DEF NotifyInv
<1>1. peer' = peer /\ Cut
  BY DEF NotifyInv
<1> QED BY <1>1, CutKept

\* An owner older than the decision is refused.
LEMMA OlderRefused ==
  ASSUME permission \in Nat, seen \in Nat, seen < permission,
         \A l \in held : l.permission \in Nat /\ l.permission <= seen
  PROVE  Revoked(peer)
  BY DEF Revoked, Owners, Current, CurrentOwner

LEMMA NotifyStep ==
  ASSUME TypeOK, LeaseInv, RoomInv, SlotInv,
         SeenInv, FreshInv, ExecutingInv, NotifyInv, [RoomNext]_roomVars
  PROVE  NotifyInv'
<1>0. [Next]_accessVars
  BY RoomInvStep
<1>1. CASE Handler
  <2>1. CASE Admit
    BY <2>1 DEF Admit, Goto, NotifyInv, TakingDown
  <2>2. CASE Flush
    BY <2>2 DEF Flush, Goto, TakeDown, NotifyInv, TakingDown
  <2>3. CASE TakePeer
    BY <2>3 DEF TakePeer, CloseSession, NotifyInv
  <2>4. CASE CancelPreparation \/ JoinPreparation \/ ClosePeer
    <3>1. /\ held' \subseteq held
          /\ UNCHANGED <<peer, then, notify>> /\ pc \in TakingDown
      BY <2>4, DropShrinks
      DEF CancelPreparation, JoinPreparation, ClosePeer, CloseSession, Goto,
          TakingDown, Cancel, CancelPeer
    <3> QED BY <1>0, <3>1, NotifyKept
  <2>5. CASE \/ ApplyRequest \/ Announce \/ Enable \/ Enabled \/ Undo
             \/ Report \/ Disable \/ Spawn \/ SpawnFails \/ Leave
    <3>1. pc' \notin TakingDown
      BY <2>5
      DEF ApplyRequest, Announce, Enable, Enabled, Undo, Report, Disable,
          Spawn, SpawnFails, Leave, Goto, TakingDown
    <3> QED BY <3>1 DEF NotifyInv
  <2> QED BY <1>1, <2>1, <2>2, <2>3, <2>4, <2>5 DEF Handler
<1>2. CASE OwnEvent
  <2>1. CASE Change
    <3>1. CASE ~initialized
      BY <2>1, <3>1 DEF Change, FreshInv, NotifyInv
    <3>2. CASE initialized
      <4>1. permission \in Nat /\ seen \in Nat /\ seen < permission
        BY <2>1, <3>2 DEF Change, SeenInv, TypeOK, NumbersOK
      <4>2. \A l \in held : l.permission \in Nat /\ l.permission <= seen
        BY DEF SeenInv, TypeOK, NumbersOK, Lease
      <4>3. Cut
        BY <4>1, <4>2, OlderRefused DEF Cut
      <4>4. held' \subseteq held /\ peer' = peer
        BY <2>1 DEF Change
      <4> QED BY <1>0, <4>3, <4>4, CutKept DEF NotifyInv
    <3> QED BY <3>1, <3>2
  <2>2. CASE PollRevoked
    <3>1. ~powerExecuting
      BY <2>2
      DEF PollRevoked, ExecutingInv, TakingDown, Leaving, SlotInv, HandsAtPc
    <3>2. Cut
      BY <2>2, <3>1 DEF PollRevoked, Requested, Cut
    <3>3. held' \subseteq held /\ peer' = peer
      BY <2>2 DEF PollRevoked
    <3> QED BY <1>0, <3>2, <3>3, CutKept DEF NotifyInv
  <2>3. CASE PollEnded \/ PeerPrepared \/ PeerPreparedTooLate
             \/ PreparationFailed
    BY <2>3
    DEF PollEnded, QuietEnd, PeerPrepared, PeerPreparedTooLate,
        PreparationFailed, CloseSession, Goto, NotifyInv, TakingDown
  <2> QED BY <1>2, <2>1, <2>2, <2>3 DEF OwnEvent
<1>3. CASE RemoteEvent \/ Shutdown \/ TransportLost \/ NextRoom
  BY <1>3
  DEF RemoteEvent, Refuse, EarlyOffer, Left, BeControlled, Supersede,
      TakeDown, Shutdown, TransportLost, NextRoom, NotifyInv, TakingDown
<1>4. CASE Power
  BY <1>4
  DEF Power, PowerReady, PowerExecuted, ControlEnds, TakeDown, Goto,
      NotifyInv, TakingDown
<1>5. CASE \/ PeerEvent \/ User \/ Gates
           \/ \E s \in Sessions : Task(s)
           \/ UNCHANGED roomVars
  <2>1. CASE pc = "admit"
    <3>1. pc' = pc
      BY <1>5
      DEF PeerEvent, ConnectionState, MediaEnds, UserBackendExits, User,
          Gates, Task, TaskBuilds, TaskFails, OrphanDropped
    <3> QED BY <2>1, <3>1 DEF NotifyInv, TakingDown
  <2>2. CASE pc # "admit"
    <3>1. held' \subseteq held
      BY <2>2, HeldShrinks DEF Admit
    <3>2. UNCHANGED <<pc, then, notify, peer>>
      BY <1>5
      DEF PeerEvent, ConnectionState, MediaEnds, UserBackendExits, User,
          Gates, Task, TaskBuilds, TaskFails, OrphanDropped
    <3> QED BY <1>0, <3>1, <3>2, NotifyKept
  <2> QED BY <2>1, <2>2
<1> QED BY <1>1, <1>2, <1>3, <1>4, <1>5 DEF RoomNext

-----------------------------------------------------------------------------
NoticeInv == SeenInv /\ FreshInv /\ ExecutingInv /\ NotifyInv

LEMMA NoticeInit == RoomInit => NoticeInv
<1> SUFFICES ASSUME RoomInit PROVE NoticeInv
  OBVIOUS
<1>1. /\ seen = 0 /\ request = 0 /\ authorization = 0 /\ grant.permission = 0
      /\ held = {} /\ desired = 0 /\ permission \in Nat
      /\ pc = "ready" /\ then = "ready" /\ ~powerExecuting
      /\ preparing = 0 /\ peer = 0
  BY DEF RoomInit, Init, RoomLease
<1>2. SeenInv
  BY <1>1 DEF SeenInv
<1> QED BY <1>1, <1>2 DEF NoticeInv, FreshInv, ExecutingInv, NotifyInv,
        TakingDown

LEMMA NoticeInvariant == RoomInit /\ [][RoomNext]_roomVars => []NoticeInv
<1>1. TypeOK /\ LeaseInv /\ RoomInv /\ SlotInv /\ NoticeInv
          /\ [RoomNext]_roomVars
        => NoticeInv'
  <2> SUFFICES ASSUME TypeOK, LeaseInv, RoomInv, SlotInv, NoticeInv,
                      [RoomNext]_roomVars
               PROVE  NoticeInv'
    OBVIOUS
  <2>1. SeenInv /\ FreshInv /\ ExecutingInv /\ NotifyInv
    BY DEF NoticeInv
  <2>2. SeenInv' /\ FreshInv'
    BY <2>1, SeenStep, FreshStep
  <2>3. ExecutingInv'
    BY <2>1, ExecutingStep
  <2>4. NotifyInv'
    BY <2>1, NotifyStep
  <2> QED BY <2>2, <2>3, <2>4 DEF NoticeInv
<1> QED BY <1>1, NoticeInit, RoomInvariant, PTL

LEMMA ToldWhenCut ==
  ASSUME TypeOK, SlotInv, NoticeInv, [RoomNext]_roomVars, told' # told
  PROVE  peer = 0 \/ Revoked(peer) \/ ~Requested \/ then = "execute"
<1>1. CASE CancelPreparation
  BY <1>1 DEF CancelPreparation, SlotInv, OneHand
<1>2. CASE TakePeer
  BY <1>2 DEF TakePeer, NoticeInv, NotifyInv, TakingDown, Cut, Requested
<1>3. CASE Refuse
  BY <1>3 DEF Refuse
<1>4. CASE PreparationFailed
  BY <1>4 DEF PreparationFailed, SlotInv, OneHand
<1>5. ASSUME ~CancelPreparation, ~TakePeer, ~Refuse, ~PreparationFailed
      PROVE  told' = told
  <2>1. CASE Handler
    BY <1>5, <2>1
    DEF Handler, JoinPreparation, ClosePeer, ApplyRequest, Announce, Enable,
        Enabled, Undo, Report, Disable, Admit, Spawn, SpawnFails, Flush,
        Leave, SetControllable
  <2>2. CASE OwnEvent \/ RemoteEvent
    BY <1>5, <2>2
    DEF OwnEvent, Change, PollRevoked, PollEnded, PeerPrepared,
        PeerPreparedTooLate, RemoteEvent, EarlyOffer, Left, BeControlled
  <2>3. CASE PeerEvent \/ Power \/ Shutdown \/ TransportLost \/ NextRoom
    BY <2>3
    DEF PeerEvent, ConnectionState, MediaEnds, UserBackendExits, Power,
        PowerReady, PowerExecuted, Shutdown, TransportLost, NextRoom
  <2>4. CASE \/ User \/ Gates \/ \E s \in Sessions : Task(s)
             \/ UNCHANGED roomVars
    BY <2>4 DEF User, Gates, Task, TaskBuilds, TaskFails, OrphanDropped
  <2> QED BY <2>1, <2>2, <2>3, <2>4 DEF RoomNext
<1> QED BY <1>1, <1>2, <1>3, <1>4, <1>5

(***************************************************************************)
(* clear_out is sent only while no session is served that the host means   *)
(* to keep, although the actor awaits calls between its decision to send   *)
(* it and the message.                                                     *)
(***************************************************************************)
THEOREM ToldOnlyWhenCut == RoomSpec => ClearOutOnlyWhenCut
<1>1. TypeOK /\ SlotInv /\ NoticeInv
        => [told' # told => \/ peer = 0
                            \/ Revoked(peer)
                            \/ ~Requested
                            \/ then = "execute"]_roomVars
           \/ ~[RoomNext]_roomVars
  BY ToldWhenCut
<1> QED
  BY <1>1, RoomInvariant, NoticeInvariant, PTL
  DEF RoomSpec, ClearOutOnlyWhenCut

=============================================================================
