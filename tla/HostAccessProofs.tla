-------------------------- MODULE HostAccessProofs --------------------------
(***************************************************************************)
(* Proofs about HostAccess, for every number of tracks, sessions and       *)
(* generations: the type invariant, and that leases of two sessions are    *)
(* never both accepted.                                                    *)
(***************************************************************************)
EXTENDS HostAccess, TLAPS

USE BoundsAssumption DEF BoundsAssumption
USE DEF decision, gate, shown, assist, handed, history, accessVars

(***************************************************************************)
(* The type invariant.  No step takes a generation back, so a lease keeps  *)
(* its type.                                                               *)
(***************************************************************************)
Forward ==
    /\ permission' \in Nat /\ permission <= permission'
    /\ media' \in Nat /\ media <= media'
    /\ minted' \in 0..MaxSessions /\ minted <= minted'
    /\ admission' \in Nat \ {0} /\ admission <= admission'

LEMMA LeaseForward == NumbersOK /\ Forward => Lease \subseteq Lease'
  BY DEF NumbersOK, Forward, Lease

LEMMA TypeInit == Init => TypeOK
<1>1. Init => FlagsOK
  BY DEF Init, FlagsOK
<1>2. Init => NumbersOK
  BY DEF Init, NumbersOK
<1> QED BY <1>1, <1>2 DEF TypeOK

LEMMA FlagsStep == FlagsOK /\ [Next]_accessVars => FlagsOK'
<1> SUFFICES ASSUME FlagsOK, [Next]_accessVars PROVE FlagsOK'
  OBVIOUS
<1> USE DEF FlagsOK, FinishSession, ClearSession, ClearShown
<1>1. CASE UserStep
  BY <1>1 DEF UserStep, SetAllowed, Retry, Retire, RoomClosed,
              DisconnectSession, RevokeAdmission
<1>2. CASE GateStep
  <2>1. CASE PrepareUpdate \/ CancelUpdate
    BY <2>1, Zenon DEF PrepareUpdate, CancelUpdate
  <2>2. CASE \E b \in BOOLEAN : SetPowerAllowed(b)
    BY <2>2 DEF SetPowerAllowed
  <2>3. CASE AssistReady
    BY <2>3 DEF AssistReady
  <2>4. CASE \E b \in BOOLEAN : AssistConfigure(b)
    BY <2>4, Zenon DEF AssistConfigure
  <2>5. CASE BeginPower \/ PowerResult
    BY <2>5, Zenon DEF BeginPower, PowerResult
  <2> QED BY <1>2, <2>1, <2>2, <2>3, <2>4, <2>5 DEF GateStep
<1>3. CASE \E g \in 1..permission : TakeRoomLease(g)
  BY <1>3 DEF TakeRoomLease
<1>4. ASSUME NEW l \in leases, LeaseStep(l) PROVE FlagsOK'
  <2>1. CASE ForAssistance(l)
    BY <2>1 DEF ForAssistance
  <2>2. CASE PeerLease(l)
    BY <2>2, Zenon DEF PeerLease
  <2>3. CASE ClearStream(l) \/ \E t \in Tracks : BeginStream(l, t)
    <3>1. UNCHANGED <<allowed, active, gate, assistance, connected, since,
                      admitted>>
      BY <2>3, Zenon DEF BeginStream, ClearStream
    <3> QED BY <3>1
  <2>4. CASE \E c \in BOOLEAN : Update(l, c)
    BY <2>4 DEF Update, Show
  <2>5. CASE FinishLease(l)
    BY <2>5 DEF FinishLease, EndOwned
  <2> QED BY <1>4, <2>1, <2>2, <2>3, <2>4, <2>5 DEF LeaseStep
<1>5. CASE UpdateHandle
  BY <1>5 DEF UpdateHandle, Show
<1>6. CASE \E s \in 1..minted : CancelPeer(s)
  BY <1>6 DEF CancelPeer
<1>7. CASE \E l \in held : DropOwner(l)
  BY <1>7 DEF DropOwner, EndOwned
<1>8. CASE UNCHANGED accessVars
  BY <1>8
<1> QED BY <1>1, <1>2, <1>3, <1>4, <1>5, <1>6, <1>7, <1>8 DEF Next

LEMMA ForwardStep == NumbersOK /\ [Next]_accessVars => Forward
<1> SUFFICES ASSUME NumbersOK, [Next]_accessVars PROVE Forward
  OBVIOUS
<1> USE DEF NumbersOK, Forward
<1>1. CASE UserStep
  <2>1. CASE \E b \in BOOLEAN : SetAllowed(b)
    BY <2>1 DEF SetAllowed, NextPermission
  <2>2. CASE Retry
    BY <2>2 DEF Retry, NextPermission
  <2>3. CASE Retire
    BY <2>3 DEF Retire, NextPermission, RevokeAdmission
  <2>4. CASE RoomClosed
    BY <2>4 DEF RoomClosed, NextPermission, RevokeAdmission
  <2>5. CASE \E s \in 1..minted : DisconnectSession(s)
    BY <2>5 DEF DisconnectSession
  <2> QED BY <1>1, <2>1, <2>2, <2>3, <2>4, <2>5 DEF UserStep
<1>2. CASE GateStep
  BY <1>2 DEF GateStep, PrepareUpdate, CancelUpdate, SetPowerAllowed,
              BeginPower, PowerResult, AssistReady, AssistConfigure
<1>3. CASE \E g \in 1..permission : TakeRoomLease(g)
  BY <1>3 DEF TakeRoomLease
<1>4. ASSUME NEW l \in leases, LeaseStep(l) PROVE Forward
  <2>1. CASE PeerLease(l)
    BY <2>1 DEF PeerLease, NextOwner
  <2>2. CASE FinishLease(l)
    BY <2>2 DEF FinishLease, EndOwned
  <2>3. CASE ForAssistance(l) \/ ClearStream(l)
    BY <2>3 DEF ForAssistance, ClearStream
  <2>4. CASE \E t \in Tracks : BeginStream(l, t)
    BY <2>4 DEF BeginStream
  <2>5. CASE \E c \in BOOLEAN : Update(l, c)
    BY <2>5 DEF Update, Show
  <2> QED BY <1>4, <2>1, <2>2, <2>3, <2>4, <2>5 DEF LeaseStep
<1>5. CASE UpdateHandle
  BY <1>5 DEF UpdateHandle, Show
<1>6. CASE \E s \in 1..minted : CancelPeer(s)
  BY <1>6 DEF CancelPeer
<1>7. CASE \E l \in held : DropOwner(l)
  BY <1>7 DEF DropOwner, EndOwned
<1>8. CASE UNCHANGED accessVars
  BY <1>8
<1> QED BY <1>1, <1>2, <1>3, <1>4, <1>5, <1>6, <1>7, <1>8 DEF Next

(***************************************************************************)
(* The leases a step adds: a room's, an assistance clone, a session's      *)
(* owner with its clone, a stream's.                                       *)
(***************************************************************************)
LEMMA LeaseStepType ==
  NumbersOK /\ [Next]_accessVars => leases' \subseteq Lease' /\ held' \subseteq Lease'
<1> SUFFICES ASSUME NumbersOK, [Next]_accessVars
             PROVE  leases' \subseteq Lease' /\ held' \subseteq Lease'
  OBVIOUS
<1>1. Forward
  BY ForwardStep
<1>2. Lease \subseteq Lease'
  BY <1>1, LeaseForward
<1>3. leases \subseteq Lease' /\ held \subseteq Lease'
  BY <1>2 DEF NumbersOK
<1>4. CASE UNCHANGED <<leases, held>>
  BY <1>3, <1>4
<1>5. ASSUME NEW g \in 1..permission, TakeRoomLease(g)
      PROVE  leases' \subseteq Lease' /\ held' \subseteq Lease'
  <2>1. RoomLease(g) \in Lease
    BY DEF RoomLease, Lease, NumbersOK
  <2> QED BY <1>2, <1>3, <1>5, <2>1 DEF TakeRoomLease
<1>6. ASSUME NEW l \in leases, ForAssistance(l)
      PROVE  leases' \subseteq Lease' /\ held' \subseteq Lease'
  <2>1. l \in Lease /\ admission \in 0..admission
    BY DEF NumbersOK
  <2>2. [l EXCEPT !.token = admission] \in Lease
    BY <2>1 DEF Lease
  <2> QED BY <1>2, <1>3, <1>6, <2>2 DEF ForAssistance
<1>7. ASSUME NEW l \in leases, PeerLease(l)
      PROVE  leases' \subseteq Lease' /\ held' \subseteq Lease'
  <2>1. l \in Lease'
    BY <1>3
  <2>2. media' \in 0..media' /\ minted' \in 0..minted'
    BY <1>1 DEF Forward
  <2>3. SessionLease(l, media', minted') \in Lease'
    BY <2>1, <2>2 DEF SessionLease, Lease
  <2>4. [SessionLease(l, media', minted') EXCEPT !.stop = TRUE] \in Lease'
    BY <2>3 DEF Lease
  <2> QED BY <1>3, <1>7, <2>3, <2>4 DEF PeerLease
<1>8. ASSUME NEW l \in leases, NEW t \in Tracks, BeginStream(l, t)
      PROVE  leases' \subseteq Lease' /\ held' \subseteq Lease'
  <2>1. l \in Lease' /\ streams'[t] \in Nat
    BY <1>3, <1>8 DEF BeginStream, NumbersOK
  <2>2. [l EXCEPT !.track = t, !.stream = streams'[t]] \in Lease'
    BY <2>1 DEF Lease
  <2> QED BY <1>3, <1>8, <2>2 DEF BeginStream
<1>9. ASSUME NEW l \in held, DropOwner(l)
      PROVE  leases' \subseteq Lease' /\ held' \subseteq Lease'
  BY <1>3, <1>9 DEF DropOwner
<1>10. CASE UserStep
  BY <1>4, <1>10 DEF UserStep, SetAllowed, Retry, Retire, RoomClosed,
                     DisconnectSession
<1>11. CASE GateStep
  BY <1>4, <1>11 DEF GateStep, PrepareUpdate, CancelUpdate, SetPowerAllowed,
                     BeginPower, PowerResult, AssistReady, AssistConfigure
<1>12. ASSUME NEW l \in leases,
              \/ ClearStream(l)
              \/ FinishLease(l)
              \/ \E c \in BOOLEAN : Update(l, c)
       PROVE  leases' \subseteq Lease' /\ held' \subseteq Lease'
  BY <1>4, <1>12 DEF ClearStream, FinishLease, Update, Show
<1>13. CASE UpdateHandle \/ \E s \in 1..minted : CancelPeer(s)
  BY <1>4, <1>13 DEF UpdateHandle, Show, CancelPeer
<1> QED
  BY <1>4, <1>5, <1>6, <1>7, <1>8, <1>9, <1>10, <1>11, <1>12, <1>13
  DEF Next, LeaseStep

\* A lease that was handed out is never taken back.
LEMMA LeasesGrow == [Next]_accessVars => leases \subseteq leases'
<1> SUFFICES ASSUME [Next]_accessVars PROVE leases \subseteq leases'
  OBVIOUS
<1>1. CASE UserStep
  BY <1>1 DEF UserStep, SetAllowed, Retry, Retire, RoomClosed,
              DisconnectSession
<1>2. CASE GateStep
  BY <1>2 DEF GateStep, PrepareUpdate, CancelUpdate, SetPowerAllowed,
              BeginPower, PowerResult, AssistReady, AssistConfigure
<1>3. ASSUME NEW l \in leases, LeaseStep(l) PROVE leases \subseteq leases'
  BY <1>3 DEF LeaseStep, ForAssistance, PeerLease, BeginStream, ClearStream,
              Update, Show, FinishLease
<1>4. CASE \/ UpdateHandle
           \/ \E g \in 1..permission : TakeRoomLease(g)
           \/ \E s \in 1..minted : CancelPeer(s)
           \/ \E l \in held : DropOwner(l)
  BY <1>4 DEF UpdateHandle, Show, TakeRoomLease, CancelPeer, DropOwner
<1>5. CASE UNCHANGED accessVars
  BY <1>5
<1> QED BY <1>1, <1>2, <1>3, <1>4, <1>5 DEF Next

LEMMA FinishNumbers ==
  ASSUME NumbersOK, FinishSession
  PROVE  /\ session' \in 0..MaxSessions
         /\ streams' \in [Tracks -> Nat]
         /\ wentLive' \subseteq 1..MaxSessions
         /\ reports' \in [1..MaxSessions -> Nat]
  BY DEF NumbersOK, FinishSession, ReportEnd, ClearSession, ClearShown

LEMMA NumbersStep == NumbersOK /\ [Next]_accessVars => NumbersOK'
<1> SUFFICES ASSUME NumbersOK, [Next]_accessVars PROVE NumbersOK'
  OBVIOUS
<1>1. Forward
  BY ForwardStep
<1>2. leases' \subseteq Lease' /\ held' \subseteq Lease'
  BY LeaseStepType
<1> DEFINE Rest == /\ desired' \in Nat
                   /\ session' \in 0..MaxSessions
                   /\ streams' \in [Tracks -> Nat]
                   /\ stopped' \subseteq 1..MaxSessions
                   /\ wentLive' \subseteq 1..MaxSessions
                   /\ reports' \in [1..MaxSessions -> Nat]
<1>3. Rest
  <2>1. CASE UserStep
    <3>1. FinishSession /\ UNCHANGED stopped
      BY <2>1 DEF UserStep, SetAllowed, Retry, Retire, RoomClosed,
                  DisconnectSession
    <3>2. desired' \in Nat
      <4>1. desired' \in {0, permission', desired}
        BY <2>1 DEF UserStep, SetAllowed, Retry, Retire, RoomClosed,
                    DisconnectSession, Publish
      <4> QED BY <1>1, <4>1 DEF NumbersOK, Forward
    <3> QED BY <3>1, <3>2, FinishNumbers DEF NumbersOK
  <2>2. CASE GateStep
    <3>1. UNCHANGED <<desired, session, streams, stopped, wentLive, reports>>
      BY <2>2 DEF GateStep, PrepareUpdate, CancelUpdate, SetPowerAllowed,
                  BeginPower, PowerResult, AssistReady, AssistConfigure
    <3> QED BY <3>1 DEF NumbersOK
  <2>3. CASE \E g \in 1..permission : TakeRoomLease(g)
    BY <2>3 DEF TakeRoomLease, NumbersOK
  <2>4. ASSUME NEW l \in leases, ForAssistance(l) PROVE Rest
    BY <2>4 DEF ForAssistance, NumbersOK
  <2>5. ASSUME NEW l \in leases, PeerLease(l) PROVE Rest
    <3>1. /\ session' = minted'
          /\ streams' = [t \in Tracks |-> 0]
          /\ UNCHANGED <<desired, stopped, wentLive>>
      BY <2>5 DEF PeerLease, ClearShown
    <3>2. reports' \in [1..MaxSessions -> Nat]
      BY <2>5 DEF PeerLease, ReportEnd, NumbersOK
    <3> QED BY <1>1, <3>1, <3>2 DEF NumbersOK, Forward
  <2>6. ASSUME NEW l \in leases, NEW t \in Tracks, BeginStream(l, t) PROVE Rest
    BY <2>6 DEF BeginStream, NumbersOK
  <2>7. ASSUME NEW l \in leases, ClearStream(l) PROVE Rest
    <3>1. /\ streams' = [streams EXCEPT ![l.track] = @ + 1]
          /\ UNCHANGED <<desired, session, stopped, wentLive, reports>>
      BY <2>7 DEF ClearStream
    <3>2. streams' \in [Tracks -> Nat]
      <4>1. streams \in [Tracks -> Nat]
        BY DEF NumbersOK
      <4>2. \A t \in Tracks : streams'[t] \in Nat
        BY <3>1, <4>1
      <4> QED BY <3>1, <4>1, <4>2
    <3> QED BY <3>1, <3>2 DEF NumbersOK
  <2>8. ASSUME NEW c \in BOOLEAN, Show(c) PROVE Rest
    <3>1. UNCHANGED <<desired, session, streams, stopped, reports>>
      BY <2>8 DEF Show
    <3>2. wentLive' \subseteq 1..MaxSessions
      <4>1. session # 0 => session \in 1..MaxSessions
        BY DEF NumbersOK
      <4>2. wentLive' = wentLive
            \/ (session # 0 /\ wentLive' = wentLive \cup {session})
        BY <2>8 DEF Show
      <4> QED BY <4>1, <4>2 DEF NumbersOK
    <3> QED BY <3>1, <3>2 DEF NumbersOK
  <2>9. ASSUME NEW l, EndOwned(l), UNCHANGED <<desired, stopped>> PROVE Rest
    BY <2>9, FinishNumbers DEF EndOwned, NumbersOK
  <2>10. ASSUME NEW l \in leases, FinishLease(l) PROVE Rest
    BY <2>9, <2>10 DEF FinishLease
  <2>11. ASSUME NEW l \in held, DropOwner(l) PROVE Rest
    BY <2>9, <2>11 DEF DropOwner
  <2>12. ASSUME NEW s \in 1..minted, CancelPeer(s) PROVE Rest
    BY <2>12 DEF CancelPeer, NumbersOK
  <2>13. CASE UNCHANGED accessVars
    BY <2>13 DEF NumbersOK
  <2>14. ASSUME NEW l \in leases, LeaseStep(l) PROVE Rest
    BY <2>4, <2>5, <2>6, <2>7, <2>8, <2>10, <2>14 DEF LeaseStep, Update
  <2>15. CASE UpdateHandle
    BY <2>8, <2>15 DEF UpdateHandle
  <2> HIDE DEF Rest
  <2> QED BY <2>1, <2>2, <2>3, <2>11, <2>12, <2>13, <2>14, <2>15 DEF Next
<1> QED BY <1>1, <1>2, <1>3 DEF NumbersOK, Forward

LEMMA TypeStep == TypeOK /\ [Next]_accessVars => TypeOK'
  BY FlagsStep, NumbersStep DEF TypeOK

(***************************************************************************)
(* Every reachable state has the types of access.rs.                       *)
(***************************************************************************)
THEOREM AccessTypes == Spec => []TypeOK
  BY TypeInit, TypeStep, PTL DEF Spec

-----------------------------------------------------------------------------
(***************************************************************************)
(* Which leases exist.  A room's lease names no session and no stream, an  *)
(* owner names a session and no stream, and an owner generation belongs to *)
(* one session, since a new session takes the next generation.             *)
(***************************************************************************)
LeaseKinds ==
    /\ \A l \in leases : l.media = 0 => l.session = 0 /\ l.stream = 0
    /\ \A l \in held : l.media # 0 /\ l.stream = 0

OwnersDiffer ==
    \A l, m \in leases \cup held :
        l.media # 0 /\ l.media = m.media => l.session = m.session

LeaseInv == LeaseKinds /\ OwnersDiffer

LEMMA LeaseInvInit == Init => LeaseInv
  BY DEF Init, LeaseInv, LeaseKinds, OwnersDiffer

LEMMA LeasesKept ==
  ASSUME LeaseInv, leases' = leases, held' \subseteq held
  PROVE  LeaseInv'
  BY DEF LeaseInv, LeaseKinds, OwnersDiffer

LEMMA LeaseInvStep == TypeOK /\ LeaseInv /\ [Next]_accessVars => LeaseInv'
<1> SUFFICES ASSUME TypeOK, LeaseInv, [Next]_accessVars PROVE LeaseInv'
  OBVIOUS
<1> USE DEF LeaseInv, LeaseKinds, OwnersDiffer
<1>0. NumbersOK
  BY DEF TypeOK
<1>1. CASE leases' = leases /\ held' \subseteq held
  BY <1>1, LeasesKept
<1>2. ASSUME NEW g \in 1..permission, TakeRoomLease(g) PROVE LeaseInv'
  BY <1>2 DEF TakeRoomLease, RoomLease
<1>3. ASSUME NEW l \in leases, ForAssistance(l) PROVE LeaseInv'
  <2> DEFINE n == [l EXCEPT !.token = admission]
  <2>1. n.media = 0 /\ n.session = 0 /\ n.stream = 0
    <3>1. l \in Lease
      BY <1>0 DEF NumbersOK
    <3> QED BY <1>3, <3>1 DEF ForAssistance, Lease
  <2>2. leases' = leases \cup {n} /\ held' = held
    BY <1>3 DEF ForAssistance
  <2> HIDE DEF n
  <2> QED BY <2>1, <2>2
<1>4. ASSUME NEW l \in leases, PeerLease(l) PROVE LeaseInv'
  <2> DEFINE o == SessionLease(l, media', minted')
  <2> DEFINE n == [o EXCEPT !.stop = TRUE]
  <2>1. /\ o.media = media + 1 /\ o.session = minted' /\ o.stream = 0
        /\ n.media = media + 1 /\ n.session = minted'
    <3>1. l \in Lease /\ l.stream = 0
      BY <1>0, <1>4 DEF NumbersOK, PeerLease
    <3>2. media' = media + 1
      BY <1>4 DEF PeerLease, NextOwner
    <3> QED BY <3>1, <3>2 DEF SessionLease, Lease
  <2>2. leases' = leases \cup {n} /\ held' = held \cup {o}
    BY <1>4 DEF PeerLease
  <2>3. \A m \in leases \cup held : m.media \in 0..media
    BY <1>0 DEF NumbersOK, Lease
  <2>4. media \in Nat
    BY <1>0 DEF NumbersOK
  <2> HIDE DEF o, n
  <2> QED BY <2>1, <2>2, <2>3, <2>4
<1>5. ASSUME NEW l \in leases, NEW t \in Tracks, BeginStream(l, t)
      PROVE  LeaseInv'
  <2> DEFINE n == [l EXCEPT !.track = t, !.stream = streams'[t]]
  <2>1. n.media = l.media /\ n.session = l.session /\ n.media # 0
    <3>1. l \in Lease
      BY <1>0 DEF NumbersOK
    <3> QED BY <1>5, <3>1 DEF BeginStream, Lease
  <2>2. leases' = leases \cup {n} /\ held' = held
    BY <1>5 DEF BeginStream
  <2> HIDE DEF n
  <2> QED BY <2>1, <2>2
<1>6. CASE UserStep
  BY <1>1, <1>6 DEF UserStep, SetAllowed, Retry, Retire, RoomClosed,
                    DisconnectSession
<1>7. CASE GateStep
  BY <1>1, <1>7 DEF GateStep, PrepareUpdate, CancelUpdate, SetPowerAllowed,
                    BeginPower, PowerResult, AssistReady, AssistConfigure
<1>8. ASSUME NEW l \in leases,
             \/ ClearStream(l)
             \/ FinishLease(l)
             \/ \E c \in BOOLEAN : Update(l, c)
      PROVE  LeaseInv'
  BY <1>1, <1>8 DEF ClearStream, FinishLease, Update, Show
<1>9. CASE UpdateHandle \/ (\E s \in 1..minted : CancelPeer(s))
  BY <1>1, <1>9 DEF UpdateHandle, Show, CancelPeer
<1>10. ASSUME NEW l \in held, DropOwner(l) PROVE LeaseInv'
  BY <1>1, <1>10 DEF DropOwner
<1> HIDE DEF LeaseInv
<1> QED
  BY <1>1, <1>2, <1>3, <1>4, <1>5, <1>6, <1>7, <1>8, <1>9, <1>10
  DEF Next, LeaseStep

(***************************************************************************)
(* Two accepted leases of sessions carry the present owner generation, so  *)
(* they belong to one session.                                             *)
(***************************************************************************)
THEOREM OneSession == Spec => []OneSessionAccepted
<1>1. LeaseInv => OneSessionAccepted
  BY DEF LeaseInv, LeaseKinds, OwnersDiffer, OneSessionAccepted, CurrentOwner
<1> QED
  BY <1>1, TypeInit, TypeStep, LeaseInvInit, LeaseInvStep, PTL DEF Spec

-----------------------------------------------------------------------------
(***************************************************************************)
(* The steps as what they do to the generations.  Every decision of the    *)
(* user ends the session and starts a new generation, of the permission or *)
(* of the owner; the gates and the leases of rooms touch neither.          *)
(***************************************************************************)
LEMMA UserStepEffect ==
  ASSUME UserStep
  PROVE  /\ FinishSession
         /\ UNCHANGED <<leases, held, stopped, minted>>
         /\ active' => active
         /\ \/ permission' = permission + 1 /\ UNCHANGED media
            \/ /\ media' = media + 1
               /\ UNCHANGED <<permission, allowed, active>>
<1>1. CASE \/ Retry \/ RoomClosed \/ \E b \in BOOLEAN : SetAllowed(b)
  <2>1. FinishSession /\ UNCHANGED <<active, leases, held, stopped, minted>>
    BY <1>1 DEF SetAllowed, Retry, RoomClosed
  <2>2. permission' = permission + 1 /\ UNCHANGED media
    BY <1>1 DEF SetAllowed, Retry, RoomClosed, NextPermission
  <2> QED BY <2>1, <2>2
<1>2. CASE Retire
  BY <1>2 DEF Retire, NextPermission
<1>3. CASE \E s \in 1..minted : DisconnectSession(s)
  BY <1>3 DEF DisconnectSession
<1> QED BY <1>1, <1>2, <1>3 DEF UserStep

LEMMA QuietEffect ==
  ASSUME NEW l,
         \/ GateStep \/ \E g \in 1..permission : TakeRoomLease(g)
         \/ ForAssistance(l) \/ (\E t \in Tracks : BeginStream(l, t))
         \/ ClearStream(l) \/ (\E c \in BOOLEAN : Update(l, c))
         \/ UpdateHandle \/ (\E s \in 1..minted : CancelPeer(s))
         \/ UNCHANGED accessVars
  PROVE  UNCHANGED <<active, allowed, permission, media, session, held, minted>>
<1>1. CASE GateStep
  BY <1>1 DEF GateStep, PrepareUpdate, CancelUpdate, SetPowerAllowed,
              BeginPower, PowerResult, AssistReady, AssistConfigure
<1>2. CASE ~GateStep
  BY <1>2 DEF TakeRoomLease, ForAssistance, BeginStream, ClearStream, Update,
              UpdateHandle, Show, CancelPeer
<1> QED BY <1>1, <1>2

(***************************************************************************)
(* The session shown has its owner.  An owner that was handed out is       *)
(* accepted while it carries the present permission and owner generation,  *)
(* whatever became of the streams.                                         *)
(***************************************************************************)
Owns(l) ==
    /\ active /\ allowed
    /\ l.permission = permission /\ l.media = media

LEMMA OwnersOwn ==
  ASSUME LeaseInv, NEW l \in held
  PROVE  CurrentOwner(l) <=> Owns(l)
  BY DEF LeaseInv, LeaseKinds, CurrentOwner, Owns

ShownOwned ==
    /\ session # 0 => \E l \in held : l.session = session /\ Owns(l)
    /\ \A l \in held : Owns(l) => l.session = session

LEMMA OwnedIsShown == LeaseInv => (ShownOwned <=> SessionHasOwner)
  BY OwnersOwn DEF ShownOwned, SessionHasOwner

LEMMA OwnedStep ==
  ASSUME TypeOK, LeaseInv, ShownOwned, [Next]_accessVars
  PROVE  ShownOwned'
<1>0. /\ permission \in Nat /\ media \in Nat /\ held \subseteq Lease
      /\ leases \subseteq Lease
  BY DEF TypeOK, NumbersOK
<1>1. \A l \in held : l.permission <= permission /\ l.media <= media
                      /\ l.permission \in Nat /\ l.media \in Nat
  BY <1>0 DEF Lease
<1>2. ASSUME session' = 0, held' \subseteq held,
             \/ permission' = permission + 1 /\ UNCHANGED media
             \/ media' = media + 1 /\ UNCHANGED permission
      PROVE  ShownOwned'
  BY <1>0, <1>1, <1>2 DEF ShownOwned, Owns
<1>3. ASSUME UNCHANGED <<active, allowed, permission, media, session>>,
             held' \subseteq held, \A l \in held \ held' : ~Owns(l)
      PROVE  ShownOwned'
  BY <1>3 DEF ShownOwned, Owns
<1>4. CASE UserStep
  BY <1>2, <1>4, UserStepEffect DEF FinishSession, ClearSession
<1>5. ASSUME NEW l \in leases, PeerLease(l) PROVE ShownOwned'
  <2> DEFINE o == SessionLease(l, media', minted')
  <2>1. /\ o.permission = permission /\ o.media = media + 1
        /\ o.session = minted' /\ active /\ allowed
    <3>1. l \in Lease /\ active /\ allowed /\ l.permission = permission
      BY <1>0, <1>5 DEF PeerLease, Current, CurrentOwner
    <3>2. media' = media + 1
      BY <1>5 DEF PeerLease, NextOwner
    <3> QED BY <3>1, <3>2 DEF SessionLease, Lease
  <2>2. /\ held' = held \cup {o} /\ session' = minted' /\ media' = media + 1
        /\ UNCHANGED <<permission, active, allowed>>
    BY <1>5 DEF PeerLease, NextOwner
  <2> HIDE DEF o
  <2> QED BY <1>0, <1>1, <2>1, <2>2 DEF ShownOwned, Owns
<1>6. ASSUME NEW l, EndOwned(l), l \in leases \/ l \in held,
             l \in held => held' \subseteq held /\ held \ held' \subseteq {l},
             l \notin held => held' = held,
             UNCHANGED <<active, allowed, permission>>
      PROVE  ShownOwned'
  <2>1. CASE CurrentOwner(l)
    <3>1. media' = media + 1 /\ session' = 0
      BY <1>6, <2>1 DEF EndOwned, FinishSession, ClearSession
    <3> QED BY <1>2, <1>6, <3>1
  <2>2. CASE ~CurrentOwner(l)
    <3>1. UNCHANGED <<media, session>>
      BY <1>6, <2>2 DEF EndOwned
    <3>2. l \in held => ~Owns(l)
      BY <2>2, OwnersOwn
    <3> QED BY <1>3, <1>6, <3>1, <3>2
  <2> QED BY <2>1, <2>2
<1>7. ASSUME NEW l \in leases, FinishLease(l) PROVE ShownOwned'
  BY <1>6, <1>7 DEF FinishLease
<1>8. ASSUME NEW l \in held, DropOwner(l) PROVE ShownOwned'
  BY <1>6, <1>8 DEF DropOwner
<1>9. ASSUME NEW l,
             \/ GateStep \/ \E g \in 1..permission : TakeRoomLease(g)
             \/ ForAssistance(l) \/ (\E t \in Tracks : BeginStream(l, t))
             \/ ClearStream(l) \/ (\E c \in BOOLEAN : Update(l, c))
             \/ UpdateHandle \/ (\E s \in 1..minted : CancelPeer(s))
             \/ UNCHANGED accessVars
      PROVE  ShownOwned'
  BY <1>3, <1>9, QuietEffect
<1> QED BY <1>4, <1>5, <1>7, <1>8, <1>9 DEF Next, LeaseStep

(***************************************************************************)
(* The session the user is shown has an owner that can end it, and an      *)
(* owner that can act is that of the session shown.                        *)
(***************************************************************************)
THEOREM SessionOwned == Spec => []SessionHasOwner
<1>1. Init => ShownOwned
  BY DEF Init, ShownOwned
<1>2. TypeOK /\ LeaseInv /\ ShownOwned /\ [Next]_accessVars => ShownOwned'
  BY OwnedStep
<1>3. LeaseInv /\ ShownOwned => SessionHasOwner
  BY OwnedIsShown
<1> QED
  BY <1>1, <1>2, <1>3, TypeInit, TypeStep, LeaseInvInit, LeaseInvStep, PTL
  DEF Spec

-----------------------------------------------------------------------------
(***************************************************************************)
(* The end of a session is reported once.  The clock of the session shown  *)
(* runs exactly when it was connected, and a session that begins was never *)
(* connected before.                                                       *)
(***************************************************************************)
ClockRuns ==
    /\ wentLive \subseteq 1..minted /\ session \in 0..minted
    /\ since <=> session \in wentLive

ReportInv == ClockRuns /\ EndReportedOnce

LEMMA FinishReports ==
  ASSUME TypeOK, ReportInv, FinishSession, minted' = minted
  PROVE  ReportInv'
<1>0. minted \in 0..MaxSessions /\ session \in 0..MaxSessions /\ MaxSessions \in Nat
      /\ reports \in [1..MaxSessions -> Nat]
  BY DEF TypeOK, NumbersOK
<1>1. session' = 0 /\ since' = FALSE /\ wentLive' = wentLive
  BY DEF FinishSession, ClearSession, ClearShown
<1>2. ClockRuns'
  BY <1>0, <1>1 DEF ReportInv, ClockRuns
<1>3. EndReportedOnce'
  BY <1>0, <1>1 DEF ReportInv, ClockRuns, EndReportedOnce, FinishSession,
                    ReportEnd
<1> QED BY <1>2, <1>3 DEF ReportInv

LEMMA ReportStep ==
  ASSUME TypeOK, ReportInv, [Next]_accessVars
  PROVE  ReportInv'
<1>0. minted \in 0..MaxSessions /\ session \in 0..MaxSessions /\ MaxSessions \in Nat
      /\ reports \in [1..MaxSessions -> Nat]
  BY DEF TypeOK, NumbersOK
<1>1. ASSUME UNCHANGED <<session, since, wentLive, reports, minted>>
      PROVE  ReportInv'
  BY <1>1 DEF ReportInv, ClockRuns, EndReportedOnce
<1>2. CASE UserStep
  BY <1>2, UserStepEffect, FinishReports
<1>3. ASSUME NEW l \in leases, PeerLease(l) PROVE ReportInv'
  <2>1. /\ minted' = minted + 1 /\ session' = minted + 1
        /\ since' = FALSE /\ wentLive' = wentLive /\ minted < MaxSessions
        /\ ReportEnd
    BY <1>3 DEF PeerLease, ClearShown
  <2>2. ClockRuns'
    BY <1>0, <2>1 DEF ReportInv, ClockRuns
  <2>3. EndReportedOnce'
    BY <1>0, <2>1 DEF ReportInv, ClockRuns, EndReportedOnce, ReportEnd
  <2> QED BY <2>2, <2>3 DEF ReportInv
<1>4. ASSUME NEW c \in BOOLEAN, Show(c) PROVE ReportInv'
  <2>1. /\ UNCHANGED <<session, reports, minted>>
        /\ since' = (since \/ (c /\ session # 0))
        /\ wentLive' = IF c /\ session # 0 THEN wentLive \cup {session}
                                           ELSE wentLive
    BY <1>4 DEF Show
  <2>2. ClockRuns'
    <3>1. CASE c /\ session # 0
      <4>1. since' = TRUE /\ wentLive' = wentLive \cup {session}
        BY <2>1, <3>1
      <4>2. session \in 1..minted
        BY <1>0, <3>1 DEF ReportInv, ClockRuns
      <4> QED BY <2>1, <4>1, <4>2 DEF ReportInv, ClockRuns
    <3>2. CASE ~(c /\ session # 0)
      <4>1. wentLive' = wentLive /\ (since' <=> since)
        BY <2>1, <3>2
      <4> QED BY <2>1, <4>1 DEF ReportInv, ClockRuns
    <3> QED BY <3>1, <3>2
  <2>3. EndReportedOnce'
    BY <1>0, <2>1 DEF ReportInv, ClockRuns, EndReportedOnce
  <2> QED BY <2>2, <2>3 DEF ReportInv
<1>5. ASSUME NEW l, EndOwned(l), minted' = minted PROVE ReportInv'
  <2>1. CASE CurrentOwner(l)
    BY <1>5, <2>1, FinishReports DEF EndOwned
  <2>2. CASE ~CurrentOwner(l)
    BY <1>1, <1>5, <2>2 DEF EndOwned
  <2> QED BY <2>1, <2>2
<1>6. ASSUME NEW l \in leases, FinishLease(l) PROVE ReportInv'
  BY <1>5, <1>6 DEF FinishLease
<1>7. ASSUME NEW l \in held, DropOwner(l) PROVE ReportInv'
  BY <1>5, <1>7 DEF DropOwner
<1>8. CASE GateStep
  BY <1>1, <1>8 DEF GateStep, PrepareUpdate, CancelUpdate, SetPowerAllowed,
              BeginPower, PowerResult, AssistReady, AssistConfigure
<1>9. ASSUME NEW l \in leases,
             \/ ForAssistance(l) \/ ClearStream(l)
             \/ \E t \in Tracks : BeginStream(l, t)
      PROVE  ReportInv'
  BY <1>1, <1>9 DEF ForAssistance, ClearStream, BeginStream
<1>10. CASE \/ \E g \in 1..permission : TakeRoomLease(g)
            \/ \E s \in 1..minted : CancelPeer(s)
            \/ UNCHANGED accessVars
  BY <1>1, <1>10 DEF TakeRoomLease, CancelPeer
<1> QED
  BY <1>2, <1>3, <1>4, <1>6, <1>7, <1>8, <1>9, <1>10
  DEF Next, LeaseStep, Update, UpdateHandle

(***************************************************************************)
(* A session that was connected is reported as ended exactly once.         *)
(***************************************************************************)
THEOREM EndReported == Spec => []EndReportedOnce
<1>1. Init => ReportInv
  BY DEF Init, ReportInv, ClockRuns, EndReportedOnce
<1>2. TypeOK /\ ReportInv /\ [Next]_accessVars => ReportInv'
  BY ReportStep
<1>3. ReportInv => EndReportedOnce
  BY DEF ReportInv
<1> QED BY <1>1, <1>2, <1>3, TypeInit, TypeStep, PTL DEF Spec

-----------------------------------------------------------------------------
(***************************************************************************)
(* A refused lease stays refused.  Stream generations start again from     *)
(* nothing, but only together with a new generation of the permission or   *)
(* the owner; while those stand, the generation of a stream is ahead of    *)
(* every lease of it.                                                      *)
(***************************************************************************)
StreamsAhead ==
    \A l \in leases :
        /\ l.stream # 0
        /\ l.permission = permission /\ l.media = media
        => l.track \in Tracks /\ l.stream <= streams[l.track]

Moves ==
    \/ permission' = permission + 1
    \/ media' = media + 1 /\ UNCHANGED <<permission, active, allowed>>
    \/ /\ UNCHANGED <<permission, media, active, allowed>>
       /\ \A t \in Tracks : streams[t] <= streams'[t]

NewStreams ==
    \A l \in leases' \ leases :
        l.stream # 0 => l.track \in Tracks /\ l.stream <= streams'[l.track]

LEMMA StepMoves ==
  ASSUME TypeOK, LeaseInv, [Next]_accessVars
  PROVE  Moves /\ NewStreams /\ stopped \subseteq stopped'
<1>0. /\ streams \in [Tracks -> Nat] /\ leases \subseteq Lease
      /\ \A t \in Tracks : streams[t] \in Nat
  BY DEF TypeOK, NumbersOK
<1> DEFINE Goal == Moves /\ NewStreams /\ stopped \subseteq stopped'
<1>1. ASSUME UNCHANGED <<permission, media, active, allowed, streams>>,
             stopped \subseteq stopped',
             \A l \in leases' \ leases : l.stream = 0
      PROVE  Goal
  BY <1>0, <1>1 DEF Moves, NewStreams
<1>2. ASSUME UserStep PROVE Goal
  BY <1>2, UserStepEffect DEF Moves, NewStreams
<1>3. ASSUME NEW l, EndOwned(l),
             UNCHANGED <<permission, active, allowed, leases, stopped>>
      PROVE  Goal
  <2>1. media' = media + 1 \/ UNCHANGED <<media, streams>>
    BY <1>3 DEF EndOwned
  <2> QED BY <1>0, <1>3, <2>1 DEF Moves, NewStreams
<1>4. ASSUME NEW l \in leases, PeerLease(l) PROVE Goal
  <2> DEFINE n == [SessionLease(l, media', minted') EXCEPT !.stop = TRUE]
  <2>1. /\ media' = media + 1
        /\ UNCHANGED <<permission, active, allowed, stopped>>
        /\ leases' = leases \cup {n}
    BY <1>4 DEF PeerLease, NextOwner
  <2>2. n.stream = 0
    <3>1. l \in Lease /\ l.stream = 0
      BY <1>0, <1>4 DEF PeerLease, LeaseInv, LeaseKinds
    <3> QED BY <3>1 DEF SessionLease, Lease
  <2> HIDE DEF n
  <2> QED BY <2>1, <2>2 DEF Moves, NewStreams
<1>5. ASSUME NEW l \in leases, NEW t \in Tracks, BeginStream(l, t) PROVE Goal
  <2> DEFINE n == [l EXCEPT !.track = t, !.stream = streams'[t]]
  <2>1. /\ UNCHANGED <<permission, media, active, allowed, stopped>>
        /\ leases' = leases \cup {n}
        /\ streams' = [streams EXCEPT ![t] = @ + 1]
    BY <1>5 DEF BeginStream
  <2>2. n.track = t /\ n.stream = streams'[t]
    BY <1>0 DEF Lease
  <2>3. streams'[t] \in Nat /\ \A u \in Tracks : streams[u] <= streams'[u]
    BY <1>0, <2>1
  <2> HIDE DEF n
  <2> QED BY <2>1, <2>2, <2>3 DEF Moves, NewStreams
<1>6. ASSUME NEW l \in leases, ClearStream(l) PROVE Goal
  <2>1. /\ UNCHANGED <<permission, media, active, allowed, stopped, leases>>
        /\ streams' = [streams EXCEPT ![l.track] = @ + 1]
    BY <1>6 DEF ClearStream
  <2>2. \A u \in Tracks : streams[u] <= streams'[u]
    BY <1>0, <2>1
  <2> QED BY <2>1, <2>2 DEF Moves, NewStreams
<1>7. ASSUME GateStep PROVE Goal
  BY <1>1, <1>7 DEF GateStep, PrepareUpdate, CancelUpdate, SetPowerAllowed,
              BeginPower, PowerResult, AssistReady, AssistConfigure
<1>8. ASSUME NEW g \in 1..permission, TakeRoomLease(g) PROVE Goal
  BY <1>1, <1>8 DEF TakeRoomLease, RoomLease
<1>9. ASSUME NEW l \in leases, ForAssistance(l) PROVE Goal
  <2>1. [l EXCEPT !.token = admission].stream = 0
    BY <1>0, <1>9 DEF ForAssistance, LeaseInv, LeaseKinds, Lease
  <2> QED BY <1>1, <1>9, <2>1 DEF ForAssistance
<1>10. ASSUME NEW c \in BOOLEAN, Show(c) PROVE Goal
  BY <1>1, <1>10 DEF Show
<1>11. ASSUME NEW s \in 1..minted, CancelPeer(s) PROVE Goal
  BY <1>1, <1>11 DEF CancelPeer
<1>12. ASSUME NEW l \in leases, FinishLease(l) PROVE Goal
  BY <1>3, <1>12 DEF FinishLease
<1>13. ASSUME NEW l \in held, DropOwner(l) PROVE Goal
  BY <1>3, <1>13 DEF DropOwner
<1>14. ASSUME UNCHANGED accessVars PROVE Goal
  <2>1. UNCHANGED <<permission, media, active, allowed, streams, stopped,
                    leases>>
    BY <1>14
  <2> QED BY <1>1, <2>1
<1> HIDE DEF Goal
<1>15. ASSUME NEW l \in leases, LeaseStep(l) PROVE Goal
  BY <1>4, <1>5, <1>6, <1>9, <1>10, <1>12, <1>15 DEF LeaseStep, Update
<1>16. ASSUME UpdateHandle PROVE Goal
  BY <1>10, <1>16 DEF UpdateHandle
<1>17. Goal
  BY <1>2, <1>7, <1>8, <1>11, <1>13, <1>14, <1>15, <1>16 DEF Next
<1> QED BY <1>17 DEF Goal

LEMMA StreamsAheadStep ==
  ASSUME TypeOK, LeaseInv, StreamsAhead, [Next]_accessVars
  PROVE  StreamsAhead'
<1>0. /\ streams \in [Tracks -> Nat] /\ permission \in Nat /\ media \in Nat
      /\ streams' \in [Tracks -> Nat]
      /\ \A l \in leases : /\ l.permission \in 1..permission
                           /\ l.media \in 0..media
                           /\ l.stream \in Nat
      /\ \A l \in leases' : l.stream \in Nat
  BY TypeStep DEF TypeOK, NumbersOK, Lease
<1>1. Moves /\ NewStreams
  BY StepMoves
<1>2. ASSUME NEW l \in leases, l.stream # 0,
             l.permission = permission', l.media = media'
      PROVE  l.track \in Tracks /\ l.stream <= streams'[l.track]
  <2>1. /\ UNCHANGED <<permission, media>>
        /\ \A t \in Tracks : streams[t] <= streams'[t]
    BY <1>0, <1>1, <1>2 DEF Moves
  <2>2. l.track \in Tracks /\ l.stream <= streams[l.track]
    BY <1>2, <2>1 DEF StreamsAhead
  <2> QED BY <1>0, <2>1, <2>2
<1> QED BY <1>1, <1>2 DEF StreamsAhead, NewStreams

LEMMA RefusedStep ==
  ASSUME TypeOK, LeaseInv, StreamsAhead, [Next]_accessVars,
         NEW l \in leases, Current(l)'
  PROVE  Current(l)
<1>0. /\ streams \in [Tracks -> Nat] /\ permission \in Nat /\ media \in Nat
      /\ streams' \in [Tracks -> Nat]
      /\ l.permission \in 1..permission /\ l.media \in 0..media
      /\ l.stream \in Nat /\ l.token \in 0..admission /\ admission \in Nat
  BY TypeStep DEF TypeOK, NumbersOK, Lease
<1>1. Moves /\ stopped \subseteq stopped'
  BY StepMoves
<1>2. admission' \in Nat /\ admission <= admission'
  BY ForwardStep DEF TypeOK, Forward
<1>3. /\ active' /\ allowed' /\ l.permission = permission'
      /\ l.media # 0 => l.media = media'
      /\ l.stream # 0 => streams'[l.track] = l.stream
      /\ l.stop => l.session \notin stopped'
      /\ l.token # 0 => l.token = admission'
  BY DEF Current, CurrentOwner
<1>4. UNCHANGED <<permission, active, allowed>>
  <2>1. permission' # permission + 1
    BY <1>0, <1>3
  <2> QED BY <1>1, <2>1 DEF Moves
<1>5. l.media = 0 => l.stream = 0
  BY DEF LeaseInv, LeaseKinds
<1>6. l.media # 0 => /\ media' = media
                     /\ \A t \in Tracks : streams[t] <= streams'[t]
  <2>1. permission' # permission + 1
    BY <1>0, <1>3
  <2>2. l.media # 0 => media' # media + 1
    BY <1>0, <1>3
  <2> QED BY <1>1, <2>1, <2>2 DEF Moves
<1>7. l.stream # 0 => streams[l.track] = l.stream
  <2>1. SUFFICES ASSUME l.stream # 0 PROVE streams[l.track] = l.stream
    OBVIOUS
  <2>2. l.media = media /\ l.media # 0
    BY <1>3, <1>5, <1>6, <2>1
  <2>3. \A t \in Tracks : streams[t] <= streams'[t]
    BY <1>6, <2>2
  <2>4. l.track \in Tracks /\ l.stream <= streams[l.track]
    BY <1>3, <1>4, <2>1, <2>2 DEF StreamsAhead
  <2> QED BY <1>0, <1>3, <2>1, <2>3, <2>4
<1>8. CurrentOwner(l)
  <2>1. l.media # 0 => l.media = media
    BY <1>3, <1>6
  <2> QED BY <1>3, <1>4, <1>7, <2>1 DEF CurrentOwner
<1>9. l.token # 0 => l.token = admission
  BY <1>0, <1>2, <1>3
<1> QED BY <1>1, <1>3, <1>8, <1>9 DEF Current

(***************************************************************************)
(* No stale lease comes back: whatever a callback kept, once refused it is *)
(* refused for ever.                                                       *)
(***************************************************************************)
THEOREM StaleStaysStale == Spec => RefusedForEver
<1>1. Init => StreamsAhead
  BY DEF Init, StreamsAhead
<1>2. TypeOK /\ LeaseInv /\ StreamsAhead /\ [Next]_accessVars => StreamsAhead'
  BY StreamsAheadStep
<1>3. TypeOK /\ LeaseInv /\ StreamsAhead /\ [Next]_accessVars
        => [\A l \in leases : ~Current(l) => ~Current(l)']_accessVars
  BY RefusedStep
<1> QED
  BY <1>1, <1>2, <1>3, TypeInit, TypeStep, LeaseInvInit, LeaseInvStep, PTL
  DEF Spec, RefusedForEver
=============================================================================
