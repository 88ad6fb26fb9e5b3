--------------------------- MODULE HostPowerProofs ---------------------------
(***************************************************************************)
(* Power requests, for any number of calls, rooms and sessions: they run   *)
(* inside the room of HostRoom, the busy flag stands for one request, the  *)
(* request is claimed only under the power switch, and the system is asked *)
(* with nobody inside.                                                     *)
(***************************************************************************)
EXTENDS HostPower, HostRoomProofs, FiniteSetTheorems, SequenceTheorems

Places == {"inbox", "task", "action"}

Requests == [call : Kinds \cup {"none"}, stale : BOOLEAN]

\* What the room does but for the end of an action.
GoesOn ==
    \/ Handler \/ OwnEvent \/ RemoteEvent \/ PeerEvent \/ PowerReady
    \/ \E s \in Sessions : Task(s)
    \/ User \/ Gates
    \/ Shutdown \/ TransportLost \/ NextRoom

(***************************************************************************)
(* The room goes on as HostRoom says: a step of the requests is a step of  *)
(* the room or leaves it alone.                                            *)
(***************************************************************************)
LEMMA OthersMap ==
  ASSUME [PowerNext]_powerVars, ~Executed
  PROVE  [GoesOn]_roomVars
<1>1. CASE \/ \E k \in Kinds : Push(k)
           \/ Receive \/ TaskChecks \/ TaskFailed \/ TaskEnds
           \/ Spawned \/ ThreadChecks \/ ThreadClaims \/ ThreadAsks
           \/ ThreadActed
  BY <1>1 DEF Push, Receive, TaskChecks, TaskFailed, TaskEnds, Spawned,
              ThreadChecks, ThreadClaims, ThreadAsks, ThreadActed
<1>2. CASE Ready
  BY <1>2 DEF Ready, GoesOn
<1>3. CASE BeginRevoking
  BY <1>3 DEF BeginRevoking
<1>4. CASE Decide \/ SwitchGates
  BY <1>4 DEF Decide, SwitchGates, GoesOn
<1>5. CASE RoomGoesOn \/ RoomAgain \/ ShutdownRoom
  BY <1>5 DEF RoomGoesOn, RoomAgain, ShutdownRoom, GoesOn
<1>6. CASE UNCHANGED powerVars
  BY <1>6 DEF powerVars
<1> QED BY <1>1, <1>2, <1>3, <1>4, <1>5, <1>6 DEF PowerNext, PowerStep

LEMMA PowerStepMaps == [PowerNext]_powerVars => [RoomNext]_roomVars
<1>1. [GoesOn]_roomVars => [RoomNext]_roomVars
  BY DEF GoesOn, RoomNext, Power
<1>2. Executed => RoomNext
  BY DEF Executed, RoomNext, Power
<1> QED BY <1>1, <1>2, OthersMap

LEMMA PowerRoom == PowerSpec => RoomInit /\ [][RoomNext]_roomVars
<1>1. PowerInit => RoomInit
  BY DEF PowerInit
<1> QED BY <1>1, PowerStepMaps, PTL DEF PowerSpec

(***************************************************************************)
(* So what holds of the room and of the access record holds beside the     *)
(* power requests: one session alive, one session accepted.                *)
(***************************************************************************)
THEOREM PowerKeepsRoom == PowerSpec => []OneSessionAlive /\ []NothingForgotten
<1>1. SlotInv => OneSessionAlive /\ NothingForgotten
  BY DEF SlotInv, HandsAtPc, InHand, Leaving, NothingForgotten
<1> QED BY <1>1, PowerRoom, RoomInvariant, PTL

-----------------------------------------------------------------------------
(***************************************************************************)
(* The busy flag.  A request that is not stale is alone, and the flag is   *)
(* up exactly while there is one.                                          *)
(***************************************************************************)
FlagInv ==
    /\ busy \in BOOLEAN
    /\ request_at \in [Places -> Requests]
    /\ \A g, h \in Places :
         ~request_at[g].stale /\ ~request_at[h].stale => g = h
    /\ busy <=> \E h \in Places : ~request_at[h].stale


\* Every request stale, and the flag down.
LEMMA FlagDown ==
  ASSUME FlagInv, busy' = FALSE, request_at' \in [Places -> Requests],
         \A h \in Places : request_at'[h].stale
  PROVE  FlagInv'
  BY DEF FlagInv

LEMMA StaleType ==
  ASSUME FlagInv
  PROVE  /\ AllStale \in [Places -> Requests]
         /\ \A h \in Places : AllStale[h].stale
  BY DEF FlagInv, AllStale, Requests

LEMMA NoRequestType == NoRequest \in Requests /\ NoRequest.stale
  BY DEF NoRequest, Requests

LEMMA FlagInit == PowerInit => FlagInv
<1> SUFFICES ASSUME PowerInit PROVE FlagInv
  OBVIOUS
<1>1. busy = FALSE /\ request_at = [h \in Places |-> NoRequest]
  BY DEF PowerInit, Places
<1> QED BY <1>1, NoRequestType DEF FlagInv

LEMMA FlagDropped ==
  ASSUME FlagInv, NEW h \in Places, Dropped(h)
  PROVE  FlagInv'
<1>1. /\ busy' = (busy /\ request_at[h].stale)
      /\ request_at' = [request_at EXCEPT ![h] = NoRequest]
  BY DEF Dropped, Given
<1> QED BY <1>1, NoRequestType DEF FlagInv

LEMMA FlagSame ==
  ASSUME FlagInv, UNCHANGED <<busy, request_at>>
  PROVE  FlagInv'
  BY DEF FlagInv

LEMMA FlagReset ==
  ASSUME FlagInv, Invalidate \/ Bind \/ CloseInbox
  PROVE  FlagInv'
<1>1. busy' = FALSE
  BY DEF Invalidate, Bind, CloseInbox
<1>2. \/ request_at' = AllStale
      \/ request_at' = [AllStale EXCEPT !["inbox"] = NoRequest,
                                        !["task"] = NoRequest]
  BY DEF Invalidate, Bind, CloseInbox
<1>3. /\ request_at' \in [Places -> Requests]
      /\ \A h \in Places : request_at'[h].stale
  BY <1>2, StaleType, NoRequestType
<1> QED BY <1>1, <1>3, FlagDown

LEMMA FlagStep ==
  ASSUME FlagInv, [PowerNext]_powerVars
  PROVE  FlagInv'
<1>0. "inbox" \in Places /\ "task" \in Places /\ "action" \in Places
  BY DEF Places
<1>1. ASSUME NEW k \in Kinds, Push(k) PROVE FlagInv'
  <2>1. CASE request_at["inbox"] = NoRequest
    <3>1. /\ ~busy /\ busy' = TRUE
          /\ request_at' = [request_at EXCEPT !["inbox"] =
                              [call |-> k, stale |-> FALSE]]
      BY <1>1, <2>1 DEF Push
    <3>2. [call |-> k, stale |-> FALSE] \in Requests
      BY DEF Requests
    <3> QED BY <1>0, <3>1, <3>2 DEF FlagInv
  <2>2. CASE request_at["inbox"] # NoRequest
    BY <1>1, <2>2, FlagSame DEF Push
  <2> QED BY <2>1, <2>2
<1>2. CASE Receive
  <2>1. /\ busy' = (busy /\ request_at["task"].stale)
        /\ request_at' = [request_at EXCEPT !["task"] = request_at["inbox"],
                                            !["inbox"] = NoRequest]
    BY <1>2 DEF Receive, Given
  <2> QED BY <1>0, <2>1, NoRequestType DEF FlagInv, Places
<1>3. CASE TaskFailed
  BY <1>0, <1>3, FlagDropped DEF TaskFailed
<1>4. CASE TaskChecks \/ TaskEnds \/ Spawned \/ ThreadAsks \/ Executed
  BY <1>4, FlagSame DEF TaskChecks, TaskEnds, Spawned, ThreadAsks, Executed,
                        handle
<1>5. CASE Ready
  <2>1. CASE Dropped("task")
    BY <1>0, <2>1, FlagDropped
  <2>2. CASE ~Dropped("task")
    <3>1. /\ ~request_at["task"].stale /\ busy' = busy
          /\ request_at' = [request_at EXCEPT !["task"] = NoRequest,
                                              !["action"] = request_at["task"]]
      BY <1>5, <2>2 DEF Ready, Valid
    <3> QED BY <1>0, <3>1, NoRequestType DEF FlagInv, Places
  <2> QED BY <2>1, <2>2
<1>6. CASE ThreadChecks \/ ThreadClaims
  <2>1. UNCHANGED <<busy, request_at>> \/ Dropped("action")
    BY <1>6 DEF ThreadChecks, ThreadClaims
  <2> QED BY <1>0, <2>1, FlagSame, FlagDropped
<1>7. CASE ThreadActed
  BY <1>0, <1>7, FlagDropped DEF ThreadActed
<1>8. CASE ShutdownRoom
  <2>1. UNCHANGED <<busy, request_at>> \/ Dropped("action")
    BY <1>8 DEF ShutdownRoom
  <2> QED BY <1>0, <2>1, FlagSame, FlagDropped
<1>9. CASE BeginRevoking \/ RoomAgain
  BY <1>9, FlagReset DEF BeginRevoking, RoomAgain
<1>10. CASE Decide \/ SwitchGates \/ RoomGoesOn
  <2>1. \/ UNCHANGED <<busy, request_at>>
        \/ Invalidate \/ CloseInbox
    BY <1>10 DEF Decide, SwitchGates, RoomGoesOn, handle, holders
  <2> QED BY <2>1, FlagSame, FlagReset
<1>11. CASE UNCHANGED powerVars
  BY <1>11, FlagSame DEF powerVars, handle, holders
<1> QED
  BY <1>1, <1>2, <1>3, <1>4, <1>5, <1>6, <1>7, <1>8, <1>9, <1>10, <1>11
  DEF PowerNext, PowerStep

(***************************************************************************)
(* Somebody always gives the flag back, and nobody gives back the flag of  *)
(* another.                                                                *)
(***************************************************************************)
THEOREM BusyIsOne == PowerSpec => []BusyIsOneRequest
<1>1. FlagInv => BusyIsOneRequest
  <2> SUFFICES ASSUME FlagInv PROVE BusyIsOneRequest
    OBVIOUS
  <2> DEFINE H == {h \in DOMAIN request_at : ~request_at[h].stale}
  <2>0. DOMAIN request_at = Places
    BY DEF FlagInv
  <2>1. CASE busy
    <3>1. PICK h \in Places : ~request_at[h].stale
      BY <2>1 DEF FlagInv
    <3>2. H = {h}
      BY <2>0, <3>1 DEF FlagInv
    <3>3. Cardinality({h}) = 1
      BY FS_Singleton
    <3> QED BY <2>1, <3>2, <3>3 DEF BusyIsOneRequest
  <2>2. CASE ~busy
    <3>1. H = {}
      BY <2>0, <2>2 DEF FlagInv
    <3>2. Cardinality({}) = 0
      BY FS_EmptySet
    <3> QED BY <2>2, <3>1, <3>2 DEF BusyIsOneRequest
  <2> QED BY <2>1, <2>2
<1>2. FlagInv /\ [PowerNext]_powerVars => FlagInv'
  BY FlagStep
<1> QED BY <1>1, <1>2, FlagInit, PTL DEF PowerSpec

-----------------------------------------------------------------------------
(***************************************************************************)
(* The power switch.  Only the switch moves it, and whoever turns it makes *)
(* every request stale, the one the thread is about to claim too.          *)
(***************************************************************************)
LEMMA UpdateKeepsPower ==
  ASSUME NEW l, NEW c, UpdateIfCurrent(l, c)
  PROVE  remotePower' = remotePower
  BY DEF UpdateIfCurrent, Update, Show, accessVars, gate

LEMMA CancelKeepsPower ==
  ASSUME NEW s, Cancel(s)
  PROVE  remotePower' = remotePower
  BY DEF Cancel, CancelPeer, accessVars, gate

LEMMA DropKeepsPower ==
  ASSUME NEW s, DropSession(s)
  PROVE  remotePower' = remotePower
  BY DEF DropSession, DropOwner, gate

LEMMA HandlerKeepsPower ==
  ASSUME Handler
  PROVE  remotePower' = remotePower
<1>1. CASE CancelPreparation \/ TakePeer
  BY <1>1, CancelKeepsPower DEF CancelPreparation, TakePeer, accessVars, gate
<1>2. CASE ClosePeer \/ SpawnFails
  BY <1>2, DropKeepsPower DEF ClosePeer, SpawnFails
<1>3. CASE Announce \/ Enabled \/ Report \/ Spawn
  BY <1>3, UpdateKeepsPower DEF Announce, Enabled, Report, Spawn
<1>4. CASE ApplyRequest
  BY <1>4 DEF ApplyRequest, TakeRoomLease, UpdateHandle, Show, gate
<1>5. CASE Admit
  BY <1>5 DEF Admit, PeerLease, accessVars, gate
<1>6. CASE JoinPreparation \/ Enable \/ Undo \/ Disable \/ Flush
  BY <1>6 DEF JoinPreparation, Enable, Undo, Disable, Flush, SetControllable,
              UpdateHandle, Show, accessVars, gate
<1>7. CASE Leave
  BY <1>7 DEF Leave, RoomClosed, gate
<1> QED BY <1>1, <1>2, <1>3, <1>4, <1>5, <1>6, <1>7 DEF Handler

LEMMA RoomKeepsPower ==
  ASSUME RoomGoesOn
  PROVE  remotePower' = remotePower
<1>1. CASE Handler
  BY <1>1, HandlerKeepsPower
<1>2. CASE OwnEvent \/ TransportLost
  BY <1>2 DEF OwnEvent, Change, PollRevoked, PollEnded, PeerPrepared,
              PeerPreparedTooLate, PreparationFailed, TransportLost,
              accessVars, gate
<1>3. CASE RemoteEvent
  BY <1>3 DEF RemoteEvent, Refuse, EarlyOffer, Left, BeControlled,
              ForAssistance, accessVars, gate
<1>4. CASE PeerEvent
  BY <1>4, UpdateKeepsPower
  DEF PeerEvent, ConnectionState, MediaEnds, UserBackendExits, CancelPeer,
      FinishLease, gate
<1>5. ASSUME NEW s \in Sessions, Task(s) PROVE remotePower' = remotePower
  BY <1>5, DropKeepsPower
  DEF Task, TaskBuilds, TaskFails, OrphanDropped, accessVars, gate
<1> QED BY <1>1, <1>2, <1>3, <1>4, <1>5 DEF RoomGoesOn

\* A thread that has looked at the switch and holds a request that is not
\* stale may rely on what it saw.
ClaimInv == thread = "claim" /\ ~request_at["action"].stale => remotePower

\* Nothing that would falsify it was touched.
LEMMA ClaimKept ==
  ASSUME ClaimInv, remotePower' = remotePower,
         thread' = "claim" => thread = "claim",
         request_at'["action"] = request_at["action"]
           \/ request_at'["action"].stale
  PROVE  ClaimInv'
  BY DEF ClaimInv

LEMMA ClaimStep ==
  ASSUME FlagInv, ClaimInv, [PowerNext]_powerVars
  PROVE  ClaimInv'
<1>0. "action" \in Places /\ request_at \in [Places -> Requests]
  BY DEF FlagInv, Places
<1>1. ASSUME UNCHANGED <<remotePower, thread>>, Dropped("action")
      PROVE  ClaimInv'
  BY <1>0, <1>1, ClaimKept, NoRequestType DEF Dropped
<1>2. ASSUME NEW k \in Kinds, Push(k) PROVE ClaimInv'
  BY <1>0, <1>2, ClaimKept DEF Push, roomVars, accessVars, gate
<1>3. CASE Receive
  BY <1>0, <1>3, ClaimKept DEF Receive, roomVars, accessVars, gate
<1>4. CASE TaskFailed
  BY <1>0, <1>4, ClaimKept DEF TaskFailed, Dropped, roomVars, accessVars, gate
<1>5. CASE TaskChecks \/ TaskEnds
  BY <1>5, ClaimKept DEF TaskChecks, TaskEnds, roomVars, accessVars, gate
<1>6. CASE Spawned
  BY <1>6 DEF Spawned, ClaimInv
<1>7. CASE ThreadChecks
  BY <1>7 DEF ThreadChecks, ClaimInv, Permitted, roomVars, accessVars, gate
<1>8. CASE ThreadClaims \/ ThreadAsks \/ ThreadActed \/ Executed
  BY <1>8 DEF ThreadClaims, ThreadAsks, ThreadActed, Executed, ClaimInv
<1>9. CASE Ready
  <2>1. remotePower' = remotePower
    BY <1>9 DEF Ready, PowerReady, BeginPower, PowerResult
  <2>2. CASE thread' = "waiting"
    BY <2>2 DEF ClaimInv
  <2>3. CASE thread' # "waiting"
    <3>1. thread' = thread /\ Dropped("task")
      BY <1>9, <2>3 DEF Ready
    <3> QED BY <1>0, <2>1, <3>1, ClaimKept DEF Dropped
  <2> QED BY <2>2, <2>3
<1>10. CASE ShutdownRoom
  <2>1. remotePower' = remotePower
    BY <1>10, DropKeepsPower DEF ShutdownRoom, Shutdown, accessVars, gate
  <2>2. CASE thread = "waiting"
    BY <1>10, <2>2 DEF ShutdownRoom, ClaimInv
  <2>3. CASE thread # "waiting"
    BY <1>10, <2>1, <2>3, ClaimKept DEF ShutdownRoom
  <2> QED BY <2>2, <2>3
<1>11. ASSUME Invalidate \/ Bind \/ CloseInbox PROVE ClaimInv'
  <2>1. AllStale \in [Places -> Requests] /\ AllStale["action"].stale
    BY <1>0, StaleType
  <2>2. request_at'["action"].stale
    BY <1>0, <1>11, <2>1 DEF Invalidate, Bind, CloseInbox
  <2> QED BY <2>2 DEF ClaimInv
<1>12. CASE BeginRevoking \/ RoomAgain
  BY <1>11, <1>12 DEF BeginRevoking, RoomAgain
<1>13. CASE Decide
  <2>1. remotePower' = remotePower
    BY <1>13 DEF Decide, User, Retry, Retire, SetAllowed, DisconnectSession,
                 gate
  <2> QED BY <1>13, <2>1, ClaimKept DEF Decide, holders
<1>14. CASE SwitchGates
  <2>1. CASE remotePower' # remotePower
    BY <1>11, <1>14, <2>1 DEF SwitchGates
  <2>2. CASE remotePower' = remotePower
    BY <1>14, <2>2, ClaimKept DEF SwitchGates, holders
  <2> QED BY <2>1, <2>2
<1>15. CASE RoomGoesOn
  <2>1. CASE CloseInbox
    BY <1>11, <2>1
  <2>2. CASE ~CloseInbox
    <3>1. UNCHANGED holders
      BY <1>15, <2>2 DEF RoomGoesOn
    <3> QED BY <1>15, <3>1, ClaimKept, RoomKeepsPower DEF holders
  <2> QED BY <2>1, <2>2
<1>16. CASE UNCHANGED powerVars
  BY <1>16, ClaimKept DEF powerVars, roomVars, accessVars, gate, holders
<1> QED
  BY <1>2, <1>3, <1>4, <1>5, <1>6, <1>7, <1>8, <1>9, <1>10, <1>12, <1>13,
     <1>14, <1>15, <1>16
  DEF PowerNext, PowerStep

(***************************************************************************)
(* A request is claimed only while the power switch is on; what happens    *)
(* between the claim and the system call is not covered.                   *)
(***************************************************************************)
THEOREM ClaimsUnderTheSwitch == PowerSpec => ClaimedUnderSwitch
<1>1. PowerInit => FlagInv /\ ClaimInv
  BY FlagInit DEF PowerInit, ClaimInv
<1>2. FlagInv /\ ClaimInv /\ [PowerNext]_powerVars => FlagInv' /\ ClaimInv'
  BY FlagStep, ClaimStep
<1>3. ClaimInv /\ [PowerNext]_powerVars
        => [~committed /\ committed' => remotePower]_powerVars
  <2> SUFFICES ASSUME ClaimInv, PowerNext, ~committed, committed'
               PROVE  remotePower
    OBVIOUS
  <2>1. CASE ThreadClaims
    BY <2>1 DEF ThreadClaims, Valid, ClaimInv
  <2>2. CASE ~ThreadClaims
    BY <2>2 DEF PowerNext, PowerStep, Push, Receive, TaskChecks, TaskFailed,
       TaskEnds, Ready, Spawned, ThreadChecks, ThreadAsks, ThreadActed,
       Executed, BeginRevoking, Decide, SwitchGates, RoomGoesOn, RoomAgain,
       ShutdownRoom, Invalidate, Bind, CloseInbox, handle
  <2> QED BY <2>1, <2>2
<1> QED BY <1>1, <1>2, <1>3, PTL DEF PowerSpec, ClaimedUnderSwitch

-----------------------------------------------------------------------------
(***************************************************************************)
(* Nobody inside.  From the moment the thread is started the room stays at *)
(* the await of the action, with empty hands, or leaves for good.          *)
(***************************************************************************)
Empty == /\ \A s \in Sessions : ~Alive(s)
         /\ pc = "execute" \/ Leaving

Acting == {"check", "claim", "claimed", "acting"}

InsideInv == thread \in Acting => Empty

USE DEF roomVars, room, slots, outside

\* A session comes alive only when the room admits a controller.
LEMMA EmptyKept ==
  ASSUME NumbersOK, RoomInv, SlotInv, Empty, [GoesOn]_roomVars
  PROVE  Empty'
<1>0. /\ stage \in [Sessions -> Stages]
      /\ pc = "execute" \/ Leaving
      /\ pc \in {"execute", "cancel", "join", "peer", "close", "leave",
                 "closed"}
      /\ \A s \in Sessions : stage[s] \notin {"preparing", "built", "live"}
  BY DEF SlotInv, HandsOK, HandsAtPc, Leaving, Empty, Alive
<1>1. CASE Handler
  <2>1. CASE pc = "execute"
    BY <1>1, <2>1 DEF Handler, CancelPreparation, JoinPreparation, TakePeer,
       ClosePeer, ApplyRequest, Announce, Enable, Enabled, Undo, Report,
       Disable, Admit, Spawn, SpawnFails, Flush, Leave
  <2>2. CASE Leaving
    <3>1. CASE CancelPreparation
      BY <1>0, <2>2, <3>1 DEF CancelPreparation, Goto, Empty, Alive, Leaving
    <3>2. CASE JoinPreparation
      BY <1>0, <2>2, <3>2
      DEF JoinPreparation, CloseSession, Goto, Empty, Alive, Leaving
    <3>3. CASE TakePeer
      BY <1>0, <2>2, <3>3 DEF TakePeer, CloseSession, Empty, Alive, Leaving
    <3>4. CASE ClosePeer
      BY <1>0, <2>2, <3>4 DEF ClosePeer, Goto, Empty, Alive, Leaving
    <3>5. CASE Leave
      BY <1>0, <2>2, <3>5 DEF Leave, Goto, Empty, Alive, Leaving
    <3>6. pc \notin {"change", "announce", "enable", "enabled", "undo",
                     "report", "disable", "admit", "spawn", "flush"}
      BY <2>2 DEF SlotInv, HandsAtPc, Leaving
    <3> QED
      BY <1>1, <3>1, <3>2, <3>3, <3>4, <3>5, <3>6
      DEF Handler, ApplyRequest, Announce, Enable, Enabled, Undo, Report,
          Disable, Admit, Spawn, SpawnFails, Flush
  <2> QED BY <1>0, <2>1, <2>2
<1>2. CASE OwnEvent \/ RemoteEvent \/ TransportLost \/ PowerReady
  BY <1>0, <1>2
  DEF OwnEvent, Change, PollRevoked, PollEnded, PeerPrepared,
      PeerPreparedTooLate, PreparationFailed, RemoteEvent, Refuse, EarlyOffer,
      Left, BeControlled, TransportLost, PowerReady
<1>3. CASE PeerEvent \/ User \/ Gates \/ UNCHANGED roomVars
  <2>1. UNCHANGED <<pc, then, rooms, stage>>
    BY <1>3 DEF PeerEvent, ConnectionState, MediaEnds, UserBackendExits,
       User, Gates
  <2> QED BY <2>1 DEF Empty, Alive, Leaving
<1>4. ASSUME NEW s \in Sessions, Task(s) PROVE Empty'
  BY <1>0, <1>4
  DEF Task, TaskBuilds, TaskFails, OrphanDropped, Empty, Alive, Leaving
<1>5. CASE Shutdown
  BY <1>0, <1>5 DEF Shutdown, TakeDown, Empty, Alive, Leaving
<1>6. CASE NextRoom
  BY <1>0, <1>6, RoomAssumption DEF NextRoom, RoomAssumption, Leaving
<1> QED BY <1>1, <1>2, <1>3, <1>4, <1>5, <1>6 DEF GoesOn

LEMMA InsideStep ==
  ASSUME NumbersOK, RoomInv, SlotInv, InsideInv, [PowerNext]_powerVars
  PROVE  InsideInv'
<1>1. CASE Spawned
  <2>1. pc = "execute" /\ UNCHANGED roomVars
    BY <1>1 DEF Spawned
  <2>2. \A s \in Sessions : ~Alive(s)
    BY <2>1 DEF SlotInv, OneHand, HandsAtPc, InHand, Leaving, Orphan, Sessions
  <2> QED BY <2>1, <2>2 DEF InsideInv, Empty, Alive, Leaving
<1>2. CASE Executed
  BY <1>2 DEF Executed, InsideInv, Acting
<1>3. CASE ~Spawned /\ ~Executed
  <2>1. thread' \in Acting => thread \in Acting
    BY <1>3
    DEF PowerNext, PowerStep, Push, Receive, TaskChecks, TaskFailed, TaskEnds,
        Ready, ThreadChecks, ThreadClaims, ThreadAsks, ThreadActed,
        BeginRevoking, Decide, SwitchGates, RoomGoesOn, RoomAgain,
        ShutdownRoom, Invalidate, Bind, CloseInbox, Acting, powerVars, holders
  <2> QED BY <1>3, <2>1, OthersMap, EmptyKept DEF InsideInv
<1> QED BY <1>1, <1>2, <1>3

(***************************************************************************)
(* While the system is asked nobody is inside.                             *)
(***************************************************************************)
THEOREM ActsWithNobodyInside == PowerSpec => []NobodyInside
<1> DEFINE RoomHolds == TypeOK /\ LeaseInv /\ RoomInv /\ SlotInv
<1>1. PowerInit => InsideInv
  BY DEF PowerInit, InsideInv, Acting
<1>2. RoomHolds /\ InsideInv /\ [PowerNext]_powerVars => InsideInv'
  BY InsideStep DEF TypeOK
<1>3. InsideInv => NobodyInside
  BY DEF InsideInv, Acting, Empty, NobodyInside
<1> QED BY <1>1, <1>2, <1>3, PowerRoom, RoomInvariant, PTL DEF PowerSpec

-----------------------------------------------------------------------------
(***************************************************************************)
(* Calls.  A call that is not remembered has neither been carried out nor  *)
(* is it on its way; one that is on its way is there once, and was carried *)
(* out only if the thread is at it.                                        *)
(***************************************************************************)
CallsInv ==
    /\ recent \in Seq(Calls)
    /\ \A i, j \in 1..Len(recent) : recent[i] = recent[j] => i = j
    /\ acted \in [Kinds -> Nat]
    /\ \A c \in Calls :
         c \notin Range(recent) =>
             acted[c] = 0 /\ \A h \in Places : request_at[h].call # c
    /\ \A g, h \in Places :
         request_at[g].call = request_at[h].call =>
             g = h \/ request_at[g].call \notin Calls
    /\ \A h \in Places :
         request_at[h].call \in Calls =>
             \/ acted[request_at[h].call] = 0
             \/ h = "action" /\ thread = "acting"
    /\ \A c \in Calls : acted[c] < 2

LEMMA PlacesAre ==
  /\ "inbox" \in Places /\ "task" \in Places /\ "action" \in Places
  /\ NoRequest.call \notin Calls
  BY PowerAssumption DEF Places, PowerAssumption, NoRequest

(***************************************************************************)
(* While there are no more calls than are remembered none is forgotten: a  *)
(* call that is pushed is not among those remembered, so these are fewer.  *)
(***************************************************************************)
LEMMA RoomForCall ==
  ASSUME CallsInv, IsFiniteSet(Calls), Cardinality(Calls) <= MaxSeen,
         NEW k \in Calls, k \notin Range(recent)
  PROVE  Len(recent) # MaxSeen
<1>1. recent \in [1..Len(recent) -> Calls]
  BY LenProperties DEF CallsInv
<1>2. Len(recent) \in Nat
  BY LenProperties DEF CallsInv
<1>3. recent \in Injection(1..Len(recent), Calls \ {k})
  <2>1. recent \in [1..Len(recent) -> Calls \ {k}]
    BY <1>1 DEF Range
  <2> QED BY <2>1 DEF CallsInv, Injection, IsInjective
<1>4. /\ IsFiniteSet(Calls \ {k})
      /\ Cardinality(Calls \ {k}) = Cardinality(Calls) - 1
  BY FS_RemoveElement
<1>5. Cardinality(1..Len(recent)) <= Cardinality(Calls \ {k})
  BY <1>3, <1>4, FS_Injection
<1>6. ASSUME NEW n \in Nat PROVE Cardinality(1..n) = n
  <2>1. 1 \in Int /\ n \in Int
    OBVIOUS
  <2>2. Cardinality(1..n) = IF 1 > n THEN 0 ELSE n - 1 + 1
    BY <2>1, FS_Interval, Zenon
  <2> QED BY <2>2
<1>7. Len(recent) <= Cardinality(Calls) - 1
  BY <1>2, <1>4, <1>5, <1>6
<1>8. Cardinality(Calls) \in Nat /\ MaxSeen \in Nat
  BY FS_CardinalityType, PowerAssumption DEF PowerAssumption
<1> QED BY <1>2, <1>7, <1>8

\* Some requests were dropped or made stale, and nothing else happened.
LEMMA CallsKept ==
  ASSUME CallsInv, UNCHANGED <<recent, acted>>,
         \A h \in Places : \/ request_at'[h].call = request_at[h].call
                            \/ request_at'[h].call \notin Calls,
         thread = "acting" => \/ thread' = "acting"
                              \/ request_at'["action"].call \notin Calls
  PROVE  CallsInv'
  BY DEF CallsInv

LEMMA CallsDropped ==
  ASSUME FlagInv, CallsInv, UNCHANGED <<recent, acted>>,
         NEW h \in Places, Dropped(h),
         thread = "acting" => thread' = "acting" \/ h = "action"
  PROVE  CallsInv'
<1>1. request_at' = [request_at EXCEPT ![h] = NoRequest]
  BY DEF Dropped
<1>2. \A g \in Places : \/ request_at'[g].call = request_at[g].call
                        \/ request_at'[g].call \notin Calls
  BY <1>1, PlacesAre DEF FlagInv
<1>3. h = "action" => request_at'["action"].call \notin Calls
  BY <1>1, PlacesAre DEF FlagInv
<1> QED BY <1>2, <1>3, CallsKept

LEMMA CallsStale ==
  ASSUME FlagInv, CallsInv, Invalidate \/ Bind \/ CloseInbox
  PROVE  CallsInv'
<1>1. \A h \in Places : AllStale[h].call = request_at[h].call
  BY DEF FlagInv, AllStale, Requests
<1>2. \/ request_at' = AllStale
      \/ request_at' = [AllStale EXCEPT !["inbox"] = NoRequest,
                                        !["task"] = NoRequest]
  BY DEF Invalidate, Bind, CloseInbox
<1>3. \A h \in Places : \/ request_at'[h].call = request_at[h].call
                        \/ request_at'[h].call \notin Calls
  BY <1>1, <1>2, PlacesAre DEF FlagInv, AllStale
<1>4. UNCHANGED <<recent, acted, thread>>
  BY DEF Invalidate, Bind, CloseInbox
<1> QED BY <1>3, <1>4, CallsKept

LEMMA CallsStep ==
  ASSUME FlagInv, CallsInv, IsFiniteSet(Calls), Cardinality(Calls) <= MaxSeen,
         [PowerNext]_powerVars
  PROVE  CallsInv'
<1>0. request_at \in [Places -> Requests]
  BY DEF FlagInv
<1>1. ASSUME NEW k \in Kinds, Push(k) PROVE CallsInv'
  <2>1. /\ k \notin Range(recent) /\ Remember(k)
        /\ UNCHANGED <<acted, thread>>
        /\ \/ request_at' = request_at
           \/ request_at' = [request_at EXCEPT !["inbox"] =
                               [call |-> k, stale |-> FALSE]]
    BY <1>1 DEF Push, holders
  <2>2. /\ request_at'["task"] = request_at["task"]
        /\ request_at'["action"] = request_at["action"]
        /\ \/ request_at'["inbox"] = request_at["inbox"]
           \/ request_at'["inbox"].call = k
    BY <1>0, <2>1 DEF Places
  <2>3. CASE k = "reboot"
    <3>1. k \notin Calls /\ recent' = recent
      BY <2>1, <2>3, PowerAssumption DEF PowerAssumption, Remember
    <3>2. \A h \in Places : \/ request_at'[h].call = request_at[h].call
                            \/ request_at'[h].call \notin Calls
      BY <2>2, <3>1 DEF Places
    <3> QED BY <2>1, <3>1, <3>2, CallsKept
  <2>4. CASE k # "reboot"
    <3>1. k \in Calls
      BY <2>4 DEF Kinds
    <3>2. recent' = Append(recent, k)
      BY <2>1, <2>4, <3>1, RoomForCall DEF Remember
    <3>3. recent \in Seq(Calls)
      BY DEF CallsInv
    <3>4. /\ recent' \in Seq(Calls) /\ Len(recent) \in Nat
          /\ Len(recent') = Len(recent) + 1
          /\ \A i \in 1..Len(recent) : recent'[i] = recent[i]
          /\ recent'[Len(recent) + 1] = k
      BY <3>1, <3>2, <3>3, AppendProperties, LenProperties
    <3>5. /\ Range(recent) = {recent[i] : i \in 1..Len(recent)}
          /\ Range(recent') = {recent'[i] : i \in 1..Len(recent')}
      BY <3>3, <3>4, RangeEquality
    <3>6. \A c \in Calls :
            c \notin Range(recent') => c \notin Range(recent) /\ c # k
      BY <3>4, <3>5
    <3>7. \A i, j \in 1..Len(recent') : recent'[i] = recent'[j] => i = j
      BY <2>1, <3>4, <3>5 DEF CallsInv
    <3>8. acted[k] = 0 /\ \A h \in Places : request_at[h].call # k
      BY <2>1, <3>1 DEF CallsInv
    <3>9. \A c \in Calls : c \notin Range(recent') =>
            acted'[c] = 0 /\ \A h \in Places : request_at'[h].call # c
      BY <2>1, <2>2, <3>6 DEF CallsInv, Places
    <3>10. \A g, h \in Places :
             request_at'[g].call = request_at'[h].call =>
               g = h \/ request_at'[g].call \notin Calls
      BY <2>2, <3>8 DEF CallsInv, Places
    <3>11. \A h \in Places :
             request_at'[h].call \in Calls =>
               \/ acted'[request_at'[h].call] = 0
               \/ h = "action" /\ thread' = "acting"
      BY <2>1, <2>2, <3>8 DEF CallsInv, Places
    <3>12. acted' \in [Kinds -> Nat] /\ \A c \in Calls : acted'[c] < 2
      BY <2>1 DEF CallsInv
    <3> QED BY <3>4, <3>7, <3>9, <3>10, <3>11, <3>12 DEF CallsInv
  <2> QED BY <2>3, <2>4
<1>2. CASE Receive
  <2>1. /\ UNCHANGED <<recent, acted, thread>>
        /\ request_at' = [request_at EXCEPT !["task"] = request_at["inbox"],
                                            !["inbox"] = NoRequest]
    BY <1>2 DEF Receive
  <2>2. /\ request_at'["inbox"] = NoRequest
        /\ request_at'["task"] = request_at["inbox"]
        /\ request_at'["action"] = request_at["action"]
    BY <1>0, <2>1 DEF Places
  <2> QED BY <2>1, <2>2, PlacesAre DEF CallsInv, Places
<1>3. CASE TaskFailed
  BY <1>3, PlacesAre, CallsDropped DEF TaskFailed
<1>4. CASE TaskChecks \/ TaskEnds
  BY <1>4, CallsKept DEF TaskChecks, TaskEnds, handle
<1>5. CASE Spawned \/ Executed
  BY <1>5, CallsKept DEF Spawned, Executed, handle
<1>6. CASE Ready
  <2>1. CASE Dropped("task")
    <3>1. thread' = thread
      BY <1>6, <2>1, PlacesAre DEF Ready, Dropped, Valid, FlagInv, Places
    <3> QED BY <1>6, <2>1, <3>1, PlacesAre, CallsDropped DEF Ready
  <2>2. CASE ~Dropped("task")
    <3>1. /\ request_at' = [request_at EXCEPT !["task"] = NoRequest,
                                              !["action"] = request_at["task"]]
          /\ UNCHANGED <<recent, acted>>
      BY <1>6, <2>2 DEF Ready
    <3>2. /\ request_at'["task"] = NoRequest
          /\ request_at'["action"] = request_at["task"]
          /\ request_at'["inbox"] = request_at["inbox"]
      BY <1>0, <3>1 DEF Places
    <3> QED BY <3>1, <3>2, PlacesAre DEF CallsInv, Places
  <2> QED BY <2>1, <2>2
<1>7. CASE ThreadChecks
  <2>1. thread # "acting" /\ UNCHANGED <<recent, acted>>
    BY <1>7 DEF ThreadChecks
  <2>2. Dropped("action") \/ request_at' = request_at
    BY <1>7 DEF ThreadChecks
  <2> QED BY <2>1, <2>2, PlacesAre, CallsDropped, CallsKept
<1>8. CASE ThreadClaims
  <2>1. thread # "acting" /\ UNCHANGED <<recent, acted>>
    BY <1>8 DEF ThreadClaims
  <2>2. Dropped("action") \/ request_at' = request_at
    BY <1>8 DEF ThreadClaims
  <2> QED BY <2>1, <2>2, PlacesAre, CallsDropped, CallsKept
<1>9. CASE ThreadActed
  BY <1>9, PlacesAre, CallsDropped DEF ThreadActed
<1>10. CASE ShutdownRoom
  <2>1. UNCHANGED <<recent, acted>>
    BY <1>10 DEF ShutdownRoom
  <2>2. \/ thread = "waiting" /\ Dropped("action")
        \/ UNCHANGED <<thread, request_at>>
    BY <1>10 DEF ShutdownRoom
  <2> QED BY <2>1, <2>2, PlacesAre, CallsDropped, CallsKept
<1>11. CASE BeginRevoking \/ RoomAgain
  BY <1>11, CallsStale DEF BeginRevoking, RoomAgain
<1>12. CASE Decide \/ SwitchGates \/ RoomGoesOn
  <2>1. \/ Invalidate \/ CloseInbox
        \/ UNCHANGED <<recent, acted, request_at, thread>>
    BY <1>12 DEF Decide, SwitchGates, RoomGoesOn, holders
  <2> QED BY <2>1, CallsStale, CallsKept
<1>13. CASE UNCHANGED powerVars
  BY <1>13, CallsKept DEF powerVars, holders
<1>14. CASE ThreadAsks
  <2>1. /\ acted' = [acted EXCEPT ![request_at["action"].call] = @ + 1]
        /\ UNCHANGED <<recent, request_at>>
        /\ thread = "claimed" /\ thread' = "acting"
    BY <1>14 DEF ThreadAsks
  <2>2. CASE request_at["action"].call \in Calls
    <3> DEFINE k == request_at["action"].call
    <3>1. k \in Kinds /\ acted[k] = 0 /\ k \in Range(recent)
      BY <2>1, <2>2, PlacesAre DEF CallsInv, Kinds
    <3>2. acted' \in [Kinds -> Nat] /\ acted'[k] = 1
          /\ \A c \in Calls : c # k => acted'[c] = acted[c]
      BY <2>1, <3>1 DEF CallsInv, Kinds
    <3> QED BY <2>1, <2>2, <3>1, <3>2, PlacesAre DEF CallsInv
  <2>3. CASE request_at["action"].call \notin Calls
    <3>1. acted' \in [Kinds -> Nat] /\ \A c \in Calls : acted'[c] = acted[c]
      <4>1. CASE request_at["action"].call \in Kinds
        BY <2>1, <2>3, <4>1 DEF CallsInv, Kinds
      <4>2. CASE request_at["action"].call \notin Kinds
        BY <2>1, <4>2 DEF CallsInv, Kinds
      <4> QED BY <4>1, <4>2
    <3> QED BY <2>1, <2>3, <3>1 DEF CallsInv
  <2> QED BY <2>2, <2>3
<1> QED
  BY <1>1, <1>2, <1>3, <1>4, <1>5, <1>6, <1>7, <1>8, <1>9, <1>10, <1>11,
     <1>12, <1>13, <1>14
  DEF PowerNext, PowerStep

(***************************************************************************)
(* However often the server delivers a call, to this room or to a later    *)
(* one, the system is asked for it once, as long as no more calls come     *)
(* than are remembered: a call that was forgotten would be taken for new.  *)
(***************************************************************************)
THEOREM CallsActOnce ==
  ASSUME IsFiniteSet(Calls), Cardinality(Calls) <= MaxSeen
  PROVE  PowerSpec => []OncePerCall
<1>1. PowerInit => CallsInv
  <2> SUFFICES ASSUME PowerInit PROVE CallsInv
    OBVIOUS
  <2>1. /\ recent = <<>> /\ acted = [k \in Kinds |-> 0]
        /\ request_at = [h \in Places |-> NoRequest]
    BY DEF PowerInit, Places
  <2>2. recent \in Seq(Calls) /\ Len(recent) = 0
    BY <2>1, EmptySeq
  <2> QED BY <2>1, <2>2, PlacesAre DEF CallsInv, Kinds
<1>2. FlagInv /\ CallsInv /\ [PowerNext]_powerVars => FlagInv' /\ CallsInv'
  BY FlagStep, CallsStep
<1>3. CallsInv => OncePerCall
  BY DEF CallsInv, OncePerCall
<1> QED BY <1>1, <1>2, <1>3, FlagInit, PTL DEF PowerSpec
=============================================================================
