------------------------------ MODULE HostPower ------------------------------
(***************************************************************************)
(* Remote power requests: features/host/power.rs beside the room that      *)
(* carries them out.  A push makes a request, the room's inbox hands it to *)
(* a task that prepares it, the room ends control and gives it to a thread *)
(* that acts.  The request is valid while the inbox it was made for and    *)
(* the permission epoch last; it gives the one busy flag back when it is   *)
(* dropped, wherever that happens.                                         *)
(*                                                                         *)
(* Inboxes and epochs are numbered; a request compares its numbers with    *)
(* the present ones, so it is enough to know whether they have changed.    *)
(*                                                                         *)
(* The steps of the room are those of HostRoom.  The user's revocation     *)
(* invalidates requests before it takes the lock of the access record.     *)
(* Left out: malformed pushes, and a guest's login, which refuses them all.*)
(***************************************************************************)
EXTENDS HostRoom, SequencesExt

CONSTANTS Calls,     \* ids of the shutdown calls
          MaxSeen,   \* ids that are remembered
          MaxPushes  \* bound on the pushes of the server

ASSUME PowerAssumption ==
    /\ "reboot" \notin Calls /\ "none" \notin Calls
    /\ MaxSeen \in Nat \ {0} /\ MaxPushes \in Nat

VARIABLES
    bound,     \* there is an inbox
    busy,      \* a request is under way
    committed, \* a request was claimed, to be given to the system
    recent,    \* the ids of the last calls
    request_at,\* the requests there are: in the "inbox", with the "task",
               \* with the room's "action"
    task,      \* where the preparation is
    thread,    \* where the action is
    revoking,  \* the user's revocation is between its two steps
    acted,     \* how often the system was asked for each call
    pushes

handle == <<bound, busy, committed>>
holders == <<request_at, task, thread>>
powerVars == <<roomVars, handle, recent, holders, revoking, acted, pushes>>

\* A reboot has no id; a shutdown without one counts as a reboot here.
Kinds == Calls \cup {"reboot"}

NoRequest == [call |-> "none", stale |-> TRUE]

Valid(r) == ~r.stale /\ busy /\ ~committed

Permitted == active /\ allowed /\ remotePower /\ ~updating

PowerInit ==
    /\ RoomInit
    /\ bound = TRUE /\ busy = FALSE /\ committed = FALSE
    /\ recent = <<>>
    /\ request_at = [h \in {"inbox", "task", "action"} |-> NoRequest]
    /\ task = "none" /\ thread = "none"
    /\ revoking = FALSE
    /\ acted = [k \in Kinds |-> 0]
    /\ pushes = 0

\* Mutation of Given: a request gives the flag back whatever it was made for.
GivenAlways(S) == busy /\ \A r \in S : r = NoRequest

\* What busy is after the requests of S were dropped.
Given(S) == busy /\ \A r \in S : r.stale

\* The inbox or the epoch is another one now.
AllStale ==
    [h \in DOMAIN request_at |-> [request_at[h] EXCEPT !.stale = TRUE]]

Dropped(h) ==
    /\ busy' = Given({request_at[h]})
    /\ request_at' = [request_at EXCEPT ![h] = NoRequest]

-----------------------------------------------------------------------------
(***************************************************************************)
(* The handle.                                                             *)
(***************************************************************************)
\* Mutation of Invalidate: the epoch of the permission stays.
InvalidateKeepsEpoch ==
    /\ busy' = FALSE /\ committed' = FALSE
    /\ UNCHANGED <<bound, recent, holders, acted, pushes>>

Invalidate ==
    /\ busy' = FALSE /\ committed' = FALSE
    /\ request_at' = AllStale
    /\ UNCHANGED <<bound, recent, task, thread, acted, pushes>>

Remember(k) ==
    recent' = IF k = "reboot" THEN recent
              ELSE Append(IF Len(recent) = MaxSeen THEN Tail(recent) ELSE recent, k)

\* A full inbox drops the new request at once.  A reboot may also come too
\* soon after another.
Push(k) ==
    /\ pushes < MaxPushes
    /\ pushes' = pushes + 1
    /\ active
    /\ ~busy /\ ~committed /\ bound
    /\ k \notin Range(recent)
    /\ Remember(k)
    /\ IF request_at["inbox"] = NoRequest
       THEN /\ request_at' = [request_at EXCEPT !["inbox"] =
                                [call |-> k, stale |-> FALSE]]
            /\ busy' = TRUE
       ELSE UNCHANGED <<request_at, busy>>
    /\ UNCHANGED <<roomVars, bound, committed, task, thread,
                   revoking, acted>>

\* Mutation of Bind: a new inbox forgets the calls.
BindForgets ==
    /\ bound' = TRUE /\ busy' = FALSE
    /\ request_at' = AllStale
    /\ recent' = <<>>
    /\ UNCHANGED <<committed, task, thread, acted, pushes>>

Bind ==
    /\ bound' = TRUE /\ busy' = FALSE
    /\ request_at' = AllStale
    /\ UNCHANGED <<committed, recent, task, thread, acted, pushes>>

\* The inbox goes with the room: its task is aborted, what it held dropped.
CloseInbox ==
    /\ bound' = FALSE /\ busy' = FALSE
    /\ request_at' = [AllStale EXCEPT !["inbox"] = NoRequest,
                                      !["task"] = NoRequest]
    /\ task' = "none"
    /\ UNCHANGED <<committed, recent, thread, acted, pushes>>

-----------------------------------------------------------------------------
(***************************************************************************)
(* The preparation task: the permission and the machine are looked at, the *)
(* controller is answered, and the permission is looked at again.          *)
(***************************************************************************)
\* A task that is still at an older request is aborted.
Receive ==
    /\ pc = "ready"
    /\ request_at["inbox"] # NoRequest
    /\ busy' = Given({request_at["task"]})
    /\ request_at' = [request_at EXCEPT !["task"] = request_at["inbox"],
                                        !["inbox"] = NoRequest]
    /\ task' = "check"
    /\ UNCHANGED <<roomVars, bound, committed, recent, thread,
                   revoking, acted, pushes>>

\* Not permitted, not able to, no answer sent, too late, or the login ended.
TaskFailed ==
    /\ task \in {"check", "answered"}
    /\ task' = "ended"
    /\ Dropped("task")
    /\ UNCHANGED <<roomVars, bound, committed, recent, thread,
                   revoking, acted, pushes>>

TaskChecks ==
    /\ task = "check"
    /\ Valid(request_at["task"]) /\ Permitted
    /\ task' = "answered"
    /\ UNCHANGED <<roomVars, handle, recent, request_at, thread, revoking,
                   acted, pushes>>

TaskEnds ==
    /\ task = "answered"
    /\ Valid(request_at["task"]) /\ Permitted
    /\ task' = "ended"
    /\ UNCHANGED <<roomVars, handle, recent, request_at, thread, revoking,
                   acted, pushes>>

-----------------------------------------------------------------------------
(***************************************************************************)
(* The room: a request that is ready and still valid ends control and goes *)
(* to a thread, which looks at the permission, then claims the request.    *)
(***************************************************************************)
Ready ==
    LET r == request_at["task"]
        ok == Valid(r) /\ Permitted
    IN  /\ task = "ended"
        /\ PowerReady
        /\ powerExecuting' = ok
        /\ pc' = "ready" <=> ~ok
        /\ task' = "none"
        /\ IF ok
           THEN /\ request_at' = [request_at EXCEPT !["task"] = NoRequest,
                                                    !["action"] = r]
                /\ thread' = "waiting"
                /\ UNCHANGED busy
           ELSE Dropped("task") /\ UNCHANGED thread
        /\ UNCHANGED <<bound, committed, recent, revoking,
                       acted, pushes>>

Spawned ==
    /\ pc = "execute"
    /\ thread = "waiting"
    /\ thread' = "check"
    /\ UNCHANGED <<roomVars, handle, recent, request_at, task, revoking, acted,
                   pushes>>

ThreadChecks ==
    /\ thread = "check"
    /\ IF Permitted
       THEN thread' = "claim" /\ UNCHANGED <<busy, request_at>>
       ELSE thread' = "done" /\ Dropped("action")
    /\ UNCHANGED <<roomVars, bound, committed, recent, task,
                   revoking, acted, pushes>>

ThreadClaims ==
    LET r == request_at["action"]
    IN  /\ thread = "claim"
        /\ IF Valid(r)
           THEN /\ thread' = "claimed"
                /\ committed' = TRUE
                /\ UNCHANGED <<busy, request_at>>
           ELSE /\ thread' = "done"
                /\ Dropped("action")
                /\ UNCHANGED committed
        /\ UNCHANGED <<roomVars, bound, recent, task, revoking, acted,
                       pushes>>

\* The system is asked with no lock held.
ThreadAsks ==
    /\ thread = "claimed"
    /\ thread' = "acting"
    /\ acted' = [acted EXCEPT ![request_at["action"].call] = @ + 1]
    /\ UNCHANGED <<roomVars, handle, recent, request_at, task, revoking,
                   pushes>>

\* The system refused, or accepted what it carries out some time later.
ThreadActed ==
    /\ thread = "acting"
    /\ thread' = "done"
    /\ committed' \in {committed, committed /\ request_at["action"].stale}
    /\ Dropped("action")
    /\ UNCHANGED <<roomVars, bound, recent, task, revoking,
                   acted, pushes>>

Executed ==
    /\ thread = "done"
    /\ PowerExecuted
    /\ thread' = "none"
    /\ UNCHANGED <<handle, recent, request_at, task, revoking, acted, pushes>>

\* The handler is dropped where it waits; its thread goes on by itself.
ShutdownRoom ==
    /\ Shutdown
    /\ IF thread = "waiting"
       THEN thread' = "none" /\ Dropped("action")
       ELSE UNCHANGED <<thread, busy, request_at>>
    /\ UNCHANGED <<bound, committed, recent, task, revoking,
                   acted, pushes>>

-----------------------------------------------------------------------------
(***************************************************************************)
(* The user.  Turning control off, and the end of the login, first         *)
(* invalidate the requests and then change the record; the power switch    *)
(* does both under its lock.                                               *)
(***************************************************************************)
BeginRevoking ==
    /\ ~revoking
    /\ active
    /\ permission < MaxDecisions
    /\ Invalidate
    /\ revoking' = TRUE
    /\ UNCHANGED roomVars

Revokes == active' # active \/ (allowed /\ ~allowed')

Decide ==
    /\ User
    /\ IF Revokes
       THEN revoking /\ revoking' = FALSE
       ELSE UNCHANGED revoking
    /\ UNCHANGED <<handle, recent, holders, acted, pushes>>

SwitchGates ==
    /\ Gates
    /\ IF remotePower' # remotePower
       THEN Invalidate
       ELSE UNCHANGED <<handle, recent, holders, acted, pushes>>
    /\ UNCHANGED revoking

RoomGoesOn ==
    /\ \/ Handler \/ OwnEvent \/ RemoteEvent \/ PeerEvent \/ TransportLost
       \/ \E s \in Sessions : Task(s)
    /\ IF pc = "leave" /\ pc' = "closed"
       THEN CloseInbox
       ELSE UNCHANGED <<handle, recent, holders, acted, pushes>>
    /\ UNCHANGED revoking

RoomAgain ==
    /\ NextRoom
    /\ Bind
    /\ UNCHANGED revoking

PowerStep ==
    \/ \E k \in Kinds : Push(k)
    \/ Receive \/ TaskChecks \/ TaskFailed \/ TaskEnds
    \/ Ready \/ Spawned \/ ThreadChecks \/ ThreadClaims \/ ThreadAsks
    \/ ThreadActed \/ Executed

PowerNext ==
    \/ PowerStep
    \/ BeginRevoking \/ Decide \/ SwitchGates
    \/ RoomGoesOn \/ RoomAgain \/ ShutdownRoom

PowerSpec == PowerInit /\ [][PowerNext]_powerVars

-----------------------------------------------------------------------------
(***************************************************************************)
(* The busy flag stands for exactly one request, which is where somebody   *)
(* will drop it.  A flag that nobody gives back would refuse every later   *)
(* request in silence, and one that a stale request gives back would admit *)
(* a second beside the first (Request::drop, Inbox::drop, bind).           *)
(***************************************************************************)
BusyIsOneRequest ==
    Cardinality({h \in DOMAIN request_at : ~request_at[h].stale})
        = IF busy THEN 1 ELSE 0

(***************************************************************************)
(* A request is claimed only while the power switch is on, although the    *)
(* switch is read under one lock and the request claimed under another     *)
(* (Request::execute): turning it makes every earlier request stale.  The  *)
(* claim is as far as this goes.  The system is asked one statement later  *)
(* with no lock held, so it may be asked after the switch was turned off.  *)
(***************************************************************************)
ClaimedUnderSwitch ==
    [][~committed /\ committed' => remotePower]_powerVars

(***************************************************************************)
(* While the system is asked no session is alive and none comes up, so a   *)
(* shutdown that the system cancels finds nobody inside; also for a thread *)
(* whose room was shut down.                                               *)
(***************************************************************************)
NobodyInside ==
    thread \in {"check", "claim", "claimed", "acting"} =>
        \A s \in Sessions : ~Alive(s)

(***************************************************************************)
(* A call that is delivered again, to this room or the next one, is        *)
(* carried out once.                                                       *)
(***************************************************************************)
OncePerCall == \A c \in Calls : acted[c] < 2
=============================================================================
