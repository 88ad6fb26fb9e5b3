----------------------------- MODULE RemoteInput -----------------------------
(***************************************************************************)
(* Keys and mouse buttons on their way from the viewing windows to the     *)
(* host (features/remote_input.rs, remote_input/recovery.rs and the sender *)
(* in transport/rtc/channels.rs): one record under a mutex, which windows, *)
(* the session and the sender task change, and the mixed-KCP worker        *)
(* (KcpControl) that carries the edges.                                    *)
(*                                                                         *)
(* The hazard is a key that stays down at the host: the record must know   *)
(* of every press that may have been sent, whatever was cancelled, failed  *)
(* or cut in between, and must owe its release.                            *)
(*                                                                         *)
(* Every epoch number in the code is compared with the present one only,   *)
(* by the sender and by the guards of its command; so the epoch is modelled*)
(* as current: whether the sender's work is of the present epoch.  Left    *)
(* out: motion, the wheel and heartbeats (of which only the full queue     *)
(* counts, QueueFull), their throttle, the assistance sources, lock keys,  *)
(* relative mode, and the SCTP carrier.                                    *)
(***************************************************************************)
EXTENDS KcpControl, FiniteSets

CONSTANTS Keys, Modifiers,  \* the keys, and those that are modifiers
          Left,             \* the left mouse button, which a drag may keep
          Rank,             \* the order inputs are released in
          Chord,            \* the keys of the Ctrl+Alt+Del command, in order
          Owners, NoOwner,  \* the windows
          MaxEvents         \* MAX_EVENTS, the length of the queue

ASSUME InputAssumption ==
    /\ Modifiers \subseteq Keys /\ Keys \subseteq Inputs
    /\ Left \in Inputs \ Keys
    /\ Chord \in Seq(Keys)
    /\ NoOwner \notin Owners
    /\ MaxEvents \in Nat \ {0}

\* Ordinary keys before modifiers, and keys before buttons.
ASSUME RankAssumption ==
    /\ IsFiniteSet(Inputs)
    /\ Rank \in [Inputs -> Nat]
    /\ \A i, j \in Inputs : Rank[i] = Rank[j] => i = j
    /\ \A i \in Keys \ Modifiers, j \in Modifiers : Rank[i] < Rank[j]
    /\ \A i \in Keys, j \in Inputs \ Keys : Rank[i] < Rank[j]

VARIABLES
    ready, stopping,
    mode,         \* View, Neutral (control, waiting for all keys up), Control
    owner,        \* the window whose input it is
    held,         \* keys and held: what that window holds down
    remote,       \* remote_keys and remote_held: what may be down at the host
    checkpoint,   \* release_checkpoint: keys retired at an ownership boundary
    queue,
    inFlight,
    drag,         \* drag_hold: a file handoff keeps the left button
    recovery,     \* transport_recovery: none, pending, dispatched, confirmed
    recovering,   \* one release pass after a failed send was begun
    joining,      \* set_ready has made it ready and not reconciled yet
    pc,           \* where send_remote_input is
    work,         \* the edge it sends
    pass,         \* the rest of the release pass and its probe
    current       \* its work is of the present epoch

intentVars == <<ready, stopping, mode, owner, held, drag>>
owedVars == <<remote, checkpoint, queue, inFlight, recovery, recovering>>
senderVars == <<pc, work, pass, current>>
inputVars == <<intentVars, owedVars, joining, senderVars, kcpVars>>

Sending == {"popped", "submitted"}
Passing == {"pass", "passSent", "drain", "draining"}

InputTypeOK ==
    /\ KcpTypeOK
    /\ ready \in BOOLEAN /\ stopping \in BOOLEAN
    /\ mode \in {"View", "Neutral", "Control"}
    /\ owner \in Owners \cup {NoOwner}
    /\ held \subseteq Inputs /\ remote \subseteq Inputs
    /\ checkpoint \subseteq Keys
    /\ queue \in Seq(Edge)
    /\ inFlight \in BOOLEAN /\ drag \in BOOLEAN
    /\ recovery \in {"none", "pending", "dispatched", "confirmed"}
    /\ recovering \in BOOLEAN /\ joining \in BOOLEAN
    /\ pc \in {"idle"} \cup Sending \cup Passing
    /\ work \in Message
    /\ pass \in Seq(Message)
    /\ current \in BOOLEAN
    /\ mode # "View" => ready /\ ~stopping /\ recovery = "none"

InputInit ==
    /\ KcpInit
    /\ ready = FALSE /\ stopping = FALSE
    /\ mode = "View"
    /\ owner = NoOwner
    /\ held = {} /\ remote = {} /\ checkpoint = {}
    /\ queue = <<>>
    /\ inFlight = FALSE /\ drag = FALSE
    /\ recovery = "none"
    /\ recovering = FALSE /\ joining = FALSE
    /\ pc = "idle"
    /\ work = Probe
    /\ pass = <<>>
    /\ current = FALSE

-----------------------------------------------------------------------------
(* What the operations share.                                               *)

Up(i) == [input |-> i, down |-> FALSE]
Down(i) == [input |-> i, down |-> TRUE]

Place(S, i) == Cardinality({j \in S : Rank[j] =< Rank[i]})

Ups(S) ==
    [n \in 1..Cardinality(S) |-> Up(CHOOSE i \in S : Place(S, i) = n)]

\* advance_epoch: the sender's work is cancelled, and a recovery with it.
AdvanceEpoch ==
    /\ current' = FALSE
    /\ inFlight' = FALSE

\* Mutation of ReleaseLocked: only what the window still holds is released.
ReleaseLockedHeld(o, q) ==
    /\ AdvanceEpoch
    /\ drag' = FALSE
    /\ queue' = SelectSeq(q, LAMBDA e : e.input \in held)
    /\ checkpoint' = checkpoint \cup (remote \cap Keys)
    /\ held' = {}
    /\ owner' = o

\* release_locked: unsent edges go, everything that may be down is released.
ReleaseLocked(o, q) ==
    /\ AdvanceEpoch
    /\ drag' = FALSE
    /\ queue' = q
    /\ checkpoint' = checkpoint \cup (remote \cap Keys)
    /\ held' = {}
    /\ owner' = o

BeginRecovery ==
    /\ ReleaseLocked(NoOwner, Ups(remote))
    /\ mode' = "View"
    /\ recovery' = "pending"

\* An operation of a window or of the session: the sender only learns of the
\* epoch, the record of what may be down does not change.
Operation == UNCHANGED <<stopping, remote, joining, pc, work, pass, kcpVars>>

-----------------------------------------------------------------------------
(* The windows.                                                             *)

\* claim
Claims(o) == ready /\ ~stopping /\ mode = "Control" /\ o \in Owners

\* What claim leaves of the queue and of what is held.
Claimed(o) == IF owner = o THEN queue ELSE Ups(remote)
Kept(o) == IF owner = o THEN held ELSE {}

\* Motion or the wheel of a window, as far as it claims the input.
Move(o) ==
    /\ Claims(o)
    /\ owner # o
    /\ ReleaseLocked(o, Ups(remote))
    /\ recovery' = "none"
    /\ UNCHANGED <<ready, mode, recovering>>
    /\ Operation

Press(o, i) ==
    /\ Claims(o)
    /\ i \in Keys \/ i \notin Kept(o)
    /\ IF Len(Claimed(o)) >= MaxEvents
       THEN BeginRecovery
       ELSE /\ IF owner = o
               THEN UNCHANGED <<owner, drag, checkpoint, current, inFlight, recovery>>
               ELSE /\ AdvanceEpoch
                    /\ owner' = o
                    /\ drag' = FALSE
                    /\ checkpoint' = checkpoint \cup (remote \cap Keys)
                    /\ recovery' = "none"
            /\ queue' = Append(Claimed(o), Down(i))
            /\ held' = Kept(o) \cup {i}
            /\ UNCHANGED mode
    /\ UNCHANGED <<ready, recovering>>
    /\ Operation

\* A press and its release are never folded together.
Lift(o, i) ==
    /\ owner = o
    /\ i \in held
    /\ IF Len(queue) >= MaxEvents
       THEN BeginRecovery
       ELSE /\ queue' = Append(queue, Up(i))
            /\ held' = held \ {i}
            /\ UNCHANGED <<mode, owner, drag, checkpoint, current, inFlight, recovery>>
    /\ UNCHANGED <<ready, recovering>>
    /\ Operation

\* pause_for_recovery, and push when motion filled the queue.
QueueFull ==
    /\ ready /\ ~stopping /\ mode # "View"
    /\ BeginRecovery
    /\ UNCHANGED <<ready, recovering>>
    /\ Operation

\* pause_owner: a file handoff keeps the left button, everything else goes.
PauseOwner(o) ==
    /\ owner = o /\ o \in Owners
    /\ IF drag /\ Left \in held
       THEN /\ held # {Left}
            /\ queue' = Ups(remote \ {Left})
            /\ checkpoint' = checkpoint \cup (remote \cap Keys)
            /\ held' = {Left}
            /\ UNCHANGED <<owner, drag, current, inFlight, recovery>>
       ELSE /\ ReleaseLocked(NoOwner, Ups(remote))
            /\ recovery' = "none"
    /\ UNCHANGED <<ready, mode, recovering>>
    /\ Operation

\* send_ctrl_alt_del: the finite command enters the queue whole.
CtrlAltDel(o) ==
    /\ Claims(o)
    /\ ReleaseLocked(o, Ups(remote)
                        \o [n \in DOMAIN Chord |-> Down(Chord[n])]
                        \o [n \in DOMAIN Chord |-> Up(Chord[Len(Chord) + 1 - n])])
    /\ recovery' = "none"
    /\ UNCHANGED <<ready, mode, recovering>>
    /\ Operation

-----------------------------------------------------------------------------
(* The drag of files out of the remote window, which keeps the button down. *)

HoldDrag(o) ==
    /\ ready /\ ~stopping /\ mode # "View" /\ ~drag
    /\ owner = o /\ o \in Owners
    /\ Left \in held \cap remote
    /\ drag' = TRUE
    /\ UNCHANGED <<ready, mode, owner, held, checkpoint, queue, inFlight, recovery,
                   recovering, current>>
    /\ Operation

\* The position it resumes at may fill the queue: QueueFull.
ResumeDrag(left) ==
    /\ ready /\ ~stopping /\ mode # "View" /\ drag
    /\ Left \in held \cap remote
    /\ IF left
       THEN /\ drag' = FALSE
            /\ UNCHANGED <<mode, owner, held, checkpoint, queue, inFlight, recovery, current>>
       ELSE IF Len(queue) >= MaxEvents
       THEN BeginRecovery
       ELSE /\ drag' = FALSE
            /\ held' = held \ {Left}
            /\ queue' = Append(queue, Up(Left))
            /\ UNCHANGED <<mode, owner, checkpoint, inFlight, recovery, current>>
    /\ UNCHANGED <<ready, recovering>>
    /\ Operation

CancelDrag ==
    /\ drag
    /\ ReleaseLocked(NoOwner, Ups(remote))
    /\ recovery' = "none"
    /\ UNCHANGED <<ready, mode, recovering>>
    /\ Operation

-----------------------------------------------------------------------------
(* The session.                                                             *)

Enable ==
    /\ ready /\ ~stopping /\ ~joining
    /\ mode = "View"
    /\ recovery \in {"none", "confirmed"}
    /\ ReleaseLocked(NoOwner, Ups(remote))
    /\ mode' = "Neutral"
    /\ recovery' = "none"
    /\ recovering' = FALSE
    /\ UNCHANGED ready
    /\ Operation

\* enable, from one mode of control to another.
SwitchMode ==
    /\ mode # "View" /\ ~joining
    /\ ReleaseLocked(NoOwner, Ups(remote))
    /\ recovery' = "none"
    /\ recovering' = FALSE
    /\ UNCHANGED <<ready, mode>>
    /\ Operation

\* Of a present activation; the code drops the confirmation of an earlier one.
ConfirmNeutral ==
    /\ mode = "Neutral" /\ ready /\ ~stopping
    /\ mode' = "Control"
    /\ UNCHANGED <<ready, owner, held, drag, checkpoint, queue, inFlight, recovery,
                   recovering, current>>
    /\ Operation

Disable ==
    /\ ReleaseLocked(NoOwner, IF ready THEN Ups(remote) ELSE <<>>)
    /\ mode' = "View"
    /\ recovery' = "none"
    /\ UNCHANGED <<ready, recovering>>
    /\ Operation

\* pause_layout does not ask whether the carrier is ready.
PauseLayout ==
    /\ ~joining
    /\ ReleaseLocked(NoOwner, Ups(remote))
    /\ recovery' = "none"
    /\ UNCHANGED <<ready, mode, recovering>>
    /\ Operation

Releasing(q) == {q[n].input : n \in {m \in DOMAIN q : ~q[m].down}}

IsModifierUp(e) == ~e.down /\ e.input \in Modifiers

\* Where ordinary keys are released: before the first release of a modifier.
BeforeModifiers(q) ==
    {n \in 0..Len(q) :
        /\ \A m \in 1..n : ~IsModifierUp(q[m])
        /\ n < Len(q) => IsModifierUp(q[n + 1])}

\* reconcile_keyboard_releases: every retired key is released once more.
ReconcileReleases ==
    LET fresh == checkpoint \ Releasing(queue)
    IN  IF ready
        THEN /\ checkpoint' = {}
             /\ remote' = remote \cup fresh
             /\ \E n \in BeforeModifiers(queue) :
                  queue' = SubSeq(queue, 1, n) \o Ups(fresh \ Modifiers)
                             \o SubSeq(queue, n + 1, Len(queue))
                             \o Ups(fresh \cap Modifiers)
        ELSE UNCHANGED <<checkpoint, remote, queue>>

\* A change of the input desktop, at any time, and set_ready.
Reconcile ==
    /\ ready \/ joining
    /\ ReconcileReleases
    /\ joining' = FALSE
    /\ UNCHANGED <<intentVars, inFlight, recovery, recovering, senderVars, kcpVars>>

\* set_ready(true); it reconciles after it has let the mutex go.
Connect ==
    /\ ~ready /\ ~stopping /\ ~joining
    /\ ready' = TRUE
    /\ joining' = TRUE
    /\ ReleaseLocked(NoOwner, Ups(remote))
    /\ recovery' = "none"
    /\ UNCHANGED <<stopping, mode, remote, recovering, pc, work, pass, kcpVars>>

\* set_ready(false)
Unready ==
    /\ ready' = FALSE
    /\ mode' = "View"
    /\ owner' = NoOwner
    /\ held' = {}
    /\ drag' = FALSE
    /\ queue' = <<>>
    /\ recovery' = "none"
    /\ AdvanceEpoch
    /\ UNCHANGED <<checkpoint, recovering>>
    /\ Operation

Disconnect == ready /\ Unready

\* set_ready(true) while it is being closed: not ready, and no new epoch.
ReadyTooLate ==
    /\ ready /\ stopping
    /\ ready' = FALSE
    /\ UNCHANGED <<stopping, mode, owner, held, drag, owedVars, joining,
                   senderVars, kcpVars>>

Close ==
    /\ ready \/ ~stopping
    /\ stopping' = TRUE
    /\ mode' = "View"
    /\ ReleaseLocked(NoOwner, IF ready THEN Ups(remote) ELSE <<>>)
    /\ recovery' = "none"
    /\ UNCHANGED <<ready, remote, recovering, joining, pc, work, pass, kcpVars>>

\* close() goes on when the queue is drained, or after a second.
Closed == stopping /\ Unready

-----------------------------------------------------------------------------
(* The sender.                                                              *)

IsCurrent == ready /\ current

RecoveryCurrent == ready /\ ~stopping /\ current /\ recovery # "none"

Recoverable == recovery = "pending" /\ ready /\ ~stopping

\* take_recovery_locked: the pass takes over every release that is queued.
NextRecovery ==
    /\ pc = "idle"
    /\ Recoverable
    /\ recovery' = "dispatched"
    /\ pass' = Append(queue, Probe)
    /\ queue' = <<>>
    /\ pc' = "pass"
    /\ current' = TRUE
    /\ UNCHANGED <<intentVars, remote, checkpoint, inFlight, recovering, joining, work, kcpVars>>

\* Mutation of Pop: a press is noted when it was sent.
PopUnnoted ==
    /\ pc = "idle"
    /\ ~Recoverable
    /\ queue # <<>>
    /\ work' = Head(queue)
    /\ queue' = Tail(queue)
    /\ inFlight' = TRUE
    /\ current' = TRUE
    /\ pc' = "popped"
    /\ UNCHANGED <<intentVars, remote, checkpoint, recovery, recovering, joining, pass, kcpVars>>

\* next: a press is noted before it is handed to the carrier.
Pop ==
    /\ pc = "idle"
    /\ ~Recoverable
    /\ queue # <<>>
    /\ work' = Head(queue)
    /\ queue' = Tail(queue)
    /\ inFlight' = TRUE
    /\ current' = TRUE
    /\ remote' = IF work'.down THEN remote \cup {work'.input} ELSE remote
    /\ checkpoint' = IF work'.down THEN checkpoint \ {work'.input} ELSE checkpoint
    /\ pc' = "popped"
    /\ UNCHANGED <<intentVars, recovery, recovering, joining, pass, kcpVars>>

\* is_current and refresh_pending, after the wait for capacity of a press.
Submit ==
    /\ pc = "popped"
    /\ IsCurrent
    /\ Request(Send(work))
    /\ pc' = "submitted"
    /\ UNCHANGED <<intentVars, owedVars, joining, work, pass, current>>

\* The loop of send_remote_input begins again; the request it leaves is dropped.
Idle ==
    /\ pc' = "idle"
    /\ work' = Probe
    /\ pass' = <<>>
    /\ Forget

\* discard: the epoch has moved on, whatever the carrier did.
Discard ==
    /\ pc \in Sending
    /\ ~IsCurrent
    /\ inFlight' = (inFlight /\ ~current)
    /\ Idle
    /\ current' = FALSE
    /\ UNCHANGED <<intentVars, remote, checkpoint, queue, recovery, recovering, joining>>

\* complete(Ok)
Sent ==
    /\ pc = "submitted"
    /\ IsCurrent
    /\ reply = "ok"
    /\ inFlight' = FALSE
    /\ remote' = IF work.down THEN remote ELSE remote \ {work.input}
    /\ Idle
    /\ current' = FALSE
    /\ UNCHANGED <<intentVars, checkpoint, queue, recovery, recovering, joining>>

\* The carrier refused, was gone, or did not answer within the second. Only a
\* press waits for capacity before it is submitted.
SendFails ==
    /\ IsCurrent
    /\ \/ pc = "submitted" /\ reply # "ok"
       \/ pc = "popped" /\ (work.down \/ ~alive)

\* pause_transport: what may be down is released in a pass of its own.
PauseTransport ==
    /\ SendFails
    /\ ~stopping /\ mode # "View"
    /\ drag' = FALSE /\ inFlight' = FALSE /\ held' = {} /\ owner' = NoOwner
    /\ checkpoint' = checkpoint \cup (remote \cap Keys)
    /\ mode' = "View"
    /\ recovery' = "dispatched"
    /\ queue' = <<>>
    /\ pass' = Append(Ups(remote), Probe)
    /\ work' = Probe
    /\ current' = TRUE
    /\ Forget
    /\ pc' = "pass"
    /\ UNCHANGED <<ready, stopping, remote, recovering, joining>>

\* complete(Err): one release pass, without the release that just failed.
GiveUp ==
    /\ SendFails
    /\ stopping \/ mode = "View"
    /\ mode' = "View"
    /\ IF recovering
       THEN /\ owner' = NoOwner /\ held' = {} /\ inFlight' = FALSE /\ current' = FALSE
            /\ UNCHANGED <<drag, checkpoint, queue, recovery>>
       ELSE /\ ReleaseLocked(NoOwner, Ups(IF work.down THEN remote
                                          ELSE remote \ {work.input}))
            /\ recovery' = "none"
    /\ recovering' = TRUE
    /\ Idle
    /\ UNCHANGED <<ready, stopping, remote, joining>>

\* recover_remote_input: one release after the other, then the probe.
PassOn ==
    /\ pc = "pass"
    /\ RecoveryCurrent
    /\ Request(Send(Head(pass)))
    /\ pc' = "passSent"
    /\ UNCHANGED <<intentVars, owedVars, joining, work, pass, current>>

PassNext ==
    /\ pc = "passSent"
    /\ current
    /\ reply = "ok"
    /\ pass' = Tail(pass)
    /\ pc' = IF Len(pass) = 1 THEN "drain" ELSE "pass"
    /\ UNCHANGED <<intentVars, owedVars, joining, work, current, kcpVars>>

AskDrain ==
    /\ pc = "drain"
    /\ current
    /\ Request(Drain)
    /\ pc' = "draining"
    /\ UNCHANGED <<intentVars, owedVars, joining, work, pass, current>>

\* finish_transport_recovery(Ok)
Recovered ==
    /\ pc = "draining"
    /\ current
    /\ reply = "ok"
    /\ remote' = {}
    /\ recovery' = "confirmed"
    /\ Idle
    /\ current' = FALSE
    /\ UNCHANGED <<intentVars, checkpoint, queue, inFlight, recovering, joining>>

\* finish_transport_recovery(Err)
RecoveryFails ==
    /\ pc \in Passing
    /\ current
    /\ \/ pc \in {"passSent", "draining"} /\ reply = "failed"
       \/ pc \in {"pass", "drain"} /\ ~alive
    /\ ReleaseLocked(NoOwner, Ups(remote))
    /\ recovery' = "none"
    /\ Idle
    /\ UNCHANGED <<ready, stopping, mode, remote, recovering, joining>>

\* epoch_cancelled: the pass belongs to an epoch that is over.
PassCancelled ==
    /\ pc \in Passing
    /\ ~current
    /\ Idle
    /\ UNCHANGED <<intentVars, owedVars, joining, current>>

-----------------------------------------------------------------------------
\* The guard of the sender's command: is_current or recovery_current.
Valid == IF pc = "submitted" THEN IsCurrent ELSE RecoveryCurrent

Carrier ==
    /\ WorkerStep(Valid)
    /\ UNCHANGED <<intentVars, owedVars, joining, senderVars>>

Windows ==
    \E o \in Owners :
        \/ Move(o)
        \/ \E i \in Inputs : Press(o, i) \/ Lift(o, i)
        \/ PauseOwner(o)
        \/ CtrlAltDel(o)
        \/ HoldDrag(o)

Session ==
    \/ QueueFull \/ CancelDrag
    \/ \E left \in BOOLEAN : ResumeDrag(left)
    \/ Enable \/ SwitchMode \/ ConfirmNeutral \/ Disable
    \/ PauseLayout \/ Reconcile
    \/ Connect \/ Disconnect \/ ReadyTooLate \/ Close \/ Closed

Sender ==
    \/ NextRecovery \/ Pop \/ Submit \/ Discard \/ Sent
    \/ PauseTransport \/ GiveUp
    \/ PassOn \/ PassNext \/ AskDrain \/ Recovered \/ RecoveryFails \/ PassCancelled

InputNext == Windows \/ Session \/ Sender \/ Carrier

InputSpec == InputInit /\ [][InputNext]_inputVars

-----------------------------------------------------------------------------
(***************************************************************************)
(* No press is ever forgotten: an input that is, or will be, down at the   *)
(* host when everything committed has arrived is one the record still      *)
(* knows it may have to release, whatever was cancelled, failed, timed out *)
(* or cut between the press and now (next, complete, send_remote_input).   *)
(***************************************************************************)
NoForgottenPress == \A i \in Inputs : EndsDown(i) => i \in remote

(***************************************************************************)
(* A recovery is only confirmed, so that control may resume, when the host *)
(* has acknowledged every release: nothing is down there, and no press is  *)
(* on its way (finish_transport_recovery, drain).                          *)
(***************************************************************************)
RecoveredIsClean ==
    recovery = "confirmed" =>
        /\ down = {}
        /\ \A n \in DOMAIN wire : ~wire[n].down
        /\ slot # <<>> => ~slot[1].message.down

(***************************************************************************)
(* Every input that may be down at the host although no window holds it    *)
(* has its release under way: queued, in the sender's hands, or in the     *)
(* release pass.  The exception is a release that could not be sent when   *)
(* nobody controls, which the user is told of (release_locked, complete).  *)
(* It is also what close() relies on when it only waits for the queue and  *)
(* for what is in flight.                                                  *)
(***************************************************************************)
Under ==
    Releasing(queue)
    \cup (IF inFlight /\ ~work.down THEN {work.input} ELSE {})
    \cup (IF pc \in Passing /\ current THEN remote ELSE {})

ReleaseOwed == ready /\ ~recovering => remote \ held \subseteq Under
=============================================================================
