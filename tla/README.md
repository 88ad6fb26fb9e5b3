# A TLA+ model of openuuyc

OpenUUYC is a remote desktop program: a *controller* views and drives a *host* over
WebRTC, and both meet in a room on a signaling server outside the repository. One
process can be both. This directory holds TLA+ models of the parts of the program
where order, concurrency and failure decide whether it is right, the TLC runs that
check them, and TLAPS proofs of what matters most.

1. [Inventory](#1-inventory): the parts of the system
2. [Modules](#2-modules): which module models which part, and how
3. [Runs](#3-runs): what is checked, within which bounds, under which fairness
4. [Proofs](#4-proofs): what holds for every value of the constants, and why
5. [Findings](#5-findings)
6. [What is not modelled](#6-what-is-not-modelled)
7. [Plan](#7-plan)

To check a module: `tlc -config HostRoom.cfg MCHostRoom`; to check the proofs of a
module: `tlapm HostRoomProofs.tla`. `PROJECT.json` lists the runs, the lines of code
every definition stands for, a broken variant of the code for every property, the
hazards and the theorems.

## 1. Inventory

About 205,000 lines of Rust under `src/src/`, of which the platform layer is a
quarter and the application's pages another fifth. The parts below carry the
program's own logic; the *hard* column says what a test would hardly reach.

### Modelled

| part | state it keeps | operations | talks to | hard | must hold |
| --- | --- | --- | --- | --- | --- |
| access record, `features/host/access.rs` | one record under a mutex: generations of permission, owner and streams; switches for update, power, assistance; the session shown; leases that capture generations | the user's decisions, retry, retire; gates; `lease`, `peer_lease`, `begin_stream`, `update`, `finish` | every host worker holds a lease; the room publishes and reads requests | stale leases used after the generations moved; an end reported by any of seven parties | one session accepted; a refused lease stays refused; an end is reported once; nothing starts behind a closed gate |
| host room, `transport/signal/host.rs` with `signal/mod.rs`, `session/presence.rs`, `host/peer/mod.rs` | authorization, request seen, preparing task, peer, early offer, power job | `next` (select!), `apply`, `event`, `end_control`, `close` | server by HTTP and room messages; access record by leases; peers by tasks | handlers await with the user, tasks and peers acting; a shutdown drops a handler at any await | one session alive; nothing leaks; the server's flag follows the user; viewers are told |
| terminal, `features/host/terminal.rs`, `terminal/local.rs` | a table of shells, an output queue for each consumer, exit and idle marks | open, attach, detach, kill, pump, drain, reap, sweep | pump task and frame handler of each connection, thread of each local terminal, the user's switches | every reader drains all shells for all others; handlers act on a grant they read earlier | one remote consumer; exit comes last; queues bounded; dead shells go; shells end with their grant |
| task scopes, `lifecycle.rs`, `transport/rtc/workers.rs` | accepting flags, tokens, trackers of a tree of scopes; one admission mutex | `child`, `spawn_in`/`admit`, `cancel`, `close`, drop | owner of every RTC worker | admission races closing; a closer gives up while another waits | no `close()` returns over unfinished work; none hangs |
| shared session, `session/controller/{shared,mod,connection,windows,viewing}.rs` | pool of weak references, gate of a device, viewing flag, media receiver, close request | connect, share, register, lease, drop, end, `shutdown_all` | windows and services; the signalling task and its peer | two connectors at once; the last reference dropped beside a look at the pool; a shutdown during a connect | one network owner; the viewer has the receiver; an end is never forgotten |
| remote input, `features/remote_input.rs`, `remote_input/recovery.rs`, sender in `transport/rtc/channels.rs` | owner, held inputs, inputs that may be down at the host, queue, in-flight edge, drag, recovery | keys and buttons of windows; enable, disable, pause, drag; sender, release pass | KCP worker through guarded commands | an edge in flight while ownership or the connection changes; a release that cannot be sent | no press is forgotten; each release is owed; control resumes over a clean host |
| CONTROL stream, `transport/uu_kcp.rs` | command queue, command in hand, unacknowledged segments, a drain | send, drain, acknowledge, die | the sender of remote input; the host applies edges | the guard is evaluated, then the command committed | what was answered was delivered or is on the wire |

| power requests, `features/host/power.rs` with `signal/host.rs` | the inbox in force, permission epoch, busy and committed flags, the last 64 call ids; a request that knows what it was made for | push, bind, invalidate; prepare, answer, claim, execute; give the flag back | the permission is read before the claim; a request is dropped by any of eight parties; the room may go while its thread acts | one request at a time; the claim falls under the switch; the system is asked with nobody inside, once for each call |
| file transfer, `features/file_transfer/*` | records on both disks, queue, workers and their tokens; the host's jobs; the receiving directory with its temporary files | add, pause, resume, cancel, clear, quit; register, ask, send or receive, rename, save, settle | crash of either side between two writes; a lost answer; a command meeting a worker at any step; two tasks for one name | a done task is delivered, once; nothing is replaced unasked; nothing received is lost; records tell the truth; the loop comes back |

### Not modelled

| part | state | operations | hard | must hold |
| --- | --- | --- | --- | --- |
| assistance, `features/host/assist.rs`, `session/controller/assist.rs`, `account/assist.rs` | password, pending request, the user's answer, admission token | ready, configure, ask, reply | the reply of a withdrawn admission | nobody is admitted by an admission that ended |
| presence and the managed host, `session/presence.rs`, `resident.rs`, `host_client.rs`, `host/settings.rs` | retry policy; settings in the window and in the service; a disconnect to deliver | poll every 500 ms, persist, apply | two copies edited at the same time; a call that fails after its request was taken | both copies settle on the last decision; a disconnect is not lost |
| peer and media of the host, `features/host/{peer,transport,track,congestion,burst,protection,fec,keyframe,parameters,format,network}` | rates, windows of feedback, frames | encode, pace, protect, adapt | control loops over measured time | rates within limits |
| bandwidth allocation, `features/host/allocation.rs` | none | share a target over streams | rounding, minima | shares add up to at most the target |
| displays, `features/host/displays`, `crates/vkms` | virtual screens, topology to restore | create, arrange, restore | crash while screens are virtual | the user's topology comes back |
| host input, clipboard, files, microphone, sound, annotation, desktop | session-bound workers | inject, copy, transfer | leases that end meanwhile | see the access record |
| Wake on LAN, update resume | a file that survives the update | save, resume | crash between the steps | resumed once |
| port mapping, `features/port_mapping` | mappings, connection of the service | start, stop, reconnect | a mapping beside a reconnect | a mapping is on one connection |
| clipboard and drag and drop of the controller | formats, offered data | offer, fetch | formats arrive late | data is of the last offer |
| stream control, `features/stream_control` and settings | requests and answers | handshake, push settings | answers out of order | the last setting wins |
| signaling wire, negotiation, takeover | socket, SDP | connect, offer, answer | service outside the repository | |
| RTC core, receiver, error correction, timing | packets, clocks | receive, order, repair | arithmetic over packets | frames decode in order |
| decoders, encoders, media devices, `media` | a pool of decoders with a fallback | prepare, complete | completion of an old preparation | the decoder in use fits the stream |
| account, plugins, application and interface, diagnostics, platforms and drivers, protocol tables, codecs, tools | | | | |

### How the parts interact

The **access record** is the authority of the host: a window's decision moves a
generation, the **room** reads the published request, announces it to the server and
admits controllers with leases made from it. A controller's **peer** gets a lease of
its own, and every worker of the peer (input, clipboard, **terminal**, microphone,
streams) checks a copy of it before it acts. The workers run in the **task scope** of
the peer. On the other side a window or a service of the controller obtains the
**shared session** of the device, whose peer has a scope of the same kind; a viewing
window sends keys and buttons through **remote input** over the **CONTROL stream** of
the peer, and the terminal window uses a connection of its own. A **power request**
arrives beside the room in which it is carried out: its preparation is a task of its own,
then the room ends control and a thread asks the system, while the record holds the
gate for new sessions closed. **File transfer** is a service over a shared session; its
loop on the controller serves all tasks, and every transfer has a worker there and a
job in the engine of the host.

In the modelled parts shared state is under a mutex that is not held over an await (the record,
the table, the input, the pool), so an operation on it is one step; what interleaves
is what the callers do between operations. Most of the hazards are of that kind.

## 2. Modules

| module | what it is | built on |
| --- | --- | --- |
| `HostAccess` | the access record and the most general user of its leases | |
| `HostRoom` | the room actor, its preparation tasks and peers: one user of the record | extends `HostAccess`, shown to implement it |
| `TerminalSessions` | the table of shells and the tasks around it | |
| `TaskOwnership` | what a task scope promises | |
| `TaskScope` | a scope, step by step between its mutex, flags, tokens and trackers | implements `TaskOwnership` |
| `SharedSession` | sessions shared by windows and services | uses `TaskOwnership` for the peers' workers |
| `KcpControl` | the worker of the CONTROL stream | |
| `RemoteInput` | keys and buttons, their record and their sender | extends `KcpControl` |
| `FileTransfer` | the controller's service and workers, the host's jobs, both sides' records and disks | |
| `HostPower` | power requests beside and through the room | extends `HostRoom` |
| `MC…` | small instances of the above for TLC | |
| `…Proofs` | theorems about the above | `TLAPS` |

### HostAccess

The code keeps one record under a mutex (`Handle`, `Lease`), and every operation locks
it for all of its work: so every operation is one step. A lease is the record of the
generations it captured (`permission`, `media`, `session`, `track`, `stream`, and the
number of an assistance admission in place of its cancellation token); `leases` is
every lease ever handed out and `held` those whose `SessionLease` is not dropped.
`Current` and `CurrentOwner` are `Lease::current` and `current_owner`. Session ids,
uuids in the code, are numbered in their order. The module is deliberately more
general than the program: any lease may be used by anyone at any time, which stands
for every callback and worker that keeps one.

| code | action |
| --- | --- |
| `set_allowed`, `retry`, `retire`, `room_closed`, `unavailable` | `SetAllowed`, `Retry`, `Retire`, `RoomClosed`, `RevokeAdmission` |
| `disconnect_session` | `DisconnectSession` |
| `prepare_update`, `set_power_allowed`, `begin_power`, `power_result` | `PrepareUpdate`, `CancelUpdate`, `SetPowerAllowed`, `BeginPower`, `PowerResult` |
| `lease`, `for_assistance`, `peer_lease`, `begin_stream`, `clear_stream` | `TakeRoomLease`, `ForAssistance`, `PeerLease`, `BeginStream`, `ClearStream` |
| `update`, `finish`, the drop of an owner, the peer's token | `Update`, `FinishLease`, `DropOwner`, `CancelPeer` |

The two histories, `wentLive` and `reports`, record what the code sends to the log of
sessions; nothing reads them.

### HostRoom

The actor of `transport/signal/host.rs` takes one event, handles it and takes the
next. `pc` is the await its handler is at, and `then` where it goes on after the
sessions were taken down (`end_control` is called from five places). Between two
awaits the handler is one step; the user, the preparation tasks, the peers and the
gates act while it waits. `Handler` is the handler's next step, `OwnEvent` an event
`select!` finds ready (a decision, a prepared peer, the poll, a power job),
`RemoteEvent` what the server forwards, `PeerEvent` what a peer reports, `Task` the
end of a preparation. `Shutdown` drops the handler at any await, as the cancellation
of the presence task does, and then runs `close`. `stage` says of each session which
of its resources exist; `told` and `aware` are histories of what viewers were told.

`ImplementsAccess` is `HostAccess`'s `Spec` as a property of the room: each step of
the room is one operation of the record by a lease that was handed out, or none.

### TerminalSessions

`table` maps a handle to its session: the process behind it, the queues of its
consumers in chunks, whether its exit was told, how long nobody was attached. A
connection of the controller has two concurrent activities, its pump task (`PumpCheck`,
`PumpRead`, `PumpReap`, `PumpRelease`) and its frame handler, which reads the grant
(`FrameRead`) and acts on the table later (`FrameApply`: open, kill, detach). A local
terminal has a thread (`LocalAttach`, `LocalAnswered` or `LocalAnswerFails`,
`LocalRead`, `LocalLeave`). Each reading is `Sessions::drain`: it moves output of every
shell with room in all queues into all of them. `LocalUser` and `Revocation` are the
user and the two halves of `set_allowed`: shells end first, the grant is withdrawn
after. `Sweep` runs every minute in the code; here at any time.

Nothing orders the release of a connection (`terminal.rs:1541`) and a frame its handler
has read the grant for, and an answer to a local terminal may fail
(`local.rs:300-303`): both leave behind a consumer that nobody will detach, in every
run. `strays` is the history of the connections whose handler opened a session after the
release; a local terminal whose answer failed is at `"failed"`. The properties name the
two, so that they say what a consumer who left in any other way keeps: nothing.

### TaskScope and TaskOwnership

Threads run in parallel, so a step is one access to what they share. An admission
takes the mutex (`Admit`), reads the flags (`Check`), tracks the task in its scope and
in all above (`TrackOwn`, `TrackAbove`) and spawns it (`Spawn`). A closer turns the
flags under the mutex (`StopAccepting`), cancels the token and closes the tracker
(`Cancel`), waits (`Closed`), or gives up (`Abandon`). `Retire` is the drop of an owner
without `close()`. `TaskOwnership` says what owners may rely on in five actions; the
refinement maps the flags to `open` and the tasks alive to `live`.

### SharedSession

A connector (`Viewers`, `Services`) asks, takes the device's gate, looks into the pool,
shares the session there or establishes one, registers it, takes a lease, uses it and
drops it. A session is the `signal` task with the waiter behind it, its `viewing` flag,
its `receiver`, and the strong references to it (`holders`), since the pool has only a
weak one: `Look` and `LookAway` are `has_gui_connection`, which makes one for a moment.
The end of a session goes from `asked` over `Obeys` or `Fails`, `ClosesPeer` and
`PeerClosed` to its announcement. `Relogin`, `Quit`, `Drain`, `Drained` are a new login
and `shutdown_all`. Of the peer's scope the module uses the actions of `TaskOwnership`,
which `TaskScope` was shown to implement.

### RemoteInput and KcpControl

The variables up to `joining` are `State` in `remote_input.rs`; the last four are the
locals of `send_remote_input` and `recover_remote_input`, `pc` their await. `Inputs` are
keys and buttons; `remote` joins `remote_keys` and `remote_held`, as `held` joins what
a window holds. Epochs are only compared with the present one, so the model keeps
whether the sender's work is `current`. The order of releases (ordinary keys,
modifiers, buttons, each by its code) is `Rank`; `Ups` lists releases in that order,
and `Place` is the insertion of `reconcile_keyboard_releases` before the first release
of a modifier. `Joining` is the gap in `set_ready` where the mutex is free. A full
queue of events that are not edges enters as `QueueFull`, which is `pause_for_recovery`.
`ReadyTooLate` is a connection reported ready while control closes: what was ready is not
any more, and no epoch begins.

The sender hands one command at a time to the worker and waits for at most a second.
The worker evaluates the guard when it takes the command (`Take`), gives it its place
in the reliable stream (`Commit`), and the host applies it when it is acknowledged
(`Acknowledged`). The sender may have given up in between (`Forget`), which is where a
late press comes from.

### FileTransfer

A task is one file of one direction (`dir`) and policy. `rec` and `hrec` are what the
two sides saved, `own` and `hown` the copies a worker and a job work on: a worker
saves the whole of its copy, so a late save can undo what the loop saved in between.
`pc` is the await a worker is at: `Register`, the steps of `upload` (`BeginUpload` to
`FileSaved`) and of `download` (`BeginDownload` to `AllReceived`), then `Fail`, `Drain`, in
which it waits for the host to stop, and `Settle`, which decides the last state of the
record. `Host(t)` are the steps of the engine (`HostTake`, `NameAsked`, `ReceiveAsked`,
`SendAsked`, `ClearAsked`, `Late`) and of its jobs.

The disk is `file`, the names of the receiving directory, and `temp`, the temporary file
of each task and how many blocks it holds. `Prepare`, `FinishAllowed`, `PutInPlace` and
`Cleaned` are `prepare`, `finish` and `cleanup` of `storage.rs`, the same code on both
sides. All tasks carry the same file name, so names are the numbers `keep both` adds, of
which there are `Copies` (9999 in the code); when none is left `prepare` fails. A plan
says which tasks a behaviour has, how many incidents, and if the name is taken before.
The rename and the save of the record that says so are two steps (`Rename`,
`SaveRenamed`; `HostRename`, `HostSaveRenamed`), and a crash fits between them.

Both directions have a channel for text and one for blocks, each in order (`Heads`); what
the engine answers itself overtakes the mailbox of a job. A message carries the number
of the worker it is meant for, which stands for the task id a new worker draws; the
numbers follow the order in which workers start.

The loop is at one await at a time (`svc`): `"loop"`, or the command it carries out
(`Pause`, `Cancel`, `PauseAll`, `Quit`), in which it waits for a worker (`Awaited`), for the
answer to `ClearSendTemp` (`Cleanup`, `ClearTimesOut`) or for all workers (`AllPaused`,
`Closed`). A connection that ended (`WireEnds`) or that the host allows no transfers on any
more (`Disallowed`) stops the workers and pauses the queue; the second gives its
connection back afterwards (`PausedQueue`). `LinkLost`, `Crash` and `HostCrash` may come at any step; a save may fail
(`SaveThen`), a message may not come (`StepFails`). All of these take from one budget,
`incidents`, which also pays for the user's commands after adding.

Two histories are there for the properties: `delivered` counts how often the file of a
task was put in place, and `cleaned` has the tasks whose temporary file a cancellation
threw away, or asked the host to. That happens before the record is saved as cancelled
(`service.rs:782-804`); if the save fails, the task may be resumed and its file received
again, which is the exception in `DeliveredOnce`. The host clears in two steps, the
temporary file and then the record (`filesystem.rs:152-158`); `ClearAsked` lets the record
stay, as after a failure or a crash in between, and `NothingLost` excepts such a task.

### HostPower

A request knows the inbox and the permission epoch it was made for and compares them
with the present ones, so the model keeps of it whether it is `stale`. `request_at` says
where the requests are: in the inbox, with the preparing task, or with the room's
action and its thread. Whoever drops one gives the busy flag back if the request is
still the one it was raised for (`Given`).

| code | action |
| --- | --- |
| `push`, `bind`, `invalidate`, the drop of the inbox | `Push`, `Bind`, `Invalidate`, `CloseInbox` |
| `Inbox::next`, `prepare` | `Receive`, `TaskChecks`, `TaskEnds`, `TaskFailed` |
| the arm of `apply` for a ready request | `Ready`, `Spawned`, `Executed` over `PowerReady` and `PowerExecuted` of the room |
| `Request::execute` on its thread: the look, `claim`, the system call, its result | `ThreadChecks`, `ThreadClaims`, `ThreadAsks`, `ThreadActed` |
| `set_allowed` and `retire`, in two halves; `set_power_allowed`, under one lock | `BeginRevoking`, `Decide`; `SwitchGates` |

Every other step is one of the room's, unchanged (`RoomGoesOn`, `RoomAgain`,
`ShutdownRoom`).

## 3. Runs

| run | instance | asks |
| --- | --- | --- |
| `access` | one track, 2 sessions, 2 permission generations, 1 stream generation, 2 admissions, 5 leases, all gates | any use of any lease in any order: `OneSessionAccepted`, `SessionHasOwner`, `EndReportedOnce`, `RefusedForEver` |
| `host_room` | 2 rooms, 2 sessions, 2 decisions, 1 incident, the power switch | `OneSessionAlive`, `NothingForgotten`, `ClearOutOnlyWhenCut`, that the room implements the record (`ImplementsAccess`), and `RevokedIsCut`, `ServerFollowsDecision` |
| `host_room_notice` | 2 decisions, 1 incident | expected violation of `NoticeBeforeDestruction` |
| `host_room_outlives` | 2 decisions, 1 incident | expected violation of `RoomOutlivesConnections` |
| `host_power` | 1 session, 2 rooms, 2 decisions, 2 incidents; one call and reboots, 2 pushes | `BusyIsOneRequest`, `ClaimedUnderSwitch`, `NobodyInside`, `OncePerCall` |
| `terminal` | 1 shell, 2 connections, 1 local terminal, 2 writes, 2 frames | `OneRemote`, `ExitIsLast`, `BacklogBounded`, `IdleWhenAlone` |
| `terminal_live` | a shell of the controller and one of the user, 1 connection, 1 local terminal, 1 write, 1 frame, 2 changes | `DeadShellsGo`, `LocalAccessEnds`, `GoneLetsGo` |
| `terminal_grant` | as `terminal`, 1 frame | expected violation of `ShellsEndWithGrant` |
| `task_scope` | a peer's scope and a window's below it, 2 tasks, 2 closers | `ClosedIsEmpty`, `KeepsOwnership`, `CloseReturns`, `RetiredTasksEnd` |
| `shared_session` | 2 windows, 1 service, 1 worker, 2 sessions, 2 logins, 3 attempts | `OneOwner`, `ViewerHasReceiver`, `EndedIsClosed`, `EndIsUnderWay`, `QuitLeavesNothing` |
| `remote_input` | a key and the left button, 2 windows, queue of 2, 2 segments on the wire | `NoForgottenPress`, `RecoveredIsClean`, `ReleaseOwed` |
| `file_transfer` | five plans: three pairs of files with 1 incident, two single files with 3; one block each, 4 workers in all | `DoneIsDelivered`, `DeliveredOnce`, `NeverReplaces`, `NothingLost`, `RunningHasWorker`, `FinishedStaysFinished`, `LoopComesBack` |

The type invariants of the record, the scopes, the shared sessions, remote input, file
transfer and the terminal are proved for every instance (section 4) and are not checked again. The runs have from 57,000 (`terminal_live`) to 2.2 million
(`host_power`) distinct states. Deadlock is not checked: in every instance the
bounds are reached or the process is shut down in the end, and then nothing happens.

**Why these bounds.** A stale lease needs one newer generation of each kind, and two
sessions so that it may meet its successor; five leases are one of every kind. The
room's hard cases need one session alive or being prepared while the next arrives,
with a decision and its undo meeting the same call; a second room shows
what the first leaves behind. Of the gates the room's run has the power switch and the
action behind it; updates and assistance, which only refuse an admission or end a
lease, are in the run of the record and in the proofs about the room, which hold with
every feature. One incident (a failed call, a refusal, a power
request) is enough, since the handler that meets it ends or undoes what it did. In
`host_power` there are two, so that an action may follow one that was refused, and two
pushes, so that a call is delivered again while the first is anywhere on its way; the
rooms' sessions matter there only by their number, for which one is enough. In the room's runs the permission generations are bounded above what the
decisions and the ends of rooms use up, so that this bound cuts off nothing. A shell that is
shared needs two readers beside a third that closes: two connections and a local
terminal. A high-water mark and a budget of one chunk make every queue full at once.
Two closers and two tasks are the fewest where both closers wait for different
reasons, and one scope below another the fewest where a token is inherited. Three
attempts let a viewer follow another in a session the service keeps, or a session
replace one that failed. One key and one button are the two kinds of input that a
drag treats differently; a queue of two holds a press with its release, and a second
window takes control over. In `file_transfer` a file of one block has all the cases of
a longer one (nothing received, all received, nothing left to send); two tasks are the
fewest that compete for a name, and one that is on its own can be interrupted twice
and resumed, for which it needs three incidents and as many workers. Modifiers are left out of that instance: they only change
the place of a release in the queue, about which the proofs cover every order.

**View.** `host_power` identifies states that differ only in what neither a guard of the
room nor a property of the run reads: what is shown of a session, its reports, what
viewers were told, the number of the admission (no lease carries one there), and the
room's own leases once taken, since the room compares generations and does not look
a lease up. The run checks no liveness.

**Symmetry.** `terminal` and `terminal_grant` permute the two connections,
`shared_session` the two windows, `remote_input` the two windows: no definition
tells them apart. None of these runs checks liveness.

**Fairness.** `RoomSpec`: weak fairness of the actor (`Handler \/ OwnEvent`) and of each
preparation task: the runtime polls both, and every await of theirs is a call that
answers, fails or times out. The poll of revoked sessions is a sleep of 250 ms that
starts again with every event; events of the environment are bounded in the model, so
it comes due in the end, which for the code says: when events pause for 250 ms.
Nothing is assumed of the user, the controllers, the server or the peers.
`TermFairSpec`: weak fairness of each pump task, frame handler and local thread, which
loop until stopped; of the sweep, a timer; and of the second half of a revocation that
has begun, which is straight-line code. No shell has to write or exit and nobody has
to type. `FairSpec` of `TaskScope`: weak fairness of an admission that has begun
(straight-line code under a mutex that is held for a bounded time), of a task whose
token is cancelled (the `select!` around it drops it at its next await; work that blocks
a thread instead would break this, and is handed to `lifecycle::blocking`), and of a
closer. Nobody has to start closing. `Spec` of `FileTransfer`: weak fairness of the
controller's loop and of each worker, which are polled tasks whose every wait has a
timeout or a token; nothing is assumed of the host, the connection and the user, and
`LoopComesBack` holds with a host that never answers.

## 4. Proofs

TLC shows a property on one instance; the theorems show it for every value of the
constants that satisfies the named assumptions. Bounds of an instance (`MaxSessions`,
`MaxEvents`, ...) are constants too, so a theorem holds for each bound.

| theorem | says | assumptions |
| --- | --- | --- |
| `AccessTypes`, `OneSession`, `SessionOwned`, `EndReported`, `StaleStaysStale` | all properties of the record: `TypeOK`, `OneSessionAccepted`, `SessionHasOwner`, `EndReportedOnce`, `RefusedForEver` | `BoundsAssumption` |
| `RoomImplementsAccess`, `RoomAcceptsOneSession`, `RoomSessionOwned` | the room implements the record; so what holds of the record holds in it | the same |
| `OneAlive`, `NoneForgotten`, `ToldOnlyWhenCut` | `OneSessionAlive`, `NothingForgotten`, `ClearOutOnlyWhenCut` of the room | the same and `RoomAssumption` |
| `BusyIsOne`, `ClaimsUnderTheSwitch`, `ActsWithNobodyInside`, `PowerKeepsRoom` | `BusyIsOneRequest`, `ClaimedUnderSwitch`, `NobodyInside`; and the two of the room beside the power requests | the same and `PowerAssumption` |
| `CallsActOnce` | `OncePerCall` | the same, and no more calls than are remembered (`Cardinality(Calls) <= MaxSeen`) |
| `ScopeTypes`, `CloseLeavesNothing`, `DrainedStays`, `ScopeKeepsOwnership` | `TypeOK`, `ClosedIsEmpty`, `DrainedForGood`; a scope implements `TaskOwnership` | `FamilyAssumption` (the scopes above a scope are transitive and never itself), `FreeAssumption` |
| `SharedTypes`, `OneNetworkOwner`, `ViewersReceive`, `EndLeavesNoWorker`, `EndNotForgotten`, `ShutdownIsComplete` | all invariants of `SharedSession` | `BoundsAssumption`, `PartiesAssumption` |
| `TermTypes`, `OneRemoteEach`, `NothingAfterExit`, `QueuesBounded`, `IdleIsAlone`, `TheGoneLetGo` | `OneRemote`, `ExitIsLast`, `BacklogBounded`, `IdleWhenAlone`, `GoneLetsGo` of the terminal | `TerminalAssumption` (shells are finitely many, sizes are positive) |
| `InputTypes`, `PressesRemembered`, `ReleasesOwed`, `RecoveryIsClean` | all invariants of `RemoteInput` | `CarrierAssumption`, `InputAssumption`, `RankAssumption` (inputs are finitely many and have an order, ordinary keys before modifiers, keys before buttons) |
| `Types`, `NoneRunsAlone`, `OverStaysOver`, `OnlyDeliveredIsDone`, `NothingReplaced`, `NothingReceivedIsLost`, `PutInPlaceOnce` | all safety properties of `FileTransfer`: `TypeOK`, `RunningHasWorker`, `FinishedStaysFinished`, `DoneIsDelivered`, `NeverReplaces`, `NothingLost`, `DeliveredOnce` | `BoundsAssumption` (finitely many tasks, at least one block), `PlansAssumption` (what a plan is made of) |

**Access record.** `OneSessionAccepted` is not inductive: two leases might share a
media generation and differ in their session. `LeaseInv` says they cannot: a lease
without a generation has no session, an owner has one, and equal generations mean
equal sessions. A new generation is larger than all before (`Forward` in the type
lemmas), so no new lease agrees with an old one. For `SessionHasOwner` the invariant is
`ShownOwned`: the owner of the session shown is the one with the present owner
generation, which ends when it ends. `ReportInv` ties the histories to the record:
the connection clock runs exactly while the session shown was connected.
`RefusedForEver` needs `StreamsAhead`: the stream generation of a lease with the present
owner is not ahead of the record's, so an increment passes it, while a new session, whose
streams start again from nothing, has a new owner generation.

**Room.** Each step of the room is an operation of the record by some lease, so what
must be known is that the lease was handed out. `RoomInv` says so of the three leases
the actor keeps over awaits: of the request it applies (`RequestHeld`), of the one it
admits with (`AdmissionHeld`), of the controller it is admitting (`GrantHeld`); and its
slots hold sessions that were started (`SlotsStarted`). With it `StepMaps` maps each
action, and the room inherits every safety theorem of the record.

What the room holds itself is `SlotInv`: its four hands hold one session at most
(`OneHand`); joining and closing are full exactly at the awaits that empty them, and
past the change of a request, an admission or a power action nothing is in hand
(`HandsAtPc`); a session that holds resources is in a hand, or its task was left to itself
by a shutdown, which ends the last room (`InHand`).

`ToldOnlyWhenCut` is about clear_out, which is sent some awaits after it was decided on.
`NoticeInv` carries the reason across them: while the actor takes a session down and is
to tell its viewer, the session is revoked, or control is off, or not allowed any more, or
a power action is next (`NotifyInv`), and none of these is undone meanwhile (`CutKept`). A
decision newer than the last one read revokes what runs, since no lease in use carries
a permission newer than that (`SeenInv`); a room has no session before its first event
(`FreshInv`); and while a power action executes the actor is on its way to it, or leaves
(`ExecutingInv`).

**Power requests.** Their steps are steps of the room or leave it alone
(`PowerStepMaps`), so the room's invariants hold beside them. `FlagInv` says that a request
that is not stale is alone and that the flag is up exactly while there is one: a step
that drops or moves a request keeps this because it gives back only what was raised for
it. `ClaimInv` says that the thread's look at the switch is still good while its request
is not stale, since turning the switch makes every request stale in the same step: so
`ClaimedUnderSwitch`, which is about the claim. The system is asked after it, with no lock.
`CallsInv` follows the number of a call: one that is not remembered was not carried out
and is nowhere on its way; one that is on its way is at one place, and was not carried
out before the thread is at it. A call is forgotten only when the memory is full, and
those remembered differ, so with no more calls than places none is (`RoomForCall`, by
counting). With more the code would take a forgotten call for a new one, which is why
the theorem names the bound.
`InsideInv` says that from the start of the thread to its end the room is at the await of
the action with empty hands, which `SlotInv` gives, or leaves for good.

**Task scopes.** The argument follows the mutex. Between reading the flags and the
last tracking an admission holds it, so the flags it read stay (`AdmissionCurrent`); a
closer beyond its first step has turned its flag (`CallerStopped`), and no tracker is
closed before (`ClosedStopped`); what is alive and past its admission is in every
tracker of its family (`AliveTracked`). So nothing enters what a closer found empty.

**Shared session.** The argument follows the gate. Whoever connects holds it until it
is registered (`GateHeld`), so the session it found of no use stays so (`PoolUseless`),
and what serves is the registered session or the one about to be (`ServedIsKnown`).
The viewing flag stands for one lease (`OneViewer`), and the receiver is with it or at
home (`ReceiverHome`). A peer that is closing admits nothing (`EndedShut`), and a
shutdown that waits has no connector left (`DrainedIdle`).

**Terminal.** Most of it is about one session. `Sound` says that one connection is
attached at most (`OneOf`), that nobody attached has been told of the exit (`Untold`, from
which `ExitIsLast` follows: whoever is sent something is attached), that no queue is over
the mark by a reading (`Bounded`), and that state and idle time follow who is attached
(`Marked`); each operation on a session keeps it (`DetachSound`, `ReopenSound`,
`AttachSound`, `NewSound`, `ReadSound`, `TakenSound`). `AttachSound` needs more: a reopening
connection is no longer told, an attaching local terminal is not cleared, so `TermInv`
adds that no session knows a local terminal before it attaches. `Moves` says of a step
what it does to the table: who knows a session, or is attached, did so before, but for a
named one; there is one lemma for each action. `HeldInv` is `GoneLetsGo` over all sessions
at once: the release of a connection and the leaving of a terminal take it off every
shell in the same step, and of all steps only a handler that opens can bring back one
that is released, which is then in `strays`.

**Remote input.** The invariant has two halves. `CarrierInv` is about the sender and
the worker: what the worker may still commit is the sender's present request or a
press on record (`RequestIsWork`, `PressKnown`), so a release that was answered is the
last word on its input (`AnswerSettles`). `OwedInv` is about the record: a release pass
settles one input after the other (`PassShape`, `PassOwes`) and starts with all that may
be down (`PendingOwed`); only control queues presses (`OnlyControlPresses`), and each is
held or followed by its release (`PressOwed`); what the sender has in flight is of one
of those kinds (`InFlightWork`); and a confirmed recovery has left nothing
(`ConfirmedClean`). The first lemmas of `RemoteInputProofs` say what committing and acknowledging
do to the inputs that end up down, and the next ones what joining
releases into a queue does to the releases in it, for every order and every chord.
The whole invariant was also checked by TLC on the instance of `remote_input`.

**File transfer.** The invariant is built in layers, each over those before, and one lemma
for each action or group of actions says what it does to one task (`Turn` of a worker,
`HostFileTurn` of a job, `WorkerPlaces`, `WorkerStarts`), so that the layers need not open the
actions again.

- `Ownership` says who may write a record. A worker has its record to itself until it
  ended (`Owned`); a record that says it runs has a worker (`HasWorker`); the loop's commands
  are about tasks without one (`TargetInv`); and a copy that is about to be paused is of a
  task that is idle, or whose worker was stopped before it began (`CopyInv`). With it a late
  save cannot undo the end of a task, except as `FinishedStaysFinished` says.
- `Honest` says that both records, both copies and all messages on the way tell the truth
  about the disk: whoever says a file is dealt with says so after the rename (`Truth`,
  `HostTruth`, `Messages`). `DoneIsDelivered` follows. It holds over crashes because the
  rename comes before each save that mentions it.
- `Serialised` says that of all tasks one at most receives on each side (`Exclusive`), so that
  the name a task is about to rename to is still as free as it was when it looked
  (`Vacant`). `NeverReplaces` follows.
- `AllSaved` says that a record that names an open temporary file has one, or its file
  was put in place (`Kept`): nothing else removes it but a cancellation, and the host
  throws away only what one asked it to (`Clears`). `NothingLost` follows.
- `Sequel` is about the order in which things are said. Requests to receive wait at the
  host in the order of their workers, and none is left when that of the present worker
  has been answered (`Numbered`): an older request cannot begin a second job behind a
  worker that goes on. A worker that knows that the file is dealt with asks for nothing
  (`Resumes`).
- `Singly` is what `DeliveredOnce` needs of all this. Once the file of a task is in place,
  each record that could go on with it says done, or names a temporary file that is
  gone (`Shut`), so a resumption refuses to begin. The window is the crash between rename
  and save, where the record still says open: there it is the rename itself that has
  taken the temporary file away.

Each layer was checked by TLC before it was proved, on instances of two tasks and of one
that is resumed.

**Model-checked only.** Every safety property of a passing run is a theorem. What stays
with TLC is liveness under fairness, which the provers do not reach: `RevokedIsCut` and
`ServerFollowsDecision` of the room, `DeadShellsGo` and `LocalAccessEnds` of the terminal,
`CloseReturns` and `RetiredTasksEnd` of the scopes, `LoopComesBack` of file transfer. So do
the three violations of section 5, which are counterexamples. `KeepsOwnership` is proved
(`ScopeKeepsOwnership`) and run.

## 5. Findings

- **A session may be destroyed without notice** (`host_room_notice`). When the user
  switches control off while a peer is being prepared and the prepared peer is taken
  from `select!` first, `Event::Prepared` closes it and sends nothing, and the `end_control`
  that follows finds nothing to tell. `signal/host.rs:736` says that clear_out precedes
  local peer destruction.
- **A failed early offer ends the room** (`host_room_outlives`). Answering the offers that
  arrived before the peer was ready returns its error from `apply`, which ends the
  room, while the failure of a later offer is only logged. `signal/host.rs:144` says that
  such a failure belongs to the connection.
- **A shell may outlive the switch** (`terminal_grant`). The frame handler reads the grant
  and opens the shell later; in between the switch ends all shells. The new one runs
  detached until the sweep. `access.rs:619` says of the terminal's switch that turning it off
  ends the shells it granted, `access.rs:815` of all remote control that a shell does not
  outlive the switch.

### Observed, without a property of its own

What the models made plain and the code accepts, or leaves open:

- **A paused download keeps its name reserved nowhere.** With *keep both*, the name is
  chosen when the file is prepared (`storage.rs:440-458`), from the names that are taken
  at that time, and downloads to one destination run serially (`service.rs:545`). Pause
  the first, and the second chooses the same name and finishes; the first then fails at
  its rename whenever it is resumed. Nothing is overwritten (`NeverReplaces`).
- **Copies of queued records may be stale.** `pause_queued` (`service.rs:905`) saves copies
  one after the other; a task that settled in between is saved as paused again. It is
  the exception in `FinishedStaysFinished`, which would therefore not find it.
- **A consumer that is gone may stay attached.** A handler that read the grant before its
  connection was released may open a session after it (`terminal.rs:1618`, `1541`), and
  the failed answer to a local terminal returns without `detach_local`
  (`local.rs:300-303`). Nobody empties the queue, so it fills up and stops the shell for
  every other consumer; and if the shell exits, it is neither reaped (`terminal.rs:1116`)
  nor swept (`1139`), for somebody is attached, although `terminal.rs:1133` says that one
  that exits is taken out and does not sit in the list holding a slot. A later connection
  of the controller that opens the session takes the place of a released one, and ending
  the session clears up both. A late handler may so also hold a local shell after access to
  those was withdrawn, although `terminal.rs:1481` says that the controller lets go of
  them within a tick. `GoneLetsGo`, `DeadShellsGo` and `LocalAccessEnds` name these cases.
- **The loop may stand still for a minute.** It waits for the answer to `ClearSendTemp`
  (`service.rs:789`) up to 60 seconds, and serves no other task meanwhile. It comes back
  (`LoopComesBack`).
- **A temporary file without a record.** A crash after the file is made
  (`storage.rs:461`) and before its record is saved leaves the file; the resumption of a
  task that has not begun then refuses to make it (`PrepareFails`).
- **The controller is told ok early.** `prepare` answers before the last look at the
  permission (`power.rs:245`), so an action that was confirmed may still be refused.
- **An accepted action keeps the handle committed** (`power.rs:161`): if the system then
  cancels the shutdown, later requests are refused until the permission, the power
  switch or the login changes.
- **Only the power switch is covered, and only to the claim.** Turning control off, the end
  of the login and an update may still be passed between the look and the claim
  (`power.rs:165`), as `ClaimedUnderSwitch` says by naming the switch alone. The system is
  asked in the next statement (`power.rs:170`) with no lock held: a switch turned off after
  the claim comes too late.
- **The room's poll waits for quiet.** It is a sleep of 250 ms that every event starts again
  (`signal/host.rs:78`); while events keep coming faster, a session the user disconnected
  is not taken down. `RevokedIsCut` assumes that it comes due.

## 6. What is not modelled

Pixels, sound, codecs, packets and rates: arithmetic over data and measured time.
Most of the repository is of this kind, with platform layers, drivers, vendored codec
kernels and pages, which is why the models stand for a small share of its lines.
Operating-system calls, drivers, windows and pages: external. The account's HTTP calls
and the server: external; models take their failures as actions of the environment.
Persistence of settings, and every format on the wire.

Presence and the managed host are left for a later version: with an installed service
the settings exist twice, in the window and in the service, a poll every 500 ms carries
snapshots one way and the user's actions the other, and a window that has unsaved
changes ignores the settings of a snapshot. That is a component of its own, on which
nothing else modelled depends, and the first of the plan. The hazard at `access.rs:333`
has no property until then.

Within the modelled parts: of the record the capability caches and texts; of the room
the media description, candidates, encoder metadata and the second network path; of
power requests malformed pushes, guests (whose login refuses them all), the clock
that spaces anonymous reboots (here one may come at any time), what the platform
looks at before it agrees, and the texts of the answers; of the terminal input to
shells, sizes, names, the screen model and the Windows console; of scopes the helpers
`blocking` and `while_current`; of shared sessions negotiation, takeover and media
settings; of remote input motion, the wheel, heartbeats, throttle, assistance sources,
lock keys, relative mode and the SCTP carrier; of the CONTROL stream fragments, error
correction, the byte budget and its other users; of file transfer browsing and the
other file operations, folders and their manifests, the progress in bytes, the
permission switch on the host's side of a live connection (which closes the engine as a
lost connection does; the controller's side is `Disallowed`), the limits of 4 workers, 8 tasks at the host and 64 routes, and other programs
that write to the same directory.

## 7. Plan

Done, in this order, the most important behaviour first: the access record, the room
as its client, task scopes with their abstract promise, shared sessions over that
promise, the terminal, remote input over the CONTROL stream, file transfer, power
requests over the room; the proofs listed above.

What is left, by what it is worth:

1. `ManagedHost`: settings in the window and in the service, the poll between them, the
   disconnect it delivers. Wanted: both copies settle on the last decision; abstract
   specification: one register.
2. Assistance admissions of `assist.rs`: the password, the replies and the user's answer,
   over the part of them `HostAccess` has.
3. `PortMappings`, a service over `SharedSession` like file transfer, and the host's side of
   the permission switch of a live file transfer.
4. `DecoderPool` and `Allocation` as algorithms: the fallback state machine, and shares
   against a reference definition over bounded inputs.
5. Folders in `FileTransfer`: a manifest is saved piece by piece, and a crash fits between
   two pieces.
6. A run of `remote_input` with a modifier; one run for `terminal` and `terminal_live`.

To be proved: an abstract specification of file transfer, in which a task is to be
delivered, is delivered once or given up, with the refinement that `Honest` and `Singly`
prepare; the same for remote input (the host's state follows the user's, with releases
that may be late). New components come with their theorems.
