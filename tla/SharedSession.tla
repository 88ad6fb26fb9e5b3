----------------------------- MODULE SharedSession -----------------------------
(***************************************************************************)
(* The connection to one controlled device that viewing windows and the    *)
(* file, port and diagnostic services of this process share                *)
(* (session/controller/shared.rs and its callers): the pool, the gate that *)
(* makes connecting one at a time, the leases, the end of a session and    *)
(* the shutdown of the process.                                            *)
(*                                                                         *)
(* The peer of a session owns its workers in a TaskScope; of that this     *)
(* module uses the promise, TaskOwnership.  Negotiation, media and         *)
(* settings are left out: establishing succeeds or fails.                  *)
(***************************************************************************)
EXTENDS Naturals, FiniteSets

CONSTANTS
    Viewers,        \* the viewing windows of the device
    Services,       \* the file, port and diagnostic services of the device
    Nobody,         \* the gate when it is free, and who holds no receiver
    Tasks,          \* the workers of the peers
    MaxSessions,    \* bound: the sessions established
    MaxLogins,      \* bound: the logins of the account
    MaxAsks         \* bound: the attempts to connect

\* A look at the pool by the device list, which upgrades the weak reference.
Glance == "glance"

ASSUME BoundsAssumption ==
    MaxSessions \in Nat \ {0} /\ MaxLogins \in Nat \ {0} /\ MaxAsks \in Nat
ASSUME PartiesAssumption ==
    Viewers \cap Services = {} /\ {Nobody, Glance} \cap (Viewers \cup Services) = {}

Connectors == Viewers \cup Services
Sessions == 1..MaxSessions      \* 0 stands for no session

VARIABLES
    login,      \* the logins so far; the tokens of the earlier ones are cancelled
    client,     \* the login a connector was started under, 0 when it is idle
    gate,       \* the holder of the connection gate of the device
    asks,       \* the attempts so far
    pc,         \* where each connector is
    session,    \* the session it has a lease on
    pool,       \* the registered session
    born,       \* the sessions established so far
    owner,      \* the login a session was registered with, 0 before
    signal,     \* the signalling task of a session and the waiter behind it
    asked,      \* whether its shutdown was requested
    viewing,    \* its viewing flag
    receiver,   \* who has taken its media receiver
    holders,    \* the strong references to it
    quit,       \* the shutdown of the process
    jobs,       \* the sessions shutdown_all has taken
    open, live, waits, told     \* the scopes of the peers

Peers == INSTANCE TaskOwnership WITH
    Scopes <- Sessions, Above <- [s \in Sessions |-> {}], Callers <- Sessions

peerVars == <<open, live, waits, told>>
sessionVars == <<born, owner, signal, asked>>
leaseVars == <<viewing, receiver, holders>>
connectorVars == <<client, asks, pc, session>>
appVars == <<login, quit, jobs>>
sharedVars == <<login, client, asks, gate, pc, session, pool, born, owner, signal, asked,
                viewing, receiver, holders, quit, jobs, open, live, waits, told>>

Holding == {"leased", "starting", "using", "closing", "waiting", "dropping", "returned"}

SharedTypeOK ==
    /\ login \in 1..MaxLogins
    /\ client \in [Connectors -> 0..MaxLogins]
    /\ asks \in 0..MaxAsks
    /\ gate \in Connectors \cup {Nobody}
    /\ pc \in [Connectors ->
                 {"idle", "gate", "lookup", "connecting", "unregistered"} \cup Holding]
    /\ session \in [Connectors -> 0..born]
    /\ pool \in 0..born
    /\ born \in 0..MaxSessions
    /\ owner \in [Sessions -> 0..MaxLogins]
    /\ signal \in [Sessions -> {"none", "up", "ending", "closing", "done"}]
    /\ asked \in [Sessions -> BOOLEAN]
    /\ viewing \in [Sessions -> BOOLEAN]
    /\ receiver \in [Sessions -> Connectors \cup {Nobody}]
    /\ holders \in [Sessions -> SUBSET (Connectors \cup {Glance})]
    /\ quit \in {"no", "stopping", "draining", "over"}
    /\ jobs \subseteq 1..born
    /\ \A c \in Connectors :
          pc[c] \in Holding \cup {"unregistered"} => c \in holders[session[c]]

SharedInit ==
    /\ login = 1
    /\ client = [c \in Connectors |-> 0]
    /\ asks = 0
    /\ gate = Nobody
    /\ pc = [c \in Connectors |-> "idle"]
    /\ session = [c \in Connectors |-> 0]
    /\ pool = 0
    /\ born = 0
    /\ owner = [s \in Sessions |-> 0]
    /\ signal = [s \in Sessions |-> "none"]
    /\ asked = [s \in Sessions |-> FALSE]
    /\ viewing = [s \in Sessions |-> FALSE]
    /\ receiver = [s \in Sessions |-> Nobody]
    /\ holders = [s \in Sessions |-> {}]
    /\ quit = "no"
    /\ jobs = {}
    /\ Peers!OwnInit

-----------------------------------------------------------------------------
\* A step of a connector: what else it changes is said by each.
Moves(c, from, to) ==
    /\ pc[c] = from
    /\ pc' = [pc EXCEPT ![c] = to]
    /\ client' = IF to = "idle" THEN [client EXCEPT ![c] = 0] ELSE client
    /\ UNCHANGED <<asks, appVars, peerVars>>

\* The token of a connector: a child of its login's, cancelled by the shutdown.
Stopped(c) == client[c] < login \/ quit # "no"

Retired(s) == owner[s] # 0 /\ owner[s] < login

\* get(): the weak reference still upgrades, no end is announced, and the login
\* the session was registered with has not ended.
Gettable(s) ==
    /\ s # 0
    /\ holders[s] # {}
    /\ signal[s] # "done"
    /\ ~Retired(s)

\* Mutation of Release: the last reference goes without a word.
ReleaseSilent(s, h) ==
    /\ holders' = [holders EXCEPT ![s] = @ \ {h}]
    /\ asked' = asked

\* A reference is dropped; with the last one Session::drop requests the close.
Release(s, h) ==
    /\ holders' = [holders EXCEPT ![s] = @ \ {h}]
    /\ asked' = [asked EXCEPT ![s] = @ \/ holders[s] = {h}]

-----------------------------------------------------------------------------
(* Connecting.                                                              *)

Ask(c) ==
    /\ pc[c] = "idle"
    /\ quit = "no"
    /\ asks < MaxAsks
    /\ asks' = asks + 1
    /\ client' = [client EXCEPT ![c] = login]
    /\ pc' = [pc EXCEPT ![c] = "gate"]
    /\ UNCHANGED <<gate, session, pool, appVars, sessionVars, leaseVars, peerVars>>

TakeGate(c) ==
    /\ Moves(c, "gate", "lookup")
    /\ gate = Nobody
    /\ gate' = c
    /\ UNCHANGED <<session, pool, sessionVars, leaseVars>>

\* acquire_connection gives up when the connector is stopped.
GateCancelled(c) ==
    /\ Moves(c, "gate", "idle")
    /\ Stopped(c)
    /\ UNCHANGED <<gate, session, pool, sessionVars, leaseVars>>

\* Mutation of Share: the viewing flag is set, and not exchanged.
ShareUnchecked(c) ==
    /\ Moves(c, "lookup", "leased")
    /\ Gettable(pool)
    /\ viewing' = [viewing EXCEPT ![pool] = @ \/ c \in Viewers]
    /\ holders' = [holders EXCEPT ![pool] = @ \cup {c}]
    /\ session' = [session EXCEPT ![c] = pool]
    /\ UNCHANGED <<gate, pool, receiver, sessionVars>>

\* A viewing lease: the flag is exchanged first, then the receiver is taken.
Share(c) ==
    /\ Moves(c, "lookup", "leased")
    /\ Gettable(pool)
    /\ c \in Viewers => ~viewing[pool]
    /\ viewing' = [viewing EXCEPT ![pool] = @ \/ c \in Viewers]
    /\ holders' = [holders EXCEPT ![pool] = @ \cup {c}]
    /\ session' = [session EXCEPT ![c] = pool]
    /\ UNCHANGED <<gate, pool, receiver, sessionVars>>

\* The device is already being viewed: the lease is refused.
ShareRefused(c) ==
    /\ Moves(c, "lookup", "idle")
    /\ Gettable(pool)
    /\ c \in Viewers /\ viewing[pool]
    /\ gate' = Nobody
    /\ UNCHANGED <<session, pool, sessionVars, leaseVars>>

\* lock(forwarder).take().
TakeReceiver(c) ==
    /\ Moves(c, "leased", "starting")
    /\ receiver' = IF c \in Viewers /\ receiver[session[c]] = Nobody
                     THEN [receiver EXCEPT ![session[c]] = c] ELSE receiver
    /\ UNCHANGED <<gate, session, pool, viewing, holders, sessionVars>>

\* The settings are restored and the media started; the gate goes with the end
\* of connect(), which closes what it could not start while it still holds it.
Started(c) ==
    /\ Moves(c, "starting", "using")
    /\ gate' = Nobody
    /\ UNCHANGED <<session, pool, sessionVars, leaseVars>>

\* The connection is closed.  A new one whose microphone setting is refused
\* is dropped without close().
StartFails(c) ==
    /\ \E to \in {"closing", "dropping"} : Moves(c, "starting", to)
    /\ UNCHANGED <<gate, session, pool, sessionVars, leaseVars>>

\* Mutation of Establish: the gate is held for the look at the pool only.
EstablishUngated(c) ==
    /\ Moves(c, "lookup", "connecting")
    /\ ~Gettable(pool)
    /\ gate' = Nobody
    /\ UNCHANGED <<session, pool, sessionVars, leaseVars>>

Establish(c) ==
    /\ Moves(c, "lookup", "connecting")
    /\ ~Gettable(pool)
    /\ UNCHANGED <<gate, session, pool, sessionVars, leaseVars>>

EstablishFails(c) ==
    /\ Moves(c, "connecting", "idle")
    /\ gate' = Nobody
    /\ UNCHANGED <<session, pool, sessionVars, leaseVars>>

\* Session::new and its first lease; register() comes after.
Established(c) ==
    LET s == born + 1
    IN  /\ Moves(c, "connecting", "unregistered")
        /\ born < MaxSessions
        /\ born' = s
        /\ signal' = [signal EXCEPT ![s] = "up"]
        /\ holders' = [holders EXCEPT ![s] = {c}]
        /\ viewing' = [viewing EXCEPT ![s] = c \in Viewers]
        /\ receiver' = [receiver EXCEPT ![s] = IF c \in Viewers THEN c ELSE Nobody]
        /\ session' = [session EXCEPT ![c] = s]
        /\ UNCHANGED <<gate, pool, owner, asked>>

Register(c) ==
    /\ Moves(c, "unregistered", "starting")
    /\ owner' = [owner EXCEPT ![session[c]] = client[c]]
    /\ pool' = session[c]
    /\ UNCHANGED <<gate, session, born, signal, asked, leaseVars>>

-----------------------------------------------------------------------------
(* Leaving.  close() waits for the end only when it finds itself the last.  *)

\* The user leaves, the token is cancelled, or the session has ended.
Leave(c) ==
    /\ Moves(c, "using", "closing")
    /\ UNCHANGED <<gate, session, pool, sessionVars, leaseVars>>

CloseLast(c) ==
    /\ Moves(c, "closing", "waiting")
    /\ holders[session[c]] = {c}
    /\ asked' = [asked EXCEPT ![session[c]] = TRUE]
    /\ UNCHANGED <<gate, session, pool, born, owner, signal, leaseVars>>

CloseShared(c) ==
    /\ Moves(c, "closing", "dropping")
    /\ holders[session[c]] # {c}
    /\ UNCHANGED <<gate, session, pool, sessionVars, leaseVars>>

SeesEnd(c) ==
    /\ Moves(c, "waiting", "dropping")
    /\ signal[session[c]] = "done"
    /\ UNCHANGED <<gate, session, pool, sessionVars, leaseVars>>

\* An error that leaves the owner without close() drops the lease at once.
Unwind(c) ==
    /\ Moves(c, "using", "dropping")
    /\ UNCHANGED <<gate, session, pool, sessionVars, leaseVars>>

\* ForwarderLease::drop: the receiver goes back, then the flag, and then the
\* reference is dropped.
ReturnReceiver(c) ==
    /\ Moves(c, "dropping", "returned")
    /\ receiver' = IF receiver[session[c]] = c
                     THEN [receiver EXCEPT ![session[c]] = Nobody] ELSE receiver
    /\ UNCHANGED <<gate, session, pool, viewing, holders, sessionVars>>

DropLease(c) ==
    /\ Moves(c, "returned", "idle")
    /\ viewing' = [viewing EXCEPT ![session[c]] = @ /\ c \notin Viewers]
    /\ Release(session[c], c)
    /\ session' = [session EXCEPT ![c] = 0]
    /\ gate' = IF gate = c THEN Nobody ELSE gate
    /\ UNCHANGED <<pool, receiver, born, owner, signal>>

-----------------------------------------------------------------------------
(* The device list asks what is connected, holding the session meanwhile.   *)

Look ==
    /\ Gettable(pool)
    /\ holders' = [holders EXCEPT ![pool] = @ \cup {Glance}]
    /\ UNCHANGED <<gate, pool, viewing, receiver, appVars,
                   connectorVars, sessionVars, peerVars>>

LookAway(s) ==
    /\ Glance \in holders[s]
    /\ Release(s, Glance)
    /\ UNCHANGED <<gate, pool, viewing, receiver, born, owner,
                   signal, appVars, connectorVars, peerVars>>

-----------------------------------------------------------------------------
(* The signalling task: keep_alive returns after it closed the peer, whose  *)
(* close() waits for the workers.  Only the waiter behind it sees it return, *)
(* and it announces the end and cancels the done token without a pause.      *)

SignalStep(s, from, to) ==
    /\ signal[s] = from
    /\ signal' = [signal EXCEPT ![s] = to]
    /\ UNCHANGED <<gate, pool, born, owner, asked,
                   appVars, connectorVars, leaseVars>>

Fails(s) == SignalStep(s, "up", "ending") /\ UNCHANGED peerVars
Obeys(s) == asked[s] /\ SignalStep(s, "up", "ending") /\ UNCHANGED peerVars
ClosesPeer(s) == SignalStep(s, "ending", "closing") /\ Peers!Shut(s, s)

\* Mutation of PeerClosed: the close of the peer is not awaited.
PeerNotAwaited(s) == SignalStep(s, "closing", "done") /\ UNCHANGED peerVars

PeerClosed(s) == SignalStep(s, "closing", "done") /\ Peers!Return(s, s)

SignalTask(s) == Fails(s) \/ Obeys(s) \/ ClosesPeer(s) \/ PeerClosed(s)

WorkerStarts(t, s) ==
    /\ signal[s] # "none"
    /\ Peers!Start(t, s)
    /\ UNCHANGED <<gate, pool, appVars, connectorVars, sessionVars, leaseVars>>

WorkerEnds(t) ==
    /\ Peers!End(t)
    /\ UNCHANGED <<gate, pool, appVars, connectorVars, sessionVars, leaseVars>>

-----------------------------------------------------------------------------
(* The account and the process.                                             *)

Relogin ==
    /\ login < MaxLogins
    /\ quit = "no"
    /\ login' = login + 1
    /\ UNCHANGED <<gate, pool, quit, jobs, connectorVars,
                   sessionVars, leaseVars, peerVars>>

\* windows::shutdown, once the windows are gone: every connector is stopped,
Quit ==
    /\ quit = "no"
    /\ quit' = "stopping"
    /\ UNCHANGED <<gate, pool, login, jobs, connectorVars,
                   sessionVars, leaseVars, peerVars>>

\* Mutation of Drain: only the sessions that still have an owner are taken.
DrainHeld ==
    /\ quit = "stopping"
    /\ \A c \in Connectors : pc[c] = "idle"
    /\ quit' = "draining"
    /\ jobs' = {s \in 1..born : holders[s] # {}}
    /\ asked' = [s \in Sessions |-> asked[s] \/ s \in jobs']
    /\ UNCHANGED <<gate, pool, login, born, owner,
                   signal, connectorVars, leaseVars, peerVars>>

\* and waited for; then shutdown_all takes the sessions there are, asks those
\* that still have an owner to close,
Drain ==
    /\ quit = "stopping"
    /\ \A c \in Connectors : pc[c] = "idle"
    /\ quit' = "draining"
    /\ jobs' = 1..born
    /\ asked' = [s \in Sessions |-> asked[s] \/ (s <= born /\ holders[s] # {})]
    /\ UNCHANGED <<gate, pool, login, born, owner,
                   signal, connectorVars, leaseVars, peerVars>>

\* and waits for each.
Drained ==
    /\ quit = "draining"
    /\ \A s \in jobs : signal[s] = "done"
    /\ quit' = "over"
    /\ UNCHANGED <<gate, pool, login, jobs, connectorVars,
                   sessionVars, leaseVars, peerVars>>

-----------------------------------------------------------------------------
Connecting(c) ==
    \/ Ask(c) \/ TakeGate(c) \/ GateCancelled(c)
    \/ Share(c) \/ ShareRefused(c) \/ TakeReceiver(c) \/ Started(c) \/ StartFails(c)
    \/ Establish(c) \/ EstablishFails(c) \/ Established(c) \/ Register(c)

Leaving(c) ==
    \/ Leave(c) \/ CloseLast(c) \/ CloseShared(c) \/ SeesEnd(c)
    \/ Unwind(c) \/ ReturnReceiver(c) \/ DropLease(c)

SharedNext ==
    \/ \E c \in Connectors : Connecting(c) \/ Leaving(c)
    \/ Look \/ \E s \in Sessions : LookAway(s)
    \/ \E s \in Sessions : SignalTask(s)
    \/ \E t \in Tasks : WorkerEnds(t) \/ \E s \in Sessions : WorkerStarts(t, s)
    \/ Relogin \/ Quit \/ Drain \/ Drained

SharedSpec == SharedInit /\ [][SharedNext]_sharedVars

-----------------------------------------------------------------------------
\* A viewer that connected, and until its lease is dropped, owns the media
\* receiver it reads frames from (shared.rs:178-192, where its absence panics),
\* although the lease of the viewer before it may be dropped meanwhile.
ViewerHasReceiver ==
    \A c \in Viewers :
        pc[c] \in {"unregistered", "starting", "using", "closing", "waiting",
                   "dropping"} => receiver[session[c]] = c

\* One network owner per device (shared.rs:1): two sessions of the login in
\* force never serve connectors at once, whoever connects while another is
\* still establishing or has not registered yet.
Serving(s) ==
    /\ signal[s] = "up"
    /\ ~asked[s]
    /\ ~Retired(s)
    /\ holders[s] \cap Connectors # {}

OneOwner == \A s, r \in Sessions : Serving(s) /\ Serving(r) => s = r

\* Whoever is told that a session ended finds no worker of its peer left, and
\* none starts after it (shared.rs:97-104 behind peer.rs:920-932).
EndedIsClosed ==
    \A s \in Sessions : signal[s] = "done" => live[s] = {}

\* When the shutdown of the process returns, no session and no worker is left,
\* also of a session that was established while the windows were stopped.
QuitLeavesNothing ==
    quit = "over" => \A s \in 1..born : signal[s] = "done" /\ live[s] = {}

\* The end of a session is never forgotten: one that nobody holds, or that the
\* shutdown waits for, has been asked to close, however the last references to
\* it were dropped and whoever else looked at it meanwhile (shared.rs:69-79,
\* 162-172).
EndIsUnderWay ==
    \A s \in 1..born :
        (holders[s] = {} \/ s \in jobs) /\ signal[s] = "up" => asked[s]
==============================================================================
