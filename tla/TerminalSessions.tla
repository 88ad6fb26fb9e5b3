-------------------------- MODULE TerminalSessions --------------------------
(***************************************************************************)
(* The host's terminal: features/host/terminal.rs and terminal/local.rs.   *)
(* One table holds the shells of the process.  Terminal connections of the *)
(* controller and local terminals attach to a shell, each with an output   *)
(* queue; every reader moves the output of all shells to all queues, under *)
(* the table's lock.  A connection has a pump task and a frame handler,    *)
(* which reads the grant before it locks the table; a local terminal has a *)
(* thread; the user takes the grant away and ends shells.                  *)
(*                                                                         *)
(* Output is counted in chunks.  Left out: input and its queue, sizes,     *)
(* names and the list of sessions, the screen model, signals, and a pty    *)
(* that cannot be opened.                                                  *)
(***************************************************************************)
EXTENDS Integers, FiniteSets, Functions

CONSTANTS Keys,        \* <<owner, handle>>, owner "login" or "local"
          Conns,       \* terminal connections of the controller
          Locals,      \* local terminals
          MaxOwned,    \* MAX_SESSIONS
          MaxTotal,    \* MAX_TOTAL
          HighWater,   \* OUTPUT_HIGH_WATER, in chunks
          Budget,      \* PUMP_BUDGET, in chunks
          MaxWrites,   \* bound on the chunks the shells write
          MaxFrames,   \* bound on the frames of the controller
          MaxChanges   \* bound on what the local user does

ASSUME TerminalAssumption ==
    /\ Keys \subseteq {"login", "local"} \X Nat
    /\ IsFiniteSet(Keys)
    /\ {HighWater, Budget, MaxOwned, MaxTotal} \subseteq Nat \ {0}
    /\ {MaxWrites, MaxFrames, MaxChanges} \subseteq Nat

VARIABLES
    table,     \* the sessions: a function on the keys in use
    terminal, terminal_local, \* the switches of the login
    lease,     \* whether each connection's lease is current
    stop,      \* connections whose stop token is cancelled
    pump,      \* where each connection's pump task is
    frame,     \* the frame each connection's handler has read the grant for
    attach,    \* where each local terminal's thread is, and on which key
    user,      \* what the local user's revocation still has to do
    repeated,  \* history: something was sent after an exit
    strays,    \* history: connections whose handler opened a session after
               \* the release
    writes, frames, changes

grants == <<terminal, terminal_local, lease, user>>
tasks == <<stop, pump, frame, attach>>
history == <<repeated, strays>>
bounds == <<writes, frames, changes>>
termVars == <<table, grants, tasks, history, bounds>>

Remote(c) == <<"remote", c>>
Local(a) == <<"local", a>>
Consumers == {Remote(c) : c \in Conns} \cup {Local(a) : a \in Locals}

None == <<>>
Owner(k) == k[1]
Open == DOMAIN table
Attached(s) == DOMAIN s.output
Lower(a, b) == IF a < b THEN a ELSE b
Without(f, S) == Restrict(f, DOMAIN f \ S)

\* What x has already stays.
Joined(f, x, v) ==
    [y \in DOMAIN f \cup {x} |-> IF y \in DOMAIN f THEN f[y] ELSE v]

OfOwner(who) == {k \in Open : Owner(k) = who}

\* A login's own session comes before a local one of the same handle.
Resolve(handle, local) ==
    LET own == {<<"login", handle>>} \cap Open
        here == IF local THEN {<<"local", handle>>} \cap Open ELSE {}
    IN  IF own # {} THEN own ELSE here

\* A local terminal takes the local session first.
LocalKey(handle) ==
    LET here == {<<"local", handle>>} \cap Open
    IN  IF here # {} THEN here ELSE {<<"login", handle>>} \cap Open

TerminalAllowed(c) == lease[c] /\ terminal
LocalAllowed(c) == TerminalAllowed(c) /\ terminal_local

TermInit ==
    /\ table = <<>>
    /\ terminal = TRUE /\ terminal_local = TRUE
    /\ lease = [c \in Conns |-> TRUE]
    /\ stop = {}
    /\ pump = [c \in Conns |-> "check"]
    /\ frame = [c \in Conns |-> None]
    /\ attach = [a \in Locals |-> [at |-> "none", key |-> None]]
    /\ user = "idle"
    /\ repeated = FALSE /\ strays = {}
    /\ writes = 0 /\ frames = 0 /\ changes = 0

-----------------------------------------------------------------------------
(***************************************************************************)
(* One session.                                                            *)
(***************************************************************************)
\* Mutation of DetachAll: whoever leaves leaves the shell on its own.
DetachMarks(s, X) ==
    IF X \cap Attached(s) = {} THEN s
    ELSE [s EXCEPT !.output = Without(@, X), !.since = "now",
                   !.state = IF @ = "running" THEN "detached" ELSE @]

\* Only the last to leave leaves the shell on its own.
DetachAll(s, X) ==
    LET rest == Without(s.output, X)
    IN  IF X \cap Attached(s) = {} THEN s
        ELSE [s EXCEPT !.output = rest,
                       !.since = IF rest = <<>> THEN "now" ELSE @,
                       !.state = IF rest = <<>> /\ @ = "running"
                                 THEN "detached" ELSE @]

Detach(s, x) == DetachAll(s, {x})

Shell(state, output) ==
    [state |-> state, output |-> output, since |-> "none",
     unread |-> 0, alive |-> TRUE, told |-> {}]

\* Mutation of Takeover: the connections that had the session keep it.
TakeoverKeeps(s, c) == Joined(s.output, Remote(c), 0)

\* A reopened session leaves the connections that had it.
Takeover(s, c) ==
    LET kept == {x \in Attached(s) : x = Remote(c) \/ x[1] = "local"}
    IN  Joined(Restrict(s.output, kept), Remote(c), 0)

Reopened(s, c) ==
    [s EXCEPT !.state = IF @ = "exited" THEN @ ELSE "running",
              !.output = Takeover(s, c),
              !.told = @ \ {Remote(c)},
              !.since = "none"]

AttachedLocal(s, a) ==
    [s EXCEPT !.state = "running",
              !.output = Joined(@, Local(a), 0),
              !.since = "none"]

-----------------------------------------------------------------------------
(***************************************************************************)
(* Reading.  A reader moves the output of every shell somebody reads to    *)
(* all its queues, unless one of them is full.  A shell counts as exited   *)
(* when it was read dry and has exited by then; those of late exit between *)
(* the two, after a last chunk.                                            *)
(***************************************************************************)
\* Mutation of Readable: a full queue does not stop the reading.
ReadableAlways(s) == s.output # <<>> /\ s.state # "exited"

Readable(s) ==
    /\ s.output # <<>>
    /\ s.state # "exited"
    /\ \A x \in Attached(s) : s.output[x] < HighWater

ReadFrom(s, share, late) ==
    LET n == Lower(s.unread, share)
        dry == s.unread < share
    IN  [s EXCEPT !.unread = IF late THEN @ - n + 1 ELSE @ - n,
                  !.alive = @ /\ ~late,
                  !.output = [x \in Attached(s) |-> s.output[x] + n],
                  !.state = IF dry /\ (~s.alive \/ late) THEN "exited" ELSE @]

Readers(t) == {k \in DOMAIN t : Readable(t[k])}

Share(budget, n) == IF budget \div n > 0 THEN budget \div n ELSE 1

Drain(t, budget, late) ==
    IF Readers(t) = {} THEN t
    ELSE LET share == Share(budget, Cardinality(Readers(t)))
         IN  [k \in DOMAIN t |->
                IF k \in Readers(t) THEN ReadFrom(t[k], share, k \in late)
                ELSE t[k]]

\* The shells that may say a last word while they are read.
LastWords(t) ==
    {{}} \cup {{k} : k \in {j \in Readers(t) : t[j].alive /\ t[j].unread = 0
                                               /\ writes < MaxWrites}}

\* What x takes from its queue; who takes the last of an exited shell is
\* told of the exit and leaves.
ToldExit(s, x, share) == s.state = "exited" /\ s.output[x] <= share

\* Mutation of Taken: who was told of the exit is not taken off.
TakenStays(s, x, share) ==
    [s EXCEPT !.output[x] = @ - Lower(@, share),
              !.told = IF ToldExit(s, x, share) THEN @ \cup {x} ELSE @]

Taken(s, x, share) ==
    IF ToldExit(s, x, share)
    THEN [s EXCEPT !.output = Without(s.output, {x}), !.told = @ \cup {x}]
    ELSE [s EXCEPT !.output[x] = @ - Lower(@, share)]

\* x reads: the drain, then its share of every queue it has.
Read(x, budget, late) ==
    LET t == Drain(table, budget, late)
        mine == {k \in DOMAIN t : x \in Attached(t[k])}
        share == IF mine = {} THEN budget
                 ELSE Share(budget, Cardinality(mine))
        sent == {k \in mine : ToldExit(t[k], x, share) \/ t[k].output[x] > 0}
    IN  /\ table' = [k \in DOMAIN t |->
                       IF k \in mine THEN Taken(t[k], x, share) ELSE t[k]]
        /\ repeated' = (repeated \/ \E k \in sent : x \in t[k].told)
        /\ writes' = writes + Cardinality(late)

-----------------------------------------------------------------------------
(***************************************************************************)
(* The pump task of a connection, every 20 ms.                             *)
(***************************************************************************)
OnLocal(c) == {k \in OfOwner("local") : Remote(c) \in Attached(table[k])}

\* Mutation of PumpCheck: what the controller watches stays its own.
PumpCheckKeepsLocal(c) ==
    /\ pump[c] = "check"
    /\ IF c \in stop \/ ~TerminalAllowed(c)
       THEN stop' = stop \cup {c} /\ pump' = [pump EXCEPT ![c] = "release"]
       ELSE pump' = [pump EXCEPT ![c] = "read"] /\ UNCHANGED stop
    /\ UNCHANGED <<table, grants, frame, attach, history, bounds>>

PumpCheck(c) ==
    /\ pump[c] = "check"
    /\ IF c \in stop \/ ~TerminalAllowed(c)
       THEN /\ stop' = stop \cup {c}
            /\ pump' = [pump EXCEPT ![c] = "release"]
            /\ UNCHANGED table
       ELSE /\ pump' = [pump EXCEPT ![c] = "read"]
            /\ IF LocalAllowed(c) THEN UNCHANGED table
               ELSE table' = [k \in Open |->
                                IF k \in OnLocal(c)
                                THEN [Detach(table[k], Remote(c))
                                      EXCEPT !.told = @ \cup {Remote(c)}]
                                ELSE table[k]]
            /\ UNCHANGED stop
    /\ UNCHANGED <<grants, frame, attach, history, bounds>>

\* The channel takes the output, or the send fails and the pump stops.
PumpRead(c) ==
    /\ pump[c] = "read"
    /\ \E room \in 1..Budget, late \in LastWords(table) :
         Read(Remote(c), room, late)
    /\ \/ pump' = [pump EXCEPT ![c] = "reap"] /\ UNCHANGED stop
       \/ stop' = stop \cup {c} /\ pump' = [pump EXCEPT ![c] = "release"]
    /\ UNCHANGED <<grants, frame, attach, strays, frames, changes>>

\* The exit is known and every consumer that was attached has been told.
Seen(s) == s.state = "exited" /\ s.output = <<>>

PumpReap(c) ==
    /\ pump[c] = "reap"
    /\ pump' = [pump EXCEPT ![c] = "check"]
    /\ table' = Restrict(table, {k \in Open : ~Seen(table[k])})
    /\ UNCHANGED <<grants, stop, frame, attach, history, bounds>>

\* Mutation of PumpRelease: a connection that closes forgets its sessions.
PumpReleaseForgets(c) ==
    /\ pump[c] = "release"
    /\ pump' = [pump EXCEPT ![c] = "released"]
    /\ UNCHANGED <<table, grants, stop, frame, attach, history, bounds>>

PumpRelease(c) ==
    /\ pump[c] = "release"
    /\ pump' = [pump EXCEPT ![c] = "released"]
    /\ table' = [k \in Open |-> Detach(table[k], Remote(c))]
    /\ UNCHANGED <<grants, stop, frame, attach, history, bounds>>

ChannelCloses(c) ==
    /\ stop' = stop \cup {c}
    /\ UNCHANGED <<table, grants, pump, frame, attach, history, bounds>>

-----------------------------------------------------------------------------
(***************************************************************************)
(* The frame handler of a connection: it reads the grant, and acts on the  *)
(* table afterwards.  Nobody waits for it: the pump of its connection may  *)
(* have released everything by then.                                       *)
(***************************************************************************)
FrameRead(c, kind, handle) ==
    /\ frame[c] = None
    /\ c \notin stop
    /\ TerminalAllowed(c)
    /\ frames < MaxFrames
    /\ frames' = frames + 1
    /\ frame' = [frame EXCEPT ![c] =
         [kind |-> kind, handle |-> handle, local |-> LocalAllowed(c)]]
    /\ UNCHANGED <<table, grants, stop, pump, attach, history, writes,
                   changes>>

OpenSession(c, f) ==
    LET found == Resolve(f.handle, f.local)
           new == <<"login", f.handle>>
       IN  IF found # {}
           THEN \E k \in found :
                  table' = [table EXCEPT ![k] = Reopened(@, c)]
           ELSE IF new \in Keys
                   /\ Cardinality(OfOwner("login")) < MaxOwned
                   /\ Cardinality(Open) < MaxTotal
           THEN table' = Joined(table, new,
                            Shell("running", Joined(<<>>, Remote(c), 0)))
           ELSE UNCHANGED table

KillSession(f) ==
    /\ table' = Without(table, Resolve(f.handle, f.local))

DetachSession(f) ==
    /\ \E k \in Resolve(f.handle, f.local) :
         table' = [table EXCEPT ![k] =
                     DetachAll(@, {x \in Attached(@) : x[1] = "remote"})]

FrameApply(c) ==
    /\ frame[c] # None
    /\ LET f == frame[c]
       IN  /\ \/ f.kind = "open" /\ OpenSession(c, f)
              \/ f.kind = "kill" /\ KillSession(f)
              \/ f.kind = "detach" /\ DetachSession(f)
              \/ /\ f.kind = "detach"
                 /\ Resolve(f.handle, f.local) = {}
                 /\ UNCHANGED table
           /\ strays' = IF f.kind = "open" /\ pump[c] = "released"
                        THEN strays \cup {c} ELSE strays
    /\ frame' = [frame EXCEPT ![c] = None]
    /\ UNCHANGED <<grants, stop, pump, attach, repeated, bounds>>

-----------------------------------------------------------------------------
(***************************************************************************)
(* A local terminal: it attaches, is answered, then reads every tick until *)
(* the shell exits or the client leaves.                                   *)
(***************************************************************************)
LocalAttach(a, handle) ==
    /\ attach[a].at = "none"
    /\ \E k \in LocalKey(handle) :
         /\ table[k].state # "exited"
         /\ table' = [table EXCEPT ![k] = AttachedLocal(@, a)]
         /\ attach' = [attach EXCEPT ![a] = [at |-> "answer", key |-> k]]
    /\ UNCHANGED <<grants, stop, pump, frame, history, bounds>>

LocalAnswered(a) ==
    /\ attach[a].at = "answer"
    /\ attach' = [attach EXCEPT ![a].at = "read"]
    /\ UNCHANGED <<table, grants, stop, pump, frame, history, bounds>>

\* The answer cannot be written: the thread returns at once, attached.
LocalAnswerFails(a) ==
    /\ attach[a].at = "answer"
    /\ attach' = [attach EXCEPT ![a].at = "failed"]
    /\ UNCHANGED <<table, grants, stop, pump, frame, history, bounds>>

LocalRead(a) ==
    /\ attach[a].at = "read"
    /\ \E late \in LastWords(table) : Read(Local(a), Budget, late)
    /\ \/ \E k \in Open : Local(a) \in Attached(table'[k]) /\ UNCHANGED attach
       \/ attach' = [attach EXCEPT ![a].at = "leave"]
    /\ UNCHANGED <<grants, stop, pump, frame, strays, frames, changes>>

LocalLeave(a) ==
    /\ attach[a].at = "leave"
    /\ attach' = [attach EXCEPT ![a].at = "gone"]
    /\ table' = [k \in Open |-> Detach(table[k], Local(a))]
    /\ UNCHANGED <<grants, stop, pump, frame, history, bounds>>

-----------------------------------------------------------------------------
(***************************************************************************)
(* The local user: new shells, the end of shells, and the switches.  A     *)
(* switch and the end of the login's shells are two steps, in this order   *)
(* except when remote control as a whole is switched off.                  *)
(***************************************************************************)
UserActs == changes < MaxChanges /\ changes' = changes + 1

CreateLocal(k) ==
    /\ UserActs
    /\ Owner(k) = "local" /\ k \notin Open
    /\ Cardinality(Open) < MaxTotal
    /\ table' = Joined(table, k, Shell("detached", <<>>))
    /\ UNCHANGED <<grants, tasks, history, writes, frames>>

KillLocal(k) ==
    /\ UserActs
    /\ k \in Open
    /\ table' = Without(table, {k})
    /\ UNCHANGED <<grants, tasks, history, writes, frames>>

EndAll ==
    /\ UserActs
    /\ table' = <<>>
    /\ UNCHANGED <<grants, tasks, history, writes, frames>>

TerminalOff ==
    /\ UserActs
    /\ user = "idle" /\ terminal
    /\ terminal' = FALSE /\ terminal_local' = FALSE
    /\ user' = "end"
    /\ UNCHANGED <<table, lease, tasks, history, writes, frames>>

TerminalLocalOff ==
    /\ UserActs
    /\ terminal_local
    /\ terminal_local' = FALSE
    /\ UNCHANGED <<table, terminal, lease, user, tasks, history, writes,
                   frames>>

\* retire, and the user's disconnect.
LoginEnds ==
    /\ UserActs
    /\ user = "idle"
    /\ lease' = [c \in Conns |-> FALSE]
    /\ user' = "end"
    /\ UNCHANGED <<table, terminal, terminal_local, tasks, history, writes,
                   frames>>

ControlOff ==
    /\ UserActs
    /\ user = "idle"
    /\ table' = Without(table, OfOwner("login"))
    /\ user' = "revoke"
    /\ UNCHANGED <<terminal, terminal_local, lease, tasks, history, writes,
                   frames>>

ControlRevoked ==
    /\ user = "revoke"
    /\ lease' = [c \in Conns |-> FALSE]
    /\ user' = "done"
    /\ UNCHANGED <<table, terminal, terminal_local, tasks, history, bounds>>

\* end_login, after the switch.
EndLogin ==
    /\ user = "end"
    /\ table' = Without(table, OfOwner("login"))
    /\ user' = "done"
    /\ UNCHANGED <<terminal, terminal_local, lease, tasks, history, bounds>>

-----------------------------------------------------------------------------
(***************************************************************************)
(* The shells, and the sweep once a minute.                                *)
(***************************************************************************)
ShellWrites(k) ==
    /\ writes < MaxWrites
    /\ table[k].alive
    /\ table' = [table EXCEPT ![k].unread = @ + 1]
    /\ writes' = writes + 1
    /\ UNCHANGED <<grants, tasks, history, frames, changes>>

ShellExits(k) ==
    /\ table[k].alive
    /\ table' = [table EXCEPT ![k].alive = FALSE]
    /\ UNCHANGED <<grants, tasks, history, bounds>>

\* IDLE_LIMIT passes.
IdleLong(k) ==
    /\ table[k].since = "now"
    /\ table' = [table EXCEPT ![k].since = "long"]
    /\ UNCHANGED <<grants, tasks, history, bounds>>

\* Mutation of Swept: only a shell left alone for long is ended.
SweptIdle(k) ==
    /\ table[k].output = <<>>
    /\ Owner(k) # "local" /\ table[k].since = "long"

Swept(k) ==
    /\ table[k].output = <<>>
    /\ \/ ~table[k].alive
       \/ Owner(k) # "local" /\ table[k].since = "long"

Sweep ==
    /\ \E k \in Open : Swept(k)
    /\ table' = Restrict(table, {k \in Open : ~Swept(k)})
    /\ UNCHANGED <<grants, tasks, history, bounds>>

-----------------------------------------------------------------------------
Frames(c) ==
    \/ \E k \in Keys : FrameRead(c, "open", k[2])
    \/ \E k \in Open, kind \in {"kill", "detach"} : FrameRead(c, kind, k[2])

Pump(c) == PumpCheck(c) \/ PumpRead(c) \/ PumpReap(c) \/ PumpRelease(c)

Attachment(a) ==
    \/ LocalAnswered(a) \/ LocalAnswerFails(a) \/ LocalRead(a)
    \/ LocalLeave(a)

LocalUser ==
    \/ \E k \in Keys : CreateLocal(k) \/ KillLocal(k)
    \/ EndAll \/ TerminalOff \/ TerminalLocalOff \/ LoginEnds \/ ControlOff

Revocation == EndLogin \/ ControlRevoked

TermNext ==
    \/ \E c \in Conns : Pump(c) \/ ChannelCloses(c) \/ Frames(c)
                        \/ FrameApply(c)
    \/ \E a \in Locals : \/ Attachment(a)
                         \/ \E k \in Open : LocalAttach(a, k[2])
    \/ LocalUser \/ Revocation \/ Sweep
    \/ \E k \in Open : ShellWrites(k) \/ ShellExits(k) \/ IdleLong(k)

TermSpec == TermInit /\ [][TermNext]_termVars

(***************************************************************************)
(* The pump tasks, the handlers, the threads of local terminals and the    *)
(* sweep run on; the channel takes output again and again; nobody has to   *)
(* type, and a shell never has to write or exit.                           *)
(***************************************************************************)
TermFairSpec ==
    /\ TermSpec
    /\ \A c \in Conns : WF_termVars(Pump(c)) /\ WF_termVars(FrameApply(c))
    /\ \A a \in Locals : WF_termVars(Attachment(a))
    /\ WF_termVars(Sweep)
    /\ WF_termVars(Revocation)

-----------------------------------------------------------------------------
(***************************************************************************)
(* Types of the table and of the tasks around it.                          *)
(***************************************************************************)
SessionOK(s) ==
    /\ s.state \in {"running", "detached", "exited"}
    /\ Attached(s) \subseteq Consumers
    /\ \A x \in Attached(s) : s.output[x] \in Nat
    /\ s.since \in {"none", "now", "long"}
    /\ s.unread \in Nat /\ s.alive \in BOOLEAN /\ s.told \subseteq Consumers

TermTypeOK ==
    /\ Open \subseteq Keys
    /\ \A k \in Open : SessionOK(table[k])
    /\ pump \in [Conns -> {"check", "read", "reap", "release", "released"}]
    /\ stop \subseteq Conns
    /\ \A a \in Locals :
         attach[a].at \in
           {"none", "answer", "read", "leave", "gone", "failed"}
    /\ strays \subseteq Conns
    /\ user \in {"idle", "end", "revoke", "done"}

(***************************************************************************)
(* A session has at most one connection of the controller, however often   *)
(* it reconnects: a second one would fill its queue while nobody looks and *)
(* stop the shell for everyone (Sessions::open).                           *)
(***************************************************************************)
OneRemote ==
    \A k \in Open :
        Cardinality({x \in Attached(table[k]) : x[1] = "remote"}) <= 1

(***************************************************************************)
(* Each consumer is told of an exit once, and nothing comes after it until *)
(* it attaches again, whoever of the others reads in between (pump).       *)
(***************************************************************************)
ExitIsLast == ~repeated

(***************************************************************************)
(* No queue grows past the high-water mark by more than one reading, with  *)
(* readers that drain the shells for each other (drain).                   *)
(***************************************************************************)
BacklogBounded ==
    \A k \in Open : \A x \in Attached(table[k]) :
        table[k].output[x] < HighWater + Budget

(***************************************************************************)
(* A shell that runs on is called running while somebody is attached,      *)
(* whoever else comes and leaves meanwhile, and then its idle time stands  *)
(* still; a shell of the controller that everyone left is idle (detach,    *)
(* open, attach_local).  Otherwise the sweep ends a shell too early, or    *)
(* leaves one for ever that counts against MAX_SESSIONS.                   *)
(***************************************************************************)
IdleWhenAlone ==
    \A k \in Open : LET s == table[k]
                   IN  s.state # "exited" =>
                         /\ s.state = "running" <=> s.output # <<>>
                         /\ s.output # <<>> => s.since = "none"
                         /\ s.output = <<>> /\ Owner(k) = "login"
                              => s.since # "none"

(***************************************************************************)
(* Whoever has left is attached to nothing: a connection whose pump has    *)
(* ended (release), on whatever way, unless a handler of it came late; a   *)
(* local terminal that read until it left (attach).  These two leave a     *)
(* queue behind that nobody empties, and no other way does.                *)
(***************************************************************************)
GoneLetsGo ==
    \A k \in Open :
        /\ \A c \in Conns \ strays :
             Remote(c) \in Attached(table[k]) => pump[c] # "released"
        /\ \A a \in Locals :
             Local(a) \in Attached(table[k]) => attach[a].at # "gone"

(***************************************************************************)
(* When the switch or the login has ended, its shells have ended with it.  *)
(* access.rs, set_terminal_allowed: "Turning the terminal off ends the     *)
(* shells it granted, connected or not"; set_allowed: "A shell is remote   *)
(* control too; it does not outlive the switch."                           *)
(***************************************************************************)
ShellsEndWithGrant == user = "done" => OfOwner("login") = {}

\* Somebody is attached to the shell who will not read any more.
Stranded(k) ==
    \/ \E c \in Conns :
         Remote(c) \in Attached(table[k]) /\ pump[c] = "released"
    \/ \E a \in Locals :
         Local(a) \in Attached(table[k]) /\ attach[a].at \in {"gone", "failed"}

(***************************************************************************)
(* A shell that exited is taken out in the end, once everyone attached was *)
(* told or left (reap, sweep).  Only somebody who is gone and attached may *)
(* keep it, for there is no one to tell him.                               *)
(***************************************************************************)
DeadShellsGo ==
    \A k \in Keys :
        (k \in Open /\ ~table[k].alive)
          ~> (k \notin Open \/ table[k].alive \/ Stranded(k))

(***************************************************************************)
(* Once the controller may no longer reach the local shells, it lets go of *)
(* them, also of one it opens from a frame it had sent before; but for one *)
(* that a handler opens when the connection's pump has ended.              *)
(***************************************************************************)
LocalAccessEnds ==
    \A c \in Conns :
        (~LocalAllowed(c))
          ~> (OnLocal(c) = {} \/ LocalAllowed(c) \/ c \in strays)
=============================================================================
