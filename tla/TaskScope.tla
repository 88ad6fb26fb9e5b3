------------------------------- MODULE TaskScope -------------------------------
(***************************************************************************)
(* The ownership of asynchronous tasks, src/src/lifecycle.rs.  A scope     *)
(* admits tasks, cancels them through a token its children inherit, and    *)
(* drains them through a tracker; a child scope shares the admission mutex *)
(* of its family and tracks each task in its ancestors too.  The RTC peer  *)
(* owns one scope ("RTC peer") and a viewing window a child of it.         *)
(*                                                                         *)
(* Threads run concurrently, so the steps here are the accesses to what    *)
(* they share: the mutex, the accepting flags, the tokens, the trackers.   *)
(* What a task does, its panics (caught, and the same as its end) and the  *)
(* log are left out.                                                       *)
(***************************************************************************)
EXTENDS FiniteSets

CONSTANTS
    Scopes,     \* the scopes of one family, in the order of one mutex
    Above,      \* Above[s]: the scopes in s.ancestors
    Tasks,      \* the futures handed to spawn_in
    Callers,    \* the callers of cancel() and close()
    Free        \* the mutex when nobody holds it

ASSUME FamilyAssumption ==
    /\ Scopes # {}
    /\ Above \in [Scopes -> SUBSET Scopes]
    /\ \A s \in Scopes : s \notin Above[s]
    /\ \A s \in Scopes : \A a \in Above[s] : Above[a] \subseteq Above[s]

ASSUME FreeAssumption == Free \notin Tasks

VARIABLES
    made,       \* the scopes that exist
    accepting,  \* the accepting flag of each scope
    cancelled,  \* whether its shutdown token is cancelled
    closed,     \* whether its tracker is closed
    tracked,    \* the tasks its tracker counts
    admission,  \* the task whose admit() holds the mutex, or Free
    task,       \* where each future is
    home,       \* the scope a future was handed to
    stopped,    \* whether the future's own stop token is cancelled
    call,       \* where each cancel() or close() is
    target      \* the scope it is about

vars == <<made, accepting, cancelled, closed, tracked, admission, task, home,
          stopped, call, target>>
scopeVars == <<made, accepting, cancelled, closed>>
taskVars == <<tracked, admission, task, home, stopped>>
callVars == <<call, target>>

Family(s) == Above[s] \cup {s}              \* s and the scopes that own it
Under(s) == {d \in Scopes : s \in Family(d)} \* s and the scopes it owns

TaskStates == {"unborn", "admitting", "checked", "owned", "admitted", "running",
               "done", "refused"}
Alive == {"owned", "admitted", "running"}   \* from its first tracking to its end
Syncing == {"stopped", "cancelled"}         \* inside cancel(), which has no await
CallStates == {"idle", "waiting", "returned"} \cup Syncing

TypeOK ==
    /\ made \subseteq Scopes
    /\ accepting \in [Scopes -> BOOLEAN]
    /\ cancelled \in [Scopes -> BOOLEAN]
    /\ closed \in [Scopes -> BOOLEAN]
    /\ tracked \in [Scopes -> SUBSET Tasks]
    /\ admission \in Tasks \cup {Free}
    /\ task \in [Tasks -> TaskStates]
    /\ home \in [Tasks -> Scopes]
    /\ stopped \in [Tasks -> BOOLEAN]
    /\ call \in [Callers -> CallStates]
    /\ target \in [Callers -> Scopes]
    /\ admission \in Tasks => task[admission] \in {"admitting", "checked", "owned"}
    /\ \A s \in Scopes : tracked[s] \subseteq {t \in Tasks : task[t] \in Alive}

Init ==
    /\ made = {s \in Scopes : Above[s] = {}}
    /\ accepting = [s \in Scopes |-> TRUE]
    /\ cancelled = [s \in Scopes |-> FALSE]
    /\ closed = [s \in Scopes |-> FALSE]
    /\ tracked = [s \in Scopes |-> {}]
    /\ admission = Free
    /\ task = [t \in Tasks |-> "unborn"]
    /\ home \in [Tasks -> Scopes]
    /\ stopped = [t \in Tasks |-> FALSE]
    /\ call = [c \in Callers |-> "idle"]
    /\ target = [c \in Callers |-> CHOOSE s \in Scopes : TRUE]

-----------------------------------------------------------------------------
(* A child's token is a child of its parent's: born cancelled when that is. *)

\* Mutation of Child: it gets a token of its own.
ChildFresh(s) ==
    /\ s \notin made
    /\ Above[s] \subseteq made
    /\ made' = made \cup {s}
    /\ UNCHANGED <<accepting, cancelled, closed>>
    /\ UNCHANGED <<taskVars, callVars>>

Child(s) ==
    /\ s \notin made
    /\ Above[s] \subseteq made
    /\ made' = made \cup {s}
    /\ cancelled' = [cancelled EXCEPT ![s] = \E a \in Above[s] : cancelled[a]]
    /\ UNCHANGED <<accepting, closed>>
    /\ UNCHANGED <<taskVars, callVars>>

-----------------------------------------------------------------------------
(* admit(): the mutex is taken, the flags and tokens are read, the future   *)
(* is tracked by its scope and then by each ancestor, and the mutex is      *)
(* released before the runtime gets the future.                             *)

Admit(t) ==
    /\ task[t] = "unborn"
    /\ home[t] \in made
    /\ admission = Free
    /\ admission' = t
    /\ task' = [task EXCEPT ![t] = "admitting"]
    /\ UNCHANGED <<tracked, home, stopped>>
    /\ UNCHANGED <<scopeVars, callVars>>

Admissible(t) ==
    /\ \A s \in Family(home[t]) : accepting[s]
    /\ ~cancelled[home[t]]
    /\ ~stopped[t]

Check(t) ==
    /\ task[t] = "admitting"
    /\ task' = [task EXCEPT ![t] = IF Admissible(t) THEN "checked" ELSE "refused"]
    /\ admission' = IF Admissible(t) THEN admission ELSE Free
    /\ UNCHANGED <<tracked, home, stopped>>
    /\ UNCHANGED <<scopeVars, callVars>>

TrackOwn(t) ==
    /\ task[t] = "checked"
    /\ tracked' = [tracked EXCEPT ![home[t]] = @ \cup {t}]
    /\ task' = [task EXCEPT ![t] = "owned"]
    /\ UNCHANGED <<admission, home, stopped>>
    /\ UNCHANGED <<scopeVars, callVars>>

\* Mutation of TrackedAbove: a child's task is not tracked by its ancestors.
NotTrackedAbove(t) == tracked

TrackedAbove(t) ==
    [s \in Scopes |-> IF s \in Above[home[t]] THEN tracked[s] \cup {t} ELSE tracked[s]]

TrackAbove(t) ==
    /\ task[t] = "owned"
    /\ tracked' = TrackedAbove(t)
    /\ admission' = Free
    /\ task' = [task EXCEPT ![t] = "admitted"]
    /\ UNCHANGED <<home, stopped>>
    /\ UNCHANGED <<scopeVars, callVars>>

Spawn(t) ==
    /\ task[t] = "admitted"
    /\ task' = [task EXCEPT ![t] = "running"]
    /\ UNCHANGED <<tracked, admission, home, stopped>>
    /\ UNCHANGED <<scopeVars, callVars>>

-----------------------------------------------------------------------------
(* The future ends by itself (or panics, or is aborted through its handle), *)
(* or its select! sees a token: the scope's first, then its own.  Its       *)
(* tracker tokens are dropped with it.                                      *)

Ended(t) ==
    /\ task' = [task EXCEPT ![t] = "done"]
    /\ tracked' = [s \in Scopes |-> tracked[s] \ {t}]
    /\ UNCHANGED <<admission, home, stopped>>
    /\ UNCHANGED <<scopeVars, callVars>>

Finish(t) == task[t] = "running" /\ Ended(t)

Cut(t) ==
    /\ task[t] = "running"
    /\ cancelled[home[t]] \/ stopped[t]
    /\ Ended(t)

Stop(t) ==
    /\ ~stopped[t]
    /\ stopped' = [stopped EXCEPT ![t] = TRUE]
    /\ UNCHANGED <<tracked, admission, task, home>>
    /\ UNCHANGED <<scopeVars, callVars>>

-----------------------------------------------------------------------------
(* cancel(), which close() calls first and Drop calls too.                  *)

\* Mutation of CancelledUnder: the children keep running.
CancelledAlone(s) == [cancelled EXCEPT ![s] = TRUE]

\* A cancelled token cancels the tokens of the children that exist.
CancelledUnder(s) ==
    [d \in Scopes |-> cancelled[d] \/ (d \in Under(s) /\ d \in made)]

\* Mutation of StopAccepting: the flag is written without the mutex.
StopUnlocked(c, s) ==
    /\ call[c] \in {"idle", "returned"}
    /\ s \in made
    /\ accepting' = [accepting EXCEPT ![s] = FALSE]
    /\ call' = [call EXCEPT ![c] = "stopped"]
    /\ target' = [target EXCEPT ![c] = s]
    /\ UNCHANGED <<made, cancelled, closed>>
    /\ UNCHANGED taskVars

StopAccepting(c, s) ==
    /\ call[c] \in {"idle", "returned"}
    /\ s \in made
    /\ admission = Free
    /\ accepting' = [accepting EXCEPT ![s] = FALSE]
    /\ call' = [call EXCEPT ![c] = "stopped"]
    /\ target' = [target EXCEPT ![c] = s]
    /\ UNCHANGED <<made, cancelled, closed>>
    /\ UNCHANGED taskVars

CancelToken(c) ==
    /\ call[c] = "stopped"
    /\ cancelled' = CancelledUnder(target[c])
    /\ call' = [call EXCEPT ![c] = "cancelled"]
    /\ UNCHANGED <<made, accepting, closed, target>>
    /\ UNCHANGED taskVars

\* tracker.close(); cancel() and Drop return here, close() goes on to wait.
CloseTracker(c, next) ==
    /\ call[c] = "cancelled"
    /\ next \in {"idle", "waiting"}
    /\ closed' = [closed EXCEPT ![target[c]] = TRUE]
    /\ call' = [call EXCEPT ![c] = next]
    /\ UNCHANGED <<made, accepting, cancelled, target>>
    /\ UNCHANGED taskVars

\* tracker.wait(): closed, and nothing left to count.
Drained(s) == closed[s] /\ tracked[s] = {}

Closed(c) ==
    /\ call[c] = "waiting"
    /\ Drained(target[c])
    /\ call' = [call EXCEPT ![c] = "returned"]
    /\ UNCHANGED target
    /\ UNCHANGED <<scopeVars, taskVars>>

\* The future of close() is dropped while it waits.
Abandon(c) ==
    /\ call[c] = "waiting"
    /\ call' = [call EXCEPT ![c] = "idle"]
    /\ UNCHANGED target
    /\ UNCHANGED <<scopeVars, taskVars>>

\* NativePeer::drop: an owner dropped without close() cancels the token alone.
Retire(s) ==
    /\ s \in made
    /\ ~cancelled[s]
    /\ cancelled' = CancelledUnder(s)
    /\ UNCHANGED <<made, accepting, closed>>
    /\ UNCHANGED <<taskVars, callVars>>

-----------------------------------------------------------------------------
Admission(t) == Admit(t) \/ Check(t) \/ TrackOwn(t) \/ TrackAbove(t) \/ Spawn(t)

Cancel(c) == CancelToken(c) \/ \E next \in {"idle", "waiting"} : CloseTracker(c, next)

Next ==
    \/ \E s \in Scopes : Child(s) \/ Retire(s)
    \/ \E t \in Tasks : Admission(t) \/ Finish(t) \/ Cut(t) \/ Stop(t)
    \/ \E c \in Callers :
          \/ \E s \in Scopes : StopAccepting(c, s)
          \/ Cancel(c)
          \/ Closed(c)
          \/ Abandon(c)

Spec == Init /\ [][Next]_vars

(* The runtime polls a task whose token is cancelled, runs a thread that    *)
(* holds the mutex, and wakes a waiter whose tracker has drained.           *)
Fairness ==
    /\ \A t \in Tasks :
          /\ WF_vars(Check(t) \/ TrackOwn(t) \/ TrackAbove(t) \/ Spawn(t))
          /\ WF_vars(Cut(t))
    /\ \A c \in Callers : WF_vars(Cancel(c)) /\ WF_vars(Closed(c))

FairSpec == Spec /\ Fairness

-----------------------------------------------------------------------------
(* What a caller may rely on.                                               *)

\* A close() that returned left no unfinished task behind, in the scope or in
\* any scope below it, whatever other closers did or gave up meanwhile
\* (lifecycle.rs:112-117), and none can start there later.
ClosedIsEmpty ==
    \A c \in Callers : call[c] = "returned" =>
        \A t \in Tasks : home[t] \in Under(target[c]) => task[t] \notin Alive

\* A scope keeps the promise TaskOwnership states: work starts only while the
\* scope and all above it accept, and no close() returns over unfinished work.
\* The check, the trackings and the mutex make an admission one step of it
\* (lifecycle.rs:60-103 against 104-117).
Ownership == INSTANCE TaskOwnership WITH
    open <- accepting,
    live <- [s \in Scopes |-> {t \in Tasks : task[t] \in Alive /\ s \in Family(home[t])}],
    waits <- [c \in Callers |->
                 IF call[c] \in Syncing \cup {"waiting"} THEN {target[c]} ELSE {}],
    told <- [c \in Callers |-> IF call[c] = "returned" THEN {target[c]} ELSE {}]

KeepsOwnership == Ownership!OwnSpec

\* A drained tracker stays drained, so a closer that gave up and one that comes
\* later agree on whether work is left (lifecycle.rs:114-115).
DrainedForGood == [][\A s \in Scopes : Drained(s) => Drained(s)']_vars

\* A close() whose caller keeps waiting returns: what it waits for has been
\* told to end, also the tasks of a child scope and one admitted just before.
CloseReturns ==
    \A c \in Callers : call[c] = "stopped" ~> call[c] \in {"returned", "idle"}

\* No task outlives its scope's token, or the token of a scope above it, even
\* when the owner is dropped without close() while the task is being spawned.
RetiredTasksEnd ==
    \A t \in Tasks :
        (task[t] \in Alive /\ \E s \in Family(home[t]) : cancelled[s]) ~> task[t] = "done"
==============================================================================
