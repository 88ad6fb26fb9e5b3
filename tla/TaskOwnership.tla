----------------------------- MODULE TaskOwnership -----------------------------
(***************************************************************************)
(* What a TaskScope promises to its owner, without its mutex, tokens and   *)
(* trackers: work starts only while the scope and everything above it is   *)
(* open, opening never comes back, and a closer returns only over an empty *)
(* scope.  TaskScope implements it and SharedSession relies on it.         *)
(***************************************************************************)
CONSTANTS
    Scopes,     \* what owns work
    Above,      \* Above[s]: the scopes that own s
    Tasks,      \* the pieces of work
    Callers     \* those who close scopes

VARIABLES
    open,       \* whether a scope still starts work
    live,       \* live[s]: the unfinished work of s and of what it owns
    waits,      \* waits[c]: the scope c waits for, if any
    told        \* told[c]: the scope c was told is over, if any

ownVars == <<open, live, waits, told>>

OwnedBy(s) == Above[s] \cup {s}

OwnInit ==
    /\ open = [s \in Scopes |-> TRUE]
    /\ live = [s \in Scopes |-> {}]
    /\ waits = [c \in Callers |-> {}]
    /\ told = [c \in Callers |-> {}]

Start(t, s) ==
    /\ \A a \in OwnedBy(s) : open[a]
    /\ \A d \in Scopes : t \notin live[d]
    /\ live' = [a \in Scopes |-> IF a \in OwnedBy(s) THEN live[a] \cup {t} ELSE live[a]]
    /\ UNCHANGED <<open, waits, told>>

End(t) ==
    /\ \E s \in Scopes : t \in live[s]
    /\ live' = [s \in Scopes |-> live[s] \ {t}]
    /\ UNCHANGED <<open, waits, told>>

Shut(c, s) ==
    /\ open' = [open EXCEPT ![s] = FALSE]
    /\ waits' = [waits EXCEPT ![c] = {s}]
    /\ told' = [told EXCEPT ![c] = {}]
    /\ UNCHANGED live

\* The close() returns: what it waited for is over.
Return(c, s) ==
    /\ waits[c] = {s}
    /\ live[s] = {}
    /\ waits' = [waits EXCEPT ![c] = {}]
    /\ told' = [told EXCEPT ![c] = {s}]
    /\ UNCHANGED <<open, live>>

\* cancel() does not wait, and a close() may be given up.
GiveUp(c) ==
    /\ waits[c] # {}
    /\ waits' = [waits EXCEPT ![c] = {}]
    /\ UNCHANGED <<open, live, told>>

OwnNext ==
    \/ \E t \in Tasks : End(t) \/ \E s \in Scopes : Start(t, s)
    \/ \E c \in Callers : GiveUp(c) \/ \E s \in Scopes : Shut(c, s) \/ Return(c, s)

OwnSpec == OwnInit /\ [][OwnNext]_ownVars
==============================================================================
