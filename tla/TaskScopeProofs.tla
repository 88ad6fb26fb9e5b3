---------------------------- MODULE TaskScopeProofs ----------------------------
(***************************************************************************)
(* For every family of scopes and every number of tasks and closers: a     *)
(* close() that returned left nothing running, and a scope implements the  *)
(* promise TaskOwnership makes.                                            *)
(*                                                                         *)
(* The invariant follows the mutex.  Between the reading of the flags and  *)
(* the last tracking one admission holds it, so no flag of the family can  *)
(* change (AdmissionCurrent); a caller past its first step has written its *)
(* flag (CallerStopped), before which no tracker is closed (ClosedStopped);*)
(* and what is alive outside the mutex is in every tracker of its family   *)
(* (AliveTracked).  So nothing enters what a close() found empty.          *)
(***************************************************************************)
EXTENDS TaskScope, TLAPS

USE FamilyAssumption, FreeAssumption

AdmissionCurrent ==
    \A t \in Tasks :
        /\ task[t] \in {"admitting", "checked", "owned"} => admission = t
        /\ task[t] \in {"checked", "owned"} => \A s \in Family(home[t]) : accepting[s]

CallerStopped == \A c \in Callers : call[c] # "idle" => ~accepting[target[c]]

ClosedStopped == \A s \in Scopes : closed[s] => ~accepting[s]

AliveTracked ==
    \A t \in Tasks :
        /\ task[t] = "owned" => t \in tracked[home[t]]
        /\ task[t] \in {"admitted", "running"} =>
              \A s \in Family(home[t]) : t \in tracked[s]

ScopeInv ==
    TypeOK /\ AdmissionCurrent /\ CallerStopped /\ ClosedStopped /\ AliveTracked
      /\ ClosedIsEmpty

\* The scopes an admission tracks in are scopes, and its own is among them.
LEMMA FamilyInScopes == \A s \in Scopes : Family(s) \subseteq Scopes /\ s \in Family(s)
  BY DEF Family

-----------------------------------------------------------------------------
\* A new tree of scopes, as TaskScope::new leaves it, satisfies the invariant.
THEOREM ScopeInit == Init => ScopeInv
<1> SUFFICES ASSUME Init PROVE ScopeInv
  OBVIOUS
<1> USE DEF Init
<1>1. TypeOK
  <2>1. target \in [Callers -> Scopes]
    OBVIOUS
  <2> QED
    BY <2>1 DEF TypeOK, TaskStates, CallStates, Syncing, Alive
<1>2. AdmissionCurrent /\ CallerStopped /\ ClosedStopped
  BY DEF AdmissionCurrent, CallerStopped, ClosedStopped
<1>3. AliveTracked /\ ClosedIsEmpty
  BY DEF AliveTracked, ClosedIsEmpty
<1> QED
  BY <1>1, <1>2, <1>3 DEF ScopeInv

\* Which of its parts a step can disturb decides what it is shown from.
LEMMA TypeStep == TypeOK /\ [Next]_vars => TypeOK'
<1> SUFFICES ASSUME TypeOK, [Next]_vars PROVE TypeOK'
  OBVIOUS
<1> USE DEF TypeOK, scopeVars, taskVars, callVars, TaskStates, CallStates, Syncing, Alive
<1>1. ASSUME NEW s \in Scopes, Child(s) PROVE TypeOK'
  BY <1>1 DEF Child
<1>2. ASSUME NEW s \in Scopes, Retire(s) PROVE TypeOK'
  BY <1>2 DEF Retire, CancelledUnder
<1>3. ASSUME NEW t \in Tasks, Admit(t) PROVE TypeOK'
  BY <1>3 DEF Admit
<1>4. ASSUME NEW t \in Tasks, Check(t) PROVE TypeOK'
  BY <1>4 DEF Check
<1>5. ASSUME NEW t \in Tasks, TrackOwn(t) PROVE TypeOK'
  BY <1>5 DEF TrackOwn
<1>6. ASSUME NEW t \in Tasks, TrackAbove(t) PROVE TypeOK'
  BY <1>6 DEF TrackAbove, TrackedAbove
<1>7. ASSUME NEW t \in Tasks, Spawn(t) PROVE TypeOK'
  BY <1>7 DEF Spawn
<1>8. ASSUME NEW t \in Tasks, Finish(t) \/ Cut(t) PROVE TypeOK'
  BY <1>8 DEF Finish, Cut, Ended
<1>9. ASSUME NEW t \in Tasks, Stop(t) PROVE TypeOK'
  BY <1>9 DEF Stop
<1>10. ASSUME NEW c \in Callers, NEW s \in Scopes, StopAccepting(c, s) PROVE TypeOK'
  BY <1>10 DEF StopAccepting
<1>11. ASSUME NEW c \in Callers, CancelToken(c) PROVE TypeOK'
  BY <1>11 DEF CancelToken, CancelledUnder
<1>12. ASSUME NEW c \in Callers, NEW next \in {"idle", "waiting"}, CloseTracker(c, next)
       PROVE TypeOK'
  BY <1>12 DEF CloseTracker
<1>13. ASSUME NEW c \in Callers, Closed(c) \/ Abandon(c) PROVE TypeOK'
  BY <1>13 DEF Closed, Abandon
<1>14. CASE UNCHANGED vars
  BY <1>14 DEF vars
<1> QED
  BY <1>1, <1>2, <1>3, <1>4, <1>5, <1>6, <1>7, <1>8, <1>9, <1>10, <1>11, <1>12,
     <1>13, <1>14 DEF Next, Admission, Cancel

\* The flags are written under the mutex, so not between the check and the
\* trackings of an admission, which holds it.
LEMMA AdmissionStep ==
  TypeOK /\ AdmissionCurrent /\ [Next]_vars => AdmissionCurrent'
<1> SUFFICES ASSUME TypeOK, AdmissionCurrent, [Next]_vars PROVE AdmissionCurrent'
  OBVIOUS
<1> USE DEF TypeOK, AdmissionCurrent, scopeVars, taskVars, callVars, Family
<1>1. ASSUME NEW s \in Scopes, Child(s) \/ Retire(s) PROVE AdmissionCurrent'
  BY <1>1 DEF Child, Retire
<1>2. ASSUME NEW t \in Tasks, Admit(t) PROVE AdmissionCurrent'
  BY <1>2 DEF Admit
<1>3. ASSUME NEW t \in Tasks, Check(t) PROVE AdmissionCurrent'
  BY <1>3 DEF Check, Admissible
<1>4. ASSUME NEW t \in Tasks, TrackOwn(t) \/ TrackAbove(t) \/ Spawn(t)
      PROVE  AdmissionCurrent'
  BY <1>4 DEF TrackOwn, TrackAbove, Spawn
<1>5. ASSUME NEW t \in Tasks, Finish(t) \/ Cut(t) \/ Stop(t) PROVE AdmissionCurrent'
  BY <1>5 DEF Finish, Cut, Ended, Stop
<1>6. ASSUME NEW c \in Callers, NEW s \in Scopes, StopAccepting(c, s)
      PROVE  AdmissionCurrent'
  <2>1. \A t \in Tasks : task[t] \notin {"admitting", "checked", "owned"}
    BY <1>6 DEF StopAccepting
  <2> QED
    BY <1>6, <2>1 DEF StopAccepting
<1>7. ASSUME NEW c \in Callers, Cancel(c) \/ Closed(c) \/ Abandon(c)
      PROVE  AdmissionCurrent'
  BY <1>7 DEF Cancel, CancelToken, CloseTracker, Closed, Abandon
<1>8. CASE UNCHANGED vars
  BY <1>8 DEF vars
<1> QED
  BY <1>1, <1>2, <1>3, <1>4, <1>5, <1>6, <1>7, <1>8 DEF Next, Admission

\* Accepting never comes back.
LEMMA NeverReopens ==
  TypeOK /\ [Next]_vars => \A s \in Scopes : accepting'[s] => accepting[s]
<1> SUFFICES ASSUME TypeOK, [Next]_vars
             PROVE  \A s \in Scopes : accepting'[s] => accepting[s]
  OBVIOUS
<1>1. ASSUME NEW c \in Callers, NEW s \in Scopes, StopAccepting(c, s)
      PROVE  \A r \in Scopes : accepting'[r] => accepting[r]
  BY <1>1 DEF StopAccepting, TypeOK
<1>2. CASE UNCHANGED accepting
  BY <1>2
<1> QED
  BY <1>1, <1>2 DEF Next, Admission, Cancel, Child, Retire, Admit, Check, TrackOwn,
     TrackAbove, Spawn, Finish, Cut, Ended, Stop, CancelToken, CloseTracker, Closed,
     Abandon, vars, scopeVars, taskVars, callVars

\* A close() under way has stopped admission, whether it set the flag itself or
\* found it cleared (lifecycle.rs:106-113).
LEMMA StoppedStep ==
  TypeOK /\ CallerStopped /\ ClosedStopped /\ [Next]_vars
    => CallerStopped' /\ ClosedStopped'
<1> SUFFICES ASSUME TypeOK, CallerStopped, ClosedStopped, [Next]_vars
             PROVE  CallerStopped' /\ ClosedStopped'
  OBVIOUS
<1>1. \A s \in Scopes : accepting'[s] => accepting[s]
  BY NeverReopens
<1> USE DEF TypeOK, CallerStopped, ClosedStopped, scopeVars, taskVars, callVars
<1>2. ASSUME NEW c \in Callers, NEW s \in Scopes, StopAccepting(c, s)
      PROVE  CallerStopped' /\ ClosedStopped'
  BY <1>2 DEF StopAccepting
<1>3. ASSUME NEW c \in Callers, Cancel(c) \/ Closed(c) \/ Abandon(c)
      PROVE  CallerStopped' /\ ClosedStopped'
  BY <1>3 DEF Cancel, CancelToken, CloseTracker, Closed, Abandon
<1>4. CASE UNCHANGED <<accepting, closed, call, target>>
  BY <1>4
<1> QED
  BY <1>2, <1>3, <1>4 DEF Next, Admission, Child, Retire, Admit, Check, TrackOwn,
     TrackAbove, Spawn, Finish, Cut, Ended, Stop, vars

\* A task is counted by its scope and by the scope above it for as long as it
\* is alive: the tokens are dropped with the future (lifecycle.rs:66-80).
LEMMA TrackedStep ==
  TypeOK /\ AliveTracked /\ [Next]_vars => AliveTracked'
<1> SUFFICES ASSUME TypeOK, AliveTracked, [Next]_vars PROVE AliveTracked'
  OBVIOUS
<1> USE DEF TypeOK, AliveTracked, scopeVars, taskVars, callVars
<1>1. ASSUME NEW t \in Tasks, Admit(t) \/ Check(t) PROVE AliveTracked'
  BY <1>1 DEF Admit, Check
<1>2. ASSUME NEW t \in Tasks, TrackOwn(t) PROVE AliveTracked'
  BY <1>2, FamilyInScopes DEF TrackOwn
<1>3. ASSUME NEW t \in Tasks, TrackAbove(t) PROVE AliveTracked'
  BY <1>3, FamilyInScopes DEF TrackAbove, TrackedAbove, Family
<1>4. ASSUME NEW t \in Tasks, Spawn(t) PROVE AliveTracked'
  BY <1>4 DEF Spawn
<1>5. ASSUME NEW t \in Tasks, Finish(t) \/ Cut(t) PROVE AliveTracked'
  BY <1>5, FamilyInScopes DEF Finish, Cut, Ended
<1>6. CASE UNCHANGED <<tracked, task, home>>
  BY <1>6 DEF Family
<1>7. CASE UNCHANGED vars
  BY <1>6, <1>7, Zenon DEF vars
<1> QED
  BY <1>1, <1>2, <1>3, <1>4, <1>5, <1>6, <1>7 DEF Next, Admission, Child, Retire, Stop,
     StopAccepting, Cancel, CancelToken, CloseTracker, Closed, Abandon, vars

\* Whoever was told the scope is empty stays right: what becomes alive does so
\* under accepting flags, and what a Closed step finds tracked is all there is.
LEMMA EmptyStep ==
  ScopeInv /\ [Next]_vars => ClosedIsEmpty'
<1> SUFFICES ASSUME ScopeInv, [Next]_vars PROVE ClosedIsEmpty'
  OBVIOUS
<1>1. TypeOK /\ AdmissionCurrent /\ CallerStopped /\ AliveTracked /\ ClosedIsEmpty
  BY DEF ScopeInv
<1> USE DEF TypeOK, scopeVars, taskVars, callVars
<1>2. ASSUME NEW t \in Tasks, TrackOwn(t) PROVE ClosedIsEmpty'
  <2>1. \A s \in Family(home[t]) : accepting[s]
    BY <1>1, <1>2 DEF TrackOwn, AdmissionCurrent
  <2>2. ASSUME NEW c \in Callers, call[c] = "returned"
        PROVE  home[t] \notin Under(target[c])
    BY <1>1, <2>1, <2>2 DEF CallerStopped, Under
  <2>3. UNCHANGED <<home, call, target>>
    BY <1>2 DEF TrackOwn
  <2>4. \A r \in Tasks : r # t => task'[r] = task[r]
    BY <1>1, <1>2 DEF TrackOwn
  <2> QED
    BY <1>1, <2>2, <2>3, <2>4 DEF ClosedIsEmpty, Under, Family, Alive
<1>3. ASSUME NEW t \in Tasks, Admit(t) \/ Check(t) \/ TrackAbove(t) \/ Spawn(t)
      PROVE  ClosedIsEmpty'
  <2>1. UNCHANGED <<home, call, target>>
    BY <1>3 DEF Admit, Check, TrackAbove, Spawn
  <2>2. \A r \in Tasks : task'[r] \in Alive => task[r] \in Alive
    BY <1>1, <1>3 DEF Admit, Check, TrackAbove, Spawn, Alive
  <2> QED
    BY <1>1, <2>1, <2>2 DEF ClosedIsEmpty, Under, Family
<1>4. ASSUME NEW t \in Tasks, Finish(t) \/ Cut(t) PROVE ClosedIsEmpty'
  <2>1. UNCHANGED <<home, call, target>>
    BY <1>4 DEF Finish, Cut, Ended
  <2>2. \A r \in Tasks : task'[r] \in Alive => task[r] \in Alive
    BY <1>1, <1>4 DEF Finish, Cut, Ended, Alive
  <2> QED
    BY <1>1, <2>1, <2>2 DEF ClosedIsEmpty, Under, Family
<1>5. ASSUME NEW c \in Callers, Closed(c) PROVE ClosedIsEmpty'
  <2>1. UNCHANGED <<task, home, tracked, target>> /\ tracked[target[c]] = {}
    BY <1>5 DEF Closed, Drained
  <2>2. ~accepting[target[c]]
    BY <1>1, <1>5 DEF Closed, CallerStopped
  <2>3. ASSUME NEW t \in Tasks, home[t] \in Under(target[c]) PROVE task[t] \notin Alive
    <3>1. target[c] \in Family(home[t])
      BY <2>3 DEF Under
    <3>2. task[t] # "owned"
      BY <1>1, <2>2, <3>1 DEF AdmissionCurrent
    <3>3. task[t] \notin {"admitted", "running"}
      BY <1>1, <2>1, <3>1 DEF AliveTracked
    <3> QED
      BY <3>2, <3>3 DEF Alive
  <2>4. \A d \in Callers : call'[d] = "returned" => d = c \/ call[d] = "returned"
    BY <1>1, <1>5 DEF Closed
  <2> QED
    BY <1>1, <2>1, <2>3, <2>4 DEF ClosedIsEmpty, Under, Family
<1>6. ASSUME NEW c \in Callers, NEW s \in Scopes,
             StopAccepting(c, s) \/ Cancel(c) \/ Abandon(c)
      PROVE  ClosedIsEmpty'
  <2>1. UNCHANGED <<task, home>>
    BY <1>6 DEF StopAccepting, Cancel, CancelToken, CloseTracker, Abandon
  <2>2. \A d \in Callers : call'[d] = "returned" =>
           call[d] = "returned" /\ target'[d] = target[d]
    BY <1>1, <1>6 DEF StopAccepting, Cancel, CancelToken, CloseTracker, Abandon
  <2> QED
    BY <1>1, <2>1, <2>2 DEF ClosedIsEmpty, Under, Family
<1>7. CASE UNCHANGED <<task, home, call, target>>
  BY <1>1, <1>7 DEF ClosedIsEmpty, Under, Family
<1>8. CASE UNCHANGED vars
  BY <1>7, <1>8 DEF vars
<1>9. ASSUME NEW s \in Scopes, Child(s) \/ Retire(s) PROVE ClosedIsEmpty'
  BY <1>7, <1>9 DEF Child, Retire
<1>10. ASSUME NEW t \in Tasks, Stop(t) PROVE ClosedIsEmpty'
  BY <1>7, <1>10 DEF Stop
<1> QED
  BY <1>2, <1>3, <1>4, <1>5, <1>6, <1>8, <1>9, <1>10 DEF Next, Admission

\* No step of an admission, a task or a close() breaks the invariant.
THEOREM ScopeStep == ScopeInv /\ [Next]_vars => ScopeInv'
  BY TypeStep, AdmissionStep, StoppedStep, TrackedStep, EmptyStep DEF ScopeInv

\* The invariant holds in every state a tree of scopes reaches.
THEOREM ScopeInvariant == Spec => []ScopeInv
  BY ScopeInit, ScopeStep, PTL DEF Spec

-----------------------------------------------------------------------------
\* Every state of a scope is well formed: nobody holds the mutex outside an
\* admission, and a tracker counts only tasks that are alive.
THEOREM ScopeTypes == Spec => []TypeOK
<1>1. ScopeInv => TypeOK
  BY DEF ScopeInv
<1> QED
  BY <1>1, ScopeInvariant, PTL

\* A close() that returned left no unfinished task in the scope or below it,
\* and none can start there later (lifecycle.rs:112-117).
THEOREM CloseLeavesNothing == Spec => []ClosedIsEmpty
<1>1. ScopeInv => ClosedIsEmpty
  BY DEF ScopeInv
<1> QED
  BY <1>1, ScopeInvariant, PTL

\* A drained tracker stays drained: a closed scope does not accept, and only an
\* admission adds to a tracker (lifecycle.rs:114-115).
LEMMA DrainedStep ==
  ASSUME ScopeInv, [Next]_vars, NEW s \in Scopes, Drained(s)
  PROVE  Drained(s)'
<1>1. TypeOK /\ AdmissionCurrent /\ ClosedStopped /\ AliveTracked
  BY DEF ScopeInv
<1>2. ~accepting[s] /\ closed[s] /\ tracked[s] = {}
  BY <1>1 DEF ClosedStopped, Drained
<1> USE DEF TypeOK, scopeVars, taskVars, callVars, Drained
<1>3. ASSUME NEW t \in Tasks, TrackOwn(t) PROVE Drained(s)'
  <2>1. s # home[t]
    BY <1>1, <1>2, <1>3, FamilyInScopes DEF TrackOwn, AdmissionCurrent
  <2> QED
    BY <1>1, <1>2, <1>3, <2>1 DEF TrackOwn
<1>4. ASSUME NEW t \in Tasks, TrackAbove(t) PROVE Drained(s)'
  <2>1. s \notin Above[home[t]]
    BY <1>1, <1>2, <1>4 DEF TrackAbove, AdmissionCurrent, Family
  <2> QED
    BY <1>1, <1>2, <1>4, <2>1 DEF TrackAbove, TrackedAbove
<1>5. ASSUME NEW t \in Tasks, Finish(t) \/ Cut(t) PROVE Drained(s)'
  BY <1>1, <1>2, <1>5 DEF Finish, Cut, Ended
<1>6. ASSUME NEW c \in Callers, NEW next \in {"idle", "waiting"}, CloseTracker(c, next)
      PROVE  Drained(s)'
  BY <1>1, <1>2, <1>6 DEF CloseTracker
<1>7. CASE UNCHANGED <<closed, tracked>>
  BY <1>2, <1>7
<1>8. CASE UNCHANGED vars
  BY <1>7, <1>8 DEF vars
<1> QED
  BY <1>3, <1>4, <1>5, <1>6, <1>7, <1>8 DEF Next, Admission, Cancel, Child, Retire,
     Admit, Check, Spawn, Stop, StopAccepting, CancelToken, Closed, Abandon

\* No tracker that was drained under a closed scope counts a task again
\* (lifecycle.rs:112-117).
THEOREM DrainedStays == Spec => DrainedForGood
<1>1. ScopeInv /\ [Next]_vars => [\A s \in Scopes : Drained(s) => Drained(s)']_vars
  BY DrainedStep
<1> QED
  BY <1>1, ScopeInvariant, PTL DEF Spec, DrainedForGood

-----------------------------------------------------------------------------
(***************************************************************************)
(* A scope is an implementation of TaskOwnership.  Work starts for its     *)
(* owner at the first tracking, which is inside an admission.              *)
(***************************************************************************)
LiveNow == [s \in Scopes |-> {t \in Tasks : task[t] \in Alive /\ s \in Family(home[t])}]
WaitsNow ==
    [c \in Callers |-> IF call[c] \in Syncing \cup {"waiting"} THEN {target[c]} ELSE {}]
ToldNow == [c \in Callers |-> IF call[c] = "returned" THEN {target[c]} ELSE {}]

\* A new tree of scopes is one nobody started work in.
LEMMA OwnershipInit == Init => Ownership!OwnInit
  BY DEF Init, Ownership!OwnInit, Alive, Syncing

LEMMA OwnershipStep ==
  ScopeInv /\ [Next]_vars => [Ownership!OwnNext]_(Ownership!ownVars)
<1> SUFFICES ASSUME ScopeInv, [Next]_vars
             PROVE  [Ownership!OwnNext]_(Ownership!ownVars)
  OBVIOUS
<1>1. TypeOK /\ AdmissionCurrent /\ CallerStopped /\ AliveTracked /\ ClosedIsEmpty
  BY DEF ScopeInv
<1>2. ASSUME UNCHANGED accepting, LiveNow' = LiveNow, WaitsNow' = WaitsNow,
             ToldNow' = ToldNow
      PROVE  [Ownership!OwnNext]_(Ownership!ownVars)
  BY <1>2, Zenon DEF Ownership!ownVars, LiveNow, WaitsNow, ToldNow
<1> USE DEF TypeOK, scopeVars, taskVars, callVars
<1>3. ASSUME NEW t \in Tasks, NEW s \in Scopes, s = home[t], TrackOwn(t)
      PROVE  Ownership!Start(t, s)
  <2>1. \A a \in Family(home[t]) : accepting[a]
    BY <1>1, <1>3 DEF TrackOwn, AdmissionCurrent
  <2>2. LiveNow' = [a \in Scopes |->
                      IF a \in Family(home[t]) THEN LiveNow[a] \cup {t} ELSE LiveNow[a]]
    BY <1>1, <1>3 DEF TrackOwn, LiveNow, Alive, Family
  <2>3. \A d \in Scopes : t \notin LiveNow[d]
    BY <1>1, <1>3 DEF TrackOwn, LiveNow, Alive
  <2>4. UNCHANGED <<accepting, WaitsNow, ToldNow>>
    BY <1>3 DEF TrackOwn, WaitsNow, ToldNow
  <2> QED
    BY <1>3, <2>1, <2>2, <2>3, <2>4 DEF Ownership!Start, Ownership!OwnedBy, LiveNow, WaitsNow,
       ToldNow, Family
<1>4. ASSUME NEW t \in Tasks, Finish(t) \/ Cut(t)
      PROVE  Ownership!End(t)
  <2>1. LiveNow' = [s \in Scopes |-> LiveNow[s] \ {t}]
    BY <1>1, <1>4 DEF Finish, Cut, Ended, LiveNow, Alive, Family
  <2>2. \E s \in Scopes : t \in LiveNow[s]
    BY <1>1, <1>4, FamilyInScopes DEF Finish, Cut, LiveNow, Alive
  <2>3. UNCHANGED <<accepting, WaitsNow, ToldNow>>
    BY <1>4 DEF Finish, Cut, Ended, WaitsNow, ToldNow
  <2> QED
    BY <2>1, <2>2, <2>3 DEF Ownership!End, LiveNow, WaitsNow, ToldNow
<1>5. ASSUME NEW c \in Callers, NEW s \in Scopes, StopAccepting(c, s)
      PROVE  Ownership!Shut(c, s)
  <2>1. /\ accepting' = [accepting EXCEPT ![s] = FALSE]
        /\ LiveNow' = LiveNow
    BY <1>5 DEF StopAccepting, LiveNow, Family
  <2>2. WaitsNow' = [WaitsNow EXCEPT ![c] = {s}]
    BY <1>1, <1>5 DEF StopAccepting, WaitsNow, Syncing
  <2>3. ToldNow' = [ToldNow EXCEPT ![c] = {}]
    BY <1>1, <1>5 DEF StopAccepting, ToldNow
  <2> QED
    BY <2>1, <2>2, <2>3 DEF Ownership!Shut, LiveNow, WaitsNow, ToldNow
<1>6. ASSUME NEW c \in Callers, NEW s \in Scopes, s = target[c], Closed(c)
      PROVE  Ownership!Return(c, s)
  <2>1. ClosedIsEmpty'
    BY EmptyStep
  <2>2. /\ UNCHANGED <<accepting, LiveNow>>
        /\ call'[c] = "returned" /\ UNCHANGED <<target, task, home>>
    BY <1>1, <1>6 DEF Closed, LiveNow, Family
  <2>3. LiveNow[target[c]] = {}
    BY <1>1, <2>1, <2>2 DEF ClosedIsEmpty, LiveNow, Under, Family
  <2>4. WaitsNow[c] = {target[c]} /\ WaitsNow' = [WaitsNow EXCEPT ![c] = {}]
    BY <1>1, <1>6 DEF Closed, WaitsNow, Syncing
  <2>5. ToldNow' = [ToldNow EXCEPT ![c] = {target[c]}]
    BY <1>1, <1>6 DEF Closed, ToldNow
  <2> QED
    BY <1>6, <2>2, <2>3, <2>4, <2>5 DEF Ownership!Return, LiveNow, WaitsNow, ToldNow
<1>7. ASSUME NEW c \in Callers, call[c] \in {"waiting", "cancelled"}, call'[c] = "idle",
             call' = [call EXCEPT ![c] = "idle"],
             UNCHANGED <<accepting, task, home, target>>
      PROVE  Ownership!GiveUp(c)
  <2>1. LiveNow' = LiveNow
    BY <1>7 DEF LiveNow, Family
  <2>2. WaitsNow[c] # {} /\ WaitsNow' = [WaitsNow EXCEPT ![c] = {}]
    BY <1>1, <1>7 DEF WaitsNow, Syncing
  <2>3. ToldNow' = ToldNow
    BY <1>1, <1>7 DEF ToldNow
  <2> QED
    BY <1>7, <2>1, <2>2, <2>3 DEF Ownership!GiveUp, LiveNow, WaitsNow, ToldNow
<1>8. ASSUME NEW c \in Callers, Abandon(c) PROVE Ownership!GiveUp(c)
  BY <1>1, <1>7, <1>8 DEF Abandon
<1>9. ASSUME NEW c \in Callers, NEW next \in {"idle", "waiting"}, CloseTracker(c, next)
      PROVE  [Ownership!OwnNext]_(Ownership!ownVars)
  <2>1. CASE next = "idle"
    <3>1. Ownership!GiveUp(c)
      BY <1>1, <1>7, <1>9, <2>1 DEF CloseTracker
    <3> QED
      BY <3>1 DEF Ownership!OwnNext
  <2>2. CASE next = "waiting"
    <3>1. LiveNow' = LiveNow /\ UNCHANGED accepting
      BY <1>9 DEF CloseTracker, LiveNow, Family
    <3>2. WaitsNow' = WaitsNow /\ ToldNow' = ToldNow
      BY <1>1, <1>9, <2>2 DEF CloseTracker, WaitsNow, ToldNow, Syncing
    <3> QED
      BY <1>2, <3>1, <3>2
  <2> QED
    BY <1>9, <2>1, <2>2
<1>10. ASSUME NEW c \in Callers, CancelToken(c)
       PROVE  [Ownership!OwnNext]_(Ownership!ownVars)
  <2>1. LiveNow' = LiveNow /\ UNCHANGED accepting
    BY <1>10 DEF CancelToken, LiveNow, Family
  <2>2. WaitsNow' = WaitsNow /\ ToldNow' = ToldNow
    BY <1>1, <1>10 DEF CancelToken, WaitsNow, ToldNow, Syncing
  <2> QED
    BY <1>2, <2>1, <2>2
<1>11. ASSUME NEW t \in Tasks, Admit(t) \/ Check(t) \/ TrackAbove(t) \/ Spawn(t)
       PROVE  [Ownership!OwnNext]_(Ownership!ownVars)
  <2>1. UNCHANGED <<accepting, home>> /\ WaitsNow' = WaitsNow /\ ToldNow' = ToldNow
    BY <1>11 DEF Admit, Check, TrackAbove, Spawn, WaitsNow, ToldNow
  <2>2. \A r \in Tasks : task'[r] \in Alive <=> task[r] \in Alive
    BY <1>1, <1>11 DEF Admit, Check, TrackAbove, Spawn, Alive
  <2>3. LiveNow' = LiveNow
    BY <2>1, <2>2 DEF LiveNow, Family
  <2> QED
    BY <1>2, <2>1, <2>3
<1>12. ASSUME UNCHANGED <<accepting, task, home, call, target>>
       PROVE  [Ownership!OwnNext]_(Ownership!ownVars)
  <2>1. LiveNow' = LiveNow /\ WaitsNow' = WaitsNow /\ ToldNow' = ToldNow
    BY <1>12 DEF LiveNow, WaitsNow, ToldNow, Family
  <2> QED
    BY <1>2, <1>12, <2>1
<1>13. ASSUME NEW s \in Scopes, Child(s) \/ Retire(s)
       PROVE  UNCHANGED <<accepting, task, home, call, target>>
  BY <1>13 DEF Child, Retire
<1>14. ASSUME NEW t \in Tasks, Stop(t)
       PROVE  UNCHANGED <<accepting, task, home, call, target>>
  BY <1>14 DEF Stop
<1>15. CASE UNCHANGED vars
  BY <1>12, <1>15, Zenon DEF vars
<1>16. CASE Next
  <2>1. ASSUME NEW s \in Scopes, Child(s) \/ Retire(s)
        PROVE  [Ownership!OwnNext]_(Ownership!ownVars)
    BY <1>12, <1>13, <2>1
  <2>2. ASSUME NEW t \in Tasks, Admission(t) \/ Finish(t) \/ Cut(t) \/ Stop(t)
        PROVE  [Ownership!OwnNext]_(Ownership!ownVars)
    <3>1. ASSUME TrackOwn(t) PROVE Ownership!OwnNext
      <4>1. PICK s \in Scopes : s = home[t]
        BY <1>1
      <4>2. Ownership!Start(t, s)
        BY <1>3, <3>1, <4>1
      <4> QED
        BY <4>2, Zenon DEF Ownership!OwnNext
    <3>2. ASSUME Finish(t) \/ Cut(t) PROVE Ownership!OwnNext
      <4>1. Ownership!End(t)
        BY <1>4, <3>2
      <4> QED
        BY <4>1, Zenon DEF Ownership!OwnNext
    <3>3. ASSUME Stop(t) PROVE [Ownership!OwnNext]_(Ownership!ownVars)
      BY <1>12, <1>14, <3>3
    <3> QED
      BY <1>11, <2>2, <3>1, <3>2, <3>3 DEF Admission
  <2>3. ASSUME NEW c \in Callers, Cancel(c) \/ Closed(c) \/ Abandon(c)
        PROVE  [Ownership!OwnNext]_(Ownership!ownVars)
    <3>1. ASSUME Closed(c) PROVE Ownership!OwnNext
      <4>1. PICK s \in Scopes : s = target[c]
        BY <1>1
      <4>2. Ownership!Return(c, s)
        BY <1>6, <3>1, <4>1
      <4> QED
        BY <4>2, Zenon DEF Ownership!OwnNext
    <3>2. ASSUME Abandon(c) PROVE Ownership!OwnNext
      BY <1>8, <3>2 DEF Ownership!OwnNext
    <3> QED
      BY <1>9, <1>10, <2>3, <3>1, <3>2 DEF Cancel
  <2>4. ASSUME NEW c \in Callers, NEW s \in Scopes, StopAccepting(c, s)
        PROVE  [Ownership!OwnNext]_(Ownership!ownVars)
    <3>1. Ownership!Shut(c, s)
      BY <1>5, <2>4
    <3> QED
      BY <3>1 DEF Ownership!OwnNext
  <2> QED
    BY <1>16, <2>1, <2>2, <2>3, <2>4 DEF Next
<1> QED
  BY <1>15, <1>16

\* A scope keeps its promise: it starts work only under open scopes and no
\* close() returns over unfinished work (lifecycle.rs:60-117).
THEOREM ScopeKeepsOwnership == Spec => KeepsOwnership
  BY ScopeInvariant, OwnershipInit, OwnershipStep, PTL
     DEF Spec, KeepsOwnership, Ownership!OwnSpec
==============================================================================
