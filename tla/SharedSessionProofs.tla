-------------------------- MODULE SharedSessionProofs --------------------------
(***************************************************************************)
(* For any number of windows, services, sessions and logins: the sessions  *)
(* serving a device are one, a viewer that connected has the receiver, an  *)
(* end is never forgotten, and an end that is announced leaves no worker.  *)
(*                                                                         *)
(* The argument follows the gate.  Whoever connects holds it until it is   *)
(* registered (GateHeld), so nobody brings back the session it found of no *)
(* use (PoolUseless), and what serves is the registered session or the one *)
(* about to be (ServedIsKnown).  The viewing flag stands for one lease     *)
(* (OneViewer), and the receiver is with it or at home (ReceiverHome).     *)
(***************************************************************************)
EXTENDS SharedSession, TLAPS

USE BoundsAssumption, PartiesAssumption

\* A connector with a lease on a session, registered or not.
Leases(c) == pc[c] \in Holding \cup {"unregistered"}

PeerTypes ==
    /\ open \in [Sessions -> BOOLEAN]
    /\ live \in [Sessions -> SUBSET Tasks]
    /\ \A c \in Connectors : Leases(c) => session[c] \in 1..born

GateHeld ==
    \A c \in Connectors :
        pc[c] \in {"lookup", "connecting", "unregistered", "leased", "starting"}
          => gate = c

PoolUseless ==
    \A c \in Connectors : pc[c] \in {"connecting", "unregistered"} => ~Gettable(pool)

ServedIsKnown ==
    \A s \in Sessions :
        Serving(s) => \/ s = pool
                      \/ \E c \in Connectors : pc[c] = "unregistered" /\ session[c] = s

OneViewer ==
    \A c \in Viewers :
        Leases(c) =>
          /\ viewing[session[c]]
          /\ \A d \in Viewers : Leases(d) /\ session[d] = session[c] => c = d

ReceiverHome ==
    \A s \in Sessions :
        receiver[s] # Nobody =>
          /\ receiver[s] \in Viewers
          /\ Leases(receiver[s])
          /\ session[receiver[s]] = s
          /\ pc[receiver[s]] \notin {"leased", "returned"}

EndedShut == \A s \in Sessions : signal[s] \in {"closing", "done"} => ~open[s]

DrainedIdle ==
    quit \in {"draining", "over"} =>
      /\ \A c \in Connectors : pc[c] = "idle"
      /\ jobs = 1..born
      /\ quit = "over" => \A s \in jobs : signal[s] = "done"

SharedInv ==
    /\ SharedTypeOK /\ PeerTypes
    /\ GateHeld /\ PoolUseless /\ ServedIsKnown
    /\ OneViewer /\ ReceiverHome /\ ViewerHasReceiver
    /\ EndedShut /\ EndedIsClosed /\ EndIsUnderWay /\ DrainedIdle

-----------------------------------------------------------------------------
\* A process that started has no session, and nobody connects.
LEMMA SharedStart == SharedInit => SharedInv
<1> SUFFICES ASSUME SharedInit PROVE SharedInv
  OBVIOUS
<1>1. SharedTypeOK
  BY DEF SharedInit, SharedTypeOK, Sessions, Connectors, Holding
<1>2. PeerTypes
  BY DEF SharedInit, PeerTypes, Peers!OwnInit, Leases, Holding
<1>3. GateHeld /\ PoolUseless /\ ServedIsKnown
  BY DEF SharedInit, GateHeld, PoolUseless, ServedIsKnown, Serving
<1>4. OneViewer /\ ReceiverHome /\ ViewerHasReceiver
  BY DEF SharedInit, OneViewer, ReceiverHome, ViewerHasReceiver, Leases, Holding, Connectors
<1>5. EndedShut /\ EndedIsClosed /\ EndIsUnderWay /\ DrainedIdle
  BY DEF SharedInit, EndedShut, EndedIsClosed, EndIsUnderWay, DrainedIdle
<1> QED
  BY <1>1, <1>2, <1>3, <1>4, <1>5 DEF SharedInv

\* The gate is given up by its holder only, past the states that need it
\* (shared.rs:45-64, connection.rs:80-145).
LEMMA GateStep == SharedTypeOK /\ GateHeld /\ [SharedNext]_sharedVars => GateHeld'
<1> SUFFICES ASSUME SharedTypeOK, GateHeld, [SharedNext]_sharedVars PROVE GateHeld'
  OBVIOUS
<1> USE DEF GateHeld
<1>0. pc \in [Connectors -> {"idle", "gate", "lookup", "connecting", "unregistered"} \cup Holding]
  BY DEF SharedTypeOK
<1>1. ASSUME NEW c \in Connectors, Connecting(c) PROVE GateHeld'
  BY <1>0, <1>1 DEF Connecting, Ask, TakeGate, GateCancelled, Share, ShareRefused,
     TakeReceiver, Started, StartFails, Establish, EstablishFails, Established, Register,
     Moves, Connectors
<1>2. ASSUME NEW c \in Connectors, Leaving(c) PROVE GateHeld'
  BY <1>0, <1>2 DEF Leaving, Leave, CloseLast, CloseShared, SeesEnd, Unwind,
     ReturnReceiver, DropLease, Moves
<1>3. CASE UNCHANGED <<pc, gate>>
  BY <1>3
<1> QED
  BY <1>1, <1>2, <1>3 DEF SharedNext, Look, LookAway, SignalTask, SignalStep, Fails,
     Obeys, ClosesPeer, PeerClosed, WorkerStarts, WorkerEnds, Relogin, Quit, Drain,
     Drained, sharedVars, connectorVars

\* A session ends by closing its peer, which starts no worker from then on.
LEMMA EndedStep ==
    SharedTypeOK /\ PeerTypes /\ EndedShut /\ EndedIsClosed /\ [SharedNext]_sharedVars
      => EndedShut' /\ EndedIsClosed'
<1> SUFFICES ASSUME SharedTypeOK, PeerTypes, EndedShut, EndedIsClosed,
                    [SharedNext]_sharedVars
             PROVE  EndedShut' /\ EndedIsClosed'
  OBVIOUS
<1> USE DEF EndedShut, EndedIsClosed
<1>0. /\ signal \in [Sessions -> {"none", "up", "ending", "closing", "done"}]
      /\ open \in [Sessions -> BOOLEAN]
      /\ live \in [Sessions -> SUBSET Tasks]
  BY DEF SharedTypeOK, PeerTypes
<1>1. CASE UNCHANGED <<signal, open, live>>
  BY <1>1
<1>2. ASSUME NEW c \in Connectors, Established(c) PROVE EndedShut' /\ EndedIsClosed'
  BY <1>0, <1>2 DEF Established, Moves, peerVars
<1>3. ASSUME NEW s \in Sessions, Fails(s) \/ Obeys(s) PROVE EndedShut' /\ EndedIsClosed'
  BY <1>0, <1>3 DEF Fails, Obeys, SignalStep, peerVars
<1>4. ASSUME NEW s \in Sessions, ClosesPeer(s) PROVE EndedShut' /\ EndedIsClosed'
  BY <1>0, <1>4 DEF ClosesPeer, SignalStep, Peers!Shut
<1>5. ASSUME NEW s \in Sessions, PeerClosed(s) PROVE EndedShut' /\ EndedIsClosed'
  BY <1>0, <1>5 DEF PeerClosed, SignalStep, Peers!Return
<1>6. ASSUME NEW t \in Tasks, NEW s \in Sessions, WorkerStarts(t, s)
      PROVE  EndedShut' /\ EndedIsClosed'
  BY <1>0, <1>6 DEF WorkerStarts, Peers!Start, Peers!OwnedBy, sessionVars
<1>7. ASSUME NEW t \in Tasks, WorkerEnds(t) PROVE EndedShut' /\ EndedIsClosed'
  BY <1>0, <1>7 DEF WorkerEnds, Peers!End, sessionVars
<1>8. ASSUME NEW c \in Connectors, Connecting(c) \/ Leaving(c), ~Established(c)
      PROVE  UNCHANGED <<signal, open, live>>
  BY <1>8 DEF Connecting, Ask, TakeGate, GateCancelled, Share, ShareRefused,
     TakeReceiver, Started, StartFails, Establish, EstablishFails, Register, Leaving,
     Leave, CloseLast, CloseShared, SeesEnd, Unwind, ReturnReceiver, DropLease, Moves,
     sessionVars, peerVars
<1>9. CASE \/ Look \/ \E s \in Sessions : LookAway(s)
           \/ Relogin \/ Quit \/ Drain \/ Drained \/ UNCHANGED sharedVars
  BY <1>1, <1>9 DEF Look, LookAway, Relogin, Quit, Drain, Drained, sessionVars, peerVars,
     sharedVars
<1> QED
  BY <1>1, <1>2, <1>3, <1>4, <1>5, <1>6, <1>7, <1>8, <1>9 DEF SharedNext, SignalTask

\* The invariant that types the state of the peers and the leases.
LEMMA TypeStep ==
    SharedTypeOK /\ PeerTypes /\ DrainedIdle /\ [SharedNext]_sharedVars
      => SharedTypeOK' /\ PeerTypes'
<1> SUFFICES ASSUME SharedTypeOK, PeerTypes, DrainedIdle, [SharedNext]_sharedVars
             PROVE  SharedTypeOK' /\ PeerTypes'
  OBVIOUS
<1> USE DEF SharedTypeOK, PeerTypes, Leases, Sessions, Holding
<1>1. ASSUME NEW c \in Connectors, Connecting(c) PROVE SharedTypeOK' /\ PeerTypes'
  <2> USE DEF Moves, connectorVars, appVars, peerVars, sessionVars, leaseVars
  <2>1. CASE Ask(c)
    BY <2>1 DEF Ask
  <2>2. CASE GateCancelled(c)
    BY <2>2 DEF GateCancelled
  <2>9. CASE ShareRefused(c)
    BY <2>9 DEF ShareRefused
  <2>10. CASE EstablishFails(c)
    BY <2>10 DEF EstablishFails
  <2>7. CASE TakeGate(c) \/ Started(c)
    BY <2>7 DEF TakeGate, Started
  <2>8. CASE StartFails(c) \/ Establish(c)
    BY <2>8 DEF StartFails, Establish
  <2>3. CASE Share(c)
    BY <2>3 DEF Share, Gettable
  <2>4. CASE TakeReceiver(c)
    BY <2>4 DEF TakeReceiver
  <2>5. CASE Established(c)
    <3>1. /\ born + 1 \in Sessions /\ born' = born + 1
          /\ \A n \in 0..born : n \in 0..born'
      BY <2>5 DEF Established
    <3>2. session' \in [Connectors -> 0..born'] /\ pool' \in 0..born' /\ jobs' \subseteq 1..born'
      BY <2>5, <3>1 DEF Established
    <3>3. /\ signal' \in [Sessions -> {"none", "up", "ending", "closing", "done"}]
          /\ viewing' \in [Sessions -> BOOLEAN]
      BY <2>5, <3>1 DEF Established
    <3>4. /\ receiver' \in [Sessions -> Connectors \cup {Nobody}]
          /\ holders' \in [Sessions -> SUBSET (Connectors \cup {Glance})]
      BY <2>5, <3>1 DEF Established
    <3>5. ASSUME NEW d \in Connectors, Leases(d)'
          PROVE  d \in holders'[session'[d]] /\ session'[d] \in 1..born'
      BY <2>5, <3>1, <3>5 DEF Established
    <3> QED
      BY <2>5, <3>1, <3>2, <3>3, <3>4, <3>5 DEF Established
  <2>6. CASE Register(c)
    BY <2>6 DEF Register
  <2> QED
    BY <1>1, <2>1, <2>2, <2>3, <2>4, <2>5, <2>6, <2>7, <2>8, <2>9,
       <2>10 DEF Connecting
<1>2. ASSUME NEW c \in Connectors, Leaving(c) PROVE SharedTypeOK' /\ PeerTypes'
  <2> USE DEF Moves, connectorVars, appVars, peerVars, sessionVars, leaseVars
  <2>1. CASE Leave(c) \/ CloseShared(c) \/ SeesEnd(c) \/ Unwind(c)
    BY <2>1 DEF Leave, CloseShared, SeesEnd, Unwind
  <2>2. CASE CloseLast(c)
    BY <2>2 DEF CloseLast
  <2>3. CASE ReturnReceiver(c)
    BY <2>3 DEF ReturnReceiver
  <2>4. CASE DropLease(c)
    BY <2>4 DEF DropLease, Release
  <2> QED
    BY <1>2, <2>1, <2>2, <2>3, <2>4 DEF Leaving
<1>3. CASE Look
  BY <1>3 DEF Look, Gettable, connectorVars, appVars, peerVars, sessionVars
<1>8. ASSUME NEW s \in Sessions, LookAway(s) PROVE SharedTypeOK' /\ PeerTypes'
  <2>1. Glance \notin Connectors
    BY DEF Connectors
  <2>2. asked' \in [Sessions -> BOOLEAN]
    BY <1>8 DEF LookAway, Release
  <2>3. holders' \in [Sessions -> SUBSET (Connectors \cup {Glance})]
    BY <1>8 DEF LookAway, Release
  <2>4. \A d \in Connectors : \A r \in Sessions : d \in holders[r] => d \in holders'[r]
    BY <1>8, <2>1 DEF LookAway, Release
  <2> QED
    BY <1>8, <2>2, <2>3, <2>4 DEF LookAway, connectorVars, appVars, peerVars
<1>4. ASSUME NEW s \in Sessions, SignalTask(s) PROVE SharedTypeOK' /\ PeerTypes'
  BY <1>4 DEF SignalTask, SignalStep, Fails, Obeys, ClosesPeer, PeerClosed, Peers!Shut,
     Peers!Return, connectorVars, appVars, peerVars, leaseVars
<1>5. ASSUME NEW t \in Tasks, WorkerEnds(t) PROVE SharedTypeOK' /\ PeerTypes'
  BY <1>5 DEF WorkerEnds, Peers!End, connectorVars, appVars, leaseVars, sessionVars
<1>9. ASSUME NEW t \in Tasks, NEW s \in Sessions, WorkerStarts(t, s)
      PROVE  SharedTypeOK' /\ PeerTypes'
  BY <1>9 DEF WorkerStarts, Peers!Start, connectorVars, appVars, leaseVars, sessionVars
<1>6. CASE Relogin
  BY <1>6 DEF Relogin, connectorVars, peerVars, leaseVars, sessionVars
<1>11. CASE Quit
  BY <1>11 DEF Quit, connectorVars, peerVars, leaseVars, sessionVars
<1>12. CASE Drained
  BY <1>12 DEF Drained, connectorVars, peerVars, leaseVars, sessionVars
<1>10. CASE Drain
  <2>1. asked' \in [Sessions -> BOOLEAN]
    BY <1>10 DEF Drain
  <2> QED
    BY <1>10, <2>1 DEF Drain, connectorVars, peerVars, leaseVars
<1>7. CASE UNCHANGED sharedVars
  BY <1>7 DEF sharedVars
<1> QED
  BY <1>1, <1>2, <1>3, <1>4, <1>5, <1>6, <1>7, <1>8, <1>9,
     <1>10, <1>11, <1>12 DEF SharedNext

\* A session of no use stays so, whatever its peer, its holders and the account
\* do, unless it is only now registered (shared.rs:31-40).
LEMMA GoneStays ==
    ASSUME SharedTypeOK, PeerTypes, DrainedIdle, [SharedNext]_sharedVars,
           NEW r \in 0..born, ~Gettable(r), \A c \in Connectors : ~Register(c)
    PROVE  ~Gettable(r)'
<1>0. /\ owner \in [Sessions -> 0..MaxLogins]
      /\ signal \in [Sessions -> {"none", "up", "ending", "closing", "done"}]
      /\ holders \in [Sessions -> SUBSET (Connectors \cup {Glance})]
      /\ login \in Nat /\ born \in Nat /\ born <= MaxSessions
      /\ r \in Nat /\ r <= born /\ r # born + 1
      /\ r # 0 => r \in Sessions
  BY DEF SharedTypeOK, Sessions
<1>1. owner' = owner /\ login <= login' /\ login' \in Nat
  <2>1. ASSUME NEW c \in Connectors, Connecting(c), ~Register(c)
        PROVE  owner' = owner /\ login' = login
    BY <2>1 DEF Connecting, Ask, TakeGate, GateCancelled, Share, ShareRefused,
       TakeReceiver, Started, StartFails, Establish, EstablishFails, Established, Moves,
       sessionVars, appVars
  <2>2. ASSUME NEW c \in Connectors, Leaving(c) PROVE owner' = owner /\ login' = login
    BY <2>2 DEF Leaving, Leave, CloseLast, CloseShared, SeesEnd, Unwind, ReturnReceiver,
       DropLease, Moves, sessionVars, appVars
  <2> QED
    BY <1>0, <2>1, <2>2 DEF SharedNext, Look, LookAway, SignalTask, SignalStep, Fails,
       Obeys, ClosesPeer, PeerClosed, WorkerStarts, WorkerEnds, Relogin, Quit, Drain,
       Drained, sharedVars, appVars, sessionVars
<1>2. CASE r # 0 /\ Retired(r)
  BY <1>0, <1>1, <1>2 DEF Gettable, Retired
<1>3. ASSUME r # 0, signal[r] = "done" PROVE signal'[r] = "done"
  <2>1. ASSUME NEW c \in Connectors, Connecting(c) PROVE signal'[r] = "done"
    BY <1>0, <1>3, <2>1 DEF Connecting, Ask, TakeGate, GateCancelled, Share, ShareRefused,
       TakeReceiver, Started, StartFails, Establish, EstablishFails, Established,
       Register, sessionVars
  <2>2. ASSUME NEW c \in Connectors, Leaving(c) PROVE signal'[r] = "done"
    BY <1>3, <2>2 DEF Leaving, Leave, CloseLast, CloseShared, SeesEnd, Unwind,
       ReturnReceiver, DropLease, sessionVars
  <2>3. ASSUME NEW s \in Sessions, SignalTask(s) PROVE signal'[r] = "done"
    BY <1>0, <1>3, <2>3 DEF SignalTask, SignalStep, Fails, Obeys, ClosesPeer, PeerClosed
  <2> QED
    BY <1>3, <2>1, <2>2, <2>3 DEF SharedNext, Look, LookAway, WorkerStarts, WorkerEnds,
       Relogin, Quit, Drain, Drained, sharedVars, sessionVars
<1>4. ASSUME r # 0, ~Gettable(r), holders[r] = {} PROVE holders'[r] = {}
  <2>1. ASSUME NEW c \in Connectors, Connecting(c) PROVE holders'[r] = {}
    BY <1>0, <1>4, <2>1 DEF Connecting, Ask, TakeGate, GateCancelled, Share, ShareRefused,
       TakeReceiver, Started, StartFails, Establish, EstablishFails, Established,
       Register, leaseVars
  <2>2. ASSUME NEW c \in Connectors, Leaving(c) PROVE holders'[r] = {}
    BY <1>0, <1>4, <2>2 DEF Leaving, Leave, CloseLast, CloseShared, SeesEnd, Unwind,
       ReturnReceiver, DropLease, Release, leaseVars
  <2>3. CASE Look \/ \E s \in Sessions : LookAway(s)
    BY <1>0, <1>4, <2>3 DEF Look, LookAway, Release
  <2> QED
    BY <1>4, <2>1, <2>2, <2>3 DEF SharedNext, SignalTask, SignalStep, Fails, Obeys,
       ClosesPeer, PeerClosed, WorkerStarts, WorkerEnds, Relogin, Quit, Drain, Drained,
       sharedVars, leaseVars
<1> QED
  BY <1>2, <1>3, <1>4 DEF Gettable

\* Only its holder moves under the gate, so what it found of no use is of none
\* when it registers the session that takes its place (connection.rs:80-145).
LEMMA UselessStep ==
    SharedInv /\ [SharedNext]_sharedVars => PoolUseless'
<1> SUFFICES ASSUME SharedInv, [SharedNext]_sharedVars,
                    NEW d \in Connectors, pc'[d] \in {"connecting", "unregistered"}
             PROVE  ~Gettable(pool)'
  BY DEF PoolUseless
<1>0. /\ pc \in [Connectors ->
                   {"idle", "gate", "lookup", "connecting", "unregistered"} \cup Holding]
      /\ pool \in 0..born
      /\ SharedTypeOK /\ PeerTypes /\ GateHeld /\ PoolUseless /\ DrainedIdle
  BY DEF SharedInv, SharedTypeOK
<1>1. ASSUME NEW c \in Connectors, Register(c) PROVE FALSE
  <2>1. d # c /\ pc[d] = pc'[d] /\ pc[c] = "unregistered"
    BY <1>0, <1>1 DEF Register, Moves
  <2> QED
    BY <1>0, <2>1 DEF GateHeld
<1>2. pool' = pool
  <2>1. ASSUME NEW c \in Connectors, Connecting(c) PROVE pool' = pool
    BY <1>1, <2>1 DEF Connecting, Ask, TakeGate, GateCancelled, Share, ShareRefused,
       TakeReceiver, Started, StartFails, Establish, EstablishFails, Established
  <2>2. ASSUME NEW c \in Connectors, Leaving(c) PROVE pool' = pool
    BY <2>2 DEF Leaving, Leave, CloseLast, CloseShared, SeesEnd, Unwind, ReturnReceiver,
       DropLease
  <2> QED
    BY <2>1, <2>2 DEF SharedNext, Look, LookAway, SignalTask, SignalStep, Fails, Obeys,
       ClosesPeer, PeerClosed, WorkerStarts, WorkerEnds, Relogin, Quit, Drain, Drained,
       sharedVars
<1>3. ~Gettable(pool)
  <2>1. CASE pc[d] \in {"connecting", "unregistered"}
    BY <1>0, <2>1 DEF PoolUseless
  <2>2. ASSUME pc[d] \notin {"connecting", "unregistered"}, NEW c \in Connectors,
               Connecting(c)
        PROVE  ~Gettable(pool)
    BY <1>0, <2>2 DEF Connecting, Ask, TakeGate, GateCancelled, Share, ShareRefused,
       TakeReceiver, Started, StartFails, Establish, EstablishFails, Established,
       Register, Moves
  <2>3. ASSUME pc[d] \notin {"connecting", "unregistered"}, NEW c \in Connectors,
               Leaving(c)
        PROVE  FALSE
    BY <1>0, <2>3 DEF Leaving, Leave, CloseLast, CloseShared, SeesEnd, Unwind,
       ReturnReceiver, DropLease, Moves
  <2> QED
    BY <2>1, <2>2, <2>3 DEF SharedNext, Look, LookAway, SignalTask, SignalStep, Fails,
       Obeys, ClosesPeer, PeerClosed, WorkerStarts, WorkerEnds, Relogin, Quit, Drain,
       Drained, sharedVars, connectorVars
<1>4. ~Gettable(pool)'
  <2>1. \A r \in 0..born : r = pool => ~Gettable(r)'
    BY <1>0, <1>1, <1>3, GoneStays
  <2> QED
    BY <1>0, <1>2, <2>1 DEF Gettable, Retired
<1> QED
  BY <1>4

\* A session comes to serve by being established or shared, under the gate.
LEMMA ServedStep == SharedInv /\ [SharedNext]_sharedVars => ServedIsKnown'
<1> SUFFICES ASSUME SharedInv, [SharedNext]_sharedVars, NEW r \in Sessions, Serving(r)'
             PROVE  \/ r = pool'
                    \/ \E c \in Connectors : pc'[c] = "unregistered" /\ session'[c] = r
  BY DEF ServedIsKnown
<1> DEFINE Unregistered(c) == pc[c] = "unregistered" /\ session[c] = r
<1>0. /\ SharedTypeOK /\ PeerTypes /\ GateHeld /\ PoolUseless /\ ServedIsKnown
      /\ pc \in [Connectors ->
                   {"idle", "gate", "lookup", "connecting", "unregistered"} \cup Holding]
      /\ session \in [Connectors -> 0..born]
      /\ asked \in [Sessions -> BOOLEAN]
      /\ holders \in [Sessions -> SUBSET (Connectors \cup {Glance})]
      /\ owner \in [Sessions -> 0..MaxLogins]
      /\ signal \in [Sessions -> {"none", "up", "ending", "closing", "done"}]
      /\ login \in Nat /\ born \in Nat /\ r \in Nat
      /\ Glance \notin Connectors
  BY DEF SharedInv, SharedTypeOK, Sessions, Connectors
<1>a. Serving(r) => r = pool \/ \E c \in Connectors : Unregistered(c)
  BY <1>0 DEF ServedIsKnown
<1>1. ASSUME NEW c \in Connectors, Established(c)
      PROVE  r = pool' \/ \E d \in Connectors : (pc'[d] = "unregistered" /\ session'[d] = r)
  <2>1. CASE r = born + 1
    BY <1>0, <1>1, <2>1 DEF Established, Moves
  <2>2. CASE r # born + 1
    <3>1. Serving(r)
      BY <1>0, <1>1, <2>2 DEF Established, Moves, Serving, Retired, appVars
    <3>2. \A d \in Connectors : pc[d] = "unregistered" => d # c
      BY <1>1 DEF Established, Moves
    <3>3. \A d \in Connectors : Unregistered(d) => pc'[d] = "unregistered" /\ session'[d] = r
      BY <1>0, <1>1, <3>2 DEF Established, Moves
    <3> QED
      BY <1>1, <1>a, <3>1, <3>3 DEF Established
  <2> QED
    BY <2>1, <2>2
<1>2. ASSUME NEW c \in Connectors, Register(c)
      PROVE  r = pool'
  <2>1. CASE r = session[c]
    BY <1>2, <2>1 DEF Register
  <2>2. CASE r # session[c]
    <3>1. Serving(r)
      BY <1>0, <1>2, <2>2 DEF Register, Moves, Serving, Retired, appVars, leaseVars
    <3>2. ~Unregistered(c) /\ \A d \in Connectors : ~Unregistered(d)
      BY <1>0, <1>2, <2>2 DEF Register, Moves, GateHeld
    <3>3. ~Gettable(pool)
      BY <1>0, <1>2 DEF Register, Moves, PoolUseless
    <3>4. Serving(r) /\ r # 0 => Gettable(r)
      BY DEF Serving, Gettable
    <3> QED
      BY <1>a, <3>1, <3>2, <3>3, <3>4 DEF Sessions
  <2> QED
    BY <2>1, <2>2
<1>3. ASSUME NEW c \in Connectors, Share(c)
      PROVE  r = pool' \/ \E d \in Connectors : (pc'[d] = "unregistered" /\ session'[d] = r)
  <2>1. r # pool => Serving(r)
    BY <1>0, <1>3 DEF Share, Moves, Serving, Retired, appVars, sessionVars
  <2>2. \A d \in Connectors : Unregistered(d) => pc'[d] = "unregistered" /\ session'[d] = r
    BY <1>0, <1>3 DEF Share, Moves
  <2> QED
    BY <1>3, <1>a, <2>1, <2>2 DEF Share
<1>4. ASSUME NEW c \in Connectors, Connecting(c),
             ~Established(c), ~Register(c), ~Share(c)
      PROVE  /\ Serving(r) /\ pool' = pool
             /\ \A d \in Connectors : Unregistered(d) => pc'[d] = "unregistered" /\ session'[d] = r
  <2>1. Serving(r) /\ pool' = pool
    BY <1>0, <1>4 DEF Connecting, Ask, TakeGate, GateCancelled, ShareRefused,
       TakeReceiver, Started, StartFails, Establish, EstablishFails, Moves, Serving,
       Retired, appVars, sessionVars, leaseVars
  <2>2. \A d \in Connectors : Unregistered(d) => pc'[d] = "unregistered" /\ session'[d] = r
    BY <1>0, <1>4 DEF Connecting, Ask, TakeGate, GateCancelled, ShareRefused,
       TakeReceiver, Started, StartFails, Establish, EstablishFails, Moves
  <2> QED
    BY <2>1, <2>2
<1>5. ASSUME NEW c \in Connectors, Leaving(c)
      PROVE  /\ Serving(r) /\ pool' = pool
             /\ \A d \in Connectors : Unregistered(d) => pc'[d] = "unregistered" /\ session'[d] = r
  <2>1. CASE DropLease(c)
    BY <1>0, <2>1 DEF DropLease, Release, Moves, Serving, Retired, appVars
  <2>2. CASE CloseLast(c)
    BY <1>0, <2>2 DEF CloseLast, Moves, Serving, Retired, appVars, leaseVars
  <2>3. CASE Leave(c) \/ CloseShared(c) \/ SeesEnd(c) \/ Unwind(c) \/ ReturnReceiver(c)
    BY <1>0, <2>3 DEF Leave, CloseShared, SeesEnd, Unwind, ReturnReceiver, Moves, Serving,
       Retired, appVars, sessionVars, leaseVars
  <2> QED
    BY <1>5, <2>1, <2>2, <2>3 DEF Leaving
<1>6. CASE UNCHANGED <<pc, session, pool>> /\ Serving(r)
  BY <1>6, <1>a
<1>7. CASE Look \/ \E s \in Sessions : LookAway(s)
  <2>1. Serving(r)
    BY <1>0, <1>7 DEF Look, LookAway, Release, Serving, Retired, appVars, sessionVars
  <2> QED
    BY <1>6, <1>7, <2>1 DEF Look, LookAway, connectorVars
<1>8. ASSUME NEW s \in Sessions, SignalTask(s)
      PROVE  UNCHANGED <<pc, session, pool>> /\ Serving(r)
  BY <1>0, <1>8 DEF SignalTask, SignalStep, Fails, Obeys, ClosesPeer, PeerClosed, Serving,
     Retired, appVars, connectorVars, leaseVars
<1>9. ASSUME Relogin \/ Quit \/ Drained PROVE UNCHANGED <<pc, session, pool>> /\ Serving(r)
  BY <1>0, <1>9 DEF Relogin, Quit, Drained, Serving, Retired, sessionVars, connectorVars,
     leaseVars
<1>10. ASSUME Drain PROVE UNCHANGED <<pc, session, pool>> /\ Serving(r)
  BY <1>0, <1>10 DEF Drain, Serving, Retired, connectorVars, leaseVars
<1>11. ASSUME \/ \E t \in Tasks : WorkerEnds(t) \/ \E s \in Sessions : WorkerStarts(t, s)
              \/ UNCHANGED sharedVars
       PROVE  UNCHANGED <<pc, session, pool>> /\ Serving(r)
  BY <1>11 DEF WorkerEnds, WorkerStarts, sharedVars, Serving, Retired, appVars,
     sessionVars, connectorVars, leaseVars
<1> QED
  BY <1>a, <1>1, <1>2, <1>3, <1>4, <1>5, <1>6, <1>7, <1>8, <1>9, <1>10, <1>11
  DEF SharedNext

\* The viewing flag is exchanged under its lock and cleared with the lease, so
\* it stands for one viewer (shared.rs:120-137, 193-200).
LEMMA ViewerStep == SharedInv /\ [SharedNext]_sharedVars => OneViewer'
<1> SUFFICES ASSUME SharedInv, [SharedNext]_sharedVars PROVE OneViewer'
  OBVIOUS
<1>0. /\ OneViewer
      /\ pc \in [Connectors ->
                   {"idle", "gate", "lookup", "connecting", "unregistered"} \cup Holding]
      /\ session \in [Connectors -> 0..born]
      /\ viewing \in [Sessions -> BOOLEAN]
      /\ Viewers \subseteq Connectors
      /\ \A c \in Connectors : Leases(c) => session[c] \in Sessions /\ session[c] <= born
      /\ pool \in 0..born /\ born \in Nat /\ born <= MaxSessions
  BY DEF SharedInv, SharedTypeOK, PeerTypes, Sessions, Connectors
<1> USE DEF Leases, Holding
<1>1. CASE UNCHANGED <<pc, session, viewing>>
  BY <1>0, <1>1 DEF OneViewer
<1>2. ASSUME NEW c \in Connectors, Share(c) PROVE OneViewer'
  <2>1. pool \in Sessions
    BY <1>0, <1>2 DEF Share, Gettable, Sessions
  <2>2. \A d \in Viewers : Leases(d) => viewing[session[d]]
    BY <1>0 DEF OneViewer
  <2>3. c \in Viewers => \A d \in Viewers : Leases(d) => session[d] # pool
    BY <1>2, <2>2 DEF Share
  <2>4. \A d \in Connectors : /\ d # c => Leases(d)' = Leases(d) /\ session'[d] = session[d]
                              /\ d = c => session'[d] = pool
    BY <1>0, <1>2 DEF Share, Moves
  <2>5. \A r \in Sessions : viewing[r] => viewing'[r]
    BY <1>0, <1>2 DEF Share
  <2>6. c \in Viewers => viewing'[pool]
    BY <1>0, <1>2, <2>1 DEF Share
  <2> QED
    BY <1>0, <2>2, <2>3, <2>4, <2>5, <2>6 DEF OneViewer
<1>3. ASSUME NEW c \in Connectors, Established(c) PROVE OneViewer'
  <2>1. \A d \in Connectors : /\ d # c => Leases(d)' = Leases(d) /\ session'[d] = session[d]
                              /\ d = c => session'[d] = born + 1
    BY <1>0, <1>3 DEF Established, Moves
  <2>2. \A d \in Viewers : Leases(d) => session[d] # born + 1
    BY <1>0
  <2>3. born + 1 \in Sessions /\ \A r \in Sessions : r # born + 1 => viewing'[r] = viewing[r]
    BY <1>0, <1>3 DEF Established, Sessions
  <2>4. c \in Viewers => viewing'[born + 1]
    BY <1>0, <1>3, <2>3 DEF Established
  <2> QED
    BY <1>0, <2>1, <2>2, <2>3, <2>4 DEF OneViewer
<1>4. ASSUME NEW c \in Connectors, DropLease(c) PROVE OneViewer'
  <2>1. /\ Leases(c) /\ ~Leases(c)'
        /\ \A d \in Connectors : d # c => Leases(d)' = Leases(d) /\ session'[d] = session[d]
    BY <1>0, <1>4 DEF DropLease, Moves
  <2>2. \A d \in Viewers : Leases(d) /\ d # c =>
          viewing'[session[d]] = viewing[session[d]]
    BY <1>0, <1>4, <2>1 DEF DropLease, OneViewer
  <2> QED
    BY <1>0, <2>1, <2>2 DEF OneViewer
<1>5. ASSUME NEW c \in Connectors, Connecting(c) \/ Leaving(c),
             ~Share(c), ~Established(c), ~DropLease(c)
      PROVE  OneViewer'
  <2>1. UNCHANGED <<session, viewing>> /\ \A d \in Connectors : Leases(d)' = Leases(d)
    BY <1>0, <1>5 DEF Connecting, Ask, TakeGate, GateCancelled, ShareRefused,
       TakeReceiver, Started, StartFails, Establish, EstablishFails, Register, Leaving,
       Leave, CloseLast, CloseShared, SeesEnd, Unwind, ReturnReceiver, Moves, leaseVars
  <2> QED
    BY <1>0, <2>1 DEF OneViewer
<1> QED
  BY <1>1, <1>2, <1>3, <1>4, <1>5 DEF SharedNext, Look, LookAway, SignalTask, SignalStep,
     Fails, Obeys, ClosesPeer, PeerClosed, WorkerStarts, WorkerEnds, Relogin, Quit, Drain,
     Drained, sharedVars, connectorVars, leaseVars

\* The receiver is with the one viewer that has taken it or with the session,
\* so the next viewer finds it there (shared.rs:128-137, 178-196).
LEMMA ReceiverStep ==
    SharedInv /\ [SharedNext]_sharedVars => ReceiverHome' /\ ViewerHasReceiver'
<1> SUFFICES ASSUME SharedInv, [SharedNext]_sharedVars
             PROVE  ReceiverHome' /\ ViewerHasReceiver'
  OBVIOUS
<1>0. /\ OneViewer /\ ReceiverHome /\ ViewerHasReceiver
      /\ pc \in [Connectors ->
                   {"idle", "gate", "lookup", "connecting", "unregistered"} \cup Holding]
      /\ session \in [Connectors -> 0..born]
      /\ receiver \in [Sessions -> Connectors \cup {Nobody}]
      /\ Viewers \subseteq Connectors /\ Nobody \notin Connectors
      /\ \A c \in Connectors : Leases(c) => session[c] \in Sessions /\ session[c] <= born
      /\ born \in Nat /\ born <= MaxSessions
  BY DEF SharedInv, SharedTypeOK, PeerTypes, Sessions, Connectors
<1> USE DEF Leases, Holding, ReceiverHome, ViewerHasReceiver
<1>1. CASE UNCHANGED <<pc, session, receiver>>
  BY <1>0, <1>1
<1>2. ASSUME NEW c \in Connectors, TakeReceiver(c)
      PROVE  ReceiverHome' /\ ViewerHasReceiver'
  <2>1. c \in Viewers => receiver[session[c]] = Nobody
    BY <1>0, <1>2 DEF TakeReceiver, Moves, OneViewer
  <2> QED
    BY <1>0, <1>2, <2>1 DEF TakeReceiver, Moves, OneViewer
<1>3. ASSUME NEW c \in Connectors, Established(c)
      PROVE  ReceiverHome' /\ ViewerHasReceiver'
  <2>1. born + 1 \in Sessions
    BY <1>0, <1>3 DEF Established, Sessions
  <2>2. \A d \in Connectors : Leases(d) => session[d] # born + 1
    BY <1>0
  <2> QED
    BY <1>0, <1>3, <2>1, <2>2 DEF Established, Moves, Connectors
<1>4. ASSUME NEW c \in Connectors, ReturnReceiver(c)
      PROVE  ReceiverHome' /\ ViewerHasReceiver'
  BY <1>0, <1>4 DEF ReturnReceiver, Moves
<1>5. ASSUME NEW c \in Connectors, Share(c) \/ DropLease(c)
      PROVE  ReceiverHome' /\ ViewerHasReceiver'
  BY <1>0, <1>5 DEF Share, DropLease, Moves
<1>6. ASSUME NEW c \in Connectors, Connecting(c) \/ Leaving(c), ~Share(c),
             ~TakeReceiver(c), ~Established(c), ~ReturnReceiver(c), ~DropLease(c)
      PROVE  ReceiverHome' /\ ViewerHasReceiver'
  <2>1. UNCHANGED <<session, receiver>>
    BY <1>6 DEF Connecting, Ask, TakeGate, GateCancelled, ShareRefused, Started,
       StartFails, Establish, EstablishFails, Register, Leaving, Leave, CloseLast,
       CloseShared, SeesEnd, Unwind, Moves, leaseVars
  <2>2. \A d \in Connectors :
          /\ Leases(d)' = Leases(d)
          /\ pc'[d] \in {"leased", "returned"} <=> pc[d] \in {"leased", "returned"}
    BY <1>0, <1>6 DEF Connecting, Ask, TakeGate, GateCancelled, ShareRefused, Started,
       StartFails, Establish, EstablishFails, Register, Leaving, Leave, CloseLast,
       CloseShared, SeesEnd, Unwind, Moves
  <2> QED
    BY <1>0, <2>1, <2>2
<1> QED
  BY <1>1, <1>2, <1>3, <1>4, <1>5, <1>6 DEF SharedNext, Connecting, Leaving, Look,
     LookAway, SignalTask, SignalStep, Fails, Obeys, ClosesPeer, PeerClosed, WorkerStarts,
     WorkerEnds, Relogin, Quit, Drain, Drained, sharedVars, connectorVars, leaseVars

\* What nobody holds any more was asked to close by whoever held it last, and
\* what the shutdown waits for was asked by it or before (shared.rs:69-79,
\* 162-172).
LEMMA EndStep == SharedInv /\ [SharedNext]_sharedVars => EndIsUnderWay'
<1> SUFFICES ASSUME SharedInv, [SharedNext]_sharedVars PROVE EndIsUnderWay'
  OBVIOUS
<1>0. /\ EndIsUnderWay
      /\ signal \in [Sessions -> {"none", "up", "ending", "closing", "done"}]
      /\ asked \in [Sessions -> BOOLEAN]
      /\ holders \in [Sessions -> SUBSET (Connectors \cup {Glance})]
      /\ session \in [Connectors -> 0..born]
      /\ born \in Nat /\ born <= MaxSessions /\ 1..born \subseteq Sessions
      /\ jobs \subseteq 1..born
  BY DEF SharedInv, SharedTypeOK, Sessions
<1> USE DEF EndIsUnderWay
<1>1. CASE UNCHANGED <<born, signal, asked, holders, jobs>>
  BY <1>0, <1>1
<1>2. ASSUME NEW c \in Connectors, Share(c) PROVE EndIsUnderWay'
  BY <1>0, <1>2 DEF Share, Moves, appVars, sessionVars
<1>3. ASSUME NEW c \in Connectors, Established(c) PROVE EndIsUnderWay'
  <2>1. /\ born' = born + 1 /\ jobs' = jobs /\ born + 1 \in Sessions /\ born + 1 \notin jobs
        /\ holders'[born + 1] = {c} /\ asked' = asked
    BY <1>0, <1>3 DEF Established, Moves, appVars, Sessions
  <2>2. \A s \in 1..born : holders'[s] = holders[s] /\ signal'[s] = signal[s]
    BY <1>0, <1>3 DEF Established
  <2>3. \A s \in 1..(born + 1) : s \in 1..born \/ s = born + 1
    BY <1>0
  <2> QED
    BY <1>0, <2>1, <2>2, <2>3
<1>4. ASSUME NEW c \in Connectors, CloseLast(c) PROVE EndIsUnderWay'
  BY <1>0, <1>4 DEF CloseLast, Moves, appVars, leaseVars
<1>5. ASSUME NEW s \in Sessions, NEW h, Release(s, h), UNCHANGED <<born, signal, jobs>>
      PROVE  EndIsUnderWay'
  <2>1. \A r \in Sessions : asked[r] => asked'[r]
    BY <1>0, <1>5 DEF Release
  <2>2. holders[s] = {h} => asked'[s]
    BY <1>0, <1>5 DEF Release
  <2>3. \A r \in Sessions : holders'[r] = {} => holders[r] = {} \/ (r = s /\ holders[s] = {h})
    BY <1>0, <1>5 DEF Release
  <2> QED
    BY <1>0, <1>5, <2>1, <2>2, <2>3
<1>6. ASSUME NEW c \in Connectors, DropLease(c) PROVE EndIsUnderWay'
  <2>1. session[c] \in Sessions
    BY <1>0, <1>6 DEF DropLease, Moves, SharedInv, PeerTypes, Leases, Holding
  <2> QED
    BY <1>5, <1>6, <2>1 DEF DropLease, Moves, appVars
<1>7. CASE Look
  BY <1>0, <1>7 DEF Look, appVars, sessionVars
<1>8. ASSUME NEW s \in Sessions, LookAway(s) PROVE EndIsUnderWay'
  BY <1>5, <1>8 DEF LookAway, appVars
<1>9. ASSUME NEW s \in Sessions, SignalTask(s) PROVE EndIsUnderWay'
  BY <1>0, <1>9 DEF SignalTask, SignalStep, Fails, Obeys, ClosesPeer, PeerClosed, appVars,
     leaseVars
<1>10. CASE Drain
  <2>1. \A r \in Sessions : asked[r] => asked'[r]
    BY <1>0, <1>10 DEF Drain
  <2>2. ASSUME NEW r \in 1..born, holders[r] # {} PROVE asked'[r]
    <3>1. r \in Sessions /\ r <= born
      BY <1>0
    <3>2. asked'[r] = (asked[r] \/ (r <= born /\ holders[r] # {}))
      BY <1>10, <3>1 DEF Drain
    <3> QED
      BY <2>2, <3>1, <3>2
  <2> QED
    BY <1>0, <1>10, <2>1, <2>2 DEF Drain, leaseVars
<1>11. ASSUME NEW c \in Connectors, Connecting(c) \/ Leaving(c), ~Share(c),
              ~Established(c), ~CloseLast(c), ~DropLease(c)
       PROVE  UNCHANGED <<born, signal, asked, holders, jobs>>
  BY <1>11 DEF Connecting, Ask, TakeGate, GateCancelled, ShareRefused, TakeReceiver,
     Started, StartFails, Establish, EstablishFails, Register, Leaving, Leave,
     CloseShared, SeesEnd, Unwind, ReturnReceiver, Moves, appVars, sessionVars, leaseVars
<1> QED
  BY <1>1, <1>2, <1>3, <1>4, <1>6, <1>7, <1>8, <1>9, <1>10, <1>11 DEF SharedNext,
     WorkerStarts, WorkerEnds, Relogin, Quit, Drained, sharedVars, appVars, sessionVars,
     leaseVars

\* Once the shutdown takes the sessions nobody connects any more: it waited for
\* the connectors, and none starts (windows.rs:95-119).
LEMMA DrainStep == SharedInv /\ [SharedNext]_sharedVars => DrainedIdle'
<1> SUFFICES ASSUME SharedInv, [SharedNext]_sharedVars PROVE DrainedIdle'
  OBVIOUS
<1>0. /\ DrainedIdle
      /\ signal \in [Sessions -> {"none", "up", "ending", "closing", "done"}]
      /\ jobs \subseteq Sessions
  BY DEF SharedInv, SharedTypeOK, Sessions
<1> USE DEF DrainedIdle
<1>1. CASE UNCHANGED <<quit, pc, jobs, born, signal>>
  BY <1>0, <1>1
<1>2. ASSUME NEW c \in Connectors, Connecting(c) \/ Leaving(c) PROVE DrainedIdle'
  <2>1. quit' = quit /\ quit \notin {"draining", "over"}
    BY <1>0, <1>2 DEF Connecting, Ask, TakeGate, GateCancelled, Share, ShareRefused,
       TakeReceiver, Started, StartFails, Establish, EstablishFails, Established,
       Register, Leaving, Leave, CloseLast, CloseShared, SeesEnd, Unwind, ReturnReceiver,
       DropLease, Moves, appVars
  <2> QED
    BY <2>1
<1>3. ASSUME NEW s \in Sessions, SignalTask(s) PROVE DrainedIdle'
  BY <1>0, <1>3 DEF SignalTask, SignalStep, Fails, Obeys, ClosesPeer, PeerClosed, appVars,
     connectorVars
<1>4. CASE Quit
  BY <1>4 DEF Quit
<1>5. CASE Drain
  BY <1>5 DEF Drain, connectorVars
<1>6. CASE Drained
  BY <1>0, <1>6 DEF Drained, connectorVars, sessionVars
<1> QED
  BY <1>1, <1>2, <1>3, <1>4, <1>5, <1>6 DEF SharedNext, Look, LookAway, WorkerStarts,
     WorkerEnds, Relogin, sharedVars, appVars, sessionVars, connectorVars

\* No step of a connector, a peer, the account or the process breaks the
\* invariant, so it holds in every state.
THEOREM SharedInvariant == SharedSpec => []SharedInv
<1>1. SharedInv /\ [SharedNext]_sharedVars => SharedInv'
  BY TypeStep, GateStep, UselessStep, ServedStep, ViewerStep, ReceiverStep, EndedStep,
     EndStep, DrainStep DEF SharedInv
<1> QED
  BY SharedStart, <1>1, PTL DEF SharedSpec

-----------------------------------------------------------------------------
\* Every state of the connections to a device is well formed; a connector holds
\* a reference to the session of its lease.
THEOREM SharedTypes == SharedSpec => []SharedTypeOK
<1>1. SharedInv => SharedTypeOK
  BY DEF SharedInv
<1> QED
  BY SharedInvariant, <1>1, PTL

\* The sessions of the login in force that serve a device are at most one,
\* however many windows and services connect at once (shared.rs:1, 45-64).
THEOREM OneNetworkOwner == SharedSpec => []OneOwner
<1>1. SharedInv => OneOwner
  <2> SUFFICES ASSUME SharedInv, NEW s \in Sessions, NEW r \in Sessions,
                      Serving(s), Serving(r)
               PROVE  s = r
    BY DEF OneOwner
  <2>1. ServedIsKnown /\ GateHeld /\ PoolUseless
    BY DEF SharedInv
  <2>2. Gettable(s) /\ Gettable(r)
    BY DEF Serving, Gettable, Sessions
  <2> QED
    BY <2>1, <2>2 DEF ServedIsKnown, GateHeld, PoolUseless
<1> QED
  BY SharedInvariant, <1>1, PTL

\* A viewer that connected owns the receiver its frames come from, until its
\* lease is dropped: taking it cannot panic (shared.rs:178-192).
THEOREM ViewersReceive == SharedSpec => []ViewerHasReceiver
<1>1. SharedInv => ViewerHasReceiver
  BY DEF SharedInv
<1> QED
  BY SharedInvariant, <1>1, PTL

\* A session whose end is announced has no worker left (shared.rs:97-104).
THEOREM EndLeavesNoWorker == SharedSpec => []EndedIsClosed
<1>1. SharedInv => EndedIsClosed
  BY DEF SharedInv
<1> QED
  BY SharedInvariant, <1>1, PTL

\* A session nobody holds, or that the shutdown waits for, was asked to close.
THEOREM EndNotForgotten == SharedSpec => []EndIsUnderWay
<1>1. SharedInv => EndIsUnderWay
  BY DEF SharedInv
<1> QED
  BY SharedInvariant, <1>1, PTL

\* When the shutdown of the process returns, every session it made has ended and
\* no worker is left (shared.rs:66-87).
THEOREM ShutdownIsComplete == SharedSpec => []QuitLeavesNothing
<1>1. SharedInv => QuitLeavesNothing
  BY DEF SharedInv, SharedTypeOK, DrainedIdle, EndedIsClosed, QuitLeavesNothing, Sessions
<1> QED
  BY SharedInvariant, <1>1, PTL
==============================================================================
