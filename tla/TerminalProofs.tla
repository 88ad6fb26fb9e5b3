--------------------------- MODULE TerminalProofs ---------------------------
(***************************************************************************)
(* The terminal, for any number of shells, connections, local terminals    *)
(* and chunks: one connection of the controller at a shell, nothing after  *)
(* an exit, bounded queues, shells idle when alone, and consumers that let *)
(* go.                                                                     *)
(***************************************************************************)
EXTENDS TerminalSessions, FiniteSetTheorems, TLAPS

Queue == UNION {[X -> Nat] : X \in SUBSET Consumers}

Session == [state : {"running", "detached", "exited"}, output : Queue,
            since : {"none", "now", "long"}, unread : Nat, alive : BOOLEAN,
            told : SUBSET Consumers]

(***************************************************************************)
(* What holds of a session by itself: no two connections of the controller *)
(* are attached, who is attached has not been told of the exit, no queue   *)
(* is over the mark by a whole reading, and state and idle time tell       *)
(* whether anybody is attached.                                            *)
(***************************************************************************)
OneOf(s) ==
    \A c, d \in Conns :
        Remote(c) \in Attached(s) /\ Remote(d) \in Attached(s) => c = d

Untold(s) == Attached(s) \cap s.told = {}

Bounded(s) == \A x \in Attached(s) : s.output[x] < HighWater + Budget

\* Until the exit, running means attached, and then the idle time stands.
Marked(s) ==
    s.state # "exited" => /\ s.state = "running" <=> Attached(s) # {}
                          /\ Attached(s) # {} => s.since = "none"

Sound(s) == s \in Session /\ OneOf(s) /\ Untold(s) /\ Bounded(s) /\ Marked(s)

\* Left by everyone, it is idle: so of the controller's shells.
Away(s) == s.state # "exited" /\ Attached(s) = {} => s.since # "none"

\* Whom a session knows.
Known(s) == Attached(s) \cup s.told

LEMMA QueueIs ==
  ASSUME NEW o
  PROVE  o \in Queue <=> /\ o = [x \in DOMAIN o |-> o[x]]
                         /\ DOMAIN o \subseteq Consumers
                         /\ \A x \in DOMAIN o : o[x] \in Nat
<1>1. ASSUME o \in Queue
      PROVE  /\ o = [x \in DOMAIN o |-> o[x]]
             /\ DOMAIN o \subseteq Consumers
             /\ \A x \in DOMAIN o : o[x] \in Nat
  BY <1>1 DEF Queue
<1>2. ASSUME o = [x \in DOMAIN o |-> o[x]], DOMAIN o \subseteq Consumers,
             \A x \in DOMAIN o : o[x] \in Nat
      PROVE  o \in Queue
  <2>1. o \in [DOMAIN o -> Nat]
    BY <1>2
  <2> QED BY <1>2, <2>1 DEF Queue
<1> QED BY <1>1, <1>2

LEMMA EmptyIs ==
  ASSUME NEW o \in Queue
  PROVE  o = <<>> <=> DOMAIN o = {}
<1>1. <<>> \in [{} -> Nat]
  OBVIOUS
<1>2. DOMAIN <<>> = {}
  BY <1>1
<1>3. ASSUME DOMAIN o = {} PROVE o = <<>>
  <2>1. o \in [{} -> Nat]
    BY <1>3 DEF Queue
  <2> QED BY <2>1
<1> QED BY <1>2, <1>3

LEMMA SizesNat ==
  HighWater \in Nat \ {0} /\ Budget \in Nat \ {0}
  BY TerminalAssumption DEF TerminalAssumption

-----------------------------------------------------------------------------
(***************************************************************************)
(* What the operations on one session do to it.                            *)
(***************************************************************************)
LEMMA DetachSound ==
  ASSUME NEW s, Sound(s), NEW X
  PROVE  /\ Sound(DetachAll(s, X))
         /\ Attached(DetachAll(s, X)) = Attached(s) \ X
         /\ DetachAll(s, X).told = s.told
         /\ Away(s) => Away(DetachAll(s, X))
<1> DEFINE rest == Without(s.output, X)
<1>0. s \in Session
  BY DEF Sound
<1>1. CASE X \cap Attached(s) = {}
  BY <1>1 DEF DetachAll
<1>2. CASE X \cap Attached(s) # {}
  <2>1. PICK st \in {"running", "detached", "exited"},
             si \in {"none", "now", "long"} :
          /\ DetachAll(s, X) = [s EXCEPT !.output = rest, !.since = si,
                                         !.state = st]
          /\ rest = <<>> => /\ si = "now"
                            /\ st = IF s.state = "running" THEN "detached"
                                    ELSE s.state
          /\ rest # <<>> => si = s.since /\ st = s.state
    BY <1>0, <1>2 DEF DetachAll, Session
  <2>2. /\ DOMAIN rest = Attached(s) \ X
        /\ \A x \in DOMAIN rest : rest[x] = s.output[x]
        /\ rest = [x \in DOMAIN rest |-> rest[x]]
    BY DEF Without, Restrict, Attached
  <2>3. s.output \in Queue
    BY <1>0 DEF Session
  <2>4. rest \in Queue
    BY <2>2, <2>3, QueueIs DEF Attached
  <2>5. DetachAll(s, X) \in Session /\ DetachAll(s, X).output = rest
        /\ DetachAll(s, X).told = s.told
        /\ DetachAll(s, X).state = st
        /\ DetachAll(s, X).since = si
    <3> HIDE DEF rest
    <3> QED BY <1>0, <2>1, <2>4 DEF Session
  <2>6. Attached(DetachAll(s, X)) = Attached(s) \ X
    BY <2>2, <2>5 DEF Attached
  <2> HIDE DEF rest
  <2>7. rest = <<>> <=> Attached(DetachAll(s, X)) = {}
    BY <2>2, <2>4, <2>6, EmptyIs
  <2>8. Attached(s) # {}
    BY <1>2
  <2>9. Marked(DetachAll(s, X)) /\ Away(DetachAll(s, X))
    BY <1>0, <2>1, <2>5, <2>7, <2>8 DEF Sound, Marked, Away, Session
  <2> QED
    BY <2>2, <2>5, <2>6, <2>9 DEF Sound, OneOf, Untold, Bounded, Attached
<1> QED BY <1>1, <1>2

LEMMA JoinedIs ==
  ASSUME NEW o \in Queue, NEW x \in Consumers
  PROVE  /\ Joined(o, x, 0) \in Queue
         /\ DOMAIN Joined(o, x, 0) = DOMAIN o \cup {x}
         /\ \A y \in DOMAIN o : Joined(o, x, 0)[y] = o[y]
         /\ x \notin DOMAIN o => Joined(o, x, 0)[x] = 0
<1> DEFINE j == Joined(o, x, 0)
<1>1. /\ DOMAIN j = DOMAIN o \cup {x}
      /\ j = [y \in DOMAIN j |-> j[y]]
      /\ \A y \in DOMAIN o : j[y] = o[y]
      /\ x \notin DOMAIN o => j[x] = 0
  BY DEF Joined
<1>2. DOMAIN o \subseteq Consumers /\ \A y \in DOMAIN o : o[y] \in Nat
  BY QueueIs
<1>3. \A y \in DOMAIN j : j[y] \in Nat
  BY <1>1, <1>2
<1> HIDE DEF j
<1>4. j \in Queue
  BY <1>1, <1>2, <1>3, QueueIs
<1> QED BY <1>1, <1>4 DEF j

LEMMA ConsumersAre ==
  /\ \A c \in Conns : Remote(c) \in Consumers
  /\ \A a \in Locals : Local(a) \in Consumers
  /\ \A c \in Conns, d \in Conns : Remote(c) = Remote(d) => c = d
  /\ \A c \in Conns, a \in Locals : Remote(c) # Local(a)
  /\ \A c \in Conns : Remote(c)[1] = "remote"
  /\ \A a \in Locals : Local(a)[1] = "local"
  BY DEF Consumers, Remote, Local

LEMMA ReopenSound ==
  ASSUME NEW s, Sound(s), NEW c \in Conns
  PROVE  /\ Sound(Reopened(s, c))
         /\ Known(Reopened(s, c)) \subseteq Known(s) \cup {Remote(c)}
         /\ Attached(Reopened(s, c)) \subseteq Attached(s) \cup {Remote(c)}
         /\ Away(Reopened(s, c))
<1> DEFINE kept == {x \in Attached(s) : x = Remote(c) \/ x[1] = "local"}
           r == Restrict(s.output, kept)
           o == Takeover(s, c)
<1>0. s \in Session /\ s.output \in Queue
  BY DEF Sound, Session
<1>1. /\ DOMAIN r = kept
      /\ \A x \in kept : r[x] = s.output[x]
      /\ r = [x \in DOMAIN r |-> r[x]]
  BY DEF Restrict
<1>2. r \in Queue
  BY <1>0, <1>1, QueueIs DEF Attached
<1>3. /\ o \in Queue
      /\ DOMAIN o = kept \cup {Remote(c)}
      /\ \A y \in kept : o[y] = s.output[y]
      /\ Remote(c) \notin kept => o[Remote(c)] = 0
  <2>1. o = Joined(r, Remote(c), 0)
    BY DEF Takeover
  <2>2. Remote(c) \in Consumers
    BY ConsumersAre
  <2> HIDE DEF o, r, kept
  <2> QED BY <1>1, <1>2, <2>1, <2>2, JoinedIs
<1>4. PICK st \in {"running", "exited"} :
        Reopened(s, c) = [s EXCEPT !.state = st, !.output = o,
                                   !.told = s.told \ {Remote(c)},
                                   !.since = "none"]
  BY <1>0 DEF Reopened, Session
<1> HIDE DEF o
<1>5. /\ Reopened(s, c) \in Session
      /\ Reopened(s, c).output = o
      /\ Reopened(s, c).told = s.told \ {Remote(c)}
      /\ Reopened(s, c).state = st /\ Reopened(s, c).since = "none"
  BY <1>0, <1>3, <1>4 DEF Session
<1>6. OneOf(Reopened(s, c))
  BY <1>3, <1>5, ConsumersAre DEF OneOf, Attached
<1>7. Untold(Reopened(s, c))
  BY <1>3, <1>5 DEF Sound, Untold, Attached
<1>8. Bounded(Reopened(s, c))
  BY <1>3, <1>5, SizesNat DEF Sound, Bounded, Attached
<1>9. /\ Known(Reopened(s, c)) \subseteq Known(s) \cup {Remote(c)}
      /\ Attached(Reopened(s, c)) \subseteq Attached(s) \cup {Remote(c)}
  BY <1>3, <1>5 DEF Known, Attached
<1>10. Marked(Reopened(s, c)) /\ Away(Reopened(s, c))
  <2>1. Attached(Reopened(s, c)) # {}
    BY <1>3, <1>5 DEF Attached
  <2> QED BY <1>4, <1>5, <2>1 DEF Marked, Away
<1> QED BY <1>5, <1>6, <1>7, <1>8, <1>9, <1>10 DEF Sound

LEMMA AttachSound ==
  ASSUME NEW s, Sound(s), NEW a \in Locals, Local(a) \notin Known(s)
  PROVE  /\ Sound(AttachedLocal(s, a))
         /\ Known(AttachedLocal(s, a)) \subseteq Known(s) \cup {Local(a)}
         /\ Attached(AttachedLocal(s, a)) \subseteq Attached(s) \cup {Local(a)}
         /\ Away(AttachedLocal(s, a))
<1> DEFINE o == Joined(s.output, Local(a), 0)
<1>0. s \in Session /\ s.output \in Queue
  BY DEF Sound, Session
<1>1. /\ o \in Queue
      /\ DOMAIN o = Attached(s) \cup {Local(a)}
      /\ \A y \in Attached(s) : o[y] = s.output[y]
      /\ o[Local(a)] = 0
  BY <1>0, JoinedIs, ConsumersAre DEF Attached, Known
<1>2. AttachedLocal(s, a) = [s EXCEPT !.state = "running", !.output = o,
                                      !.since = "none"]
  BY DEF AttachedLocal
<1> HIDE DEF o
<1>3. /\ AttachedLocal(s, a) \in Session
      /\ AttachedLocal(s, a).output = o
      /\ AttachedLocal(s, a).told = s.told
      /\ AttachedLocal(s, a).state = "running"
      /\ AttachedLocal(s, a).since = "none"
  BY <1>0, <1>1, <1>2 DEF Session
<1>4. OneOf(AttachedLocal(s, a))
  BY <1>1, <1>3, ConsumersAre DEF Sound, OneOf, Attached
<1>5. Untold(AttachedLocal(s, a))
  BY <1>1, <1>3 DEF Sound, Untold, Attached, Known
<1>6. Bounded(AttachedLocal(s, a))
  BY <1>1, <1>3, SizesNat DEF Sound, Bounded, Attached
<1>7. /\ Known(AttachedLocal(s, a)) \subseteq Known(s) \cup {Local(a)}
      /\ Attached(AttachedLocal(s, a)) \subseteq Attached(s) \cup {Local(a)}
  BY <1>1, <1>3 DEF Known, Attached
<1>8. Marked(AttachedLocal(s, a)) /\ Away(AttachedLocal(s, a))
  <2>1. Attached(AttachedLocal(s, a)) # {}
    BY <1>1, <1>3 DEF Attached
  <2> QED BY <1>3, <2>1 DEF Marked, Away
<1> QED BY <1>3, <1>4, <1>5, <1>6, <1>7, <1>8 DEF Sound

LEMMA NewSound ==
  ASSUME NEW st, NEW o,
         \/ st = "detached" /\ o = <<>>
         \/ st = "running" /\ \E c \in Conns : o = Joined(<<>>, Remote(c), 0)
  PROVE  /\ Sound(Shell(st, o))
         /\ Known(Shell(st, o)) = DOMAIN o
         /\ st = "running" => Away(Shell(st, o))
<1>0. <<>> \in Queue /\ DOMAIN <<>> = {}
  <2>1. <<>> \in [{} -> Nat]
    OBVIOUS
  <2>2. {} \in SUBSET Consumers
    OBVIOUS
  <2>3. DOMAIN <<>> = {}
    BY <2>1
  <2> QED BY <2>1, <2>2, <2>3 DEF Queue
<1>1. /\ o \in Queue
      /\ \A x, y \in DOMAIN o : x = y
      /\ \A x \in DOMAIN o : o[x] = 0
      /\ st = "running" <=> DOMAIN o # {}
  <2>1. ASSUME NEW c \in Conns, o = Joined(<<>>, Remote(c), 0)
        PROVE  /\ o \in Queue
               /\ \A x, y \in DOMAIN o : x = y
               /\ \A x \in DOMAIN o : o[x] = 0
               /\ DOMAIN o # {}
    <3>1. Remote(c) \in Consumers
      BY ConsumersAre
    <3>2. /\ Joined(<<>>, Remote(c), 0) \in Queue
          /\ DOMAIN Joined(<<>>, Remote(c), 0) = {Remote(c)}
      BY <1>0, <3>1, JoinedIs
    <3>3. Joined(<<>>, Remote(c), 0)[Remote(c)] = 0
      BY <1>0, <3>1, JoinedIs
    <3> QED BY <2>1, <3>2, <3>3
  <2> QED BY <1>0, <2>1
<1>2. /\ Shell(st, o) \in Session
      /\ Shell(st, o).output = o
      /\ Shell(st, o).told = {}
      /\ Shell(st, o).state = st
      /\ Shell(st, o).since = "none"
  BY <1>1 DEF Shell, Session
<1>3. OneOf(Shell(st, o))
  BY <1>1, <1>2, ConsumersAre DEF OneOf, Attached
<1>4. Marked(Shell(st, o)) /\ (st = "running" => Away(Shell(st, o)))
  BY <1>1, <1>2 DEF Marked, Away, Attached
<1> QED
  BY <1>1, <1>2, <1>3, <1>4, SizesNat
     DEF Sound, Untold, Bounded, Attached, Known

-----------------------------------------------------------------------------
(***************************************************************************)
(* Reading.                                                                *)
(***************************************************************************)
LEMMA ShareIs ==
  ASSUME NEW b \in 1..Budget, NEW n \in Nat \ {0}
  PROVE  Share(b, n) \in 1..b
  BY SizesNat DEF Share

LEMMA ReadSound ==
  ASSUME NEW s, Sound(s), Readable(s), NEW share \in 1..Budget,
         NEW late \in BOOLEAN
  PROVE  /\ Sound(ReadFrom(s, share, late))
         /\ Attached(ReadFrom(s, share, late)) = Attached(s)
         /\ ReadFrom(s, share, late).told = s.told
         /\ Away(ReadFrom(s, share, late))
<1> DEFINE n == Lower(s.unread, share)
           o == [x \in Attached(s) |-> s.output[x] + n]
<1>0. s \in Session /\ s.output \in Queue /\ s.unread \in Nat
  BY DEF Sound, Session
<1>1. n \in Nat /\ n <= share /\ n <= s.unread
  BY <1>0, SizesNat DEF Lower
<1>2. \A x \in Attached(s) : s.output[x] \in Nat /\ s.output[x] < HighWater
  BY <1>0, QueueIs DEF Readable, Attached
<1> HIDE DEF n
<1>3. \A x \in Attached(s) : o[x] \in Nat /\ o[x] < HighWater + Budget
  BY <1>1, <1>2, SizesNat
<1>4. o \in Queue /\ DOMAIN o = Attached(s)
  BY <1>0, <1>3, QueueIs DEF Attached
<1>5. PICK st \in {s.state, "exited"}, u \in Nat, al \in BOOLEAN :
        ReadFrom(s, share, late) = [s EXCEPT !.unread = u, !.alive = al,
                                             !.output = o, !.state = st]
  <2> DEFINE st == IF s.unread < share /\ (~s.alive \/ late)
                   THEN "exited" ELSE s.state
             u == IF late THEN s.unread - n + 1 ELSE s.unread - n
             al == s.alive /\ ~late
  <2>1. u \in Nat
    BY <1>0, <1>1
  <2>2. st \in {s.state, "exited"} /\ al \in BOOLEAN
    BY <1>0 DEF Session
  <2>3. ReadFrom(s, share, late) = [s EXCEPT !.unread = u, !.alive = al,
                                             !.output = o, !.state = st]
    BY Zenon DEF ReadFrom, n
  <2> HIDE DEF st, u, al, o
  <2> QED BY <2>1, <2>2, <2>3
<1> HIDE DEF o
<1>6. /\ ReadFrom(s, share, late) \in Session
      /\ ReadFrom(s, share, late).output = o
      /\ ReadFrom(s, share, late).told = s.told
      /\ ReadFrom(s, share, late).since = s.since
      /\ ReadFrom(s, share, late).state = st
  BY <1>0, <1>4, <1>5 DEF Session
<1>7. Attached(ReadFrom(s, share, late)) = Attached(s)
  BY <1>4, <1>6 DEF Attached
<1>8. Marked(ReadFrom(s, share, late)) /\ Away(ReadFrom(s, share, late))
  <2>1. Attached(s) # {}
    BY <1>0, EmptyIs DEF Readable, Attached
  <2> QED BY <1>5, <1>6, <1>7, <2>1 DEF Sound, Marked, Away
<1> QED
  BY <1>3, <1>4, <1>6, <1>7, <1>8 DEF Sound, OneOf, Untold, Bounded, Attached

LEMMA TakenSound ==
  ASSUME NEW s, Sound(s), NEW x \in Attached(s), NEW share \in 1..Budget
  PROVE  /\ Sound(Taken(s, x, share))
         /\ Attached(Taken(s, x, share)) \subseteq Attached(s)
         /\ Known(Taken(s, x, share)) \subseteq Known(s)
         /\ Away(Taken(s, x, share))
<1>0. /\ s \in Session /\ s.output \in Queue
      /\ Attached(s) \subseteq Consumers
      /\ \A y \in Attached(s) : s.output[y] \in Nat
  BY QueueIs DEF Sound, Session, Attached
<1>1. CASE ToldExit(s, x, share)
  <2> DEFINE o == Without(s.output, {x})
  <2>1. /\ DOMAIN o = Attached(s) \ {x}
        /\ \A y \in DOMAIN o : o[y] = s.output[y]
        /\ o = [y \in DOMAIN o |-> o[y]]
    BY DEF Without, Restrict, Attached
  <2>2. o \in Queue
    BY <1>0, <2>1, QueueIs
  <2>3. Taken(s, x, share) = [s EXCEPT !.output = o, !.told = s.told \cup {x}]
    BY <1>1 DEF Taken
  <2> HIDE DEF o
  <2>4. /\ Taken(s, x, share) \in Session
        /\ Taken(s, x, share).output = o
        /\ Taken(s, x, share).told = s.told \cup {x}
        /\ Taken(s, x, share).state = "exited"
    BY <1>0, <1>1, <2>2, <2>3 DEF Session, ToldExit
  <2> QED
    BY <2>1, <2>4
       DEF Sound, OneOf, Untold, Bounded, Marked, Away, Attached, Known
<1>2. CASE ~ToldExit(s, x, share)
  <2> DEFINE n == s.output[x] - Lower(s.output[x], share)
             o == [s.output EXCEPT ![x] = n]
  <2>1. n \in Nat /\ n <= s.output[x]
    BY <1>0, SizesNat DEF Lower
  <2>2. /\ DOMAIN o = Attached(s)
        /\ \A y \in Attached(s) : o[y] = IF y = x THEN n ELSE s.output[y]
        /\ o = [y \in DOMAIN o |-> o[y]]
    BY DEF Attached
  <2>3. Taken(s, x, share) = [s EXCEPT !.output = o]
    BY <1>0, <1>2 DEF Taken, Session
  <2> HIDE DEF o, n
  <2>4. o \in Queue
    BY <1>0, <2>1, <2>2, QueueIs
  <2>5. /\ Taken(s, x, share) \in Session
        /\ Taken(s, x, share).output = o
        /\ Taken(s, x, share).told = s.told
        /\ Taken(s, x, share).state = s.state
        /\ Taken(s, x, share).since = s.since
    BY <1>0, <2>3, <2>4 DEF Session
  <2>6. Bounded(Taken(s, x, share))
    BY <1>0, <2>1, <2>2, <2>5, SizesNat DEF Sound, Bounded, Attached
  <2> QED
    BY <2>2, <2>5, <2>6 DEF Sound, OneOf, Untold, Marked, Away, Attached, Known
<1> QED BY <1>1, <1>2

-----------------------------------------------------------------------------
(***************************************************************************)
(* The table.  A new one is sound and knows, and attaches, nobody that the *)
(* old one did not, but Y, and the controller's shells in it are idle when *)
(* left.                                                                   *)
(***************************************************************************)
TableOK(t) == DOMAIN t \subseteq Keys /\ \A k \in DOMAIN t : Sound(t[k])

Within(s, Y, k) ==
    \/ /\ Known(s) \subseteq Y
       /\ Owner(k) = "login" => Away(s)
    \/ /\ k \in Open
       /\ Known(s) \subseteq Known(table[k]) \cup Y
       /\ Attached(s) \subseteq Attached(table[k]) \cup Y
       /\ Away(table[k]) => Away(s)

Moves(u, Y) ==
    /\ TableOK(u)
    /\ \A k \in DOMAIN u : Within(u[k], Y, k)

KnownTo(t) == {x \in Consumers : \E k \in DOMAIN t : x \in Known(t[k])}
AttachedTo(t) == {x \in Consumers : \E k \in DOMAIN t : x \in Attached(t[k])}

LEMMA MovesMeans ==
  ASSUME NEW u, NEW Y, Moves(u, Y)
  PROVE  /\ KnownTo(u) \subseteq KnownTo(table) \cup Y
         /\ AttachedTo(u) \subseteq AttachedTo(table) \cup Y
<1>1. ASSUME NEW x \in KnownTo(u) PROVE x \in KnownTo(table) \cup Y
  BY <1>1 DEF Moves, Within, KnownTo, Open
<1>2. ASSUME NEW x \in AttachedTo(u) PROVE x \in AttachedTo(table) \cup Y
  <2>1. PICK k \in DOMAIN u : x \in Attached(u[k]) /\ x \in Consumers
    BY <1>2 DEF AttachedTo
  <2>2. x \in Known(u[k])
    BY <2>1 DEF Known
  <2> QED BY <2>1, <2>2 DEF Moves, Within, AttachedTo, Known, Open
<1> QED BY <1>1, <1>2

LEMMA StaysMoves ==
  ASSUME TableOK(table)
  PROVE  Moves(table, {})
  BY DEF Moves, Within, TableOK, Open

LEMMA FewerMoves ==
  ASSUME TableOK(table), NEW S
  PROVE  /\ Moves(Restrict(table, Open \cap S), {})
         /\ Moves(Without(table, S), {})
<1>1. ASSUME NEW X, X \subseteq Open
      PROVE  Moves(Restrict(table, X), {})
  <2> DEFINE u == Restrict(table, X)
  <2>1. DOMAIN u = X /\ \A k \in X : u[k] = table[k]
    BY DEF Restrict
  <2> HIDE DEF u
  <2>2. Moves(u, {})
    BY <1>1, <2>1 DEF Moves, Within, TableOK, Open
  <2> QED BY <2>2 DEF u
<1>2. Moves(Restrict(table, DOMAIN table \ S), {})
  BY <1>1 DEF Open
<1> QED BY <1>1, <1>2 DEF Without

LEMMA OneMoves ==
  ASSUME TableOK(table), NEW k \in Open, NEW s, Sound(s), NEW Y,
         Within(s, Y, k)
  PROVE  Moves([table EXCEPT ![k] = s], Y)
<1> DEFINE u == [table EXCEPT ![k] = s]
<1>1. /\ DOMAIN u = Open
      /\ \A j \in Open : u[j] = IF j = k THEN s ELSE table[j]
  BY DEF Open
<1> HIDE DEF u
<1>2. \A j \in Open : Sound(u[j]) /\ Within(u[j], Y, j)
  BY <1>1 DEF TableOK, Within, Open
<1>3. Moves(u, Y)
  BY <1>1, <1>2 DEF Moves, TableOK, Open
<1> QED BY <1>3 DEF u

LEMMA NewMoves ==
  ASSUME TableOK(table), NEW k \in Keys, NEW s, Sound(s), NEW Y,
         Known(s) \subseteq Y, Owner(k) = "login" => Away(s), k \notin Open
  PROVE  Moves(Joined(table, k, s), Y)
<1> DEFINE u == Joined(table, k, s)
<1>1. /\ DOMAIN u = Open \cup {k}
      /\ u[k] = s
      /\ \A j \in Open : u[j] = table[j]
  BY DEF Joined, Open
<1> HIDE DEF u
<1>2. \A j \in DOMAIN u : Sound(u[j]) /\ Within(u[j], Y, j)
  BY <1>1 DEF TableOK, Within, Open
<1>3. Moves(u, Y)
  BY <1>1, <1>2 DEF Moves, TableOK, Open
<1> QED BY <1>3 DEF u

LEMMA SameSound ==
  ASSUME NEW s, Sound(s), NEW r \in Session,
         r.output = s.output, r.told = s.told, r.state = s.state,
         r.since = s.since \/ "none" \notin {r.since, s.since}
  PROVE  /\ Sound(r) /\ Known(r) = Known(s) /\ Attached(r) = Attached(s)
         /\ Away(s) => Away(r)
  BY DEF Sound, OneOf, Untold, Bounded, Marked, Away, Known, Attached

\* x leaves every session.
LEMMA LeaveMoves ==
  ASSUME TableOK(table), NEW x, NEW u,
         u = [k \in Open |-> Detach(table[k], x)]
  PROVE  Moves(u, {}) /\ x \notin AttachedTo(u)
<1>1. /\ DOMAIN u = Open
      /\ \A k \in Open : u[k] = DetachAll(table[k], {x})
  BY DEF Detach
<1>2. ASSUME NEW k \in Open
      PROVE  /\ Sound(u[k])
             /\ Attached(u[k]) = Attached(table[k]) \ {x}
             /\ u[k].told = table[k].told
             /\ Away(table[k]) => Away(u[k])
  BY <1>1, DetachSound DEF TableOK, Open
<1>3. \A k \in Open : Within(u[k], {}, k)
  BY <1>2 DEF Within, Known
<1> QED BY <1>1, <1>2, <1>3 DEF Moves, TableOK, AttachedTo, Open

LEMMA DrainSound ==
  ASSUME NEW t, TableOK(t), NEW b \in 1..Budget, NEW late
  PROVE  /\ DOMAIN Drain(t, b, late) = DOMAIN t
         /\ \A k \in DOMAIN t :
              LET s == Drain(t, b, late)[k]
              IN  /\ Sound(s)
                  /\ Attached(s) = Attached(t[k])
                  /\ s.told = t[k].told
                  /\ Away(t[k]) => Away(s)
<1> DEFINE share == Share(b, Cardinality(Readers(t)))
<1>1. CASE Readers(t) = {}
  BY <1>1 DEF Drain, TableOK
<1>2. CASE Readers(t) # {}
  <2>1. Cardinality(Readers(t)) \in Nat \ {0}
    <3>1. Readers(t) \subseteq Keys /\ IsFiniteSet(Keys)
      BY TerminalAssumption DEF TerminalAssumption, Readers, TableOK
    <3>2. IsFiniteSet(Readers(t))
      BY <3>1, FS_Subset
    <3> QED BY <1>2, <3>2, FS_CardinalityType, FS_EmptySet
  <2>2. share \in 1..Budget
    <3>1. share \in 1..b
      BY <2>1, ShareIs
    <3> QED BY <3>1, SizesNat
  <2> HIDE DEF share
  <2>3. Drain(t, b, late) = [k \in DOMAIN t |->
          IF k \in Readers(t) THEN ReadFrom(t[k], share, k \in late)
          ELSE t[k]]
    BY <1>2 DEF Drain, share
  <2>4. ASSUME NEW k \in Readers(t)
        PROVE  /\ Sound(ReadFrom(t[k], share, k \in late))
               /\ Attached(ReadFrom(t[k], share, k \in late)) = Attached(t[k])
               /\ ReadFrom(t[k], share, k \in late).told = t[k].told
               /\ Away(ReadFrom(t[k], share, k \in late))
    <3>1. Sound(t[k]) /\ Readable(t[k])
      BY <2>4 DEF Readers, TableOK
    <3>2. (k \in late) \in BOOLEAN
      OBVIOUS
    <3> QED BY <2>2, <3>1, <3>2, ReadSound
  <2> QED BY <2>3, <2>4 DEF TableOK
<1> QED BY <1>1, <1>2

LEMMA ReadMoves ==
  ASSUME TableOK(table), ~repeated, NEW x \in Consumers, NEW b \in 1..Budget,
         NEW late, Read(x, b, late)
  PROVE  Moves(table', {}) /\ ~repeated'
<1> DEFINE t == Drain(table, b, late)
           mine == {k \in DOMAIN t : x \in Attached(t[k])}
           share == IF mine = {} THEN b ELSE Share(b, Cardinality(mine))
<1>1. /\ DOMAIN t = Open
      /\ \A k \in Open : /\ Sound(t[k])
                         /\ Attached(t[k]) = Attached(table[k])
                         /\ t[k].told = table[k].told
                         /\ Away(table[k]) => Away(t[k])
  BY DrainSound DEF Open
<1>2. /\ table' = [k \in DOMAIN t |->
                     IF k \in mine THEN Taken(t[k], x, share) ELSE t[k]]
      /\ repeated' = \E k \in {j \in mine : ToldExit(t[j], x, share)
                                            \/ t[j].output[x] > 0} :
                       x \in t[k].told
  BY DEF Read
<1> HIDE DEF t
<1>3. share \in 1..Budget
  <2>1. CASE mine = {}
    BY <2>1
  <2>2. CASE mine # {}
    <3>1. mine \subseteq Keys /\ IsFiniteSet(Keys)
      BY <1>1, TerminalAssumption DEF TerminalAssumption, TableOK, Open
    <3>2. IsFiniteSet(mine)
      BY <3>1, FS_Subset
    <3>3. Cardinality(mine) \in Nat \ {0}
      BY <2>2, <3>2, FS_CardinalityType, FS_EmptySet
    <3>4. Share(b, Cardinality(mine)) \in 1..b
      BY <3>3, ShareIs
    <3> QED BY <2>2, <3>4, SizesNat
  <2> QED BY <2>1, <2>2
<1> HIDE DEF share
<1>4. ~repeated'
  BY <1>1, <1>2 DEF Sound, Untold
<1>5. ASSUME NEW k \in Open
      PROVE  /\ Sound(table'[k])
             /\ Attached(table'[k]) \subseteq Attached(table[k])
             /\ Known(table'[k]) \subseteq Known(table[k])
             /\ Away(table[k]) => Away(table'[k])
  <2>1. CASE k \in mine
    <3>1. table'[k] = Taken(t[k], x, share)
      BY <1>1, <1>2, <2>1
    <3>2. Sound(t[k]) /\ x \in Attached(t[k])
      BY <1>1, <2>1
    <3>3. Known(t[k]) = Known(table[k])
      BY <1>1 DEF Known
    <3> QED BY <1>1, <1>3, <3>1, <3>2, <3>3, TakenSound
  <2>2. CASE k \notin mine
    BY <1>1, <1>2, <2>2 DEF Known
  <2> QED BY <2>1, <2>2
<1>6. DOMAIN table' = Open
  BY <1>1, <1>2
<1> QED BY <1>4, <1>5, <1>6 DEF Moves, TableOK, Within, Open

-----------------------------------------------------------------------------
(***************************************************************************)
(* The invariant.  A local terminal that has not attached is known to no   *)
(* session, so that attaching it, which does not clear told as a reopened  *)
(* connection does, keeps who is attached apart from who was told.         *)
(***************************************************************************)
TasksOK ==
    /\ pump \in [Conns -> {"check", "read", "reap", "release", "released"}]
    /\ stop \subseteq Conns
    /\ attach \in
         [Locals -> [at : {"none", "answer", "read", "leave", "gone",
                           "failed"},
                     key : Keys \cup {None}]]
    /\ user \in {"idle", "end", "revoke", "done"}
    /\ strays \subseteq Conns

TermInv ==
    /\ TableOK(table)
    /\ ~repeated
    /\ TasksOK
    /\ \A a \in Locals : Local(a) \in KnownTo(table) => attach[a].at # "none"
    /\ \A k \in OfOwner("login") : Away(table[k])

LEMMA TermStart == TermInit => TermInv
<1> SUFFICES ASSUME TermInit PROVE TermInv
  OBVIOUS
<1>1. DOMAIN table = {}
  BY DEF TermInit
<1>2. TableOK(table) /\ KnownTo(table) = {} /\ OfOwner("login") = {}
  BY <1>1 DEF TableOK, KnownTo, OfOwner, Open
<1>3. ~repeated /\ TasksOK
  BY DEF TermInit, TasksOK, None
<1> QED BY <1>2, <1>3 DEF TermInv

\* A step by which nobody comes to know a session but Y.
LEMMA InvAfter ==
  ASSUME TermInv, NEW Y, Moves(table', Y), ~repeated', TasksOK',
         \A a \in Locals :
             attach[a].at # "none" \/ Local(a) \in Y => attach'[a].at # "none"
  PROVE  TermInv'
<1>1. KnownTo(table') \subseteq KnownTo(table) \cup Y
  BY MovesMeans
<1>2. TableOK(table')
  BY DEF Moves
<1>3. \A a \in Locals :
        Local(a) \in KnownTo(table') => attach'[a].at # "none"
  BY <1>1 DEF TermInv
<1>4. \A k \in OfOwner("login")' : Away(table'[k])
  BY DEF Moves, Within, OfOwner, Open, TermInv
<1> QED BY <1>2, <1>3, <1>4 DEF TermInv, Away

\* A step that leaves the local terminals where they are.
LEMMA InvSame ==
  ASSUME TermInv, NEW c \in Conns, Moves(table', {}) \/ Moves(table', {Remote(c)}),
         ~repeated', TasksOK', attach' = attach
  PROVE  TermInv'
<1>1. \A a \in Locals : Local(a) # Remote(c)
  BY ConsumersAre
<1> QED BY <1>1, InvAfter

-----------------------------------------------------------------------------
(***************************************************************************)
(* What each action does to the table.                                     *)
(***************************************************************************)
LEMMA PumpCheckMoves ==
  ASSUME TermInv, NEW c \in Conns, PumpCheck(c)
  PROVE  Moves(table', {})
<1>0. TableOK(table)
  BY DEF TermInv
<1>1. CASE UNCHANGED table
  BY <1>0, <1>1, StaysMoves
<1>2. CASE table' = [k \in Open |->
                       IF k \in OnLocal(c)
                       THEN [Detach(table[k], Remote(c))
                             EXCEPT !.told = @ \cup {Remote(c)}]
                       ELSE table[k]]
  <2>1. ASSUME NEW k \in Open
        PROVE  Sound(table'[k]) /\ Within(table'[k], {}, k)
    <3>1. CASE k \notin OnLocal(c)
      BY <1>0, <1>2, <2>1, <3>1 DEF TableOK, Within, Open
    <3>2. CASE k \in OnLocal(c)
      <4> DEFINE s == table[k]
                 d == DetachAll(s, {Remote(c)})
      <4>1. Sound(s) /\ Remote(c) \in Attached(s)
        BY <1>0, <2>1, <3>2 DEF TableOK, Open, OnLocal
      <4>2. /\ Sound(d)
            /\ Attached(d) = Attached(s) \ {Remote(c)}
            /\ d.told = s.told
            /\ Away(s) => Away(d)
        BY <4>1, DetachSound
      <4>3. table'[k] = [d EXCEPT !.told = d.told \cup {Remote(c)}]
        BY <1>2, <2>1, <3>2 DEF Detach
      <4> HIDE DEF s, d
      <4>4. /\ table'[k] \in Session
            /\ table'[k].output = d.output
            /\ table'[k].told = d.told \cup {Remote(c)}
            /\ table'[k].state = d.state /\ table'[k].since = d.since
        BY <4>2, <4>3, ConsumersAre DEF Sound, Session
      <4>5. Sound(table'[k]) /\ (Away(s) => Away(table'[k]))
        BY <4>2, <4>4
           DEF Sound, OneOf, Untold, Bounded, Marked, Away, Attached
      <4>6. /\ Known(table'[k]) \subseteq Known(s)
            /\ Attached(table'[k]) \subseteq Attached(s)
        BY <4>1, <4>2, <4>4 DEF Known, Attached
      <4> QED BY <2>1, <4>5, <4>6 DEF Within, s
    <3> QED BY <3>1, <3>2
  <2>2. DOMAIN table' = Open
    BY <1>2
  <2> QED BY <1>0, <2>1, <2>2 DEF Moves, TableOK, Open
<1> QED BY <1>1, <1>2 DEF PumpCheck

LEMMA PumpReadMoves ==
  ASSUME TermInv, NEW c \in Conns, PumpRead(c)
  PROVE  Moves(table', {}) /\ ~repeated'
<1>1. PICK room \in 1..Budget, late \in LastWords(table) :
        Read(Remote(c), room, late)
  BY DEF PumpRead
<1> QED BY <1>1, ReadMoves, ConsumersAre DEF TermInv

LEMMA LocalReadMoves ==
  ASSUME TermInv, NEW a \in Locals, LocalRead(a)
  PROVE  Moves(table', {}) /\ ~repeated'
<1>1. PICK late \in LastWords(table) : Read(Local(a), Budget, late)
  BY DEF LocalRead
<1>2. Budget \in 1..Budget
  BY SizesNat
<1> QED BY <1>1, <1>2, ReadMoves, ConsumersAre DEF TermInv

LEMMA PumpReapMoves ==
  ASSUME TermInv, NEW c \in Conns, PumpReap(c)
  PROVE  Moves(table', {})
<1> DEFINE S == {k \in Open : ~Seen(table[k])}
<1>1. table' = Restrict(table, Open \cap S)
  <2>1. S = Open \cap S
    OBVIOUS
  <2> QED BY <2>1 DEF PumpReap
<1> QED BY <1>1, FewerMoves DEF TermInv

LEMMA PumpReleaseMoves ==
  ASSUME TermInv, NEW c \in Conns, PumpRelease(c)
  PROVE  Moves(table', {}) /\ Remote(c) \notin AttachedTo(table')
  BY LeaveMoves DEF PumpRelease, TermInv

LEMMA LocalLeaveMoves ==
  ASSUME TermInv, NEW a \in Locals, LocalLeave(a)
  PROVE  Moves(table', {}) /\ Local(a) \notin AttachedTo(table')
  BY LeaveMoves DEF LocalLeave, TermInv

LEMMA FrameApplyMoves ==
  ASSUME TermInv, NEW c \in Conns, FrameApply(c)
  PROVE  \/ Moves(table', {})
         \/ frame[c].kind = "open" /\ Moves(table', {Remote(c)})
<1> DEFINE f == frame[c]
<1>0. TableOK(table)
  BY DEF TermInv
<1>1. CASE f.kind = "open" /\ OpenSession(c, f)
  <2> DEFINE found == Resolve(f.handle, f.local)
             new == <<"login", f.handle>>
             fresh == Shell("running", Joined(<<>>, Remote(c), 0))
  <2>1. CASE found # {}
    <3>1. PICK k \in found : table' = [table EXCEPT ![k] = Reopened(@, c)]
      BY <1>1, <2>1 DEF OpenSession
    <3>2. k \in Open
      BY <3>1 DEF Resolve
    <3>3. Sound(table[k])
      BY <1>0, <3>2 DEF TableOK, Open
    <3> DEFINE s == Reopened(table[k], c)
    <3>4. Sound(s) /\ Known(s) \subseteq Known(table[k]) \cup {Remote(c)}
          /\ Attached(s) \subseteq Attached(table[k]) \cup {Remote(c)}
          /\ Away(s)
      BY <3>3, ReopenSound
    <3>5. table' = [table EXCEPT ![k] = s]
      BY <3>1, <3>2 DEF Open
    <3> HIDE DEF s
    <3>6. Within(s, {Remote(c)}, k)
      BY <3>2, <3>4 DEF Within
    <3> QED BY <1>0, <1>1, <3>2, <3>4, <3>5, <3>6, OneMoves
  <2>2. CASE found = {} /\ new \in Keys
             /\ table' = Joined(table, new, fresh)
    <3>1. new \notin Open
      BY <2>2 DEF Resolve
    <3>2. Sound(fresh) /\ Known(fresh) = {Remote(c)} /\ Away(fresh)
      <4>1. /\ Sound(fresh) /\ Away(fresh)
            /\ Known(fresh) = DOMAIN Joined(<<>>, Remote(c), 0)
        BY NewSound
      <4>2. DOMAIN Joined(<<>>, Remote(c), 0) = {Remote(c)}
        BY DEF Joined
      <4> QED BY <4>1, <4>2
    <3> HIDE DEF fresh
    <3>3. Moves(Joined(table, new, fresh), {Remote(c)})
      BY <1>0, <2>2, <3>1, <3>2, NewMoves
    <3> QED BY <1>1, <2>2, <3>3
  <2>3. CASE UNCHANGED table
    BY <1>0, <2>3, StaysMoves
  <2> QED BY <1>1, <2>1, <2>2, <2>3 DEF OpenSession
<1>2. CASE KillSession(f)
  BY <1>0, <1>2, FewerMoves DEF KillSession
<1>3. CASE DetachSession(f)
  <2>1. PICK k \in Resolve(f.handle, f.local) :
          table' = [table EXCEPT ![k] =
                      DetachAll(@, {x \in Attached(@) : x[1] = "remote"})]
    BY <1>3 DEF DetachSession
  <2>2. k \in Open
    BY <2>1 DEF Resolve
  <2> DEFINE X == {x \in Attached(table[k]) : x[1] = "remote"}
             s == DetachAll(table[k], X)
  <2>3. table' = [table EXCEPT ![k] = s]
    BY <2>1, <2>2 DEF Open
  <2> HIDE DEF X
  <2>4. /\ Sound(s)
        /\ Attached(s) = Attached(table[k]) \ X
        /\ s.told = table[k].told
        /\ Away(table[k]) => Away(s)
    BY <1>0, <2>2, DetachSound DEF TableOK, Open
  <2> HIDE DEF s
  <2>5. Within(s, {}, k)
    BY <2>2, <2>4 DEF Within, Known
  <2> QED BY <1>0, <2>2, <2>3, <2>4, <2>5, OneMoves
<1>4. CASE UNCHANGED table
  BY <1>0, <1>4, StaysMoves
<1> QED BY <1>1, <1>2, <1>3, <1>4 DEF FrameApply

LEMMA LocalAttachMoves ==
  ASSUME TermInv, NEW a \in Locals, NEW h, LocalAttach(a, h)
  PROVE  Moves(table', {Local(a)})
<1>0. TableOK(table)
  BY DEF TermInv
<1>1. PICK k \in LocalKey(h) :
        table' = [table EXCEPT ![k] = AttachedLocal(@, a)]
  BY DEF LocalAttach
<1>2. k \in Open
  BY <1>1 DEF LocalKey
<1> DEFINE s == AttachedLocal(table[k], a)
<1>3. Local(a) \notin Known(table[k])
  <2>1. Local(a) \notin KnownTo(table)
    BY DEF LocalAttach, TermInv
  <2> QED BY <1>2, <2>1, ConsumersAre DEF KnownTo, Open
<1>4. Sound(s) /\ Known(s) \subseteq Known(table[k]) \cup {Local(a)}
      /\ Attached(s) \subseteq Attached(table[k]) \cup {Local(a)}
      /\ Away(s)
  BY <1>0, <1>2, <1>3, AttachSound DEF TableOK, Open
<1>5. table' = [table EXCEPT ![k] = s]
  BY <1>1, <1>2 DEF Open
<1> HIDE DEF s
<1>6. Within(s, {Local(a)}, k)
  BY <1>2, <1>4 DEF Within
<1> QED BY <1>0, <1>2, <1>4, <1>5, <1>6, OneMoves

LEMMA UserMoves ==
  ASSUME TermInv, LocalUser \/ Revocation \/ Sweep
  PROVE  Moves(table', {})
<1>0. TableOK(table)
  BY DEF TermInv
<1>1. ASSUME NEW k \in Keys, CreateLocal(k) PROVE Moves(table', {})
  <2> DEFINE s == Shell("detached", <<>>)
  <2>1. Sound(s) /\ Known(s) = {}
    BY NewSound
  <2>2. k \notin Open /\ table' = Joined(table, k, s) /\ Owner(k) # "login"
    BY <1>1 DEF CreateLocal
  <2> HIDE DEF s
  <2> QED BY <1>0, <2>1, <2>2, NewMoves
<1>2. ASSUME NEW k \in Keys, KillLocal(k) PROVE Moves(table', {})
  BY <1>0, <1>2, FewerMoves DEF KillLocal
<1>3. CASE EndAll
  <2>1. DOMAIN table' = {}
    BY <1>3 DEF EndAll
  <2> QED BY <2>1 DEF Moves, TableOK
<1>4. CASE TerminalOff \/ TerminalLocalOff \/ LoginEnds \/ ControlRevoked
  BY <1>0, <1>4, StaysMoves
     DEF TerminalOff, TerminalLocalOff, LoginEnds, ControlRevoked
<1>5. CASE ControlOff \/ EndLogin
  BY <1>0, <1>5, FewerMoves DEF ControlOff, EndLogin
<1>6. CASE Sweep
  <2> DEFINE S == {k \in Open : ~Swept(k)}
  <2>1. table' = Restrict(table, Open \cap S)
    <3>1. S = Open \cap S
      OBVIOUS
    <3> QED BY <1>6, <3>1 DEF Sweep
  <2> QED BY <1>0, <2>1, FewerMoves
<1> QED
  BY <1>1, <1>2, <1>3, <1>4, <1>5, <1>6 DEF LocalUser, Revocation

LEMMA ShellMoves ==
  ASSUME TermInv, NEW k \in Open,
         ShellWrites(k) \/ ShellExits(k) \/ IdleLong(k)
  PROVE  Moves(table', {})
<1>0. TableOK(table) /\ Sound(table[k]) /\ table[k] \in Session
  BY DEF TermInv, TableOK, Open, Sound
<1>1. PICK r \in Session : /\ table' = [table EXCEPT ![k] = r]
                           /\ r.output = table[k].output
                           /\ r.told = table[k].told
                           /\ r.state = table[k].state
                           /\ \/ r.since = table[k].since
                              \/ "none" \notin {r.since, table[k].since}
  <2>1. CASE ShellWrites(k)
    <3> DEFINE r == [table[k] EXCEPT !.unread = table[k].unread + 1]
    <3>1. /\ r \in Session /\ r.output = table[k].output
          /\ r.told = table[k].told /\ r.state = table[k].state
          /\ r.since = table[k].since
      BY <1>0 DEF Session
    <3>2. table' = [table EXCEPT ![k] = r]
      BY <1>0, <2>1 DEF ShellWrites, Open
    <3> QED BY <3>1, <3>2
  <2>2. CASE ShellExits(k)
    <3> DEFINE r == [table[k] EXCEPT !.alive = FALSE]
    <3>1. /\ r \in Session /\ r.output = table[k].output
          /\ r.told = table[k].told /\ r.state = table[k].state
          /\ r.since = table[k].since
      BY <1>0 DEF Session
    <3>2. table' = [table EXCEPT ![k] = r]
      BY <1>0, <2>2 DEF ShellExits, Open
    <3> QED BY <3>1, <3>2
  <2>3. CASE IdleLong(k)
    <3> DEFINE r == [table[k] EXCEPT !.since = "long"]
    <3>1. /\ r \in Session /\ r.output = table[k].output
          /\ r.told = table[k].told /\ r.state = table[k].state
          /\ r.since = "long" /\ table[k].since = "now"
      BY <1>0, <2>3 DEF Session, IdleLong
    <3>2. table' = [table EXCEPT ![k] = r]
      BY <1>0, <2>3 DEF IdleLong, Open
    <3> QED BY <3>1, <3>2
  <2> QED BY <2>1, <2>2, <2>3
<1>2. /\ Sound(r)
      /\ Known(r) = Known(table[k])
      /\ Attached(r) = Attached(table[k])
      /\ Away(table[k]) => Away(r)
  BY <1>0, <1>1, SameSound
<1>3. Within(r, {}, k)
  BY <1>2 DEF Within
<1> QED BY <1>0, <1>1, <1>2, <1>3, OneMoves

-----------------------------------------------------------------------------
(***************************************************************************)
(* Every step keeps the invariant.                                         *)
(***************************************************************************)
LEMMA ConnStep ==
  ASSUME TermInv, NEW c \in Conns,
         Pump(c) \/ ChannelCloses(c) \/ Frames(c) \/ FrameApply(c)
  PROVE  TermInv'
<1>0. TableOK(table) /\ ~repeated /\ TasksOK
  BY DEF TermInv
<1>1. CASE PumpCheck(c)
  <2>1. ~repeated' /\ TasksOK' /\ attach' = attach
    BY <1>0, <1>1 DEF PumpCheck, TasksOK, grants, history, bounds
  <2> QED BY <1>1, <2>1, PumpCheckMoves, InvSame
<1>2. CASE PumpRead(c)
  <2>1. TasksOK' /\ attach' = attach
    BY <1>0, <1>2 DEF PumpRead, TasksOK, grants, history
  <2> QED BY <1>2, <2>1, PumpReadMoves, InvSame
<1>3. CASE PumpReap(c)
  <2>1. ~repeated' /\ TasksOK' /\ attach' = attach
    BY <1>0, <1>3 DEF PumpReap, TasksOK, grants, history, bounds
  <2> QED BY <1>3, <2>1, PumpReapMoves, InvSame
<1>4. CASE PumpRelease(c)
  <2>1. ~repeated' /\ TasksOK' /\ attach' = attach
    BY <1>0, <1>4 DEF PumpRelease, TasksOK, grants, history, bounds
  <2> QED BY <1>4, <2>1, PumpReleaseMoves, InvSame
<1>5. CASE ChannelCloses(c)
  <2>1. ~repeated' /\ TasksOK' /\ attach' = attach /\ UNCHANGED table
    BY <1>0, <1>5 DEF ChannelCloses, TasksOK, grants, history, bounds
  <2> QED BY <1>0, <2>1, StaysMoves, InvSame
<1>6. CASE Frames(c)
  <2>1. ~repeated' /\ TasksOK' /\ attach' = attach /\ UNCHANGED table
    BY <1>0, <1>6 DEF Frames, FrameRead, TasksOK, grants, history
  <2> QED BY <1>0, <2>1, StaysMoves, InvSame
<1>7. CASE FrameApply(c)
  <2>1. ~repeated' /\ TasksOK' /\ attach' = attach
    BY <1>0, <1>7 DEF FrameApply, TasksOK, grants, history, bounds
  <2> QED BY <1>7, <2>1, FrameApplyMoves, InvSame
<1> QED
  BY <1>1, <1>2, <1>3, <1>4, <1>5, <1>6, <1>7 DEF Pump

LEMMA LocalStep ==
  ASSUME TermInv, NEW a \in Locals,
         Attachment(a) \/ \E k \in Open : LocalAttach(a, k[2])
  PROVE  TermInv'
<1>0. TableOK(table) /\ ~repeated /\ TasksOK
  BY DEF TermInv
<1> DEFINE Same == \A b \in Locals :
                     attach[b].at # "none" => attach'[b].at # "none"
<1>1. CASE LocalAnswered(a) \/ LocalAnswerFails(a)
  <2>1. ~repeated' /\ TasksOK' /\ Same /\ UNCHANGED table
    BY <1>0, <1>1
       DEF LocalAnswered, LocalAnswerFails, TasksOK, grants, history, bounds
  <2> QED BY <1>0, <2>1, StaysMoves, InvAfter
<1>2. CASE LocalRead(a)
  <2>1. TasksOK' /\ Same
    BY <1>0, <1>2 DEF LocalRead, TasksOK, grants, history
  <2> QED BY <1>2, <2>1, LocalReadMoves, InvAfter
<1>3. CASE LocalLeave(a)
  <2>1. ~repeated' /\ TasksOK' /\ Same
    BY <1>0, <1>3 DEF LocalLeave, TasksOK, grants, history, bounds
  <2> QED BY <1>3, <2>1, LocalLeaveMoves, InvAfter
<1>4. ASSUME NEW h, LocalAttach(a, h) PROVE TermInv'
  <2>1. PICK k \in Keys :
          attach' = [attach EXCEPT ![a] = [at |-> "answer", key |-> k]]
    BY <1>0, <1>4 DEF LocalAttach, LocalKey, TableOK, Open
  <2>2. attach'[a].at = "answer" /\ \A b \in Locals \ {a} :
                                      attach'[b] = attach[b]
    BY <1>0, <2>1 DEF TasksOK
  <2>3. ~repeated' /\ TasksOK'
    BY <1>0, <1>4, <2>1 DEF LocalAttach, TasksOK, grants, history, bounds
  <2>4. \A b \in Locals : Local(b) = Local(a) => b = a
    BY DEF Local
  <2>5. \A b \in Locals :
          attach[b].at # "none" \/ Local(b) \in {Local(a)}
            => attach'[b].at # "none"
    BY <2>2, <2>4
  <2> HIDE DEF Same
  <2> QED BY <1>4, <2>3, <2>5, LocalAttachMoves, InvAfter
<1> QED BY <1>1, <1>2, <1>3, <1>4 DEF Attachment

LEMMA OtherStep ==
  ASSUME TermInv,
         \/ LocalUser \/ Revocation \/ Sweep
         \/ \E k \in Open : ShellWrites(k) \/ ShellExits(k) \/ IdleLong(k)
  PROVE  TermInv'
<1>0. ~repeated /\ TasksOK
  BY DEF TermInv
<1>1. Moves(table', {})
  BY UserMoves, ShellMoves
<1>2. ~repeated' /\ TasksOK' /\ attach' = attach
  <2>1. CASE LocalUser
    <3>1. UNCHANGED <<stop, pump, frame, attach, repeated, strays>>
      BY <2>1 DEF LocalUser, CreateLocal, KillLocal, EndAll, TerminalOff,
         TerminalLocalOff, LoginEnds, ControlOff, tasks, history
    <3>2. user' = user \/ user' \in {"end", "revoke"}
      BY <2>1 DEF LocalUser, CreateLocal, KillLocal, EndAll, TerminalOff,
         TerminalLocalOff, LoginEnds, ControlOff, grants, history
    <3> QED BY <1>0, <3>1, <3>2 DEF TasksOK
  <2>2. CASE Revocation \/ Sweep
    BY <1>0, <2>2 DEF Revocation, EndLogin, ControlRevoked, Sweep,
       TasksOK, tasks, grants, history, bounds
  <2>3. CASE \E k \in Open : ShellWrites(k) \/ ShellExits(k) \/ IdleLong(k)
    BY <1>0, <2>3 DEF ShellWrites, ShellExits, IdleLong, TasksOK, tasks,
       grants, history, bounds
  <2> QED BY <2>1, <2>2, <2>3
<1> QED BY <1>1, <1>2, InvAfter

LEMMA TermStep ==
  ASSUME TermInv, [TermNext]_termVars
  PROVE  TermInv'
<1>1. CASE UNCHANGED termVars
  BY <1>1 DEF termVars, tasks, grants, history, TermInv, TasksOK, TableOK, KnownTo,
              OfOwner, Open
<1> QED BY <1>1, ConnStep, LocalStep, OtherStep DEF TermNext

LEMMA TermInvariant == TermSpec => []TermInv
  BY TermStart, TermStep, PTL DEF TermSpec

-----------------------------------------------------------------------------
(***************************************************************************)
(* Types of the table and of the tasks: every session the user, the frames *)
(* and the readers leave behind is a session.                              *)
(***************************************************************************)
THEOREM TermTypes == TermSpec => []TermTypeOK
<1>1. TermInv => TermTypeOK
  <2> SUFFICES ASSUME TermInv PROVE TermTypeOK
    OBVIOUS
  <2>1. ASSUME NEW k \in Open PROVE SessionOK(table[k])
    <3>1. table[k] \in Session /\ table[k].output \in Queue
      BY DEF TermInv, TableOK, Open, Sound, Session
    <3> QED BY <3>1, QueueIs DEF SessionOK, Session, Attached
  <2> QED BY <2>1 DEF TermInv, TableOK, TasksOK, TermTypeOK, Open
<1> QED BY <1>1, TermInvariant, PTL

(***************************************************************************)
(* A session has at most one connection of the controller, for any number  *)
(* of connections, reopened in any order (Sessions::open).                 *)
(***************************************************************************)
THEOREM OneRemoteEach == TermSpec => []OneRemote
<1>1. TermInv => OneRemote
  <2> SUFFICES ASSUME TermInv, NEW k \in Open
               PROVE  Cardinality({x \in Attached(table[k]) :
                                     x[1] = "remote"}) <= 1
    BY DEF OneRemote
  <2> DEFINE R == {x \in Attached(table[k]) : x[1] = "remote"}
  <2>1. Sound(table[k]) /\ Attached(table[k]) \subseteq Consumers
    BY QueueIs DEF TermInv, TableOK, Open, Sound, Session, Attached
  <2>2. \A x \in R : \E c \in Conns : x = Remote(c)
    BY <2>1, ConsumersAre DEF Consumers
  <2>3. \A x, y \in R : x = y
    BY <2>1, <2>2 DEF Sound, OneOf
  <2>4. CASE R = {}
    BY <2>4, FS_EmptySet
  <2>5. CASE R # {}
    <3>1. PICK x : x \in R
      BY <2>5
    <3>2. R = {x}
      BY <2>3, <3>1
    <3>3. Cardinality({x}) = 1
      BY FS_Singleton
    <3> HIDE DEF R
    <3>4. Cardinality(R) <= 1
      BY <3>2, <3>3
    <3> QED BY <3>4 DEF R
  <2> QED BY <2>4, <2>5
<1> QED BY <1>1, TermInvariant, PTL

(***************************************************************************)
(* Each consumer is told of an exit once and nothing comes after it, for   *)
(* any number of readers that drain the shells for each other (pump).      *)
(***************************************************************************)
THEOREM NothingAfterExit == TermSpec => []ExitIsLast
<1>1. TermInv => ExitIsLast
  BY DEF TermInv, ExitIsLast
<1> QED BY <1>1, TermInvariant, PTL

(***************************************************************************)
(* No queue grows past the high-water mark by more than one reading,       *)
(* however many shells and readers share the reading (drain).              *)
(***************************************************************************)
THEOREM QueuesBounded == TermSpec => []BacklogBounded
<1>1. TermInv => BacklogBounded
  BY DEF TermInv, TableOK, Open, Sound, Bounded, BacklogBounded
<1> QED BY <1>1, TermInvariant, PTL

-----------------------------------------------------------------------------
(***************************************************************************)
(* Until a shell has exited, its state and its idle time tell whether      *)
(* anybody is attached, for any number of consumers that come and go       *)
(* (detach, open, attach_local).                                           *)
(***************************************************************************)
THEOREM IdleIsAlone == TermSpec => []IdleWhenAlone
<1>1. TermInv => IdleWhenAlone
  <2> SUFFICES ASSUME TermInv, NEW k \in Open, table[k].state # "exited"
               PROVE  /\ table[k].state = "running" <=> table[k].output # <<>>
                      /\ table[k].output # <<>> => table[k].since = "none"
                      /\ table[k].output = <<>> /\ Owner(k) = "login"
                           => table[k].since # "none"
    BY DEF IdleWhenAlone
  <2>1. Sound(table[k]) /\ table[k].output \in Queue
    BY DEF TermInv, TableOK, Open, Sound, Session
  <2>2. table[k].output = <<>> <=> Attached(table[k]) = {}
    BY <2>1, EmptyIs DEF Attached
  <2>3. Owner(k) = "login" => Away(table[k])
    BY DEF TermInv, OfOwner
  <2> QED BY <2>1, <2>2, <2>3 DEF Sound, Marked, Away
<1> QED BY <1>1, TermInvariant, PTL

-----------------------------------------------------------------------------
(***************************************************************************)
(* Letting go: a release, and a leaving, take the consumer off every shell,*)
(* and only a handler that opens a session brings a connection back to one.*)
(***************************************************************************)
HeldInv ==
    /\ \A c \in Conns \ strays :
         pump[c] = "released" => Remote(c) \notin AttachedTo(table)
    /\ \A a \in Locals :
         attach[a].at = "gone" => Local(a) \notin AttachedTo(table)

LEMMA HeldStart == TermInit => HeldInv
<1> SUFFICES ASSUME TermInit PROVE HeldInv
  OBVIOUS
<1>1. DOMAIN table = {}
  BY DEF TermInit
<1>2. AttachedTo(table) = {}
  BY <1>1 DEF AttachedTo
<1> QED BY <1>2 DEF TermInit, HeldInv

\* Whoever goes in a step lets go in it, and nobody who is gone is attached.
LEMMA HeldAfter ==
  ASSUME HeldInv, NEW Y, Moves(table', Y), strays \subseteq strays',
         \A c \in Conns \ strays' :
             pump'[c] = "released" =>
               \/ pump[c] = "released" /\ Remote(c) \notin Y
               \/ Remote(c) \notin AttachedTo(table'),
         \A a \in Locals :
             attach'[a].at = "gone" =>
               \/ attach[a].at = "gone" /\ Local(a) \notin Y
               \/ Local(a) \notin AttachedTo(table')
  PROVE  HeldInv'
<1>1. AttachedTo(table') \subseteq AttachedTo(table) \cup Y
  BY MovesMeans
<1>2. ASSUME NEW c \in Conns \ strays', pump'[c] = "released"
      PROVE  Remote(c) \notin AttachedTo(table')
  BY <1>1, <1>2 DEF HeldInv
<1>3. ASSUME NEW a \in Locals, attach'[a].at = "gone"
      PROVE  Local(a) \notin AttachedTo(table')
  BY <1>1, <1>3 DEF HeldInv
<1> QED BY <1>2, <1>3 DEF HeldInv

\* A step of a pump, but for the release.
LEMMA HeldPump ==
  ASSUME HeldInv, TasksOK, NEW c \in Conns, Moves(table', {}),
         UNCHANGED <<attach, strays>>,
         NEW p, pump' = [pump EXCEPT ![c] = p], p # "released"
  PROVE  HeldInv'
<1>1. \A d \in Conns : pump'[d] = "released" => pump[d] = "released"
  BY DEF TasksOK
<1> QED BY <1>1, HeldAfter

LEMMA HeldConn ==
  ASSUME TermInv, HeldInv, NEW c \in Conns,
         Pump(c) \/ ChannelCloses(c) \/ Frames(c) \/ FrameApply(c)
  PROVE  HeldInv'
<1>0. TableOK(table) /\ TasksOK
  BY DEF TermInv
<1>1. CASE PumpCheck(c)
  <2>1. PICK p \in {"release", "read"} : pump' = [pump EXCEPT ![c] = p]
    BY <1>1 DEF PumpCheck
  <2>2. UNCHANGED <<attach, strays>>
    BY <1>1 DEF PumpCheck, history
  <2> QED BY <1>0, <1>1, <2>1, <2>2, PumpCheckMoves, HeldPump
<1>2. CASE PumpRead(c)
  <2>1. PICK p \in {"release", "reap"} : pump' = [pump EXCEPT ![c] = p]
    BY <1>2 DEF PumpRead
  <2>2. UNCHANGED <<attach, strays>>
    BY <1>2 DEF PumpRead
  <2> QED BY <1>0, <1>2, <2>1, <2>2, PumpReadMoves, HeldPump
<1>3. CASE PumpReap(c)
  <2>1. pump' = [pump EXCEPT ![c] = "check"] /\ UNCHANGED <<attach, strays>>
    BY <1>3 DEF PumpReap, history
  <2> QED BY <1>0, <1>3, <2>1, PumpReapMoves, HeldPump
<1>4. CASE PumpRelease(c)
  <2>1. /\ pump' = [pump EXCEPT ![c] = "released"]
        /\ UNCHANGED <<attach, strays>>
    BY <1>4 DEF PumpRelease, history
  <2>2. Moves(table', {}) /\ Remote(c) \notin AttachedTo(table')
    BY <1>4, PumpReleaseMoves
  <2>3. \A d \in Conns : pump'[d] = IF d = c THEN "released" ELSE pump[d]
    BY <1>0, <2>1 DEF TasksOK
  <2> QED BY <2>1, <2>2, <2>3, HeldAfter
<1>5. CASE ChannelCloses(c) \/ Frames(c)
  <2>1. UNCHANGED <<table, pump, attach, strays>>
    BY <1>5 DEF ChannelCloses, Frames, FrameRead, history
  <2> QED BY <1>0, <2>1, StaysMoves, HeldAfter
<1>6. CASE FrameApply(c)
  <2>1. /\ UNCHANGED <<pump, attach>>
        /\ strays \subseteq strays'
        /\ frame[c].kind = "open" /\ pump[c] = "released" => c \in strays'
    BY <1>6 DEF FrameApply
  <2>2. PICK Y \in {{}, {Remote(c)}} :
          Moves(table', Y) /\ (Y = {} \/ frame[c].kind = "open")
    BY <1>6, FrameApplyMoves
  <2>3. /\ \A a \in Locals : Local(a) \notin Y
        /\ \A d \in Conns \ {c} : Remote(d) \notin Y
    BY <2>2, ConsumersAre
  <2>4. \A d \in Conns \ strays' :
          pump'[d] = "released" => pump[d] = "released" /\ Remote(d) \notin Y
    BY <2>1, <2>2, <2>3
  <2> QED BY <2>1, <2>2, <2>3, <2>4, HeldAfter
<1> QED
  BY <1>1, <1>2, <1>3, <1>4, <1>5, <1>6 DEF Pump

LEMMA HeldLocal ==
  ASSUME TermInv, HeldInv, NEW a \in Locals,
         Attachment(a) \/ \E k \in Open : LocalAttach(a, k[2])
  PROVE  HeldInv'
<1>0. TableOK(table) /\ TasksOK
  BY DEF TermInv
<1>1. UNCHANGED <<pump, strays>>
  BY DEF Attachment, LocalAnswered, LocalAnswerFails, LocalRead, LocalLeave,
         LocalAttach, history
<1>2. ASSUME NEW Y, Moves(table', Y), \A c \in Conns : Remote(c) \notin Y,
             \A b \in Locals :
               attach'[b].at = "gone" =>
                 \/ attach[b].at = "gone" /\ Local(b) \notin Y
                 \/ Local(b) \notin AttachedTo(table')
      PROVE  HeldInv'
  BY <1>1, <1>2, HeldAfter
<1>3. CASE LocalAnswered(a) \/ LocalAnswerFails(a)
  <2>1. UNCHANGED table /\ \A b \in Locals :
          attach'[b].at = "gone" => attach[b].at = "gone"
    BY <1>0, <1>3 DEF LocalAnswered, LocalAnswerFails, TasksOK
  <2> QED BY <1>0, <1>2, <2>1, StaysMoves
<1>4. CASE LocalRead(a)
  <2>1. \A b \in Locals : attach'[b].at = "gone" => attach[b].at = "gone"
    BY <1>0, <1>4 DEF LocalRead, TasksOK
  <2> QED BY <1>2, <1>4, <2>1, LocalReadMoves
<1>5. CASE LocalLeave(a)
  <2>1. \A b \in Locals \ {a} : attach'[b] = attach[b]
    BY <1>0, <1>5 DEF LocalLeave, TasksOK
  <2> QED BY <1>2, <1>5, <2>1, LocalLeaveMoves
<1>6. ASSUME NEW h, LocalAttach(a, h) PROVE HeldInv'
  <2>1. PICK k : attach' = [attach EXCEPT ![a] = [at |-> "answer", key |-> k]]
    BY <1>6 DEF LocalAttach
  <2>2. /\ attach'[a].at = "answer"
        /\ \A b \in Locals \ {a} : attach'[b] = attach[b]
        /\ \A b \in Locals \ {a} : Local(b) \notin {Local(a)}
    BY <1>0, <2>1 DEF TasksOK, Local
  <2>3. \A c \in Conns : Remote(c) \notin {Local(a)}
    BY ConsumersAre
  <2> QED BY <1>2, <1>6, <2>2, <2>3, LocalAttachMoves
<1> QED BY <1>3, <1>4, <1>5, <1>6 DEF Attachment

LEMMA HeldStep ==
  ASSUME TermInv, HeldInv, [TermNext]_termVars
  PROVE  HeldInv'
<1>1. CASE UNCHANGED termVars
  BY <1>1 DEF termVars, tasks, grants, history, HeldInv, AttachedTo
<1>2. CASE \/ LocalUser \/ Revocation \/ Sweep
           \/ \E k \in Open : ShellWrites(k) \/ ShellExits(k) \/ IdleLong(k)
  <2>1. Moves(table', {})
    BY <1>2, UserMoves, ShellMoves
  <2>2. UNCHANGED <<pump, attach, strays>>
    BY <1>2 DEF LocalUser, CreateLocal, KillLocal, EndAll, TerminalOff,
       TerminalLocalOff, LoginEnds, ControlOff, Revocation, EndLogin,
       ControlRevoked, Sweep, ShellWrites, ShellExits, IdleLong, tasks,
       grants, history
  <2> QED BY <2>1, <2>2, HeldAfter
<1> QED BY <1>1, <1>2, HeldConn, HeldLocal DEF TermNext

(***************************************************************************)
(* Nobody who has left is attached, for any number of connections and      *)
(* local terminals and whatever their handlers and clients do, but for the *)
(* connections a late handler brings back and the terminals whose answer   *)
(* failed (release, attach).                                               *)
(***************************************************************************)
THEOREM TheGoneLetGo == TermSpec => []GoneLetsGo
<1>1. TermInit => HeldInv
  BY HeldStart
<1>2. TermInv /\ HeldInv /\ [TermNext]_termVars => HeldInv'
  BY HeldStep
<1>3. TermInv /\ HeldInv => GoneLetsGo
  BY ConsumersAre DEF TermInv, HeldInv, GoneLetsGo, AttachedTo, Open
<1> QED BY <1>1, <1>2, <1>3, TermInvariant, PTL DEF TermSpec
=============================================================================
