--------------------------- MODULE RemoteInputProofs ---------------------------
(***************************************************************************)
(* For any keys, buttons, windows and bounds: the four invariants of       *)
(* RemoteInput.                                                            *)
(*                                                                         *)
(* The sender has one request at a time, and the worker works in order:    *)
(* what it still may commit is the sender's request or the press of an     *)
(* edge that is on record (RequestIsWork, PressKnown), so an answered      *)
(* release is the last word on its input (AnswerSettles).  A release pass  *)
(* settles one input after the other (PassShape, PassOwes), beginning with *)
(* all there are (PendingOwed).  Only control queues presses               *)
(* (OnlyControlPresses), each of which is held or followed by its release  *)
(* (PressOwed).                                                            *)
(*                                                                         *)
(* The module goes from queues of edges, over the joining of releases into *)
(* a queue, to one lemma for each step of the windows, of the session, of  *)
(* the sender and of the worker, once for the invariant and once for its   *)
(* types.                                                                  *)
(***************************************************************************)
EXTENDS RemoteInput, SequenceTheorems, FiniteSetTheorems, FunctionTheorems,
        TLAPS

-----------------------------------------------------------------------------
(***************************************************************************)
(* What a step of the worker does to what will be down at the host when    *)
(* all that is committed has arrived (EndsDown): a message committed has   *)
(* the last word on its input, and an acknowledgement changes nothing.     *)
(***************************************************************************)
\* A message is what its two fields say, and only an edge presses anything.
LEMMA MessageFields ==
    ASSUME NEW m \in Message
    PROVE  /\ m.down \in BOOLEAN
           /\ m.down => m.input \in Inputs
           /\ m = [input |-> m.input, down |-> m.down]
<1>1. CASE m \in Edge
  BY <1>1 DEF Edge
<1>2. CASE m = Probe
  <2>1. m.input = NoInput /\ m.down = FALSE
    BY <1>2 DEF Probe
  <2> QED
    BY <1>2, <2>1 DEF Probe
<1> QED
  BY <1>1, <1>2 DEF Message

\* A message committed decides what becomes of its input, and of no other.
LEMMA CommitEnds ==
    ASSUME wire \in Seq(Message), NEW m \in Message, NEW i \in Inputs,
           wire' = Append(wire, m), down' = down
    PROVE  EndsDown(i)' <=> IF m.input = i THEN m.down ELSE EndsDown(i)
<1> DEFINE w == Append(wire, m)
           l == Len(wire)
<1>0. /\ w \in Seq(Message) /\ l \in Nat /\ Len(w) = l + 1
      /\ \A n \in 1..l : w[n] = wire[n]
      /\ w[l + 1] = m
  BY AppendProperties, LenProperties
<1>1. /\ m.down \in BOOLEAN
      /\ m.down => m.input \in Inputs
      /\ m = [input |-> m.input, down |-> m.down]
  BY MessageFields
<1>2. EndsDown(i)' <=>
        \E n \in 0..l + 1 :
          /\ IF n = 0 THEN i \in down ELSE w[n] = [input |-> i, down |-> TRUE]
          /\ \A k \in n + 1..l + 1 : w[k].input # i
  <2>1. (EndsDown(i))' <=>
          \E n \in 0..Len(w) :
            /\ IF n = 0 THEN i \in down ELSE w[n] = [input |-> i, down |-> TRUE]
            /\ \A k \in n + 1..Len(w) : w[k].input # i
    BY DEF EndsDown
  <2> QED
    BY <2>1, <1>0
<1> HIDE DEF w
<1>3. CASE m.input = i
  <2>1. CASE m.down
    <3>1. m = [input |-> i, down |-> TRUE]
      BY <1>1, <1>3, <2>1
    <3>2. \A k \in (l + 1) + 1..l + 1 : w[k].input # i
      BY <1>0
    <3>3. l + 1 \in 0..l + 1 /\ l + 1 # 0
      BY <1>0
    <3>4. EndsDown(i)'
      BY <1>0, <1>2, <3>1, <3>2, <3>3
    <3> QED
      BY <3>4, <2>1, <1>3
  <2>2. CASE ~m.down
    <3>1. SUFFICES ASSUME NEW n \in 0..l + 1,
                          IF n = 0 THEN i \in down ELSE w[n] = [input |-> i, down |-> TRUE],
                          \A k \in n + 1..l + 1 : w[k].input # i
                   PROVE  FALSE
      BY <1>2, <1>3, <2>2, <1>1
    <3>2. n = l + 1
      BY <3>1, <1>3, <1>0
    <3>3. w[n] = m /\ n # 0
      BY <3>2, <1>0
    <3> QED
      BY <3>1, <3>3, <2>2
  <2> QED
    BY <2>1, <2>2, <1>1
<1>4. CASE m.input # i
  <2>1. ASSUME EndsDown(i) PROVE EndsDown(i)'
    <3>1. PICK n \in 0..l :
            /\ IF n = 0 THEN i \in down ELSE wire[n] = [input |-> i, down |-> TRUE]
            /\ \A k \in n + 1..l : wire[k].input # i
      BY <2>1 DEF EndsDown
    <3>2. n \in 0..l + 1
      BY <1>0
    <3>3. IF n = 0 THEN i \in down ELSE w[n] = [input |-> i, down |-> TRUE]
      BY <3>1, <1>0
    <3>4. \A k \in n + 1..l + 1 : w[k].input # i
      BY <3>1, <1>0, <1>4
    <3> QED
      BY <1>2, <3>2, <3>3, <3>4
  <2>2. ASSUME EndsDown(i)' PROVE EndsDown(i)
    <3>1. PICK n \in 0..l + 1 :
            /\ IF n = 0 THEN i \in down ELSE w[n] = [input |-> i, down |-> TRUE]
            /\ \A k \in n + 1..l + 1 : w[k].input # i
      BY <2>2, <1>2
    <3>2. n # l + 1
      <4> SUFFICES ASSUME n = l + 1 PROVE FALSE
        OBVIOUS
      <4>1. m = [input |-> i, down |-> TRUE]
        BY <3>1, <1>0
      <4> QED
        BY <4>1, <1>4
    <3>3. n \in 0..l
      BY <3>2, <1>0
    <3>4. IF n = 0 THEN i \in down ELSE wire[n] = [input |-> i, down |-> TRUE]
      BY <3>1, <3>3, <1>0
    <3>5. \A k \in n + 1..l : wire[k].input # i
      BY <3>1, <1>0
    <3> QED
      BY <3>3, <3>4, <3>5 DEF EndsDown
  <2> QED
    BY <2>1, <2>2, <1>4
<1> QED
  BY <1>3, <1>4

\* An acknowledgement moves a message from the wire to the host.
LEMMA AcknowledgedEnds ==
    ASSUME wire \in Seq(Message), down \subseteq Inputs, wire # <<>>, NEW i \in Inputs,
           down' = Pressed(down, Head(wire)), wire' = Tail(wire)
    PROVE  EndsDown(i)' <=> EndsDown(i)
<1> DEFINE w == Tail(wire)
           d == Pressed(down, Head(wire))
           l == Len(wire)
<1>0. /\ l \in Nat \ {0} /\ w \in Seq(Message) /\ Len(w) = l - 1
      /\ \A n \in 1..l - 1 : w[n] = wire[n + 1]
      /\ Head(wire) = wire[1] /\ wire[1] \in Message
  <2>1. l \in Nat \ {0}
    BY LenProperties
  <2>2. Head(wire) = wire[1] /\ wire[1] \in Message
    BY <2>1, ElementOfSeq
  <2> QED
    BY <2>1, <2>2, HeadTailProperties
<1>1. /\ wire[1].down => wire[1] = [input |-> wire[1].input, down |-> TRUE]
      /\ wire[1].down \in BOOLEAN
  <2>1. /\ wire[1].down \in BOOLEAN
        /\ wire[1] = [input |-> wire[1].input, down |-> wire[1].down]
    BY <1>0, MessageFields
  <2> QED
    BY <2>1
<1>2. EndsDown(i)' <=>
        \E n \in 0..l - 1 :
          /\ IF n = 0 THEN i \in d ELSE w[n] = [input |-> i, down |-> TRUE]
          /\ \A k \in n + 1..l - 1 : w[k].input # i
  <2>1. EndsDown(i)' <=>
          \E n \in 0..Len(w) :
            /\ IF n = 0 THEN i \in d ELSE w[n] = [input |-> i, down |-> TRUE]
            /\ \A k \in n + 1..Len(w) : w[k].input # i
    BY DEF EndsDown
  <2> QED
    BY <2>1, <1>0
<1>3. i \in d <=> IF wire[1].input = i THEN wire[1].down ELSE i \in down
  BY <1>0, <1>1 DEF Pressed
<1> HIDE DEF w, d
<1>4. ASSUME EndsDown(i) PROVE EndsDown(i)'
  <2>1. PICK n \in 0..l :
          /\ IF n = 0 THEN i \in down ELSE wire[n] = [input |-> i, down |-> TRUE]
          /\ \A k \in n + 1..l : wire[k].input # i
    BY <1>4 DEF EndsDown
  <2>2. \A k \in n..l - 1 : k # 0 => w[k].input # i
    BY <2>1, <1>0
  <2>3. CASE n = 0 \/ n = 1
    <3>1. i \in d
      BY <2>1, <2>3, <1>3, <1>0
    <3> QED
      BY <3>1, <2>2, <2>3, <1>0, <1>2
  <2>4. CASE n > 1
    <3>1. n - 1 \in 0..l - 1 /\ n - 1 # 0 /\ w[n - 1] = wire[n]
      BY <2>4, <1>0
    <3>2. w[n - 1] = [input |-> i, down |-> TRUE]
      BY <3>1, <2>1, <2>4
    <3>3. \A k \in (n - 1) + 1..l - 1 : w[k].input # i
      BY <2>2, <2>4, <1>0
    <3> QED
      BY <3>1, <3>2, <3>3, <1>2
  <2> QED
    BY <2>3, <2>4, <1>0
<1>5. ASSUME EndsDown(i)' PROVE EndsDown(i)
  <2>1. PICK n \in 0..l - 1 :
          /\ IF n = 0 THEN i \in d ELSE w[n] = [input |-> i, down |-> TRUE]
          /\ \A k \in n + 1..l - 1 : w[k].input # i
    BY <1>5, <1>2
  <2>2. \A k \in n + 2..l : wire[k].input # i
    <3> SUFFICES ASSUME NEW k \in n + 2..l PROVE wire[k].input # i
      OBVIOUS
    <3>1. k - 1 \in n + 1..l - 1 /\ k - 1 \in 1..l - 1 /\ (k - 1) + 1 = k
      BY <1>0
    <3> QED
      BY <3>1, <2>1, <1>0
  <2>3. CASE n = 0 /\ wire[1].input # i
    <3>1. i \in down
      BY <2>1, <2>3, <1>3
    <3>2. \A k \in 0 + 1..l : wire[k].input # i
      BY <2>2, <2>3, <1>0
    <3> QED
      BY <3>1, <3>2, <1>0 DEF EndsDown
  <2>4. CASE n = 0 /\ wire[1].input = i
    <3>1. wire[1] = [input |-> i, down |-> TRUE]
      BY <2>1, <2>4, <1>3, <1>1
    <3>2. \A k \in 1 + 1..l : wire[k].input # i
      BY <2>2, <2>4, <1>0
    <3>3. 1 \in 0..l /\ 1 # 0
      BY <1>0
    <3> QED
      BY <3>1, <3>2, <3>3 DEF EndsDown
  <2>5. CASE n # 0
    <3>1. n + 1 \in 0..l /\ n + 1 # 0 /\ wire[n + 1] = w[n]
      BY <2>5, <1>0
    <3>2. wire[n + 1] = [input |-> i, down |-> TRUE]
      BY <3>1, <2>1, <2>5
    <3>3. \A k \in (n + 1) + 1..l : wire[k].input # i
      BY <2>2, <1>0
    <3> QED
      BY <3>1, <3>2, <3>3 DEF EndsDown
  <2> QED
    BY <2>3, <2>4, <2>5
<1> QED
  BY <1>4, <1>5

\* Only inputs are ever down.
LEMMA OnlyInputsEnd ==
    ASSUME wire' \in Seq(Message), down' \subseteq Inputs, NEW i, i \notin Inputs
    PROVE  ~EndsDown(i)'
<1> SUFFICES ASSUME EndsDown(i)' PROVE FALSE
  OBVIOUS
<1>1. PICK n \in 0..Len(wire') :
        IF n = 0 THEN i \in down' ELSE wire'[n] = [input |-> i, down |-> TRUE]
  BY DEF EndsDown
<1>2. Len(wire') \in Nat
  BY LenProperties
<1>3. n # 0
  BY <1>1
<1>4. n \in 1..Len(wire')
  BY <1>1, <1>2, <1>3
<1>5. wire'[n] \in Message
  BY <1>4, ElementOfSeq
<1>6. wire'[n].input = i /\ wire'[n].down
  BY <1>1, <1>3
<1> QED
  BY <1>5, <1>6, MessageFields

\* What is down at the host when nothing is on its way is what will be.
LEMMA EmptyEnds ==
    ASSUME wire = <<>>, NEW i \in Inputs
    PROVE  EndsDown(i) <=> i \in down
<1>1. Len(wire) = 0
  OBVIOUS
<1> QED
  BY <1>1 DEF EndsDown

-----------------------------------------------------------------------------
OnlyUps(q) == \A n \in DOMAIN q : ~q[n].down

\* A press in the queue is of an input that is held, or its release follows.
PressesOwed(q, h) ==
    \A n \in DOMAIN q :
        q[n].down =>
          \/ q[n].input \in h
          \/ \E m \in DOMAIN q : m > n /\ q[m] = Up(q[n].input)

-----------------------------------------------------------------------------
(* Queues of edges.                                                         *)

LEMMA EdgeFacts ==
    /\ \A e \in Edge : e.input \in Inputs /\ e.down \in BOOLEAN
    /\ \A i \in Inputs : /\ Up(i) \in Edge /\ Up(i).input = i /\ ~Up(i).down
                         /\ Down(i) \in Edge /\ Down(i).input = i /\ Down(i).down
    /\ Edge \subseteq Message /\ Probe \in Message /\ ~Probe.down
    /\ \A e \in Edge : ~e.down => e = Up(e.input)
    /\ \A m \in Message : m.down => m \in Edge /\ m = Down(m.input)
<1>1. \A e \in Edge : e = [input |-> e.input, down |-> e.down]
  BY DEF Edge
<1>2. \A m \in Message : m.down => m \in Edge
  BY DEF Message, Probe
<1>3. \A e \in Edge : e.input \in Inputs /\ e.down \in BOOLEAN
  BY DEF Edge
<1>4. \A e \in Edge : (~e.down => e = Up(e.input)) /\ (e.down => e = Down(e.input))
  BY <1>1, <1>3 DEF Up, Down
<1>5. \A i \in Inputs : /\ Up(i) \in Edge /\ Up(i).input = i /\ ~Up(i).down
                        /\ Down(i) \in Edge /\ Down(i).input = i /\ Down(i).down
  BY DEF Up, Down, Edge
<1>6. Edge \subseteq Message /\ Probe \in Message /\ ~Probe.down
  BY DEF Message, Probe
<1> QED
  BY <1>2, <1>3, <1>4, <1>5, <1>6

LEMMA ReleasingFacts ==
    ASSUME NEW q \in Seq(Message)
    PROVE  /\ \A i : i \in Releasing(q)
                       <=> \E n \in 1..Len(q) : ~q[n].down /\ q[n].input = i
           /\ OnlyUps(q) <=> \A n \in 1..Len(q) : ~q[n].down
<1>1. DOMAIN q = 1..Len(q)
  BY LenProperties
<1> QED
  BY <1>1 DEF Releasing, OnlyUps

LEMMA EmptyReleases == Releasing(<<>>) = {} /\ OnlyUps(<<>>)
BY DEF Releasing, OnlyUps

\* What is appended is released too, if it is a release.
LEMMA AppendReleases ==
    ASSUME NEW q \in Seq(Message), NEW m \in Message
    PROVE  /\ Releasing(q) \subseteq Releasing(Append(q, m))
           /\ ~m.down => m.input \in Releasing(Append(q, m))
           /\ OnlyUps(q) /\ ~m.down => OnlyUps(Append(q, m))
<1> DEFINE r == Append(q, m)
<1>1. /\ r \in Seq(Message) /\ Len(q) \in Nat /\ Len(r) = Len(q) + 1
      /\ \A n \in 1..Len(q) : r[n] = q[n]
      /\ r[Len(q) + 1] = m
  BY AppendProperties, LenProperties
<1> HIDE DEF r
<1>2. \A i : i \in Releasing(r) <=> \E n \in 1..Len(q) + 1 : ~r[n].down /\ r[n].input = i
  BY <1>1, ReleasingFacts
<1>3. OnlyUps(r) <=> \A n \in 1..Len(q) + 1 : ~r[n].down
  BY <1>1, ReleasingFacts
<1>4. Releasing(q) \subseteq Releasing(r)
  BY <1>1, <1>2, ReleasingFacts
<1>5. ~m.down => m.input \in Releasing(r)
  BY <1>1, <1>2
<1>6. OnlyUps(q) /\ ~m.down => OnlyUps(r)
  BY <1>1, <1>3, ReleasingFacts
<1> QED
  BY <1>4, <1>5, <1>6 DEF r

\* Without its head a queue releases the same, but for the head.
LEMMA TailReleases ==
    ASSUME NEW q \in Seq(Message), q # <<>>
    PROVE  /\ Head(q) = q[1] /\ 1 \in 1..Len(q) /\ Head(q) \in Message
           /\ Tail(q) \in Seq(Message)
           /\ \A i \in Releasing(q) :
                i \in Releasing(Tail(q)) \/ (~Head(q).down /\ Head(q).input = i)
           /\ OnlyUps(q) => OnlyUps(Tail(q)) /\ ~Head(q).down
<1> DEFINE r == Tail(q)
<1>1. Len(q) \in Nat \ {0} /\ Head(q) = q[1]
  BY LenProperties
<1>2. /\ r \in Seq(Message) /\ Len(r) = Len(q) - 1 /\ Head(q) \in Message
      /\ \A n \in 1..Len(q) - 1 : r[n] = q[n + 1]
  BY HeadTailProperties
<1> HIDE DEF r
<1>3. \A i : i \in Releasing(r) <=> \E n \in 1..Len(q) - 1 : ~r[n].down /\ r[n].input = i
  BY <1>2, ReleasingFacts
<1>4. OnlyUps(r) <=> \A n \in 1..Len(q) - 1 : ~r[n].down
  BY <1>2, ReleasingFacts
<1>5. ASSUME NEW i \in Releasing(q)
      PROVE  i \in Releasing(r) \/ (~Head(q).down /\ Head(q).input = i)
  <2>1. PICK n \in 1..Len(q) : ~q[n].down /\ q[n].input = i
    BY ReleasingFacts
  <2>2. CASE n = 1
    BY <2>1, <2>2, <1>1
  <2>3. CASE n # 1
    <3>1. n - 1 \in 1..Len(q) - 1 /\ r[n - 1] = q[n]
      BY <2>3, <1>1, <1>2
    <3> QED
      BY <3>1, <2>1, <1>3
  <2> QED
    BY <2>2, <2>3
<1>6. ASSUME OnlyUps(q) PROVE OnlyUps(r) /\ ~Head(q).down
  BY <1>6, <1>1, <1>2, <1>4, ReleasingFacts
<1> QED
  BY <1>1, <1>2, <1>5, <1>6 DEF r

\* Without its head a queue owes the releases it owed, but for the head's.
LEMMA TailOwes ==
    ASSUME NEW q \in Seq(Edge), q # <<>>, NEW h, PressesOwed(q, h)
    PROVE  /\ PressesOwed(Tail(q), h)
           /\ Head(q).down => Head(q).input \in h \/ Head(q).input \in Releasing(Tail(q))
<1> DEFINE r == Tail(q)
<1>1. Len(q) \in Nat \ {0} /\ Head(q) = q[1] /\ DOMAIN q = 1..Len(q)
  BY LenProperties
<1>2. /\ r \in Seq(Edge) /\ Len(r) = Len(q) - 1 /\ DOMAIN r = 1..Len(q) - 1
      /\ \A n \in 1..Len(q) - 1 : r[n] = q[n + 1]
  BY HeadTailProperties, LenProperties
<1>3. r \in Seq(Message)
  BY <1>2, EdgeFacts
<1>4. \A n \in 1..Len(q) : q[n].input \in Inputs
  BY EdgeFacts, ElementOfSeq
<1> HIDE DEF r
<1>5. \A n, m \in 1..Len(q) : m > n => m - 1 \in 1..Len(q) - 1 /\ r[m - 1] = q[m]
  BY <1>1, <1>2
<1>6. PressesOwed(r, h)
  <2> SUFFICES ASSUME NEW n \in 1..Len(q) - 1, r[n].down, r[n].input \notin h
               PROVE  \E m \in 1..Len(q) - 1 : m > n /\ r[m] = Up(r[n].input)
    BY <1>2 DEF PressesOwed
  <2>1. n + 1 \in 1..Len(q) /\ r[n] = q[n + 1]
    BY <1>1, <1>2
  <2>2. PICK m \in 1..Len(q) : m > n + 1 /\ q[m] = Up(q[n + 1].input)
    BY <2>1, <1>1 DEF PressesOwed
  <2>3. m - 1 \in 1..Len(q) - 1 /\ m - 1 > n /\ r[m - 1] = q[m]
    BY <2>1, <2>2, <1>1, <1>5
  <2> QED
    BY <2>1, <2>2, <2>3
<1>7. ASSUME Head(q).down, Head(q).input \notin h PROVE Head(q).input \in Releasing(r)
  <2>1. PICK m \in 1..Len(q) : m > 1 /\ q[m] = Up(q[1].input)
    BY <1>1, <1>7 DEF PressesOwed
  <2>2. m - 1 \in 1..Len(q) - 1 /\ r[m - 1] = q[m]
    BY <2>1, <1>1, <1>5
  <2>3. 1 \in 1..Len(q)
    BY <1>1
  <2>4. ~r[m - 1].down /\ r[m - 1].input = Head(q).input
    BY <2>1, <2>2, <2>3, <1>1, <1>4, EdgeFacts
  <2> QED
    BY <2>2, <2>4, <1>2, <1>3, ReleasingFacts
<1> QED
  BY <1>6, <1>7 DEF r

\* A queue of releases owes nothing.
LEMMA UpsOwe == ASSUME NEW q, NEW h, OnlyUps(q) PROVE PressesOwed(q, h)
BY DEF OnlyUps, PressesOwed

\* A press that is held from now on may be queued.
LEMMA PressOwes ==
    ASSUME NEW q \in Seq(Edge), NEW h, NEW i \in Inputs, PressesOwed(q, h)
    PROVE  PressesOwed(Append(q, Down(i)), h \cup {i})
<1> DEFINE r == Append(q, Down(i))
<1>1. /\ r \in Seq(Edge) /\ Len(q) \in Nat /\ DOMAIN r = 1..Len(q) + 1
      /\ DOMAIN q = 1..Len(q)
      /\ \A n \in 1..Len(q) : r[n] = q[n]
      /\ r[Len(q) + 1] = Down(i)
  BY AppendProperties, LenProperties, EdgeFacts
<1> HIDE DEF r
<1>2. ASSUME NEW n \in 1..Len(q) + 1, r[n].down, r[n].input \notin h \cup {i}
      PROVE  \E m \in 1..Len(q) + 1 : m > n /\ r[m] = Up(r[n].input)
  <2>1. n \in 1..Len(q)
    BY <1>1, <1>2, EdgeFacts
  <2>2. PICK m \in 1..Len(q) : m > n /\ q[m] = Up(q[n].input)
    BY <2>1, <1>1, <1>2 DEF PressesOwed
  <2> QED
    BY <2>1, <2>2, <1>1
<1>3. PressesOwed(r, h \cup {i})
  BY <1>1, <1>2 DEF PressesOwed
<1> QED
  BY <1>3 DEF r

\* An input is let go of when its release is queued.
LEMMA LiftOwes ==
    ASSUME NEW q \in Seq(Edge), NEW h, NEW i \in Inputs, PressesOwed(q, h)
    PROVE  PressesOwed(Append(q, Up(i)), h \ {i})
<1> DEFINE r == Append(q, Up(i))
<1>1. /\ r \in Seq(Edge) /\ Len(q) \in Nat /\ DOMAIN r = 1..Len(q) + 1
      /\ DOMAIN q = 1..Len(q)
      /\ \A n \in 1..Len(q) : r[n] = q[n]
      /\ r[Len(q) + 1] = Up(i)
  BY AppendProperties, LenProperties, EdgeFacts
<1> HIDE DEF r
<1>2. ASSUME NEW n \in 1..Len(q) + 1, r[n].down, r[n].input \notin h \ {i}
      PROVE  \E m \in 1..Len(q) + 1 : m > n /\ r[m] = Up(r[n].input)
  <2>1. n \in 1..Len(q)
    BY <1>1, <1>2, EdgeFacts
  <2>2. CASE r[n].input = i
    <3>1. Len(q) + 1 \in 1..Len(q) + 1 /\ Len(q) + 1 > n
      BY <2>1, <1>1
    <3> QED
      BY <3>1, <2>2, <1>1
  <2>3. CASE r[n].input # i
    <3>1. q[n].down /\ q[n].input \notin h
      BY <2>1, <2>3, <1>1, <1>2
    <3>2. PICK m \in 1..Len(q) : m > n /\ q[m] = Up(q[n].input)
      BY <3>1, <2>1, <1>1 DEF PressesOwed
    <3> QED
      BY <2>1, <3>2, <1>1
  <2> QED
    BY <2>2, <2>3
<1>3. PressesOwed(r, h \ {i})
  BY <1>1, <1>2 DEF PressesOwed
<1> QED
  BY <1>3 DEF r

\* The places of a set's inputs are its positions, each taken once.
LEMMA Places ==
    ASSUME NEW S \in SUBSET Inputs
    PROVE  /\ Cardinality(S) \in Nat
           /\ \A i \in S : Place(S, i) \in 1..Cardinality(S)
           /\ \A i, j \in S : Place(S, i) = Place(S, j) => i = j
           /\ \A n \in 1..Cardinality(S) : \E i \in S : Place(S, i) = n
<1> DEFINE upto(i) == {j \in S : Rank[j] =< Rank[i]}
<1>1. /\ IsFiniteSet(S) /\ Cardinality(S) \in Nat
      /\ \A i \in S : Rank[i] \in Nat
      /\ \A i, j \in S : Rank[i] = Rank[j] => i = j
  BY RankAssumption, FS_Subset, FS_CardinalityType
<1>2. ASSUME NEW i \in S PROVE Place(S, i) \in 1..Cardinality(S)
  <2>1. upto(i) \in SUBSET S /\ i \in upto(i)
    BY <1>1
  <2>2. IsFiniteSet(upto(i)) /\ Cardinality(upto(i)) =< Cardinality(S)
    BY <2>1, <1>1, FS_Subset
  <2>3. Cardinality(upto(i)) \in Nat
    BY <2>2, FS_CardinalityType
  <2>4. Cardinality(upto(i)) # 0
    BY <2>1, <2>2, FS_EmptySet
  <2> QED
    BY <2>2, <2>3, <2>4, <1>1 DEF Place
<1>3. ASSUME NEW i \in S, NEW j \in S, Rank[i] < Rank[j]
      PROVE  Place(S, i) # Place(S, j)
  <2>1. upto(i) \in SUBSET upto(j) /\ j \in upto(j) /\ j \notin upto(i)
    BY <1>1, <1>3
  <2>2. IsFiniteSet(upto(j))
    BY <1>1, FS_Subset
  <2>3. Cardinality(upto(j)) # Cardinality(upto(i))
    BY <2>1, <2>2, FS_Subset
  <2> QED
    BY <2>3 DEF Place
<1>4. ASSUME NEW i \in S, NEW j \in S, Place(S, i) = Place(S, j)
      PROVE  i = j
  <2>1. ~(Rank[i] < Rank[j]) /\ ~(Rank[j] < Rank[i])
    BY <1>3, <1>4
  <2> QED
    BY <2>1, <1>1
<1>5. ASSUME NEW n \in 1..Cardinality(S)
      PROVE  \E i \in S : Place(S, i) = n
  <2> DEFINE N == 1..Cardinality(S)
             f == [i \in S |-> Place(S, i)]
  <2>1. f \in [S -> N]
    BY <1>2
  <2>2. \A i, j \in S : f[i] = f[j] => i = j
    BY <1>4
  <2>3. f \in Injection(S, N)
    BY <2>1, <2>2, Fun_IsInj
  <2>4. IsFiniteSet(N) /\ Cardinality(N) = Cardinality(S)
    BY <1>1, FS_Interval
  <2>5. f \in Surjection(S, N)
    BY <2>3, <2>4, FS_Injection
  <2>6. \A i \in S : f[i] = Place(S, i)
    OBVIOUS
  <2> HIDE DEF f
  <2>7. \A t \in N : \E i \in S : f[i] = t
    BY <2>5, Fun_SurjectionProperties
  <2> QED
    BY <2>6, <2>7
<1> QED
  BY <1>1, <1>2, <1>4, <1>5

\* The releases of a set release every input in it, and nothing else.
LEMMA UpsFacts ==
    ASSUME NEW S \in SUBSET Inputs
    PROVE  /\ Ups(S) \in Seq(Edge) /\ Ups(S) \in Seq(Message)
           /\ OnlyUps(Ups(S))
           /\ Releasing(Ups(S)) = S
<1> DEFINE at(n) == CHOOSE i \in S : Place(S, i) = n
           N == 1..Cardinality(S)
<1>1. Cardinality(S) \in Nat /\ \A i \in S : Place(S, i) \in N
  BY Places
<1>2. \A n \in N : at(n) \in S /\ Place(S, at(n)) = n
  BY Places
<1>3. \A i \in S : at(Place(S, i)) = i
  <2> SUFFICES ASSUME NEW i \in S PROVE at(Place(S, i)) = i
    OBVIOUS
  <2>1. at(Place(S, i)) \in S /\ Place(S, at(Place(S, i))) = Place(S, i)
    BY <1>1, <1>2
  <2> QED
    BY <2>1, Places
<1> DEFINE r == [n \in N |-> Up(at(n))]
<1> HIDE DEF at
<1>4. /\ r \in Seq(Edge) /\ Len(r) = Cardinality(S)
      /\ \A n \in N : r[n] = Up(at(n))
  <2>1. \A n \in N : Up(at(n)) \in Edge
    BY <1>2, EdgeFacts
  <2>2. r \in [N -> Edge]
    BY <2>1
  <2> QED
    BY <1>1, <2>2
<1>5. r \in Seq(Message)
  BY <1>4, EdgeFacts
<1>6. \A n \in N : r[n].input = at(n) /\ ~r[n].down
  BY <1>2, <1>4, EdgeFacts
<1>7. Ups(S) = r
  BY DEF Ups, at
<1> HIDE DEF r
<1>8. OnlyUps(r)
  BY <1>4, <1>5, <1>6, ReleasingFacts
<1>9. Releasing(r) = S
  <2>1. \A i : i \in Releasing(r) <=> \E n \in N : at(n) = i
    BY <1>4, <1>5, <1>6, ReleasingFacts
  <2> QED
    BY <2>1, <1>1, <1>2, <1>3
<1> QED
  BY <1>4, <1>5, <1>7, <1>8, <1>9

\* A joined sequence is the one, then the other.
LEMMA Joined ==
    ASSUME NEW s \in Seq(Edge), NEW t \in Seq(Edge)
    PROVE  /\ s \o t \in Seq(Edge) /\ Len(s \o t) = Len(s) + Len(t)
           /\ Len(s) \in Nat /\ Len(t) \in Nat
           /\ \A n \in 1..Len(s) : (s \o t)[n] = s[n]
           /\ \A n \in 1..Len(t) : (s \o t)[Len(s) + n] = t[n]
<1>0. Len(s) \in Nat /\ Len(t) \in Nat
  BY LenProperties
<1>1. /\ s \o t \in Seq(Edge) /\ Len(s \o t) = Len(s) + Len(t)
      /\ \A n \in 1..Len(s) + Len(t) :
           (s \o t)[n] = IF n <= Len(s) THEN s[n] ELSE t[n - Len(s)]
  BY ConcatProperties
<1>2. \A n \in 1..Len(s) : n \in 1..Len(s) + Len(t) /\ n <= Len(s)
  BY <1>0
<1>3. \A n \in 1..Len(t) : /\ Len(s) + n \in 1..Len(s) + Len(t) /\ ~(Len(s) + n <= Len(s))
                           /\ (Len(s) + n) - Len(s) = n
  BY <1>0
<1> QED
  BY <1>0, <1>1, <1>2, <1>3

\* What reconciliation makes of a queue: ordinary keys before the modifiers.
Inserted(q, n, a, b) == SubSeq(q, 1, n) \o a \o SubSeq(q, n + 1, Len(q)) \o b

\* A reconciled queue keeps its edges in their order and adds releases.
LEMMA InsertFacts ==
    ASSUME NEW q \in Seq(Edge), NEW a \in Seq(Edge), NEW b \in Seq(Edge),
           OnlyUps(a), OnlyUps(b), NEW n \in 0..Len(q)
    PROVE  /\ Inserted(q, n, a, b) \in Seq(Edge)
           /\ Releasing(q) \cup Releasing(a) \cup Releasing(b)
                \subseteq Releasing(Inserted(q, n, a, b))
           /\ OnlyUps(q) => OnlyUps(Inserted(q, n, a, b))
           /\ \A h : PressesOwed(q, h) => PressesOwed(Inserted(q, n, a, b), h)
<1> DEFINE r == Inserted(q, n, a, b)
           s == SubSeq(q, 1, n)
           t == SubSeq(q, n + 1, Len(q))
           l == Len(q)
           k == Len(a)
           o == Len(b)
<1>0. l \in Nat /\ k \in Nat /\ o \in Nat /\ n \in Nat /\ n =< l
  BY LenProperties
<1>a. l = Len(q) /\ k = Len(a) /\ o = Len(b)
  OBVIOUS
<1>1. \A j \in 1..l : q[j] \in Edge
  BY ElementOfSeq
<1>2. /\ s \in Seq(Edge) /\ Len(s) = n
      /\ \A j \in 1..n : s[j] = q[j]
  <2>1. /\ SubSeq(q, 1, n) \in Seq(Edge)
        /\ Len(SubSeq(q, 1, n)) = IF 1 <= n THEN n - 1 + 1 ELSE 0
        /\ \A j \in 1..n - 1 + 1 : SubSeq(q, 1, n)[j] = q[1 + j - 1]
    BY <1>0, <1>1, SubSeqProperties
  <2> QED
    BY <2>1, <1>0
<1>3. /\ t \in Seq(Edge) /\ Len(t) = l - n
      /\ \A j \in 1..l - n : t[j] = q[n + j]
  <2>1. /\ SubSeq(q, n + 1, l) \in Seq(Edge)
        /\ Len(SubSeq(q, n + 1, l)) = IF n + 1 <= l THEN l - (n + 1) + 1 ELSE 0
        /\ \A j \in 1..l - (n + 1) + 1 : SubSeq(q, n + 1, l)[j] = q[(n + 1) + j - 1]
    <3>1. \A j \in n + 1..l : q[j] \in Edge
      BY <1>0, <1>1
    <3>2. n + 1 \in Int /\ l \in Int
      BY <1>0
    <3> QED
      BY <3>1, <3>2, SubSeqProperties
  <2> QED
    BY <2>1, <1>0
<1>b. r = ((s \o a) \o t) \o b
  BY DEF Inserted
<1> HIDE DEF r, s, t, l, k, o
<1> DEFINE sa == s \o a
           sat == sa \o t
<1>4. /\ sa \in Seq(Edge) /\ Len(sa) = n + k
      /\ \A j \in 1..n : sa[j] = q[j]
      /\ \A j \in 1..k : sa[n + j] = a[j]
  BY <1>0, <1>a, <1>2, Joined
<1> HIDE DEF sa
<1>5. /\ sat \in Seq(Edge) /\ Len(sat) = l + k
      /\ \A j \in 1..n + k : sat[j] = sa[j]
      /\ \A j \in 1..l - n : sat[(n + k) + j] = q[n + j]
  <2>1. n + k \in Nat /\ l - n \in Nat /\ (n + k) + (l - n) = l + k
    BY <1>0
  <2>2. /\ sat \in Seq(Edge) /\ Len(sat) = (n + k) + (l - n)
        /\ \A j \in 1..n + k : sat[j] = sa[j]
        /\ \A j \in 1..l - n : sat[(n + k) + j] = t[j]
    <3>1. /\ sat \in Seq(Edge) /\ Len(sat) = Len(sa) + Len(t)
          /\ \A j \in 1..Len(sa) : sat[j] = sa[j]
          /\ \A j \in 1..Len(t) : sat[Len(sa) + j] = t[j]
      BY <1>3, <1>4, Joined
    <3> QED
      BY <3>1, <1>3, <1>4
  <2> QED
    BY <2>1, <2>2, <1>3
<1> HIDE DEF sat
<1>6. /\ r \in Seq(Edge) /\ Len(r) = (l + k) + o
      /\ \A j \in 1..l + k : r[j] = sat[j]
      /\ \A j \in 1..o : r[(l + k) + j] = b[j]
  <2>1. r = sat \o b
    BY <1>b DEF sat, sa
  <2>2. l + k \in Nat
    BY <1>0
  <2>3. /\ sat \o b \in Seq(Edge) /\ Len(sat \o b) = Len(sat) + Len(b)
        /\ \A j \in 1..Len(sat) : (sat \o b)[j] = sat[j]
        /\ \A j \in 1..Len(b) : (sat \o b)[Len(sat) + j] = b[j]
    BY <1>5, Joined
  <2> QED
    BY <2>1, <2>3, <1>a, <1>5
<1> DEFINE f(j) == IF j =< n THEN j ELSE j + k
<1>7. \A j, m \in 1..l : m > j => f(m) > f(j)
  BY <1>0
<1>f. ASSUME NEW j \in 1..l PROVE f(j) \in 1..(l + k) + o /\ r[f(j)] = q[j]
  <2>1. CASE j =< n
    <3>1. j \in 1..n /\ j \in 1..n + k /\ j \in 1..l + k /\ j \in 1..(l + k) + o
      BY <2>1, <1>0
    <3> QED
      BY <3>1, <2>1, <1>4, <1>5, <1>6
  <2>2. CASE ~(j =< n)
    <3>1. /\ j - n \in 1..l - n /\ (n + k) + (j - n) = j + k /\ n + (j - n) = j
          /\ j + k \in 1..l + k /\ j + k \in 1..(l + k) + o
      BY <2>2, <1>0
    <3>2. r[j + k] = q[j]
      BY <3>1, <1>5, <1>6
    <3>3. f(j) = j + k
      BY <2>2
    <3> QED
      BY <3>1, <3>2, <3>3
  <2> QED
    BY <2>1, <2>2
<1>8. ASSUME NEW j \in 1..(l + k) + o
      PROVE  (\E m \in 1..l : j = f(m)) \/ ~r[j].down
  <2>1. CASE j =< n
    <3>1. j \in 1..l /\ f(j) = j
      BY <2>1, <1>0
    <3> QED
      BY <3>1
  <2>4. CASE j > n + k /\ j =< l + k
    <3>1. j - k \in 1..l /\ f(j - k) = j
      BY <2>4, <1>0
    <3> QED
      BY <3>1
  <2>2. CASE j > n /\ j =< n + k
    <3>1. j - n \in 1..k /\ n + (j - n) = j /\ j \in 1..n + k /\ j \in 1..l + k
      BY <2>2, <1>0
    <3>2. r[j] = a[j - n]
      BY <3>1, <1>4, <1>5, <1>6
    <3>3. DOMAIN a = 1..k
      BY <1>a, LenProperties
    <3> QED
      BY <3>1, <3>2, <3>3 DEF OnlyUps
  <2>3. CASE j > l + k
    <3>1. j - (l + k) \in 1..o /\ (l + k) + (j - (l + k)) = j
      BY <2>3, <1>0
    <3>2. r[j] = b[j - (l + k)]
      BY <3>1, <1>6
    <3>3. DOMAIN b = 1..o
      BY <1>a, LenProperties
    <3> QED
      BY <3>1, <3>2, <3>3 DEF OnlyUps
  <2>5. j \in Int /\ (j =< n \/ (j > n /\ j =< n + k) \/ (j > n + k /\ j =< l + k) \/ j > l + k)
    BY <1>0
  <2> QED
    BY <2>1, <2>2, <2>3, <2>4, <2>5
<1> HIDE DEF f
<1>9. q \in Seq(Message) /\ a \in Seq(Message) /\ b \in Seq(Message) /\ r \in Seq(Message)
  BY <1>6, EdgeFacts
<1>10. DOMAIN q = 1..l /\ DOMAIN r = 1..(l + k) + o
  BY <1>a, <1>6, LenProperties
<1>c. \A i : i \in Releasing(r) <=> \E j \in 1..(l + k) + o : ~r[j].down /\ r[j].input = i
  <2>1. \A i : i \in Releasing(r) <=> \E j \in 1..Len(r) : ~r[j].down /\ r[j].input = i
    BY <1>9, ReleasingFacts
  <2> QED
    BY <2>1, <1>6
<1>11. Releasing(q) \subseteq Releasing(r)
  <2>1. \A i : i \in Releasing(q) <=> \E j \in 1..l : ~q[j].down /\ q[j].input = i
    BY <1>a, <1>9, ReleasingFacts
  <2>9. ASSUME NEW i \in Releasing(q) PROVE i \in Releasing(r)
    <3>1. PICK j \in 1..l : ~q[j].down /\ q[j].input = i
      BY <2>1
    <3>2. f(j) \in 1..(l + k) + o /\ r[f(j)] = q[j]
      BY <1>f
    <3>3. ~r[f(j)].down /\ r[f(j)].input = i
      BY <3>1, <3>2
    <3> QED
      BY <3>2, <3>3, <1>c
  <2> QED
    BY <2>9
<1>12. Releasing(a) \subseteq Releasing(r)
  <2>1. \A i : i \in Releasing(a) <=> \E j \in 1..k : ~a[j].down /\ a[j].input = i
    BY <1>a, <1>9, ReleasingFacts
  <2>2. ASSUME NEW j \in 1..k PROVE n + j \in 1..(l + k) + o /\ r[n + j] = a[j]
    <3>1. n + j \in 1..n + k /\ n + j \in 1..l + k /\ n + j \in 1..(l + k) + o
      BY <1>0
    <3> QED
      BY <3>1, <1>4, <1>5, <1>6
  <2>9. ASSUME NEW i \in Releasing(a) PROVE i \in Releasing(r)
    <3>1. PICK j \in 1..k : ~a[j].down /\ a[j].input = i
      BY <2>1
    <3>2. n + j \in 1..(l + k) + o /\ r[n + j] = a[j]
      BY <2>2
    <3>3. ~r[n + j].down /\ r[n + j].input = i
      BY <3>1, <3>2
    <3> QED
      BY <3>2, <3>3, <1>c
  <2> QED
    BY <2>9
<1>13. Releasing(b) \subseteq Releasing(r)
  <2>1. \A i : i \in Releasing(b) <=> \E j \in 1..o : ~b[j].down /\ b[j].input = i
    BY <1>a, <1>9, ReleasingFacts
  <2>2. \A j \in 1..o : (l + k) + j \in 1..(l + k) + o
    BY <1>0
  <2>9. ASSUME NEW i \in Releasing(b) PROVE i \in Releasing(r)
    <3>1. PICK j \in 1..o : ~b[j].down /\ b[j].input = i
      BY <2>1
    <3>2. (l + k) + j \in 1..(l + k) + o /\ r[(l + k) + j] = b[j]
      BY <2>2, <1>6
    <3>3. ~r[(l + k) + j].down /\ r[(l + k) + j].input = i
      BY <3>1, <3>2
    <3> QED
      BY <3>2, <3>3, <1>c
  <2> QED
    BY <2>9
<1>14. ASSUME OnlyUps(q) PROVE OnlyUps(r)
  <2> SUFFICES ASSUME NEW j \in 1..(l + k) + o PROVE ~r[j].down
    BY <1>10 DEF OnlyUps
  <2>1. ASSUME NEW m \in 1..l, j = f(m) PROVE ~r[j].down
    <3>1. r[j] = q[m]
      BY <2>1, <1>f
    <3>2. ~q[m].down
      BY <1>14, <1>10 DEF OnlyUps
    <3> QED
      BY <3>1, <3>2
  <2> QED
    BY <2>1, <1>8
<1>15. ASSUME NEW h, PressesOwed(q, h) PROVE PressesOwed(r, h)
  <2> SUFFICES ASSUME NEW j \in 1..(l + k) + o, r[j].down, r[j].input \notin h
               PROVE  \E m \in 1..(l + k) + o : m > j /\ r[m] = Up(r[j].input)
    BY <1>10 DEF PressesOwed
  <2>1. PICK p \in 1..l : j = f(p)
    BY <1>8
  <2>2. PICK m \in 1..l : m > p /\ q[m] = Up(q[p].input)
    BY <2>1, <1>f, <1>10, <1>15 DEF PressesOwed
  <2> QED
    BY <2>1, <2>2, <1>7, <1>f
<1> QED
  BY <1>6, <1>11, <1>12, <1>13, <1>14, <1>15 DEF r

\* Ctrl+Alt+Del comes with its own releases, behind those that are owed.
LEMMA ChordOwes ==
    ASSUME NEW q \in Seq(Edge), OnlyUps(q), NEW h,
           NEW r, r = q \o [n \in DOMAIN Chord |-> Down(Chord[n])]
                        \o [n \in DOMAIN Chord |-> Up(Chord[Len(Chord) + 1 - n])]
    PROVE  /\ r \in Seq(Edge)
           /\ Releasing(q) \subseteq Releasing(r)
           /\ PressesOwed(r, h)
<1> DEFINE l == Len(q)
           c == Len(Chord)
           d == [n \in DOMAIN Chord |-> Down(Chord[n])]
           u == [n \in DOMAIN Chord |-> Up(Chord[Len(Chord) + 1 - n])]
<1>1. /\ l \in Nat /\ c \in Nat /\ DOMAIN Chord = 1..c
      /\ \A n \in 1..c : Chord[n] \in Inputs
  BY InputAssumption, LenProperties, ElementOfSeq
<1>2. \A n \in 1..c : c + 1 - n \in 1..c
  BY <1>1
<1>3. d \in Seq(Edge) /\ Len(d) = c /\ \A n \in 1..c : d[n] = Down(Chord[n])
  <2>1. d \in [1..c -> Edge]
    BY <1>1, EdgeFacts
  <2> QED
    BY <2>1, <1>1
<1>4. u \in Seq(Edge) /\ Len(u) = c /\ \A n \in 1..c : u[n] = Up(Chord[c + 1 - n])
  <2>1. u \in [1..c -> Edge]
    BY <1>1, <1>2, EdgeFacts
  <2> QED
    BY <2>1, <1>1
<1>b. r = (q \o d) \o u /\ l = Len(q)
  OBVIOUS
<1> HIDE DEF d, u, l
<1>5. /\ q \o d \in Seq(Edge) /\ Len(q \o d) = l + c
      /\ \A n \in 1..l : (q \o d)[n] = q[n]
      /\ \A n \in 1..c : (q \o d)[l + n] = d[n]
  <2>1. /\ q \o d \in Seq(Edge) /\ Len(q \o d) = Len(q) + Len(d)
        /\ \A n \in 1..Len(q) : (q \o d)[n] = q[n]
        /\ \A n \in 1..Len(d) : (q \o d)[Len(q) + n] = d[n]
    BY <1>3, Joined
  <2> QED
    BY <2>1, <1>b, <1>3
<1>6. /\ r \in Seq(Edge) /\ Len(r) = (l + c) + c
      /\ \A n \in 1..l + c : r[n] = (q \o d)[n]
      /\ \A n \in 1..c : r[(l + c) + n] = u[n]
  <2>1. /\ (q \o d) \o u \in Seq(Edge) /\ Len((q \o d) \o u) = Len(q \o d) + Len(u)
        /\ \A n \in 1..Len(q \o d) : ((q \o d) \o u)[n] = (q \o d)[n]
        /\ \A n \in 1..Len(u) : ((q \o d) \o u)[Len(q \o d) + n] = u[n]
    BY <1>4, <1>5, Joined
  <2> QED
    BY <2>1, <1>b, <1>4, <1>5
<1>7. DOMAIN r = 1..(l + c) + c /\ DOMAIN q = 1..l
  BY <1>b, <1>6, LenProperties
<1>8. r \in Seq(Message) /\ q \in Seq(Message)
  BY <1>6, EdgeFacts
<1>9. Releasing(q) \subseteq Releasing(r)
  <2>1. \A n \in 1..l : n \in 1..(l + c) + c /\ r[n] = q[n]
    BY <1>1, <1>5, <1>6
  <2>2. \A i : i \in Releasing(q) <=> \E n \in 1..l : ~q[n].down /\ q[n].input = i
    BY <1>1, <1>b, <1>8, ReleasingFacts
  <2>3. \A i : i \in Releasing(r) <=> \E n \in 1..(l + c) + c : ~r[n].down /\ r[n].input = i
    <3>1. \A i : i \in Releasing(r) <=> \E n \in 1..Len(r) : ~r[n].down /\ r[n].input = i
      BY <1>8, ReleasingFacts
    <3> QED
      BY <3>1, <1>6
  <2>9. ASSUME NEW i \in Releasing(q) PROVE i \in Releasing(r)
    <3>1. PICK j \in 1..l : ~q[j].down /\ q[j].input = i
      BY <2>2
    <3>2. j \in 1..(l + c) + c /\ r[j] = q[j]
      BY <2>1
    <3>3. ~r[j].down /\ r[j].input = i
      BY <3>1, <3>2
    <3> QED
      BY <3>2, <3>3, <2>3
  <2> QED
    BY <2>9
<1>10. ASSUME NEW n \in 1..(l + c) + c, r[n].down
       PROVE  \E m \in 1..(l + c) + c : m > n /\ r[m] = Up(r[n].input)
  <2>1. n > l
    <3> SUFFICES ASSUME n =< l PROVE FALSE
      BY <1>1
    <3>1. n \in 1..l /\ n \in 1..l + c
      BY <1>1
    <3>2. r[n] = q[n]
      BY <3>1, <1>5, <1>6
    <3> QED
      BY <3>1, <3>2, <1>7, <1>10 DEF OnlyUps
  <2>2. n =< l + c
    <3> SUFFICES ASSUME n > l + c PROVE FALSE
      BY <1>1
    <3>1. n - (l + c) \in 1..c /\ (l + c) + (n - (l + c)) = n
      BY <1>1
    <3>2. r[n] = Up(Chord[c + 1 - (n - (l + c))])
      BY <3>1, <1>4, <1>6
    <3>3. ~Up(Chord[c + 1 - (n - (l + c))]).down
      BY <3>1, <1>1, <1>2, EdgeFacts
    <3> QED
      BY <3>2, <3>3, <1>10
  <2> DEFINE p == n - l
  <2>3. p \in 1..c /\ l + p = n /\ n \in 1..l + c
    BY <2>1, <2>2, <1>1
  <2>4. r[n] = Down(Chord[p])
    BY <2>3, <1>3, <1>5, <1>6
  <2> DEFINE m == (l + c) + (c + 1 - p)
  <2>5. /\ c + 1 - p \in 1..c /\ m \in 1..(l + c) + c /\ m > n
        /\ c + 1 - (c + 1 - p) = p
    BY <2>3, <1>1
  <2>6. r[m] = Up(Chord[p])
    BY <2>5, <1>4, <1>6
  <2>7. r[n].input = Chord[p]
    BY <2>3, <2>4, <1>1, EdgeFacts
  <2> QED
    BY <2>5, <2>6, <2>7
<1>11. PressesOwed(r, h)
  BY <1>7, <1>10 DEF PressesOwed
<1> QED
  BY <1>6, <1>9, <1>11

-----------------------------------------------------------------------------
(* The invariant.                                                           *)

Asking == {"submitted", "passSent", "draining"}

\* What the sender asked the worker for.
Asked ==
    IF pc = "submitted" THEN Send(work)
    ELSE IF pc = "passSent" THEN Send(Head(pass)) ELSE Drain

\* The message in hand is one the sender waits for.
Live == slot # <<>> /\ slot[1].live

\* Nothing is, or will be, down at the host for this input.
Settled(i) ==
    /\ ~EndsDown(i)
    /\ slot # <<>> => slot[1].message # Down(i)

RequestIsWork ==
    /\ command # <<>> => pc \in Asking /\ command[1] = Asked /\ ~Live /\ ~draining
    /\ Live => pc \in {"submitted", "passSent"} /\ slot[1].message = Asked.message
    /\ draining => pc = "draining" /\ ~Live
    /\ reply # "none" => command = <<>> /\ slot = <<>> /\ ~draining

AnswerSettles ==
    reply = "ok" =>
        /\ pc = "submitted" /\ ~work.down => ~EndsDown(work.input)
        /\ pc = "passSent" => ~EndsDown(Head(pass).input)
        /\ pc = "draining" => wire = <<>>

PassShape ==
    /\ OnlyUps(pass)
    /\ pc \in {"pass", "passSent"} => pass # <<>>
    /\ pc \in {"drain", "draining"} => pass = <<>>

PressKnown ==
    /\ NoForgottenPress
    /\ slot # <<>> /\ slot[1].message.down => slot[1].message.input \in remote
    /\ pc \in Sending /\ work.down => work.input \in remote

CarrierInv == RequestIsWork /\ AnswerSettles /\ PassShape /\ PressKnown

PassOwes ==
    pc \in Passing /\ current => \A i \in remote : i \in Releasing(pass) \/ Settled(i)

PassRecovers == pc \in Passing /\ current => recovery = "dispatched"

PendingOwed ==
    recovery = "pending" =>
        /\ ready /\ ~stopping /\ ~drag /\ ~current
        /\ remote \subseteq Releasing(queue)

OnlyControlPresses == mode # "Control" => OnlyUps(queue) /\ held = {}

ConfirmedClean ==
    recovery = "confirmed" =>
        /\ down = {} /\ OnlyUps(wire)
        /\ slot # <<>> => ~slot[1].message.down
        /\ pc \in Sending => ~work.down
        /\ pc \notin Passing

InFlightWork == inFlight => pc \in Sending /\ current

PressOwed == PressesOwed(queue, held)

OwedInv ==
    /\ PassOwes /\ PassRecovers /\ PendingOwed /\ OnlyControlPresses
    /\ ConfirmedClean /\ InFlightWork /\ PressOwed /\ ReleaseOwed

InputInv == InputTypeOK /\ CarrierInv /\ OwedInv

-----------------------------------------------------------------------------
\* A process that started has pressed nothing and owes nothing.
LEMMA InputStart == InputInit => InputInv
<1> SUFFICES ASSUME InputInit PROVE InputInv
  OBVIOUS
<1>0. /\ <<>> \in Seq([message : Message, drain : BOOLEAN]) /\ Len(<<>>) = 0
      /\ <<>> \in Seq([message : Message, live : BOOLEAN])
      /\ <<>> \in Seq(Message) /\ <<>> \in Seq(Edge)
  OBVIOUS
<1>1. KcpTypeOK
  <2>1. /\ command \in Seq([message : Message, drain : BOOLEAN]) /\ Len(command) =< 1
        /\ slot \in Seq([message : Message, live : BOOLEAN]) /\ Len(slot) =< 1
        /\ wire \in Seq(Message)
    BY <1>0 DEF InputInit, KcpInit
  <2>2. down \subseteq Inputs /\ draining \in BOOLEAN /\ alive \in BOOLEAN
    BY DEF InputInit, KcpInit
  <2>3. reply \in {"none", "ok", "failed"}
    BY DEF InputInit, KcpInit
  <2> QED
    BY <2>1, <2>2, <2>3 DEF KcpTypeOK
<1>2. InputTypeOK
  <2>1. work \in Message
    BY EdgeFacts DEF InputInit
  <2> QED
    BY <1>0, <1>1, <2>1 DEF InputInit, InputTypeOK, Sending, Passing
<1>3. \A i \in Inputs : ~EndsDown(i)
  BY EmptyEnds DEF InputInit, KcpInit
<1>4. CarrierInv
  BY <1>3, EmptyReleases DEF InputInit, KcpInit, CarrierInv, RequestIsWork, AnswerSettles,
     PassShape, PressKnown, NoForgottenPress, Live, Asking, Sending
<1>5. OwedInv
  <2>1. PassOwes /\ PassRecovers /\ PendingOwed /\ OnlyControlPresses /\ ConfirmedClean
    BY EmptyReleases DEF InputInit, KcpInit, PassOwes, PassRecovers, PendingOwed,
       OnlyControlPresses, ConfirmedClean, Passing
  <2>2. InFlightWork /\ PressOwed /\ ReleaseOwed
    BY EmptyReleases, UpsOwe DEF InputInit, InFlightWork, PressOwed, ReleaseOwed
  <2> QED
    BY <2>1, <2>2 DEF OwedInv
<1> QED
  BY <1>2, <1>4, <1>5 DEF InputInv

\* What the windows and the session do leaves the carrier alone.
LEMMA CarrierUnchanged ==
    ASSUME CarrierInv, UNCHANGED <<remote, pc, work, pass, kcpVars>>
    PROVE  CarrierInv'
<1>0. UNCHANGED <<command, slot, wire, down, draining, reply>>
  BY DEF kcpVars
<1>1. RequestIsWork'
  BY <1>0 DEF CarrierInv, RequestIsWork, Asked, Live
<1>2. AnswerSettles'
  BY <1>0 DEF CarrierInv, AnswerSettles, EndsDown
<1>3. PassShape' /\ PressKnown'
  BY <1>0 DEF CarrierInv, PassShape, PressKnown, NoForgottenPress, EndsDown
<1> QED
  BY <1>1, <1>2, <1>3 DEF CarrierInv

LEMMA SettledUnchanged ==
    ASSUME UNCHANGED kcpVars, NEW i
    PROVE  Settled(i)' <=> Settled(i)
BY DEF kcpVars, Settled, EndsDown

\* A release pass that goes on owes what it owed.
LEMMA PassUnchanged ==
    ASSUME PassOwes, UNCHANGED <<remote, pc, pass, kcpVars>>, current' => current
    PROVE  PassOwes'
BY SettledUnchanged DEF PassOwes

LEMMA ConfirmedUnchanged ==
    ASSUME ConfirmedClean, UNCHANGED <<pc, work, kcpVars>>, recovery' = "confirmed" => recovery = "confirmed"
    PROVE  ConfirmedClean'
BY DEF ConfirmedClean, kcpVars

\* A new epoch that releases everything: release_locked, whoever calls it.
LEMMA Released ==
    ASSUME InputInv, UNCHANGED <<remote, pc, work, pass, kcpVars>>,
           current' = FALSE, inFlight' = FALSE, held' = {},
           queue' = Ups(remote) \/ (queue' = <<>> /\ ~ready'),
           \/ recovery' = "none"
           \/ /\ recovery' = "pending"
              /\ ready' /\ ~stopping' /\ ~drag' /\ queue' = Ups(remote)
    PROVE  CarrierInv' /\ OwedInv'
<1>1. CarrierInv'
  BY CarrierUnchanged DEF InputInv
<1>2. remote \in SUBSET Inputs
  BY DEF InputInv, InputTypeOK
<1>3. /\ OnlyUps(queue')
      /\ Releasing(Ups(remote)) = remote
  BY <1>2, UpsFacts, EmptyReleases
<1>4. PassOwes'
  BY PassUnchanged DEF InputInv, OwedInv
<1>5. PassRecovers' /\ InFlightWork'
  BY DEF PassRecovers, InFlightWork
<1>6. PendingOwed'
  BY <1>3 DEF PendingOwed
<1>7. OnlyControlPresses'
  BY <1>3 DEF OnlyControlPresses
<1>8. ConfirmedClean'
  BY ConfirmedUnchanged DEF InputInv, OwedInv
<1>9. PressOwed'
  BY <1>3, UpsOwe DEF PressOwed
<1>10. ReleaseOwed'
  <2>1. ready' => Releasing(queue') = remote
    BY <1>3
  <2> QED
    BY <2>1 DEF ReleaseOwed, Under
<1> QED
  BY <1>1, <1>4, <1>5, <1>6, <1>7, <1>8, <1>9, <1>10 DEF OwedInv

\* An epoch that goes on, in control or without a change of what is queued.
LEMMA WentOn ==
    ASSUME InputInv, UNCHANGED <<remote, pc, work, pass, kcpVars>>,
           \/ current' = FALSE /\ inFlight' = FALSE /\ recovery' = "none"
           \/ UNCHANGED <<current, inFlight, recovery>>,
           recovery' # "pending",
           mode' = "Control" \/ (OnlyUps(queue') /\ held' = {}),
           PressesOwed(queue', held'),
           \/ remote \ held' \subseteq Releasing(queue')
           \/ /\ ready' => ready
              /\ ~recovering' => ~recovering
              /\ UNCHANGED <<current, inFlight>>
              /\ \A i \in remote \ held' : i \in held \/ i \in Releasing(queue)
                                             => i \in Releasing(queue')
    PROVE  CarrierInv' /\ OwedInv'
<1>1. CarrierInv'
  BY CarrierUnchanged DEF InputInv
<1>4. PassOwes'
  BY PassUnchanged DEF InputInv, OwedInv
<1>5. PassRecovers'
  BY DEF InputInv, OwedInv, PassRecovers
<1>6. InFlightWork' /\ PendingOwed'
  BY DEF InputInv, OwedInv, InFlightWork, PendingOwed
<1>7. OnlyControlPresses' /\ PressOwed'
  BY DEF OnlyControlPresses, PressOwed
<1>8. ConfirmedClean'
  BY ConfirmedUnchanged DEF InputInv, OwedInv
<1>9. ReleaseOwed'
  BY DEF InputInv, OwedInv, ReleaseOwed, Under
<1> QED
  BY <1>1, <1>4, <1>5, <1>6, <1>7, <1>8, <1>9 DEF OwedInv

-----------------------------------------------------------------------------
(* The windows and the session keep the invariant.                          *)

LEMMA Typed ==
    ASSUME InputInv
    PROVE  /\ remote \in SUBSET Inputs /\ held \in SUBSET Inputs
           /\ queue \in Seq(Edge) /\ queue \in Seq(Message)
           /\ mode # "View" => ready /\ ~stopping /\ recovery = "none"
           /\ held # {} => mode = "Control"
           /\ PressesOwed(queue, held)
           /\ Left \in Inputs
<1>1. InputTypeOK
  BY DEF InputInv
<1>2. /\ remote \in SUBSET Inputs /\ held \in SUBSET Inputs /\ queue \in Seq(Edge)
      /\ mode # "View" => ready /\ ~stopping /\ recovery = "none"
  BY <1>1 DEF InputTypeOK
<1>3. queue \in Seq(Message)
  BY <1>2, EdgeFacts
<1>4. (held # {} => mode = "Control") /\ PressesOwed(queue, held)
  BY DEF InputInv, OwedInv, OnlyControlPresses, PressOwed
<1>5. Left \in Inputs
  BY InputAssumption
<1> QED
  BY <1>2, <1>3, <1>4, <1>5

\* An operation that releases everything and begins a new epoch.
LEMMA ReleaseStep ==
    ASSUME InputInv, UNCHANGED <<remote, pc, work, pass, kcpVars>>, NEW o, NEW q,
           ReleaseLocked(o, q), q = Ups(remote) \/ (q = <<>> /\ ~ready'),
           recovery' = "none"
    PROVE  CarrierInv' /\ OwedInv'
<1>1. current' = FALSE /\ inFlight' = FALSE /\ held' = {} /\ queue' = q
  BY DEF ReleaseLocked, AdvanceEpoch
<1> QED
  BY <1>1, Released

LEMMA BeginStep ==
    ASSUME InputInv, Operation, BeginRecovery, ready' = ready, ready, ~stopping
    PROVE  CarrierInv' /\ OwedInv'
<1>1. /\ current' = FALSE /\ inFlight' = FALSE /\ held' = {} /\ queue' = Ups(remote)
      /\ ~drag' /\ recovery' = "pending"
  BY DEF BeginRecovery, ReleaseLocked, AdvanceEpoch
<1>2. UNCHANGED <<remote, pc, work, pass, kcpVars>> /\ ready' /\ ~stopping'
  BY DEF Operation
<1> QED
  BY <1>1, <1>2, Released

LEMMA PressStep ==
    ASSUME InputInv, NEW o \in Owners, NEW i \in Inputs, Press(o, i)
    PROVE  CarrierInv' /\ OwedInv'
<1>0. ready /\ ~stopping /\ mode = "Control" /\ ready' = ready /\ Operation
      /\ recovering' = recovering
  BY DEF Press, Claims
<1>a. UNCHANGED <<remote, pc, work, pass, kcpVars>>
  BY <1>0 DEF Operation
<1>1. CASE Len(Claimed(o)) >= MaxEvents
  <2>1. BeginRecovery
    BY <1>1 DEF Press
  <2> QED
    BY <1>0, <2>1, BeginStep
<1>2. CASE ~(Len(Claimed(o)) >= MaxEvents)
  <2>0. /\ queue' = Append(Claimed(o), Down(i))
        /\ held' = Kept(o) \cup {i}
        /\ mode' = mode
    BY <1>2 DEF Press
  <2>1. CASE owner = o
    <3>1. UNCHANGED <<current, inFlight, recovery>>
      BY <1>2, <2>1 DEF Press
    <3>2. queue' = Append(queue, Down(i)) /\ held' = held \cup {i}
      BY <2>0, <2>1 DEF Claimed, Kept
    <3>3. recovery' # "pending" /\ mode' = "Control"
      BY <1>0, <2>0, <3>1, Typed
    <3>4. PressesOwed(queue', held')
      BY <3>2, Typed, PressOwes
    <3>5. Releasing(queue) \subseteq Releasing(queue')
      BY <3>2, Typed, AppendReleases, EdgeFacts
    <3>6. \A j \in remote \ held' : j \in held \/ j \in Releasing(queue)
                                      => j \in Releasing(queue')
      BY <3>2, <3>5
    <3> QED
      BY <1>0, <1>a, <3>1, <3>3, <3>4, <3>6, WentOn
  <2>2. CASE owner # o
    <3>1. current' = FALSE /\ inFlight' = FALSE /\ recovery' = "none"
      BY <1>2, <2>2 DEF Press, AdvanceEpoch
    <3>2. queue' = Append(Ups(remote), Down(i)) /\ held' = {} \cup {i}
      BY <2>0, <2>2 DEF Claimed, Kept
    <3>3. /\ Ups(remote) \in Seq(Edge) /\ Ups(remote) \in Seq(Message)
          /\ OnlyUps(Ups(remote)) /\ Releasing(Ups(remote)) = remote
      BY Typed, UpsFacts
    <3>4. PressesOwed(queue', held')
      BY <3>2, <3>3, UpsOwe, PressOwes
    <3>5. remote \subseteq Releasing(queue')
      BY <3>2, <3>3, AppendReleases, EdgeFacts
    <3>6. remote \ held' \subseteq Releasing(queue')
      BY <3>5
    <3>7. recovery' # "pending" /\ mode' = "Control"
      BY <1>0, <2>0, <3>1
    <3> QED
      BY <1>a, <3>1, <3>4, <3>6, <3>7, WentOn
  <2> QED
    BY <2>1, <2>2
<1> QED
  BY <1>1, <1>2

\* The release of an input that is held, by its window or at the end of a drag.
LEMMA LetGo ==
    ASSUME InputInv, NEW i \in held, UNCHANGED <<remote, pc, work, pass, kcpVars>>,
           queue' = Append(queue, Up(i)), held' = held \ {i},
           UNCHANGED <<ready, mode, current, inFlight, recovery, recovering>>
    PROVE  CarrierInv' /\ OwedInv'
<1>1. i \in Inputs /\ mode = "Control" /\ recovery = "none"
  BY Typed
<1>2. PressesOwed(queue', held')
  BY <1>1, Typed, LiftOwes
<1>3. /\ Releasing(queue) \subseteq Releasing(queue')
      /\ i \in Releasing(queue')
  BY <1>1, Typed, AppendReleases, EdgeFacts
<1>4. \A j \in remote \ held' : j \in held \/ j \in Releasing(queue)
                                  => j \in Releasing(queue')
  BY <1>3
<1>5. recovery' # "pending" /\ mode' = "Control"
  BY <1>1
<1> QED
  BY <1>2, <1>4, <1>5, WentOn

LEMMA LiftStep ==
    ASSUME InputInv, NEW o \in Owners, NEW i \in Inputs, Lift(o, i)
    PROVE  CarrierInv' /\ OwedInv'
<1>0. i \in held /\ ready' = ready /\ recovering' = recovering /\ Operation
  BY DEF Lift
<1>1. ready /\ ~stopping
  BY <1>0, Typed
<1>2. CASE Len(queue) >= MaxEvents
  <2>1. BeginRecovery
    BY <1>2 DEF Lift
  <2> QED
    BY <1>0, <1>1, <2>1, BeginStep
<1>3. CASE ~(Len(queue) >= MaxEvents)
  <2>1. /\ queue' = Append(queue, Up(i)) /\ held' = held \ {i}
        /\ UNCHANGED <<mode, current, inFlight, recovery>>
    BY <1>3 DEF Lift
  <2>2. UNCHANGED <<remote, pc, work, pass, kcpVars>>
    BY <1>0 DEF Operation
  <2> QED
    BY <1>0, <2>1, <2>2, LetGo
<1> QED
  BY <1>2, <1>3

LEMMA PauseOwnerStep ==
    ASSUME InputInv, NEW o \in Owners, PauseOwner(o)
    PROVE  CarrierInv' /\ OwedInv'
<1>0. /\ ready' = ready /\ mode' = mode /\ recovering' = recovering
      /\ UNCHANGED <<remote, pc, work, pass, kcpVars>>
  BY DEF PauseOwner, Operation
<1>1. CASE drag /\ Left \in held
  <2>1. /\ queue' = Ups(remote \ {Left}) /\ held' = {Left}
        /\ UNCHANGED <<current, inFlight, recovery>>
    BY <1>1 DEF PauseOwner
  <2>2. mode = "Control" /\ recovery = "none"
    BY <1>1, Typed
  <2>3. remote \ {Left} \in SUBSET Inputs
    BY Typed
  <2>4. OnlyUps(queue') /\ Releasing(queue') = remote \ {Left}
    BY <2>1, <2>3, UpsFacts
  <2>5. PressesOwed(queue', held')
    BY <2>4, UpsOwe
  <2>6. remote \ held' \subseteq Releasing(queue')
    BY <2>1, <2>4
  <2>7. recovery' # "pending" /\ mode' = "Control"
    BY <1>0, <2>1, <2>2
  <2> QED
    BY <1>0, <2>1, <2>5, <2>6, <2>7, WentOn
<1>2. CASE ~(drag /\ Left \in held)
  <2>1. ReleaseLocked(NoOwner, Ups(remote)) /\ recovery' = "none"
    BY <1>2 DEF PauseOwner
  <2> QED
    BY <1>0, <2>1, ReleaseStep
<1> QED
  BY <1>1, <1>2

LEMMA CtrlAltDelStep ==
    ASSUME InputInv, NEW o \in Owners, CtrlAltDel(o)
    PROVE  CarrierInv' /\ OwedInv'
<1>1. /\ UNCHANGED <<remote, pc, work, pass, kcpVars>> /\ mode' = mode /\ mode = "Control"
      /\ current' = FALSE /\ inFlight' = FALSE /\ held' = {} /\ recovery' = "none"
      /\ queue' = Ups(remote) \o [n \in DOMAIN Chord |-> Down(Chord[n])]
                    \o [n \in DOMAIN Chord |-> Up(Chord[Len(Chord) + 1 - n])]
  BY DEF CtrlAltDel, Claims, ReleaseLocked, AdvanceEpoch, Operation
<1>2. /\ Ups(remote) \in Seq(Edge) /\ OnlyUps(Ups(remote))
      /\ Releasing(Ups(remote)) = remote
  BY Typed, UpsFacts
<1>3. remote \subseteq Releasing(queue') /\ PressesOwed(queue', held')
  BY <1>1, <1>2, ChordOwes
<1>4. remote \ held' \subseteq Releasing(queue') /\ recovery' # "pending" /\ mode' = "Control"
  BY <1>1, <1>3
<1> QED
  BY <1>1, <1>3, <1>4, WentOn

\* A step that changes neither what is queued nor what is held.
LEMMA StoodStill ==
    ASSUME InputInv, UNCHANGED <<remote, pc, work, pass, kcpVars>>,
           UNCHANGED <<ready, held, queue, current, inFlight, recovery, recovering>>,
           mode # "View", mode' = mode \/ mode' = "Control"
    PROVE  CarrierInv' /\ OwedInv'
<1>1. recovery' # "pending"
  BY Typed
<1>2. mode' = "Control" \/ (OnlyUps(queue') /\ held' = {})
  BY DEF InputInv, OwedInv, OnlyControlPresses
<1>3. PressesOwed(queue', held')
  BY Typed
<1> QED
  BY <1>1, <1>2, <1>3, WentOn

\* A record that is being closed is in no mode of control and recovers from
\* nothing, so an epoch that goes on without a carrier owes nothing new.
LEMMA ReadyTooLateStep ==
    ASSUME InputInv, ReadyTooLate
    PROVE  CarrierInv' /\ OwedInv'
<1>1. /\ stopping /\ ready /\ ready' = FALSE
      /\ UNCHANGED <<mode, held, queue, current, inFlight, recovery, recovering>>
      /\ UNCHANGED <<remote, pc, work, pass, kcpVars>>
  BY DEF ReadyTooLate, owedVars, senderVars
<1>2. recovery' # "pending"
  BY <1>1 DEF InputInv, OwedInv, PendingOwed
<1>3. OnlyUps(queue') /\ held' = {}
  BY <1>1, Typed DEF InputInv, OwedInv, OnlyControlPresses
<1>4. PressesOwed(queue', held')
  BY <1>1, Typed
<1> QED
  BY <1>1, <1>2, <1>3, <1>4, WentOn

LEMMA ResumeDragStep ==
    ASSUME InputInv, NEW left \in BOOLEAN, ResumeDrag(left)
    PROVE  CarrierInv' /\ OwedInv'
<1>0. /\ ready /\ ~stopping /\ mode # "View" /\ Left \in held
      /\ ready' = ready /\ recovering' = recovering /\ Operation
  BY DEF ResumeDrag
<1>1. UNCHANGED <<remote, pc, work, pass, kcpVars>>
  BY <1>0 DEF Operation
<1>2. CASE left
  <2>1. UNCHANGED <<mode, held, queue, inFlight, recovery, current>>
    BY <1>2 DEF ResumeDrag
  <2> QED
    BY <1>0, <1>1, <2>1, StoodStill
<1>3. CASE ~left /\ Len(queue) >= MaxEvents
  <2>1. BeginRecovery
    BY <1>3 DEF ResumeDrag
  <2> QED
    BY <1>0, <2>1, BeginStep
<1>4. CASE ~left /\ ~(Len(queue) >= MaxEvents)
  <2>1. /\ queue' = Append(queue, Up(Left)) /\ held' = held \ {Left}
        /\ UNCHANGED <<mode, inFlight, recovery, current>>
    BY <1>4 DEF ResumeDrag
  <2> QED
    BY <1>0, <1>1, <2>1, LetGo
<1> QED
  BY <1>2, <1>3, <1>4

LEMMA ReconcileStep ==
    ASSUME InputInv, Reconcile
    PROVE  CarrierInv' /\ OwedInv'
<1> DEFINE fresh == checkpoint \ Releasing(queue)
<1>0. /\ UNCHANGED <<ready, stopping, mode, owner, held, drag, inFlight, recovery, recovering,
                    pc, work, pass, current, kcpVars>>
      /\ ReconcileReleases
  BY DEF Reconcile, intentVars, senderVars
<1>1. CASE ~ready
  <2>1. UNCHANGED <<remote, queue>>
    BY <1>0, <1>1 DEF ReconcileReleases
  <2>2. CarrierInv'
    BY <1>0, <2>1, CarrierUnchanged DEF InputInv
  <2>3. PassOwes' /\ ConfirmedClean'
    BY <1>0, <2>1, PassUnchanged, ConfirmedUnchanged DEF InputInv, OwedInv
  <2>4. PassRecovers' /\ PendingOwed' /\ OnlyControlPresses' /\ InFlightWork'
    BY <1>0, <2>1 DEF InputInv, OwedInv, PassRecovers, PendingOwed, OnlyControlPresses,
       InFlightWork
  <2>5. PressOwed' /\ ReleaseOwed'
    BY <1>0, <1>1, <2>1 DEF InputInv, OwedInv, PressOwed, ReleaseOwed
  <2> QED
    BY <2>2, <2>3, <2>4, <2>5 DEF OwedInv
<1>2. CASE ready
  <2>0. fresh \in SUBSET Inputs /\ fresh \ Modifiers \in SUBSET Inputs
        /\ fresh \cap Modifiers \in SUBSET Inputs
    BY InputAssumption DEF InputInv, InputTypeOK
  <2>1. remote' = remote \cup fresh
    BY <1>0, <1>2 DEF ReconcileReleases
  <2>2. PICK n \in BeforeModifiers(queue) :
          queue' = SubSeq(queue, 1, n) \o Ups(fresh \ Modifiers)
                     \o SubSeq(queue, n + 1, Len(queue)) \o Ups(fresh \cap Modifiers)
    BY <1>0, <1>2 DEF ReconcileReleases
  <2> HIDE DEF fresh
  <2>3. n \in 0..Len(queue)
    BY DEF BeforeModifiers
  <2> DEFINE a == Ups(fresh \ Modifiers)
             b == Ups(fresh \cap Modifiers)
  <2>4. /\ a \in Seq(Edge) /\ OnlyUps(a) /\ Releasing(a) = fresh \ Modifiers
        /\ b \in Seq(Edge) /\ OnlyUps(b) /\ Releasing(b) = fresh \cap Modifiers
    BY <2>0, UpsFacts
  <2> HIDE DEF a, b
  <2>5. /\ Releasing(queue) \cup Releasing(a) \cup Releasing(b) \subseteq Releasing(queue')
        /\ OnlyUps(queue) => OnlyUps(queue')
        /\ PressesOwed(queue, held) => PressesOwed(queue', held)
    <3>1. queue' = Inserted(queue, n, a, b)
      BY <2>2 DEF a, b, Inserted
    <3>2. queue \in Seq(Edge)
      BY Typed
    <3> QED
      BY <3>1, <3>2, <2>3, <2>4, InsertFacts
  <2>6. Releasing(queue) \cup fresh \subseteq Releasing(queue')
    BY <2>4, <2>5
  <2>7. UNCHANGED <<command, slot, wire, down, draining, reply>>
    BY <1>0 DEF kcpVars
  <2>8. CarrierInv'
    <3>1. RequestIsWork' /\ AnswerSettles' /\ PassShape'
      BY <1>0, <2>7 DEF InputInv, CarrierInv, RequestIsWork, Asked, Live, AnswerSettles,
         PassShape, EndsDown
    <3>2. PressKnown'
      BY <1>0, <2>1, <2>7 DEF InputInv, CarrierInv, PressKnown, NoForgottenPress, EndsDown
    <3> QED
      BY <3>1, <3>2 DEF CarrierInv
  <2>9. PassOwes'
    <3> SUFFICES ASSUME pc' \in Passing, current', NEW i \in remote'
                 PROVE  i \in Releasing(pass') \/ Settled(i)'
      BY DEF PassOwes
    <3>1. CASE i \in remote
      BY <3>1, <1>0, SettledUnchanged DEF InputInv, OwedInv, PassOwes
    <3>2. CASE i \notin remote
      <4>1. i \in Inputs
        BY <3>2, <2>0, <2>1
      <4>2. ~EndsDown(i) /\ (slot # <<>> => slot[1].message # Down(i))
        BY <3>2, <4>1, EdgeFacts DEF InputInv, CarrierInv, PressKnown, NoForgottenPress
      <4> QED
        BY <4>2, <1>0, SettledUnchanged DEF Settled
    <3> QED
      BY <3>1, <3>2
  <2>10. ConfirmedClean'
    BY <1>0, ConfirmedUnchanged DEF InputInv, OwedInv
  <2>11. PassRecovers' /\ InFlightWork'
    BY <1>0 DEF InputInv, OwedInv, PassRecovers, InFlightWork
  <2>12. PendingOwed'
    BY <1>0, <2>1, <2>6 DEF InputInv, OwedInv, PendingOwed
  <2>13. OnlyControlPresses' /\ PressOwed'
    BY <1>0, <2>5 DEF InputInv, OwedInv, OnlyControlPresses, PressOwed
  <2>14. ReleaseOwed'
    BY <1>0, <2>1, <2>6 DEF InputInv, OwedInv, ReleaseOwed, Under
  <2> QED
    BY <2>8, <2>9, <2>10, <2>11, <2>12, <2>13, <2>14 DEF OwedInv
<1> QED
  BY <1>1, <1>2

LEMMA WindowsStep ==
    ASSUME InputInv, Windows
    PROVE  CarrierInv' /\ OwedInv'
<1>1. PICK o \in Owners :
        \/ Move(o)
        \/ \E i \in Inputs : Press(o, i) \/ Lift(o, i)
        \/ PauseOwner(o)
        \/ CtrlAltDel(o)
        \/ HoldDrag(o)
  BY DEF Windows
<1>2. CASE Move(o)
  <2>1. /\ ReleaseLocked(o, Ups(remote)) /\ recovery' = "none"
        /\ UNCHANGED <<remote, pc, work, pass, kcpVars>>
    BY <1>2 DEF Move, Operation
  <2> QED
    BY <2>1, ReleaseStep
<1>3. CASE HoldDrag(o)
  <2>1. /\ UNCHANGED <<remote, pc, work, pass, kcpVars>>
        /\ UNCHANGED <<ready, held, queue, current, inFlight, recovery, recovering>>
        /\ mode # "View" /\ mode' = mode
    BY <1>3 DEF HoldDrag, Operation
  <2> QED
    BY <2>1, StoodStill
<1> QED
  BY <1>1, <1>2, <1>3, PressStep, LiftStep, PauseOwnerStep, CtrlAltDelStep

LEMMA SessionStep ==
    ASSUME InputInv, Session
    PROVE  CarrierInv' /\ OwedInv'
<1>1. CASE QueueFull
  <2>1. /\ ready /\ ~stopping /\ ready' = ready /\ BeginRecovery /\ Operation
    BY <1>1 DEF QueueFull
  <2> QED
    BY <2>1, BeginStep
<1>2. CASE CancelDrag \/ Enable \/ SwitchMode \/ PauseLayout
  <2>1. /\ ReleaseLocked(NoOwner, Ups(remote)) /\ recovery' = "none"
        /\ UNCHANGED <<remote, pc, work, pass, kcpVars>>
    BY <1>2 DEF CancelDrag, Enable, SwitchMode, PauseLayout, Operation
  <2> QED
    BY <2>1, ReleaseStep
<1>3. CASE ConfirmNeutral
  <2>1. /\ UNCHANGED <<remote, pc, work, pass, kcpVars>>
        /\ UNCHANGED <<ready, held, queue, current, inFlight, recovery, recovering>>
        /\ mode # "View" /\ mode' = "Control"
    BY <1>3 DEF ConfirmNeutral, Operation
  <2> QED
    BY <2>1, StoodStill
<1>4. CASE Disable
  <2>1. /\ ReleaseLocked(NoOwner, IF ready THEN Ups(remote) ELSE <<>>)
        /\ recovery' = "none" /\ ready' = ready
        /\ UNCHANGED <<remote, pc, work, pass, kcpVars>>
    BY <1>4 DEF Disable, Operation
  <2> QED
    BY <2>1, ReleaseStep
<1>5. CASE Close
  <2>1. /\ ReleaseLocked(NoOwner, IF ready THEN Ups(remote) ELSE <<>>)
        /\ recovery' = "none" /\ ready' = ready
        /\ UNCHANGED <<remote, pc, work, pass, kcpVars>>
    BY <1>5 DEF Close
  <2> QED
    BY <2>1, ReleaseStep
<1>6. CASE Connect
  <2>1. /\ ReleaseLocked(NoOwner, Ups(remote)) /\ recovery' = "none"
        /\ UNCHANGED <<remote, pc, work, pass, kcpVars>>
    BY <1>6 DEF Connect
  <2> QED
    BY <2>1, ReleaseStep
<1>7. CASE Disconnect \/ Closed
  <2>1. /\ UNCHANGED <<remote, pc, work, pass, kcpVars>>
        /\ ready' = FALSE /\ held' = {} /\ queue' = <<>> /\ recovery' = "none"
        /\ current' = FALSE /\ inFlight' = FALSE
    BY <1>7 DEF Disconnect, Closed, Unready, Operation, AdvanceEpoch
  <2> QED
    BY <2>1, Released
<1>8. CASE \E left \in BOOLEAN : ResumeDrag(left)
  BY <1>8, ResumeDragStep
<1>9. CASE ReadyTooLate
  BY <1>9, ReadyTooLateStep
<1> QED
  BY <1>1, <1>2, <1>3, <1>4, <1>5, <1>6, <1>7, <1>8, <1>9, ReconcileStep
  DEF Session

-----------------------------------------------------------------------------
(* The sender keeps the invariant.                                          *)

LEMMA NonEmpty ==
    ASSUME NEW T, NEW s \in Seq(T), s # <<>>
    PROVE  Len(s) \in Nat \ {0} /\ s[1] \in T /\ DOMAIN s = 1..Len(s)
<1>1. Len(s) \in Nat \ {0} /\ DOMAIN s = 1..Len(s)
  BY LenProperties
<1>2. 1 \in 1..Len(s)
  BY <1>1
<1> QED
  BY <1>1, <1>2, ElementOfSeq

LEMMA CarrierTyped ==
    ASSUME InputInv
    PROVE  /\ KcpTypeOK /\ wire \in Seq(Message) /\ down \subseteq Inputs
           /\ pass \in Seq(Message) /\ work \in Message
           /\ command # <<>> => command[1] \in [message : Message, drain : BOOLEAN]
           /\ slot # <<>> => /\ slot[1] \in [message : Message, live : BOOLEAN]
                             /\ DOMAIN slot = {1}
<1>1. KcpTypeOK /\ pass \in Seq(Message) /\ work \in Message
  BY DEF InputInv, InputTypeOK
<1>2. wire \in Seq(Message) /\ down \subseteq Inputs
  BY <1>1 DEF KcpTypeOK
<1>3. ASSUME command # <<>> PROVE command[1] \in [message : Message, drain : BOOLEAN]
  <2>1. command \in Seq([message : Message, drain : BOOLEAN])
    BY <1>1 DEF KcpTypeOK
  <2> QED
    BY <2>1, <1>3, NonEmpty
<1>4. ASSUME slot # <<>>
      PROVE  slot[1] \in [message : Message, live : BOOLEAN] /\ DOMAIN slot = {1}
  <2>1. slot \in Seq([message : Message, live : BOOLEAN]) /\ Len(slot) =< 1
    BY <1>1 DEF KcpTypeOK
  <2>2. /\ slot[1] \in [message : Message, live : BOOLEAN]
        /\ Len(slot) \in Nat \ {0} /\ DOMAIN slot = 1..Len(slot)
    BY <2>1, <1>4, NonEmpty
  <2>3. DOMAIN slot = {1}
    BY <2>1, <2>2
  <2> QED
    BY <2>2, <2>3
<1> QED
  BY <1>1, <1>2, <1>3, <1>4

\* A request that is given up may still be committed, but nobody waits for it.
LEMMA Forgotten ==
    ASSUME InputInv, Forget
    PROVE  /\ command' = <<>> /\ ~draining' /\ reply' = "none" /\ ~Live'
           /\ wire' = wire /\ down' = down
           /\ slot' # <<>> <=> slot # <<>>
           /\ slot # <<>> => slot'[1].message = slot[1].message
           /\ \A i \in Inputs : (EndsDown(i)' <=> EndsDown(i)) /\ (Settled(i)' <=> Settled(i))
<1>1. /\ command' = <<>> /\ ~draining' /\ reply' = "none"
      /\ wire' = wire /\ down' = down
      /\ slot' = [n \in DOMAIN slot |-> [slot[n] EXCEPT !.live = FALSE]]
  BY DEF Forget
<1>2. CASE slot # <<>>
  <2>1. /\ slot[1] \in [message : Message, live : BOOLEAN]
        /\ DOMAIN slot = {1}
    BY <1>2, CarrierTyped
  <2>2. DOMAIN slot' = {1} /\ slot'[1] = [slot[1] EXCEPT !.live = FALSE]
    BY <1>1, <2>1
  <2>3. slot' # <<>>
    BY <2>2
  <2>4. slot'[1].message = slot[1].message /\ slot'[1].live = FALSE
    BY <2>1, <2>2
  <2> QED
    BY <1>1, <1>2, <2>3, <2>4 DEF Live, EndsDown, Settled
<1>3. CASE slot = <<>>
  <2>1. slot' = <<>>
    BY <1>1, <1>3
  <2> QED
    BY <1>1, <1>3, <2>1 DEF Live, EndsDown, Settled
<1> QED
  BY <1>2, <1>3

\* The sender goes back to its loop, and the record knows what may be down.
LEMMA WentIdle ==
    ASSUME InputInv, Idle,
           \A i \in Inputs : EndsDown(i) => i \in remote',
           slot # <<>> /\ slot[1].message.down => slot[1].message.input \in remote'
    PROVE  CarrierInv'
<1>0. /\ command' = <<>> /\ ~draining' /\ reply' = "none" /\ ~Live'
      /\ slot' # <<>> <=> slot # <<>>
      /\ slot # <<>> => slot'[1].message = slot[1].message
      /\ \A i \in Inputs : EndsDown(i)' <=> EndsDown(i)
      /\ pc' = "idle" /\ pass' = <<>>
  BY Forgotten DEF Idle
<1>1. RequestIsWork' /\ AnswerSettles'
  BY <1>0 DEF RequestIsWork, AnswerSettles
<1>2. PassShape'
  BY <1>0, EmptyReleases DEF PassShape
<1>3. PressKnown'
  BY <1>0 DEF PressKnown, NoForgottenPress, Sending
<1> QED
  BY <1>1, <1>2, <1>3 DEF CarrierInv

LEMMA WentIdleKnowing ==
    ASSUME InputInv, Idle, remote' = remote
    PROVE  CarrierInv'
<1>1. /\ \A i \in Inputs : EndsDown(i) => i \in remote'
      /\ slot # <<>> /\ slot[1].message.down => slot[1].message.input \in remote'
  BY DEF InputInv, CarrierInv, PressKnown, NoForgottenPress
<1> QED
  BY <1>1, WentIdle

\* Confirmed, a recovery stays clean while the sender is idle.
LEMMA IdleClean ==
    ASSUME InputInv, Idle, recovery' = "confirmed" => recovery = "confirmed"
    PROVE  ConfirmedClean'
<1>1. /\ wire' = wire /\ down' = down /\ pc' = "idle"
      /\ slot' # <<>> <=> slot # <<>>
      /\ slot # <<>> => slot'[1].message = slot[1].message
  BY Forgotten DEF Idle
<1> QED
  BY <1>1 DEF InputInv, OwedInv, ConfirmedClean, Sending, Passing

LEMMA NextRecoveryStep ==
    ASSUME InputInv, NextRecovery
    PROVE  CarrierInv' /\ OwedInv'
<1>0. /\ pc = "idle" /\ pc' = "pass" /\ recovery = "pending" /\ recovery' = "dispatched"
      /\ pass' = Append(queue, Probe) /\ queue' = <<>> /\ current'
      /\ UNCHANGED <<ready, stopping, mode, held, remote, inFlight, recovering, work, kcpVars>>
  BY DEF NextRecovery, Recoverable, intentVars
<1>1. UNCHANGED <<command, slot, wire, down, draining, reply>>
  BY <1>0 DEF kcpVars
<1>2. OnlyUps(queue) /\ held = {} /\ remote \subseteq Releasing(queue) /\ ~inFlight
  <2>1. mode = "View"
    BY <1>0, Typed
  <2> QED
    BY <1>0, <2>1 DEF InputInv, OwedInv, OnlyControlPresses, PendingOwed, InFlightWork, Sending
<1>3. /\ OnlyUps(pass') /\ Releasing(queue) \subseteq Releasing(pass') /\ pass' # <<>>
  <2>1. queue \in Seq(Message) /\ Probe \in Message /\ ~Probe.down
    BY Typed, EdgeFacts
  <2> QED
    BY <1>0, <1>2, <2>1, AppendReleases, AppendProperties
<1>4. RequestIsWork' /\ AnswerSettles'
  BY <1>0, <1>1 DEF InputInv, CarrierInv, RequestIsWork, AnswerSettles, Asking, Live
<1>5. PassShape' /\ PressKnown'
  BY <1>0, <1>1, <1>3 DEF InputInv, CarrierInv, PassShape, PressKnown, NoForgottenPress,
     EndsDown, Sending
<1>6. PassOwes'
  BY <1>0, <1>2, <1>3 DEF PassOwes
<1>7. PassRecovers' /\ PendingOwed' /\ ConfirmedClean' /\ InFlightWork'
  BY <1>0, <1>2 DEF PassRecovers, PendingOwed, ConfirmedClean, InFlightWork
<1>8. OnlyControlPresses' /\ PressOwed'
  BY <1>0, <1>2, EmptyReleases, UpsOwe DEF OnlyControlPresses, PressOwed
<1>9. ReleaseOwed'
  BY <1>0 DEF ReleaseOwed, Under, Passing
<1> QED
  BY <1>4, <1>5, <1>6, <1>7, <1>8, <1>9 DEF CarrierInv, OwedInv

LEMMA PopStep ==
    ASSUME InputInv, Pop
    PROVE  CarrierInv' /\ OwedInv'
<1>0. /\ pc = "idle" /\ ~Recoverable /\ queue # <<>>
      /\ work' = Head(queue) /\ queue' = Tail(queue) /\ inFlight' /\ current'
      /\ remote' = (IF work'.down THEN remote \cup {work'.input} ELSE remote)
      /\ pc' = "popped"
      /\ UNCHANGED <<ready, stopping, mode, held, drag, recovery, recovering, pass, kcpVars>>
  BY DEF Pop, intentVars
<1>1. UNCHANGED <<command, slot, wire, down, draining, reply>>
  BY <1>0 DEF kcpVars
<1>2. /\ queue \in Seq(Edge) /\ queue \in Seq(Message) /\ PressesOwed(queue, held)
      /\ mode # "View" => recovery = "none"
  BY Typed
<1>3. /\ \A i \in Releasing(queue) :
           i \in Releasing(queue') \/ (~work'.down /\ work'.input = i)
      /\ OnlyUps(queue) => OnlyUps(queue') /\ ~work'.down
  BY <1>0, <1>2, TailReleases
<1>4. /\ PressesOwed(queue', held)
      /\ work'.down => work'.input \in held \/ work'.input \in Releasing(queue')
  BY <1>0, <1>2, TailOwes
<1>5. recovery # "pending"
  BY <1>0 DEF InputInv, OwedInv, PendingOwed, Recoverable
<1>6. RequestIsWork' /\ AnswerSettles' /\ PassShape'
  BY <1>0, <1>1 DEF InputInv, CarrierInv, RequestIsWork, AnswerSettles, Asking, Live, PassShape
<1>7. PressKnown'
  BY <1>0, <1>1 DEF InputInv, CarrierInv, PressKnown, NoForgottenPress, EndsDown, Sending
<1>8. PassOwes' /\ PassRecovers' /\ PendingOwed' /\ InFlightWork'
  BY <1>0, <1>5 DEF PassOwes, PassRecovers, PendingOwed, InFlightWork, Passing, Sending
<1>9. OnlyControlPresses' /\ PressOwed'
  BY <1>0, <1>3, <1>4 DEF InputInv, OwedInv, OnlyControlPresses, PressOwed
<1>10. ConfirmedClean'
  BY <1>0, <1>1, <1>2, <1>3 DEF InputInv, OwedInv, ConfirmedClean, OnlyControlPresses, Passing
<1>11. ReleaseOwed'
  <2> SUFFICES ASSUME ready', ~recovering', NEW i \in remote', i \notin held'
               PROVE  i \in Under'
    BY DEF ReleaseOwed
  <2>1. ~inFlight /\ pc \notin Passing
    BY <1>0 DEF InputInv, OwedInv, InFlightWork, Sending, Passing
  <2>2. CASE i \in remote
    <3>1. i \in Releasing(queue)
      BY <1>0, <2>1, <2>2 DEF InputInv, OwedInv, ReleaseOwed, Under
    <3> QED
      BY <1>0, <1>3, <3>1 DEF Under
  <2>3. CASE i \notin remote
    <3>1. work'.down /\ i = work'.input
      BY <1>0, <2>3
    <3> QED
      BY <1>0, <1>4, <3>1 DEF Under
  <2> QED
    BY <2>2, <2>3
<1> QED
  BY <1>6, <1>7, <1>8, <1>9, <1>10, <1>11 DEF CarrierInv, OwedInv

\* A request is sent for the work at hand, of an epoch that has not changed.
LEMMA RequestStep ==
    ASSUME InputInv, NEW c, Request(c), UNCHANGED <<intentVars, owedVars, joining, work, pass, current>>,
           \/ pc = "popped" /\ pc' = "submitted" /\ c = Send(work)
           \/ pc = "pass" /\ pc' = "passSent" /\ c = Send(Head(pass))
           \/ pc = "drain" /\ pc' = "draining" /\ c = Drain
    PROVE  CarrierInv' /\ OwedInv'
<1>0. /\ command' = <<c>> /\ reply' = "none"
      /\ UNCHANGED <<slot, wire, down, draining>>
      /\ UNCHANGED <<ready, stopping, mode, held, drag, remote, queue, inFlight, recovery, recovering>>
  BY DEF Request, intentVars, owedVars
<1>1. command = <<>> /\ ~Live /\ ~draining
  BY DEF InputInv, CarrierInv, RequestIsWork, Asking
<1>2. RequestIsWork'
  <2>1. command'[1] = c /\ command' # <<>>
    BY <1>0
  <2>2. c = Asked' /\ pc' \in Asking
    BY DEF Asked, Asking
  <2>3. ~Live' /\ ~draining'
    BY <1>0, <1>1 DEF Live
  <2> QED
    BY <1>0, <2>1, <2>2, <2>3 DEF RequestIsWork
<1>3. AnswerSettles' /\ PassShape'
  BY <1>0 DEF InputInv, CarrierInv, AnswerSettles, PassShape
<1>4. PressKnown'
  BY <1>0 DEF InputInv, CarrierInv, PressKnown, NoForgottenPress, EndsDown, Sending
<1>5. PassOwes' /\ PassRecovers'
  BY <1>0 DEF InputInv, OwedInv, PassOwes, PassRecovers, Settled, EndsDown, Passing
<1>6. PendingOwed' /\ OnlyControlPresses' /\ PressOwed'
  BY <1>0 DEF InputInv, OwedInv, PendingOwed, OnlyControlPresses, PressOwed
<1>7. ConfirmedClean' /\ InFlightWork'
  BY <1>0 DEF InputInv, OwedInv, ConfirmedClean, InFlightWork, Sending, Passing
<1>8. ReleaseOwed'
  BY <1>0 DEF InputInv, OwedInv, ReleaseOwed, Under, Passing
<1> QED
  BY <1>2, <1>3, <1>4, <1>5, <1>6, <1>7, <1>8 DEF CarrierInv, OwedInv

LEMMA DiscardStep ==
    ASSUME InputInv, Discard
    PROVE  CarrierInv' /\ OwedInv'
<1>0. /\ pc \in Sending /\ ~IsCurrent /\ Idle /\ pc' = "idle" /\ current' = FALSE
      /\ inFlight' = (inFlight /\ ~current)
      /\ UNCHANGED <<ready, stopping, mode, held, drag, remote, queue, recovery, recovering>>
  BY DEF Discard, intentVars, Idle
<1>1. ~inFlight'
  BY <1>0 DEF InputInv, OwedInv, InFlightWork
<1>2. CarrierInv'
  BY <1>0, WentIdleKnowing
<1>3. ConfirmedClean'
  BY <1>0, IdleClean
<1>4. PassOwes' /\ PassRecovers' /\ InFlightWork'
  BY <1>0, <1>1 DEF PassOwes, PassRecovers, InFlightWork
<1>5. PendingOwed' /\ OnlyControlPresses' /\ PressOwed'
  BY <1>0 DEF InputInv, OwedInv, PendingOwed, OnlyControlPresses, PressOwed
<1>6. ReleaseOwed'
  <2>1. ready => ~inFlight
    BY <1>0 DEF InputInv, OwedInv, InFlightWork, IsCurrent
  <2>2. pc \notin Passing
    BY <1>0 DEF Sending, Passing
  <2> QED
    BY <1>0, <2>1, <2>2 DEF InputInv, OwedInv, ReleaseOwed, Under
<1> QED
  BY <1>2, <1>3, <1>4, <1>5, <1>6 DEF OwedInv

LEMMA SentStep ==
    ASSUME InputInv, Sent
    PROVE  CarrierInv' /\ OwedInv'
<1>0. /\ pc = "submitted" /\ reply = "ok" /\ Idle /\ pc' = "idle" /\ current' = FALSE
      /\ inFlight' = FALSE
      /\ remote' = (IF work.down THEN remote ELSE remote \ {work.input})
      /\ UNCHANGED <<ready, stopping, mode, held, drag, queue, recovery, recovering>>
  BY DEF Sent, intentVars, Idle
<1>1. slot = <<>> /\ (~work.down => ~EndsDown(work.input))
  BY <1>0 DEF InputInv, CarrierInv, RequestIsWork, AnswerSettles
<1>2. CarrierInv'
  <2>1. \A i \in Inputs : EndsDown(i) => i \in remote'
    BY <1>0, <1>1 DEF InputInv, CarrierInv, PressKnown, NoForgottenPress
  <2> QED
    BY <1>0, <1>1, <2>1, WentIdle
<1>3. ConfirmedClean'
  BY <1>0, IdleClean
<1>4. PassOwes' /\ PassRecovers' /\ InFlightWork'
  BY <1>0 DEF PassOwes, PassRecovers, InFlightWork
<1>5. PendingOwed' /\ OnlyControlPresses' /\ PressOwed'
  BY <1>0 DEF InputInv, OwedInv, PendingOwed, OnlyControlPresses, PressOwed
<1>6. ReleaseOwed'
  <2>1. pc \notin Passing
    BY <1>0 DEF Passing
  <2>2. CASE work.down
    BY <1>0, <2>1, <2>2 DEF InputInv, OwedInv, ReleaseOwed, Under
  <2>3. CASE ~work.down
    BY <1>0, <2>1, <2>3 DEF InputInv, OwedInv, ReleaseOwed, Under
  <2> QED
    BY <2>2, <2>3
<1> QED
  BY <1>2, <1>3, <1>4, <1>5, <1>6 DEF OwedInv

LEMMA PauseTransportStep ==
    ASSUME InputInv, PauseTransport
    PROVE  CarrierInv' /\ OwedInv'
<1>0. /\ pc' = "pass" /\ Forget /\ current' /\ ~inFlight' /\ held' = {} /\ queue' = <<>>
      /\ pass' = Append(Ups(remote), Probe) /\ work' = Probe /\ recovery' = "dispatched"
      /\ UNCHANGED <<ready, stopping, remote, recovering>>
  BY DEF PauseTransport
<1>1. /\ command' = <<>> /\ ~draining' /\ reply' = "none" /\ ~Live'
      /\ slot' # <<>> <=> slot # <<>>
      /\ slot # <<>> => slot'[1].message = slot[1].message
      /\ \A i \in Inputs : EndsDown(i)' <=> EndsDown(i)
  BY <1>0, Forgotten
<1>2. OnlyUps(pass') /\ remote \subseteq Releasing(pass') /\ pass' # <<>>
  <2>1. /\ Ups(remote) \in Seq(Message) /\ OnlyUps(Ups(remote))
        /\ Releasing(Ups(remote)) = remote
    BY Typed, UpsFacts
  <2> QED
    BY <1>0, <2>1, EdgeFacts, AppendReleases, AppendProperties
<1>3. RequestIsWork' /\ AnswerSettles'
  BY <1>0, <1>1 DEF RequestIsWork, AnswerSettles
<1>4. PassShape'
  BY <1>0, <1>2 DEF PassShape
<1>5. PressKnown'
  BY <1>0, <1>1 DEF InputInv, CarrierInv, PressKnown, NoForgottenPress, Sending
<1>6. PassOwes'
  BY <1>0, <1>2 DEF PassOwes
<1>7. PassRecovers' /\ PendingOwed' /\ ConfirmedClean' /\ InFlightWork'
  BY <1>0 DEF PassRecovers, PendingOwed, ConfirmedClean, InFlightWork
<1>8. OnlyControlPresses' /\ PressOwed'
  BY <1>0, EmptyReleases, UpsOwe DEF OnlyControlPresses, PressOwed
<1>9. ReleaseOwed'
  BY <1>0 DEF ReleaseOwed, Under, Passing
<1> QED
  BY <1>3, <1>4, <1>5, <1>6, <1>7, <1>8, <1>9 DEF CarrierInv, OwedInv

LEMMA GiveUpStep ==
    ASSUME InputInv, GiveUp
    PROVE  CarrierInv' /\ OwedInv'
<1>0. /\ IsCurrent /\ (stopping \/ mode = "View") /\ mode' = "View" /\ recovering' = TRUE
      /\ Idle /\ pc' = "idle" /\ remote' = remote /\ ready' = ready /\ stopping' = stopping
  BY DEF GiveUp, SendFails, Idle
<1>1. CarrierInv'
  BY <1>0, WentIdleKnowing
<1>2. mode = "View"
  BY <1>0, Typed
<1>3. recovery # "pending"
  BY <1>0 DEF InputInv, OwedInv, PendingOwed, IsCurrent
<1>4. /\ held' = {} /\ inFlight' = FALSE /\ current' = FALSE
      /\ recovery' = recovery \/ recovery' = "none"
  BY DEF GiveUp, ReleaseLocked, AdvanceEpoch
<1>5. OnlyUps(queue')
  <2>1. CASE recovering
    <3>1. queue' = queue
      BY <2>1 DEF GiveUp
    <3> QED
      BY <3>1, <1>2 DEF InputInv, OwedInv, OnlyControlPresses
  <2>2. CASE ~recovering
    <3>1. queue' = Ups(IF work.down THEN remote ELSE remote \ {work.input})
      BY <2>2 DEF GiveUp, ReleaseLocked
    <3>2. (IF work.down THEN remote ELSE remote \ {work.input}) \in SUBSET Inputs
      BY Typed
    <3> QED
      BY <3>1, <3>2, UpsFacts
  <2> QED
    BY <2>1, <2>2
<1>6. ConfirmedClean'
  BY <1>0, <1>4, IdleClean
<1>7. PassOwes' /\ PassRecovers' /\ InFlightWork' /\ PendingOwed'
  BY <1>0, <1>3, <1>4 DEF PassOwes, PassRecovers, InFlightWork, PendingOwed
<1>8. OnlyControlPresses' /\ PressOwed'
  BY <1>4, <1>5, UpsOwe DEF OnlyControlPresses, PressOwed
<1>9. ReleaseOwed'
  BY <1>0 DEF ReleaseOwed
<1> QED
  BY <1>1, <1>6, <1>7, <1>8, <1>9 DEF OwedInv

LEMMA PassNextStep ==
    ASSUME InputInv, PassNext
    PROVE  CarrierInv' /\ OwedInv'
<1>0. /\ pc = "passSent" /\ current /\ reply = "ok" /\ pass' = Tail(pass)
      /\ pc' = (IF Len(pass) = 1 THEN "drain" ELSE "pass")
      /\ UNCHANGED <<ready, stopping, mode, held, drag, remote, queue, inFlight, recovery,
                     recovering, work, current, kcpVars>>
  BY DEF PassNext, intentVars, owedVars
<1>1. UNCHANGED <<command, slot, wire, down, draining, reply>>
  BY <1>0 DEF kcpVars
<1>2. /\ command = <<>> /\ slot = <<>> /\ ~draining /\ ~EndsDown(Head(pass).input)
      /\ pass # <<>> /\ OnlyUps(pass) /\ pass \in Seq(Message)
  BY <1>0, CarrierTyped DEF InputInv, CarrierInv, RequestIsWork, AnswerSettles, PassShape
<1>3. /\ \A i \in Releasing(pass) : i \in Releasing(pass') \/ Head(pass).input = i
      /\ OnlyUps(pass')
  BY <1>0, <1>2, TailReleases
<1>4. /\ pc' = "drain" => pass' = <<>>
      /\ pc' = "pass" => pass' # <<>>
  <2>1. Len(pass) \in Nat \ {0} /\ Len(pass') = Len(pass) - 1 /\ pass' \in Seq(Message)
    BY <1>0, <1>2, HeadTailProperties, NonEmpty
  <2>2. CASE Len(pass) = 1
    <3>1. Len(pass') = 0
      BY <2>1, <2>2
    <3> QED
      BY <1>0, <2>1, <2>2, <3>1
  <2>3. CASE Len(pass) # 1
    <3>1. Len(pass') # 0
      BY <2>1, <2>3
    <3> QED
      BY <1>0, <2>1, <2>3, <3>1
  <2> QED
    BY <2>2, <2>3
<1>5. pc' \in {"pass", "drain"} /\ pc \in Passing /\ pc' \in Passing /\ pc' \notin Sending
  BY <1>0 DEF Passing, Sending
<1>6. RequestIsWork' /\ AnswerSettles'
  BY <1>1, <1>2, <1>5 DEF RequestIsWork, AnswerSettles, Live
<1>7. PassShape' /\ PressKnown'
  BY <1>0, <1>1, <1>3, <1>4, <1>5 DEF InputInv, CarrierInv, PassShape, PressKnown,
     NoForgottenPress, EndsDown
<1>8. PassOwes'
  <2> SUFFICES ASSUME NEW i \in remote', i \notin Releasing(pass') PROVE Settled(i)'
    BY DEF PassOwes
  <2>1. CASE i \in Releasing(pass)
    <3>1. ~EndsDown(i) /\ slot = <<>>
      BY <2>1, <1>2, <1>3
    <3> QED
      BY <3>1, <1>1 DEF Settled, EndsDown
  <2>2. CASE i \notin Releasing(pass)
    <3>1. Settled(i)
      BY <2>2, <1>0, <1>5 DEF InputInv, OwedInv, PassOwes
    <3> QED
      BY <3>1, <1>0, SettledUnchanged
  <2> QED
    BY <2>1, <2>2
<1>9. PassRecovers' /\ PendingOwed' /\ OnlyControlPresses' /\ PressOwed'
  BY <1>0, <1>5 DEF InputInv, OwedInv, PassRecovers, PendingOwed, OnlyControlPresses, PressOwed
<1>10. ConfirmedClean' /\ InFlightWork'
  BY <1>0, <1>5 DEF InputInv, OwedInv, ConfirmedClean, InFlightWork, Sending
<1>11. ReleaseOwed'
  BY <1>0, <1>5 DEF InputInv, OwedInv, ReleaseOwed, Under
<1> QED
  BY <1>6, <1>7, <1>8, <1>9, <1>10, <1>11 DEF CarrierInv, OwedInv

LEMMA RecoveredStep ==
    ASSUME InputInv, Recovered
    PROVE  CarrierInv' /\ OwedInv'
<1>0. /\ pc = "draining" /\ current /\ reply = "ok" /\ remote' = {} /\ recovery' = "confirmed"
      /\ Idle /\ pc' = "idle" /\ current' = FALSE
      /\ UNCHANGED <<ready, stopping, mode, held, drag, queue, inFlight, recovering>>
  BY DEF Recovered, intentVars, Idle
<1>1. wire = <<>> /\ slot = <<>> /\ pass = <<>> /\ pc \in Passing /\ ~inFlight
  BY <1>0 DEF InputInv, CarrierInv, OwedInv, RequestIsWork, AnswerSettles, PassShape,
     InFlightWork, Passing, Sending
<1>2. \A i \in Inputs : ~EndsDown(i)
  <2>1. \A i \in remote : Settled(i)
    BY <1>0, <1>1, EmptyReleases DEF InputInv, OwedInv, PassOwes
  <2> QED
    BY <2>1 DEF InputInv, CarrierInv, PressKnown, NoForgottenPress, Settled
<1>3. down = {}
  BY <1>1, <1>2, EmptyEnds, CarrierTyped
<1>4. CarrierInv'
  BY <1>0, <1>1, <1>2, WentIdle
<1>5. wire' = wire /\ down' = down /\ slot' = <<>>
  BY <1>0, <1>1, Forgotten DEF Idle
<1>6. ConfirmedClean'
  BY <1>0, <1>1, <1>3, <1>5, EmptyReleases DEF ConfirmedClean, Sending, Passing
<1>7. PassOwes' /\ PassRecovers' /\ PendingOwed' /\ InFlightWork' /\ ReleaseOwed'
  BY <1>0, <1>1 DEF PassOwes, PassRecovers, PendingOwed, InFlightWork, ReleaseOwed
<1>8. OnlyControlPresses' /\ PressOwed'
  BY <1>0 DEF InputInv, OwedInv, OnlyControlPresses, PressOwed
<1> QED
  BY <1>4, <1>6, <1>7, <1>8 DEF OwedInv

LEMMA RecoveryFailsStep ==
    ASSUME InputInv, RecoveryFails
    PROVE  CarrierInv' /\ OwedInv'
<1>0. /\ current' = FALSE /\ inFlight' = FALSE /\ held' = {} /\ queue' = Ups(remote)
      /\ recovery' = "none" /\ Idle /\ remote' = remote
  BY DEF RecoveryFails, ReleaseLocked, AdvanceEpoch
<1>1. CarrierInv'
  BY <1>0, WentIdleKnowing
<1>2. OnlyUps(queue') /\ Releasing(queue') = remote
  BY <1>0, Typed, UpsFacts
<1>3. ConfirmedClean' /\ PendingOwed' /\ PassOwes' /\ PassRecovers' /\ InFlightWork'
  BY <1>0 DEF ConfirmedClean, PendingOwed, PassOwes, PassRecovers, InFlightWork
<1>4. OnlyControlPresses' /\ PressOwed' /\ ReleaseOwed'
  BY <1>0, <1>2, UpsOwe DEF OnlyControlPresses, PressOwed, ReleaseOwed, Under
<1> QED
  BY <1>1, <1>3, <1>4 DEF OwedInv

LEMMA PassCancelledStep ==
    ASSUME InputInv, PassCancelled
    PROVE  CarrierInv' /\ OwedInv'
<1>0. /\ pc \in Passing /\ ~current /\ Idle /\ pc' = "idle"
      /\ UNCHANGED <<ready, stopping, mode, held, drag, remote, queue, inFlight, recovery,
                     recovering, current>>
  BY DEF PassCancelled, intentVars, owedVars, Idle
<1>1. CarrierInv'
  BY <1>0, WentIdleKnowing
<1>2. ~inFlight
  BY <1>0 DEF InputInv, OwedInv, InFlightWork
<1>3. ConfirmedClean'
  BY <1>0, IdleClean
<1>4. PassOwes' /\ PassRecovers' /\ InFlightWork'
  BY <1>0, <1>2 DEF PassOwes, PassRecovers, InFlightWork
<1>5. PendingOwed' /\ OnlyControlPresses' /\ PressOwed'
  BY <1>0 DEF InputInv, OwedInv, PendingOwed, OnlyControlPresses, PressOwed
<1>6. ReleaseOwed'
  BY <1>0, <1>2 DEF InputInv, OwedInv, ReleaseOwed, Under
<1> QED
  BY <1>1, <1>3, <1>4, <1>5, <1>6 DEF OwedInv

LEMMA SenderStep ==
    ASSUME InputInv, Sender
    PROVE  CarrierInv' /\ OwedInv'
<1>1. CASE Submit
  <2>1. /\ Request(Send(work)) /\ pc = "popped" /\ pc' = "submitted"
        /\ UNCHANGED <<intentVars, owedVars, joining, work, pass, current>>
    BY <1>1 DEF Submit
  <2> QED
    BY <2>1, RequestStep
<1>2. CASE PassOn
  <2>1. /\ Request(Send(Head(pass))) /\ pc = "pass" /\ pc' = "passSent"
        /\ UNCHANGED <<intentVars, owedVars, joining, work, pass, current>>
    BY <1>2 DEF PassOn
  <2> QED
    BY <2>1, RequestStep
<1>3. CASE AskDrain
  <2>1. /\ Request(Drain) /\ pc = "drain" /\ pc' = "draining"
        /\ UNCHANGED <<intentVars, owedVars, joining, work, pass, current>>
    BY <1>3 DEF AskDrain
  <2> QED
    BY <2>1, RequestStep
<1> QED
  BY <1>1, <1>2, <1>3, NextRecoveryStep, PopStep, DiscardStep, SentStep, PauseTransportStep,
     GiveUpStep, PassNextStep, RecoveredStep, RecoveryFailsStep, PassCancelledStep DEF Sender

-----------------------------------------------------------------------------
(* The worker keeps the invariant.                                          *)

\* What a step of the worker leaves alone.
LEMMA WorkerLeaves ==
    ASSUME InputInv, UNCHANGED <<intentVars, owedVars, joining, senderVars>>
    PROVE  /\ PassRecovers' /\ PendingOwed' /\ OnlyControlPresses' /\ InFlightWork'
           /\ PressOwed' /\ ReleaseOwed' /\ PassShape'
           /\ UNCHANGED <<remote, pc, work, pass, current, recovery>>
<1>0. UNCHANGED <<ready, stopping, mode, owner, held, drag, remote, checkpoint, queue, inFlight,
                 recovery, recovering, pc, work, pass, current>>
  BY DEF intentVars, owedVars, senderVars
<1>1. PassRecovers' /\ PendingOwed' /\ OnlyControlPresses' /\ InFlightWork'
  BY <1>0 DEF InputInv, OwedInv, PassRecovers, PendingOwed, OnlyControlPresses, InFlightWork
<1>2. PressOwed' /\ ReleaseOwed'
  BY <1>0 DEF InputInv, OwedInv, PressOwed, ReleaseOwed, Under
<1>3. PassShape'
  BY <1>0 DEF InputInv, CarrierInv, PassShape
<1> QED
  BY <1>0, <1>1, <1>2, <1>3

LEMMA TakeStep ==
    ASSUME InputInv, UNCHANGED <<intentVars, owedVars, joining, senderVars>>,
           NEW v \in BOOLEAN, Take(v)
    PROVE  CarrierInv' /\ OwedInv'
<1>0. /\ slot = <<>> /\ command # <<>> /\ ~command[1].drain /\ command' = <<>>
      /\ UNCHANGED <<wire, down, draining>>
      /\ IF v THEN slot' = <<[message |-> command[1].message, live |-> TRUE]>> /\ reply' = reply
         ELSE reply' = "failed" /\ slot' = <<>>
  BY DEF Take
<1>1. UNCHANGED <<remote, pc, work, pass, current, recovery>>
  BY WorkerLeaves
<1>2. /\ pc \in Asking /\ command[1] = Asked /\ ~draining /\ reply = "none"
  BY <1>0 DEF InputInv, CarrierInv, RequestIsWork, CarrierTyped, Asked
<1>3. pc \in {"submitted", "passSent"} /\ command[1].message = Asked.message
  BY <1>0, <1>2 DEF Asking, Asked, Drain
<1>4. /\ slot' # <<>> => slot'[1].message = Asked.message /\ slot'[1].live
      /\ reply' \in {"none", "failed"} /\ (reply' # "none" => slot' = <<>>)
  BY <1>0, <1>2, <1>3
<1>5. /\ pc = "submitted" => Asked.message = work
      /\ pc = "passSent" => Asked.message = Head(pass) /\ ~Head(pass).down
  <2>1. ASSUME pc = "passSent" PROVE ~Head(pass).down
    BY <2>1, CarrierTyped, TailReleases DEF InputInv, CarrierInv, PassShape
  <2> QED
    BY <2>1 DEF Asked, Send
<1>6. RequestIsWork'
  <2>1. Asked' = Asked
    BY <1>1 DEF Asked
  <2> QED
    BY <1>0, <1>1, <1>2, <1>3, <1>4, <2>1 DEF RequestIsWork, Live
<1>7. AnswerSettles'
  BY <1>4 DEF AnswerSettles
<1>8. PressKnown'
  BY <1>0, <1>1, <1>3, <1>4, <1>5 DEF InputInv, CarrierInv, PressKnown, NoForgottenPress,
     EndsDown, Sending
<1>9. PassOwes'
  <2> SUFFICES ASSUME pc \in Passing, current, NEW i \in remote, i \notin Releasing(pass)
               PROVE  Settled(i)'
    BY <1>1 DEF PassOwes
  <2>1. pc = "passSent"
    BY <1>3 DEF Passing
  <2>2. i \in Inputs /\ Settled(i)
    BY Typed DEF InputInv, OwedInv, PassOwes
  <2>3. slot' # <<>> => slot'[1].message # Down(i)
    BY <1>4, <1>5, <2>1, <2>2, EdgeFacts
  <2> QED
    BY <1>0, <2>2, <2>3 DEF Settled, EndsDown
<1>10. ConfirmedClean'
  BY <1>0, <1>1, <1>3, <1>4, <1>5 DEF InputInv, OwedInv, ConfirmedClean, Sending, Passing
<1> QED
  BY <1>6, <1>7, <1>8, <1>9, <1>10, WorkerLeaves DEF CarrierInv, OwedInv

LEMMA CommitStep ==
    ASSUME InputInv, UNCHANGED <<intentVars, owedVars, joining, senderVars>>, Commit
    PROVE  CarrierInv' /\ OwedInv'
<1>2. slot # <<>> /\ slot[1].message \in Message /\ wire \in Seq(Message)
  BY CarrierTyped DEF Commit
<1>a. PICK m \in Message : m = slot[1].message
  BY <1>2
<1>0. /\ slot # <<>> /\ slot' = <<>> /\ UNCHANGED <<command, down, draining>>
      /\ wire' = Append(wire, m) \/ wire' = wire
      /\ reply' = reply \/ (slot[1].live /\ reply' \in {"ok", "failed"})
      /\ reply' = "ok" => reply = "ok" \/ wire' = Append(wire, m)
  BY <1>a DEF Commit, Answer
<1>1. UNCHANGED <<remote, pc, work, pass, current, recovery>>
  BY WorkerLeaves
<1>3. reply = "none"
  BY <1>0 DEF InputInv, CarrierInv, RequestIsWork
<1>4. slot[1].live => /\ command = <<>> /\ ~draining
                      /\ pc \in {"submitted", "passSent"} /\ m = Asked.message
  BY <1>0, <1>a DEF InputInv, CarrierInv, RequestIsWork, Live
<1>5. /\ pc = "submitted" => Asked.message = work
      /\ pc = "passSent" => Asked.message = Head(pass) /\ ~Head(pass).down
  <2>1. ASSUME pc = "passSent" PROVE ~Head(pass).down
    BY <2>1, CarrierTyped, TailReleases DEF InputInv, CarrierInv, PassShape
  <2> QED
    BY <2>1 DEF Asked, Send
<1>6. ASSUME NEW i \in Inputs
      PROVE  \/ EndsDown(i)' <=> EndsDown(i)
             \/ m.input = i /\ (EndsDown(i)' <=> m.down)
  <2>1. CASE wire' = Append(wire, m)
    BY <2>1, <1>0, <1>2, CommitEnds
  <2>2. CASE wire' = wire
    BY <2>2, <1>0 DEF EndsDown
  <2> QED
    BY <2>1, <2>2, <1>0
<1>7. ASSUME wire' = Append(wire, m), ~m.down PROVE ~EndsDown(m.input)'
  <2>1. CASE m.input \in Inputs
    <3>1. EndsDown(m.input)' <=> IF m.input = m.input THEN m.down ELSE EndsDown(m.input)
      BY <1>7, <2>1, <1>0, <1>2, CommitEnds
    <3> QED
      BY <3>1, <1>7
  <2>2. CASE m.input \notin Inputs
    <3>1. wire' \in Seq(Message) /\ down' \subseteq Inputs
      BY <1>7, <1>0, <1>2, AppendProperties, CarrierTyped
    <3> QED
      BY <3>1, <2>2, OnlyInputsEnd
  <2> QED
    BY <2>1, <2>2
<1>8. RequestIsWork'
  <2>1. Asked' = Asked
    BY <1>1 DEF Asked
  <2> QED
    BY <1>0, <1>1, <1>3, <1>4, <2>1 DEF InputInv, CarrierInv, RequestIsWork, Live
<1>9. AnswerSettles'
  <2> SUFFICES ASSUME reply' = "ok"
               PROVE  /\ pc = "submitted" /\ ~work.down => ~EndsDown(work.input)'
                      /\ pc = "passSent" => ~EndsDown(Head(pass).input)'
                      /\ pc # "draining"
    BY <1>1 DEF AnswerSettles, EndsDown
  <2>1. slot[1].live /\ wire' = Append(wire, m)
    BY <1>0, <1>3
  <2>2. pc \in {"submitted", "passSent"} /\ m = Asked.message
    BY <2>1, <1>4
  <2>3. CASE pc = "submitted"
    <3>1. m = work
      BY <2>2, <2>3, <1>5
    <3>2. ~m.down => ~EndsDown(m.input)'
      BY <2>1, <1>7
    <3> QED
      BY <2>3, <3>1, <3>2, <1>1 DEF EndsDown
  <2>4. CASE pc = "passSent"
    <3>1. m = Head(pass) /\ ~m.down
      BY <2>2, <2>4, <1>5
    <3>2. ~EndsDown(m.input)'
      BY <2>1, <3>1, <1>7
    <3> QED
      BY <2>4, <3>1, <3>2, <1>1 DEF EndsDown
  <2> QED
    BY <2>2, <2>3, <2>4
<1>10. PressKnown'
  BY <1>0, <1>1, <1>a, <1>6 DEF InputInv, CarrierInv, PressKnown, NoForgottenPress
<1>11. PassOwes'
  <2> SUFFICES ASSUME pc \in Passing, current, NEW i \in remote, i \notin Releasing(pass)
               PROVE  Settled(i)'
    BY <1>1 DEF PassOwes
  <2>1. i \in Inputs /\ Settled(i)
    BY Typed DEF InputInv, OwedInv, PassOwes
  <2>2. m # Down(i)
    BY <2>1, <1>0, <1>a DEF Settled
  <2>3. m.input = i => ~m.down
    BY <2>2, <1>2, EdgeFacts
  <2>4. ~EndsDown(i)'
    BY <2>1, <2>3, <1>6 DEF Settled
  <2> QED
    BY <2>4, <1>0 DEF Settled
<1>12. ConfirmedClean'
  <2> SUFFICES ASSUME recovery = "confirmed"
               PROVE  /\ down = {} /\ OnlyUps(wire')
                      /\ (pc \in Sending => ~work.down) /\ pc \notin Passing
    BY <1>0, <1>1 DEF ConfirmedClean
  <2>1. /\ down = {} /\ OnlyUps(wire) /\ ~m.down
        /\ (pc \in Sending => ~work.down) /\ pc \notin Passing
    BY <1>0, <1>a DEF InputInv, OwedInv, ConfirmedClean
  <2>2. OnlyUps(wire')
    BY <2>1, <1>0, <1>2, AppendReleases
  <2> QED
    BY <2>1, <2>2
<1> QED
  BY <1>8, <1>9, <1>10, <1>11, <1>12, WorkerLeaves DEF CarrierInv, OwedInv

LEMMA AcknowledgedStep ==
    ASSUME InputInv, UNCHANGED <<intentVars, owedVars, joining, senderVars>>, Acknowledged
    PROVE  CarrierInv' /\ OwedInv'
<1>0. /\ wire # <<>> /\ down' = Pressed(down, Head(wire)) /\ wire' = Tail(wire)
      /\ UNCHANGED <<command, slot, draining, reply>>
  BY DEF Acknowledged
<1>1. UNCHANGED <<remote, pc, work, pass, current, recovery>>
  BY WorkerLeaves
<1>2. \A i \in Inputs : EndsDown(i)' <=> EndsDown(i)
  BY <1>0, CarrierTyped, AcknowledgedEnds
<1>a. ASSUME NEW i, EndsDown(i)' PROVE EndsDown(i)
  <2>1. wire' \in Seq(Message)
    BY <1>0, CarrierTyped, HeadTailProperties
  <2>2. down' \subseteq Inputs
    BY <1>0, CarrierTyped, TailReleases, EdgeFacts DEF Pressed
  <2>3. i \in Inputs
    BY <1>a, <2>1, <2>2, OnlyInputsEnd
  <2> QED
    BY <1>a, <2>3, <1>2
<1>3. RequestIsWork'
  <2>1. Asked' = Asked
    BY <1>1 DEF Asked
  <2> QED
    BY <1>0, <1>1, <2>1 DEF InputInv, CarrierInv, RequestIsWork, Live
<1>4. AnswerSettles'
  BY <1>0, <1>1, <1>a DEF InputInv, CarrierInv, AnswerSettles
<1>5. PressKnown'
  BY <1>0, <1>1, <1>2 DEF InputInv, CarrierInv, PressKnown, NoForgottenPress
<1>6. PassOwes'
  BY <1>0, <1>1, <1>2, Typed DEF InputInv, OwedInv, PassOwes, Settled
<1>7. ConfirmedClean'
  <2>1. ASSUME recovery = "confirmed" PROVE down' = {} /\ OnlyUps(wire')
    <3>1. OnlyUps(wire) /\ down = {}
      BY <2>1 DEF InputInv, OwedInv, ConfirmedClean
    <3>2. OnlyUps(wire') /\ ~Head(wire).down
      BY <3>1, <1>0, CarrierTyped, TailReleases
    <3> QED
      BY <3>1, <3>2, <1>0 DEF Pressed
  <2> QED
    BY <2>1, <1>0, <1>1 DEF InputInv, OwedInv, ConfirmedClean
<1> QED
  BY <1>3, <1>4, <1>5, <1>6, <1>7, WorkerLeaves DEF CarrierInv, OwedInv

\* The steps of the worker that only concern the request.
LEMMA AnswerStep ==
    ASSUME InputInv, UNCHANGED <<intentVars, owedVars, joining, senderVars>>,
           TakeDrain \/ Drained \/ Dies
    PROVE  CarrierInv' /\ OwedInv'
<1>0. UNCHANGED <<wire, down>> /\ (command' = <<>> \/ command' = command)
  BY DEF TakeDrain, Drained, Dies
<1>1. UNCHANGED <<remote, pc, work, pass, current, recovery, wire, down>>
  BY WorkerLeaves DEF TakeDrain, Drained, Dies
<1>2. slot' = slot \/ slot' = <<>>
  BY DEF TakeDrain, Drained, Dies
<1>3. RequestIsWork'
  <2>1. CASE TakeDrain
    <3>1. /\ slot = <<>> /\ command # <<>> /\ command[1].drain
          /\ command' = <<>> /\ draining' = TRUE /\ UNCHANGED <<slot, reply>>
      BY <2>1 DEF TakeDrain
    <3>2. pc \in Asking /\ command[1] = Asked /\ reply = "none"
      BY <3>1 DEF InputInv, CarrierInv, RequestIsWork
    <3>3. pc = "draining"
      BY <3>1, <3>2 DEF Asking, Asked, Send
    <3> QED
      BY <3>1, <3>2, <3>3, <1>1 DEF RequestIsWork, Live
  <2>2. CASE Drained
    <3>1. draining /\ slot = <<>> /\ draining' = FALSE /\ UNCHANGED <<command, slot>>
      BY <2>2 DEF Drained
    <3>2. command = <<>>
      BY <3>1 DEF InputInv, CarrierInv, RequestIsWork
    <3> QED
      BY <3>1, <3>2 DEF RequestIsWork, Live
  <2>3. CASE Dies
    BY <2>3 DEF Dies, RequestIsWork, Live
  <2> QED
    BY <2>1, <2>2, <2>3
<1>4. AnswerSettles'
  <2> SUFFICES ASSUME reply' = "ok"
               PROVE  /\ pc = "submitted" /\ ~work.down => ~EndsDown(work.input)
                      /\ pc = "passSent" => ~EndsDown(Head(pass).input)
                      /\ pc = "draining" => wire = <<>>
    BY <1>1 DEF AnswerSettles, EndsDown
  <2>1. CASE reply = "ok"
    BY <2>1 DEF InputInv, CarrierInv, AnswerSettles
  <2>2. CASE reply # "ok"
    <3>1. draining /\ wire = <<>>
      BY <2>2 DEF TakeDrain, Drained, Dies
    <3>2. pc = "draining"
      BY <3>1 DEF InputInv, CarrierInv, RequestIsWork
    <3> QED
      BY <3>1, <3>2
  <2> QED
    BY <2>1, <2>2
<1>5. PressKnown'
  BY <1>1, <1>2 DEF InputInv, CarrierInv, PressKnown, NoForgottenPress, EndsDown
<1>6. PassOwes'
  BY <1>1, <1>2 DEF InputInv, OwedInv, PassOwes, Settled, EndsDown
<1>7. ConfirmedClean'
  BY <1>1, <1>2 DEF InputInv, OwedInv, ConfirmedClean
<1> QED
  BY <1>3, <1>4, <1>5, <1>6, <1>7, WorkerLeaves DEF CarrierInv, OwedInv

LEMMA CarrierStep ==
    ASSUME InputInv, Carrier
    PROVE  CarrierInv' /\ OwedInv'
<1>1. UNCHANGED <<intentVars, owedVars, joining, senderVars>>
  BY DEF Carrier
<1>2. TakeDrain \/ Take(Valid) \/ Commit \/ Acknowledged \/ Drained \/ Dies
  BY DEF Carrier, WorkerStep
<1>3. Valid \in BOOLEAN
  BY DEF Valid, IsCurrent, RecoveryCurrent, InputInv, InputTypeOK
<1> QED
  BY <1>1, <1>2, <1>3, TakeStep, CommitStep, AcknowledgedStep, AnswerStep

-----------------------------------------------------------------------------
(* The types.                                                               *)

\* The types of what the windows and the session change.
LEMMA Retyped ==
    ASSUME InputInv, UNCHANGED <<remote, pc, work, pass, kcpVars>>,
           ready' \in BOOLEAN, stopping' \in BOOLEAN, joining' \in BOOLEAN,
           mode' \in {"View", "Neutral", "Control"},
           owner' \in Owners \cup {NoOwner},
           held' \subseteq Inputs, checkpoint' \subseteq Keys, queue' \in Seq(Edge),
           inFlight' \in BOOLEAN, drag' \in BOOLEAN,
           recovery' \in {"none", "pending", "dispatched", "confirmed"},
           recovering' \in BOOLEAN, current' \in BOOLEAN,
           mode' # "View" => ready' /\ ~stopping' /\ recovery' = "none"
    PROVE  InputTypeOK'
<1>1. KcpTypeOK'
  BY DEF InputInv, InputTypeOK, KcpTypeOK, kcpVars
<1>2. remote' \subseteq Inputs /\ pc' \in {"idle"} \cup Sending \cup Passing
  BY DEF InputInv, InputTypeOK, Sending, Passing
<1>3. work' \in Message /\ pass' \in Seq(Message)
  BY DEF InputInv, InputTypeOK
<1> QED
  BY <1>1, <1>2, <1>3 DEF InputTypeOK, Sending, Passing

LEMMA ReleasedTypes ==
    ASSUME InputInv, UNCHANGED <<remote, pc, work, pass, kcpVars>>,
           NEW o \in Owners \cup {NoOwner}, NEW q \in Seq(Edge), ReleaseLocked(o, q),
           recovery' \in {"none", "pending"},
           ready' \in BOOLEAN, stopping' \in BOOLEAN, joining' \in BOOLEAN,
           recovering' \in BOOLEAN, mode' \in {"View", "Neutral", "Control"},
           mode' # "View" => ready' /\ ~stopping' /\ recovery' = "none"
    PROVE  InputTypeOK'
<1>1. /\ current' = FALSE /\ inFlight' = FALSE /\ drag' = FALSE /\ queue' = q
      /\ checkpoint' = checkpoint \cup (remote \cap Keys) /\ held' = {} /\ owner' = o
  BY DEF ReleaseLocked, AdvanceEpoch
<1>2. checkpoint' \subseteq Keys
  BY <1>1 DEF InputInv, InputTypeOK
<1>3. recovery' \in {"none", "pending", "dispatched", "confirmed"}
  OBVIOUS
<1> QED
  BY <1>1, <1>2, <1>3, Retyped

LEMMA IntentTyped ==
    ASSUME InputInv
    PROVE  /\ ready \in BOOLEAN /\ stopping \in BOOLEAN /\ joining \in BOOLEAN
           /\ mode \in {"View", "Neutral", "Control"} /\ owner \in Owners \cup {NoOwner}
           /\ recovering \in BOOLEAN /\ current \in BOOLEAN /\ inFlight \in BOOLEAN
           /\ drag \in BOOLEAN /\ checkpoint \subseteq Keys
           /\ recovery \in {"none", "pending", "dispatched", "confirmed"}
           /\ checkpoint \cup (remote \cap Keys) \subseteq Keys
           /\ Ups(remote) \in Seq(Edge)
<1>1. Ups(remote) \in Seq(Edge)
  BY Typed, UpsFacts
<1> QED
  BY <1>1 DEF InputInv, InputTypeOK

LEMMA BegunTypes ==
    ASSUME InputInv, Operation, BeginRecovery, UNCHANGED <<ready, recovering>>
    PROVE  InputTypeOK'
<1>1. /\ ReleaseLocked(NoOwner, Ups(remote)) /\ mode' = "View" /\ recovery' = "pending"
      /\ UNCHANGED <<remote, pc, work, pass, kcpVars, stopping, joining>>
  BY DEF Operation, BeginRecovery
<1> QED
  BY <1>1, IntentTyped, ReleasedTypes

LEMMA WindowsTypes ==
    ASSUME InputInv, Windows
    PROVE  InputTypeOK'
<1>1. PICK o \in Owners :
        \/ Move(o)
        \/ \E i \in Inputs : Press(o, i) \/ Lift(o, i)
        \/ PauseOwner(o)
        \/ CtrlAltDel(o)
        \/ HoldDrag(o)
  BY DEF Windows
<1>a. /\ UNCHANGED <<remote, pc, work, pass, kcpVars, stopping, joining, ready, recovering>>
      /\ Operation
  BY <1>1 DEF Move, Press, Lift, PauseOwner, CtrlAltDel, HoldDrag, Operation
<1>b. /\ remote \in SUBSET Inputs /\ held \in SUBSET Inputs /\ queue \in Seq(Edge)
      /\ mode # "View" => ready /\ ~stopping /\ recovery = "none"
      /\ Left \in Inputs
  BY Typed
<1>2. CASE Move(o)
  <2>1. /\ ReleaseLocked(o, Ups(remote)) /\ recovery' = "none" /\ mode' = mode
    BY <1>2 DEF Move
  <2> QED
    BY <1>a, <1>b, <2>1, IntentTyped, ReleasedTypes
<1>3. ASSUME NEW i \in Inputs, Press(o, i) PROVE InputTypeOK'
  <2>1. CASE Len(Claimed(o)) >= MaxEvents
    BY <2>1, <1>3, <1>a, BegunTypes DEF Press
  <2>2. CASE ~(Len(Claimed(o)) >= MaxEvents)
    <3>1. /\ mode' = mode /\ queue' = Append(Claimed(o), Down(i)) /\ held' = Kept(o) \cup {i}
      BY <2>2, <1>3 DEF Press
    <3>2. queue' \in Seq(Edge)
      <4>1. Claimed(o) \in Seq(Edge) /\ Down(i) \in Edge
        BY <1>b, IntentTyped, EdgeFacts DEF Claimed
      <4> QED
        BY <3>1, <4>1, AppendProperties
    <3>3. held' \subseteq Inputs
      BY <3>1, <1>b DEF Kept
    <3>4. CASE owner = o
      <4>1. UNCHANGED <<owner, drag, checkpoint, current, inFlight, recovery>>
        BY <2>2, <3>4, <1>3 DEF Press
      <4> QED
        BY <1>a, <1>b, <3>1, <3>2, <3>3, <4>1, IntentTyped, Retyped
    <3>5. CASE owner # o
      <4>1. /\ current' = FALSE /\ inFlight' = FALSE /\ owner' = o /\ drag' = FALSE
            /\ checkpoint' = checkpoint \cup (remote \cap Keys) /\ recovery' = "none"
        BY <2>2, <3>5, <1>3 DEF Press, AdvanceEpoch
      <4> QED
        BY <1>a, <1>b, <3>1, <3>2, <3>3, <4>1, IntentTyped, Retyped
    <3> QED
      BY <3>4, <3>5
  <2> QED
    BY <2>1, <2>2
<1>4. ASSUME NEW i \in Inputs, Lift(o, i) PROVE InputTypeOK'
  <2>1. CASE Len(queue) >= MaxEvents
    BY <2>1, <1>4, <1>a, BegunTypes DEF Lift
  <2>2. CASE ~(Len(queue) >= MaxEvents)
    <3>1. /\ queue' = Append(queue, Up(i)) /\ held' = held \ {i}
          /\ UNCHANGED <<mode, owner, drag, checkpoint, current, inFlight, recovery>>
      BY <2>2, <1>4 DEF Lift
    <3>2. queue' \in Seq(Edge) /\ held' \subseteq Inputs
      BY <3>1, <1>b, EdgeFacts, AppendProperties
    <3> QED
      BY <1>a, <1>b, <3>1, <3>2, IntentTyped, Retyped
  <2> QED
    BY <2>1, <2>2
<1>5. CASE PauseOwner(o)
  <2>1. CASE drag /\ Left \in held
    <3>1. /\ queue' = Ups(remote \ {Left}) /\ checkpoint' = checkpoint \cup (remote \cap Keys)
          /\ held' = {Left} /\ UNCHANGED <<owner, drag, current, inFlight, recovery, mode>>
      BY <2>1, <1>5 DEF PauseOwner
    <3>2. queue' \in Seq(Edge)
      <4>1. remote \ {Left} \in SUBSET Inputs
        BY <1>b
      <4> QED
        BY <3>1, <4>1, UpsFacts
    <3> QED
      BY <1>a, <1>b, <3>1, <3>2, IntentTyped, Retyped
  <2>2. CASE ~(drag /\ Left \in held)
    <3>1. /\ ReleaseLocked(NoOwner, Ups(remote)) /\ recovery' = "none" /\ mode' = mode
      BY <2>2, <1>5 DEF PauseOwner
    <3> QED
      BY <1>a, <1>b, <3>1, IntentTyped, ReleasedTypes
  <2> QED
    BY <2>1, <2>2
<1>6. CASE CtrlAltDel(o)
  <2> DEFINE q == Ups(remote) \o [n \in DOMAIN Chord |-> Down(Chord[n])]
                    \o [n \in DOMAIN Chord |-> Up(Chord[Len(Chord) + 1 - n])]
  <2>1. ReleaseLocked(o, q) /\ recovery' = "none" /\ mode' = mode
    BY <1>6 DEF CtrlAltDel
  <2>2. q \in Seq(Edge)
    <3>1. Ups(remote) \in Seq(Edge) /\ OnlyUps(Ups(remote))
      BY <1>b, UpsFacts
    <3> QED
      BY <3>1, ChordOwes
  <2> HIDE DEF q
  <2> QED
    BY <1>a, <1>b, <2>1, <2>2, IntentTyped, ReleasedTypes
<1>7. CASE HoldDrag(o)
  <2>1. /\ drag' = TRUE
        /\ UNCHANGED <<mode, owner, held, checkpoint, queue, inFlight, recovery, current>>
    BY <1>7 DEF HoldDrag
  <2> QED
    BY <1>a, <1>b, <2>1, IntentTyped, Retyped
<1> QED
  BY <1>1, <1>2, <1>3, <1>4, <1>5, <1>6, <1>7

LEMMA SessionTypes ==
    ASSUME InputInv, Session
    PROVE  InputTypeOK'
<1>b. /\ remote \in SUBSET Inputs /\ held \in SUBSET Inputs /\ queue \in Seq(Edge)
      /\ mode # "View" => ready /\ ~stopping /\ recovery = "none"
      /\ Left \in Inputs
  BY Typed
<1>0. <<>> \in Seq(Edge)
  OBVIOUS
<1>1. CASE QueueFull
  BY <1>1, BegunTypes DEF QueueFull
<1>2. CASE CancelDrag \/ Enable \/ SwitchMode \/ PauseLayout
  <2>1. /\ ReleaseLocked(NoOwner, Ups(remote)) /\ recovery' = "none"
        /\ UNCHANGED <<remote, pc, work, pass, kcpVars, stopping, joining, ready>>
        /\ recovering' = recovering \/ recovering' = FALSE
        /\ mode' = mode \/ (mode' = "Neutral" /\ ready /\ ~stopping)
    BY <1>2 DEF CancelDrag, Enable, SwitchMode, PauseLayout, Operation
  <2> QED
    BY <1>b, <2>1, IntentTyped, ReleasedTypes
<1>3. CASE ConfirmNeutral
  <2>1. /\ UNCHANGED <<remote, pc, work, pass, kcpVars, stopping, joining>>
        /\ UNCHANGED <<ready, owner, held, drag, checkpoint, queue, inFlight, recovery,
                       recovering, current>>
        /\ mode = "Neutral" /\ mode' = "Control"
    BY <1>3 DEF ConfirmNeutral, Operation
  <2> QED
    BY <1>b, <2>1, IntentTyped, Retyped
<1>4. CASE Disable
  <2>1. /\ ReleaseLocked(NoOwner, IF ready THEN Ups(remote) ELSE <<>>)
        /\ recovery' = "none" /\ mode' = "View"
        /\ UNCHANGED <<remote, pc, work, pass, kcpVars, stopping, joining, ready, recovering>>
    BY <1>4 DEF Disable, Operation
  <2>2. (IF ready THEN Ups(remote) ELSE <<>>) \in Seq(Edge)
    BY <1>0, IntentTyped
  <2> QED
    BY <2>1, <2>2, IntentTyped, ReleasedTypes
<1>5. CASE Close
  <2>1. /\ ReleaseLocked(NoOwner, IF ready THEN Ups(remote) ELSE <<>>)
        /\ recovery' = "none" /\ mode' = "View" /\ stopping' = TRUE
        /\ UNCHANGED <<remote, pc, work, pass, kcpVars, joining, ready, recovering>>
    BY <1>5 DEF Close
  <2>2. (IF ready THEN Ups(remote) ELSE <<>>) \in Seq(Edge)
    BY <1>0, IntentTyped
  <2> QED
    BY <2>1, <2>2, IntentTyped, ReleasedTypes
<1>6. CASE Connect
  <2>1. /\ ReleaseLocked(NoOwner, Ups(remote)) /\ recovery' = "none" /\ ready' = TRUE
        /\ joining' = TRUE /\ ~ready
        /\ UNCHANGED <<remote, pc, work, pass, kcpVars, stopping, mode, recovering>>
    BY <1>6 DEF Connect
  <2>2. mode' = "View"
    BY <1>b, <2>1
  <2> QED
    BY <2>1, <2>2, IntentTyped, ReleasedTypes
<1>7. CASE Disconnect \/ Closed
  <2>1. /\ UNCHANGED <<remote, pc, work, pass, kcpVars, stopping, joining, checkpoint, recovering>>
        /\ ready' = FALSE /\ mode' = "View" /\ owner' = NoOwner /\ held' = {} /\ drag' = FALSE
        /\ queue' = <<>> /\ recovery' = "none" /\ current' = FALSE /\ inFlight' = FALSE
    BY <1>7 DEF Disconnect, Closed, Unready, Operation, AdvanceEpoch
  <2> QED
    BY <1>0, <2>1, IntentTyped, Retyped
<1>8. ASSUME NEW left \in BOOLEAN, ResumeDrag(left) PROVE InputTypeOK'
  <2>1. CASE ~left /\ Len(queue) >= MaxEvents
    BY <2>1, <1>8, BegunTypes DEF ResumeDrag
  <2>2. CASE left \/ ~(Len(queue) >= MaxEvents)
    <3>1. /\ drag' = FALSE
          /\ held' = held \/ held' = held \ {Left}
          /\ queue' = queue \/ queue' = Append(queue, Up(Left))
          /\ UNCHANGED <<mode, owner, checkpoint, inFlight, recovery, current>>
          /\ UNCHANGED <<remote, pc, work, pass, kcpVars, stopping, joining, ready, recovering>>
      BY <2>2, <1>8 DEF ResumeDrag, Operation
    <3>2. queue' \in Seq(Edge) /\ held' \subseteq Inputs
      BY <3>1, <1>b, EdgeFacts, AppendProperties
    <3> QED
      BY <1>b, <3>1, <3>2, IntentTyped, Retyped
  <2> QED
    BY <2>1, <2>2
<1>9. CASE Reconcile
  <2>1. /\ joining' = FALSE /\ ReconcileReleases
        /\ UNCHANGED <<ready, stopping, mode, owner, held, drag, inFlight, recovery, recovering,
                       pc, work, pass, current, kcpVars>>
    BY <1>9 DEF Reconcile, intentVars, senderVars
  <2>2. checkpoint' \subseteq Keys
    BY <2>1 DEF ReconcileReleases, InputInv, InputTypeOK
  <2>3. remote' \subseteq Inputs
    BY <2>1, <1>b, InputAssumption DEF ReconcileReleases, InputInv, InputTypeOK
  <2>4. queue' \in Seq(Edge)
    <3>1. CASE ready
      <4> DEFINE fresh == checkpoint \ Releasing(queue)
                 a == Ups(fresh \ Modifiers)
                 b == Ups(fresh \cap Modifiers)
      <4>1. PICK n \in BeforeModifiers(queue) : queue' = Inserted(queue, n, a, b)
        BY <2>1, <3>1 DEF ReconcileReleases, Inserted
      <4>2. fresh \ Modifiers \in SUBSET Inputs /\ fresh \cap Modifiers \in SUBSET Inputs
        BY InputAssumption DEF InputInv, InputTypeOK
      <4>3. a \in Seq(Edge) /\ b \in Seq(Edge) /\ OnlyUps(a) /\ OnlyUps(b)
        BY <4>2, UpsFacts
      <4>4. n \in 0..Len(queue)
        BY DEF BeforeModifiers
      <4> HIDE DEF a, b
      <4> QED
        BY <4>1, <4>3, <4>4, <1>b, InsertFacts
    <3>2. CASE ~ready
      BY <2>1, <3>2, <1>b DEF ReconcileReleases
    <3> QED
      BY <3>1, <3>2
  <2>5. KcpTypeOK'
    BY <2>1 DEF InputInv, InputTypeOK, KcpTypeOK, kcpVars
  <2>6. /\ ready' \in BOOLEAN /\ stopping' \in BOOLEAN /\ joining' \in BOOLEAN
        /\ mode' \in {"View", "Neutral", "Control"} /\ owner' \in Owners \cup {NoOwner}
        /\ recovering' \in BOOLEAN /\ current' \in BOOLEAN /\ inFlight' \in BOOLEAN
        /\ drag' \in BOOLEAN /\ held' \subseteq Inputs
        /\ recovery' \in {"none", "pending", "dispatched", "confirmed"}
        /\ mode' # "View" => ready' /\ ~stopping' /\ recovery' = "none"
    BY <2>1, <1>b, IntentTyped
  <2>7. pc' \in {"idle"} \cup Sending \cup Passing /\ work' \in Message /\ pass' \in Seq(Message)
    BY <2>1 DEF InputInv, InputTypeOK, Sending, Passing
  <2> QED
    BY <2>2, <2>3, <2>4, <2>5, <2>6, <2>7 DEF InputTypeOK, Sending, Passing
<1>10. CASE ReadyTooLate
  <2>1. /\ UNCHANGED <<remote, pc, work, pass, kcpVars, stopping, joining>>
        /\ UNCHANGED <<mode, owner, held, drag, checkpoint, queue, inFlight, recovery,
                       recovering, current>>
        /\ ready' = FALSE /\ stopping
    BY <1>10 DEF ReadyTooLate, owedVars, senderVars
  <2> QED
    BY <1>b, <2>1, IntentTyped, Retyped
<1> QED
  BY <1>1, <1>2, <1>3, <1>4, <1>5, <1>6, <1>7, <1>8, <1>9, <1>10 DEF Session

\* A request and its end keep the carrier's types.
LEMMA RequestTypes ==
    ASSUME InputInv, NEW c \in [message : Message, drain : BOOLEAN], Request(c)
    PROVE  KcpTypeOK'
<1>0. KcpTypeOK
  BY DEF InputInv, InputTypeOK
<1>1. command' = <<c>> /\ reply' = "none" /\ UNCHANGED <<slot, wire, down, draining, alive>>
  BY DEF Request
<1>2. command' \in Seq([message : Message, drain : BOOLEAN]) /\ Len(command') =< 1
  BY <1>1
<1> QED
  BY <1>0, <1>1, <1>2 DEF KcpTypeOK

LEMMA ForgetTypes ==
    ASSUME InputInv, Forget
    PROVE  KcpTypeOK'
<1>0. KcpTypeOK
  BY DEF InputInv, InputTypeOK
<1>1. /\ command' = <<>> /\ draining' = FALSE /\ reply' = "none" /\ UNCHANGED <<wire, down, alive>>
      /\ slot' = [n \in DOMAIN slot |-> [slot[n] EXCEPT !.live = FALSE]]
  BY DEF Forget
<1>2. command' \in Seq([message : Message, drain : BOOLEAN]) /\ Len(command') =< 1
  BY <1>1
<1>3. slot' \in Seq([message : Message, live : BOOLEAN]) /\ Len(slot') =< 1
  <2>1. CASE slot = <<>>
    <3>1. slot' = <<>>
      BY <1>1, <2>1
    <3> QED
      BY <3>1
  <2>2. CASE slot # <<>>
    <3>1. slot[1] \in [message : Message, live : BOOLEAN] /\ DOMAIN slot = {1}
      BY <2>2, CarrierTyped
    <3>2. [slot[1] EXCEPT !.live = FALSE] \in [message : Message, live : BOOLEAN]
      BY <3>1
    <3>3. PICK r \in [message : Message, live : BOOLEAN] : r = [slot[1] EXCEPT !.live = FALSE]
      BY <3>2
    <3>4. slot' = [n \in 1..1 |-> r]
      BY <1>1, <3>1, <3>3
    <3>5. <<r>> = [n \in 1..1 |-> r]
      OBVIOUS
    <3>6. slot' = <<r>>
      BY <3>4, <3>5
    <3> QED
      BY <3>3, <3>6
  <2> QED
    BY <2>1, <2>2
<1>4. draining' \in BOOLEAN /\ reply' \in {"none", "ok", "failed"}
  BY <1>1
<1>5. wire' \in Seq(Message) /\ down' \subseteq Inputs /\ alive' \in BOOLEAN
  BY <1>0, <1>1 DEF KcpTypeOK
<1> QED
  BY <1>2, <1>3, <1>4, <1>5 DEF KcpTypeOK

\* The types of what the sender changes.
LEMMA SenderRetyped ==
    ASSUME InputInv, KcpTypeOK',
           UNCHANGED <<ready, stopping, joining>>,
           mode' = mode \/ mode' = "View", owner' = owner \/ owner' = NoOwner,
           held' = held \/ held' = {}, remote' \subseteq Inputs, checkpoint' \subseteq Keys,
           queue' \in Seq(Edge), inFlight' \in BOOLEAN, drag' \in BOOLEAN,
           recovery' \in {"none", "pending", "dispatched", "confirmed"},
           recovering' \in BOOLEAN, current' \in BOOLEAN,
           pc' \in {"idle"} \cup Sending \cup Passing,
           work' \in Message, pass' \in Seq(Message),
           mode' # "View" => recovery' = recovery \/ recovery' = "none"
    PROVE  InputTypeOK'
<1>1. /\ ready' \in BOOLEAN /\ stopping' \in BOOLEAN /\ joining' \in BOOLEAN
      /\ mode' \in {"View", "Neutral", "Control"} /\ owner' \in Owners \cup {NoOwner}
  BY IntentTyped
<1>2. held' \subseteq Inputs
  BY Typed
<1>3. mode' # "View" => ready' /\ ~stopping' /\ recovery' = "none"
  BY Typed
<1> QED
  BY <1>1, <1>2, <1>3 DEF InputTypeOK, Sending, Passing

\* The types of the sender that goes back to its loop.
LEMMA IdleTypes ==
    ASSUME InputInv, Idle
    PROVE  /\ KcpTypeOK' /\ pc' \in {"idle"} \cup Sending \cup Passing
           /\ work' \in Message /\ pass' \in Seq(Message)
<1>1. KcpTypeOK' /\ pc' = "idle" /\ work' = Probe /\ pass' = <<>>
  BY ForgetTypes DEF Idle
<1>2. <<>> \in Seq(Message)
  OBVIOUS
<1> QED
  BY <1>1, <1>2, EdgeFacts

LEMMA SenderTypes ==
    ASSUME InputInv, Sender
    PROVE  InputTypeOK'
<1>b. /\ remote \in SUBSET Inputs /\ held \in SUBSET Inputs
      /\ queue \in Seq(Edge) /\ queue \in Seq(Message)
  BY Typed
<1>0. <<>> \in Seq(Edge)
  OBVIOUS
<1>k. UNCHANGED kcpVars => KcpTypeOK'
  BY DEF InputInv, InputTypeOK, KcpTypeOK, kcpVars
<1>u. Ups(remote) \in Seq(Message)
  BY <1>b, UpsFacts
<1>1. CASE NextRecovery
  <2>1. /\ recovery' = "dispatched" /\ pass' = Append(queue, Probe) /\ queue' = <<>>
        /\ pc' = "pass" /\ current' = TRUE
        /\ UNCHANGED <<ready, stopping, mode, owner, held, drag, remote, checkpoint, inFlight,
                       recovering, joining, work, kcpVars>>
        /\ recovery = "pending"
    BY <1>1 DEF NextRecovery, Recoverable, intentVars
  <2>2. pass' \in Seq(Message) /\ pc' \in {"idle"} \cup Sending \cup Passing
    BY <2>1, <1>b, EdgeFacts, AppendProperties DEF Passing
  <2>3. mode' = "View"
    BY <2>1, Typed
  <2> QED
    BY <2>1, <2>2, <2>3, <1>0, <1>b, <1>k, IntentTyped, CarrierTyped, SenderRetyped
<1>2. CASE Pop
  <2>1. /\ work' = Head(queue) /\ queue' = Tail(queue) /\ inFlight' = TRUE /\ current' = TRUE
        /\ remote' = (IF work'.down THEN remote \cup {work'.input} ELSE remote)
        /\ checkpoint' = (IF work'.down THEN checkpoint \ {work'.input} ELSE checkpoint)
        /\ pc' = "popped" /\ queue # <<>>
        /\ UNCHANGED <<ready, stopping, mode, owner, held, drag, recovery, recovering, joining,
                       pass, kcpVars>>
    BY <1>2 DEF Pop, intentVars
  <2>2. work' \in Edge /\ queue' \in Seq(Edge)
    BY <2>1, <1>b, HeadTailProperties
  <2>3. work' \in Message /\ work'.input \in Inputs /\ pc' \in {"idle"} \cup Sending \cup Passing
    BY <2>1, <2>2, EdgeFacts DEF Sending
  <2>4. remote' \subseteq Inputs /\ checkpoint' \subseteq Keys
    BY <2>1, <2>3, <1>b, IntentTyped
  <2> QED
    BY <2>1, <2>2, <2>3, <2>4, <1>k, IntentTyped, CarrierTyped, SenderRetyped
<1>3. CASE Submit \/ PassOn \/ AskDrain
  <2>1. /\ UNCHANGED <<ready, stopping, mode, owner, held, drag, remote, checkpoint, queue, inFlight,
                       recovery, recovering, joining, work, pass, current>>
        /\ pc' \in {"submitted", "passSent", "draining"}
    BY <1>3 DEF Submit, PassOn, AskDrain, intentVars, owedVars
  <2>2. PICK c \in [message : Message, drain : BOOLEAN] : Request(c)
    <3>1. \A m \in Message : Send(m) \in [message : Message, drain : BOOLEAN]
      BY DEF Send
    <3>2. Drain \in [message : Message, drain : BOOLEAN]
      BY EdgeFacts DEF Drain
    <3>3. PassOn => Head(pass) \in Message
      BY CarrierTyped, TailReleases DEF PassOn, InputInv, CarrierInv, PassShape
    <3> QED
      BY <3>1, <3>2, <3>3, <1>3, CarrierTyped DEF Submit, PassOn, AskDrain
  <2>3. KcpTypeOK' /\ pc' \in {"idle"} \cup Sending \cup Passing
    BY <2>1, <2>2, RequestTypes DEF Sending, Passing
  <2> QED
    BY <2>1, <2>3, <1>b, IntentTyped, CarrierTyped, SenderRetyped
<1>4. CASE Discard \/ Sent \/ PassCancelled
  <2>1. /\ Idle
        /\ inFlight' \in {FALSE, inFlight, inFlight /\ ~current}
        /\ remote' \in {remote, remote \ {work.input}}
        /\ current' \in {FALSE, current}
        /\ UNCHANGED <<ready, stopping, mode, owner, held, drag, checkpoint, queue,
                       recovery, recovering, joining>>
    BY <1>4 DEF Discard, Sent, PassCancelled, intentVars, owedVars
  <2>2. inFlight' \in BOOLEAN /\ current' \in BOOLEAN
    BY <2>1, IntentTyped
  <2>3. remote' \subseteq Inputs
    BY <2>1, <1>b
  <2> QED
    BY <2>1, <2>2, <2>3, <1>b, IdleTypes, IntentTyped, SenderRetyped
<1>5. CASE PauseTransport
  <2>1. /\ drag' = FALSE /\ inFlight' = FALSE /\ held' = {} /\ owner' = NoOwner
        /\ checkpoint' = checkpoint \cup (remote \cap Keys) /\ mode' = "View"
        /\ recovery' = "dispatched" /\ queue' = <<>> /\ pass' = Append(Ups(remote), Probe)
        /\ work' = Probe /\ current' = TRUE /\ Forget /\ pc' = "pass"
        /\ UNCHANGED <<ready, stopping, remote, recovering, joining>>
    BY <1>5 DEF PauseTransport
  <2>2. /\ pass' \in Seq(Message) /\ work' \in Message /\ KcpTypeOK'
        /\ pc' \in {"idle"} \cup Sending \cup Passing
    BY <2>1, <1>u, EdgeFacts, AppendProperties, ForgetTypes DEF Passing
  <2> QED
    BY <2>1, <2>2, <1>0, <1>b, IntentTyped, SenderRetyped
<1>6. CASE GiveUp
  <2>1. /\ mode' = "View" /\ recovering' = TRUE /\ Idle
        /\ UNCHANGED <<ready, stopping, remote, joining>>
        /\ owner' = NoOwner /\ held' = {} /\ inFlight' = FALSE /\ current' = FALSE
        /\ drag' \in {drag, FALSE} /\ recovery' \in {recovery, "none"}
        /\ checkpoint' \in {checkpoint, checkpoint \cup (remote \cap Keys)}
        /\ queue' \in {queue, Ups(IF work.down THEN remote ELSE remote \ {work.input})}
    BY <1>6 DEF GiveUp, ReleaseLocked, AdvanceEpoch
  <2>2. queue' \in Seq(Edge)
    <3>1. (IF work.down THEN remote ELSE remote \ {work.input}) \in SUBSET Inputs
      BY <1>b
    <3> QED
      BY <2>1, <3>1, <1>b, UpsFacts
  <2>3. drag' \in BOOLEAN /\ checkpoint' \subseteq Keys
        /\ recovery' \in {"none", "pending", "dispatched", "confirmed"}
    BY <2>1, IntentTyped
  <2> QED
    BY <2>1, <2>2, <2>3, <1>b, IdleTypes, SenderRetyped
<1>7. CASE PassNext
  <2>1. /\ pass' = Tail(pass) /\ pc' \in {"drain", "pass"} /\ pc = "passSent"
        /\ UNCHANGED <<ready, stopping, mode, owner, held, drag, remote, checkpoint, queue, inFlight,
                       recovery, recovering, joining, work, current, kcpVars>>
    BY <1>7 DEF PassNext, intentVars, owedVars
  <2>2. pass' \in Seq(Message) /\ pc' \in {"idle"} \cup Sending \cup Passing
    BY <2>1, CarrierTyped, TailReleases DEF Passing, InputInv, CarrierInv, PassShape
  <2> QED
    BY <2>1, <2>2, <1>b, <1>k, IntentTyped, CarrierTyped, SenderRetyped
<1>8. CASE Recovered
  <2>1. /\ remote' = {} /\ recovery' = "confirmed" /\ Idle /\ current' = FALSE
        /\ UNCHANGED <<ready, stopping, mode, owner, held, drag, checkpoint, queue, inFlight,
                       recovering, joining>>
        /\ pc = "draining" /\ current
    BY <1>8 DEF Recovered, intentVars
  <2>2. mode' = "View"
    <3>1. recovery = "dispatched"
      BY <2>1 DEF InputInv, OwedInv, PassRecovers, Passing
    <3> QED
      BY <2>1, <3>1, Typed
  <2> QED
    BY <2>1, <2>2, <1>b, IdleTypes, IntentTyped, SenderRetyped
<1>9. CASE RecoveryFails
  <2>1. /\ current' = FALSE /\ inFlight' = FALSE /\ drag' = FALSE /\ queue' = Ups(remote)
        /\ checkpoint' = checkpoint \cup (remote \cap Keys) /\ held' = {} /\ owner' = NoOwner
        /\ recovery' = "none" /\ Idle
        /\ UNCHANGED <<ready, stopping, mode, remote, recovering, joining>>
    BY <1>9 DEF RecoveryFails, ReleaseLocked, AdvanceEpoch
  <2> QED
    BY <2>1, <1>b, IdleTypes, IntentTyped, SenderRetyped
<1> QED
  BY <1>1, <1>2, <1>3, <1>4, <1>5, <1>6, <1>7, <1>8, <1>9 DEF Sender

LEMMA CarrierTypes ==
    ASSUME InputInv, Carrier
    PROVE  InputTypeOK'
<1>0. /\ UNCHANGED <<ready, stopping, mode, owner, held, drag, remote, checkpoint, queue, inFlight,
                     recovery, recovering, joining, pc, work, pass, current>>
      /\ TakeDrain \/ Take(Valid) \/ Commit \/ Acknowledged \/ Drained \/ Dies
  BY DEF Carrier, WorkerStep, intentVars, owedVars, senderVars
<1>1. /\ command \in Seq([message : Message, drain : BOOLEAN]) /\ Len(command) =< 1
      /\ slot \in Seq([message : Message, live : BOOLEAN]) /\ Len(slot) =< 1
      /\ wire \in Seq(Message) /\ down \subseteq Inputs
      /\ draining \in BOOLEAN /\ alive \in BOOLEAN
      /\ reply \in {"none", "ok", "failed"}
  BY DEF InputInv, InputTypeOK, KcpTypeOK
<1>2. /\ <<>> \in Seq([message : Message, drain : BOOLEAN])
      /\ <<>> \in Seq([message : Message, live : BOOLEAN]) /\ Len(<<>>) =< 1
  OBVIOUS
<1>3. command' \in Seq([message : Message, drain : BOOLEAN]) /\ Len(command') =< 1
  <2>1. command' = command \/ command' = <<>>
    BY <1>0 DEF TakeDrain, Take, Commit, Acknowledged, Drained, Dies
  <2> QED
    BY <2>1, <1>1, <1>2
<1>4. slot' \in Seq([message : Message, live : BOOLEAN]) /\ Len(slot') =< 1
  <2>1. \/ slot' = slot \/ slot' = <<>>
        \/ command # <<>> /\ slot' = <<[message |-> command[1].message, live |-> TRUE]>>
    BY <1>0 DEF TakeDrain, Take, Commit, Acknowledged, Drained, Dies
  <2>2. CASE command # <<>> /\ slot' = <<[message |-> command[1].message, live |-> TRUE]>>
    <3>1. command[1] \in [message : Message, drain : BOOLEAN]
      BY <2>2, CarrierTyped
    <3>2. [message |-> command[1].message, live |-> TRUE] \in [message : Message, live : BOOLEAN]
      BY <3>1
    <3> QED
      BY <2>2, <3>2
  <2> QED
    BY <2>1, <2>2, <1>1, <1>2
<1>5. wire' \in Seq(Message) /\ down' \subseteq Inputs
  <2>1. CASE Commit
    <3>1. slot # <<>> /\ (wire' = Append(wire, slot[1].message) \/ wire' = wire) /\ down' = down
      BY <2>1 DEF Commit
    <3>2. slot[1].message \in Message
      BY <3>1, CarrierTyped
    <3>3. Append(wire, slot[1].message) \in Seq(Message)
      BY <3>2, <1>1, AppendProperties
    <3> QED
      BY <3>1, <3>3, <1>1
  <2>2. CASE Acknowledged
    <3>1. wire # <<>> /\ wire' = Tail(wire) /\ down' = Pressed(down, Head(wire))
      BY <2>2 DEF Acknowledged
    <3>2. Head(wire) \in Message /\ Tail(wire) \in Seq(Message)
      BY <3>1, <1>1, HeadTailProperties
    <3>3. down' \subseteq Inputs
      BY <3>1, <3>2, <1>1, EdgeFacts DEF Pressed
    <3> QED
      BY <3>1, <3>2, <3>3
  <2>3. CASE TakeDrain \/ Take(Valid) \/ Drained \/ Dies
    BY <2>3, <1>1 DEF TakeDrain, Take, Drained, Dies
  <2> QED
    BY <2>1, <2>2, <2>3, <1>0
<1>6. draining' \in BOOLEAN /\ alive' \in BOOLEAN
  BY <1>0, <1>1 DEF TakeDrain, Take, Commit, Acknowledged, Drained, Dies
<1>7. reply' \in {"none", "ok", "failed"}
  BY <1>0, <1>1 DEF TakeDrain, Take, Commit, Answer, Acknowledged, Drained, Dies
<1>8. KcpTypeOK'
  BY <1>3, <1>4, <1>5, <1>6, <1>7 DEF KcpTypeOK
<1>9. remote' \subseteq Inputs /\ pc' \in {"idle"} \cup Sending \cup Passing
      /\ work' \in Message /\ pass' \in Seq(Message) /\ queue' \in Seq(Edge)
  BY <1>0 DEF InputInv, InputTypeOK, Sending, Passing
<1> QED
  BY <1>0, <1>8, <1>9, IntentTyped, SenderRetyped

-----------------------------------------------------------------------------
LEMMA InputStep == InputInv /\ [InputNext]_inputVars => InputInv'
<1> SUFFICES ASSUME InputInv, [InputNext]_inputVars PROVE InputInv'
  OBVIOUS
<1>1. CASE Windows
  BY <1>1, WindowsTypes, WindowsStep DEF InputInv
<1>2. CASE Session
  BY <1>2, SessionTypes, SessionStep DEF InputInv
<1>3. CASE Sender
  BY <1>3, SenderTypes, SenderStep DEF InputInv
<1>4. CASE Carrier
  BY <1>4, CarrierTypes, CarrierStep DEF InputInv
<1>5. CASE UNCHANGED inputVars
  <2>1. /\ UNCHANGED <<ready, stopping, mode, owner, held, drag, remote, checkpoint, queue, inFlight,
                       recovery, recovering, joining, pc, work, pass, current, kcpVars>>
    BY <1>5 DEF inputVars, intentVars, owedVars, senderVars
  <2>2. InputTypeOK'
    BY <2>1, Typed, IntentTyped, Retyped
  <2>3. CarrierInv'
    BY <2>1, CarrierUnchanged DEF InputInv
  <2>4. PassOwes' /\ ConfirmedClean'
    BY <2>1, PassUnchanged, ConfirmedUnchanged DEF InputInv, OwedInv
  <2>5. PassRecovers' /\ PendingOwed' /\ OnlyControlPresses' /\ InFlightWork'
    BY <2>1 DEF InputInv, OwedInv, PassRecovers, PendingOwed, OnlyControlPresses, InFlightWork
  <2>6. PressOwed' /\ ReleaseOwed'
    BY <2>1 DEF InputInv, OwedInv, PressOwed, ReleaseOwed, Under
  <2> QED
    BY <2>2, <2>3, <2>4, <2>5, <2>6 DEF InputInv, OwedInv
<1> QED
  BY <1>1, <1>2, <1>3, <1>4, <1>5 DEF InputNext

THEOREM InputHolds == InputSpec => []InputInv
<1>1. InputInit => InputInv
  BY InputStart
<1>2. InputInv /\ [InputNext]_inputVars => InputInv'
  BY InputStep
<1> QED
  BY <1>1, <1>2, PTL DEF InputSpec

\* Every record of the input is one the code can hold, for any keys and windows.
THEOREM InputTypes == InputSpec => []InputTypeOK
<1>1. InputInv => InputTypeOK
  BY DEF InputInv
<1> QED
  BY <1>1, InputHolds, PTL

\* A press that is, or will be, down at the host is always on record, whatever
\* was cancelled, failed or cut since (next, complete, send_remote_input).
THEOREM PressesRemembered == InputSpec => []NoForgottenPress
<1>1. InputInv => NoForgottenPress
  BY DEF InputInv, CarrierInv, PressKnown
<1> QED
  BY <1>1, InputHolds, PTL

\* Control resumes after a failed send only over a host where nothing is down
\* and no press is on its way (finish_transport_recovery).
THEOREM RecoveryIsClean == InputSpec => []RecoveredIsClean
<1>1. InputInv => RecoveredIsClean
  BY DEF InputInv, OwedInv, ConfirmedClean, OnlyUps, RecoveredIsClean
<1> QED
  BY <1>1, InputHolds, PTL

\* What may be down and no window holds has its release under way, until the
\* release itself failed when nobody controls (release_locked, complete).
THEOREM ReleasesOwed == InputSpec => []ReleaseOwed
<1>1. InputInv => ReleaseOwed
  BY DEF InputInv, OwedInv
<1> QED
  BY <1>1, InputHolds, PTL
=============================================================================
