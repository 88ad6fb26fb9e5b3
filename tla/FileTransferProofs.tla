-------------------------- MODULE FileTransferProofs --------------------------
(***************************************************************************)
(* File transfer, for any number of tasks, blocks, workers and failures.   *)
(***************************************************************************)
EXTENDS FileTransfer, SequenceTheorems, WellFoundedInduction, TLAPS

USE BoundsAssumption, PlansAssumption DEF tasks, service, link, host, disk

-----------------------------------------------------------------------------
(* What a queue holds, whatever the order.                                  *)

In(q) == {q[i] : i \in DOMAIN q}

LEMMA InEmpty == In(<<>>) = {}
  BY DEF In

LEMMA InAppended ==
  ASSUME NEW S, NEW q \in Seq(S), NEW r \in Seq(S)
  PROVE  q \o r \in Seq(S) /\ In(q \o r) = In(q) \cup In(r)
<1>1. q \o r \in Seq(S)
  OBVIOUS
<1>2. ASSUME NEW i \in DOMAIN (q \o r)
      PROVE  (q \o r)[i] \in In(q) \cup In(r)
  BY DEF In
<1>3. ASSUME NEW i \in DOMAIN q PROVE q[i] \in In(q \o r)
  <2>1. i \in DOMAIN (q \o r) /\ (q \o r)[i] = q[i]
    OBVIOUS
  <2> QED BY <2>1 DEF In
<1>4. ASSUME NEW i \in DOMAIN r PROVE r[i] \in In(q \o r)
  <2>1. Len(q) + i \in DOMAIN (q \o r) /\ (q \o r)[Len(q) + i] = r[i]
    OBVIOUS
  <2> QED BY <2>1 DEF In
<1> QED BY <1>1, <1>2, <1>3, <1>4 DEF In

LEMMA InRemoved ==
  ASSUME NEW S, NEW q \in Seq(S), NEW i \in DOMAIN q
  PROVE  RemoveAt(q, i) \in Seq(S) /\ In(RemoveAt(q, i)) \subseteq In(q)
<1> DEFINE before == SubSeq(q, 1, i - 1)
           after == SubSeq(q, i + 1, Len(q))
<1>0. i \in 1..Len(q) /\ Len(q) \in Nat
  OBVIOUS
<1>1. before \in Seq(S) /\ after \in Seq(S)
  <2>1. \A j \in 1..(i - 1) : q[j] \in S
    BY <1>0
  <2>2. \A j \in (i + 1)..Len(q) : q[j] \in S
    BY <1>0
  <2> QED BY <1>0, <2>1, <2>2
<1>2. In(before) \subseteq In(q) /\ In(after) \subseteq In(q)
  <2>1. ASSUME NEW k \in DOMAIN before PROVE before[k] \in In(q)
    <3>1. k \in 1..(i - 1) /\ before[k] = q[k] /\ k \in DOMAIN q
      BY <1>0
    <3> QED BY <3>1 DEF In
  <2>2. ASSUME NEW k \in DOMAIN after PROVE after[k] \in In(q)
    <3>0. k \in 1..(Len(q) - i)
      BY <1>0
    <3>1. k + i \in DOMAIN q /\ after[k] = q[i + 1 + k - 1]
      BY <1>0, <3>0
    <3>2. i + 1 + k - 1 = k + i
      BY <1>0, <3>0
    <3>3. after[k] = q[k + i]
      BY <3>1, <3>2
    <3> HIDE DEF after
    <3> QED BY <3>1, <3>3 DEF In
  <2> HIDE DEF before, after
  <2> QED BY <2>1, <2>2 DEF In
<1> HIDE DEF before, after
<1>3. /\ before \o after \in Seq(S)
      /\ In(before \o after) = In(before) \cup In(after)
  BY <1>1, InAppended
<1>4. RemoveAt(q, i) = before \o after
  BY DEF RemoveAt, before, after
<1> QED BY <1>2, <1>3, <1>4

LEMMA InOne ==
  ASSUME NEW S, NEW m \in S
  PROVE  <<m>> \in Seq(S) /\ In(<<m>>) = {m}
  BY DEF In

LEMMA InTwo ==
  ASSUME NEW S, NEW m \in S, NEW n \in S
  PROVE  <<m, n>> \in Seq(S) /\ In(<<m, n>>) = {m, n}
<1>1. In(<<m, n>>) = {m, n}
  BY DEF In
<1> QED BY <1>1

-----------------------------------------------------------------------------
Partials == {"none", "open", "done", "skipped"}

Record ==
    [dir : {"upload", "download"}, policy : 0..3,
     state : {"none", "Queued", "Running", "Paused", "Failed", "Done",
              "Cancelled", "Skipped", "gone"},
     started : BOOLEAN, partial : Partials, name : Names]

HostRecord == [policy : Int, partial : Partials, name : Names]

Message ==
    [kind : {"exist", "receive", "send", "clear", "block", "ask", "confirm",
             "complete", "ack", "result", "finish", "pause", "stopped",
             "response"},
     run : Int, arg : Int]

UploadAt == {"exists", "asked", "wait_confirm", "wait_ack", "wait_result"}

DownloadAt == {"receive", "prepared", "open", "renaming", "renamed", "complete"}

WorkerAt ==
    UploadAt \cup DownloadAt \cup
       {"idle", "spawned", "begin", "wait_init", "done", "fail", "drain",
        "settle", "ended"}

ReceiveAt == {"ready", "prepared", "open", "renaming", "renamed", "complete"}

HostAt == ReceiveAt \cup {"none", "s_confirm", "s_ack"}

Lengths == Nat \cup {Absent}

TasksOK ==
    /\ rec \in [Tasks -> Record] /\ own \in [Tasks -> Record]
    /\ pc \in [Tasks -> WorkerAt]
    /\ stop \subseteq Tasks
    /\ runs \in [Tasks -> Int]

ServiceOK ==
    /\ DOMAIN stale \subseteq Tasks
    /\ \A t \in DOMAIN stale : stale[t] \in Record

LinkOK ==
    /\ toHost \in [Tasks -> Seq(Message)]
    /\ toCtl \in [Tasks -> Seq(Message)]

HostOK ==
    /\ hrec \in [Tasks -> HostRecord] /\ hown \in [Tasks -> HostRecord]
    /\ hpc \in [Tasks -> HostAt]
    /\ hrun \in [Tasks -> Int]

DiskOK ==
    /\ file \in [{"here", "there"} -> [Names -> Tasks \cup {Free, "old"}]]
    /\ temp \in [Tasks -> [Names -> Lengths]]
    /\ delivered \in [Tasks -> Nat]

TypeOK == TasksOK /\ ServiceOK /\ LinkOK /\ HostOK /\ DiskOK

-----------------------------------------------------------------------------
(* Names and temporary files.                                               *)

LEMMA FreeNameIsFree ==
  ASSUME NEW d, NEW n \in Names, file[d][n] = Free, file[d][0] # Free
  PROVE  FreeName(d) \in Names /\ file[d][FreeName(d)] = Free
<1> DEFINE S == {k \in Names \ {0} : file[d][k] = Free}
<1>1. S \subseteq Nat /\ n \in S
  BY DEF Names
<1>2. PICK k \in S : \A j \in S : k <= j
  <2> DEFINE R == {p \in Nat \X Nat : p[1] < p[2]}
  <2>1. IsWellFoundedOn(R, Nat)
    BY NatLessThanWellFounded, Zenon DEF OpToRel
  <2>2. PICK k \in S : \A j \in S : <<j, k>> \notin R
    <3> HIDE DEF S, R
    <3>1. S # {}
      BY <1>1
    <3> QED BY <1>1, <2>1, <3>1, WFMin
  <2>3. ASSUME NEW j \in S PROVE ~(j < k)
    <3>1. <<j, k>> \in Nat \X Nat /\ <<j, k>>[1] = j /\ <<j, k>>[2] = k
      BY <1>1
    <3> QED BY <2>2, <3>1
  <2> HIDE DEF R
  <2> QED BY <1>1, <2>3
<1>3. k \in Names \ {0} /\ file[d][k] = Free
  OBVIOUS
<1>4. ASSUME NEW m \in 1..(k - 1) PROVE file[d][m] # Free
  <2>1. m \in Names \ {0} /\ ~(k <= m)
    BY <1>3 DEF Names
  <2> QED BY <1>2, <2>1
<1> QED BY <1>3, <1>4 DEF FreeName

LEMMA ChosenName ==
  ASSUME NEW r, NEW d, Nameable(r, d)
  PROVE  Chosen(r, d) \in Names
<1>1. 0 \in Names
  BY DEF Names
<1> QED BY <1>1, FreeNameIsFree DEF Chosen, Nameable

LEMMA PreparedRecord ==
  ASSUME NEW t, NEW d, NEW r \in Record \cup HostRecord,
         ~PrepareFails(t, r, d)
  PROVE  /\ r \in Record => Prepared(r, d) \in Record
         /\ r \in HostRecord => Prepared(r, d) \in HostRecord
         /\ Prepared(r, d).policy = r.policy
         /\ Prepared(r, d).partial \in {"open", "done", "skipped"}
         /\ r \in Record => /\ Prepared(r, d).dir = r.dir
                            /\ Prepared(r, d).state = r.state
                            /\ Prepared(r, d).started = r.started
<1>1. CASE Skips(r, d)
  BY <1>1 DEF Prepared, Skips, Record, HostRecord, Partials, Dealt
<1>2. CASE ~Skips(r, d)
  <2>1. CASE r.partial = "open"
    BY <1>2, <2>1 DEF Prepared, Record, HostRecord, Partials
  <2>2. CASE r.partial # "open"
    <3>1. Chosen(r, d) \in Names
      BY <1>2, <2>2, ChosenName DEF PrepareFails
    <3> QED BY <1>2, <2>2, <3>1 DEF Prepared, Record, HostRecord, Partials
  <2> QED BY <2>1, <2>2
<1> QED BY <1>1, <1>2

-----------------------------------------------------------------------------
(* Messages.                                                                *)

LEMMA BlocksType ==
  ASSUME TasksOK, NEW t \in Tasks, NEW from \in Int
  PROVE  /\ Blocks(t, from) \in Seq(Message)
         /\ \A m \in In(Blocks(t, from)) : m.kind = "block"
<1>1. Msg("block", runs[t], 0) \in Message
  BY DEF Msg, Message, TasksOK
<1>2. CASE Size - from \in Nat
  <2>1. Blocks(t, from) \in Seq(Message)
    BY <1>1, <1>2 DEF Blocks
  <2>2. DOMAIN Blocks(t, from) = 1..(Size - from)
    BY DEF Blocks
  <2> QED BY <2>1, <2>2 DEF In, Blocks, Msg
<1>3. CASE Size - from \notin Nat
  <2>1. 1..(Size - from) = {}
    BY <1>3
  <2>2. Blocks(t, from) = <<>>
    BY <2>1 DEF Blocks
  <2> QED BY <2>2, InEmpty
<1> QED BY <1>2, <1>3

\* q' is q with the messages of ms for t, or with less.
Adds(q, r, t, ms) ==
    /\ r \in [Tasks -> Seq(Message)]
    /\ In(r[t]) \subseteq In(q[t]) \cup In(ms)
    /\ \A u \in Tasks \ {t} : r[u] = q[u]

LEMMA SendAdds ==
  ASSUME LinkOK, NEW t \in Tasks, NEW ms \in Seq(Message), Send(t, ms)
  PROVE  /\ Adds(toHost, toHost', t, ms)
         /\ toHost'[t] \in {toHost[t], toHost[t] \o ms}
<1>1. /\ toHost[t] \o ms \in Seq(Message)
      /\ In(toHost[t] \o ms) = In(toHost[t]) \cup In(ms)
  BY InAppended DEF LinkOK
<1>2. toHost'[t] \in {toHost[t], toHost[t] \o ms}
  BY DEF Send, LinkOK
<1>3. toHost' \in [Tasks -> Seq(Message)]
  BY <1>1 DEF Send, LinkOK
<1>4. \A u \in Tasks \ {t} : toHost'[u] = toHost[u]
  BY DEF Send, LinkOK
<1> QED BY <1>1, <1>2, <1>3, <1>4 DEF Adds

LEMMA AnswersAdd ==
  ASSUME LinkOK, NEW t \in Tasks, NEW run, NEW ms \in Seq(Message),
         toCtl' = Answers(t, run, ms)
  PROVE  Adds(toCtl, toCtl', t, ms)
<1>1. /\ toCtl[t] \o ms \in Seq(Message)
      /\ In(toCtl[t] \o ms) = In(toCtl[t]) \cup In(ms)
  BY InAppended DEF LinkOK
<1>2. toCtl'[t] \in {toCtl[t], toCtl[t] \o ms}
  BY DEF Answers, LinkOK
<1>3. toCtl' \in [Tasks -> Seq(Message)]
  BY <1>1 DEF Answers, LinkOK
<1>4. \A u \in Tasks \ {t} : toCtl'[u] = toCtl[u]
  BY DEF Answers, LinkOK
<1> QED BY <1>1, <1>2, <1>3, <1>4 DEF Adds

LEMMA TakenAdds ==
  ASSUME LinkOK, NEW t \in Tasks
  PROVE  /\ \A i \in DOMAIN toCtl[t] :
              Take(t, i) => Adds(toCtl, toCtl', t, <<>>)
         /\ \A i \in DOMAIN toHost[t] :
              HostTake(t, i) => Adds(toHost, toHost', t, <<>>)
<1>1. ASSUME NEW i \in DOMAIN toCtl[t], Take(t, i)
      PROVE  Adds(toCtl, toCtl', t, <<>>)
  <2>1. /\ RemoveAt(toCtl[t], i) \in Seq(Message)
        /\ In(RemoveAt(toCtl[t], i)) \subseteq In(toCtl[t])
    BY InRemoved DEF LinkOK
  <2> HIDE DEF RemoveAt
  <2> QED BY <1>1, <2>1, Zenon DEF Take, LinkOK, Adds
<1>2. ASSUME NEW i \in DOMAIN toHost[t], HostTake(t, i)
      PROVE  Adds(toHost, toHost', t, <<>>)
  <2>1. /\ Rest(t, i) \in Seq(Message)
        /\ In(Rest(t, i)) \subseteq In(toHost[t])
    BY InRemoved DEF LinkOK, Rest
  <2> QED BY <1>2, <2>1 DEF HostTake, LinkOK, Adds
<1> QED BY <1>1, <1>2

-----------------------------------------------------------------------------
(* What each party leaves alone.                                            *)

LEMMA HostFrame ==
  ASSUME NEW t \in Tasks, Host(t) \/ HostFails(t)
  PROVE  UNCHANGED <<tasks, service, up, cleaned, unsaved>>
<1>1. CASE HostFails(t) \/ HostStops(t)
  BY <1>1 DEF HostFails, HostStops
<1>2. CASE HostSavePrepared(t) \/ HostRename(t) \/ HostSaveRenamed(t)
  BY <1>2 DEF HostSavePrepared, HostRename, HostSaveRenamed
<1>3. ASSUME NEW i \in DOMAIN toHost[t],
             \/ Late(t, i) \/ NameAsked(t, i) \/ ReceiveAsked(t, i)
             \/ HostFileAsked(t, i) \/ HostBlockReceived(t, i)
             \/ HostFileCompleted(t, i) \/ HostFinished(t, i)
      PROVE  UNCHANGED <<tasks, service, up, cleaned, unsaved>>
  BY <1>3
  DEF Late, NameAsked, ReceiveAsked, HostFileAsked, HostBlockReceived,
      HostFileCompleted, HostFinished
<1>4. ASSUME NEW i \in DOMAIN toHost[t],
             \/ HostPaused(t, i) \/ ClearAsked(t, i) \/ SendAsked(t, i)
             \/ SendConfirmed(t, i) \/ SendAcked(t, i)
      PROVE  UNCHANGED <<tasks, service, up, cleaned, unsaved>>
  BY <1>4 DEF HostPaused, ClearAsked, SendAsked, SendConfirmed, SendAcked
<1> QED BY <1>1, <1>2, <1>3, <1>4 DEF Host

LEMMA WorkerFrame ==
  ASSUME NEW t \in Tasks, Worker(t) \/ StepFails(t)
  PROVE  UNCHANGED <<service, host, stop, runs, cleaned, up>>
<1>1. CASE \/ Register(t) \/ WaitStops(t) \/ Fail(t) \/ Drain(t) \/ Settle(t)
           \/ StepFails(t)
  BY <1>1 DEF Register, WaitStops, Fail, Drain, Settle, StepFails
<1>2. CASE BeginUpload(t) \/ SaveStarted(t)
  BY <1>2 DEF BeginUpload, SaveStarted
<1>3. CASE \/ BeginDownload(t) \/ SavePrepared(t) \/ Rename(t)
           \/ SaveRenamed(t)
  BY <1>3 DEF BeginDownload, SavePrepared, Rename, SaveRenamed
<1>4. ASSUME NEW i \in DOMAIN toCtl[t],
             \/ NameChecked(t, i) \/ ReceiveAnswered(t, i)
             \/ FileConfirmed(t, i) \/ BlockConfirmed(t, i) \/ FileSaved(t, i)
      PROVE  UNCHANGED <<service, host, stop, runs, cleaned, up>>
  BY <1>4
  DEF NameChecked, ReceiveAnswered, FileConfirmed, BlockConfirmed, FileSaved,
      Got
<1>5. ASSUME NEW i \in DOMAIN toCtl[t],
             \/ SendAnswered(t, i) \/ FileAsked(t, i) \/ BlockReceived(t, i)
             \/ FileCompleted(t, i) \/ AllReceived(t, i)
      PROVE  UNCHANGED <<service, host, stop, runs, cleaned, up>>
  BY <1>5
  DEF SendAnswered, FileAsked, BlockReceived, FileCompleted, AllReceived, Got
<1> QED BY <1>1, <1>2, <1>3, <1>4, <1>5 DEF Worker, Upload, Download

\* The loop, the user and what fails.
Service ==
    \/ Loop \/ User
    \/ Quit \/ Disallowed \/ LinkLost \/ Crash \/ HostCrash

LEMMA NextParties ==
  ASSUME [Next]_vars
  PROVE  \/ \E t \in Tasks : Worker(t) \/ StepFails(t)
         \/ \E t \in Tasks : Host(t) \/ HostFails(t)
         \/ Service
         \/ UNCHANGED vars
  BY DEF Next, Failure, Service

LEMMA ServiceFrame ==
  ASSUME Service
  PROVE  UNCHANGED <<hrec, file, delivered>>
<1>1. CASE Quit \/ Disallowed \/ LinkLost \/ Crash \/ HostCrash
  BY <1>1 DEF Quit, Disallowed, LinkLost, Crash, HostCrash, Disconnect
<1>2. CASE \/ Connect \/ WireEnds \/ PausedQueue \/ Awaited \/ Cleanup
           \/ ClearTimesOut \/ AllPaused
  BY <1>2
  DEF Connect, WireEnds, PausedQueue, Awaited, Cleanup, ClearTimesOut,
      AllPaused, Disconnect
<1>3. CASE Leave \/ Leaves \/ Closed
  BY <1>3 DEF Leave, Leaves, Closed, Disconnect
<1>4. ASSUME NEW t \in Tasks, PauseStale(t) \/ Reap(t) \/ Start(t)
      PROVE  UNCHANGED <<hrec, file, delivered>>
  BY <1>4 DEF PauseStale, Reap, Start
<1>5. ASSUME NEW t \in Tasks, Add(t) \/ Pause(t) \/ Cancel(t)
      PROVE  UNCHANGED <<hrec, file, delivered>>
  BY <1>5 DEF Add, Pause, Cancel
<1>6. CASE \/ PauseAll \/ ClearCompleted \/ Release \/ Restart
           \/ \E S \in {{t} : t \in Tasks} \cup {Resumable} : Resume(S)
  BY <1>6 DEF PauseAll, ClearCompleted, Release, Restart, Resume, Disconnect
<1> QED BY <1>1, <1>2, <1>3, <1>4, <1>5, <1>6 DEF Service, Loop, User

-----------------------------------------------------------------------------
(* Types.                                                                   *)

LEMMA TypeInit == Init => TypeOK
<1> SUFFICES ASSUME Init PROVE TypeOK
  OBVIOUS
<1>0. 0 \in Names
  BY DEF Names
<1>1. NoRecord \in Record /\ NoHostRecord \in HostRecord
  BY <1>0 DEF NoRecord, NoHostRecord, Record, HostRecord, Partials
<1>2. PICK plan \in Plans :
        /\ rec = [t \in Tasks |->
                    [NoRecord EXCEPT !.dir = plan.tasks[t].dir,
                                     !.policy = plan.tasks[t].policy]]
        /\ file = [d \in {"here", "there"} |->
                     [n \in Names |->
                        IF n = 0 /\ plan.taken THEN "old" ELSE Free]]
  BY DEF Init
<1>3. \A t \in Tasks :
        /\ plan.tasks[t].dir \in {"upload", "download"}
        /\ plan.tasks[t].policy \in 0..3
  BY <1>2
<1>4. rec \in [Tasks -> Record]
  BY <1>0, <1>2, <1>3 DEF NoRecord, Record, Partials
<1>5. /\ own = [t \in Tasks |-> NoRecord] /\ pc = [t \in Tasks |-> "idle"]
      /\ stop = {} /\ runs = [t \in Tasks |-> 0]
  BY DEF Init
<1>6. TasksOK
  BY <1>1, <1>4, <1>5 DEF TasksOK, WorkerAt
<1>7. ServiceOK
  <2>1. stale = <<>>
    BY DEF Init
  <2> QED BY <2>1 DEF ServiceOK
<1>8. LinkOK
  <2>1. /\ toHost = [t \in Tasks |-> <<>>]
        /\ toCtl = [t \in Tasks |-> <<>>]
    BY DEF Init
  <2>2. <<>> \in Seq(Message)
    OBVIOUS
  <2> QED BY <2>1, <2>2, Zenon DEF LinkOK
<1>9. HostOK
  <2>1. /\ hrec = [t \in Tasks |-> NoHostRecord]
        /\ hown = [t \in Tasks |-> NoHostRecord]
        /\ hpc = [t \in Tasks |-> "none"]
        /\ hrun = [t \in Tasks |-> 0]
    BY DEF Init
  <2> QED BY <1>1, <2>1 DEF HostOK, HostAt
<1>10. DiskOK
  <2>1. /\ temp = [t \in Tasks |-> [n \in Names |-> Absent]]
        /\ delivered = [t \in Tasks |-> 0]
    BY DEF Init
  <2>2. Absent \in Lengths
    BY DEF Lengths
  <2>3. [n \in Names |-> Absent] \in [Names -> Lengths]
    BY <2>2
  <2>4. temp \in [Tasks -> [Names -> Lengths]]
    BY <2>1, <2>3
  <2>5. file \in [{"here", "there"} -> [Names -> Tasks \cup {Free, "old"}]]
    BY <1>2
  <2> QED BY <2>1, <2>4, <2>5 DEF DiskOK
<1> QED BY <1>6, <1>7, <1>8, <1>9, <1>10 DEF TypeOK

-----------------------------------------------------------------------------
\* Only t's part of a function is another one.
Only(f, g, t) == g = [f EXCEPT ![t] = g[t]]

Moves(t) ==
    /\ rec'[t] \in Record /\ own'[t] \in Record /\ pc'[t] \in WorkerAt
    /\ Only(rec, rec', t) /\ Only(own, own', t) /\ Only(pc, pc', t)

LEMMA SaveMoves ==
  ASSUME TasksOK, NEW t \in Tasks, NEW r \in Record, NEW label \in WorkerAt,
         NEW send, SaveThen(t, r, label, send)
  PROVE  Moves(t)
  BY DEF SaveThen, Keep, Goto, TasksOK, Moves, Only, WorkerAt

LEMMA WorkerMoves ==
  ASSUME TypeOK, NEW t \in Tasks, Worker(t) \/ StepFails(t)
  PROVE  Moves(t)
<1> USE DEF TypeOK, TasksOK
<1> DEFINE o == own[t]
<1>0. o \in Record /\ NoRecord \in Record
  BY DEF Record, NoRecord, Partials, Names
<1>a. \A s \in {"Running", "Skipped", "Done", "Paused", "Failed"} :
         [o EXCEPT !.state = s] \in Record
  BY <1>0 DEF Record
<1>b. \A s \in BOOLEAN : [o EXCEPT !.started = s] \in Record
  BY <1>0 DEF Record
<1>c. \A p \in Partials : [o EXCEPT !.partial = p] \in Record
  BY <1>0 DEF Record
<1>1. ASSUME Register(t) PROVE Moves(t)
  <2>1. [o EXCEPT !.state = "Running"] \in Record
    BY <1>a
  <2>2. own'[t] \in Record /\ Only(own, own', t)
    BY <1>1, <2>1 DEF Register, Keep, Only
  <2>3. rec'[t] \in Record /\ Only(rec, rec', t)
    BY <1>1, <2>1 DEF Register, Only
  <2>4. pc'[t] \in WorkerAt /\ Only(pc, pc', t)
    BY <1>1 DEF Register, Goto, Only, WorkerAt
  <2> QED BY <2>2, <2>3, <2>4 DEF Moves
<1>2. ASSUME BeginUpload(t) PROVE Moves(t)
  BY <1>2 DEF BeginUpload, Request, Goto, Moves, Only, WorkerAt, UploadAt
<1>3. ASSUME SaveStarted(t) PROVE Moves(t)
  <2>1. [o EXCEPT !.started = TRUE] \in Record
    BY <1>b
  <2> QED BY <1>3, <2>1, SaveMoves DEF SaveStarted, WorkerAt
<1>4. ASSUME NEW i, NameChecked(t, i) PROVE Moves(t)
  <2>1. own'[t] \in Record /\ Only(own, own', t)
    BY <1>a, <1>4 DEF NameChecked, Keep, Only
  <2>2. pc'[t] \in WorkerAt /\ Only(pc, pc', t) /\ UNCHANGED rec
    BY <1>4
    DEF NameChecked, Got, Request, Goto, Only, WorkerAt, UploadAt
  <2> QED BY <2>1, <2>2 DEF Moves, Only
<1>5. ASSUME NEW i, ReceiveAnswered(t, i) PROVE Moves(t)
  <2>1. own'[t] \in Record /\ Only(own, own', t)
    <3>1. CASE UNCHANGED own
      BY <3>1 DEF Only
    <3>2. ASSUME NEW s \in BOOLEAN,
                 own' = [own EXCEPT ![t] = [o EXCEPT !.started = s]]
          PROVE  own'[t] \in Record /\ Only(own, own', t)
      BY <1>b, <3>2 DEF Only
    <3>3. \/ UNCHANGED own
          \/ \E s \in BOOLEAN :
               own' = [own EXCEPT ![t] = [o EXCEPT !.started = s]]
      <4>1. o.started \in BOOLEAN
        BY <1>0 DEF Record
      <4> DEFINE s(m) == o.started /\ ~(m.kind = "response" /\ m.arg \in {4, 8, 12})
      <4>2. s(toCtl[t][i]) \in BOOLEAN
        BY <4>1
      <4>3. \/ UNCHANGED own
            \/ own' = [own EXCEPT ![t] =
                          [o EXCEPT !.started = s(toCtl[t][i])]]
        BY <1>5 DEF ReceiveAnswered, Keep
      <4> HIDE DEF s
      <4> QED BY <4>2, <4>3
    <3> QED BY <3>1, <3>2, <3>3
  <2>2. pc'[t] \in WorkerAt /\ Only(pc, pc', t) /\ UNCHANGED rec
    BY <1>5
    DEF ReceiveAnswered, Got, Request, Goto, Only, WorkerAt, UploadAt
  <2> QED BY <2>1, <2>2 DEF Moves, Only
<1>6. ASSUME NEW i, FileConfirmed(t, i) PROVE Moves(t)
  <2>1. CASE toCtl[t][i].kind # "confirm" \/ toCtl[t][i].arg # Skip
    BY <1>6, <2>1
    DEF FileConfirmed, Got, Request, Goto, Moves, Only, WorkerAt, UploadAt
  <2>2. CASE toCtl[t][i].kind = "confirm" /\ toCtl[t][i].arg = Skip
    <3>1. [o EXCEPT !.partial = "skipped"] \in Record
      BY <1>c DEF Partials
    <3> QED BY <1>6, <2>2, <3>1, SaveMoves DEF FileConfirmed, WorkerAt
  <2> QED BY <2>1, <2>2
<1>7. ASSUME NEW i, BlockConfirmed(t, i) PROVE Moves(t)
  BY <1>7
  DEF BlockConfirmed, Got, Request, Goto, Moves, Only, WorkerAt, UploadAt
<1>8. ASSUME NEW i, FileSaved(t, i) PROVE Moves(t)
  <2>1. CASE ResultOk(toCtl[t][i])
    <3>1. [o EXCEPT !.partial = "done"] \in Record
      BY <1>c DEF Partials
    <3> QED BY <1>8, <2>1, <3>1, SaveMoves DEF FileSaved, WorkerAt
  <2>2. CASE ~ResultOk(toCtl[t][i])
    BY <1>8, <2>2 DEF FileSaved, Goto, Moves, Only, WorkerAt
  <2> QED BY <2>1, <2>2
<1>9. ASSUME BeginDownload(t) PROVE Moves(t)
  <2>1. own'[t] \in Record /\ Only(own, own', t)
    BY <1>a, <1>9 DEF BeginDownload, Keep, Only
  <2>2. pc'[t] \in WorkerAt /\ Only(pc, pc', t) /\ UNCHANGED rec
    BY <1>9 DEF BeginDownload, Request, Goto, Only, WorkerAt
  <2> QED BY <2>1, <2>2 DEF Moves, Only
<1>10. ASSUME NEW i, SendAnswered(t, i) PROVE Moves(t)
  <2>1. CASE toCtl[t][i].kind = "response" /\ toCtl[t][i].arg = 1
    <3>1. [o EXCEPT !.started = TRUE] \in Record
      BY <1>b
    <3> QED BY <1>10, <2>1, <3>1, SaveMoves
    DEF SendAnswered, WorkerAt, DownloadAt
  <2>2. CASE ~(toCtl[t][i].kind = "response" /\ toCtl[t][i].arg = 1)
    BY <1>10, <2>2 DEF SendAnswered, Goto, Moves, Only, WorkerAt
  <2> QED BY <2>1, <2>2
<1>11. ASSUME NEW i, FileAsked(t, i) PROVE Moves(t)
  <2>1. CASE ~PrepareFails(t, own[t], "here")
    <3>1. Prepared(own[t], "here") \in Record
      BY <2>1, PreparedRecord
    <3> QED BY <1>11, <3>1
    DEF FileAsked, Got, Keep, Goto, Moves, Only, WorkerAt, DownloadAt
  <2>2. CASE PrepareFails(t, own[t], "here")
    BY <1>11, <2>2 DEF FileAsked, Goto, Moves, Only, WorkerAt
  <2> QED BY <2>1, <2>2
<1>12. ASSUME SavePrepared(t) \/ SaveRenamed(t) PROVE Moves(t)
  BY <1>12, SaveMoves DEF SavePrepared, SaveRenamed, WorkerAt, DownloadAt
<1>13. ASSUME NEW i, BlockReceived(t, i) \/ FileCompleted(t, i) \/ AllReceived(t, i)
       PROVE  Moves(t)
  BY <1>13
  DEF BlockReceived, FileCompleted, AllReceived, Request, Goto, Moves, Only,
      WorkerAt, DownloadAt
<1>14. ASSUME Rename(t) PROVE Moves(t)
  <2>1. [o EXCEPT !.partial = "done"] \in Record
    BY <1>c DEF Partials
  <2> QED BY <1>14, <2>1
  DEF Rename, Keep, Goto, Moves, Only, WorkerAt, DownloadAt
<1>15. ASSUME WaitStops(t) \/ StepFails(t) \/ Fail(t) \/ Drain(t)
       PROVE  Moves(t)
  BY <1>15
  DEF WaitStops, StepFails, Fail, Drain, Goto, Moves, Only, WorkerAt
<1>16. ASSUME Settle(t) PROVE Moves(t)
  <2>1. [o EXCEPT !.state = Outcome(t)] \in Record
    BY <1>a DEF Outcome
  <2> QED BY <1>0, <1>16, <2>1 DEF Settle, Goto, Moves, Only, WorkerAt
<1> QED
  BY <1>1, <1>2, <1>3, <1>4, <1>5, <1>6, <1>7, <1>8, <1>9, <1>10, <1>11,
     <1>12, <1>13, <1>14, <1>15, <1>16
  DEF Worker, Upload, Download

-----------------------------------------------------------------------------
(* The disk.                                                                *)

\* One temporary file of t may be another one, n is its name.
TempAt(t, n) ==
    /\ temp' \in [Tasks -> [Names -> Lengths]]
    /\ \A u \in Tasks \ {t} : temp'[u] = temp[u]
    /\ \A m \in Names \ {n} : temp'[t][m] = temp[t][m]

Patched(t, n, x) == temp' = [temp EXCEPT ![t][n] = x]

LEMMA TempUpdate ==
  ASSUME DiskOK, NEW t \in Tasks, NEW n \in Names, NEW x \in Lengths,
         Patched(t, n, x)
  PROVE  TempAt(t, n) /\ temp'[t][n] = x
<1>1. temp[t] \in [Names -> Lengths]
  BY DEF DiskOK
<1> DEFINE g == [temp[t] EXCEPT ![n] = x]
<1>2. g \in [Names -> Lengths] /\ g[n] = x /\ \A m \in Names \ {n} : g[m] = temp[t][m]
  BY <1>1
<1>3. temp' = [temp EXCEPT ![t] = g]
  BY DEF Patched
<1> HIDE DEF g
<1>4. /\ temp' \in [Tasks -> [Names -> Lengths]] /\ temp'[t] = g
      /\ \A u \in Tasks \ {t} : temp'[u] = temp[u]
  BY <1>2, <1>3 DEF DiskOK
<1> QED BY <1>2, <1>4 DEF TempAt

LEMMA LengthGrows ==
  ASSUME DiskOK, NEW t \in Tasks, NEW n \in Names
  PROVE  temp[t][n] + 1 \in Lengths /\ temp[t][n] + 1 # Absent
<1>1. temp[t][n] \in Lengths
  BY DEF DiskOK
<1> QED BY <1>1 DEF Lengths, Absent

-----------------------------------------------------------------------------
\* What a worker may tell the host.
NewToHost(t, m) ==
    /\ m.run = runs[t]
    /\ m.kind \in {"exist", "receive", "send", "block", "ask", "confirm",
                   "complete", "ack", "result", "finish", "pause"}
    /\ m.kind = "exist" => pc[t] = "begin" /\ own[t].dir = "upload"
    /\ m.kind = "receive" =>
         /\ pc'[t] = "asked" /\ UNCHANGED own
         /\ \/ /\ pc[t] = "begin" /\ own[t].dir = "upload"
               /\ own[t].partial \notin Dealt
               /\ m.arg = 4
            \/ pc[t] = "exists" /\ m.arg = own[t].policy
    /\ m.kind = "send" => pc[t] = "begin" /\ own[t].dir = "download"
    /\ m.kind = "finish" => rec'[t].partial \in Dealt

Sends(t) ==
    \E ms \in Seq(Message) :
        /\ Adds(toHost, toHost', t, ms)
        /\ toHost'[t] \in {toHost[t], toHost[t] \o ms}
        /\ \A m \in In(ms) : NewToHost(t, m)
        /\ \A m \in In(ms) : m.kind = "receive" => ms = <<m>>

LEMMA SendsNothing ==
  ASSUME LinkOK, NEW t \in Tasks, UNCHANGED toHost
  PROVE  Sends(t)
<1>1. <<>> \in Seq(Message) /\ In(<<>>) = {}
  BY InEmpty
<1>2. Adds(toHost, toHost', t, <<>>)
  BY <1>1 DEF Adds, LinkOK
<1> QED BY <1>1, <1>2 DEF Sends

LEMMA SendsNoMessage ==
  ASSUME LinkOK, NEW t \in Tasks, Send(t, <<>>)
  PROVE  Sends(t)
<1>1. <<>> \in Seq(Message)
  OBVIOUS
<1>2. /\ Adds(toHost, toHost', t, <<>>)
      /\ toHost'[t] \in {toHost[t], toHost[t] \o <<>>}
  BY <1>1, SendAdds
<1> QED BY <1>1, <1>2, InEmpty DEF Sends

LEMMA SendsOne ==
  ASSUME LinkOK, NEW t \in Tasks, NEW m \in Message, NewToHost(t, m),
         Send(t, <<m>>)
  PROVE  Sends(t)
<1>1. <<m>> \in Seq(Message) /\ In(<<m>>) = {m}
  BY InOne
<1>2. /\ Adds(toHost, toHost', t, <<m>>)
      /\ toHost'[t] \in {toHost[t], toHost[t] \o <<m>>}
  BY <1>1, SendAdds
<1> QED BY <1>1, <1>2 DEF Sends

LEMMA RequestSends ==
  ASSUME LinkOK, NEW t \in Tasks, NEW m \in Message, NEW label,
         Request(t, <<m>>, label), Goto(t, label) => NewToHost(t, m)
  PROVE  Sends(t)
  BY SendsNothing, SendsOne DEF Request

LEMMA SaveSends ==
  ASSUME LinkOK, NEW t \in Tasks, NEW r, NEW label, NEW m \in Message,
         SaveThen(t, r, label, <<m>>),
         rec' = [rec EXCEPT ![t] = r] => NewToHost(t, m)
  PROVE  Sends(t)
<1>1. \/ rec' = [rec EXCEPT ![t] = r] /\ Send(t, <<m>>)
      \/ UNCHANGED toHost
  BY DEF SaveThen
<1> QED BY <1>1, SendsNothing, SendsOne

LEMMA WorkerSends ==
  ASSUME TypeOK, NEW t \in Tasks, Worker(t) \/ StepFails(t)
  PROVE  Sends(t)
<1> USE DEF TypeOK, TasksOK
<1>0. runs[t] \in Int /\ own[t] \in Record /\ own[t].policy \in Int
  BY DEF Record
<1>1. \A k \in {"exist", "receive", "send", "block", "ask", "confirm",
                "complete", "ack", "result", "finish", "pause"},
         a \in Int :
        /\ Msg(k, runs[t], a) \in Message
        /\ Msg(k, runs[t], a).kind = k /\ Msg(k, runs[t], a).run = runs[t]
        /\ Msg(k, runs[t], a).arg = a
  BY <1>0 DEF Msg, Message
<1>2. ASSUME BeginUpload(t) PROVE Sends(t)
  <2>1. CASE UNCHANGED toHost
    BY <2>1, SendsNothing
  <2>2. CASE /\ own[t].partial \notin Dealt
             /\ Request(t, <<Msg("receive", runs[t], 4)>>, "asked")
    <3>1. Goto(t, "asked") => NewToHost(t, Msg("receive", runs[t], 4))
      BY <1>1, <1>2, <2>2 DEF NewToHost, BeginUpload, Goto
    <3> QED BY <1>1, <2>2, <3>1, RequestSends
  <2>3. CASE Request(t, <<Msg("exist", runs[t], 0)>>, "exists")
    <3>1. NewToHost(t, Msg("exist", runs[t], 0))
      BY <1>1, <1>2 DEF NewToHost, BeginUpload
    <3> QED BY <1>1, <2>3, <3>1, RequestSends
  <2> QED BY <1>2, <2>1, <2>2, <2>3 DEF BeginUpload
<1>3. ASSUME NEW i, NameChecked(t, i) PROVE Sends(t)
  <2>1. CASE UNCHANGED toHost
    BY <2>1, SendsNothing
  <2>2. CASE /\ Request(t, <<Msg("receive", runs[t], own[t].policy)>>, "asked")
             /\ UNCHANGED own
    <3>1. Goto(t, "asked") =>
            NewToHost(t, Msg("receive", runs[t], own[t].policy))
      BY <1>0, <1>1, <1>3, <2>2 DEF NewToHost, NameChecked, Got, Goto
    <3> QED BY <1>0, <1>1, <2>2, <3>1, RequestSends
  <2> QED BY <1>3, <2>1, <2>2 DEF NameChecked
<1>4. ASSUME SaveStarted(t) PROVE Sends(t)
  <2>1. CASE UNCHANGED toHost
    BY <2>1, SendsNothing
  <2>2. CASE Send(t, <<>>)
    BY <2>2, SendsNoMessage
  <2> QED BY <1>4, <2>1, <2>2 DEF SaveStarted, SaveThen
<1>5. ASSUME NEW i, ReceiveAnswered(t, i) PROVE Sends(t)
  <2>1. CASE UNCHANGED toHost
    BY <2>1, SendsNothing
  <2>2. CASE Request(t, <<Msg("ask", runs[t], 0)>>, "wait_confirm")
    <3>1. NewToHost(t, Msg("ask", runs[t], 0))
      BY <1>1 DEF NewToHost
    <3> QED BY <1>1, <2>2, <3>1, RequestSends
  <2> QED BY <1>5, <2>1, <2>2 DEF ReceiveAnswered
<1>6. NewToHost(t, Msg("complete", runs[t], 1))
  BY <1>1 DEF NewToHost
<1>7. ASSUME NEW r,
             NEW l, SaveThen(t, r, l, <<Msg("finish", runs[t], 1)>>),
             r.partial \in Dealt
      PROVE  Sends(t)
  <2>1. rec' = [rec EXCEPT ![t] = r] => rec'[t].partial \in Dealt
    BY <1>7
  <2>2. rec' = [rec EXCEPT ![t] = r] => NewToHost(t, Msg("finish", runs[t], 1))
    BY <1>1, <2>1 DEF NewToHost
  <2> QED BY <1>1, <1>7, <2>2, SaveSends
<1>8. ASSUME NEW i \in DOMAIN toCtl[t], FileConfirmed(t, i) PROVE Sends(t)
  <2> DEFINE m == toCtl[t][i]
  <2>0. m \in Message
    BY DEF LinkOK
  <2>1. CASE UNCHANGED toHost
    BY <2>1, SendsNothing
  <2>2. CASE SaveThen(t, [own[t] EXCEPT !.partial = "skipped"], "done",
                      <<Msg("finish", runs[t], 1)>>)
    <3>1. [own[t] EXCEPT !.partial = "skipped"].partial \in Dealt
      BY <1>0 DEF Record, Dealt
    <3> QED BY <1>7, <2>2, <3>1
  <2>3. CASE Request(t, <<Msg("complete", runs[t], 1)>>, "wait_result")
    BY <1>1, <1>6, <2>3, RequestSends
  <2>4. CASE Request(t, Blocks(t, m.arg), "wait_ack")
    <3>1. /\ Blocks(t, m.arg) \in Seq(Message)
          /\ \A b \in In(Blocks(t, m.arg)) :
               NewToHost(t, b) /\ b.kind # "receive"
      <4>1. m.arg \in Int
        BY <2>0 DEF Message
      <4>2. Blocks(t, m.arg) \in Seq(Message)
        BY <4>1, BlocksType
      <4>3. ASSUME NEW b \in In(Blocks(t, m.arg))
            PROVE  b = Msg("block", runs[t], 0)
        BY DEF In, Blocks
      <4> QED BY <1>1, <4>2, <4>3 DEF NewToHost
    <3>2. \/ UNCHANGED toHost
          \/ Send(t, Blocks(t, m.arg))
      BY <2>4 DEF Request
    <3>3. ASSUME Send(t, Blocks(t, m.arg)) PROVE Sends(t)
      <4>1. /\ Adds(toHost, toHost', t, Blocks(t, m.arg))
            /\ toHost'[t] \in {toHost[t], toHost[t] \o Blocks(t, m.arg)}
        BY <3>1, <3>3, SendAdds
      <4> QED BY <3>1, <4>1 DEF Sends
    <3> QED BY <2>1, <3>2, <3>3
  <2> QED BY <1>8, <2>1, <2>2, <2>3, <2>4 DEF FileConfirmed
<1>9. ASSUME NEW i, BlockConfirmed(t, i) PROVE Sends(t)
  BY <1>1, <1>6, <1>9, SendsNothing, RequestSends DEF BlockConfirmed
<1>10. ASSUME NEW i, FileSaved(t, i) PROVE Sends(t)
  <2>1. CASE UNCHANGED toHost
    BY <2>1, SendsNothing
  <2>2. CASE SaveThen(t, [own[t] EXCEPT !.partial = "done"], "done",
                      <<Msg("finish", runs[t], 1)>>)
    <3>1. [own[t] EXCEPT !.partial = "done"].partial \in Dealt
      BY <1>0 DEF Record, Dealt
    <3> QED BY <1>7, <2>2, <3>1
  <2> QED BY <1>10, <2>1, <2>2 DEF FileSaved
<1>11. ASSUME BeginDownload(t) PROVE Sends(t)
  <2>1. CASE UNCHANGED toHost
    BY <2>1, SendsNothing
  <2>2. CASE Request(t, <<Msg("send", runs[t], 0)>>, "wait_init")
    <3>1. NewToHost(t, Msg("send", runs[t], 0))
      BY <1>1, <1>11 DEF NewToHost, BeginDownload
    <3> QED BY <1>1, <2>2, <3>1, RequestSends
  <2> QED BY <1>11, <2>1, <2>2 DEF BeginDownload
<1>12. ASSUME NEW i, SendAnswered(t, i) PROVE Sends(t)
  <2>1. CASE UNCHANGED toHost
    BY <2>1, SendsNothing
  <2>2. CASE Send(t, <<>>)
    BY <2>2, SendsNoMessage
  <2> QED BY <1>12, <2>1, <2>2 DEF SendAnswered, SaveThen
<1>13. ASSUME SavePrepared(t) PROVE Sends(t)
  <2>1. Position(t, own[t]) \in Int
    BY <1>0 DEF Position, DiskOK, Record, Skip, Lengths, Absent
  <2>2. NewToHost(t, Msg("confirm", runs[t], Position(t, own[t])))
    BY <1>1, <2>1 DEF NewToHost
  <2> QED BY <1>1, <1>13, <2>1, <2>2, SaveSends DEF SavePrepared
<1>14. ASSUME NEW i, BlockReceived(t, i) PROVE Sends(t)
  <2> DEFINE a == temp'[t][own[t].name]
  <2>1. a \in Int
    <3>1. Patched(t, own[t].name, temp[t][own[t].name] + 1)
      BY <1>14 DEF BlockReceived, Write, Patched
    <3>2. own[t].name \in Names /\ temp[t][own[t].name] + 1 \in Lengths
      BY <1>0, LengthGrows DEF Record
    <3> QED BY <3>1, <3>2, TempUpdate DEF Lengths, Absent
  <2>2. Request(t, <<Msg("ack", runs[t], a)>>, "open")
    BY <1>14 DEF BlockReceived
  <2> HIDE DEF a
  <2>3. NewToHost(t, Msg("ack", runs[t], a))
    BY <1>1, <2>1 DEF NewToHost
  <2> QED BY <1>1, <2>1, <2>2, <2>3, RequestSends
<1>15. NewToHost(t, Msg("result", runs[t], 1))
  BY <1>1 DEF NewToHost
<1>16. ASSUME NEW i, AllReceived(t, i) PROVE Sends(t)
  BY <1>1, <1>15, <1>16, SendsNothing, RequestSends DEF AllReceived
<1>17. ASSUME SaveRenamed(t) PROVE Sends(t)
  BY <1>1, <1>15, <1>17, SaveSends DEF SaveRenamed
<1>18. ASSUME Fail(t) PROVE Sends(t)
  <2>1. \A a \in Int : NewToHost(t, Msg("pause", runs[t], a))
    BY <1>1 DEF NewToHost
  <2> QED BY <1>1, <1>18, <2>1, SendsNothing, SendsOne DEF Fail
<1>19. ASSUME UNCHANGED toHost PROVE Sends(t)
  BY <1>19, SendsNothing
<1>20. ASSUME \/ Register(t) \/ Rename(t) \/ WaitStops(t) \/ StepFails(t)
              \/ Drain(t) \/ Settle(t)
              \/ \E i : FileAsked(t, i) \/ FileCompleted(t, i)
       PROVE  UNCHANGED toHost
  BY <1>20
  DEF Register, Rename, WaitStops, StepFails, Drain, Settle, FileAsked,
      FileCompleted
<1> HIDE DEF TypeOK, TasksOK
<1> QED
  BY <1>2, <1>3, <1>4, <1>5, <1>8, <1>9, <1>10, <1>11, <1>12, <1>13, <1>14,
     <1>16, <1>17, <1>18, <1>19, <1>20
  DEF Worker, Upload, Download

LEMMA WorkerTakes ==
  ASSUME TypeOK, NEW t \in Tasks, Worker(t) \/ StepFails(t)
  PROVE  Adds(toCtl, toCtl', t, <<>>)
<1> USE DEF TypeOK
<1>0. In(<<>>) = {}
  BY InEmpty
<1>1. ASSUME UNCHANGED toCtl PROVE Adds(toCtl, toCtl', t, <<>>)
  BY <1>1 DEF Adds, LinkOK
<1>2. ASSUME \/ Register(t) \/ BeginUpload(t) \/ SaveStarted(t)
             \/ BeginDownload(t) \/ SavePrepared(t) \/ Rename(t)
             \/ SaveRenamed(t) \/ WaitStops(t) \/ Fail(t) \/ Drain(t)
             \/ StepFails(t)
      PROVE  UNCHANGED toCtl
  BY <1>2
  DEF Register, BeginUpload, SaveStarted, BeginDownload, SavePrepared, Rename,
      SaveRenamed, WaitStops, Fail, Drain, StepFails
<1>3. ASSUME NEW i \in DOMAIN toCtl[t],
             \/ NameChecked(t, i) \/ ReceiveAnswered(t, i)
             \/ FileConfirmed(t, i) \/ BlockConfirmed(t, i) \/ FileSaved(t, i)
             \/ SendAnswered(t, i) \/ FileAsked(t, i) \/ BlockReceived(t, i)
             \/ FileCompleted(t, i) \/ AllReceived(t, i)
      PROVE  Adds(toCtl, toCtl', t, <<>>)
  <2>1. Take(t, i)
    BY <1>3
    DEF NameChecked, ReceiveAnswered, FileConfirmed, BlockConfirmed, FileSaved,
        SendAnswered, FileAsked, BlockReceived, FileCompleted, AllReceived, Got
  <2> QED BY <2>1, TakenAdds
<1>4. ASSUME Settle(t) PROVE Adds(toCtl, toCtl', t, <<>>)
  <2>1. toCtl' = [toCtl EXCEPT ![t] = <<>>] /\ <<>> \in Seq(Message)
    BY <1>4 DEF Settle
  <2>2. toCtl' \in [Tasks -> Seq(Message)] /\ toCtl'[t] = <<>>
    BY <2>1 DEF LinkOK
  <2>3. \A u \in Tasks \ {t} : toCtl'[u] = toCtl[u]
    BY <2>1 DEF LinkOK
  <2> QED BY <1>0, <2>2, <2>3 DEF Adds
<1> HIDE DEF TypeOK
<1> QED BY <1>1, <1>2, <1>3, <1>4 DEF Worker, Upload, Download

-----------------------------------------------------------------------------
HostMoves(t) ==
    /\ hrec'[t] \in HostRecord /\ hown'[t] \in HostRecord
    /\ hpc'[t] \in HostAt /\ hrun'[t] \in Int
    /\ Only(hrec, hrec', t) /\ Only(hown, hown', t)
    /\ Only(hpc, hpc', t) /\ Only(hrun, hrun', t)

LEMMA EndJobMoves ==
  ASSUME HostOK, LinkOK, NEW t \in Tasks, NEW r \in HostRecord,
         NEW q \in Seq(Message), In(q) \subseteq In(toHost[t]), EndJob(t, r, q)
  PROVE  HostMoves(t) /\ Adds(toHost, toHost', t, <<>>)
<1>0. NoHostRecord \in HostRecord
  BY DEF NoHostRecord, HostRecord, Partials, Names
<1>1. HostMoves(t)
  BY <1>0 DEF EndJob, HostGoto, HostOK, HostMoves, Only, HostAt
<1>2. toHost' = [toHost EXCEPT ![t] = q]
  BY DEF EndJob
<1>3. toHost' \in [Tasks -> Seq(Message)] /\ toHost'[t] = q
  BY <1>2 DEF LinkOK
<1>4. \A u \in Tasks \ {t} : toHost'[u] = toHost[u]
  BY <1>2 DEF LinkOK
<1> QED BY <1>1, <1>3, <1>4 DEF Adds

LEMMA RestOf ==
  ASSUME LinkOK, NEW t \in Tasks, NEW i \in DOMAIN toHost[t]
  PROVE  Rest(t, i) \in Seq(Message) /\ In(Rest(t, i)) \subseteq In(toHost[t])
  BY InRemoved DEF LinkOK, Rest

LEMMA HostSteps ==
  ASSUME TypeOK, NEW t \in Tasks, Host(t) \/ HostFails(t)
  PROVE  HostMoves(t) /\ Adds(toHost, toHost', t, <<>>)
<1> USE DEF TypeOK
<1> DEFINE Goal == HostMoves(t) /\ Adds(toHost, toHost', t, <<>>)
<1>0. NoHostRecord \in HostRecord
  BY DEF NoHostRecord, HostRecord, Partials, Names
<1>1. hown[t] \in HostRecord /\ hrec[t] \in HostRecord /\ hrun[t] \in Int
  BY DEF HostOK
<1>2. UNCHANGED host => HostMoves(t)
  BY <1>1 DEF HostMoves, HostOK, Only
<1>3. UNCHANGED toHost => Adds(toHost, toHost', t, <<>>)
  BY DEF Adds, LinkOK
<1>4. \A i \in DOMAIN toHost[t] :
        HostTake(t, i) => Adds(toHost, toHost', t, <<>>)
  BY TakenAdds
<1>5. \A i \in DOMAIN toHost[t] :
         /\ Rest(t, i) \in Seq(Message)
         /\ In(Rest(t, i)) \subseteq In(toHost[t])
  BY RestOf
<1>6. ASSUME NEW i \in DOMAIN toHost[t], NEW r \in HostRecord,
             EndJob(t, r, Rest(t, i))
      PROVE  Goal
  BY <1>5, <1>6, EndJobMoves
<1>7. ASSUME NEW r \in HostRecord, EndJob(t, r, toHost[t]) PROVE Goal
  <2>1. toHost[t] \in Seq(Message)
    BY DEF LinkOK
  <2> QED BY <1>7, <2>1, EndJobMoves
<1>8. ASSUME NEW label \in HostAt, HostGoto(t, label),
             hrec' = [hrec EXCEPT ![t] = hown[t]] \/ UNCHANGED hrec,
             UNCHANGED <<hown, hrun>>
      PROVE  HostMoves(t)
  BY <1>8 DEF HostGoto, HostMoves, HostOK, Only
<1>9. ASSUME NEW i \in DOMAIN toHost[t],
             \/ Late(t, i) \/ NameAsked(t, i) \/ HostBlockReceived(t, i)
      PROVE  Goal
  <2>1. UNCHANGED host /\ HostTake(t, i)
    BY <1>9 DEF Late, NameAsked, HostBlockReceived, Asked
  <2> QED BY <1>2, <1>4, <2>1
<1>10. ASSUME NEW i \in DOMAIN toHost[t], ReceiveAsked(t, i) PROVE Goal
  <2>1. Adds(toHost, toHost', t, <<>>)
    BY <1>4, <1>10 DEF ReceiveAsked, Asked
  <2>2. CASE UNCHANGED host
    BY <1>2, <2>1, <2>2
  <2>3. CASE ~UNCHANGED host
    <3> DEFINE m == toHost[t][i]
               r == IF m.arg = 4 THEN hrec[t]
                    ELSE [NoHostRecord EXCEPT !.policy = m.arg]
    <3>1. m \in Message
      BY DEF LinkOK
    <3>2. r \in HostRecord
      BY <1>0, <1>1, <3>1 DEF HostRecord, Message
    <3>3. m.run \in Int
      BY <3>1 DEF Message
    <3>4. /\ hrec' = [hrec EXCEPT ![t] = r]
          /\ hown' = [hown EXCEPT ![t] = r]
          /\ hpc' = [hpc EXCEPT ![t] = "ready"]
          /\ hrun' = [hrun EXCEPT ![t] = m.run]
      BY <1>10, <2>3 DEF ReceiveAsked
    <3> HIDE DEF r, m
    <3>5. HostMoves(t)
      BY <3>2, <3>3, <3>4
      DEF HostMoves, HostOK, Only, HostAt, ReceiveAt
    <3> QED BY <2>1, <3>5
  <2> QED BY <2>2, <2>3
<1>11. ASSUME NEW i \in DOMAIN toHost[t], HostFileAsked(t, i) PROVE Goal
  <2>1. CASE PrepareFails(t, hown[t], "there")
    BY <1>1, <1>6, <1>11, <2>1 DEF HostFileAsked
  <2>2. CASE ~PrepareFails(t, hown[t], "there")
    <3>1. Prepared(hown[t], "there") \in HostRecord
      BY <1>1, <2>2, PreparedRecord
    <3>2. HostTake(t, i) /\ UNCHANGED <<hrec, hrun>>
      BY <1>11, <2>2 DEF HostFileAsked
    <3>3. /\ hown' = [hown EXCEPT ![t] = Prepared(@, "there")]
          /\ hpc' = [hpc EXCEPT ![t] = "prepared"]
      BY <1>11, <2>2 DEF HostFileAsked, HostGoto
    <3>4. HostMoves(t)
      BY <3>1, <3>2, <3>3 DEF HostMoves, HostOK, Only, HostAt, ReceiveAt
    <3> QED BY <1>4, <3>2, <3>4
  <2> QED BY <2>1, <2>2
<1>12. ASSUME HostSavePrepared(t) \/ HostSaveRenamed(t) PROVE Goal
  BY <1>3, <1>8, <1>12
  DEF HostSavePrepared, HostSaveRenamed, HostAt, ReceiveAt
<1>13. ASSUME NEW i \in DOMAIN toHost[t], HostFileCompleted(t, i) PROVE Goal
  BY <1>1, <1>4, <1>6, <1>8, <1>13 DEF HostFileCompleted, HostAt, ReceiveAt
<1>14. ASSUME HostRename(t) PROVE Goal
  <2>1. [hown[t] EXCEPT !.partial = "done"] \in HostRecord
    BY <1>1 DEF HostRecord, Partials
  <2>2. HostMoves(t)
    BY <1>14, <2>1
    DEF HostRename, HostGoto, HostMoves, HostOK, Only, HostAt, ReceiveAt
  <2>3. UNCHANGED toHost
    BY <1>14 DEF HostRename
  <2> QED BY <1>3, <2>2, <2>3
<1>15. ASSUME NEW i \in DOMAIN toHost[t], HostFinished(t, i) PROVE Goal
  BY <1>0, <1>6, <1>15 DEF HostFinished
<1>16. ASSUME NEW i \in DOMAIN toHost[t], HostPaused(t, i) PROVE Goal
  BY <1>1, <1>6, <1>16 DEF HostPaused
<1>17. ASSUME HostStops(t) \/ HostFails(t) PROVE Goal
  BY <1>0, <1>1, <1>7, <1>17 DEF HostStops, HostFails
<1>18. ASSUME NEW i \in DOMAIN toHost[t], ClearAsked(t, i) PROVE Goal
  <2>1. /\ UNCHANGED <<hown, hpc, hrun>>
        /\ hrec' = [hrec EXCEPT ![t] = NoHostRecord] \/ UNCHANGED hrec
        /\ HostTake(t, i)
    BY <1>18 DEF ClearAsked, Asked
  <2>2. HostMoves(t)
    BY <1>0, <1>1, <2>1 DEF HostMoves, HostOK, Only
  <2> QED BY <1>4, <2>1, <2>2
<1>19. ASSUME NEW i \in DOMAIN toHost[t], SendAsked(t, i) PROVE Goal
  <2>0. toHost[t][i] \in Message
    BY DEF LinkOK
  <2>1. toHost[t][i].run \in Int
    BY <2>0 DEF Message
  <2>2. HostMoves(t)
    BY <1>19, <2>1 DEF SendAsked, HostGoto, HostMoves, HostOK, Only, HostAt
  <2> QED BY <1>4, <1>19, <2>2 DEF SendAsked, Asked
<1>20. ASSUME NEW i \in DOMAIN toHost[t], SendConfirmed(t, i) PROVE Goal
  BY <1>1, <1>4, <1>6, <1>8, <1>20 DEF SendConfirmed, HostAt
<1>21. ASSUME NEW i \in DOMAIN toHost[t], SendAcked(t, i) PROVE Goal
  BY <1>1, <1>2, <1>4, <1>6, <1>21 DEF SendAcked
<1> HIDE DEF TypeOK
<1> QED
  BY <1>9, <1>10, <1>11, <1>12, <1>13, <1>14, <1>15, <1>16, <1>17, <1>18,
     <1>19, <1>20, <1>21
  DEF Host

\* What the host may tell a worker.
NewToCtl(t, m) ==
    /\ m.kind = "result" => hpc[t] = "renamed"
    /\ m.kind = "confirm" =>
         hpc[t] = "prepared" /\ m.arg = Position(t, hown[t])
    /\ m.kind = "response" =>
         \E i \in Heads(toHost[t]) :
            /\ toHost[t][i].kind \in {"receive", "send"}
            /\ toHost[t][i].run = runs[t]
            /\ Routed(t)
            /\ HostTake(t, i)

Told(t) ==
    \E ms \in Seq(Message) :
        /\ Adds(toCtl, toCtl', t, ms)
        /\ \A m \in In(ms) : NewToCtl(t, m)

LEMMA ToldNothing ==
  ASSUME LinkOK, NEW t \in Tasks, UNCHANGED toCtl
  PROVE  Told(t)
<1>1. <<>> \in Seq(Message) /\ In(<<>>) = {}
  BY InEmpty
<1>2. Adds(toCtl, toCtl', t, <<>>)
  BY <1>1 DEF Adds, LinkOK
<1> QED BY <1>1, <1>2 DEF Told

LEMMA ToldSeveral ==
  ASSUME LinkOK, NEW t \in Tasks, NEW run, NEW ms \in Seq(Message),
         toCtl' = Answers(t, run, ms),
         run = runs[t] /\ Routed(t) => \A m \in In(ms) : NewToCtl(t, m)
  PROVE  Told(t)
<1>1. CASE run = runs[t] /\ Routed(t)
  BY <1>1, AnswersAdd DEF Told
<1>2. CASE ~(run = runs[t] /\ Routed(t))
  <2>1. UNCHANGED toCtl
    BY <1>2 DEF Answers
  <2> QED BY <2>1, ToldNothing
<1> QED BY <1>1, <1>2

LEMMA ToldOne ==
  ASSUME LinkOK, NEW t \in Tasks, NEW run, NEW m \in Message,
         toCtl' = Answers(t, run, <<m>>),
         run = runs[t] /\ Routed(t) => NewToCtl(t, m)
  PROVE  Told(t)
<1>1. <<m>> \in Seq(Message) /\ In(<<m>>) = {m}
  BY InOne
<1> QED BY <1>1, ToldSeveral

LEMMA HostTells ==
  ASSUME TypeOK, NEW t \in Tasks, Host(t) \/ HostFails(t)
  PROVE  Told(t)
<1> USE DEF TypeOK
<1>0. hrun[t] \in Int
  BY DEF HostOK
<1>1. \A k \in {"exist", "ask", "confirm", "complete", "ack", "result",
                "finish", "stopped", "response"},
         run \in Int, a \in Int :
        /\ Msg(k, run, a) \in Message
        /\ Msg(k, run, a).kind = k
        /\ Msg(k, run, a).arg = a
  BY DEF Msg, Message
<1>2. \A k \in {"exist", "ask", "complete", "ack", "finish", "stopped"},
         run \in Int, a \in Int :
        NewToCtl(t, Msg(k, run, a))
  BY <1>1 DEF NewToCtl
<1>3. \A i \in DOMAIN toHost[t] :
        toHost[t][i] \in Message /\ toHost[t][i].run \in Int
                                 /\ toHost[t][i].arg \in Int
  <2>1. \A i \in DOMAIN toHost[t] : toHost[t][i] \in Message
    BY DEF LinkOK
  <2> QED BY <2>1 DEF Message
<1>4. ASSUME UNCHANGED toCtl PROVE Told(t)
  BY <1>4, ToldNothing
<1>5. ASSUME NEW code \in Int, Stopped(t, code) PROVE Told(t)
  BY <1>0, <1>1, <1>2, <1>5, ToldOne DEF Stopped, Answer
<1>6. ASSUME NEW i \in DOMAIN toHost[t],
             Late(t, i) \/ ClearAsked(t, i)
      PROVE  UNCHANGED toCtl
  BY <1>6 DEF Late, ClearAsked
<1>7. ASSUME HostRename(t) \/ HostStops(t) PROVE UNCHANGED toCtl
  BY <1>7 DEF HostRename, HostStops
<1>8. ASSUME NEW i \in DOMAIN toHost[t], NameAsked(t, i) PROVE Told(t)
  <2> DEFINE a == IF Receiving # {} THEN 2
                  ELSE IF file["there"][0] # Free THEN 1 ELSE 0
             run == toHost[t][i].run
  <2>1. a \in Int /\ run \in Int
    BY <1>3
  <2>2. toCtl' = Answers(t, run, <<Msg("exist", run, a)>>)
    BY <1>8 DEF NameAsked
  <2> HIDE DEF a, run
  <2> QED BY <1>1, <1>2, <2>1, <2>2, ToldOne
<1>9. ASSUME NEW i \in DOMAIN toHost[t], ReceiveAsked(t, i) PROVE Told(t)
  <2> DEFINE run == toHost[t][i].run
             code == Refusal(t, toHost[t][i].arg)
  <2>1. PICK c \in {code, 1, 3, 4} :
          toCtl' = Answers(t, run, <<Msg("response", run, c)>>)
    BY <1>9 DEF ReceiveAsked
  <2>2. c \in Int /\ run \in Int
    BY <1>3 DEF Refusal
  <2>3. /\ i \in Heads(toHost[t]) /\ toHost[t][i].kind = "receive"
        /\ HostTake(t, i)
    BY <1>9 DEF ReceiveAsked, Asked
  <2>4. run = runs[t] /\ Routed(t) => NewToCtl(t, Msg("response", run, c))
    BY <1>1, <2>2, <2>3 DEF NewToCtl
  <2> HIDE DEF run, code
  <2> QED BY <1>1, <2>1, <2>2, <2>4, ToldOne
<1>10. ASSUME NEW i \in DOMAIN toHost[t], HostFileAsked(t, i) PROVE Told(t)
  BY <1>4, <1>5, <1>10 DEF HostFileAsked
<1>11. ASSUME HostSavePrepared(t) PROVE Told(t)
  <2>1. Position(t, hown[t]) \in Int
    BY DEF Position, HostOK, DiskOK, HostRecord, Skip, Lengths, Absent
  <2>2. NewToCtl(t, Msg("confirm", hrun[t], Position(t, hown[t])))
    BY <1>0, <1>1, <1>11, <2>1 DEF NewToCtl, HostSavePrepared
  <2> QED BY <1>0, <1>1, <1>11, <2>1, <2>2, ToldOne DEF HostSavePrepared, Answer
<1>12. ASSUME HostSaveRenamed(t) PROVE Told(t)
  <2>1. NewToCtl(t, Msg("result", hrun[t], 1))
    BY <1>0, <1>1, <1>12 DEF NewToCtl, HostSaveRenamed
  <2> QED BY <1>0, <1>1, <1>12, <2>1, ToldOne DEF HostSaveRenamed, Answer
<1>13. ASSUME NEW i \in DOMAIN toHost[t], HostBlockReceived(t, i)
       PROVE  Told(t)
  <2> DEFINE a == temp'[t][hown[t].name]
  <2>1. a \in Int
    <3>1. Patched(t, hown[t].name, temp[t][hown[t].name] + 1)
      BY <1>13 DEF HostBlockReceived, Write, Patched
    <3>2. hown[t].name \in Names /\ temp[t][hown[t].name] + 1 \in Lengths
      BY LengthGrows DEF HostOK, HostRecord
    <3> QED BY <3>1, <3>2, TempUpdate DEF Lengths, Absent
  <2>2. toCtl' = Answers(t, hrun[t], <<Msg("ack", hrun[t], a)>>)
    BY <1>13 DEF HostBlockReceived, Answer
  <2> HIDE DEF a
  <2> QED BY <1>0, <1>1, <1>2, <2>1, <2>2, ToldOne
<1>14. ASSUME NEW i \in DOMAIN toHost[t],
              HostFileCompleted(t, i) \/ HostFinished(t, i) \/ HostPaused(t, i)
       PROVE  Told(t)
  BY <1>3, <1>4, <1>5, <1>14 DEF HostFileCompleted, HostFinished, HostPaused
<1>15. ASSUME HostFails(t) PROVE Told(t)
  BY <1>4, <1>5, <1>15 DEF HostFails
<1>16. ASSUME NEW i \in DOMAIN toHost[t], SendAsked(t, i) PROVE Told(t)
  <2> DEFINE run == toHost[t][i].run
  <2>1. run \in Int
    BY <1>3
  <2>2. /\ i \in Heads(toHost[t]) /\ toHost[t][i].kind = "send"
        /\ HostTake(t, i)
    BY <1>16 DEF SendAsked, Asked
  <2>3. toCtl' = Answers(t, run, <<Msg("response", run, 1), Msg("ask", run, 0)>>)
    BY <1>16 DEF SendAsked
  <2>4. run = runs[t] /\ Routed(t) => NewToCtl(t, Msg("response", run, 1))
    BY <1>1, <2>1, <2>2 DEF NewToCtl
  <2> HIDE DEF run
  <2> DEFINE ms == <<Msg("response", run, 1), Msg("ask", run, 0)>>
  <2>5. /\ ms \in Seq(Message)
        /\ In(ms) = {Msg("response", run, 1), Msg("ask", run, 0)}
    BY <1>1, <2>1, InTwo
  <2>6. toCtl' = Answers(t, run, ms)
    BY <2>3
  <2> HIDE DEF ms
  <2>7. run = runs[t] /\ Routed(t) => \A m \in In(ms) : NewToCtl(t, m)
    BY <1>2, <2>1, <2>4, <2>5
  <2> QED BY <2>5, <2>6, <2>7, ToldSeveral
<1>17. ASSUME Answer(t, Ended(t)) PROVE Told(t)
  <2>1. /\ Ended(t) \in Seq(Message)
        /\ In(Ended(t)) = {Msg("complete", hrun[t], 1), Msg("finish", hrun[t], 1)}
    BY <1>0, <1>1, InTwo DEF Ended
  <2> HIDE DEF TypeOK
  <2>2. LinkOK
    BY DEF TypeOK
  <2> QED BY <1>0, <1>2, <1>17, <2>1, <2>2, ToldSeveral DEF Answer
<1>18. ASSUME NEW i \in DOMAIN toHost[t], SendConfirmed(t, i) PROVE Told(t)
  <2> DEFINE from == toHost[t][i].arg
  <2>1. CASE Answer(t, <<Msg("finish", hrun[t], 1)>>)
    BY <1>0, <1>1, <1>2, <2>1, ToldOne DEF Answer
  <2>2. CASE Answer(t, Blocks(t, from))
    <3>1. /\ Blocks(t, from) \in Seq(Message)
          /\ \A m \in In(Blocks(t, from)) : m.kind = "block"
      BY <1>3, BlocksType
    <3>2. \A m \in In(Blocks(t, from)) : NewToCtl(t, m)
      BY <3>1 DEF NewToCtl
    <3>3. toCtl' = Answers(t, hrun[t], Blocks(t, from))
      BY <2>2 DEF Answer
    <3> HIDE DEF from
    <3> QED BY <3>1, <3>2, <3>3, ToldSeveral
  <2> QED BY <1>17, <1>18, <2>1, <2>2 DEF SendConfirmed
<1>19. ASSUME NEW i \in DOMAIN toHost[t], SendAcked(t, i) PROVE Told(t)
  BY <1>4, <1>17, <1>19 DEF SendAcked
<1> HIDE DEF TypeOK
<1> QED
  BY <1>4, <1>6, <1>7, <1>8, <1>9, <1>10, <1>11, <1>12, <1>13, <1>14, <1>15,
     <1>16, <1>18, <1>19
  DEF Host

-----------------------------------------------------------------------------
(* Preparing, writing, renaming.                                            *)

LEMMA TempSame ==
  ASSUME DiskOK, UNCHANGED temp
  PROVE  \A t \in Tasks, n \in Names : TempAt(t, n)
  BY DEF DiskOK, TempAt

LEMMA PrepareTemp ==
  ASSUME DiskOK, NEW t \in Tasks, NEW d, NEW r \in Record \cup HostRecord,
         ~PrepareFails(t, r, d), Prepare(t, r, d)
  PROVE  LET q == Prepared(r, d)
         IN  /\ TempAt(t, q.name)
             /\ temp[t][q.name] # Absent => UNCHANGED temp
             /\ q.partial = "open" => temp'[t][q.name] # Absent
<1> DEFINE q == Prepared(r, d)
<1>1. q.name \in Names
  BY PreparedRecord DEF Record, HostRecord
<1>2. CASE UNCHANGED temp
  <2>1. q.partial = "open" => ~Skips(r, d)
    BY DEF Prepared, Skips, Dealt, Record, HostRecord
  <2>2. q.partial = "open" => temp'[t][q.name] # Absent
    <3>1. ASSUME q.partial = "open", temp[t][q.name] = Absent PROVE FALSE
      <4> HIDE DEF q
      <4>1. Patched(t, q.name, 0)
        BY <2>1, <3>1 DEF Prepare, q, Patched
      <4>2. 0 \in Lengths /\ 0 # Absent
        BY DEF Lengths, Absent
      <4>3. temp'[t][q.name] = 0
        BY <1>1, <4>1, <4>2, TempUpdate
      <4> QED BY <1>2, <3>1, <4>2, <4>3
    <3> QED BY <1>2, <3>1
  <2> QED BY <1>1, <1>2, <2>2, TempSame
<1>3. CASE temp[t][q.name] = Absent /\ Patched(t, q.name, 0)
  <2> HIDE DEF q
  <2>2. 0 \in Lengths /\ 0 # Absent
    BY DEF Lengths, Absent
  <2>1. TempAt(t, q.name) /\ temp'[t][q.name] = 0
    BY <1>1, <1>3, <2>2, TempUpdate
  <2> QED BY <1>3, <2>1, <2>2 DEF q
<1> QED BY <1>2, <1>3 DEF Prepare, Patched

LEMMA CleanedTemp ==
  ASSUME DiskOK, NEW t \in Tasks, NEW r \in Record \cup HostRecord,
         temp' = Cleaned(t, r)
  PROVE  /\ TempAt(t, r.name)
         /\ r.partial = "open" => temp'[t][r.name] = Absent
<1>1. r.name \in Names /\ Absent \in Lengths
  BY DEF Record, HostRecord, Lengths
<1>2. \/ UNCHANGED temp /\ r.partial # "open"
      \/ Patched(t, r.name, Absent)
  BY DEF Cleaned, Patched
<1> QED BY <1>1, <1>2, TempUpdate, TempSame

LEMMA PutTemp ==
  ASSUME DiskOK, NEW t \in Tasks, NEW r \in Record \cup HostRecord,
         NEW d \in {"here", "there"}, PutInPlace(t, r, d)
  PROVE  /\ TempAt(t, r.name) /\ temp'[t][r.name] = Absent
         /\ file' \in [{"here", "there"} -> [Names -> Tasks \cup {Free, "old"}]]
         /\ file'[d][r.name] = t
         /\ \A e \in {"here", "there"}, n \in Names :
              e # d \/ n # r.name => file'[e][n] = file[e][n]
         /\ delivered' \in [Tasks -> Nat]
         /\ delivered'[t] = delivered[t] + 1
         /\ Only(delivered, delivered', t)
<1>1. r.name \in Names /\ Absent \in Lengths
  BY DEF Record, HostRecord, Lengths
<1>2. TempAt(t, r.name) /\ temp'[t][r.name] = Absent
  <2>1. Patched(t, r.name, Absent)
    BY DEF PutInPlace, Patched
  <2> QED BY <1>1, <2>1, TempUpdate
<1>3. /\ delivered' \in [Tasks -> Nat] /\ delivered'[t] = delivered[t] + 1
      /\ Only(delivered, delivered', t)
  BY DEF PutInPlace, DiskOK, Only
<1>4. /\ file' \in [{"here", "there"} -> [Names -> Tasks \cup {Free, "old"}]]
      /\ file'[d][r.name] = t
      /\ \A e \in {"here", "there"}, n \in Names :
           e # d \/ n # r.name => file'[e][n] = file[e][n]
  <2> DEFINE S == Tasks \cup {Free, "old"}
             g == [file[d] EXCEPT ![r.name] = t]
  <2>1. file[d] \in [Names -> S] /\ t \in S
    BY DEF DiskOK
  <2>2. g \in [Names -> S] /\ g[r.name] = t
        /\ \A n \in Names \ {r.name} : g[n] = file[d][n]
    BY <1>1, <2>1
  <2>3. file' = [file EXCEPT ![d] = g]
    BY DEF PutInPlace
  <2> HIDE DEF g
  <2> QED BY <1>1, <2>2, <2>3 DEF DiskOK
<1> QED BY <1>2, <1>3, <1>4

\* Files are put in place and not taken away; others' temporary files stay.
DiskAt(t) ==
    /\ \A u \in Tasks \ {t} : temp'[u] = temp[u] /\ delivered'[u] = delivered[u]
    /\ delivered[t] > 0 => delivered'[t] > 0
    /\ \A d \in {"here", "there"}, n \in Names : file'[d][n] \in {t, file[d][n]}

LEMMA DiskUnchanged ==
  ASSUME DiskOK, NEW t \in Tasks, UNCHANGED <<file, temp, delivered>>
  PROVE  DiskOK' /\ DiskAt(t)
  BY DEF DiskOK, DiskAt

LEMMA DiskTemp ==
  ASSUME DiskOK, NEW t \in Tasks, NEW n \in Names, TempAt(t, n),
         UNCHANGED <<file, delivered>>
  PROVE  DiskOK' /\ DiskAt(t)
  BY DEF DiskOK, DiskAt, TempAt

LEMMA DiskPut ==
  ASSUME DiskOK, NEW t \in Tasks, NEW r \in Record \cup HostRecord,
         NEW d \in {"here", "there"}, PutInPlace(t, r, d)
  PROVE  DiskOK' /\ DiskAt(t)
<1>1. DiskOK'
  BY PutTemp DEF DiskOK, TempAt
<1>2. \A u \in Tasks \ {t} : temp'[u] = temp[u] /\ delivered'[u] = delivered[u]
  BY PutTemp DEF TempAt, Only, DiskOK
<1>3. delivered'[t] > 0
  BY PutTemp DEF DiskOK
<1>4. \A e \in {"here", "there"}, n \in Names : file'[e][n] \in {t, file[e][n]}
  BY PutTemp
<1> QED BY <1>1, <1>2, <1>3, <1>4 DEF DiskAt

LEMMA WorkerDisk ==
  ASSUME TypeOK, NEW t \in Tasks, Worker(t) \/ StepFails(t)
  PROVE  DiskOK' /\ DiskAt(t)
<1> USE DEF TypeOK
<1>0. own[t] \in Record /\ own[t].name \in Names
  BY DEF TasksOK, Record
<1>1. ASSUME \/ Register(t) \/ BeginUpload(t) \/ SaveStarted(t)
             \/ BeginDownload(t) \/ SavePrepared(t) \/ SaveRenamed(t)
             \/ WaitStops(t) \/ Fail(t) \/ Drain(t) \/ StepFails(t)
             \/ Settle(t)
      PROVE  UNCHANGED <<file, temp, delivered>>
  BY <1>1
  DEF Register, BeginUpload, SaveStarted, BeginDownload, SavePrepared,
      SaveRenamed, WaitStops, Fail, Drain, StepFails, Settle
<1>2. ASSUME NEW i,
             \/ NameChecked(t, i) \/ ReceiveAnswered(t, i)
             \/ FileConfirmed(t, i) \/ BlockConfirmed(t, i) \/ FileSaved(t, i)
             \/ SendAnswered(t, i) \/ FileCompleted(t, i) \/ AllReceived(t, i)
      PROVE  UNCHANGED <<file, temp, delivered>>
  BY <1>2
  DEF NameChecked, ReceiveAnswered, FileConfirmed, BlockConfirmed, FileSaved,
      SendAnswered, FileCompleted, AllReceived, KeepTemp
<1>3. ASSUME NEW i, FileAsked(t, i) PROVE DiskOK' /\ DiskAt(t)
  <2>1. CASE UNCHANGED temp
    BY <1>3, <2>1, DiskUnchanged DEF FileAsked
  <2>2. CASE ~PrepareFails(t, own[t], "here") /\ Prepare(t, own[t], "here")
    <3>1. TempAt(t, Prepared(own[t], "here").name)
      BY <1>0, <2>2, PrepareTemp
    <3>2. Prepared(own[t], "here").name \in Names
      BY <1>0, <2>2, PreparedRecord DEF Record
    <3> QED BY <1>3, <3>1, <3>2, DiskTemp DEF FileAsked
  <2> QED BY <1>3, <2>1, <2>2 DEF FileAsked
<1>4. ASSUME NEW i, BlockReceived(t, i) PROVE DiskOK' /\ DiskAt(t)
  <2>1. Patched(t, own[t].name, temp[t][own[t].name] + 1)
    BY <1>4 DEF BlockReceived, Write, Patched
  <2>2. temp[t][own[t].name] + 1 \in Lengths
    BY <1>0, LengthGrows
  <2> QED BY <1>0, <1>4, <2>1, <2>2, TempUpdate, DiskTemp DEF BlockReceived
<1>5. ASSUME Rename(t) PROVE DiskOK' /\ DiskAt(t)
  BY <1>0, <1>5, DiskPut DEF Rename
<1> HIDE DEF TypeOK
<1>6. DiskOK
  BY DEF TypeOK
<1> QED
  BY <1>1, <1>2, <1>3, <1>4, <1>5, <1>6, DiskUnchanged
  DEF Worker, Upload, Download

LEMMA HostDisk ==
  ASSUME TypeOK, NEW t \in Tasks, Host(t) \/ HostFails(t)
  PROVE  DiskOK' /\ DiskAt(t)
<1> USE DEF TypeOK
<1>0. /\ hown[t] \in HostRecord /\ hown[t].name \in Names
      /\ hrec[t] \in HostRecord /\ hrec[t].name \in Names
  BY DEF HostOK, HostRecord
<1>1. ASSUME HostSavePrepared(t) \/ HostSaveRenamed(t) \/ HostFails(t)
      PROVE  UNCHANGED <<file, temp, delivered>>
  BY <1>1 DEF HostSavePrepared, HostSaveRenamed, HostFails
<1>2. ASSUME NEW i,
             \/ Late(t, i) \/ NameAsked(t, i) \/ ReceiveAsked(t, i)
             \/ HostFileCompleted(t, i) \/ HostPaused(t, i)
             \/ SendAsked(t, i) \/ SendConfirmed(t, i) \/ SendAcked(t, i)
      PROVE  UNCHANGED <<file, temp, delivered>>
  BY <1>2
  DEF Late, NameAsked, ReceiveAsked, HostFileCompleted, HostPaused, SendAsked,
      SendConfirmed, SendAcked, KeepTemp
<1>3. ASSUME NEW i, HostFileAsked(t, i) PROVE DiskOK' /\ DiskAt(t)
  <2>1. CASE UNCHANGED temp
    BY <1>3, <2>1, DiskUnchanged DEF HostFileAsked
  <2>2. CASE ~PrepareFails(t, hown[t], "there") /\ Prepare(t, hown[t], "there")
    <3>1. TempAt(t, Prepared(hown[t], "there").name)
      BY <1>0, <2>2, PrepareTemp
    <3>2. Prepared(hown[t], "there").name \in Names
      BY <1>0, <2>2, PreparedRecord DEF HostRecord
    <3> QED BY <1>3, <3>1, <3>2, DiskTemp DEF HostFileAsked
  <2> QED BY <1>3, <2>1, <2>2 DEF HostFileAsked
<1>4. ASSUME NEW i, HostBlockReceived(t, i) PROVE DiskOK' /\ DiskAt(t)
  <2>1. Patched(t, hown[t].name, temp[t][hown[t].name] + 1)
    BY <1>4 DEF HostBlockReceived, Write, Patched
  <2>2. temp[t][hown[t].name] + 1 \in Lengths
    BY <1>0, LengthGrows
  <2> QED BY <1>0, <1>4, <2>1, <2>2, TempUpdate, DiskTemp DEF HostBlockReceived
<1>5. ASSUME HostRename(t) PROVE DiskOK' /\ DiskAt(t)
  BY <1>0, <1>5, DiskPut DEF HostRename
<1>6. ASSUME NEW r \in {hown[t], hrec[t]}, temp' = Cleaned(t, r),
             UNCHANGED <<file, delivered>>
      PROVE  DiskOK' /\ DiskAt(t)
  BY <1>0, <1>6, CleanedTemp, DiskTemp
<1>7. ASSUME (\E i : HostFinished(t, i) \/ ClearAsked(t, i)) \/ HostStops(t)
      PROVE  DiskOK' /\ DiskAt(t)
  <2>1. /\ \/ UNCHANGED temp
           \/ \E r \in {hown[t], hrec[t]} : temp' = Cleaned(t, r)
        /\ UNCHANGED <<file, delivered>>
    BY <1>7 DEF HostFinished, ClearAsked, HostStops
  <2> QED BY <1>6, <2>1, DiskUnchanged
<1> HIDE DEF TypeOK
<1>8. DiskOK
  BY DEF TypeOK
<1> QED
  BY <1>1, <1>2, <1>3, <1>4, <1>5, <1>7, <1>8, DiskUnchanged DEF Host

-----------------------------------------------------------------------------
(* The loop, the user, and failures.                                        *)

LEMMA WithStateType ==
  ASSUME rec \in [Tasks -> Record], NEW S,
         NEW x \in {"Queued", "Paused", "Cancelled", "gone"}
  PROVE  WithState(S, x) \in [Tasks -> Record]
<1>1. \A r \in Record : [r EXCEPT !.state = x] \in Record
  BY DEF Record
<1> QED BY <1>1 DEF WithState

LEMMA ServiceTasks ==
  ASSUME TypeOK, Service
  PROVE  TasksOK'
<1> USE DEF TypeOK, TasksOK
<1> DEFINE Rec == rec' \in [Tasks -> Record]
           Jobs == /\ own' \in [Tasks -> Record] /\ pc' \in [Tasks -> WorkerAt]
                   /\ stop' \subseteq Tasks /\ runs' \in [Tasks -> Int]
<1>0. NoRecord \in Record
  BY DEF NoRecord, Record, Partials, Names
<1>1. Running \subseteq Tasks /\ Routes \subseteq Tasks
  BY DEF Running, Routes
<1>2. \A S, x : x \in {"Queued", "Paused", "Cancelled", "gone"} /\ rec' = WithState(S, x)
                => Rec
  <2> SUFFICES ASSUME NEW S, NEW x \in {"Queued", "Paused", "Cancelled", "gone"},
                      rec' = WithState(S, x)
               PROVE  Rec
    OBVIOUS
  <2> QED BY WithStateType
<1>3. SaveCancelled => Rec
  BY <1>2 DEF SaveCancelled
<1>4. Drained => Jobs
  BY DEF Drained, WorkerAt
<1>5. UNCHANGED rec => Rec
  OBVIOUS
<1>6. UNCHANGED <<own, pc, stop, runs>> => Jobs
  OBVIOUS
<1>7. ASSUME \/ Connect \/ PausedQueue \/ Leave \/ Leaves
             \/ Release
      PROVE  Rec /\ Jobs
  BY <1>7 DEF Connect, PausedQueue, Leave, Leaves, Release, Disconnect
<1>8. ASSUME \/ WireEnds \/ Disallowed \/ PauseAll \/ Quit \/ LinkLost
             \/ HostCrash
      PROVE  Rec /\ Jobs
  BY <1>1, <1>8 DEF WireEnds, Disallowed, PauseAll, Quit, LinkLost, HostCrash
<1>9. ASSUME Crash PROVE Rec /\ Jobs
  BY <1>0, <1>9 DEF Crash, WorkerAt
<1>10. ASSUME Closed \/ AllPaused PROVE Rec /\ Jobs
  BY <1>2, <1>4, <1>5, <1>10 DEF Closed, AllPaused
<1>11. ASSUME Awaited PROVE Rec /\ Jobs
  BY <1>11 DEF Awaited, WorkerAt
<1>12. ASSUME Cleanup \/ ClearTimesOut PROVE Rec /\ Jobs
  BY <1>2, <1>3, <1>5, <1>6, <1>12 DEF Cleanup, ClearTimesOut
<1>13. ASSUME ClearCompleted \/ Restart PROVE Rec /\ Jobs
  BY <1>2, <1>6, <1>13 DEF ClearCompleted, Restart
<1>14. ASSUME \E S : Resume(S) PROVE Rec /\ Jobs
  BY <1>2, <1>6, <1>14 DEF Resume
<1>15. ASSUME NEW t \in Tasks, PauseStale(t) PROVE Rec /\ Jobs
  <2>1. [stale[t] EXCEPT !.state = "Paused"] \in Record
    BY <1>15 DEF PauseStale, ServiceOK, Record
  <2> QED BY <1>15, <2>1 DEF PauseStale
<1>16. ASSUME NEW t \in Tasks, Reap(t) PROVE Rec /\ Jobs
  BY <1>16 DEF Reap, WorkerAt
<1>17. ASSUME NEW t \in Tasks, Start(t) PROVE Rec /\ Jobs
  BY <1>17 DEF Start, WorkerAt
<1>18. ASSUME NEW t \in Tasks, Add(t) PROVE Rec /\ Jobs
  <2>1. [rec[t] EXCEPT !.state = "Queued"] \in Record
    BY DEF Record
  <2>2. rec' = [rec EXCEPT ![t] = [rec[t] EXCEPT !.state = "Queued"]]
    BY <1>18 DEF Add
  <2>3. Rec
    BY <2>1, <2>2
  <2>4. Jobs
    BY <1>6, <1>18 DEF Add
  <2> QED BY <2>3, <2>4
<1>19. ASSUME NEW t \in Tasks, Pause(t) \/ Cancel(t) PROVE Rec /\ Jobs
  BY <1>2, <1>5, <1>6, <1>19 DEF Pause, Cancel, Await
<1> HIDE DEF TypeOK
<1>20. Rec /\ Jobs
  BY <1>7, <1>8, <1>9, <1>10, <1>11, <1>12, <1>13, <1>14, <1>15, <1>16,
     <1>17, <1>18, <1>19
  DEF Service, Loop, User
<1> QED BY <1>20

LEMMA ServiceStale ==
  ASSUME TypeOK, Service
  PROVE  ServiceOK'
<1> USE DEF TypeOK
<1>1. ASSUME stale' = [t \in Queued |-> rec[t]] PROVE ServiceOK'
  BY <1>1 DEF ServiceOK, TasksOK, Queued
<1>2. ASSUME stale' = <<>> PROVE ServiceOK'
  BY <1>2 DEF ServiceOK
<1>3. ASSUME UNCHANGED stale PROVE ServiceOK'
  BY <1>3 DEF ServiceOK
<1>4. ASSUME NEW t, stale' = Restrict(stale, DOMAIN stale \ {t})
      PROVE  ServiceOK'
  BY <1>4 DEF ServiceOK, Restrict
<1>5. CASE Quit \/ Disallowed \/ LinkLost \/ Crash \/ HostCrash
  BY <1>1, <1>2, <1>3, <1>5 DEF Quit, Disallowed, LinkLost, Crash, HostCrash
<1>6. CASE \/ Connect \/ WireEnds \/ PausedQueue \/ Awaited \/ Cleanup
           \/ ClearTimesOut \/ AllPaused
  BY <1>1, <1>3, <1>6
  DEF Connect, WireEnds, PausedQueue, Awaited, Cleanup, ClearTimesOut,
      AllPaused, Disconnect
<1>7. CASE Leave \/ Leaves \/ Closed
  BY <1>1, <1>3, <1>7 DEF Leave, Leaves, Closed
<1>8. ASSUME NEW t \in Tasks, PauseStale(t) \/ Reap(t) \/ Start(t)
      PROVE  ServiceOK'
  BY <1>2, <1>3, <1>4, <1>8 DEF PauseStale, Reap, Start
<1>9. ASSUME NEW t \in Tasks, Add(t) \/ Pause(t) \/ Cancel(t)
      PROVE  ServiceOK'
  BY <1>3, <1>9 DEF Add, Pause, Cancel
<1>10. CASE PauseAll \/ ClearCompleted \/ Release \/ Restart \/ \E S : Resume(S)
  BY <1>3, <1>10 DEF PauseAll, ClearCompleted, Release, Restart, Resume
<1> HIDE DEF TypeOK
<1> QED
  BY <1>5, <1>6, <1>7, <1>8, <1>9, <1>10 DEF Service, Loop, User

\* What waited is gone with the connection.
Cut ==
    /\ toHost' = [t \in Tasks |-> <<>>] /\ toCtl' = [t \in Tasks |-> <<>>]

LEMMA ServiceSends ==
  ASSUME TypeOK, Service
  PROVE  \/ UNCHANGED <<toHost, toCtl>>
         \/ Cut
         \/ /\ Cleanup
            /\ rec[target].dir = "upload"
            /\ Send(target, <<Msg("clear", 0, 0)>>)
            /\ cleaned' = cleaned \cup {target}
            /\ UNCHANGED toCtl
<1>1. CASE Quit \/ Disallowed \/ LinkLost \/ Crash \/ HostCrash
  BY <1>1 DEF Quit, Disallowed, LinkLost, Crash, HostCrash, Disconnect, Cut
<1>2. CASE \/ Connect \/ WireEnds \/ PausedQueue \/ Awaited
           \/ ClearTimesOut \/ AllPaused
  BY <1>2
  DEF Connect, WireEnds, PausedQueue, Awaited, ClearTimesOut, AllPaused,
      Disconnect, Cut
<1>3. CASE Cleanup
  BY <1>3 DEF Cleanup
<1>4. CASE Leave \/ Leaves \/ Closed
  BY <1>4 DEF Leave, Leaves, Closed, Disconnect, Cut
<1>5. ASSUME NEW t \in Tasks, PauseStale(t) \/ Reap(t) \/ Start(t)
      PROVE  UNCHANGED <<toHost, toCtl>>
  BY <1>5 DEF PauseStale, Reap, Start
<1>6. ASSUME NEW t \in Tasks, Add(t) \/ Pause(t) \/ Cancel(t)
      PROVE  UNCHANGED <<toHost, toCtl>>
  BY <1>6 DEF Add, Pause, Cancel
<1>7. CASE PauseAll \/ ClearCompleted \/ Release \/ Restart \/ \E S : Resume(S)
  BY <1>7
  DEF PauseAll, ClearCompleted, Release, Restart, Resume, Disconnect, Cut
<1> QED
  BY <1>1, <1>2, <1>3, <1>4, <1>5, <1>6, <1>7 DEF Service, Loop, User

LEMMA ServiceLink ==
  ASSUME TypeOK, Service
  PROVE  /\ LinkOK'
         /\ \A t \in Tasks :
              /\ In(toCtl'[t]) \subseteq In(toCtl[t])
              /\ \A m \in In(toHost'[t]) \ In(toHost[t]) :
                   /\ m.kind = "clear"
                   /\ rec[t].dir = "upload" /\ t \in cleaned'
                   /\ Cleanup /\ t = target
<1>1. CASE UNCHANGED <<toHost, toCtl>>
  BY <1>1 DEF LinkOK, TypeOK
<1>2. CASE Cut
  <2>1. <<>> \in Seq(Message) /\ In(<<>>) = {}
    BY InEmpty
  <2> DEFINE e == <<>>
  <2>2. e \in Seq(Message) /\ In(e) = {}
    BY <2>1
  <2>3. toHost' = [t \in Tasks |-> e] /\ toCtl' = [t \in Tasks |-> e]
    BY <1>2 DEF Cut
  <2> HIDE DEF e
  <2> QED BY <2>2, <2>3 DEF LinkOK
<1>3. CASE /\ Cleanup
           /\ rec[target].dir = "upload"
           /\ Send(target, <<Msg("clear", 0, 0)>>)
           /\ cleaned' = cleaned \cup {target}
           /\ UNCHANGED toCtl
  <2>0. LinkOK
    BY DEF TypeOK
  <2> DEFINE m == Msg("clear", 0, 0)
  <2>1. m \in Message /\ m.kind = "clear"
    BY DEF Msg, Message
  <2>2. Send(target, <<m>>)
    BY <1>3
  <2> HIDE DEF m
  <2>3. CASE target \in Tasks
    <3>1. <<m>> \in Seq(Message) /\ In(<<m>>) = {m}
      BY <2>1, InOne
    <3>2. Adds(toHost, toHost', target, <<m>>)
      BY <2>0, <2>2, <2>3, <3>1, SendAdds
    <3> QED BY <1>3, <2>0, <2>1, <2>3, <3>1, <3>2 DEF Adds, LinkOK
  <2>4. CASE target \notin Tasks
    <3>1. UNCHANGED toHost
      BY <2>0, <2>2, <2>4 DEF Send, LinkOK
    <3> QED BY <1>3, <2>0, <3>1 DEF LinkOK
  <2> QED BY <2>3, <2>4
<1> QED BY <1>1, <1>2, <1>3, ServiceSends

LEMMA ServiceHost ==
  ASSUME Service
  PROVE  /\ UNCHANGED hrec
         /\ \/ UNCHANGED <<hown, hpc, hrun, discard>>
            \/ /\ hown' = [t \in Tasks |-> NoHostRecord]
               /\ hpc' = [t \in Tasks |-> "none"]
               /\ hrun' = [t \in Tasks |-> 0]
               /\ discard' = {}
<1>1. CASE Quit \/ Disallowed \/ LinkLost \/ Crash \/ HostCrash
  BY <1>1 DEF Quit, Disallowed, LinkLost, Crash, HostCrash, Disconnect
<1>2. CASE \/ Connect \/ WireEnds \/ PausedQueue \/ Awaited \/ Cleanup
           \/ ClearTimesOut \/ AllPaused
  BY <1>2
  DEF Connect, WireEnds, PausedQueue, Awaited, Cleanup, ClearTimesOut,
      AllPaused, Disconnect
<1>3. CASE Leave \/ Leaves \/ Closed
  BY <1>3 DEF Leave, Leaves, Closed, Disconnect
<1>4. ASSUME NEW t \in Tasks, PauseStale(t) \/ Reap(t) \/ Start(t)
      PROVE  UNCHANGED <<hrec, hown, hpc, hrun, discard>>
  BY <1>4 DEF PauseStale, Reap, Start
<1>5. ASSUME NEW t \in Tasks, Add(t) \/ Pause(t) \/ Cancel(t)
      PROVE  UNCHANGED <<hrec, hown, hpc, hrun, discard>>
  BY <1>5 DEF Add, Pause, Cancel
<1>6. CASE PauseAll \/ ClearCompleted \/ Release \/ Restart \/ \E S : Resume(S)
  BY <1>6 DEF PauseAll, ClearCompleted, Release, Restart, Resume, Disconnect
<1> QED
  BY <1>1, <1>2, <1>3, <1>4, <1>5, <1>6 DEF Service, Loop, User

LEMMA ServiceTemp ==
  ASSUME TypeOK, Service
  PROVE  /\ DiskOK'
         /\ \/ UNCHANGED <<temp, cleaned>>
            \/ /\ Cleanup /\ rec[target].dir = "download"
               /\ temp' = Cleaned(target, rec[target])
               /\ cleaned' = cleaned \cup {target}
            \/ /\ Cleanup /\ UNCHANGED temp
               /\ cleaned' = cleaned \cup {target}
<1>1. CASE Quit \/ Disallowed \/ LinkLost \/ Crash \/ HostCrash
  BY <1>1 DEF Quit, Disallowed, LinkLost, Crash, HostCrash, TypeOK, DiskOK
<1>2. CASE \/ Connect \/ WireEnds \/ PausedQueue \/ Awaited
           \/ ClearTimesOut \/ AllPaused
  BY <1>2
  DEF Connect, WireEnds, PausedQueue, Awaited, ClearTimesOut, AllPaused,
      TypeOK, DiskOK
<1>3. CASE Cleanup
  <2>1. /\ \/ UNCHANGED <<temp, cleaned>>
           \/ /\ rec[target].dir = "download"
              /\ temp' = Cleaned(target, rec[target])
              /\ cleaned' = cleaned \cup {target}
           \/ /\ UNCHANGED temp
              /\ cleaned' = cleaned \cup {target}
        /\ UNCHANGED <<file, delivered>>
    BY <1>3 DEF Cleanup
  <2>2. CASE UNCHANGED temp
    BY <1>3, <2>1, <2>2 DEF TypeOK, DiskOK
  <2>3. CASE /\ rec[target].dir = "download"
             /\ temp' = Cleaned(target, rec[target]) /\ target \in Tasks
             /\ cleaned' = cleaned \cup {target}
    <3>1. rec[target] \in Record /\ rec[target].name \in Names
      BY <2>3 DEF TypeOK, TasksOK, Record
    <3> QED BY <1>3, <2>1, <2>3, <3>1, CleanedTemp DEF TypeOK, DiskOK, TempAt
  <2>4. CASE /\ temp' = Cleaned(target, rec[target]) /\ target \notin Tasks
             /\ cleaned' = cleaned \cup {target}
    <3>1. UNCHANGED temp
      BY <2>4 DEF Cleaned, TypeOK, DiskOK
    <3> QED BY <1>3, <2>1, <2>4, <3>1 DEF TypeOK, DiskOK
  <2> QED BY <2>1, <2>2, <2>3, <2>4
<1>4. CASE Leave \/ Leaves \/ Closed
  BY <1>4 DEF Leave, Leaves, Closed, TypeOK, DiskOK
<1>5. ASSUME NEW t \in Tasks, PauseStale(t) \/ Reap(t) \/ Start(t)
      PROVE  UNCHANGED disk
  BY <1>5 DEF PauseStale, Reap, Start
<1>6. ASSUME NEW t \in Tasks, Add(t) \/ Pause(t) \/ Cancel(t)
      PROVE  UNCHANGED disk
  BY <1>6 DEF Add, Pause, Cancel
<1>7. CASE PauseAll \/ ClearCompleted \/ Release \/ Restart \/ \E S : Resume(S)
  BY <1>7
  DEF PauseAll, ClearCompleted, Release, Restart, Resume, TypeOK, DiskOK
<1>8. UNCHANGED disk => DiskOK'
  BY DEF TypeOK, DiskOK
<1> QED
  BY <1>1, <1>2, <1>3, <1>4, <1>5, <1>6, <1>7, <1>8 DEF Service, Loop, User

LEMMA TypeNext == TypeOK /\ [Next]_vars => TypeOK'
<1> SUFFICES ASSUME TypeOK, [Next]_vars PROVE TypeOK'
  OBVIOUS
<1>1. ASSUME NEW t \in Tasks, Worker(t) \/ StepFails(t) PROVE TypeOK'
  <2>1. UNCHANGED <<service, host, stop, runs>>
    BY <1>1, WorkerFrame
  <2>2. TasksOK'
    BY <1>1, <2>1, WorkerMoves DEF TypeOK, TasksOK, Moves, Only
  <2>3. toHost' \in [Tasks -> Seq(Message)]
    BY <1>1, WorkerSends DEF Sends, Adds
  <2>4. toCtl' \in [Tasks -> Seq(Message)]
    BY <1>1, WorkerTakes DEF Adds
  <2>5. ServiceOK' /\ HostOK'
    BY <2>1 DEF TypeOK, ServiceOK, HostOK
  <2>6. DiskOK'
    BY <1>1, WorkerDisk
  <2> QED BY <2>2, <2>3, <2>4, <2>5, <2>6 DEF TypeOK, LinkOK
<1>2. ASSUME NEW t \in Tasks, Host(t) \/ HostFails(t) PROVE TypeOK'
  <2>1. UNCHANGED <<tasks, service>>
    BY <1>2, HostFrame
  <2>2. HostOK'
    BY <1>2, HostSteps DEF TypeOK, HostOK, HostMoves, Only
  <2>3. toHost' \in [Tasks -> Seq(Message)]
    BY <1>2, HostSteps DEF Adds
  <2>4. toCtl' \in [Tasks -> Seq(Message)]
    BY <1>2, HostTells DEF Told, Adds
  <2>5. TasksOK' /\ ServiceOK'
    BY <2>1 DEF TypeOK, ServiceOK, TasksOK
  <2>6. DiskOK'
    BY <1>2, HostDisk
  <2> QED BY <2>2, <2>3, <2>4, <2>5, <2>6 DEF TypeOK, LinkOK
<1>3. CASE Service
  <2>1. HostOK'
    <3>1. NoHostRecord \in HostRecord /\ "none" \in HostAt /\ 0 \in Int
      BY DEF NoHostRecord, HostRecord, HostAt, Partials, Names
    <3> QED BY <1>3, <3>1, ServiceHost DEF TypeOK, HostOK
  <2> QED BY <1>3, <2>1, ServiceTasks, ServiceStale, ServiceLink, ServiceTemp
       DEF TypeOK
<1>4. CASE UNCHANGED vars
  BY <1>4
  DEF vars, TypeOK, TasksOK, ServiceOK, LinkOK, HostOK, DiskOK
<1> QED BY <1>1, <1>2, <1>3, <1>4, NextParties

(***************************************************************************)
(* Types: messages, records and jobs are what their readers take them for, *)
(* and a name in a record is one of those a file may have.                 *)
(***************************************************************************)
THEOREM Types == Spec => []TypeOK
  BY TypeInit, TypeNext, PTL DEF Spec

-----------------------------------------------------------------------------
(***************************************************************************)
(* Who owns a record.  A worker has its record to itself until it ended;   *)
(* the loop's commands are about tasks without a worker; the copies of the *)
(* queue the loop pauses are of tasks whose workers are stopped before they*)
(* began.                                                                  *)
(***************************************************************************)
Active(t) == pc[t] \notin {"idle", "ended"}

SameTask(r, q) == r.dir = q.dir /\ r.policy = q.policy

SameData(r, q) ==
    /\ SameTask(r, q)
    /\ r.started = q.started /\ r.partial = q.partial /\ r.name = q.name

\* Where a worker may be that was stopped before it began.
Early == {"spawned", "begin", "fail", "drain", "settle", "done", "ended"}

\* Record r, the worker's copy o, its place p.
Owned(r, o, p) ==
    /\ p \notin {"idle", "ended"} =>
         SameTask(o, r) /\ r.state \notin Final \cup {"gone", "none"}
    /\ p \in UploadAt => r.dir = "upload"
    /\ p \in DownloadAt => r.dir = "download"
    /\ p \notin {"idle", "ended", "spawned", "done", "settle"}
         => o.state = "Running"
    /\ p \in {"spawned", "begin"} => SameData(o, r)
    /\ r.state = "Queued" =>
         /\ p \in {"idle", "spawned", "settle", "ended"}
         /\ p = "settle" => SameData(o, r)
    /\ r.state # "none" => r.policy # 0

Owns(t) == Owned(rec[t], own[t], pc[t])

HasWorker(t) ==
    svc # "down" /\ rec[t].state = "Running" => Active(t) \/ t \in unsaved

TargetInv ==
    /\ svc \in {"pause", "cancel", "cleanup", "clear"} => target \in Tasks
    /\ svc \in {"cancel", "cleanup", "clear"} =>
         rec[target].state \notin {"none", "gone"}
    /\ svc \in {"cleanup", "clear"} => pc[target] = "idle"
    /\ svc = "clear" => /\ rec[target].state \notin Final
                        /\ rec[target].dir = "upload"

\* A copy about to be paused differs from its record in the state only.
CopyInv(t) ==
    t \in DOMAIN stale =>
        /\ SameData(stale[t], rec[t]) /\ rec[t].policy # 0
        /\ pc[t] # "idle" => t \in stop /\ pc[t] \in Early
        /\ Active(t) => SameData(own[t], rec[t])

StaleInv ==
    /\ DOMAIN stale # {} => svc \in {"pausing", "leaving"}
    /\ quit /\ svc # "down" => Running \subseteq stop

Ownership ==
    /\ \A t \in Tasks : Owns(t) /\ HasWorker(t) /\ CopyInv(t)
    /\ TargetInv /\ StaleInv

-----------------------------------------------------------------------------
\* What a step of a worker makes of its record, its copy and its place.
Turn(t) ==
    LET r == rec[t]  o == own[t]  q == rec'[t]  c == own'[t]
        p == pc[t]   n == pc'[t]
    IN  \/ /\ p = "spawned" /\ n \in {"begin", "settle"}
           /\ c = o \/ c = [o EXCEPT !.state = "Running"]
           /\ q = r \/ q = [o EXCEPT !.state = "Running"]
           /\ n = "begin" => q = c /\ c.state = "Running"
           /\ n = "settle" => q = r
        \/ /\ p = "begin" /\ q = r
           /\ \/ c = o /\ n \in {"done", "fail"}
              \/ c = [o EXCEPT !.state = "Skipped"] /\ n = "done"
              \/ /\ c = o /\ t \notin stop /\ n \in {"exists", "asked", "wait_init"}
                 /\ n \in UploadAt <=> o.dir = "upload"
        \/ /\ p \in Waits \cup {"asked", "prepared", "renamed", "renaming"}
           /\ n = "fail"
           /\ SameTask(c, o) /\ c.state = o.state
           /\ q = r \/ q = c
        \/ /\ p \in UploadAt \cup {"wait_init"} /\ o.dir = "upload"
           /\ n \in UploadAt \cup {"wait_init", "done"}
           /\ SameTask(c, o) /\ c.state \in {o.state, "Skipped"}
           /\ \/ q = r
              \/ q = c /\ c.state = o.state
           /\ n # "done" => c.state = o.state
        \/ /\ p \in DownloadAt \cup {"wait_init"} /\ o.dir = "download"
           /\ n \in DownloadAt \cup {"done"}
           /\ SameTask(c, o) /\ c.state = o.state
           /\ q = r \/ q = c
        \/ /\ p \in {"fail", "drain"} /\ n \in {"drain", "settle"}
           /\ c = o /\ q = r
        \/ /\ p \in {"done", "settle"} /\ n = "ended"
           /\ \/ /\ q = [o EXCEPT !.state = Outcome(t)]
                 /\ t \notin unsaved'
              \/ q = r /\ t \in unsaved'

LEMMA SaveTurn ==
  ASSUME TasksOK, NEW t \in Tasks, NEW r, NEW label, NEW send,
         SaveThen(t, r, label, send)
  PROVE  /\ own'[t] = r
         /\ \/ rec'[t] = r /\ pc'[t] = label
            \/ rec'[t] \in {rec[t], r} /\ pc'[t] = "fail"
  BY DEF SaveThen, Keep, Goto, TasksOK

LEMMA WorkerTurn ==
  ASSUME TypeOK, NEW t \in Tasks, Owns(t), Worker(t) \/ StepFails(t)
  PROVE  Turn(t)
<1> USE DEF TypeOK, TasksOK
<1>0. own[t] \in Record /\ rec[t] \in Record
  OBVIOUS
<1>a. own[t].dir \in {"upload", "download"} /\ SameTask(own[t], own[t])
  BY <1>0 DEF Record, SameTask
<1>b. pc[t] \in UploadAt => own[t].dir = "upload"
  BY DEF Owns, Owned, SameTask, UploadAt
<1>c. pc[t] \in DownloadAt => own[t].dir = "download"
  BY DEF Owns, Owned, SameTask, DownloadAt
<1>1. ASSUME Register(t) PROVE Turn(t)
  <2> DEFINE r == [own[t] EXCEPT !.state = "Running"]
  <2>1. r.state = "Running"
    BY <1>0 DEF Record
  <2>2. /\ pc[t] = "spawned"
        /\ \/ rec'[t] = r /\ own'[t] = r /\ pc'[t] = "begin"
           \/ /\ rec'[t] = rec[t] /\ own'[t] \in {r, own[t]}
              /\ pc'[t] = "settle"
    BY <1>1 DEF Register, Goto, Keep
  <2> HIDE DEF r
  <2>3. \/ rec'[t] = r /\ own'[t] = r /\ pc'[t] = "begin"
        \/ rec'[t] = rec[t] /\ own'[t] = own[t] /\ pc'[t] = "settle"
        \/ rec'[t] = rec[t] /\ own'[t] = r /\ pc'[t] = "settle"
    BY <2>2
  <2> QED BY <2>1, <2>2, <2>3, Zenon DEF Turn, r
<1>2. ASSUME BeginUpload(t) PROVE Turn(t)
  <2>1. /\ pc[t] = "begin" /\ rec'[t] = rec[t] /\ own'[t] = own[t]
        /\ own[t].dir = "upload"
        /\ \/ pc'[t] \in {"done", "fail"}
           \/ pc'[t] \in {"exists", "asked"} /\ t \notin stop
    BY <1>2 DEF BeginUpload, Request, CanSend, Goto
  <2> QED BY <2>1 DEF Turn, UploadAt
<1>3. ASSUME SaveStarted(t) PROVE Turn(t)
  <2>1. SaveThen(t, [own[t] EXCEPT !.started = TRUE], "wait_init", <<>>) /\ pc[t] = "asked"
    BY <1>3 DEF SaveStarted
  <2>2. SameTask(own'[t], own[t]) /\ own'[t].state = own[t].state
    <3>1. own'[t] = [own[t] EXCEPT !.started = TRUE]
      BY <2>1, SaveTurn
    <3> QED BY <1>0, <3>1 DEF SameTask, Record
  <2>3. \/ rec'[t] = own'[t] /\ pc'[t] = "wait_init"
        \/ rec'[t] \in {rec[t], own'[t]} /\ pc'[t] = "fail"
    BY <2>1, SaveTurn
  <2> QED BY <1>b, <2>1, <2>2, <2>3 DEF Turn, UploadAt
<1>4. ASSUME NEW i, NameChecked(t, i) PROVE Turn(t)
  <2>1. /\ pc[t] = "exists" /\ rec'[t] = rec[t]
        /\ \/ own'[t] = own[t] /\ pc'[t] \in {"asked", "fail"}
           \/ /\ own'[t] = [own[t] EXCEPT !.state = "Skipped"]
              /\ pc'[t] = "done"
    BY <1>4 DEF NameChecked, Got, Keep, Request, Goto
  <2>2. SameTask(own'[t], own[t]) /\ own'[t].state \in {own[t].state, "Skipped"}
    BY <1>0, <2>1 DEF SameTask, Record
  <2> QED BY <1>b, <2>1, <2>2 DEF Turn, UploadAt, Waits
<1>5. ASSUME NEW i, ReceiveAnswered(t, i) PROVE Turn(t)
  <2>1. /\ pc[t] = "wait_init" /\ own[t].dir = "upload" /\ rec'[t] = rec[t]
        /\ \/ pc'[t] = "fail"
           \/ pc'[t] = "wait_confirm" /\ own'[t] = own[t]
    BY <1>5 DEF ReceiveAnswered, Got, Request, Goto
  <2>2. own'[t] = own[t] \/ \E s : own'[t] = [own[t] EXCEPT !.started = s]
    <3> DEFINE s(m) == own[t].started /\ ~(m.kind = "response" /\ m.arg \in {4, 8, 12})
    <3>1. \/ UNCHANGED own
          \/ own' = [own EXCEPT ![t] =
                        [own[t] EXCEPT !.started = s(toCtl[t][i])]]
      BY <1>5 DEF ReceiveAnswered, Keep
    <3> HIDE DEF s
    <3> QED BY <3>1
  <2>3. SameTask(own'[t], own[t]) /\ own'[t].state = own[t].state
    BY <1>0, <2>2 DEF SameTask, Record
  <2> QED BY <2>1, <2>3 DEF Turn, UploadAt, Waits
<1>6. ASSUME NEW i, FileConfirmed(t, i) PROVE Turn(t)
  <2>0. pc[t] = "wait_confirm" /\ own[t].dir = "upload"
    BY <1>b, <1>6 DEF FileConfirmed, Got, UploadAt
  <2>1. CASE toCtl[t][i].kind # "confirm" \/ toCtl[t][i].arg # Skip
    <3>1. /\ rec'[t] = rec[t] /\ own'[t] = own[t]
          /\ pc'[t] \in {"fail", "wait_result", "wait_ack"}
      BY <1>6, <2>1 DEF FileConfirmed, Request, Goto
    <3> QED BY <1>a, <2>0, <3>1 DEF Turn, UploadAt, Waits
  <2>2. CASE toCtl[t][i].kind = "confirm" /\ toCtl[t][i].arg = Skip
    <3>1. SaveThen(t, [own[t] EXCEPT !.partial = "skipped"], "done",
                   <<Msg("finish", runs[t], 1)>>)
      BY <1>6, <2>2 DEF FileConfirmed
    <3>2. SameTask(own'[t], own[t]) /\ own'[t].state = own[t].state
      <4>1. own'[t] = [own[t] EXCEPT !.partial = "skipped"]
        BY <3>1, SaveTurn
      <4> QED BY <1>0, <4>1 DEF SameTask, Record
    <3>3. \/ rec'[t] = own'[t] /\ pc'[t] = "done"
          \/ rec'[t] \in {rec[t], own'[t]} /\ pc'[t] = "fail"
      BY <3>1, SaveTurn
    <3> QED BY <2>0, <3>2, <3>3 DEF Turn, UploadAt, Waits
  <2> QED BY <2>1, <2>2
<1>7. ASSUME NEW i, BlockConfirmed(t, i) PROVE Turn(t)
  BY <1>a, <1>b, <1>7
  DEF BlockConfirmed, Got, Request, Goto, Turn, UploadAt, Waits
<1>8. ASSUME NEW i, FileSaved(t, i) PROVE Turn(t)
  <2>0. pc[t] = "wait_result" /\ own[t].dir = "upload"
    BY <1>b, <1>8 DEF FileSaved, Got, UploadAt
  <2>1. CASE ResultOk(toCtl[t][i])
    <3>1. SaveThen(t, [own[t] EXCEPT !.partial = "done"], "done",
                   <<Msg("finish", runs[t], 1)>>)
      BY <1>8, <2>1 DEF FileSaved
    <3>2. SameTask(own'[t], own[t]) /\ own'[t].state = own[t].state
      <4>1. own'[t] = [own[t] EXCEPT !.partial = "done"]
        BY <3>1, SaveTurn
      <4> QED BY <1>0, <4>1 DEF SameTask, Record
    <3>3. \/ rec'[t] = own'[t] /\ pc'[t] = "done"
          \/ rec'[t] \in {rec[t], own'[t]} /\ pc'[t] = "fail"
      BY <3>1, SaveTurn
    <3> QED BY <2>0, <3>2, <3>3 DEF Turn, UploadAt, Waits
  <2>2. CASE ~ResultOk(toCtl[t][i])
    BY <1>a, <1>8, <2>0, <2>2 DEF FileSaved, Goto, Turn, Waits
  <2> QED BY <2>1, <2>2
<1>9. ASSUME BeginDownload(t) PROVE Turn(t)
  BY <1>9 DEF BeginDownload, Keep, Request, CanSend, Goto, Turn, UploadAt
<1>10. ASSUME NEW i, SendAnswered(t, i) PROVE Turn(t)
  <2>0. pc[t] = "wait_init" /\ own[t].dir = "download"
    BY <1>10 DEF SendAnswered, Got
  <2>1. CASE toCtl[t][i].kind = "response" /\ toCtl[t][i].arg = 1
    <3>1. SaveThen(t, [own[t] EXCEPT !.started = TRUE], "receive", <<>>)
      BY <1>10, <2>1 DEF SendAnswered
    <3>2. SameTask(own'[t], own[t]) /\ own'[t].state = own[t].state
      <4>1. own'[t] = [own[t] EXCEPT !.started = TRUE]
        BY <3>1, SaveTurn
      <4> QED BY <1>0, <4>1 DEF SameTask, Record
    <3>3. \/ rec'[t] = own'[t] /\ pc'[t] = "receive"
          \/ rec'[t] \in {rec[t], own'[t]} /\ pc'[t] = "fail"
      BY <3>1, SaveTurn
    <3> QED BY <2>0, <3>2, <3>3 DEF Turn, DownloadAt, Waits
  <2>2. CASE ~(toCtl[t][i].kind = "response" /\ toCtl[t][i].arg = 1)
    BY <1>a, <1>10, <2>0, <2>2 DEF SendAnswered, Goto, Turn, Waits
  <2> QED BY <2>1, <2>2
<1>11. ASSUME NEW i, FileAsked(t, i) PROVE Turn(t)
  <2>0. pc[t] = "receive" /\ own[t].dir = "download" /\ rec'[t] = rec[t]
    BY <1>c, <1>11 DEF FileAsked, Got, DownloadAt
  <2>1. CASE PrepareFails(t, own[t], "here") \/ toCtl[t][i].kind # "ask"
    BY <1>a, <1>11, <2>0, <2>1 DEF FileAsked, Goto, Turn, Waits
  <2>2. CASE ~PrepareFails(t, own[t], "here") /\ toCtl[t][i].kind = "ask"
    <3>1. own'[t] = Prepared(own[t], "here") /\ pc'[t] = "prepared"
      BY <1>11, <2>2 DEF FileAsked, Keep, Goto
    <3>2. SameTask(own'[t], own[t]) /\ own'[t].state = own[t].state
      BY <1>0, <2>2, <3>1, PreparedRecord DEF SameTask
    <3> QED BY <2>0, <3>1, <3>2 DEF Turn, DownloadAt
  <2> QED BY <2>1, <2>2
<1>12. ASSUME SavePrepared(t) \/ SaveRenamed(t) PROVE Turn(t)
  <2>1. /\ pc[t] \in {"prepared", "renamed"}
        /\ \E send : \E label \in {"open", "complete"} :
              SaveThen(t, own[t], label, send)
    BY <1>12 DEF SavePrepared, SaveRenamed
  <2>2. /\ own'[t] = own[t]
        /\ \/ rec'[t] = own[t] /\ pc'[t] \in {"open", "complete"}
           \/ rec'[t] \in {rec[t], own[t]} /\ pc'[t] = "fail"
    BY <2>1, SaveTurn
  <2> QED BY <1>a, <1>c, <2>1, <2>2 DEF Turn, DownloadAt
<1>13. ASSUME NEW i, BlockReceived(t, i) \/ FileCompleted(t, i) \/ AllReceived(t, i)
       PROVE  Turn(t)
  <2>1. /\ pc[t] \in {"open", "complete"} /\ rec'[t] = rec[t]
        /\ own'[t] = own[t]
        /\ pc'[t] \in {"open", "renaming", "done", "fail"}
    BY <1>13
    DEF BlockReceived, FileCompleted, AllReceived, Got, Request, Goto
  <2> QED BY <1>a, <1>c, <2>1 DEF Turn, DownloadAt, Waits
<1>14. ASSUME Rename(t) PROVE Turn(t)
  <2>1. /\ pc[t] = "renaming" /\ pc'[t] = "renamed" /\ rec'[t] = rec[t]
        /\ own'[t] = [own[t] EXCEPT !.partial = "done"]
    BY <1>14 DEF Rename, Keep, Goto
  <2>2. SameTask(own'[t], own[t]) /\ own'[t].state = own[t].state
    BY <1>0, <2>1 DEF SameTask, Record
  <2> QED BY <1>c, <2>1, <2>2 DEF Turn, DownloadAt
<1>15. ASSUME WaitStops(t) \/ StepFails(t) PROVE Turn(t)
  BY <1>a, <1>15 DEF WaitStops, StepFails, Goto, Turn
<1>16. ASSUME Fail(t) \/ Drain(t) PROVE Turn(t)
  BY <1>16 DEF Fail, Drain, Goto, Turn
<1>17. ASSUME Settle(t) PROVE Turn(t)
  BY <1>17 DEF Settle, Goto, Turn
<1> HIDE DEF TypeOK, TasksOK
<1> QED
  BY <1>1, <1>2, <1>3, <1>4, <1>5, <1>6, <1>7, <1>8, <1>9, <1>10, <1>11,
     <1>12, <1>13, <1>14, <1>15, <1>16, <1>17
  DEF Worker, Upload, Download


\* What a worker's step leaves true of its task.
Fits(t) ==
    /\ pc'[t] # "idle" /\ SameTask(rec'[t], rec[t])
    /\ rec'[t].state \notin {"none", "gone"}
    /\ pc'[t] = "ended" /\ rec'[t].state = "Running" => t \in unsaved'
    /\ t \in stop /\ pc[t] \in Early /\ SameData(own[t], rec[t]) =>
         /\ pc'[t] \in Early /\ SameData(rec'[t], rec[t])
         /\ pc'[t] # "ended" => SameData(own'[t], rec'[t])

LEMMA WorkerOwns ==
  ASSUME TypeOK, NEW t \in Tasks, Owns(t), Worker(t) \/ StepFails(t)
  PROVE  Owns(t)' /\ Active(t) /\ Fits(t)
<1>0. /\ own[t] \in Record /\ rec[t] \in Record /\ Turn(t)
      /\ pc[t] \in WorkerAt
  BY WorkerTurn DEF TypeOK, TasksOK
<1> DEFINE r == rec[t]  o == own[t]  q == rec'[t]  c == own'[t]
           p == pc[t]   n == pc'[t]
           changed == [o EXCEPT !.state = "Running"]
           skipped == [o EXCEPT !.state = "Skipped"]
           settled == [o EXCEPT !.state = Outcome(t)]
<1>1. /\ SameData(changed, o) /\ changed.state = "Running"
      /\ SameData(skipped, o) /\ skipped.state = "Skipped"
      /\ SameData(settled, o) /\ settled.state = Outcome(t)
      /\ SameData(o, o) /\ SameData(r, r)
      /\ Outcome(t) \in {"Skipped", "Done", "Paused", "Failed"}
  BY <1>0 DEF Record, SameData, SameTask, Outcome
<1>2. Owned(r, o, p)
  BY DEF Owns
<1>3. Active(t)
  BY <1>0 DEF Turn, Active, Waits, UploadAt, DownloadAt
<1>4. SameTask(o, r) /\ r.state \notin Final \cup {"gone", "none"} /\ r.policy # 0
  BY <1>2, <1>3 DEF Owned, Active
<1> HIDE DEF changed, skipped, settled
<1>5. Owned(q, c, n) /\ Fits(t)
  <2>1. CASE /\ p = "spawned" /\ n \in {"begin", "settle"}
             /\ c = o \/ c = changed
             /\ q = r \/ q = changed
             /\ n = "begin" => q = c /\ c.state = "Running"
             /\ n = "settle" => q = r
    BY <1>1, <1>2, <1>4, <2>1
    DEF Owned, Fits, Early, SameTask, SameData, UploadAt, DownloadAt, Final
  <2>2. CASE /\ p = "begin" /\ q = r
             /\ \/ c = o /\ n \in {"done", "fail"}
                \/ c = skipped /\ n = "done"
                \/ /\ c = o /\ t \notin stop /\ n \in {"exists", "asked", "wait_init"}
                   /\ n \in UploadAt <=> o.dir = "upload"
    BY <1>1, <1>2, <1>4, <2>2
    DEF Owned, Fits, Early, SameTask, SameData, UploadAt, DownloadAt, Final
  <2>3. CASE /\ p \in Waits \cup {"asked", "prepared", "renamed", "renaming"}
             /\ n = "fail"
             /\ SameTask(c, o) /\ c.state = o.state
             /\ q = r \/ q = c
    BY <1>1, <1>2, <1>4, <2>3
    DEF Owned, Fits, Early, SameTask, SameData, UploadAt, DownloadAt, Final, Waits
  <2>4. CASE /\ p \in UploadAt \cup {"wait_init"} /\ o.dir = "upload"
             /\ n \in UploadAt \cup {"wait_init", "done"}
             /\ SameTask(c, o) /\ c.state \in {o.state, "Skipped"}
             /\ \/ q = r
                \/ q = c /\ c.state = o.state
             /\ n # "done" => c.state = o.state
    <3>1. p \notin Early /\ o.state = "Running" /\ n \notin {"idle", "ended"}
      BY <1>2, <2>4 DEF Owned, Early, UploadAt, DownloadAt
    <3>2. Owned(q, c, n)
      BY <1>2, <1>4, <2>4, <3>1
      DEF Owned, SameTask, UploadAt, DownloadAt, Final
    <3>3. Fits(t)
      BY <1>2, <1>4, <2>4, <3>1 DEF Fits, SameTask
    <3> QED BY <3>2, <3>3
  <2>5. CASE /\ p \in DownloadAt \cup {"wait_init"} /\ o.dir = "download"
             /\ n \in DownloadAt \cup {"done"}
             /\ SameTask(c, o) /\ c.state = o.state
             /\ q = r \/ q = c
    <3>1. p \notin Early /\ o.state = "Running" /\ n \notin {"idle", "ended"}
      BY <1>2, <2>5 DEF Owned, Early, UploadAt, DownloadAt
    <3>2. Owned(q, c, n)
      BY <1>2, <1>4, <2>5, <3>1
      DEF Owned, SameTask, UploadAt, DownloadAt, Final
    <3>3. Fits(t)
      BY <1>2, <1>4, <2>5, <3>1 DEF Fits, SameTask
    <3> QED BY <3>2, <3>3
  <2>6. CASE /\ p \in {"fail", "drain"} /\ n \in {"drain", "settle"}
             /\ c = o /\ q = r
    BY <1>1, <1>2, <1>4, <2>6
    DEF Owned, Fits, Early, SameTask, SameData, UploadAt, DownloadAt, Final
  <2>7. CASE /\ p \in {"done", "settle"} /\ n = "ended"
             /\ \/ /\ q = settled
                   /\ t \notin unsaved'
                \/ q = r /\ t \in unsaved'
    BY <1>1, <1>2, <1>4, <2>7
    DEF Owned, Fits, Early, SameTask, SameData, UploadAt, DownloadAt, Final
  <2> QED
    BY <1>0, <2>1, <2>2, <2>3, <2>4, <2>5, <2>6, <2>7
    DEF Turn, changed, skipped, settled
<1> QED BY <1>3, <1>5 DEF Owns

LEMMA WorkerFrameAll ==
  ASSUME TypeOK, NEW t \in Tasks, Worker(t) \/ StepFails(t),
         NEW u \in Tasks \ {t}
  PROVE  /\ rec'[u] = rec[u] /\ own'[u] = own[u] /\ pc'[u] = pc[u]
         /\ u \in unsaved' <=> u \in unsaved
<1>1. rec'[u] = rec[u] /\ own'[u] = own[u] /\ pc'[u] = pc[u]
  BY WorkerMoves DEF TypeOK, TasksOK, Moves, Only
<1>2. UNCHANGED unsaved \/ Settle(t)
  <2>1. CASE \/ Register(t) \/ WaitStops(t) \/ Fail(t) \/ Drain(t)
             \/ StepFails(t)
    BY <2>1 DEF Register, WaitStops, Fail, Drain, StepFails
  <2>2. CASE BeginUpload(t) \/ SaveStarted(t)
    BY <2>2 DEF BeginUpload, SaveStarted
  <2>3. CASE BeginDownload(t) \/ SavePrepared(t) \/ Rename(t) \/ SaveRenamed(t)
    BY <2>3 DEF BeginDownload, SavePrepared, Rename, SaveRenamed
  <2>4. ASSUME NEW i,
               \/ NameChecked(t, i) \/ ReceiveAnswered(t, i)
               \/ FileConfirmed(t, i) \/ BlockConfirmed(t, i)
               \/ FileSaved(t, i)
        PROVE  UNCHANGED unsaved
    BY <2>4
    DEF NameChecked, ReceiveAnswered, FileConfirmed, BlockConfirmed, FileSaved
  <2>5. ASSUME NEW i,
               \/ SendAnswered(t, i) \/ FileAsked(t, i) \/ BlockReceived(t, i)
               \/ FileCompleted(t, i) \/ AllReceived(t, i)
        PROVE  UNCHANGED unsaved
    BY <2>5
    DEF SendAnswered, FileAsked, BlockReceived, FileCompleted, AllReceived
  <2> QED BY <2>1, <2>2, <2>3, <2>4, <2>5 DEF Worker, Upload, Download
<1>3. u \in unsaved' <=> u \in unsaved
  BY <1>2 DEF Settle
<1> QED BY <1>1, <1>3

LEMMA WorkerOwnership ==
  ASSUME TypeOK, Ownership, NEW t \in Tasks, Worker(t) \/ StepFails(t)
  PROVE  Ownership'
<1>1. Owns(t)' /\ Active(t) /\ Fits(t)
  BY WorkerOwns DEF Ownership
<1>2. UNCHANGED <<svc, target, stale, quit, stop>>
  BY WorkerFrame
<1>3. ASSUME NEW u \in Tasks \ {t} PROVE (Owns(u) /\ HasWorker(u) /\ CopyInv(u))'
  BY <1>2, <1>3, WorkerFrameAll DEF Ownership, Owns, HasWorker, CopyInv, Active
<1>4. HasWorker(t)'
  BY <1>1 DEF Fits, HasWorker, Active
<1>5. CopyInv(t)'
  <2>1. SUFFICES ASSUME t \in DOMAIN stale PROVE CopyInv(t)'
    BY <1>2 DEF CopyInv
  <2>2. /\ SameData(stale[t], rec[t]) /\ rec[t].policy # 0
        /\ t \in stop /\ pc[t] \in Early
        /\ SameData(own[t], rec[t])
    BY <1>1, <2>1 DEF Ownership, CopyInv, Active
  <2> QED BY <1>1, <1>2, <2>2
          DEF Fits, CopyInv, Active, SameData, SameTask
<1>6. TargetInv'
  <2>1. svc \in {"cleanup", "clear"} => target # t
    BY <1>1 DEF Active, Ownership, TargetInv
  <2>2. svc \in {"pause", "cancel", "cleanup", "clear"} => target \in Tasks
    BY DEF Ownership, TargetInv
  <2>3. svc \in {"pause", "cancel", "cleanup", "clear"} /\ target # t =>
          rec'[target] = rec[target] /\ pc'[target] = pc[target]
    BY <2>2, WorkerFrameAll
  <2> QED BY <1>1, <1>2, <2>1, <2>2, <2>3 DEF Ownership, TargetInv, Fits
<1>7. StaleInv'
  <2>1. Running' \subseteq Running
    <3>1. t \in Running
      BY <1>1 DEF Active, Running
    <3> QED BY <3>1, WorkerFrameAll DEF Running
  <2> QED BY <1>2, <2>1 DEF Ownership, StaleInv
<1> QED BY <1>1, <1>3, <1>4, <1>5, <1>6, <1>7 DEF Ownership

-----------------------------------------------------------------------------
(* What the loop, the user and failures leave of it.                        *)

\* The tasks of S get state x, nothing else changes in a record.
Restated(S, x) ==
    \A u \in Tasks :
        /\ u \in S => SameData(rec'[u], rec[u]) /\ rec'[u].state = x
        /\ u \notin S => rec'[u] = rec[u]

LEMMA RestatedBy ==
  ASSUME TasksOK, NEW S, NEW x, rec' = WithState(S, x)
  PROVE  Restated(S, x)
<1> SUFFICES ASSUME NEW u \in Tasks
             PROVE  /\ u \in S => SameData(rec'[u], rec[u]) /\ rec'[u].state = x
                    /\ u \notin S => rec'[u] = rec[u]
  BY DEF Restated
<1>1. rec[u] \in Record
  BY DEF TasksOK
<1>2. CASE u \in S
  <2>1. rec'[u] = [rec[u] EXCEPT !.state = x]
    BY <1>2 DEF WithState
  <2> QED BY <1>1, <1>2, <2>1 DEF SameData, SameTask, Record
<1>3. CASE u \notin S
  BY <1>3 DEF WithState
<1> QED BY <1>2, <1>3

LEMMA RestatedCancelled ==
  ASSUME TasksOK, SaveCancelled
  PROVE  Restated({target}, "Cancelled") \/ UNCHANGED rec
  BY RestatedBy DEF SaveCancelled

LEMMA SameDataHolds ==
  /\ \A r : SameData(r, r)
  /\ \A r, q, o : SameData(q, r) /\ SameData(o, r) => SameData(o, q)
  BY DEF SameData, SameTask

\* Records, workers and copies stay.
LEMMA OwnershipStays ==
  ASSUME TypeOK, Ownership, UNCHANGED <<rec, own, pc, stale, unsaved>>,
         stop \subseteq stop', svc' = "down" \/ svc # "down",
         TargetInv', StaleInv'
  PROVE  Ownership'
  BY DEF Ownership, Owns, HasWorker, CopyInv, Active

LEMMA QueueTaken ==
  ASSUME TypeOK, Ownership, UNCHANGED <<rec, own, pc, unsaved, target, quit>>,
         svc = "loop", svc' \in {"pausing", "leaving"},
         stop \subseteq stop', Running \subseteq stop',
         stale' = [t \in Queued |-> rec[t]]
  PROVE  Ownership'
<1>1. ASSUME NEW u \in Tasks PROVE (Owns(u) /\ HasWorker(u) /\ CopyInv(u))'
  <2>1. Owns(u)' /\ HasWorker(u)'
    BY DEF Ownership, Owns, HasWorker, Active
  <2>2. ASSUME u \in DOMAIN stale' PROVE CopyInv(u)'
    <3>1. rec[u].state = "Queued" /\ stale'[u] = rec[u]
      BY <2>2 DEF Queued
    <3>2. pc[u] # "idle" => u \in stop'
      BY DEF Running
    <3>3. Owned(rec[u], own[u], pc[u])
      BY DEF Ownership, Owns
    <3> QED BY <3>1, <3>2, <3>3
            DEF Owned, CopyInv, Active, SameData, SameTask, Early
  <2> QED BY <2>1, <2>2 DEF CopyInv
<1>2. TargetInv'
  BY DEF Ownership, TargetInv
<1>3. StaleInv'
  BY DEF Ownership, StaleInv, Running
<1> QED BY <1>1, <1>2, <1>3 DEF Ownership

LEMMA ConnectionOwnership ==
  ASSUME TypeOK, Ownership,
         \/ Connect \/ WireEnds \/ Disallowed \/ PausedQueue \/ Leave
         \/ Leaves \/ Release \/ PauseAll \/ Quit \/ LinkLost \/ HostCrash
  PROVE  Ownership'
<1>1. CASE Connect \/ Release
  <2>1. UNCHANGED <<svc, rec, own, pc, stop, stale, unsaved, target, quit>>
    BY <1>1 DEF Connect, Release
  <2>2. TargetInv' /\ StaleInv'
    BY <2>1 DEF Ownership, TargetInv, StaleInv, Running
  <2>3. svc # "down"
    BY <1>1 DEF Connect, Release, Command, Looks
  <2> QED BY <2>1, <2>2, <2>3, OwnershipStays
<1>2. CASE WireEnds \/ Disallowed
  BY <1>2, QueueTaken DEF WireEnds, Disallowed
<1>3. CASE Leave
  <2>1. Running \subseteq stop
    BY <1>3 DEF Leave, Ownership, StaleInv
  <2> QED BY <1>3, <2>1, QueueTaken DEF Leave
<1>4. CASE PausedQueue \/ Leaves
  <2>1. /\ UNCHANGED <<rec, own, pc, stop, stale, unsaved, target, quit>>
        /\ stale = <<>> /\ svc # "down" /\ svc' \in {"loop", "closing"}
    BY <1>4 DEF PausedQueue, Leaves
  <2>2. TargetInv' /\ StaleInv'
    BY <2>1 DEF Ownership, TargetInv, StaleInv, Running
  <2> QED BY <2>1, <2>2, OwnershipStays
<1>5. CASE PauseAll
  <2>1. /\ UNCHANGED <<rec, own, pc, stale, unsaved, target, quit>>
        /\ stop \subseteq stop' /\ svc = "loop" /\ svc' = "pauseall"
    BY <1>5 DEF PauseAll, Command, Looks
  <2>2. TargetInv' /\ StaleInv'
    BY <2>1 DEF Ownership, TargetInv, StaleInv, Running
  <2> QED BY <2>1, <2>2, OwnershipStays
<1>6. CASE Quit \/ LinkLost \/ HostCrash
  <2>1. /\ UNCHANGED <<svc, rec, own, pc, stale, unsaved, target>>
        /\ stop \subseteq stop'
        /\ UNCHANGED quit \/ Running \subseteq stop'
    BY <1>6 DEF Quit, LinkLost, HostCrash
  <2>2. TargetInv' /\ StaleInv'
    BY <2>1 DEF Ownership, TargetInv, StaleInv, Running
  <2>3. ASSUME NEW u \in Tasks PROVE (Owns(u) /\ HasWorker(u) /\ CopyInv(u))'
    BY <2>1, <2>3 DEF Ownership, Owns, HasWorker, CopyInv, Active
  <2> QED BY <2>2, <2>3 DEF Ownership
<1> QED BY <1>1, <1>2, <1>3, <1>4, <1>5, <1>6

LEMMA CrashOwnership ==
  ASSUME TypeOK, Ownership, Crash
  PROVE  Ownership'
<1>1. /\ UNCHANGED rec /\ own' = [t \in Tasks |-> NoRecord]
      /\ pc' = [t \in Tasks |-> "idle"]
      /\ svc' = "down" /\ stale' = <<>> /\ quit' = FALSE
  BY DEF Crash
<1>2. ASSUME NEW u \in Tasks PROVE (Owns(u) /\ HasWorker(u) /\ CopyInv(u))'
  <2>1. pc'[u] = "idle" /\ rec'[u] = rec[u]
    BY <1>1
  <2>2. Owns(u)'
    BY <2>1 DEF Ownership, Owns, Owned, UploadAt, DownloadAt
  <2>3. DOMAIN stale' = {}
    BY <1>1
  <2> QED BY <1>1, <2>2, <2>3 DEF HasWorker, CopyInv
<1>3. TargetInv' /\ StaleInv'
  BY <1>1 DEF TargetInv, StaleInv
<1> QED BY <1>2, <1>3 DEF Ownership

\* Ended workers are taken off the list.
LEMMA EndedOwned ==
  ASSUME NEW r, NEW o, Owned(r, o, "ended")
  PROVE  Owned(r, o, "idle")
  BY DEF Owned, UploadAt, DownloadAt

LEMMA ReapedOwnership ==
  ASSUME TypeOK, Ownership,
         Awaited \/ AllPaused \/ Closed \/ \E t \in Tasks : Reap(t)
  PROVE  Ownership'
<1>1. /\ \A t \in Tasks :
           /\ \/ pc'[t] = pc[t]
              \/ pc[t] = "ended" /\ pc'[t] = "idle"
           /\ t \in stop /\ t \notin stop' => pc'[t] = "idle"
      /\ stop' \subseteq stop
      /\ UNCHANGED <<own, stale, quit, unsaved>>
      /\ svc \notin {"pausing", "leaving", "down"}
      /\ Restated(Queued, "Paused") \/ UNCHANGED rec
  <2>1. CASE AllPaused
    <3>1. Restated(Queued, "Paused") \/ UNCHANGED rec
      BY <2>1, RestatedBy DEF AllPaused, TypeOK
    <3> QED BY <2>1, <3>1 DEF AllPaused, AllEnded, Drained, Running
  <2>2. CASE Closed
    BY <2>2 DEF Closed, AllEnded, Drained, Running
  <2>3. CASE Awaited
    BY <2>3 DEF Awaited, Return, TypeOK, TasksOK
  <2>4. CASE \E t \in Tasks : Reap(t)
    BY <2>4 DEF Reap, TypeOK, TasksOK
  <2> QED BY <2>1, <2>2, <2>3, <2>4
<1>2. DOMAIN stale = {}
  BY <1>1 DEF Ownership, StaleInv
<1>3. ASSUME NEW u \in Tasks PROVE (Owns(u) /\ HasWorker(u) /\ CopyInv(u))'
  <2>1. Owned(rec[u], own[u], pc'[u])
    BY <1>1, EndedOwned DEF Ownership, Owns
  <2>2. /\ SameData(rec'[u], rec[u])
        /\ \/ rec'[u] = rec[u]
           \/ rec[u].state = "Queued" /\ rec'[u].state = "Paused"
    BY <1>1, SameDataHolds DEF Restated, Queued
  <2>3. Owns(u)'
    BY <1>1, <2>1, <2>2
    DEF Owns, Owned, SameData, SameTask, Final
  <2>4. HasWorker(u)'
    BY <1>1, <2>2 DEF Ownership, HasWorker, Active
  <2> QED BY <1>1, <1>2, <2>3, <2>4 DEF CopyInv
<1>4. TargetInv'
  <2>1. CASE AllPaused \/ Closed
    BY <2>1 DEF AllPaused, Closed, TargetInv
  <2>2. CASE Awaited
    BY <2>2 DEF Awaited, Return, TargetInv, Ownership, TypeOK, TasksOK
  <2>3. CASE \E t \in Tasks : Reap(t)
    BY <2>3 DEF Reap, TargetInv
  <2> QED BY <2>1, <2>2, <2>3
<1>5. StaleInv'
  BY <1>1, <1>2 DEF Ownership, StaleInv, Running
<1> QED BY <1>3, <1>4, <1>5 DEF Ownership

\* A record without a worker, or one that is just waiting, changes its state.
LEMMA RestatedOwnership ==
  ASSUME TypeOK, Ownership, NEW S, NEW x, Restated(S, x),
         UNCHANGED <<own, pc, stale, unsaved, quit>>,
         \A u \in Tasks \cap S :
            /\ Active(u) => x = "Paused"
            /\ x = "Queued" => pc[u] = "idle" \/ ~Active(u)
            /\ x \in {"Queued", "Paused", "Cancelled", "gone"}
            /\ rec[u].policy # 0
            /\ x = "Paused" /\ svc # "down" => rec[u].state = "Queued",
         svc' \in {"pausing", "leaving"} <=> svc \in {"pausing", "leaving"},
         svc = "down" => svc' = "down" \/ \A u \in Tasks : rec'[u].state # "Running",
         svc' = "down" => svc = "down",
         stop \subseteq stop', TargetInv', StaleInv'
  PROVE  Ownership'
<1> SUFFICES ASSUME NEW u \in Tasks PROVE (Owns(u) /\ HasWorker(u) /\ CopyInv(u))'
  BY DEF Ownership
<1>1. SameData(rec'[u], rec[u])
  BY SameDataHolds DEF Restated
<1>2. Owned(rec[u], own[u], pc[u])
  BY DEF Ownership, Owns
<1>3. Owns(u)'
  <2>1. CASE u \notin S
    BY <1>2, <2>1 DEF Restated, Owns
  <2>2. CASE u \in S
    <3>1. rec'[u].state = x /\ rec[u].policy # 0
      BY <2>2 DEF Restated
    <3>2. /\ Active(u) => x = "Paused"
          /\ x \in {"Queued", "Paused", "Cancelled", "gone"}
          /\ x = "Queued" => pc[u] \in {"idle", "ended"}
      BY <2>2 DEF Active
    <3> QED BY <1>1, <1>2, <3>1, <3>2
            DEF Owns, Owned, SameData, SameTask, Active, Final
  <2> QED BY <2>1, <2>2
<1>4. HasWorker(u)'
  <2>1. rec'[u].state = "Running" /\ svc' # "down" =>
          rec[u].state = "Running" /\ svc # "down"
    BY DEF Restated
  <2> QED BY <2>1 DEF Ownership, HasWorker, Active
<1>5. CopyInv(u)'
  <2>1. CopyInv(u)
    BY DEF Ownership
  <2> QED BY <1>1, <2>1 DEF CopyInv, SameData, SameTask, Active
<1> QED BY <1>3, <1>4, <1>5

LEMMA CommandOwnership ==
  ASSUME TypeOK, Ownership,
         \/ Cleanup \/ ClearTimesOut \/ ClearCompleted \/ Restart
         \/ \E S \in {{t} : t \in Tasks} \cup {Resumable} : Resume(S)
         \/ \E t \in Tasks : Pause(t) \/ Cancel(t) \/ Add(t)
  PROVE  Ownership'
<1>0. /\ \A t \in Tasks : Owned(rec[t], own[t], pc[t])
      /\ svc \notin {"pausing", "leaving"} => DOMAIN stale = {}
      /\ \A t \in Tasks : Active(t) => rec[t].state \notin Final \cup {"none", "gone"}
      /\ \A t \in Tasks : rec[t].state # "none" => rec[t].policy # 0
  BY DEF Ownership, Owns, Owned, StaleInv, Active
<1>1. ASSUME Cleanup \/ ClearTimesOut PROVE Ownership'
  <2>1. /\ svc \in {"cleanup", "clear"} /\ svc' \in {"loop", "clear"}
        /\ svc' = "clear" => /\ svc = "cleanup" /\ UNCHANGED <<rec, target>>
                             /\ rec[target].state \notin Final
                             /\ rec[target].dir = "upload"
        /\ UNCHANGED <<own, pc, stop, stale, unsaved, quit>>
        /\ \/ rec' = WithState({target}, "gone")
           \/ SaveCancelled
           \/ UNCHANGED rec
    BY <1>1 DEF Cleanup, ClearTimesOut, Return
  <2>2. /\ target \in Tasks /\ rec[target].state \notin {"none", "gone"}
        /\ pc[target] = "idle"
    BY <2>1 DEF Ownership, TargetInv
  <2>3. \/ Restated({target}, "gone")
        \/ Restated({target}, "Cancelled")
        \/ UNCHANGED rec
    BY <2>1, RestatedBy, RestatedCancelled DEF TypeOK
  <2>4. TargetInv'
    BY <2>1, <2>2 DEF TargetInv
  <2>5. StaleInv'
    BY <2>1 DEF Ownership, StaleInv, Running
  <2>6. CASE UNCHANGED rec
    BY <2>1, <2>4, <2>5, <2>6, OwnershipStays
  <2>7. ASSUME NEW x \in {"gone", "Cancelled"}, Restated({target}, x)
        PROVE  Ownership'
    <3>1. \A u \in Tasks \cap {target} : ~Active(u) /\ rec[u].policy # 0
      BY <1>0, <2>2 DEF Active
    <3> QED BY <2>1, <2>4, <2>5, <2>7, <3>1, RestatedOwnership
  <2> QED BY <2>3, <2>6, <2>7
<1>2. ASSUME ClearCompleted PROVE Ownership'
  <2> DEFINE S == {t \in Tasks : rec[t].state \in Final}
  <2>1. /\ UNCHANGED <<svc, own, pc, stop, stale, unsaved, quit, target>>
        /\ svc = "loop" /\ rec' = WithState(S, "gone")
    BY <1>2 DEF ClearCompleted, Command, Looks
  <2>2. \A u \in Tasks \cap S : ~Active(u) /\ rec[u].policy # 0
    BY <1>0 DEF Final
  <2> HIDE DEF S
  <2>3. Restated(S, "gone")
    BY <2>1, RestatedBy DEF TypeOK
  <2>4. TargetInv' /\ StaleInv'
    BY <2>1 DEF Ownership, TargetInv, StaleInv, Running
  <2> QED BY <2>1, <2>2, <2>3, <2>4, RestatedOwnership
<1>3. ASSUME Restart PROVE Ownership'
  <2>1. /\ UNCHANGED <<own, pc, stop, stale, unsaved, target>>
        /\ svc = "down" /\ svc' = "loop" /\ quit' = FALSE
        /\ rec' = WithState(Interrupted, "Paused")
    BY <1>3 DEF Restart
  <2>2. Restated(Interrupted, "Paused")
    BY <2>1, RestatedBy DEF TypeOK
  <2>3. \A u \in Tasks : rec'[u].state # "Running"
    BY <2>2 DEF Restated, Interrupted
  <2>4. \A u \in Tasks \cap Interrupted : rec[u].state \in {"Queued", "Running"}
    BY DEF Interrupted, Queued
  <2>5. ASSUME NEW u \in Tasks PROVE (Owns(u) /\ HasWorker(u) /\ CopyInv(u))'
    <3>1. \/ rec'[u] = rec[u]
          \/ /\ rec[u].state \in {"Queued", "Running"}
             /\ SameData(rec'[u], rec[u]) /\ rec'[u].state = "Paused"
      BY <2>2, <2>4 DEF Restated
    <3>2. Owns(u)'
      BY <1>0, <2>1, <3>1 DEF Owns, Owned, SameData, SameTask, Final
    <3>3. DOMAIN stale = {} /\ UNCHANGED stale
      BY <1>0, <2>1
    <3> QED BY <2>3, <3>2, <3>3 DEF HasWorker, CopyInv
  <2>6. TargetInv' /\ StaleInv'
    BY <1>0, <2>1 DEF TargetInv, StaleInv
  <2> QED BY <2>5, <2>6 DEF Ownership
<1>4. ASSUME NEW S \in {{t} : t \in Tasks} \cup {Resumable}, Resume(S)
      PROVE  Ownership'
  <2>1. /\ UNCHANGED <<svc, own, pc, stop, stale, unsaved, quit, target>>
        /\ svc = "loop" /\ rec' = WithState(S, "Queued") /\ S \subseteq Resumable
    BY <1>4 DEF Resume, Command, Looks
  <2>2. \A u \in Tasks \cap S : /\ ~Active(u) /\ rec[u].policy # 0
                                /\ pc[u] = "idle"
    BY <1>0, <2>1 DEF Resumable, Active
  <2>3. Restated(S, "Queued")
    BY <2>1, RestatedBy DEF TypeOK
  <2>4. TargetInv' /\ StaleInv'
    BY <2>1 DEF Ownership, TargetInv, StaleInv, Running
  <2> QED BY <2>1, <2>2, <2>3, <2>4, RestatedOwnership
<1>5. ASSUME NEW t \in Tasks, Pause(t) \/ Cancel(t), UNCHANGED rec
      PROVE  Ownership'
  <2>1. /\ UNCHANGED <<own, pc, stale, unsaved, quit>>
        /\ stop \subseteq stop' /\ svc = "loop"
        /\ \/ svc' = "pause" /\ target' = t
           \/ /\ svc' \in {"cancel", "cleanup"} /\ target' = t
              /\ svc' = "cleanup" => pc[t] = "idle"
              /\ rec[t].state \notin {"none", "gone"}
           \/ UNCHANGED <<svc, target>>
    BY <1>5 DEF Pause, Cancel, Await, Command, Looks, Running
  <2>2. TargetInv' /\ StaleInv'
    BY <1>5, <2>1 DEF Ownership, TargetInv, StaleInv, Running
  <2>3. svc # "down"
    BY <2>1
  <2> QED BY <1>5, <2>1, <2>2, <2>3, OwnershipStays
<1>6. ASSUME NEW t \in Tasks, Pause(t), ~UNCHANGED rec PROVE Ownership'
  <2>1. /\ UNCHANGED <<svc, own, pc, stop, stale, unsaved, quit, target>>
        /\ svc = "loop" /\ rec' = WithState({t}, "Paused")
        /\ rec[t].state = "Queued" /\ pc[t] = "idle"
    BY <1>6 DEF Pause, Command, Looks, Running, Queued
  <2>2. \A u \in Tasks \cap {t} : /\ ~Active(u) /\ rec[u].policy # 0
                                  /\ rec[u].state = "Queued"
    BY <1>0, <2>1 DEF Active
  <2>3. Restated({t}, "Paused")
    BY <2>1, RestatedBy DEF TypeOK
  <2>4. TargetInv' /\ StaleInv'
    BY <2>1 DEF Ownership, TargetInv, StaleInv, Running
  <2> QED BY <2>1, <2>2, <2>3, <2>4, RestatedOwnership
<1>7. ASSUME NEW t \in Tasks, Cancel(t) PROVE UNCHANGED rec
  BY <1>7 DEF Cancel
<1>8. ASSUME NEW t \in Tasks, Add(t) PROVE Ownership'
  <2>1. /\ UNCHANGED <<svc, own, pc, stop, stale, unsaved, quit, target>>
        /\ svc = "loop" /\ rec[t].state = "none" /\ rec[t].policy # 0
        /\ rec' = [rec EXCEPT ![t].state = "Queued"]
    BY <1>8 DEF Add, Looks
  <2>2. Restated({t}, "Queued")
    BY <2>1 DEF Restated, SameData, SameTask, TypeOK, TasksOK, Record
  <2>3. \A u \in Tasks \cap {t} : ~Active(u) /\ rec[u].policy # 0
    BY <1>0, <2>1
  <2>4. TargetInv' /\ StaleInv'
    BY <2>1 DEF Ownership, TargetInv, StaleInv, Running
  <2> QED BY <2>1, <2>2, <2>3, <2>4, RestatedOwnership
<1> QED BY <1>1, <1>2, <1>3, <1>4, <1>5, <1>6, <1>7, <1>8

LEMMA StartOwnership ==
  ASSUME TypeOK, Ownership, NEW t \in Tasks, Start(t)
  PROVE  Ownership'
<1>1. /\ UNCHANGED <<svc, rec, stop, stale, unsaved, quit, target>>
      /\ svc = "loop" /\ ~quit /\ rec[t].state = "Queued" /\ pc[t] = "idle"
      /\ pc'[t] = "spawned" /\ own'[t] = rec[t]
      /\ \A u \in Tasks \ {t} : pc'[u] = pc[u] /\ own'[u] = own[u]
  BY DEF Start, Looks, Queued, Running, TypeOK, TasksOK
<1>2. DOMAIN stale = {}
  BY <1>1 DEF Ownership, StaleInv
<1>3. ASSUME NEW u \in Tasks \ {t} PROVE (Owns(u) /\ HasWorker(u) /\ CopyInv(u))'
  BY <1>1, <1>2 DEF Ownership, Owns, HasWorker, CopyInv, Active
<1>4. Owns(t)'
  BY <1>1 DEF Ownership, Owns, Owned, SameData, SameTask, Final, UploadAt, DownloadAt
<1>5. (HasWorker(t) /\ CopyInv(t))'
  BY <1>1, <1>2 DEF HasWorker, CopyInv
<1>6. TargetInv' /\ StaleInv'
  BY <1>1, <1>2 DEF TargetInv, StaleInv
<1> QED BY <1>3, <1>4, <1>5, <1>6 DEF Ownership

LEMMA PauseStaleOwnership ==
  ASSUME TypeOK, Ownership, NEW t \in Tasks, PauseStale(t)
  PROVE  Ownership'
<1>1. /\ UNCHANGED <<svc, own, pc, stop, unsaved, quit, target>>
      /\ svc \in {"pausing", "leaving"} /\ t \in DOMAIN stale
      /\ \/ /\ rec' = [rec EXCEPT ![t] = [stale[t] EXCEPT !.state = "Paused"]]
            /\ stale' = Restrict(stale, DOMAIN stale \ {t})
         \/ stale' = <<>> /\ UNCHANGED rec
  BY DEF PauseStale
<1>2. TargetInv'
  BY <1>1 DEF TargetInv
<1>3. StaleInv'
  BY <1>1 DEF Ownership, StaleInv, Running
<1>4. CASE stale' = <<>> /\ UNCHANGED rec
  <2>1. DOMAIN stale' = {}
    BY <1>4
  <2> QED BY <1>1, <1>2, <1>3, <1>4, <2>1
          DEF Ownership, Owns, HasWorker, CopyInv, Active
<1>5. CASE /\ rec' = [rec EXCEPT ![t] = [stale[t] EXCEPT !.state = "Paused"]]
           /\ stale' = Restrict(stale, DOMAIN stale \ {t})
  <2>1. /\ SameData(rec'[t], rec[t]) /\ rec'[t].state = "Paused"
        /\ \A u \in Tasks \ {t} : rec'[u] = rec[u]
    <3>1. stale[t] \in Record /\ SameData(stale[t], rec[t])
      BY <1>1 DEF TypeOK, ServiceOK, Ownership, CopyInv
    <3>2. rec'[t] = [stale[t] EXCEPT !.state = "Paused"]
      BY <1>5 DEF TypeOK, TasksOK
    <3> QED BY <1>5, <3>1, <3>2 DEF SameData, SameTask, Record, TypeOK, TasksOK
  <2>2. /\ DOMAIN stale' = DOMAIN stale \ {t}
        /\ \A u \in DOMAIN stale' : stale'[u] = stale[u]
    BY <1>5 DEF Restrict
  <2>3. ASSUME NEW u \in Tasks \ {t} PROVE (Owns(u) /\ HasWorker(u) /\ CopyInv(u))'
    BY <1>1, <2>1, <2>2 DEF Ownership, Owns, HasWorker, CopyInv, Active
  <2>4. Owns(t)'
    <3>1. /\ Owned(rec[t], own[t], pc[t]) /\ rec[t].policy # 0
          /\ pc[t] # "idle" => pc[t] \in Early
          /\ Active(t) => SameData(own[t], rec[t])
      BY <1>1 DEF Ownership, Owns, CopyInv
    <3> QED BY <1>1, <2>1, <3>1
            DEF Owns, Owned, SameData, SameTask, Active, Final, UploadAt,
                DownloadAt
  <2>5. (HasWorker(t) /\ CopyInv(t))'
    BY <2>1, <2>2 DEF HasWorker, CopyInv
  <2> QED BY <1>2, <1>3, <2>3, <2>4, <2>5 DEF Ownership
<1> QED BY <1>1, <1>4, <1>5

LEMMA OwnershipInit == Init => Ownership
<1> SUFFICES ASSUME Init PROVE Ownership
  OBVIOUS
<1>1. /\ \A t \in Tasks : rec[t].state = "none" /\ pc[t] = "idle"
      /\ svc = "loop" /\ quit = FALSE
  <2>1. pc = [t \in Tasks |-> "idle"] /\ svc = "loop" /\ quit = FALSE
    BY DEF Init
  <2>2. PICK plan \in Plans :
          rec = [t \in Tasks |->
                   [NoRecord EXCEPT !.dir = plan.tasks[t].dir,
                                    !.policy = plan.tasks[t].policy]]
    BY DEF Init
  <2>3. \A t \in Tasks : rec[t].state = "none"
    BY <2>2 DEF NoRecord
  <2> QED BY <2>1, <2>3
<1>2. DOMAIN stale = {}
  <2>1. stale = <<>>
    BY DEF Init
  <2> QED BY <2>1
<1> QED BY <1>1, <1>2
  DEF Ownership, Owns, Owned, HasWorker, CopyInv, TargetInv, StaleInv, Final,
      UploadAt, DownloadAt

LEMMA OwnershipNext == TypeOK /\ Ownership /\ [Next]_vars => Ownership'
<1> SUFFICES ASSUME TypeOK, Ownership, [Next]_vars PROVE Ownership'
  OBVIOUS
<1>1. ASSUME NEW t \in Tasks, Worker(t) \/ StepFails(t) PROVE Ownership'
  BY <1>1, WorkerOwnership
<1>2. ASSUME NEW t \in Tasks, Host(t) \/ HostFails(t) PROVE Ownership'
  <2>1. UNCHANGED <<tasks, service, unsaved>>
    BY <1>2, HostFrame
  <2> QED BY <2>1
          DEF Ownership, Owns, HasWorker, CopyInv, TargetInv, StaleInv,
              Active, Running
<1>3. CASE Service
  BY <1>3, ConnectionOwnership, CrashOwnership, ReapedOwnership,
     CommandOwnership, StartOwnership, PauseStaleOwnership
  DEF Service, Loop, User
<1>4. CASE UNCHANGED vars
  BY <1>4
  DEF vars, Ownership, Owns, HasWorker, CopyInv, TargetInv, StaleInv,
      Active, Running
<1> QED BY <1>1, <1>2, <1>3, <1>4, NextParties

LEMMA OwnershipAlways == Spec => [](TypeOK /\ Ownership)
  BY TypeInit, TypeNext, OwnershipInit, OwnershipNext, PTL DEF Spec

(***************************************************************************)
(* No record says Running without a worker, but for one whose worker could *)
(* not save its end, however workers, commands, crashes and the end of the *)
(* service interleave.                                                     *)
(***************************************************************************)
THEOREM NoneRunsAlone == Spec => []RunningHasWorker
<1>1. Ownership => RunningHasWorker
  BY DEF Ownership, HasWorker, RunningHasWorker, Active
<1> QED BY <1>1, OwnershipAlways, PTL

\* Over, or over and removed.
StaysOver(t) ==
    rec[t].state \in Final \cup {"gone"} =>
        \/ rec'[t].state \in {rec[t].state, "gone"}
        \/ t \in DOMAIN stale

RecordStays(t) ==
    /\ SameData(rec'[t], rec[t])
    /\ rec'[t].state \in {rec[t].state, "Queued", "Paused", "Cancelled", "gone"}
    /\ StaysOver(t)

LEMMA ServiceRecords ==
  ASSUME TypeOK, Ownership, Service, NEW t \in Tasks
  PROVE  RecordStays(t)
<1>0. UNCHANGED rec => RecordStays(t)
  BY SameDataHolds DEF RecordStays, StaysOver
<1>1. ASSUME NEW S, NEW x \in {"Queued", "Paused", "Cancelled", "gone"},
             Restated(S, x),
             t \in S => \/ rec[t].state \notin Final \cup {"gone"}
                        \/ x = "gone"
      PROVE  RecordStays(t)
  BY <1>1, SameDataHolds DEF RecordStays, StaysOver, Restated
<1>2. ASSUME \/ Connect \/ WireEnds \/ PausedQueue \/ Leave \/ Leaves \/ Release
             \/ PauseAll \/ Quit \/ Disallowed \/ LinkLost \/ HostCrash
             \/ Crash
      PROVE  UNCHANGED rec
  BY <1>2
  DEF Connect, WireEnds, PausedQueue, Leave, Leaves, Release, PauseAll, Quit,
      Disallowed, LinkLost, HostCrash, Crash
<1>3. ASSUME \/ Awaited \/ Closed
             \/ \E u \in Tasks : Reap(u) \/ Start(u) \/ Cancel(u)
      PROVE  UNCHANGED rec
  BY <1>3 DEF Awaited, Closed, Reap, Start, Cancel
<1>4. ASSUME Cleanup \/ ClearTimesOut PROVE RecordStays(t)
  <2>1. \/ rec' = WithState({target}, "gone")
        \/ SaveCancelled /\ rec[target].state \notin Final \cup {"gone"}
        \/ UNCHANGED rec
    BY <1>4 DEF Cleanup, ClearTimesOut, Ownership, TargetInv
  <2>2. CASE rec' = WithState({target}, "gone")
    BY <1>1, <2>2, RestatedBy DEF TypeOK
  <2>3. CASE SaveCancelled /\ rec[target].state \notin Final \cup {"gone"}
    BY <1>0, <1>1, <2>3, RestatedCancelled DEF TypeOK
  <2> QED BY <1>0, <2>1, <2>2, <2>3
<1>5. ASSUME ClearCompleted PROVE RecordStays(t)
  BY <1>1, <1>5, RestatedBy DEF ClearCompleted, TypeOK
<1>6. ASSUME Restart \/ AllPaused PROVE RecordStays(t)
  <2>1. \/ rec' = WithState(Interrupted, "Paused")
        \/ rec' = WithState(Queued, "Paused")
        \/ UNCHANGED rec
    BY <1>6 DEF Restart, AllPaused
  <2>2. t \in Interrupted \cup Queued => rec[t].state \notin Final \cup {"gone"}
    BY DEF Interrupted, Queued, Final
  <2> QED BY <1>0, <1>1, <2>1, <2>2, RestatedBy DEF TypeOK
<1>7. ASSUME NEW S, Resume(S) PROVE RecordStays(t)
  <2>1. rec' = WithState(S, "Queued") /\ S \subseteq Resumable
    BY <1>7 DEF Resume
  <2>2. t \in S => rec[t].state \notin Final \cup {"gone"}
    BY <2>1 DEF Resumable, Final
  <2> QED BY <1>1, <2>1, <2>2, RestatedBy DEF TypeOK
<1>8. ASSUME NEW u \in Tasks, Pause(u) PROVE RecordStays(t)
  <2>1. \/ rec' = WithState({u}, "Paused") /\ rec[u].state = "Queued"
        \/ UNCHANGED rec
    BY <1>8 DEF Pause, Queued
  <2> QED BY <1>0, <1>1, <2>1, RestatedBy DEF TypeOK, Final
<1>9. ASSUME NEW u \in Tasks, Add(u) PROVE RecordStays(t)
  <2>1. rec[u].state = "none" /\ rec' = [rec EXCEPT ![u].state = "Queued"]
    BY <1>9 DEF Add
  <2>2. Restated({u}, "Queued")
    BY <2>1 DEF Restated, SameData, SameTask, TypeOK, TasksOK, Record
  <2> QED BY <1>1, <2>1, <2>2 DEF Final
<1>10. ASSUME NEW u \in Tasks, PauseStale(u) PROVE RecordStays(t)
  <2>1. CASE rec' = [rec EXCEPT ![u] = [stale[u] EXCEPT !.state = "Paused"]]
    <3>1. u \in DOMAIN stale /\ stale[u] \in Record /\ SameData(stale[u], rec[u])
      BY <1>10 DEF PauseStale, TypeOK, ServiceOK, Ownership, CopyInv
    <3>2. rec'[u] = [stale[u] EXCEPT !.state = "Paused"]
      BY <2>1 DEF TypeOK, TasksOK
    <3>3. SameData(rec'[u], rec[u]) /\ rec'[u].state = "Paused"
      BY <3>1, <3>2 DEF SameData, SameTask, Record
    <3>4. \A v \in Tasks \ {u} : rec'[v] = rec[v]
      BY <2>1 DEF TypeOK, TasksOK
    <3> QED BY <3>1, <3>3, <3>4, SameDataHolds DEF RecordStays, StaysOver
  <2> QED BY <1>0, <1>10, <2>1 DEF PauseStale
<1> QED
  BY <1>0, <1>2, <1>3, <1>4, <1>5, <1>6, <1>7, <1>8, <1>9, <1>10
  DEF Service, Loop, User

(***************************************************************************)
(* What is over stays over: the worker of a record that is over has ended, *)
(* so none can save its copy over it, and no command of the loop changes it*)
(* but to remove it.  The copies of the queue are the exception.           *)
(***************************************************************************)
THEOREM OverStaysOver == Spec => FinishedStaysFinished
<1>1. ASSUME TypeOK, Ownership, [Next]_vars, NEW t \in Tasks PROVE StaysOver(t)
  <2>1. ASSUME NEW u \in Tasks, Worker(u) \/ StepFails(u) PROVE StaysOver(t)
    <3>1. CASE u = t
      <4>1. Active(t) /\ Owned(rec[t], own[t], pc[t])
        BY <1>1, <2>1, <3>1, WorkerOwns DEF Ownership, Owns
      <4> QED BY <4>1 DEF Owned, Active, StaysOver
    <3>2. CASE u # t
      BY <1>1, <2>1, <3>2, WorkerFrameAll DEF StaysOver
    <3> QED BY <3>1, <3>2
  <2>2. ASSUME NEW u \in Tasks, Host(u) \/ HostFails(u) PROVE StaysOver(t)
    BY <2>2, HostFrame DEF StaysOver
  <2>3. CASE UNCHANGED vars
    BY <2>3 DEF vars, StaysOver
  <2> QED BY <1>1, <2>1, <2>2, <2>3, NextParties, ServiceRecords
          DEF RecordStays
<1>2. TypeOK /\ Ownership /\ [Next]_vars =>
        [\A t \in Tasks :
           rec[t].state \in Final \cup {"gone"} =>
               \/ rec'[t].state \in {rec[t].state, "gone"}
               \/ t \in DOMAIN stale]_vars
  BY <1>1 DEF StaysOver
<1> QED BY <1>2, OwnershipAlways, PTL DEF Spec, FinishedStaysFinished

-----------------------------------------------------------------------------
(***************************************************************************)
(* What records and messages say of the file is so.  A task is settled when*)
(* its file is in place or was to be skipped for one that is there.        *)
(***************************************************************************)
Settled(t) ==
    \/ delivered[t] > 0
    \/ rec[t].policy = 3 /\ file[Side(rec[t])][0] # Free

Says(r, t) ==
    /\ r.partial = "done" => delivered[t] > 0
    /\ r.partial = "skipped" => Settled(t)

Truth(t) ==
    /\ Says(rec[t], t) /\ Says(own[t], t)
    /\ rec[t].state = "Done" => Settled(t)
    /\ pc[t] = "done" /\ own[t].state # "Skipped" => Settled(t)
    /\ pc[t] = "prepared" => own[t].partial # "none"
    /\ pc[t] \in {"renamed", "complete"} => own[t].partial \in Dealt

HostTruth(t) ==
    /\ hpc[t] \in ReceiveAt =>
         /\ rec[t].dir = "upload"
         /\ hown[t].policy = rec[t].policy /\ rec[t].policy # 0
    /\ hpc[t] \in {"s_confirm", "s_ack"} => rec[t].dir = "download"
    /\ hpc[t] \notin ReceiveAt => hown[t] = NoHostRecord
    /\ hrec[t].policy = 0 => hrec[t] = NoHostRecord
    /\ hrec[t].policy # 0 =>
         rec[t].dir = "upload" /\ hrec[t].policy = rec[t].policy
    /\ Says(hrec[t], t) /\ Says(hown[t], t)
    /\ hpc[t] = "prepared" => hown[t].partial # "none"
    /\ hpc[t] = "renamed" => hown[t].partial = "done"
    /\ hpc[t] \in {"prepared", "open", "renaming"} /\ hown[t].partial = "open"
         => temp[t][hown[t].name] # Absent

Messages(t) ==
    /\ \A m \in In(toHost[t]) :
         /\ m.kind \in {"exist", "receive", "clear"} => rec[t].dir = "upload"
         /\ m.kind = "send" => rec[t].dir = "download"
         /\ m.kind = "receive" => m.arg \in {4, rec[t].policy} /\ rec[t].policy # 0
    /\ \A m \in In(toCtl[t]) :
         /\ m.kind = "result" => delivered[t] > 0
         /\ m.kind = "confirm" /\ m.arg = Skip => Settled(t)

Honest == \A t \in Tasks : Truth(t) /\ HostTruth(t) /\ Messages(t)

-----------------------------------------------------------------------------
\* What is delivered stays delivered, what is there stays there.
Grows(t) ==
    /\ delivered[t] > 0 => delivered'[t] > 0
    /\ \A d \in {"here", "there"} : file[d][0] # Free => file'[d][0] # Free

LEMMA DiskGrows ==
  ASSUME TypeOK, [Next]_vars, NEW t \in Tasks
  PROVE  Grows(t)
<1>0. 0 \in Names
  BY DEF Names
<1>1. ASSUME NEW u \in Tasks, DiskAt(u) PROVE Grows(t)
  <2>1. delivered[t] > 0 => delivered'[t] > 0
    BY <1>1 DEF DiskAt
  <2>2. u # Free
    BY DEF Free
  <2> QED BY <1>0, <1>1, <2>1, <2>2 DEF DiskAt, Grows
<1>2. UNCHANGED <<file, delivered>> => Grows(t)
  BY DEF Grows
<1>3. UNCHANGED vars => UNCHANGED <<file, delivered>>
  BY DEF vars
<1> QED BY <1>1, <1>2, <1>3, NextParties, WorkerDisk, HostDisk, ServiceFrame

LEMMA SettledStays ==
  ASSUME TypeOK, NEW t \in Tasks, Grows(t), SameTask(rec'[t], rec[t]), Settled(t)
  PROVE  Settled(t)'
<1>1. CASE delivered[t] > 0
  BY <1>1 DEF Settled, Grows
<1>2. CASE rec[t].policy = 3 /\ file[Side(rec[t])][0] # Free
  <2>1. Side(rec'[t]) = Side(rec[t]) /\ Side(rec[t]) \in {"here", "there"}
    BY DEF Side, SameTask
  <2> QED BY <1>2, <2>1 DEF Settled, Grows, SameTask
<1> QED BY <1>1, <1>2 DEF Settled

LEMMA SaysStays ==
  ASSUME TypeOK, NEW t \in Tasks, Grows(t), SameTask(rec'[t], rec[t]), NEW r,
         Says(r, t)
  PROVE  /\ r.partial = "done" => delivered'[t] > 0
         /\ r.partial = "skipped" => Settled(t)'
  BY SettledStays DEF Says, Grows

\* The same for a task the step is not about.
LEMMA HonestFrame ==
  ASSUME TypeOK, NEW u \in Tasks, Grows(u),
         Truth(u), HostTruth(u), Messages(u),
         rec'[u] = rec[u], own'[u] = own[u], pc'[u] = pc[u],
         hrec'[u] = hrec[u], hown'[u] = hown[u], hpc'[u] = hpc[u],
         toHost'[u] = toHost[u], toCtl'[u] = toCtl[u], temp'[u] = temp[u]
  PROVE  (Truth(u) /\ HostTruth(u) /\ Messages(u))'
<1>1. SameTask(rec'[u], rec[u])
  BY DEF SameTask
<1>2. Settled(u) => Settled(u)'
  BY <1>1, SettledStays
<1>3. delivered[u] > 0 => delivered'[u] > 0
  BY DEF Grows
<1>4. Truth(u)'
  BY <1>2, <1>3 DEF Truth, Says
<1>5. HostTruth(u)'
  BY <1>2, <1>3 DEF HostTruth, Says
<1>6. Messages(u)'
  BY <1>2, <1>3 DEF Messages
<1> QED BY <1>4, <1>5, <1>6

\* What a step of t does not touch of the others.
LEMMA PartyFrame ==
  ASSUME TypeOK, NEW t \in Tasks, NEW u \in Tasks \ {t},
         Worker(t) \/ StepFails(t) \/ Host(t) \/ HostFails(t)
  PROVE  /\ rec'[u] = rec[u] /\ own'[u] = own[u] /\ pc'[u] = pc[u]
         /\ hrec'[u] = hrec[u] /\ hown'[u] = hown[u] /\ hpc'[u] = hpc[u]
         /\ hrun'[u] = hrun[u]
         /\ toHost'[u] = toHost[u] /\ toCtl'[u] = toCtl[u] /\ temp'[u] = temp[u]
         /\ delivered'[u] = delivered[u] /\ runs'[u] = runs[u]
         /\ UNCHANGED <<svc, target, stale, quit, wire, up, cleaned>>
<1>1. CASE Worker(t) \/ StepFails(t)
  <2>1. rec'[u] = rec[u] /\ own'[u] = own[u] /\ pc'[u] = pc[u]
    BY <1>1, WorkerFrameAll
  <2>2. UNCHANGED <<service, host, runs, cleaned, up>>
    BY <1>1, WorkerFrame
  <2>3. toHost'[u] = toHost[u] /\ toCtl'[u] = toCtl[u]
    BY <1>1, WorkerSends, WorkerTakes DEF Sends, Adds
  <2>4. temp'[u] = temp[u] /\ delivered'[u] = delivered[u]
    BY <1>1, WorkerDisk DEF DiskAt
  <2> QED BY <2>1, <2>2, <2>3, <2>4
<1>2. CASE Host(t) \/ HostFails(t)
  <2>1. /\ hrec'[u] = hrec[u] /\ hown'[u] = hown[u] /\ hpc'[u] = hpc[u]
        /\ hrun'[u] = hrun[u]
        /\ toHost'[u] = toHost[u]
    BY <1>2, HostSteps DEF TypeOK, HostOK, HostMoves, Only, Adds
  <2>2. UNCHANGED <<tasks, service, up, cleaned>>
    BY <1>2, HostFrame
  <2>3. toCtl'[u] = toCtl[u]
    BY <1>2, HostTells DEF Told, Adds
  <2>4. temp'[u] = temp[u] /\ delivered'[u] = delivered[u]
    BY <1>2, HostDisk DEF DiskAt
  <2> QED BY <2>1, <2>2, <2>3, <2>4
<1> QED BY <1>1, <1>2

LEMMA WorkerTruth ==
  ASSUME TypeOK, Ownership, Honest, [Next]_vars, NEW t \in Tasks,
         Worker(t) \/ StepFails(t)
  PROVE  Truth(t)'
<1> DEFINE r == rec[t]  o == own[t]  q == rec'[t]  c == own'[t]  n == pc'[t]
<1>0. /\ o \in Record /\ r \in Record /\ Truth(t) /\ Messages(t)
      /\ Owns(t)' /\ Active(t) /\ Fits(t) /\ Owned(r, o, pc[t])
      /\ Grows(t)
  BY WorkerOwns, DiskGrows DEF TypeOK, TasksOK, Honest, Ownership, Owns
<1>1. /\ Settled(t) => Settled(t)'
      /\ delivered[t] > 0 => delivered'[t] > 0
  BY <1>0, SettledStays DEF Fits, Grows
<1> DEFINE Claim(x) == /\ x = "done" => delivered'[t] > 0
                       /\ x = "skipped" => Settled(t)'
<1>2. Claim(o.partial) /\ Claim(r.partial)
  BY <1>0, <1>1 DEF Truth, Says
<1>3. delivered'[t] > 0 => Settled(t)'
  BY DEF Settled
<1>4. ASSUME n # "ended", q \in {r, c}, Claim(c.partial),
             n = "done" /\ c.state # "Skipped" => Settled(t)',
             n = "prepared" => c.partial # "none",
             n \in {"renamed", "complete"} => c.partial \in Dealt
      PROVE  Truth(t)'
  <2>1. n # "idle"
    BY <1>0 DEF Fits
  <2>2. q.state # "Done"
    BY <1>0, <1>4, <2>1 DEF Owns, Owned, Final
  <2> QED BY <1>2, <1>4, <2>2 DEF Truth, Says
<1>5. ASSUME n \notin {"ended", "done", "prepared", "renamed", "complete"},
             q \in {r, c}, c.partial = o.partial
      PROVE  Truth(t)'
  BY <1>2, <1>4, <1>5
<1>6. ASSUME Settle(t) PROVE Truth(t)'
  <2>1. /\ n = "ended" /\ c = NoRecord
        /\ q = r \/ q = [o EXCEPT !.state = Outcome(t)]
    BY <1>6 DEF Settle, Goto, TypeOK, TasksOK
  <2>2. CASE q = r
    BY <1>0, <1>1, <1>2, <2>1, <2>2 DEF Truth, Says, NoRecord
  <2>3. CASE q = [o EXCEPT !.state = Outcome(t)]
    <3>1. q.partial = o.partial /\ q.state = Outcome(t)
      BY <1>0, <2>3 DEF Record
    <3>2. q.state = "Done" => Settled(t)
      BY <1>0, <3>1 DEF Outcome, Truth
    <3> QED BY <1>1, <1>2, <2>1, <3>1, <3>2 DEF Truth, Says, NoRecord
  <2> QED BY <2>1, <2>2, <2>3
<1>7. ASSUME \/ WaitStops(t) \/ Fail(t) \/ Drain(t) \/ StepFails(t)
      PROVE  Truth(t)'
  <2>1. q = r /\ c = o /\ n \in {"fail", "drain", "settle"}
    BY <1>7 DEF WaitStops, Fail, Drain, StepFails, Goto, TypeOK, TasksOK
  <2> QED BY <1>5, <2>1
<1>8. ASSUME Register(t) PROVE Truth(t)'
  <2> DEFINE x == [o EXCEPT !.state = "Running"]
  <2>1. q \in {r, c} /\ c \in {o, x} /\ n \in {"begin", "settle"}
    BY <1>8 DEF Register, Goto, Keep, TypeOK, TasksOK
  <2>2. c.partial = o.partial
    BY <1>0, <2>1 DEF Record
  <2> QED BY <1>5, <2>1, <2>2
<1>9. ASSUME BeginUpload(t) \/ BeginDownload(t) PROVE Truth(t)'
  <2>1. /\ q = r /\ n \in {"done", "asked", "exists", "wait_init", "fail"}
        /\ c = o \/ c = [o EXCEPT !.state = "Skipped"]
        /\ n = "done" => \/ o.partial \in Dealt
                         \/ c = [o EXCEPT !.state = "Skipped"]
    BY <1>9
    DEF BeginUpload, BeginDownload, Request, Goto, Keep, TypeOK, TasksOK
  <2>2. /\ c.partial = o.partial
        /\ c = [o EXCEPT !.state = "Skipped"] => c.state = "Skipped"
    BY <1>0, <2>1 DEF Record
  <2>3. o.partial \in Dealt => Settled(t)'
    BY <1>2, <1>3 DEF Dealt
  <2> QED BY <1>2, <1>4, <2>1, <2>2, <2>3
<1>10. ASSUME NEW i, NameChecked(t, i) PROVE Truth(t)'
  <2>1. /\ q = r
        /\ \/ c = o /\ n \in {"asked", "fail"}
           \/ c = [o EXCEPT !.state = "Skipped"] /\ n = "done"
    BY <1>10 DEF NameChecked, Got, Keep, Request, Goto, TypeOK, TasksOK
  <2>2. c.partial = o.partial /\ (n = "done" => c.state = "Skipped")
    BY <1>0, <2>1 DEF Record
  <2> QED BY <1>2, <1>4, <2>1, <2>2
<1>11. ASSUME SaveStarted(t) \/ \E i : SendAnswered(t, i) PROVE Truth(t)'
  <2>1. ASSUME NEW label \in {"wait_init", "receive"},
               SaveThen(t, [o EXCEPT !.started = TRUE], label, <<>>)
        PROVE  Truth(t)'
    <3>1. /\ c = [o EXCEPT !.started = TRUE]
          /\ q \in {r, c} /\ n \in {label, "fail"}
      BY <2>1, SaveTurn DEF TypeOK
    <3>2. c.partial = o.partial
      BY <1>0, <3>1 DEF Record
    <3> QED BY <1>5, <3>1, <3>2
  <2>2. ASSUME Goto(t, "fail"), UNCHANGED <<rec, own>> PROVE Truth(t)'
    <3>1. c = o /\ q = r /\ n = "fail"
      BY <2>2 DEF Goto, TypeOK, TasksOK
    <3> QED BY <1>5, <3>1
  <2> QED BY <1>11, <2>1, <2>2 DEF SaveStarted, SendAnswered
<1>12. ASSUME NEW i, ReceiveAnswered(t, i) PROVE Truth(t)'
  <2> DEFINE s(m) == o.started /\ ~(m.kind = "response" /\ m.arg \in {4, 8, 12})
  <2>1. /\ q = r /\ n \in {"wait_confirm", "fail"}
        /\ c = o \/ c = [o EXCEPT !.started = s(toCtl[t][i])]
    BY <1>12 DEF ReceiveAnswered, Request, Goto, Keep, TypeOK, TasksOK
  <2> HIDE DEF s
  <2>2. c.partial = o.partial
    BY <1>0, <2>1 DEF Record
  <2> QED BY <1>5, <2>1, <2>2
<1>13. ASSUME NEW i \in DOMAIN toCtl[t], FileConfirmed(t, i) PROVE Truth(t)'
  <2>1. CASE toCtl[t][i].kind = "confirm" /\ toCtl[t][i].arg = Skip
    <3>1. Settled(t)
      BY <1>0, <2>1 DEF Messages, In
    <3>2. /\ c = [o EXCEPT !.partial = "skipped"] /\ q \in {r, c}
          /\ n \in {"done", "fail"}
      BY <1>13, <2>1, SaveTurn DEF FileConfirmed, TypeOK
    <3>3. c.partial = "skipped"
      BY <1>0, <3>2 DEF Record
    <3> QED BY <1>1, <1>4, <3>1, <3>2, <3>3
  <2>2. CASE ~(toCtl[t][i].kind = "confirm" /\ toCtl[t][i].arg = Skip)
    <3>1. q = r /\ c = o /\ n \in {"wait_result", "wait_ack", "fail"}
      BY <1>13, <2>2
      DEF FileConfirmed, Got, Request, Goto, TypeOK, TasksOK
    <3> QED BY <1>5, <3>1
  <2> QED BY <2>1, <2>2
<1>14. ASSUME NEW i, BlockConfirmed(t, i) \/ BlockReceived(t, i)
       PROVE  Truth(t)'
  <2>1. q = r /\ c = o /\ n \in {"wait_result", "wait_ack", "open", "fail"}
    BY <1>14
    DEF BlockConfirmed, BlockReceived, Got, Request, Goto, TypeOK, TasksOK
  <2> QED BY <1>5, <2>1
<1>15. ASSUME NEW i \in DOMAIN toCtl[t], FileSaved(t, i) PROVE Truth(t)'
  <2>1. CASE ResultOk(toCtl[t][i])
    <3>1. delivered[t] > 0
      BY <1>0, <2>1 DEF Messages, In, ResultOk
    <3>2. /\ c = [o EXCEPT !.partial = "done"] /\ q \in {r, c}
          /\ n \in {"done", "fail"}
      BY <1>15, <2>1, SaveTurn DEF FileSaved, TypeOK
    <3>3. c.partial = "done"
      BY <1>0, <3>2 DEF Record
    <3> QED BY <1>1, <1>3, <1>4, <3>1, <3>2, <3>3
  <2>2. CASE ~ResultOk(toCtl[t][i])
    <3>1. q = r /\ c = o /\ n = "fail"
      BY <1>15, <2>2 DEF FileSaved, Goto, TypeOK, TasksOK
    <3> QED BY <1>5, <3>1
  <2> QED BY <2>1, <2>2
<1>16. ASSUME NEW i, FileAsked(t, i) PROVE Truth(t)'
  <2>1. CASE PrepareFails(t, o, "here") \/ toCtl[t][i].kind # "ask"
    <3>1. q = r /\ c = o /\ n = "fail"
      BY <1>16, <2>1 DEF FileAsked, Goto, TypeOK, TasksOK
    <3> QED BY <1>5, <3>1
  <2>2. CASE ~PrepareFails(t, o, "here") /\ toCtl[t][i].kind = "ask"
    <3>1. /\ q = r /\ c = Prepared(o, "here") /\ n = "prepared"
          /\ pc[t] = "receive" /\ UNCHANGED file
      BY <1>16, <2>2 DEF FileAsked, Got, Keep, Goto, TypeOK, TasksOK
    <3>2. c.partial \in {"open", "done", "skipped"}
      BY <1>0, <2>2, <3>1, PreparedRecord
    <3>3. Claim(c.partial)
      <4>1. CASE Skips(o, "here") /\ o.partial = "none"
        <5>1. o.policy = 3 /\ file["here"][0] # Free
          BY <4>1 DEF Skips, Dealt
        <5>2. rec'[t].policy = 3 /\ rec'[t].dir = "download"
          BY <1>0, <3>1, <5>1 DEF Owned, SameTask, DownloadAt
        <5>3. Settled(t)'
          BY <3>1, <5>1, <5>2 DEF Settled, Side
        <5>4. c.partial = "skipped"
          BY <1>0, <3>1, <4>1 DEF Prepared, Record
        <5> QED BY <5>3, <5>4
      <4>2. CASE Skips(o, "here") /\ o.partial # "none"
        <5>1. c.partial = o.partial
          BY <1>0, <3>1, <4>2 DEF Prepared, Record
        <5> QED BY <1>2, <5>1
      <4>3. CASE ~Skips(o, "here")
        <5>1. c.partial = "open"
          BY <1>0, <3>1, <4>3 DEF Prepared, Record
        <5> QED BY <5>1
      <4> QED BY <4>1, <4>2, <4>3
    <3> QED BY <1>4, <3>1, <3>2, <3>3
  <2> QED BY <2>1, <2>2
<1>17. ASSUME SavePrepared(t) \/ SaveRenamed(t) PROVE Truth(t)'
  <2>1. /\ c = o /\ q \in {r, c} /\ n \in {"open", "complete", "fail"}
        /\ n = "complete" => pc[t] = "renamed" \/ o.partial # "open"
        /\ pc[t] \in {"prepared", "renamed"}
    BY <1>17, SaveTurn DEF SavePrepared, SaveRenamed, TypeOK
  <2>2. n = "complete" => o.partial \in Dealt
    BY <1>0, <2>1 DEF Truth, Record, Partials, Dealt
  <2> QED BY <1>2, <1>4, <2>1, <2>2
<1>18. ASSUME NEW i, FileCompleted(t, i) PROVE Truth(t)'
  <2>1. q = r /\ c = o /\ n \in {"renaming", "fail"}
    BY <1>18 DEF FileCompleted, Goto, TypeOK, TasksOK
  <2> QED BY <1>5, <2>1
<1>19. ASSUME Rename(t) PROVE Truth(t)'
  <2>1. q = r /\ c = [o EXCEPT !.partial = "done"] /\ n = "renamed"
    BY <1>19 DEF Rename, Goto, Keep, TypeOK, TasksOK
  <2>2. c.partial = "done"
    BY <1>0, <2>1 DEF Record
  <2>3. delivered'[t] > 0
    BY <1>0, <1>19, PutTemp DEF Rename, TypeOK, DiskOK
  <2> QED BY <1>4, <2>1, <2>2, <2>3 DEF Dealt
<1>20. ASSUME NEW i, AllReceived(t, i) PROVE Truth(t)'
  <2>1. q = r /\ c = o /\ n \in {"done", "fail"} /\ pc[t] = "complete"
    BY <1>20 DEF AllReceived, Got, Request, Goto, TypeOK, TasksOK
  <2>2. Settled(t)'
    BY <1>0, <1>2, <1>3, <2>1 DEF Truth, Dealt
  <2> QED BY <1>2, <1>4, <2>1, <2>2
<1> QED
  BY <1>6, <1>7, <1>8, <1>9, <1>10, <1>11, <1>12, <1>13, <1>14, <1>15, <1>16,
     <1>17, <1>18, <1>19, <1>20
  DEF Worker, Upload, Download

LEMMA WorkerKeepsTemp ==
  ASSUME NEW t \in Tasks, Worker(t) \/ StepFails(t),
         pc[t] \notin {"receive", "open", "renaming"}
  PROVE  UNCHANGED temp
<1>1. ASSUME Upload(t) PROVE UNCHANGED temp
  BY <1>1
  DEF Upload, BeginUpload, SaveStarted, NameChecked, ReceiveAnswered,
      FileConfirmed, BlockConfirmed, FileSaved, disk
<1>2. ASSUME Download(t) PROVE UNCHANGED temp
  BY <1>2
  DEF Download, BeginDownload, SavePrepared, Rename, SaveRenamed, SendAnswered,
      FileAsked, BlockReceived, FileCompleted, AllReceived, Got, disk
<1> QED
  BY <1>1, <1>2
  DEF Worker, Register, WaitStops, Fail, Drain, Settle, StepFails, disk

LEMMA WorkerHonest ==
  ASSUME TypeOK, Ownership, Honest, [Next]_vars, NEW t \in Tasks,
         Worker(t) \/ StepFails(t)
  PROVE  (Truth(t) /\ HostTruth(t) /\ Messages(t))'
<1>0. /\ HostTruth(t) /\ Messages(t)
      /\ Active(t) /\ Fits(t) /\ Owned(rec[t], own[t], pc[t])
      /\ Grows(t)
  BY WorkerOwns, DiskGrows DEF Honest, Ownership, Owns
<1>1. /\ SameTask(rec'[t], rec[t])
      /\ Settled(t) => Settled(t)'
      /\ delivered[t] > 0 => delivered'[t] > 0
  BY <1>0, SettledStays DEF Fits, Grows
<1>2. UNCHANGED <<hrec, hown, hpc>>
  BY WorkerFrame DEF host
<1>3. HostTruth(t)'
  <2>1. hpc[t] \in ReceiveAt => UNCHANGED temp
    BY <1>0, WorkerKeepsTemp DEF HostTruth, Owned, DownloadAt
  <2>2. {"prepared", "open", "renaming"} \subseteq ReceiveAt
    BY DEF ReceiveAt
  <2> QED BY <1>0, <1>1, <1>2, <2>1, <2>2 DEF HostTruth, Says, SameTask
<1>4. ASSUME NEW m \in In(toHost'[t])
      PROVE  /\ m.kind \in {"exist", "receive", "clear"} => rec'[t].dir = "upload"
             /\ m.kind = "send" => rec'[t].dir = "download"
             /\ m.kind = "receive" =>
                  m.arg \in {4, rec'[t].policy} /\ rec'[t].policy # 0
  <2>1. CASE m \in In(toHost[t])
    BY <1>0, <1>1, <2>1 DEF Messages, SameTask
  <2>2. CASE m \notin In(toHost[t])
    <3>1. NewToHost(t, m)
      BY <2>2, WorkerSends DEF Sends, Adds
    <3>2. /\ SameTask(own[t], rec[t]) /\ rec[t].policy # 0
          /\ pc[t] = "exists" => rec[t].dir = "upload"
      BY <1>0 DEF Owned, Active, UploadAt
    <3> QED BY <1>1, <3>1, <3>2 DEF NewToHost, SameTask
  <2> QED BY <2>1, <2>2
<1>5. In(toCtl'[t]) \subseteq In(toCtl[t])
  <2>1. In(<<>>) = {}
    BY InEmpty
  <2> QED BY <2>1, WorkerTakes DEF Adds
<1>6. Messages(t)'
  BY <1>0, <1>1, <1>4, <1>5 DEF Messages
<1> QED BY <1>3, <1>6, WorkerTruth

\* A host job that ends leaves what r says of the file.
LEMMA EndJobTruth ==
  ASSUME TypeOK, NEW t \in Tasks, NEW q,
         NEW r \in {hown[t], hrec[t], NoHostRecord}, EndJob(t, r, q),
         HostTruth(t), Grows(t), UNCHANGED rec, hpc[t] \in HostAt \ {"none"}
  PROVE  HostTruth(t)'
<1>1. /\ hrec'[t] = r /\ hown'[t] = NoHostRecord /\ hpc'[t] = "none"
  BY DEF EndJob, HostGoto, TypeOK, HostOK
<1>2. /\ Settled(t) => Settled(t)'
      /\ delivered[t] > 0 => delivered'[t] > 0
  BY SettledStays DEF SameTask, Grows
<1>3. NoHostRecord.policy = 0 /\ NoHostRecord.partial = "none"
  BY DEF NoHostRecord
<1>4. hpc'[t] \notin ReceiveAt /\ hpc'[t] \notin {"s_confirm", "s_ack", "prepared", "open",
        "renaming", "renamed"}
  BY <1>1 DEF ReceiveAt
<1>5. /\ r.policy = 0 => r = NoHostRecord
      /\ r.policy # 0 => rec[t].dir = "upload" /\ r.policy = rec[t].policy
      /\ Says(r, t)
  BY <1>3 DEF HostTruth, Says
<1> QED BY <1>1, <1>2, <1>3, <1>4, <1>5 DEF HostTruth, Says

LEMMA HostHonest ==
  ASSUME TypeOK, Honest, [Next]_vars, NEW t \in Tasks, Host(t) \/ HostFails(t)
  PROVE  HostTruth(t)'
<1> DEFINE o == hown[t]  p == hpc[t]  c == hown'[t]  n == hpc'[t]
<1>0. /\ o \in HostRecord /\ hrec[t] \in HostRecord /\ p \in HostAt
      /\ HostTruth(t) /\ Messages(t) /\ Grows(t) /\ DiskOK
  BY DiskGrows DEF TypeOK, HostOK, Honest
<1>1. UNCHANGED rec
  BY HostFrame DEF tasks
<1>2. /\ Settled(t) => Settled(t)'
      /\ delivered[t] > 0 => delivered'[t] > 0
      /\ Says(hrec[t], t) /\ Says(o, t)
  BY <1>0, <1>1, SettledStays DEF SameTask, Grows, HostTruth
<1>3. ReceiveAt = {"ready", "prepared", "open", "renaming", "renamed", "complete"}
  BY DEF ReceiveAt
<1>e. ASSUME NEW q, NEW r \in {o, hrec[t], NoHostRecord}, EndJob(t, r, q),
             p # "none"
      PROVE  HostTruth(t)'
  BY <1>0, <1>1, <1>e, EndJobTruth
<1>4. ASSUME UNCHANGED <<host, temp>> PROVE HostTruth(t)'
  BY <1>1, <1>2, <1>0, <1>4 DEF HostTruth, Says, host
\* The job goes on receiving with the same record.
<1>5. ASSUME p \in ReceiveAt, n \in {"open", "renaming", "complete"}, c = o,
             hrec'[t] \in {hrec[t], o},
             n # "complete" /\ o.partial = "open" =>
               temp'[t][o.name] # Absent
      PROVE  HostTruth(t)'
  <2>1. o.policy = rec[t].policy /\ rec[t].policy # 0 /\ rec[t].dir = "upload"
    BY <1>0, <1>5 DEF HostTruth
  <2>2. /\ n \in ReceiveAt
        /\ n \notin {"s_confirm", "s_ack", "prepared", "renamed"}
    BY <1>3, <1>5
  <2>3. /\ hrec'[t].policy = 0 => hrec'[t] = NoHostRecord
        /\ hrec'[t].policy # 0 => hrec'[t].policy = rec[t].policy
    BY <1>0, <1>5, <2>1 DEF HostTruth
  <2> QED BY <1>1, <1>2, <1>5, <2>1, <2>2, <2>3 DEF HostTruth, Says
<1>6. ASSUME NEW i, HostFileAsked(t, i) PROVE HostTruth(t)'
  <2>1. CASE PrepareFails(t, o, "there")
    BY <1>6, <1>e, <2>1 DEF HostFileAsked, HostGot
  <2>2. CASE ~PrepareFails(t, o, "there")
    <3>1. /\ c = Prepared(o, "there") /\ n = "prepared" /\ p = "ready"
          /\ UNCHANGED <<hrec, file>>
          /\ Prepare(t, o, "there")
      BY <1>6, <2>2 DEF HostFileAsked, HostGot, HostGoto, TypeOK, HostOK
    <3>2. /\ c.policy = o.policy /\ c.partial \in {"open", "done", "skipped"}
          /\ c.partial = "open" => temp'[t][c.name] # Absent
      BY <1>0, <2>2, <3>1, PreparedRecord, PrepareTemp
    <3>3. rec[t].dir = "upload" /\ o.policy = rec[t].policy /\ rec[t].policy # 0
      BY <1>0, <1>3, <3>1 DEF HostTruth
    <3>4. /\ c.partial = "done" => delivered'[t] > 0
          /\ c.partial = "skipped" => Settled(t)'
      <4>1. CASE Skips(o, "there") /\ o.partial = "none"
        <5>1. o.policy = 3 /\ file["there"][0] # Free
          BY <4>1 DEF Skips, Dealt
        <5>2. c.partial = "skipped"
          BY <1>0, <3>1, <4>1 DEF Prepared, HostRecord
        <5> QED BY <1>2, <3>3, <5>1, <5>2 DEF Settled, Side
      <4>2. CASE Skips(o, "there") /\ o.partial # "none"
        <5>1. c.partial = o.partial
          BY <1>0, <3>1, <4>2 DEF Prepared, HostRecord
        <5> QED BY <1>2, <5>1 DEF Says
      <4>3. CASE ~Skips(o, "there")
        <5>1. c.partial = "open"
          BY <1>0, <3>1, <4>3 DEF Prepared, HostRecord
        <5> QED BY <5>1
      <4> QED BY <4>1, <4>2, <4>3
    <3> QED BY <1>0, <1>1, <1>2, <1>3, <3>1, <3>2, <3>3, <3>4
        DEF HostTruth, Says
  <2> QED BY <2>1, <2>2
<1>7. ASSUME HostSavePrepared(t) PROVE HostTruth(t)'
  <2>1. /\ p = "prepared" /\ c = o /\ hrec'[t] = o /\ n \in {"open", "complete"}
        /\ UNCHANGED temp
    BY <1>7 DEF HostSavePrepared, HostGoto, TypeOK, HostOK, disk
  <2> QED BY <1>0, <1>3, <1>5, <2>1 DEF HostTruth
<1>8. ASSUME NEW i, HostBlockReceived(t, i) PROVE HostTruth(t)'
  <2>1. p = "open" /\ c = o /\ hrec'[t] = hrec[t] /\ n = p
    BY <1>8 DEF HostBlockReceived, HostGot, host
  <2>2. Patched(t, o.name, temp[t][o.name] + 1)
    BY <1>8 DEF HostBlockReceived, Write, Patched, TypeOK, DiskOK
  <2>3. o.name \in Names
    BY <1>0 DEF HostRecord
  <2>4. temp'[t][o.name] # Absent
    BY <1>0, <2>2, <2>3, LengthGrows, TempUpdate
  <2> QED BY <1>3, <1>5, <2>1, <2>4
<1>9. ASSUME NEW i, HostFileCompleted(t, i) PROVE HostTruth(t)'
  <2>1. CASE FinishAllowed(t, o, "there")
    <3>1. /\ p = "open" /\ c = o /\ hrec'[t] = hrec[t] /\ n = "renaming"
          /\ UNCHANGED temp
      BY <1>9, <2>1
      DEF HostFileCompleted, HostGot, HostGoto, TypeOK, HostOK
    <3> QED BY <1>0, <1>3, <1>5, <3>1 DEF HostTruth
  <2>2. CASE ~FinishAllowed(t, o, "there")
    BY <1>9, <1>e, <2>2 DEF HostFileCompleted, HostGot
  <2> QED BY <2>1, <2>2
<1>10. ASSUME HostRename(t) PROVE HostTruth(t)'
  <2>1. /\ p = "renaming" /\ c = [o EXCEPT !.partial = "done"]
        /\ hrec'[t] = hrec[t] /\ n = "renamed"
    BY <1>10 DEF HostRename, HostGoto, TypeOK, HostOK
  <2>2. c.partial = "done" /\ c.policy = o.policy
    BY <1>0, <2>1 DEF HostRecord
  <2>3. delivered'[t] > 0
    BY <1>0, <1>10, PutTemp DEF HostRename, DiskOK
  <2> QED BY <1>0, <1>1, <1>2, <1>3, <2>1, <2>2, <2>3 DEF HostTruth, Says
<1>11. ASSUME HostSaveRenamed(t) PROVE HostTruth(t)'
  <2>1. p = "renamed" /\ c = o /\ hrec'[t] = o /\ n = "complete"
    BY <1>11 DEF HostSaveRenamed, HostGoto, TypeOK, HostOK
  <2> QED BY <1>3, <1>5, <2>1
<1>12. ASSUME NEW i \in DOMAIN toHost[t], ReceiveAsked(t, i) PROVE HostTruth(t)'
  <2> DEFINE m == toHost[t][i]
             x == [NoHostRecord EXCEPT !.policy = m.arg]
  <2>1. CASE UNCHANGED host
    BY <1>4, <1>12, <2>1 DEF ReceiveAsked, disk
  <2>2. CASE ~UNCHANGED host
    <3> DEFINE y == IF m.arg = 4 THEN hrec[t] ELSE x
    <3>0. /\ Refusal(t, m.arg) = 1 /\ m.kind = "receive" /\ UNCHANGED temp
          /\ hrec' = [hrec EXCEPT ![t] = y] /\ hown' = [hown EXCEPT ![t] = y]
          /\ hpc' = [hpc EXCEPT ![t] = "ready"]
      BY <1>12, <2>2 DEF ReceiveAsked, Asked
    <3>1. /\ Refusal(t, m.arg) = 1 /\ m.kind = "receive" /\ UNCHANGED temp
          /\ hrec'[t] = c /\ c = y /\ n = "ready"
      BY <3>0 DEF TypeOK, HostOK
    <3>2. m.arg \in {4, rec[t].policy} /\ rec[t].policy # 0 /\ rec[t].dir = "upload"
      BY <1>0, <3>1 DEF Messages, In
    <3>3. CASE m.arg = 4
      <4>1. c = hrec[t] /\ hrec[t].policy # 0
        BY <3>1, <3>3 DEF Refusal, HostRecorded
      <4> QED BY <1>0, <1>1, <1>2, <1>3, <3>1, <3>2, <4>1 DEF HostTruth, Says
    <3>4. CASE m.arg # 4
      <4>1. c.policy = rec[t].policy /\ c.partial = "none"
        BY <3>1, <3>2, <3>4 DEF NoHostRecord
      <4> QED BY <1>1, <1>3, <3>1, <3>2, <4>1 DEF HostTruth, Says
    <3> QED BY <3>3, <3>4
  <2> QED BY <2>1, <2>2
<1>13. ASSUME NEW i, HostFinished(t, i) \/ HostPaused(t, i) PROVE HostTruth(t)'
  BY <1>e, <1>13 DEF HostFinished, HostPaused, HostGot
<1>14. ASSUME HostStops(t) PROVE HostTruth(t)'
  BY <1>e, <1>14 DEF HostStops, HostWaits
<1>15. ASSUME HostFails(t) PROVE HostTruth(t)'
  BY <1>e, <1>15 DEF HostFails
<1>16. ASSUME NEW i, ClearAsked(t, i) PROVE HostTruth(t)'
  <2>1. c = o /\ n = p
    BY <1>16 DEF ClearAsked
  <2>2. CASE UNCHANGED <<hrec, temp>>
    BY <1>0, <1>1, <1>2, <2>1, <2>2 DEF HostTruth, Says
  <2>3. CASE ~UNCHANGED <<hrec, temp>>
    <3>1. Receiving = {} /\ hrec'[t] \in {hrec[t], NoHostRecord}
      BY <1>16, <2>3 DEF ClearAsked, TypeOK, HostOK
    <3>2. p \notin ReceiveAt
      BY <1>3, <3>1 DEF Receiving
    <3>3. NoHostRecord.policy = 0 /\ NoHostRecord.partial = "none"
      BY DEF NoHostRecord
    <3> QED BY <1>0, <1>1, <1>2, <1>3, <2>1, <3>1, <3>2, <3>3 DEF HostTruth, Says
  <2> QED BY <2>2, <2>3
<1>17. ASSUME NEW i \in DOMAIN toHost[t], SendAsked(t, i) PROVE HostTruth(t)'
  <2>1. /\ c = o /\ n = "s_confirm" /\ UNCHANGED <<hrec, temp>>
        /\ toHost[t][i].kind = "send"
    BY <1>17 DEF SendAsked, Asked, HostGoto, TypeOK, HostOK, disk
  <2>2. rec[t].dir = "download"
    BY <1>0, <2>1 DEF Messages, In
  <2>3. p \notin ReceiveAt
    BY <1>0, <2>2 DEF HostTruth
  <2> QED BY <1>0, <1>1, <1>2, <1>3, <2>1, <2>2, <2>3 DEF HostTruth, Says
<1>18. ASSUME NEW i, SendConfirmed(t, i) PROVE HostTruth(t)'
  <2>1. CASE toHost[t][i].arg \in {Skip, Size}
    BY <1>18, <1>e, <2>1 DEF SendConfirmed, HostGot
  <2>2. CASE toHost[t][i].arg \notin {Skip, Size}
    <3>1. /\ c = o /\ p = "s_confirm" /\ n = "s_ack" /\ UNCHANGED <<hrec, temp>>
      BY <1>18, <2>2 DEF SendConfirmed, HostGot, HostGoto, TypeOK, HostOK, disk
    <3> QED BY <1>0, <1>1, <1>2, <1>3, <3>1 DEF HostTruth, Says
  <2> QED BY <2>1, <2>2
<1>19. ASSUME NEW i, SendAcked(t, i) PROVE HostTruth(t)'
  <2>1. CASE toHost[t][i].arg = Size
    BY <1>19, <1>e, <2>1 DEF SendAcked, HostGot
  <2>2. CASE toHost[t][i].arg # Size
    BY <1>4, <1>19, <2>2 DEF SendAcked, disk
  <2> QED BY <2>1, <2>2
<1>20. ASSUME NEW i, Late(t, i) \/ NameAsked(t, i) PROVE HostTruth(t)'
  BY <1>4, <1>20 DEF Late, NameAsked, disk
<1> QED
  BY <1>6, <1>7, <1>8, <1>9, <1>10, <1>11, <1>12, <1>13, <1>14, <1>15, <1>16,
     <1>17, <1>18, <1>19, <1>20
  DEF Host

\* What a step of the service makes of the worker of t.
WorkerKept(t) ==
    \/ own'[t] = own[t] /\ pc'[t] = pc[t] /\ runs'[t] = runs[t]
    \/ pc'[t] = "idle" /\ own'[t] \in {own[t], NoRecord} /\ runs'[t] = runs[t]
    \/ /\ Start(t)
       /\ pc[t] = "idle" /\ pc'[t] = "spawned"
       /\ own'[t] = rec[t] /\ rec'[t] = rec[t]

LEMMA ServiceWorkers ==
  ASSUME TypeOK, Service, NEW t \in Tasks
  PROVE  WorkerKept(t)
<1>1. ASSUME UNCHANGED <<own, pc, runs>> PROVE WorkerKept(t)
  BY <1>1 DEF WorkerKept
<1>2. ASSUME \/ Connect \/ WireEnds \/ PausedQueue \/ Cleanup \/ ClearTimesOut
             \/ Leave \/ Leaves \/ PauseAll \/ ClearCompleted
      PROVE  WorkerKept(t)
  BY <1>1, <1>2
  DEF Connect, WireEnds, PausedQueue, Cleanup, ClearTimesOut, Leave, Leaves,
      PauseAll, ClearCompleted, tasks
<1>3. ASSUME \/ Release \/ Restart \/ Quit \/ Disallowed \/ LinkLost
             \/ HostCrash
             \/ \E S : Resume(S)
             \/ \E u \in Tasks : PauseStale(u) \/ Add(u) \/ Pause(u) \/ Cancel(u)
      PROVE  WorkerKept(t)
  BY <1>1, <1>3
  DEF Release, Restart, Quit, Disallowed, LinkLost, HostCrash, Resume,
      PauseStale, Add, Pause, Cancel, tasks
<1>4. ASSUME AllPaused \/ Closed \/ Crash PROVE WorkerKept(t)
  BY <1>4 DEF AllPaused, Closed, Drained, Crash, WorkerKept
<1>5. ASSUME \E u \in Tasks : Reap(u) \/ (Awaited /\ u = target)
      PROVE  WorkerKept(t)
  BY <1>5 DEF Reap, Awaited, WorkerKept, TypeOK, TasksOK
<1>6. ASSUME Awaited, target \notin Tasks PROVE WorkerKept(t)
  BY <1>6 DEF Awaited, WorkerKept, TypeOK, TasksOK
<1>7. ASSUME NEW u \in Tasks, Start(u) PROVE WorkerKept(t)
  <2>1. CASE u = t
    <3>1. own'[t] = rec[t] /\ pc'[t] = "spawned" /\ rec'[t] = rec[t]
      BY <1>7, <2>1 DEF Start, TypeOK, TasksOK
    <3>2. pc[t] = "idle"
      BY <1>7, <2>1 DEF Start, Running
    <3> QED BY <1>7, <2>1, <3>1, <3>2 DEF WorkerKept
  <2>2. CASE u # t
    <3>1. \E n : runs' = [runs EXCEPT ![u] = n]
      BY <1>7 DEF Start
    <3>2. own'[t] = own[t] /\ pc'[t] = pc[t] /\ runs'[t] = runs[t]
      BY <1>7, <2>2, <3>1 DEF Start, TypeOK, TasksOK
    <3> QED BY <3>2 DEF WorkerKept
  <2> QED BY <2>1, <2>2
<1> QED
  BY <1>2, <1>3, <1>4, <1>5, <1>6, <1>7 DEF Service, Loop, User

LEMMA ServiceHonest ==
  ASSUME TypeOK, Ownership, Honest, [Next]_vars, Service, NEW t \in Tasks
  PROVE  (Truth(t) /\ HostTruth(t) /\ Messages(t))'
<1>0. /\ Truth(t) /\ HostTruth(t) /\ Messages(t) /\ Grows(t)
      /\ WorkerKept(t) /\ RecordStays(t)
  BY DiskGrows, ServiceWorkers, ServiceRecords DEF Honest
<1>1. /\ SameTask(rec'[t], rec[t])
      /\ Settled(t) => Settled(t)'
      /\ delivered[t] > 0 => delivered'[t] > 0
  BY <1>0, SettledStays DEF RecordStays, SameData, Grows
<1>2. Says(rec[t], t) /\ Says(own[t], t) /\ Says(hrec[t], t) /\ Says(hown[t], t)
  BY <1>0 DEF Truth, HostTruth
<1>3. Truth(t)'
  <2>1. rec'[t].partial = rec[t].partial
    BY <1>0 DEF RecordStays, SameData
  <2>2. rec'[t].state = "Done" => rec[t].state = "Done"
    BY <1>0 DEF RecordStays
  <2>3. own'[t].partial \in {own[t].partial, rec[t].partial, "none"}
    BY <1>0 DEF WorkerKept, NoRecord
  <2>4. pc'[t] \in {"idle", "spawned"} \/ (pc'[t] = pc[t] /\ own'[t] = own[t])
    BY <1>0 DEF WorkerKept
  <2> QED BY <1>0, <1>1, <1>2, <2>1, <2>2, <2>3, <2>4 DEF Truth, Says
<1>4. HostTruth(t)'
  <2>1. CASE UNCHANGED <<hown, hpc>>
    <3>1. temp'[t] = temp[t] \/ rec[t].dir = "download"
      <4>1. CASE Cleanup /\ temp' = Cleaned(target, rec[target])
                 /\ rec[target].dir = "download"
        <5>1. target \in Tasks
          BY <4>1 DEF Cleanup, Ownership, TargetInv
        <5>2. rec[target] \in Record /\ DiskOK
          BY <5>1 DEF TypeOK, TasksOK
        <5>3. TempAt(target, rec[target].name)
          BY <4>1, <5>1, <5>2, CleanedTemp
        <5> QED BY <4>1, <5>3 DEF TempAt
      <4> QED BY <4>1, ServiceTemp
    <3>2. hpc[t] \in ReceiveAt => temp'[t] = temp[t]
      BY <1>0, <3>1 DEF HostTruth
    <3>3. {"prepared", "open", "renaming"} \subseteq ReceiveAt
      BY DEF ReceiveAt
    <3>4. UNCHANGED hrec
      BY ServiceHost
    <3> QED BY <1>0, <1>1, <1>2, <2>1, <3>2, <3>3, <3>4
        DEF HostTruth, Says, SameTask
  <2>2. CASE ~UNCHANGED <<hown, hpc>>
    <3>1. hown'[t] = NoHostRecord /\ hpc'[t] = "none" /\ UNCHANGED hrec
      BY <2>2, ServiceHost
    <3>2. NoHostRecord.partial = "none" /\ "none" \notin ReceiveAt
      BY DEF NoHostRecord, ReceiveAt
    <3> QED BY <1>0, <1>1, <1>2, <3>1, <3>2 DEF HostTruth, Says, SameTask
  <2> QED BY <2>1, <2>2
<1>5. Messages(t)'
  <2>1. In(toCtl'[t]) \subseteq In(toCtl[t])
    BY ServiceLink
  <2>2. \A m \in In(toHost'[t]) :
          \/ m \in In(toHost[t])
          \/ m.kind = "clear" /\ rec[t].dir = "upload"
    BY ServiceLink
  <2> QED BY <1>0, <1>1, <2>1, <2>2 DEF Messages, SameTask
<1> QED BY <1>3, <1>4, <1>5

\* A host tells only what is so.
LEMMA HostTellsTruth ==
  ASSUME TypeOK, Honest, [Next]_vars, NEW t \in Tasks, Host(t) \/ HostFails(t)
  PROVE  Truth(t)' /\ Messages(t)'
<1>0. /\ Truth(t) /\ HostTruth(t) /\ Messages(t) /\ Grows(t)
      /\ UNCHANGED <<rec, own, pc>>
  BY DiskGrows, HostFrame DEF Honest, tasks
<1>1. /\ SameTask(rec'[t], rec[t])
      /\ Settled(t) => Settled(t)'
      /\ delivered[t] > 0 => delivered'[t] > 0
  BY <1>0, SettledStays DEF SameTask, Grows
<1>2. Truth(t)'
  BY <1>0, <1>1 DEF Truth, Says
<1>3. In(toHost'[t]) \subseteq In(toHost[t])
  <2>1. In(<<>>) = {}
    BY InEmpty
  <2> QED BY <2>1, HostSteps DEF Adds
<1>4. ASSUME NEW m \in In(toCtl'[t]), m \notin In(toCtl[t])
      PROVE  /\ m.kind = "result" => delivered[t] > 0
             /\ m.kind = "confirm" /\ m.arg = Skip => Settled(t)
  <2>1. NewToCtl(t, m)
    BY <1>4, HostTells DEF Told, Adds
  <2>2. m.kind = "result" => delivered[t] > 0
    BY <1>0, <2>1 DEF NewToCtl, HostTruth, Says
  <2>3. ASSUME m.kind = "confirm", m.arg = Skip PROVE Settled(t)
    <3>1. hpc[t] = "prepared" /\ Position(t, hown[t]) = Skip
      BY <2>1, <2>3 DEF NewToCtl
    <3>2. hown[t].partial # "open"
      BY <1>0, <3>1 DEF HostTruth, Position, Skip, Absent
    <3>3. hown[t] \in HostRecord
      BY DEF TypeOK, HostOK
    <3>4. hown[t].partial \in Dealt
      BY <1>0, <3>1, <3>2, <3>3 DEF HostTruth, HostRecord, Partials, Dealt
    <3> QED BY <1>0, <3>4 DEF HostTruth, Says, Dealt, Settled
  <2> QED BY <2>2, <2>3
<1>5. Messages(t)'
  BY <1>0, <1>1, <1>3, <1>4 DEF Messages
<1> QED BY <1>2, <1>5

LEMMA InitRecord ==
  ASSUME Init, NEW t \in Tasks
  PROVE  rec[t].partial = "none" /\ rec[t].state = "none" /\ ~rec[t].started
<1>1. PICK plan \in Plans :
        rec = [u \in Tasks |->
                 [NoRecord EXCEPT !.dir = plan.tasks[u].dir,
                                  !.policy = plan.tasks[u].policy]]
  BY DEF Init
<1>2. rec[t] = [NoRecord EXCEPT !.dir = plan.tasks[t].dir,
                                !.policy = plan.tasks[t].policy]
  BY <1>1
<1> QED BY <1>2 DEF NoRecord

LEMMA HonestInit == Init => Honest
<1> SUFFICES ASSUME Init, NEW t \in Tasks
             PROVE  Truth(t) /\ HostTruth(t) /\ Messages(t)
  BY DEF Honest
<1>1. /\ own[t] = NoRecord /\ pc[t] = "idle"
      /\ hrec[t] = NoHostRecord /\ hown[t] = NoHostRecord /\ hpc[t] = "none"
      /\ toHost[t] = <<>> /\ toCtl[t] = <<>>
  BY DEF Init
<1>2. rec[t].partial = "none" /\ rec[t].state = "none"
  BY InitRecord
<1>3. Truth(t)
  BY <1>1, <1>2 DEF Truth, Says, NoRecord
<1>4. HostTruth(t)
  BY <1>1 DEF HostTruth, Says, NoHostRecord, ReceiveAt
<1>5. Messages(t)
  BY <1>1, InEmpty DEF Messages
<1> QED BY <1>3, <1>4, <1>5

LEMMA HonestNext == TypeOK /\ Ownership /\ Honest /\ [Next]_vars => Honest'
<1> SUFFICES ASSUME TypeOK, Ownership, Honest, [Next]_vars, NEW u \in Tasks
             PROVE  (Truth(u) /\ HostTruth(u) /\ Messages(u))'
  BY DEF Honest
<1>0. Grows(u) /\ Truth(u) /\ HostTruth(u) /\ Messages(u)
  BY DiskGrows DEF Honest
<1>1. ASSUME NEW t \in Tasks,
             Worker(t) \/ StepFails(t) \/ Host(t) \/ HostFails(t)
      PROVE  (Truth(u) /\ HostTruth(u) /\ Messages(u))'
  <2>1. CASE t = u
    BY <1>1, <2>1, WorkerHonest, HostHonest, HostTellsTruth
  <2>2. CASE t # u
    BY <1>0, <1>1, <2>2, PartyFrame, HonestFrame
  <2> QED BY <2>1, <2>2
<1>2. CASE Service
  BY <1>2, ServiceHonest
<1>3. CASE UNCHANGED vars
  BY <1>0, <1>3, HonestFrame DEF vars, tasks, host, link, disk
<1> QED BY <1>1, <1>2, <1>3, NextParties

LEMMA HonestAlways == Spec => [](TypeOK /\ Ownership /\ Honest)
  BY HonestInit, HonestNext, OwnershipAlways, PTL DEF Spec

(***************************************************************************)
(* A record that is done has its file in place, or a file was there that   *)
(* the task was to leave alone.  What carries it: no message claims what   *)
(* the disk does not hold, the host tells of a file after the rename and a *)
(* worker believes nothing else, and what is in place stays there.         *)
(***************************************************************************)
THEOREM OnlyDeliveredIsDone == Spec => []DoneIsDelivered
<1>1. TypeOK /\ Honest => DoneIsDelivered
  BY DEF Honest, Truth, Says, Settled, DoneIsDelivered
<1> QED BY <1>1, HonestAlways, PTL

-----------------------------------------------------------------------------
(***************************************************************************)
(* What a step of a worker makes of its file and of what its copy and its  *)
(* record say of it.                                                       *)
(***************************************************************************)
SameFile(r, q) == r.partial = q.partial /\ r.name = q.name

\* The file is left alone.
Carries(t) ==
    LET r == rec[t]  o == own[t]  q == rec'[t]  c == own'[t]
        p == pc[t]   n == pc'[t]
    IN  /\ UNCHANGED <<file, temp, delivered>>
        /\ SameFile(c, o) \/ n = "ended"
        /\ q = r \/ SameFile(q, o)
        /\ n \notin {"prepared", "renamed"}
        /\ n = "open" => p = "prepared" /\ o.partial = "open" /\ SameFile(q, o)
        /\ n = "renaming" =>
             p = "open" /\ c = o /\ q = r /\ FinishAllowed(t, o, "here")

Prepares(t) ==
    /\ pc[t] = "receive" /\ pc'[t] = "prepared" /\ rec'[t] = rec[t]
    /\ ~PrepareFails(t, own[t], "here")
    /\ Prepare(t, own[t], "here")
    /\ own'[t] = Prepared(own[t], "here")
    /\ UNCHANGED <<file, delivered>>

Writes(t) ==
    /\ pc[t] = "open" /\ pc'[t] \in {"open", "fail"}
    /\ rec'[t] = rec[t] /\ own'[t] = own[t]
    /\ Write(t, own[t])
    /\ UNCHANGED <<file, delivered>>

Puts(t) ==
    /\ pc[t] = "renaming" /\ pc'[t] = "renamed" /\ rec'[t] = rec[t]
    /\ own'[t].partial = "done" /\ own'[t].name = own[t].name
    /\ PutInPlace(t, own[t], "here")

\* The host has said that the file is dealt with.
Deals(t) ==
    /\ pc[t] \in {"wait_confirm", "wait_result"}
    /\ pc'[t] \in {"done", "fail"}
    /\ own'[t].partial \in Dealt /\ own'[t].name = own[t].name
    /\ rec'[t] \in {rec[t], own'[t]}
    /\ own'[t].started = own[t].started
    /\ UNCHANGED <<file, temp, delivered>>

FileTurn(t) == Carries(t) \/ Prepares(t) \/ Writes(t) \/ Puts(t) \/ Deals(t)

LEMMA WorkerFile ==
  ASSUME TypeOK, NEW t \in Tasks, Worker(t) \/ StepFails(t)
  PROVE  FileTurn(t)
<1> DEFINE r == rec[t]  o == own[t]  q == rec'[t]  c == own'[t]
           p == pc[t]   n == pc'[t]
<1>0. o \in Record /\ r \in Record
  BY DEF TypeOK, TasksOK
<1>a. ASSUME UNCHANGED <<file, temp, delivered>>, SameFile(c, o),
             q = r \/ SameFile(q, o),
             n \notin {"prepared", "renamed", "open", "renaming"}
      PROVE  FileTurn(t)
  BY <1>a DEF FileTurn, Carries
<1>b. ASSUME UNCHANGED <<file, temp, delivered>>, c = o, q = r,
             n \notin {"prepared", "renamed", "open", "renaming"}
      PROVE  FileTurn(t)
  BY <1>a, <1>b DEF SameFile
<1>c. \A x : /\ SameFile([o EXCEPT !.state = x], o)
             /\ SameFile([o EXCEPT !.started = x], o)
  BY <1>0 DEF SameFile, Record
<1>1. ASSUME Register(t) PROVE FileTurn(t)
  <2> DEFINE x == [o EXCEPT !.state = "Running"]
  <2>1. /\ q \in {r, x} /\ c \in {o, x} /\ n \in {"begin", "settle"}
        /\ UNCHANGED <<file, temp, delivered>>
    BY <1>1 DEF Register, Goto, Keep, TypeOK, TasksOK, disk
  <2>2. SameFile(x, o) /\ SameFile(o, o)
    BY <1>c DEF SameFile
  <2> QED BY <1>a, <2>1, <2>2
<1>2. ASSUME BeginUpload(t) \/ BeginDownload(t) PROVE FileTurn(t)
  <2> DEFINE x == [o EXCEPT !.state = "Skipped"]
  <2>1. /\ q = r /\ c \in {o, x} /\ n \in {"done", "asked", "exists", "wait_init", "fail"}
        /\ UNCHANGED <<file, temp, delivered>>
    BY <1>2
    DEF BeginUpload, BeginDownload, Request, Goto, Keep, TypeOK, TasksOK, disk
  <2>2. SameFile(x, o) /\ SameFile(o, o)
    BY <1>c DEF SameFile
  <2> QED BY <1>a, <2>1, <2>2
<1>3. ASSUME NEW i, NameChecked(t, i) PROVE FileTurn(t)
  <2> DEFINE x == [o EXCEPT !.state = "Skipped"]
  <2>1. /\ q = r /\ c \in {o, x} /\ n \in {"done", "asked", "fail"}
        /\ UNCHANGED <<file, temp, delivered>>
    BY <1>3 DEF NameChecked, Got, Keep, Request, Goto, TypeOK, TasksOK, disk
  <2>2. SameFile(x, o) /\ SameFile(o, o)
    BY <1>c DEF SameFile
  <2> QED BY <1>a, <2>1, <2>2
<1>4. ASSUME SaveStarted(t) \/ \E i : SendAnswered(t, i) PROVE FileTurn(t)
  <2> DEFINE x == [o EXCEPT !.started = TRUE]
  <2>0. UNCHANGED <<file, temp, delivered>>
    BY <1>4 DEF SaveStarted, SendAnswered, disk
  <2>1. ASSUME NEW label \in {"wait_init", "receive"}, SaveThen(t, x, label, <<>>)
        PROVE  FileTurn(t)
    <3>1. c = x /\ q \in {r, x} /\ n \in {label, "fail"}
      BY <2>1, SaveTurn DEF TypeOK
    <3>2. SameFile(x, o)
      BY <1>0 DEF SameFile, Record
    <3> HIDE DEF x
    <3> QED BY <1>a, <2>0, <3>1, <3>2
  <2>2. ASSUME Goto(t, "fail"), UNCHANGED <<rec, own>> PROVE FileTurn(t)
    <3>1. c = o /\ q = r /\ n = "fail"
      BY <2>2 DEF Goto, TypeOK, TasksOK
    <3> QED BY <1>b, <2>0, <3>1
  <2> QED BY <1>4, <2>1, <2>2 DEF SaveStarted, SendAnswered
<1>5. ASSUME NEW i, ReceiveAnswered(t, i) PROVE FileTurn(t)
  <2> DEFINE s(m) == o.started /\ ~(m.kind = "response" /\ m.arg \in {4, 8, 12})
  <2>1. /\ q = r /\ n \in {"wait_confirm", "fail"}
        /\ c = o \/ c = [o EXCEPT !.started = s(toCtl[t][i])]
        /\ UNCHANGED <<file, temp, delivered>>
    BY <1>5
    DEF ReceiveAnswered, Request, Goto, Keep, TypeOK, TasksOK, disk
  <2> HIDE DEF s
  <2>2. SameFile(c, o)
    BY <1>c, <2>1 DEF SameFile
  <2> QED BY <1>a, <2>1, <2>2
<1>6. ASSUME NEW i, BlockConfirmed(t, i) PROVE FileTurn(t)
  <2>1. /\ q = r /\ c = o /\ n \in {"wait_result", "wait_ack", "fail"}
        /\ UNCHANGED <<file, temp, delivered>>
    BY <1>6
    DEF BlockConfirmed, Got, Request, Goto, TypeOK, TasksOK, disk
  <2> QED BY <1>b, <2>1
<1>7. ASSUME NEW x \in Dealt, NEW at \in {"wait_confirm", "wait_result"}, p = at,
             NEW ms, SaveThen(t, [o EXCEPT !.partial = x], "done", ms),
             UNCHANGED <<file, temp, delivered>>
      PROVE  FileTurn(t)
  <2>1. c = [o EXCEPT !.partial = x] /\ q \in {r, c} /\ n \in {"done", "fail"}
    BY <1>7, SaveTurn DEF TypeOK
  <2>2. c.partial = x /\ c.name = o.name /\ c.started = o.started
    BY <1>0, <2>1 DEF Record
  <2> QED BY <1>7, <2>1, <2>2 DEF FileTurn, Deals
<1>8. ASSUME NEW i, FileConfirmed(t, i) PROVE FileTurn(t)
  <2>0. p = "wait_confirm" /\ UNCHANGED <<file, temp, delivered>>
    BY <1>8 DEF FileConfirmed, Got, disk
  <2>1. CASE toCtl[t][i].kind = "confirm" /\ toCtl[t][i].arg = Skip
    BY <1>7, <1>8, <2>0, <2>1 DEF FileConfirmed, Dealt
  <2>2. CASE ~(toCtl[t][i].kind = "confirm" /\ toCtl[t][i].arg = Skip)
    <3>1. q = r /\ c = o /\ n \in {"wait_result", "wait_ack", "fail"}
      BY <1>8, <2>2 DEF FileConfirmed, Got, Request, Goto, TypeOK, TasksOK
    <3> QED BY <1>b, <2>0, <3>1
  <2> QED BY <2>1, <2>2
<1>9. ASSUME NEW i, FileSaved(t, i) PROVE FileTurn(t)
  <2>0. p = "wait_result" /\ UNCHANGED <<file, temp, delivered>>
    BY <1>9 DEF FileSaved, Got, disk
  <2>1. CASE ResultOk(toCtl[t][i])
    BY <1>7, <1>9, <2>0, <2>1 DEF FileSaved, Dealt
  <2>2. CASE ~ResultOk(toCtl[t][i])
    <3>1. q = r /\ c = o /\ n = "fail"
      BY <1>9, <2>2 DEF FileSaved, Goto, TypeOK, TasksOK
    <3> QED BY <1>b, <2>0, <3>1
  <2> QED BY <2>1, <2>2
<1>10. ASSUME NEW i, FileAsked(t, i) PROVE FileTurn(t)
  <2>1. CASE PrepareFails(t, o, "here") \/ toCtl[t][i].kind # "ask"
    <3>1. q = r /\ c = o /\ n = "fail" /\ UNCHANGED <<file, temp, delivered>>
      BY <1>10, <2>1 DEF FileAsked, Goto, TypeOK, TasksOK
    <3> QED BY <1>b, <3>1
  <2>2. CASE ~PrepareFails(t, o, "here") /\ toCtl[t][i].kind = "ask"
    <3>1. Prepares(t)
      BY <1>10, <2>2 DEF FileAsked, Got, Keep, Goto, Prepares, TypeOK, TasksOK
    <3> QED BY <3>1 DEF FileTurn
  <2> QED BY <2>1, <2>2
<1>11. ASSUME SavePrepared(t) PROVE FileTurn(t)
  <2>1. /\ c = o /\ p = "prepared" /\ UNCHANGED <<file, temp, delivered>>
        /\ \/ q = o /\ n = IF o.partial = "open" THEN "open" ELSE "complete"
           \/ q \in {r, o} /\ n = "fail"
    BY <1>11, SaveTurn DEF SavePrepared, TypeOK, disk
  <2>2. CASE n = "open"
    BY <2>1, <2>2 DEF FileTurn, Carries, SameFile
  <2>3. CASE n # "open"
    BY <1>a, <2>1, <2>3 DEF SameFile
  <2> QED BY <2>2, <2>3
<1>12. ASSUME NEW i, BlockReceived(t, i) PROVE FileTurn(t)
  <2>1. Writes(t)
    BY <1>12
    DEF BlockReceived, Got, Request, Goto, Writes, TypeOK, TasksOK, DiskOK
  <2> QED BY <2>1 DEF FileTurn
<1>13. ASSUME NEW i, FileCompleted(t, i) PROVE FileTurn(t)
  <2>1. /\ c = o /\ q = r /\ p = "open" /\ UNCHANGED <<file, temp, delivered>>
        /\ \/ n = "fail"
           \/ n = "renaming" /\ FinishAllowed(t, o, "here")
    BY <1>13 DEF FileCompleted, Got, Goto, KeepTemp, TypeOK, TasksOK
  <2>2. CASE n = "fail"
    BY <1>b, <2>1, <2>2
  <2>3. CASE n # "fail"
    BY <2>1, <2>3 DEF FileTurn, Carries, SameFile
  <2> QED BY <2>2, <2>3
<1>14. ASSUME Rename(t) PROVE FileTurn(t)
  <2>1. /\ p = "renaming" /\ n = "renamed" /\ q = r
        /\ c = [o EXCEPT !.partial = "done"]
        /\ PutInPlace(t, o, "here")
    BY <1>14 DEF Rename, Goto, Keep, TypeOK, TasksOK
  <2>2. c.partial = "done" /\ c.name = o.name
    BY <1>0, <2>1 DEF Record
  <2> QED BY <2>1, <2>2 DEF FileTurn, Puts
<1>15. ASSUME SaveRenamed(t) PROVE FileTurn(t)
  <2>1. /\ c = o /\ q \in {r, o} /\ n \in {"complete", "fail"}
        /\ UNCHANGED <<file, temp, delivered>>
    BY <1>15, SaveTurn DEF SaveRenamed, TypeOK, disk
  <2> QED BY <1>a, <2>1 DEF SameFile
<1>16. ASSUME NEW i, AllReceived(t, i) PROVE FileTurn(t)
  <2>1. /\ c = o /\ q = r /\ n \in {"done", "fail"}
        /\ UNCHANGED <<file, temp, delivered>>
    BY <1>16 DEF AllReceived, Got, Request, Goto, TypeOK, TasksOK, disk
  <2> QED BY <1>b, <2>1
<1>17. ASSUME \/ WaitStops(t) \/ Fail(t) \/ Drain(t) \/ StepFails(t)
       PROVE  FileTurn(t)
  <2>1. /\ q = r /\ c = o /\ n \in {"fail", "drain", "settle"}
        /\ UNCHANGED <<file, temp, delivered>>
    BY <1>17
    DEF WaitStops, Fail, Drain, StepFails, Goto, TypeOK, TasksOK, disk
  <2> QED BY <1>b, <2>1
<1>18. ASSUME Settle(t) PROVE FileTurn(t)
  <2>1. /\ n = "ended" /\ UNCHANGED <<file, temp, delivered>>
        /\ q = r \/ q = [o EXCEPT !.state = Outcome(t)]
    BY <1>18 DEF Settle, Goto, TypeOK, TasksOK, disk
  <2>2. SameFile([o EXCEPT !.state = Outcome(t)], o)
    BY <1>0 DEF SameFile, Record
  <2> QED BY <2>1, <2>2 DEF FileTurn, Carries
<1> QED
  BY <1>1, <1>2, <1>3, <1>4, <1>5, <1>6, <1>8, <1>9, <1>10, <1>11, <1>12,
     <1>13, <1>14, <1>15, <1>16, <1>17, <1>18
  DEF Worker, Upload, Download

\* The same for a step of the host.
HostCarries(t) ==
    LET r == hrec[t]  o == hown[t]  q == hrec'[t]  c == hown'[t]
        p == hpc[t]   n == hpc'[t]
    IN  /\ UNCHANGED <<file, temp, delivered>>
        /\ c = o
        /\ \/ n = p /\ q = r
           \/ /\ n \in {"s_confirm", "s_ack"} /\ q = r
              /\ \/ p = "s_confirm"
                 \/ \E m \in In(toHost[t]) : m.kind = "send"
           \/ /\ p = "prepared" /\ q = o
              /\ n = IF o.partial = "open" THEN "open" ELSE "complete"
           \/ /\ p = "open" /\ n = "renaming" /\ q = r
              /\ FinishAllowed(t, o, "there")
           \/ p = "renamed" /\ n = "complete" /\ q = o

HostBegins(t) ==
    /\ UNCHANGED <<file, temp, delivered>>
    /\ Receiving = {}
    /\ hpc'[t] = "ready" /\ hown'[t] = hrec'[t]
    /\ \E m \in In(toHost[t]) :
         /\ m.kind = "receive"
         /\ \/ m.arg = 4 /\ hrec[t].policy # 0 /\ hrec'[t] = hrec[t]
            \/ /\ m.arg # 4 /\ hrec[t].policy = 0
               /\ hrec'[t] = [NoHostRecord EXCEPT !.policy = m.arg]

HostPrepares(t) ==
    /\ hpc[t] = "ready" /\ hpc'[t] = "prepared" /\ hrec'[t] = hrec[t]
    /\ ~PrepareFails(t, hown[t], "there")
    /\ Prepare(t, hown[t], "there")
    /\ hown'[t] = Prepared(hown[t], "there")
    /\ UNCHANGED <<file, delivered>>

HostWrites(t) ==
    /\ hpc[t] = "open" /\ hpc'[t] = "open"
    /\ hrec'[t] = hrec[t] /\ hown'[t] = hown[t]
    /\ Write(t, hown[t])
    /\ UNCHANGED <<file, delivered>>

HostPuts(t) ==
    /\ hpc[t] = "renaming" /\ hpc'[t] = "renamed" /\ hrec'[t] = hrec[t]
    /\ hown'[t].partial = "done" /\ hown'[t].name = hown[t].name
    /\ PutInPlace(t, hown[t], "there")

HostEnds(t) ==
    /\ hpc[t] # "none" /\ hpc'[t] = "none" /\ hown'[t] = NoHostRecord
    /\ UNCHANGED <<file, delivered>>
    /\ \/ hrec'[t] \in {hown[t], hrec[t]} /\ UNCHANGED temp
       \/ /\ hrec'[t] = NoHostRecord /\ temp' = Cleaned(t, hown[t])
          /\ \/ t \in discard
             \/ hpc[t] = "complete" /\ \E m \in In(toHost[t]) : m.kind = "finish"

HostClears(t) ==
    /\ Receiving = {}
    /\ hpc'[t] = hpc[t] /\ hown'[t] = hown[t]
    /\ hrec'[t] \in {hrec[t], NoHostRecord} /\ temp' = Cleaned(t, hrec[t])
    /\ \E m \in In(toHost[t]) : m.kind = "clear"
    /\ UNCHANGED <<file, delivered>>

HostFileTurn(t) ==
    \/ HostCarries(t) \/ HostBegins(t) \/ HostPrepares(t) \/ HostWrites(t)
    \/ HostPuts(t) \/ HostEnds(t) \/ HostClears(t)

LEMMA HostFile ==
  ASSUME TypeOK, NEW t \in Tasks, Host(t) \/ HostFails(t)
  PROVE  /\ HostFileTurn(t)
         /\ \A u \in discard' :
              \/ u \in discard
              \/ u = t /\ \E m \in In(toHost[t]) : m.kind = "clear"
<1> DEFINE r == hrec[t]  o == hown[t]  q == hrec'[t]  c == hown'[t]
           p == hpc[t]   n == hpc'[t]
           Told1 == \A u \in discard' :
              u \in discard \/ (u = t /\ \E m \in In(toHost[t]) : m.kind = "clear")
<1>0. o \in HostRecord /\ r \in HostRecord
  BY DEF TypeOK, HostOK
<1> SUFFICES HostFileTurn(t) /\ Told1
  OBVIOUS
<1>i. \A i \in DOMAIN toHost[t] : toHost[t][i] \in In(toHost[t])
  BY DEF In
<1>a. ASSUME UNCHANGED <<file, temp, delivered>>, q = r, c = o, n = p,
             discard' = discard
      PROVE  HostFileTurn(t) /\ Told1
  BY <1>a DEF HostFileTurn, HostCarries
<1>b. ASSUME NEW x \in {o, r}, NEW rest, EndJob(t, x, rest), p # "none",
             UNCHANGED <<file, temp, delivered>>
      PROVE  HostFileTurn(t) /\ Told1
  <2>1. q = x /\ c = NoHostRecord /\ n = "none" /\ discard' \subseteq discard
    BY <1>b DEF EndJob, HostGoto, TypeOK, HostOK
  <2> QED BY <1>b, <2>1 DEF HostFileTurn, HostEnds
<1>c. ASSUME NEW rest, EndJob(t, NoHostRecord, rest), p # "none",
             temp' = Cleaned(t, o), UNCHANGED <<file, delivered>>,
             \/ t \in discard
             \/ p = "complete" /\ \E m \in In(toHost[t]) : m.kind = "finish"
      PROVE  HostFileTurn(t) /\ Told1
  <2>1. /\ q = NoHostRecord /\ c = NoHostRecord /\ n = "none"
        /\ discard' \subseteq discard
    BY <1>c DEF EndJob, HostGoto, TypeOK, HostOK
  <2> QED BY <1>c, <2>1 DEF HostFileTurn, HostEnds
<1>1. ASSUME NEW i \in DOMAIN toHost[t], Late(t, i) \/ NameAsked(t, i)
      PROVE  HostFileTurn(t) /\ Told1
  BY <1>a, <1>1 DEF Late, NameAsked, host, disk
<1>2. ASSUME NEW i \in DOMAIN toHost[t], ReceiveAsked(t, i)
      PROVE  HostFileTurn(t) /\ Told1
  <2> DEFINE m == toHost[t][i]
             x == [NoHostRecord EXCEPT !.policy = m.arg]
  <2>0. UNCHANGED <<file, temp, delivered>>
    BY <1>2 DEF ReceiveAsked, disk
  <2>1. CASE UNCHANGED host
    BY <1>a, <2>0, <2>1 DEF host
  <2>2. CASE ~UNCHANGED host
    <3> DEFINE y == IF m.arg = 4 THEN r ELSE x
    <3>0. /\ Refusal(t, m.arg) = 1 /\ m.kind = "receive"
          /\ hrec' = [hrec EXCEPT ![t] = y] /\ hown' = [hown EXCEPT ![t] = y]
          /\ hpc' = [hpc EXCEPT ![t] = "ready"]
          /\ discard' = discard
      BY <1>2, <2>2 DEF ReceiveAsked, Asked
    <3>1. q = c /\ c = y /\ n = "ready"
      BY <3>0 DEF TypeOK, HostOK
    <3>2. Receiving = {} /\ (m.arg = 4 <=> r.policy # 0)
      BY <3>0 DEF Refusal, HostRecorded
    <3>3. m \in In(toHost[t])
      BY <1>i
    <3>4. HostBegins(t)
      BY <2>0, <3>0, <3>1, <3>2, <3>3 DEF HostBegins
    <3> QED BY <3>0, <3>4 DEF HostFileTurn
  <2> QED BY <2>1, <2>2
<1>3. ASSUME NEW i \in DOMAIN toHost[t], HostFileAsked(t, i)
      PROVE  HostFileTurn(t) /\ Told1
  <2>1. CASE PrepareFails(t, o, "there")
    BY <1>b, <1>3, <2>1 DEF HostFileAsked, HostGot
  <2>2. CASE ~PrepareFails(t, o, "there")
    <3>1. HostPrepares(t) /\ discard' = discard
      BY <1>3, <2>2
      DEF HostFileAsked, HostGot, HostGoto, HostPrepares, TypeOK, HostOK
    <3> QED BY <3>1 DEF HostFileTurn
  <2> QED BY <2>1, <2>2
<1>4. ASSUME HostSavePrepared(t) \/ HostSaveRenamed(t)
      PROVE  HostFileTurn(t) /\ Told1
  <2>1. /\ q = o /\ c = o /\ UNCHANGED <<file, temp, delivered>>
        /\ discard' = discard
        /\ \/ /\ p = "prepared"
              /\ n = IF o.partial = "open" THEN "open" ELSE "complete"
           \/ p = "renamed" /\ n = "complete"
    BY <1>4
    DEF HostSavePrepared, HostSaveRenamed, HostGoto, TypeOK, HostOK, disk
  <2> QED BY <2>1 DEF HostFileTurn, HostCarries
<1>5. ASSUME NEW i \in DOMAIN toHost[t], HostBlockReceived(t, i)
      PROVE  HostFileTurn(t) /\ Told1
  <2>1. HostWrites(t) /\ discard' = discard
    BY <1>5 DEF HostBlockReceived, HostGot, HostWrites, host
  <2> QED BY <2>1 DEF HostFileTurn
<1>6. ASSUME NEW i \in DOMAIN toHost[t], HostFileCompleted(t, i)
      PROVE  HostFileTurn(t) /\ Told1
  <2>1. CASE FinishAllowed(t, o, "there")
    <3>1. /\ q = r /\ c = o /\ p = "open" /\ n = "renaming"
          /\ UNCHANGED <<file, temp, delivered>> /\ discard' = discard
      BY <1>6, <2>1 DEF HostFileCompleted, HostGot, HostGoto, TypeOK, HostOK
    <3> QED BY <2>1, <3>1 DEF HostFileTurn, HostCarries
  <2>2. CASE ~FinishAllowed(t, o, "there")
    BY <1>b, <1>6, <2>2 DEF HostFileCompleted, HostGot, KeepTemp
  <2> QED BY <2>1, <2>2
<1>7. ASSUME HostRename(t) PROVE HostFileTurn(t) /\ Told1
  <2>1. /\ p = "renaming" /\ c = [o EXCEPT !.partial = "done"]
        /\ q = r /\ n = "renamed" /\ discard' = discard
        /\ PutInPlace(t, o, "there")
    BY <1>7 DEF HostRename, HostGoto, TypeOK, HostOK
  <2>2. c.partial = "done" /\ c.name = o.name
    BY <1>0, <2>1 DEF HostRecord
  <2> QED BY <2>1, <2>2 DEF HostFileTurn, HostPuts
<1>8. ASSUME NEW i \in DOMAIN toHost[t], HostFinished(t, i)
      PROVE  HostFileTurn(t) /\ Told1
  <2>1. /\ EndJob(t, NoHostRecord, Rest(t, i)) /\ temp' = Cleaned(t, o)
        /\ UNCHANGED <<file, delivered>> /\ p = "complete"
        /\ toHost[t][i].kind = "finish"
    BY <1>8 DEF HostFinished, HostGot
  <2> QED BY <1>c, <1>i, <2>1
<1>9. ASSUME NEW i \in DOMAIN toHost[t], HostPaused(t, i)
      PROVE  HostFileTurn(t) /\ Told1
  BY <1>b, <1>9 DEF HostPaused, HostGot, disk
<1>10. ASSUME HostStops(t) PROVE HostFileTurn(t) /\ Told1
  <2>1. p # "none" /\ UNCHANGED <<file, delivered>>
    BY <1>10 DEF HostStops, HostWaits
  <2>2. CASE t \in discard
    BY <1>c, <1>10, <2>1, <2>2 DEF HostStops
  <2>3. CASE t \notin discard
    BY <1>b, <1>10, <2>1, <2>3 DEF HostStops
  <2> QED BY <2>2, <2>3
<1>11. ASSUME HostFails(t) PROVE HostFileTurn(t) /\ Told1
  <2>1. /\ p # "none" /\ UNCHANGED <<file, temp, delivered>>
        /\ EndJob(t, o, toHost[t]) \/ EndJob(t, r, toHost[t])
    BY <1>11 DEF HostFails, disk
  <2> QED BY <1>b, <2>1
<1>12. ASSUME NEW i \in DOMAIN toHost[t], ClearAsked(t, i)
       PROVE  HostFileTurn(t) /\ Told1
  <2>1. /\ c = o /\ n = p /\ UNCHANGED <<file, delivered>>
        /\ \E m \in In(toHost[t]) : m.kind = "clear"
    BY <1>12, <1>i DEF ClearAsked, Asked
  <2>2. CASE UNCHANGED <<hrec, temp>>
    <3>1. HostCarries(t)
      BY <2>1, <2>2 DEF HostCarries
    <3>2. discard' = discard \/ discard' = discard \cup {t}
      BY <1>12 DEF ClearAsked
    <3> QED BY <2>1, <3>1, <3>2 DEF HostFileTurn
  <2>3. CASE ~UNCHANGED <<hrec, temp>>
    <3>1. /\ Receiving = {} /\ q \in {r, NoHostRecord} /\ temp' = Cleaned(t, r)
          /\ discard' = discard
      BY <1>12, <2>3 DEF ClearAsked, TypeOK, HostOK
    <3>2. HostClears(t)
      BY <2>1, <3>1 DEF HostClears
    <3> QED BY <3>1, <3>2 DEF HostFileTurn
  <2> QED BY <2>2, <2>3
<1>13. ASSUME NEW i \in DOMAIN toHost[t], SendAsked(t, i)
       PROVE  HostFileTurn(t) /\ Told1
  <2>1. /\ c = o /\ q = r /\ n = "s_confirm" /\ toHost[t][i].kind = "send"
        /\ UNCHANGED <<file, temp, delivered>> /\ discard' = discard
    BY <1>13 DEF SendAsked, Asked, HostGoto, TypeOK, HostOK, disk
  <2> QED BY <1>i, <2>1 DEF HostFileTurn, HostCarries
<1>14. ASSUME NEW i \in DOMAIN toHost[t], SendConfirmed(t, i)
       PROVE  HostFileTurn(t) /\ Told1
  <2>1. CASE toHost[t][i].arg \in {Skip, Size}
    BY <1>b, <1>14, <2>1 DEF SendConfirmed, HostGot, disk
  <2>2. CASE toHost[t][i].arg \notin {Skip, Size}
    <3>1. /\ c = o /\ q = r /\ p = "s_confirm" /\ n = "s_ack"
          /\ UNCHANGED <<file, temp, delivered>> /\ discard' = discard
      BY <1>14, <2>2 DEF SendConfirmed, HostGot, HostGoto, TypeOK, HostOK, disk
    <3> QED BY <3>1 DEF HostFileTurn, HostCarries
  <2> QED BY <2>1, <2>2
<1>15. ASSUME NEW i \in DOMAIN toHost[t], SendAcked(t, i)
       PROVE  HostFileTurn(t) /\ Told1
  <2>1. CASE toHost[t][i].arg = Size
    BY <1>b, <1>15, <2>1 DEF SendAcked, HostGot, disk
  <2>2. CASE toHost[t][i].arg # Size
    BY <1>a, <1>15, <2>2 DEF SendAcked, host, disk
  <2> QED BY <2>1, <2>2
<1> QED
  BY <1>1, <1>2, <1>3, <1>4, <1>5, <1>6, <1>7, <1>8, <1>9, <1>10, <1>11,
     <1>12, <1>13, <1>14, <1>15
  DEF Host

-----------------------------------------------------------------------------
(***************************************************************************)
(* Who may put a file in place.  Downloads run one after the other, the    *)
(* host receives one file at a time, and the name of a file that is about  *)
(* to be renamed without leave to overwrite is free.                       *)
(***************************************************************************)
Exclusive ==
    /\ \A t, u \in Running :
         rec[t].dir = "download" /\ rec[u].dir = "download" => t = u
    /\ \A t, u \in Receiving : t = u

Vacant(t) ==
    /\ pc[t] = "renaming" /\ own[t].policy # 1 =>
         file["here"][own[t].name] = Free
    /\ hpc[t] = "renaming" /\ hown[t].policy # 1 =>
         file["there"][hown[t].name] = Free

Serialised == Exclusive /\ \A t \in Tasks : Vacant(t)

LEMMA ReceivingIs == HostOK => Receiving = {t \in Tasks : hpc[t] \in ReceiveAt}
  BY DEF HostOK, HostAt, ReceiveAt, Receiving

LEMMA ExclusiveNext ==
  ASSUME TypeOK, Ownership, Honest, [Next]_vars, Exclusive
  PROVE  Exclusive'
<1>0. HostOK'
  BY TypeNext DEF TypeOK
<1>a. Receiving = {t \in Tasks : hpc[t] \in ReceiveAt}
  BY ReceivingIs DEF TypeOK
<1>b. Receiving' = {t \in Tasks : hpc'[t] \in ReceiveAt}
  BY <1>0 DEF HostOK, HostAt, ReceiveAt, Receiving
<1> DEFINE Same == \A t \in Tasks : rec'[t].dir = rec[t].dir
<1>1. ASSUME NEW t \in Tasks, Worker(t) \/ StepFails(t)
      PROVE  Running' = Running /\ Same /\ hpc' = hpc
  <2>1. pc'[t] # "idle" /\ pc[t] # "idle" /\ rec'[t].dir = rec[t].dir
    BY <1>1, WorkerOwns DEF Ownership, Fits, Active, SameTask
  <2>2. \A u \in Tasks \ {t} : pc'[u] = pc[u] /\ rec'[u] = rec[u]
    BY <1>1, WorkerFrameAll
  <2>3. hpc' = hpc
    BY <1>1, WorkerFrame DEF host
  <2> QED BY <2>1, <2>2, <2>3 DEF Running
<1>2. ASSUME NEW t \in Tasks, Host(t) \/ HostFails(t)
      PROVE  /\ Running' = Running /\ Same
             /\ \/ Receiving' \subseteq Receiving
                \/ Receiving = {} /\ Receiving' \subseteq {t}
  <2>1. Running' = Running /\ Same
    BY <1>2, HostFrame DEF tasks, Running
  <2>2. \A u \in Tasks \ {t} : hpc'[u] = hpc[u]
    BY <1>2, PartyFrame
  <2>3. hpc'[t] \in ReceiveAt => hpc[t] \in ReceiveAt \/ Receiving = {}
    BY <1>2, HostFile
    DEF HostFileTurn, HostCarries, HostBegins, HostPrepares, HostWrites,
        HostPuts, HostEnds, HostClears, ReceiveAt
  <2> QED BY <1>a, <1>b, <2>1, <2>2, <2>3
<1>3. ASSUME Service
      PROVE  /\ Same /\ Receiving' \subseteq Receiving
             /\ \/ Running' \subseteq Running
                \/ \E t \in Tasks : Serial(t) /\ Running' \subseteq Running \cup {t}
  <2>1. Same
    BY <1>3, ServiceRecords DEF RecordStays, SameData, SameTask
  <2>2. Receiving' \subseteq Receiving
    BY <1>3, <1>a, <1>b, ServiceHost DEF ReceiveAt
  <2>3. CASE \E t \in Tasks : Start(t)
    <3>1. PICK t \in Tasks : Start(t)
      BY <2>3
    <3>2. Serial(t) /\ Running' \subseteq Running \cup {t}
      BY <3>1 DEF Start, Running, TypeOK, TasksOK
    <3> QED BY <2>1, <2>2, <3>2
  <2>4. CASE ~\E t \in Tasks : Start(t)
    <3>1. \A t \in Tasks : pc'[t] \in {"idle", pc[t]}
      BY <1>3, <2>4, ServiceWorkers DEF WorkerKept
    <3> QED BY <2>1, <2>2, <3>1 DEF Running
  <2> QED BY <2>3, <2>4
<1>4. ASSUME NEW S, NEW t, Running' \subseteq S, S \subseteq Running \cup {t},
             t \in S => Serial(t) \/ t \in Running, Same
      PROVE  \A u, v \in Running' :
               rec'[u].dir = "download" /\ rec'[v].dir = "download" => u = v
  <2>1. Running' \subseteq Tasks /\ Running \subseteq Tasks
    BY DEF Running
  <2> QED BY <1>4, <2>1 DEF Exclusive, Serial
<1>5. Running' \subseteq Running /\ Same =>
        \A u, v \in Running' :
          rec'[u].dir = "download" /\ rec'[v].dir = "download" => u = v
  <2>1. Running' \subseteq Tasks
    BY DEF Running
  <2> QED BY <2>1 DEF Exclusive
<1>6. CASE UNCHANGED vars
  BY <1>6 DEF vars, tasks, host, Exclusive, Running, Receiving
<1>7. ASSUME NEW t \in Tasks, Worker(t) \/ StepFails(t) PROVE Exclusive'
  <2>1. Receiving' = Receiving
    BY <1>1, <1>7 DEF Receiving
  <2> QED BY <1>1, <1>5, <1>7, <2>1 DEF Exclusive
<1>8. ASSUME NEW t \in Tasks, Host(t) \/ HostFails(t) PROVE Exclusive'
  BY <1>2, <1>5, <1>8 DEF Exclusive
<1>9. CASE Service
  <2>1. \A u, v \in Receiving' : u = v
    BY <1>3, <1>9 DEF Exclusive
  <2>2. \A u, v \in Running' :
          rec'[u].dir = "download" /\ rec'[v].dir = "download" => u = v
    BY <1>3, <1>4, <1>5, <1>9
  <2> QED BY <2>1, <2>2 DEF Exclusive
<1> QED BY <1>6, <1>7, <1>8, <1>9, NextParties

\* A file of one side comes from a worker here, from a job there.
LEMMA FilesChange ==
  ASSUME TypeOK, Ownership, Honest, [Next]_vars
  PROVE  \/ UNCHANGED file
         \/ \E t \in Tasks :
              /\ Worker(t) \/ StepFails(t)
              /\ Puts(t) /\ t \in Running /\ rec[t].dir = "download"
         \/ \E t \in Tasks :
              /\ Host(t) \/ HostFails(t)
              /\ HostPuts(t) /\ t \in Receiving
<1>1. ASSUME NEW t \in Tasks, Worker(t) \/ StepFails(t), ~UNCHANGED file
      PROVE  Puts(t) /\ t \in Running /\ rec[t].dir = "download"
  <2>1. Puts(t)
    BY <1>1, WorkerFile DEF FileTurn, Carries, Prepares, Writes, Deals
  <2>2. pc[t] = "renaming" /\ Owned(rec[t], own[t], pc[t])
    BY <2>1 DEF Puts, Ownership, Owns
  <2> QED BY <2>1, <2>2 DEF Owned, DownloadAt, Running
<1>2. ASSUME NEW t \in Tasks, Host(t) \/ HostFails(t), ~UNCHANGED file
      PROVE  HostPuts(t) /\ t \in Receiving
  <2>1. HostPuts(t)
    BY <1>2, HostFile
    DEF HostFileTurn, HostCarries, HostBegins, HostPrepares, HostWrites,
        HostEnds, HostClears
  <2> QED BY <2>1 DEF HostPuts, Receiving
<1>3. Service \/ UNCHANGED vars => UNCHANGED file
  BY ServiceFrame DEF vars, disk
<1> QED BY <1>1, <1>2, <1>3, NextParties

LEMMA VacantNext ==
  ASSUME TypeOK, Ownership, Honest, [Next]_vars, Serialised, NEW t \in Tasks
  PROVE  Vacant(t)'
<1>0. Vacant(t) /\ Owned(rec[t], own[t], pc[t])
  BY DEF Serialised, Ownership, Owns
<1>1. ASSUME pc'[t] = "renaming", own'[t].policy # 1
      PROVE  file["here"][own'[t].name] = Free /\ rec[t].dir = "download"
             /\ t \in Running
             /\ ~Puts(t)
  <2>1. ASSUME Worker(t) \/ StepFails(t)
        PROVE  own'[t] = own[t] /\ FinishAllowed(t, own[t], "here") /\ pc[t] = "open"
    BY <1>1, <2>1, WorkerFile
    DEF FileTurn, Carries, Prepares, Writes, Puts, Deals
  <2>2. ASSUME ~(Worker(t) \/ StepFails(t))
        PROVE  own'[t] = own[t] /\ pc[t] = "renaming"
    <3>1. ASSUME Service PROVE own'[t] = own[t] /\ pc'[t] = pc[t]
      BY <1>1, <3>1, ServiceWorkers DEF WorkerKept
    <3>2. UNCHANGED vars => own'[t] = own[t] /\ pc'[t] = pc[t]
      BY DEF vars, tasks
    <3>3. ASSUME NEW u \in Tasks,
                 Worker(u) \/ StepFails(u) \/ Host(u) \/ HostFails(u)
          PROVE  own'[t] = own[t] /\ pc'[t] = pc[t]
      BY <2>2, <3>3, PartyFrame, HostFrame DEF tasks
    <3> QED BY <1>1, <3>1, <3>2, <3>3, NextParties
  <2>3. pc[t] \in DownloadAt /\ pc[t] # "idle"
    BY <2>1, <2>2 DEF DownloadAt
  <2>4. file["here"][own'[t].name] = Free
    BY <1>0, <1>1, <2>1, <2>2 DEF FinishAllowed, Vacant
  <2> QED BY <1>0, <1>1, <2>3, <2>4 DEF Owned, Puts, Running
<1>2. ASSUME hpc'[t] = "renaming", hown'[t].policy # 1
      PROVE  file["there"][hown'[t].name] = Free /\ t \in Receiving
             /\ ~HostPuts(t)
  <2>1. ASSUME Host(t) \/ HostFails(t)
        PROVE  /\ hown'[t] = hown[t]
               /\ \/ hpc[t] = "renaming"
                  \/ hpc[t] = "open" /\ FinishAllowed(t, hown[t], "there")
    <3>1. CASE HostCarries(t)
      BY <1>2, <3>1 DEF HostCarries
    <3>2. CASE HostClears(t)
      BY <1>2, <3>2 DEF HostClears
    <3> QED BY <1>2, <2>1, <3>1, <3>2, HostFile
        DEF HostFileTurn, HostBegins, HostPrepares, HostWrites, HostPuts,
            HostEnds
  <2>2. ASSUME ~(Host(t) \/ HostFails(t))
        PROVE  hown'[t] = hown[t] /\ hpc[t] = "renaming"
    <3>1. ASSUME Service PROVE hown'[t] = hown[t] /\ hpc'[t] = hpc[t]
      BY <1>2, <3>1, ServiceHost
    <3>2. UNCHANGED vars => hown'[t] = hown[t] /\ hpc'[t] = hpc[t]
      BY DEF vars, host
    <3>3. ASSUME NEW u \in Tasks,
                 Worker(u) \/ StepFails(u) \/ Host(u) \/ HostFails(u)
          PROVE  hown'[t] = hown[t] /\ hpc'[t] = hpc[t]
      BY <2>2, <3>3, PartyFrame, WorkerFrame DEF host
    <3> QED BY <1>2, <3>1, <3>2, <3>3, NextParties
  <2>3. hpc[t] \in {"open", "renaming"}
    BY <2>1, <2>2
  <2>4. file["there"][hown'[t].name] = Free
    BY <1>0, <1>2, <2>1, <2>2 DEF FinishAllowed, Vacant
  <2> QED BY <1>2, <2>3, <2>4 DEF HostPuts, Receiving
<1>3. CASE UNCHANGED file
  BY <1>1, <1>2, <1>3 DEF Vacant
<1>4. ASSUME NEW u \in Tasks, Puts(u), u \in Running, rec[u].dir = "download",
             Worker(u) \/ StepFails(u)
      PROVE  Vacant(t)'
  <2>1. ~(pc'[t] = "renaming" /\ own'[t].policy # 1)
    BY <1>1, <1>4 DEF Serialised, Exclusive
  <2>2. own[u] \in Record /\ DiskOK
    BY DEF TypeOK, TasksOK
  <2>3. \A n \in Names : file'["there"][n] = file["there"][n]
    BY <1>4, <2>2, PutTemp DEF Puts
  <2>4. hown'[t].name \in Names
    <3>1. HostOK'
      BY TypeNext DEF TypeOK
    <3> QED BY <3>1 DEF HostOK, HostRecord
  <2> QED BY <1>2, <2>1, <2>3, <2>4 DEF Vacant
<1>5. ASSUME NEW u \in Tasks, HostPuts(u), u \in Receiving,
             Host(u) \/ HostFails(u)
      PROVE  Vacant(t)'
  <2>1. ~(hpc'[t] = "renaming" /\ hown'[t].policy # 1)
    BY <1>2, <1>5 DEF Serialised, Exclusive
  <2>2. hown[u] \in HostRecord /\ DiskOK
    BY DEF TypeOK, HostOK
  <2>3. \A n \in Names : file'["here"][n] = file["here"][n]
    BY <1>5, <2>2, PutTemp DEF HostPuts
  <2>4. own'[t].name \in Names
    <3>1. TasksOK'
      BY TypeNext DEF TypeOK
    <3> QED BY <3>1 DEF TasksOK, Record
  <2> QED BY <1>1, <2>1, <2>3, <2>4 DEF Vacant
<1> QED BY <1>3, <1>4, <1>5, FilesChange

LEMMA SerialisedAlways ==
    Spec => [](TypeOK /\ Ownership /\ Honest /\ Serialised)
<1>1. Init => Serialised
  BY DEF Init, Serialised, Exclusive, Vacant, Running, Receiving
<1>2. TypeOK /\ Ownership /\ Honest /\ Serialised /\ [Next]_vars => Serialised'
  BY ExclusiveNext, VacantNext DEF Serialised
<1> QED BY <1>1, <1>2, HonestAlways, PTL DEF Spec

(***************************************************************************)
(* No file is replaced but by a task that is to overwrite.  The name is    *)
(* looked at a step before the rename; in between nobody takes it, because *)
(* downloads are serial here, receive jobs are there, and a task's policy  *)
(* is the same in every record and message of it.                          *)
(***************************************************************************)
THEOREM NothingReplaced == Spec => NeverReplaces
<1>1. ASSUME TypeOK, Ownership, Honest, Serialised, [Next]_vars,
             NEW d \in {"here", "there"}, NEW n \in Names,
             file[d][n] # Free, file'[d][n] # file[d][n]
      PROVE  \E t \in Tasks : file'[d][n] = t /\ rec[t].policy = 1
  <2>1. ASSUME NEW t \in Tasks, Puts(t) PROVE file'[d][n] = t /\ rec[t].policy = 1
    <3>1. own[t] \in Record /\ DiskOK /\ PutInPlace(t, own[t], "here")
      BY <1>1, <2>1 DEF Puts, TypeOK, TasksOK
    <3>2. d = "here" /\ n = own[t].name /\ file'[d][n] = t
      BY <1>1, <3>1, PutTemp
    <3>3. own[t].policy = 1
      BY <1>1, <2>1, <3>2 DEF Puts, Serialised, Vacant
    <3>4. SameTask(own[t], rec[t])
      BY <1>1, <2>1 DEF Puts, Ownership, Owns, Owned
    <3> QED BY <3>2, <3>3, <3>4 DEF SameTask
  <2>2. ASSUME NEW t \in Tasks, HostPuts(t)
        PROVE  file'[d][n] = t /\ rec[t].policy = 1
    <3>1. hown[t] \in HostRecord /\ DiskOK /\ PutInPlace(t, hown[t], "there")
      BY <1>1, <2>2 DEF HostPuts, TypeOK, HostOK
    <3>2. d = "there" /\ n = hown[t].name /\ file'[d][n] = t
      BY <1>1, <3>1, PutTemp
    <3>3. hown[t].policy = 1
      BY <1>1, <2>2, <3>2 DEF HostPuts, Serialised, Vacant
    <3>4. hown[t].policy = rec[t].policy
      BY <1>1, <2>2 DEF HostPuts, Honest, HostTruth, ReceiveAt
    <3> QED BY <3>2, <3>3, <3>4
  <2> QED BY <1>1, <2>1, <2>2, FilesChange
<1>2. TypeOK /\ Ownership /\ Honest /\ Serialised /\ [Next]_vars =>
        [\A d \in {"here", "there"}, n \in Names :
           file[d][n] # Free /\ file'[d][n] # file[d][n] =>
               \E t \in Tasks : file'[d][n] = t /\ rec[t].policy = 1]_vars
  BY <1>1
<1> QED BY <1>2, SerialisedAlways, PTL DEF Spec, NeverReplaces

-----------------------------------------------------------------------------
\* Only for the user's cancellation does the host throw away a file.
Clears(t) ==
    /\ t \in discard => t \in cleaned
    /\ \A m \in In(toHost[t]) : m.kind = "clear" => t \in cleaned

LEMMA ClearsNext ==
  ASSUME TypeOK, NEW t \in Tasks, Clears(t), [Next]_vars
  PROVE  Clears(t)'
<1>0. /\ t \in discard => t \in cleaned
      /\ \A m \in In(toHost[t]) : m.kind = "clear" => t \in cleaned
  BY DEF Clears
<1>1. CASE \E u \in Tasks : Worker(u) \/ StepFails(u)
  <2>1. PICK u \in Tasks : Worker(u) \/ StepFails(u)
    BY <1>1
  <2>2. UNCHANGED <<discard, cleaned>>
    BY <2>1, WorkerFrame
  <2>3. PICK ms \in Seq(Message) :
          /\ Adds(toHost, toHost', u, ms)
          /\ \A m \in In(ms) : NewToHost(u, m)
    BY <2>1, WorkerSends DEF Sends
  <2>4. \A m \in In(toHost'[t]) : m.kind = "clear" => m \in In(toHost[t])
    BY <2>3 DEF Adds, NewToHost
  <2> QED BY <1>0, <2>2, <2>4 DEF Clears
<1>2. CASE \E u \in Tasks : Host(u) \/ HostFails(u)
  <2>1. PICK u \in Tasks : Host(u) \/ HostFails(u)
    BY <1>2
  <2>2. UNCHANGED cleaned
    BY <2>1, HostFrame
  <2>3. In(toHost'[t]) \subseteq In(toHost[t])
    BY <2>1, HostSteps, InEmpty DEF Adds
  <2>4. t \in discard' =>
          t \in discard \/ \E m \in In(toHost[t]) : m.kind = "clear"
    BY <2>1, HostFile
  <2> QED BY <1>0, <2>2, <2>3, <2>4 DEF Clears
<1>3. CASE Service
  <2>1. discard' \in {discard, {}} /\ cleaned \subseteq cleaned'
    BY <1>3, ServiceHost, ServiceTemp
  <2>2. \A m \in In(toHost'[t]) :
          m.kind = "clear" => m \in In(toHost[t]) \/ t \in cleaned'
    BY <1>3, ServiceLink
  <2> QED BY <1>0, <2>1, <2>2 DEF Clears
<1>4. CASE UNCHANGED vars
  BY <1>0, <1>4 DEF vars, Clears
<1> QED BY <1>1, <1>2, <1>3, <1>4, NextParties

-----------------------------------------------------------------------------
(***************************************************************************)
(* What was received stays there for the record that names it.             *)
(***************************************************************************)
Kept(r, t) ==
    r.partial = "open" => temp[t][r.name] # Absent \/ delivered[t] > 0

Saved(t) ==
    t \notin cleaned =>
       /\ Kept(hrec[t], t) /\ Kept(hown[t], t)
       /\ rec[t].dir = "download" =>
            Kept(rec[t], t) /\ (Active(t) => Kept(own[t], t))

AllSaved == \A t \in Tasks : Clears(t) /\ Saved(t)

\* No temporary file of t goes, but when its file is put in place.
Keeps(t) ==
    /\ delivered[t] > 0 => delivered'[t] > 0
    /\ \A n \in Names :
         temp[t][n] # Absent => temp'[t][n] # Absent \/ delivered'[t] > 0

LEMMA KeptStays ==
  ASSUME NEW t, Keeps(t), NEW r, NEW q, r.name \in Names, Kept(r, t),
         SameFile(q, r)
  PROVE  q.partial = "open" => temp'[t][q.name] # Absent \/ delivered'[t] > 0
  BY DEF Keeps, Kept, SameFile

LEMMA PrepareKeeps ==
  ASSUME DiskOK, NEW t \in Tasks, NEW d, NEW r \in Record \cup HostRecord,
         ~PrepareFails(t, r, d), Prepare(t, r, d), UNCHANGED delivered
  PROVE  /\ Keeps(t)
         /\ LET q == Prepared(r, d)
            IN  q.partial = "open" => temp'[t][q.name] # Absent
<1> DEFINE q == Prepared(r, d)
<1>1. /\ TempAt(t, q.name)
      /\ temp[t][q.name] # Absent => UNCHANGED temp
      /\ q.partial = "open" => temp'[t][q.name] # Absent
  BY PrepareTemp
<1> HIDE DEF q
<1>2. Keeps(t)
  BY <1>1 DEF Keeps, TempAt
<1> QED BY <1>1, <1>2 DEF q

LEMMA WriteKeeps ==
  ASSUME DiskOK, NEW t \in Tasks, NEW r \in Record \cup HostRecord,
         Write(t, r), UNCHANGED delivered
  PROVE  Keeps(t)
<1>1. r.name \in Names
  BY DEF Record, HostRecord
<1>2. Patched(t, r.name, temp[t][r.name] + 1)
  BY <1>1 DEF Write, Patched, DiskOK
<1>3. TempAt(t, r.name) /\ temp'[t][r.name] # Absent
  BY <1>1, <1>2, LengthGrows, TempUpdate
<1> QED BY <1>3 DEF Keeps, TempAt

LEMMA PutKeeps ==
  ASSUME DiskOK, NEW t \in Tasks, NEW r \in Record \cup HostRecord,
         NEW d \in {"here", "there"}, PutInPlace(t, r, d)
  PROVE  Keeps(t) /\ delivered'[t] > 0
<1>1. delivered'[t] > 0
  BY PutTemp DEF DiskOK
<1> QED BY <1>1 DEF Keeps

LEMMA WorkerSaved ==
  ASSUME TypeOK, Ownership, NEW t \in Tasks, Saved(t), Worker(t) \/ StepFails(t)
  PROVE  Saved(t)'
<1> DEFINE o == own[t]  c == own'[t]
           Fine(x) == x.partial = "open" =>
                        temp'[t][x.name] # Absent \/ delivered'[t] > 0
<1> SUFFICES ASSUME t \notin cleaned PROVE Saved(t)'
  BY WorkerFrame DEF Saved
<1>0. /\ o \in Record /\ rec[t] \in Record /\ DiskOK
      /\ hown[t] \in HostRecord /\ hrec[t] \in HostRecord
      /\ UNCHANGED <<hrec, hown, cleaned>>
      /\ Active(t) /\ rec'[t].dir = rec[t].dir
  BY WorkerFrame, WorkerOwns
  DEF TypeOK, TasksOK, HostOK, host, Ownership, Fits, SameTask
<1>1. CASE Carries(t) \/ Deals(t)
  <2>1. Keeps(t)
    BY <1>1 DEF Carries, Deals, Keeps
  <2>2. SameFile(c, o) \/ c.partial # "open" \/ pc'[t] = "ended"
    BY <1>1 DEF Carries, Deals, Dealt
  <2>3. SameFile(rec'[t], rec[t]) \/ SameFile(rec'[t], o) \/ rec'[t].partial # "open"
    BY <1>1 DEF Carries, Deals, Dealt, SameFile
  <2>4. Kept(rec[t], t) /\ Kept(o, t) =>
          Fine(rec'[t]) /\ (pc'[t] # "ended" => Fine(c))
    BY <1>0, <2>1, <2>2, <2>3, KeptStays DEF Record
  <2>5. Fine(hrec[t]) /\ Fine(hown[t])
    BY <1>0, <2>1, KeptStays DEF Saved, HostRecord, SameFile
  <2> QED BY <1>0, <2>4, <2>5 DEF Saved, Kept, Active
<1>2. ASSUME Prepares(t) \/ Writes(t) \/ Puts(t), Keeps(t),
             Fine(c) \/ SameFile(c, o)
      PROVE  Saved(t)'
  <2>1. rec'[t] = rec[t]
    BY <1>2 DEF Prepares, Writes, Puts
  <2>2. Fine(hrec[t]) /\ Fine(hown[t])
    BY <1>0, <1>2, KeptStays DEF Saved, HostRecord, SameFile
  <2>3. Kept(rec[t], t) /\ Kept(o, t) => Fine(rec[t]) /\ Fine(c)
    BY <1>0, <1>2, KeptStays DEF Record, SameFile
  <2> QED BY <1>0, <2>1, <2>2, <2>3 DEF Saved, Kept, Active
<1>3. CASE Prepares(t)
  BY <1>0, <1>2, <1>3, PrepareKeeps DEF Prepares
<1>4. CASE Writes(t)
  BY <1>0, <1>2, <1>4, WriteKeeps DEF Writes, SameFile
<1>5. CASE Puts(t)
  BY <1>0, <1>2, <1>5, PutKeeps DEF Puts
<1> QED BY <1>1, <1>3, <1>4, <1>5, WorkerFile DEF FileTurn

LEMMA CleanedNothing ==
  ASSUME NEW t, NEW r, r.partial # "open", temp' = Cleaned(t, r)
  PROVE  UNCHANGED temp
  BY DEF Cleaned

LEMMA HostSaved ==
  ASSUME TypeOK, Honest, NEW t \in Tasks, Clears(t), Saved(t),
         Host(t) \/ HostFails(t)
  PROVE  Saved(t)'
<1> DEFINE o == hown[t]  r == hrec[t]  c == hown'[t]  q == hrec'[t]
           Fine(x) == x.partial = "open" =>
                        temp'[t][x.name] # Absent \/ delivered'[t] > 0
<1> SUFFICES ASSUME t \notin cleaned PROVE Saved(t)'
  BY HostFrame DEF Saved
<1>0. /\ o \in HostRecord /\ r \in HostRecord /\ DiskOK
      /\ own[t] \in Record /\ rec[t] \in Record
      /\ UNCHANGED <<rec, own, pc, cleaned>> /\ HostTruth(t)
      /\ SameFile(o, o) /\ SameFile(r, r)
      /\ NoHostRecord.partial = "none"
  BY HostFrame
  DEF TypeOK, TasksOK, HostOK, tasks, Honest, SameFile, NoHostRecord
<1>1. ASSUME Keeps(t), Fine(c) \/ c \in {o, r}, Fine(q) \/ q \in {o, r}
      PROVE  Saved(t)'
  <2>1. Fine(o) /\ Fine(r)
    BY <1>0, <1>1, KeptStays DEF Saved, HostRecord
  <2>2. Fine(c) /\ Fine(q)
    BY <1>1, <2>1
  <2>3. /\ Kept(rec[t], t) => Fine(rec[t])
        /\ Kept(own[t], t) => Fine(own[t])
    BY <1>0, <1>1, KeptStays DEF Record, SameFile
  <2> QED BY <1>0, <2>2, <2>3 DEF Saved, Kept, Active
\* Only what the host has received itself is cleared up.
<1>2. ASSUME NEW x \in {o, r}, temp' = Cleaned(t, x), UNCHANGED delivered,
             q = NoHostRecord, c = NoHostRecord
      PROVE  Saved(t)'
  <2>1. CASE rec[t].dir = "download"
    <3>1. o = NoHostRecord /\ r = NoHostRecord
      BY <1>0, <2>1 DEF HostTruth, HostAt
    <3>2. UNCHANGED temp
      BY <1>0, <1>2, <3>1, CleanedNothing
    <3> QED BY <1>0, <1>1, <1>2, <3>2 DEF Keeps
  <2>2. CASE rec[t].dir # "download"
    BY <1>0, <1>2, <2>2 DEF Saved, Kept
  <2> QED BY <2>1, <2>2
<1>3. CASE HostCarries(t)
  BY <1>1, <1>3 DEF HostCarries, Keeps
<1>4. CASE HostBegins(t)
  <2>1. c = q /\ UNCHANGED <<temp, delivered>>
    BY <1>4 DEF HostBegins
  <2>2. q = r \/ q.partial = "none"
    BY <1>0, <1>4 DEF HostBegins, NoHostRecord
  <2> QED BY <1>1, <2>1, <2>2 DEF Keeps
<1>5. CASE HostPrepares(t)
  BY <1>0, <1>1, <1>5, PrepareKeeps DEF HostPrepares
<1>6. CASE HostWrites(t)
  BY <1>0, <1>1, <1>6, WriteKeeps DEF HostWrites
<1>7. CASE HostPuts(t)
  BY <1>0, <1>1, <1>7, PutKeeps DEF HostPuts
<1>8. CASE HostEnds(t)
  BY <1>0, <1>1, <1>2, <1>8 DEF HostEnds, Keeps
<1>9. ~HostClears(t)
  BY DEF HostClears, Clears
<1> QED BY <1>3, <1>4, <1>5, <1>6, <1>7, <1>8, <1>9, HostFile DEF HostFileTurn

LEMMA ServiceSaved ==
  ASSUME TypeOK, Ownership, Honest, Service, NEW t \in Tasks, Saved(t)
  PROVE  Saved(t)'
<1>0. /\ UNCHANGED <<hrec, delivered>>
      /\ WorkerKept(t) /\ SameData(rec'[t], rec[t]) /\ HostTruth(t)
      /\ NoRecord.partial = "none" /\ NoHostRecord.partial = "none"
  BY ServiceFrame, ServiceWorkers, ServiceRecords
  DEF RecordStays, Honest, NoRecord, NoHostRecord
<1>1. hown'[t] \in {hown[t], NoHostRecord}
  BY ServiceHost
<1>2. cleaned \subseteq cleaned'
  BY ServiceTemp
<1>3. CASE temp'[t] = temp[t]
  <2>1. t \notin cleaned => Kept(hrec[t], t)' /\ Kept(hown[t], t)'
    BY <1>0, <1>1, <1>3 DEF Saved, Kept
  <2>2. Kept(rec[t], t) => Kept(rec[t], t)'
    BY <1>0, <1>3 DEF Kept, SameData
  <2>3. ASSUME Active(t)', Kept(rec[t], t), Active(t) => Kept(own[t], t)
        PROVE  Kept(own[t], t)'
    <3>1. \/ own'[t] = own[t] /\ pc'[t] = pc[t]
          \/ own'[t] = rec[t]
      BY <1>0, <2>3 DEF WorkerKept, Active
    <3> QED BY <1>0, <1>3, <2>3, <3>1 DEF Kept, Active
  <2> QED BY <1>0, <1>2, <2>1, <2>2, <2>3 DEF Saved, SameData, SameTask
<1>4. CASE temp'[t] # temp[t]
  <2>1. /\ Cleanup /\ rec[target].dir = "download"
        /\ temp' = Cleaned(target, rec[target])
        /\ target \in cleaned'
    BY <1>4, ServiceTemp
  <2>2. target \in Tasks
    BY <2>1 DEF Cleanup, Ownership, TargetInv
  <2>3. TempAt(target, rec[target].name)
    BY <2>1, <2>2, CleanedTemp DEF TypeOK, TasksOK
  <2>4. t = target
    BY <1>4, <2>3 DEF TempAt
  <2> QED BY <2>1, <2>4 DEF Saved
<1> QED BY <1>3, <1>4

LEMMA SavedAlways == Spec => [](TypeOK /\ Ownership /\ Honest /\ AllSaved)
<1>1. Init => AllSaved
  <2> SUFFICES ASSUME Init, NEW t \in Tasks PROVE Clears(t) /\ Saved(t)
    BY DEF AllSaved
  <2>1. /\ hrec[t] = NoHostRecord /\ hown[t] = NoHostRecord /\ own[t] = NoRecord
        /\ pc[t] = "idle" /\ toHost[t] = <<>> /\ discard = {}
    BY DEF Init
  <2>2. rec[t].partial = "none"
    BY InitRecord
  <2>3. Clears(t)
    BY <2>1, InEmpty DEF Clears
  <2> QED BY <2>1, <2>2, <2>3 DEF Saved, Kept, NoHostRecord, Active
<1>2. TypeOK /\ Ownership /\ Honest /\ AllSaved /\ [Next]_vars => AllSaved'
  <2> SUFFICES ASSUME TypeOK, Ownership, Honest, AllSaved, [Next]_vars,
                      NEW u \in Tasks
               PROVE  Saved(u)'
    BY ClearsNext DEF AllSaved
  <2>1. Clears(u) /\ Saved(u)
    BY DEF AllSaved
  <2>2. ASSUME NEW t \in Tasks \ {u},
               Worker(t) \/ StepFails(t) \/ Host(t) \/ HostFails(t)
        PROVE  Saved(u)'
    BY <2>1, <2>2, PartyFrame DEF Saved, Kept, Active
  <2>3. UNCHANGED vars => Saved(u)'
    BY <2>1 DEF vars, tasks, host, disk, Saved, Kept, Active
  <2> QED BY <2>1, <2>2, <2>3, NextParties, WorkerSaved, HostSaved, ServiceSaved
<1> QED BY <1>1, <1>2, HonestAlways, PTL DEF Spec

(***************************************************************************)
(* A record that is open has its temporary file, so a resumption goes on   *)
(* where it stopped: the file is made before the record names it, nobody   *)
(* but the task's own job or worker touches it, and it goes only with the  *)
(* record, on a cancellation, or into its place.                           *)
(***************************************************************************)
THEOREM NothingReceivedIsLost == Spec => []NothingLost
<1>1. AllSaved => NothingLost
  BY DEF AllSaved, Saved, Kept, NothingLost
<1> QED BY <1>1, SavedAlways, PTL

-----------------------------------------------------------------------------
(***************************************************************************)
(* Requests to receive are answered in the order of their workers.         *)
(***************************************************************************)
LEMMA RemovedAt ==
  ASSUME NEW S, NEW q \in Seq(S), NEW i \in DOMAIN q,
         NEW k \in DOMAIN RemoveAt(q, i)
  PROVE  /\ k \in Nat /\ i \in Nat
         /\ k < i => k \in DOMAIN q /\ RemoveAt(q, i)[k] = q[k]
         /\ k >= i => k + 1 \in DOMAIN q /\ RemoveAt(q, i)[k] = q[k + 1]
<1> DEFINE before == SubSeq(q, 1, i - 1)
           after == SubSeq(q, i + 1, Len(q))
<1>0. i \in 1..Len(q) /\ Len(q) \in Nat
  OBVIOUS
<1>1. before \in Seq(S) /\ after \in Seq(S)
  <2>1. \A j \in 1..(i - 1) : q[j] \in S
    BY <1>0
  <2>2. \A j \in (i + 1)..Len(q) : q[j] \in S
    BY <1>0
  <2> QED BY <1>0, <2>1, <2>2
<1>2. Len(before) = i - 1 /\ Len(after) = Len(q) - i
  BY <1>0
<1>3. \A j \in 1..(i - 1) : before[j] = q[j]
  BY <1>0
<1>4. \A j \in 1..(Len(q) - i) : after[j] = q[j + i]
  <2> TAKE j \in 1..(Len(q) - i)
  <2>1. after[j] = q[i + 1 + j - 1] /\ i + 1 + j - 1 = j + i
    BY <1>0
  <2> HIDE DEF after
  <2> QED BY <2>1
<1> HIDE DEF before, after
<1>5. RemoveAt(q, i) = before \o after
  BY DEF RemoveAt, before, after
<1>6. k \in 1..(Len(q) - 1)
  BY <1>0, <1>1, <1>2, <1>5
<1>7. k < i => (before \o after)[k] = before[k]
  BY <1>0, <1>1, <1>2, <1>6
<1>8. k >= i => (before \o after)[k] = after[k - (i - 1)]
  BY <1>0, <1>1, <1>2, <1>6
<1>9. k >= i => after[k - (i - 1)] = q[k + 1]
  <2> SUFFICES ASSUME k >= i PROVE after[k - (i - 1)] = q[k + 1]
    OBVIOUS
  <2>1. k - (i - 1) \in 1..(Len(q) - i) /\ k - (i - 1) + i = k + 1
    BY <1>0, <1>6
  <2> QED BY <1>4, <2>1
<1>10. k < i => k \in DOMAIN q /\ RemoveAt(q, i)[k] = q[k]
  <2> SUFFICES ASSUME k < i PROVE k \in DOMAIN q /\ before[k] = q[k]
    BY <1>5, <1>7
  <2>1. k \in 1..(i - 1) /\ k \in 1..Len(q)
    BY <1>0, <1>6
  <2> QED BY <1>3, <2>1
<1>11. k >= i => k + 1 \in DOMAIN q
  BY <1>0, <1>6
<1>12. k \in Nat /\ i \in Nat
  BY <1>0, <1>6
<1>13. k >= i => RemoveAt(q, i)[k] = q[k + 1]
  BY <1>5, <1>8, <1>9
<1> QED BY <1>10, <1>11, <1>12, <1>13

Asks(m) == m.kind = "receive"

Ordered(q, n) ==
    /\ \A i \in DOMAIN q : Asks(q[i]) => q[i].run <= n
    /\ \A i, j \in DOMAIN q :
         i < j /\ Asks(q[i]) /\ Asks(q[j]) => q[i].run < q[j].run

LEMMA OrderedRemoved ==
  ASSUME NEW q \in Seq(Message), NEW n \in Int, Ordered(q, n),
         NEW i \in DOMAIN q
  PROVE  /\ Ordered(RemoveAt(q, i), n)
         /\ i \in Heads(q) /\ Asks(q[i]) /\ q[i].run = n =>
              \A m \in In(RemoveAt(q, i)) : ~Asks(m)
<1> DEFINE s == RemoveAt(q, i)
           at(k) == IF k < i THEN k ELSE k + 1
<1>1. \A k \in DOMAIN s : k \in Nat /\ at(k) \in DOMAIN q /\ s[k] = q[at(k)]
  BY RemovedAt
<1>2. i \in Nat /\ DOMAIN q \subseteq Nat
  OBVIOUS
<1> HIDE DEF s
<1>3. \A k \in DOMAIN s : Asks(s[k]) => s[k].run <= n
  BY <1>1 DEF Ordered
<1>4. ASSUME NEW j \in DOMAIN s, NEW k \in DOMAIN s, j < k,
             Asks(s[j]), Asks(s[k])
      PROVE  s[j].run < s[k].run
  <2>1. at(j) < at(k)
    BY <1>1, <1>2, <1>4
  <2> HIDE DEF at
  <2> QED BY <1>1, <1>4, <2>1 DEF Ordered
<1>5. ASSUME i \in Heads(q), Asks(q[i]), q[i].run = n, NEW k \in DOMAIN s,
             Asks(s[k])
      PROVE  FALSE
  <2>1. CASE k < i
    <3>1. k \in 1..(i - 1) /\ s[k] = q[k]
      BY <1>1, <1>2, <2>1
    <3>2. Channel(q[k]) = "engine"
      BY <1>5, <3>1 DEF Asks, Channel, Initial
    <3> QED BY <1>5, <3>1, <3>2 DEF Heads
  <2>2. CASE ~(k < i)
    <3>1. k + 1 \in DOMAIN q /\ i < k + 1 /\ s[k] = q[k + 1]
      BY <1>1, <1>2, <2>2
    <3>2. q[i].run < q[k + 1].run /\ q[k + 1].run <= n
      BY <1>5, <3>1 DEF Ordered
    <3>3. q[k + 1] \in Message
      BY <3>1
    <3>4. q[k + 1].run \in Int
      BY <3>3 DEF Message
    <3> QED BY <1>5, <3>2, <3>4
  <2> QED BY <2>1, <2>2
<1> QED BY <1>3, <1>4, <1>5 DEF s, Ordered, In

LEMMA OrderedAppended ==
  ASSUME NEW q \in Seq(Message), NEW ms \in Seq(Message), NEW n \in Int,
         Ordered(q, n),
         \/ \A m \in In(ms) : ~Asks(m)
         \/ \E m : /\ ms = <<m>> /\ m.run = n
                   /\ \A l \in In(q) : Asks(l) => l.run < n
  PROVE  Ordered(q \o ms, n)
<1> DEFINE s == q \o ms
<1>0. Len(q) \in Nat /\ DOMAIN q = 1..Len(q)
  OBVIOUS
<1>1. \A k \in DOMAIN s : k \in Nat /\ (k <= Len(q) => k \in DOMAIN q /\ s[k] = q[k])
  OBVIOUS
<1>2. \A k \in DOMAIN s :
        ~(k <= Len(q)) => k - Len(q) \in DOMAIN ms /\ s[k] = ms[k - Len(q)]
  OBVIOUS
<1> HIDE DEF s
<1>3. CASE \A m \in In(ms) : ~Asks(m)
  <2>1. \A k \in DOMAIN s : Asks(s[k]) => k \in DOMAIN q /\ s[k] = q[k]
    BY <1>1, <1>2, <1>3 DEF In
  <2> QED BY <2>1 DEF Ordered, s
<1>4. ASSUME NEW m, ms = <<m>>, m.run = n,
             \A l \in In(q) : Asks(l) => l.run < n
      PROVE  Ordered(s, n)
  <2>1. \A k \in DOMAIN s : \/ k \in DOMAIN q /\ s[k] = q[k]
                            \/ k = Len(q) + 1 /\ s[k] = m
    <3> TAKE k \in DOMAIN s
    <3>1. CASE k <= Len(q)
      BY <1>1, <3>1
    <3>2. CASE ~(k <= Len(q))
      <4>1. k - Len(q) \in DOMAIN ms /\ s[k] = ms[k - Len(q)] /\ k \in Nat
        BY <1>1, <1>2, <3>2
      <4>2. k - Len(q) = 1
        BY <1>4, <4>1
      <4> QED BY <1>0, <1>4, <4>1, <4>2
    <3> QED BY <3>1, <3>2
  <2>2. \A k \in DOMAIN q : Asks(q[k]) => q[k].run < n
    BY <1>4 DEF In
  <2> QED BY <1>0, <1>4, <2>1, <2>2 DEF Ordered
<1> QED BY <1>3, <1>4 DEF s

\* Where a step of a worker may lead, as far as its answers go.
Places(t) ==
    /\ pc'[t] \notin {"idle", "spawned"}
    /\ pc'[t] \in {"begin", "exists"} => pc[t] \in {"spawned", "begin"}
    /\ pc'[t] = "ended" => toCtl'[t] = <<>>
    /\ pc'[t] \in {"wait_confirm", "wait_ack", "wait_result"} =>
         \/ pc[t] \in {"wait_confirm", "wait_ack"}
         \/ /\ pc[t] = "wait_init"
            /\ \E m \in In(toCtl[t]) : m.kind = "response"

LEMMA WorkerPlaces ==
  ASSUME TypeOK, NEW t \in Tasks, Worker(t) \/ StepFails(t)
  PROVE  Places(t)
<1> USE DEF TypeOK, TasksOK
<1>0. \A label : Goto(t, label) => pc'[t] = label
  BY DEF Goto
<1>1. ASSUME Register(t) \/ BeginUpload(t) \/ SaveStarted(t) PROVE Places(t)
  BY <1>0, <1>1
  DEF Register, BeginUpload, SaveStarted, SaveThen, Request, Places
<1>2. ASSUME NEW i, NameChecked(t, i) PROVE Places(t)
  BY <1>0, <1>2 DEF NameChecked, Got, Request, Places
<1>3. ASSUME NEW i \in DOMAIN toCtl[t], ReceiveAnswered(t, i) PROVE Places(t)
  <2>1. toCtl[t][i] \in In(toCtl[t])
    BY DEF In
  <2> QED BY <1>0, <1>3, <2>1 DEF ReceiveAnswered, Got, Request, Places
<1>4. ASSUME NEW i, FileConfirmed(t, i) PROVE Places(t)
  BY <1>0, <1>4 DEF FileConfirmed, Got, SaveThen, Request, Places
<1>5. ASSUME NEW i, BlockConfirmed(t, i) PROVE Places(t)
  <2>1. pc[t] = "wait_ack" /\ pc'[t] \in {"fail", "wait_result", "wait_ack"}
    BY <1>0, <1>5 DEF BlockConfirmed, Got, Request
  <2> QED BY <2>1 DEF Places
<1>6. ASSUME NEW i, FileSaved(t, i) PROVE Places(t)
  BY <1>0, <1>6 DEF FileSaved, Got, SaveThen, Places
<1>7. ASSUME BeginDownload(t) \/ SavePrepared(t) \/ Rename(t) \/ SaveRenamed(t)
      PROVE  pc'[t] \in {"done", "fail", "wait_init", "open", "complete", "renamed"}
  BY <1>0, <1>7
  DEF BeginDownload, SavePrepared, Rename, SaveRenamed, SaveThen, Request
<1>8. ASSUME NEW i, SendAnswered(t, i) \/ FileAsked(t, i) \/ BlockReceived(t, i)
      PROVE  pc'[t] \in {"receive", "fail", "prepared", "open"}
  BY <1>0, <1>8 DEF SendAnswered, FileAsked, BlockReceived, SaveThen, Request
<1>9. ASSUME NEW i, FileCompleted(t, i) \/ AllReceived(t, i)
      PROVE  pc'[t] \in {"renaming", "fail", "done"}
  BY <1>0, <1>9 DEF FileCompleted, AllReceived, Request
<1>10. ASSUME WaitStops(t) \/ StepFails(t) \/ Fail(t) \/ Drain(t)
       PROVE  pc'[t] \in {"fail", "drain", "settle"}
  BY <1>0, <1>10 DEF WaitStops, StepFails, Fail, Drain
<1>11. ASSUME Settle(t) PROVE pc'[t] = "ended" /\ toCtl'[t] = <<>>
  BY <1>0, <1>11 DEF Settle, LinkOK
<1>12. pc'[t] \in {"done", "fail", "wait_init", "open", "complete", "renamed",
                   "receive", "prepared", "renaming", "drain", "settle"}
       => Places(t)
  BY DEF Places
<1>13. pc'[t] = "ended" /\ toCtl'[t] = <<>> => Places(t)
  BY DEF Places
<1> HIDE DEF TypeOK, TasksOK
<1> QED
  BY <1>1, <1>2, <1>3, <1>4, <1>5, <1>6, <1>7, <1>8, <1>9, <1>10, <1>11,
     <1>12, <1>13
  DEF Worker, Upload, Download

\* What an uploading worker knows of a beginning.
Starts(t) ==
    LET r == rec[t]  o == own[t]  q == rec'[t]  c == own'[t]
        p == pc[t]   n == pc'[t]
    IN  /\ q = r \/ q.started = o.started \/ q.started = TRUE
        /\ n # "ended" =>
             \/ c.started = o.started \/ c.started = TRUE
             \/ p = "wait_init" /\ n = "fail"
        /\ p = "begin" /\ n \in UploadAt =>
             ~(o.started /\ o.partial \in Dealt)
        /\ n \in UploadAt \cup {"wait_init"} /\ o.dir = "upload" =>
             p \in UploadAt \cup {"wait_init", "begin"}
        /\ n = "wait_init" /\ o.dir = "upload" =>
             p = "asked" /\ c.started = TRUE
        /\ n \in {"wait_confirm", "wait_ack", "wait_result"} =>
             c.started = o.started

LEMMA WorkerStarts ==
  ASSUME TypeOK, NEW t \in Tasks, Owns(t), Worker(t) \/ StepFails(t)
  PROVE  Starts(t)
<1> USE DEF TypeOK, TasksOK
<1> DEFINE o == own[t]
           p == pc[t]
           n == pc'[t]
           c == own'[t]
           q == rec'[t]
           r == rec[t]
<1>0. /\ \A label : Goto(t, label) => n = label
      /\ \A x : Keep(t, x) => c = x
      /\ \A x : rec' = [rec EXCEPT ![t] = x] => q = x
      /\ UNCHANGED own => c = o
      /\ UNCHANGED rec => q = r
      /\ UNCHANGED pc => n = p
  BY DEF Goto, Keep
<1>a. o \in Record
  OBVIOUS
<1> HIDE DEF o, p, n, c, q, r
<1>b. ASSUME NEW y, NEW x
      PROVE  /\ y = [o EXCEPT !.state = x] => y.started = o.started
             /\ y = [o EXCEPT !.partial = x] => y.started = o.started
             /\ y = [o EXCEPT !.started = x] => y.started = x
  BY <1>a DEF Record
<1>s. Starts(t) <=>
        /\ q = r \/ q.started = o.started \/ q.started = TRUE
        /\ n # "ended" =>
             \/ c.started = o.started \/ c.started = TRUE
             \/ p = "wait_init" /\ n = "fail"
        /\ p = "begin" /\ n \in UploadAt =>
             ~(o.started /\ o.partial \in Dealt)
        /\ n \in UploadAt \cup {"wait_init"} /\ o.dir = "upload" =>
             p \in UploadAt \cup {"wait_init", "begin"}
        /\ n = "wait_init" /\ o.dir = "upload" =>
             p = "asked" /\ c.started = TRUE
        /\ n \in {"wait_confirm", "wait_ack", "wait_result"} =>
             c.started = o.started
  BY DEF Starts, o, p, n, c, q, r
<1>t. ASSUME NEW x, NEW label, NEW send, SaveThen(t, x, label, send)
      PROVE  c = x /\ q \in {r, x} /\ n \in {label, "fail"}
  BY <1>0, <1>t DEF SaveThen
\* Whatever leads away from the upload is of no account.
<1>1. ASSUME n \notin UploadAt \cup {"wait_init"},
             q = r \/ q.started = o.started,
             n = "ended" \/ c.started = o.started
      PROVE  Starts(t)
  BY <1>1, <1>s DEF UploadAt
<1>2. ASSUME Register(t) PROVE Starts(t)
  <2>0. /\ n \in {"begin", "settle"}
        /\ c \in {o, [o EXCEPT !.state = "Running"]}
        /\ q \in {r, [o EXCEPT !.state = "Running"]}
    BY <1>0, <1>2 DEF Register, o
  <2>1. /\ c.started = o.started
        /\ q = r \/ q.started = o.started
    BY <1>b, <2>0
  <2> QED BY <1>1, <2>0, <2>1 DEF UploadAt
<1>3. ASSUME BeginUpload(t) PROVE Starts(t)
  <2>1. /\ c = o /\ q = r /\ p = "begin" /\ n \in {"done", "fail", "asked", "exists"}
        /\ n \in {"asked", "exists"} => ~(o.started /\ o.partial \in Dealt)
    BY <1>0, <1>3 DEF BeginUpload, Request, o, p
  <2> QED BY <1>s, <2>1 DEF UploadAt
<1>4. ASSUME NEW i, NameChecked(t, i) PROVE Starts(t)
  <2>1. /\ c \in {o, [o EXCEPT !.state = "Skipped"]} /\ q = r /\ p = "exists"
        /\ n \in {"done", "fail", "asked"}
    BY <1>0, <1>4 DEF NameChecked, Got, Request, o, p
  <2>2. c.started = o.started
    BY <1>b, <2>1
  <2> QED BY <1>s, <2>1, <2>2 DEF UploadAt
<1>5. ASSUME SaveStarted(t) PROVE Starts(t)
  <2>1. /\ c = [o EXCEPT !.started = TRUE] /\ q \in {r, c} /\ p = "asked"
        /\ n \in {"wait_init", "fail"}
    BY <1>5, <1>t DEF SaveStarted, o, p
  <2>2. c.started = TRUE
    BY <1>b, <2>1
  <2> QED BY <1>s, <2>1, <2>2 DEF UploadAt
<1>6. ASSUME NEW i, ReceiveAnswered(t, i) PROVE Starts(t)
  <2>1. /\ q = r /\ p = "wait_init"
        /\ n = "fail" \/ (n = "wait_confirm" /\ c = o)
    <3>1. CASE UNCHANGED own
      BY <1>0, <1>6, <3>1 DEF ReceiveAnswered, Got, Request, p
    <3>2. CASE Goto(t, "fail")
      BY <1>0, <1>6, <3>2 DEF ReceiveAnswered, Got, p
    <3> QED BY <1>6, <3>1, <3>2 DEF ReceiveAnswered
  <2> QED BY <1>s, <2>1 DEF UploadAt
<1>7. ASSUME NEW i, FileConfirmed(t, i) PROVE Starts(t)
  <2>1. p = "wait_confirm"
    BY <1>7 DEF FileConfirmed, Got, p
  <2>2. CASE SaveThen(t, [o EXCEPT !.partial = "skipped"], "done",
                      <<Msg("finish", runs[t], 1)>>)
    <3>1. /\ n \in {"done", "fail"} /\ q \in {r, c}
          /\ c = [o EXCEPT !.partial = "skipped"]
      BY <1>t, <2>2
    <3>2. c.started = o.started
      BY <1>b, <3>1
    <3> QED BY <1>1, <3>1, <3>2 DEF UploadAt
  <2>3. CASE UNCHANGED <<rec, own>> /\ n \in {"fail", "wait_result", "wait_ack"}
    BY <1>0, <1>s, <2>1, <2>3 DEF UploadAt
  <2> QED BY <1>0, <1>7, <2>2, <2>3 DEF FileConfirmed, Request, o
<1>8. ASSUME NEW i, BlockConfirmed(t, i) PROVE Starts(t)
  <2>1. /\ c = o /\ q = r /\ p = "wait_ack"
        /\ n \in {"fail", "wait_result", "wait_ack"}
    BY <1>0, <1>8 DEF BlockConfirmed, Got, Request, p
  <2> QED BY <1>s, <2>1 DEF UploadAt
<1>9. ASSUME NEW i, FileSaved(t, i) PROVE Starts(t)
  <2>1. n \in {"done", "fail"} /\ c.started = o.started /\ q \in {r, c}
    <3>1. CASE SaveThen(t, [o EXCEPT !.partial = "done"], "done",
                        <<Msg("finish", runs[t], 1)>>)
      <4>1. /\ n \in {"done", "fail"} /\ q \in {r, c}
            /\ c = [o EXCEPT !.partial = "done"]
        BY <1>t, <3>1
      <4> QED BY <1>b, <4>1
    <3>2. CASE Goto(t, "fail") /\ UNCHANGED <<rec, own>>
      BY <1>0, <3>2
    <3> QED BY <1>9, <3>1, <3>2 DEF FileSaved, o
  <2> QED BY <1>1, <2>1 DEF UploadAt
<1>10. ASSUME BeginDownload(t) PROVE Starts(t)
  <2>1. /\ c \in {o, [o EXCEPT !.state = "Skipped"]}
        /\ q = r /\ o.dir = "download"
        /\ n \in {"done", "fail", "wait_init"}
    BY <1>0, <1>10 DEF BeginDownload, Request, o
  <2>2. c.started = o.started
    BY <1>b, <2>1
  <2> QED BY <1>s, <2>1, <2>2 DEF UploadAt
<1>11. ASSUME NEW i, SendAnswered(t, i) PROVE Starts(t)
  <2>1. /\ n \in {"receive", "fail"}
        /\ c.started \in {o.started, TRUE} /\ q \in {r, c}
    <3>1. CASE SaveThen(t, [o EXCEPT !.started = TRUE], "receive", <<>>)
      <4>1. /\ n \in {"receive", "fail"} /\ q \in {r, c}
            /\ c = [o EXCEPT !.started = TRUE]
        BY <1>t, <3>1
      <4> QED BY <1>b, <4>1
    <3>2. CASE Goto(t, "fail") /\ UNCHANGED <<rec, own>>
      BY <1>0, <3>2
    <3> QED BY <1>11, <3>1, <3>2 DEF SendAnswered, o
  <2> QED BY <1>s, <2>1 DEF UploadAt
<1>12. ASSUME NEW i, FileAsked(t, i) PROVE Starts(t)
  <2>1. q = r /\ n \in {"prepared", "fail"}
    BY <1>0, <1>12 DEF FileAsked
  <2>2. c.started = o.started
    <3>1. CASE PrepareFails(t, o, "here")
      BY <1>0, <1>12, <3>1 DEF FileAsked, o
    <3>2. CASE ~PrepareFails(t, o, "here")
      BY <1>0, <1>12, <1>a, <3>2, PreparedRecord DEF FileAsked, o
    <3> QED BY <3>1, <3>2
  <2> QED BY <1>1, <2>1, <2>2 DEF UploadAt
<1>13. ASSUME SavePrepared(t) \/ SaveRenamed(t) PROVE Starts(t)
  <2>1. n \in {"open", "complete", "fail"} /\ c = o /\ q \in {r, o}
    <3>1. ASSUME NEW label \in {"open", "complete"}, NEW send,
                 SaveThen(t, o, label, send)
          PROVE  n \in {"open", "complete", "fail"} /\ c = o /\ q \in {r, o}
      BY <1>t, <3>1
    <3> QED BY <1>13, <3>1 DEF SavePrepared, SaveRenamed, o
  <2> QED BY <1>1, <2>1 DEF UploadAt
<1>14. ASSUME \/ Rename(t) \/ WaitStops(t) \/ StepFails(t) \/ Fail(t) \/ Drain(t)
              \/ \E i : BlockReceived(t, i) \/ FileCompleted(t, i) \/ AllReceived(t, i)
       PROVE  Starts(t)
  <2>1. /\ n \in {"renamed", "fail", "drain", "settle", "open", "renaming", "done"}
        /\ c.started = o.started /\ q = r
    <3>1. CASE Rename(t)
      <4>1. /\ n = "renamed" /\ q = r
            /\ c = [o EXCEPT !.partial = "done"]
        BY <1>0, <3>1 DEF Rename, o
      <4> QED BY <1>b, <4>1
    <3>2. CASE WaitStops(t) \/ StepFails(t) \/ Fail(t) \/ Drain(t)
      BY <1>0, <3>2 DEF WaitStops, StepFails, Fail, Drain
    <3>3. CASE \E i : BlockReceived(t, i) \/ FileCompleted(t, i) \/ AllReceived(t, i)
      BY <1>0, <3>3 DEF BlockReceived, FileCompleted, AllReceived, Request
    <3> QED BY <1>14, <3>1, <3>2, <3>3
  <2> QED BY <1>1, <2>1 DEF UploadAt
<1>15. ASSUME Settle(t) PROVE Starts(t)
  <2>1. n = "ended" /\ q \in {r, [o EXCEPT !.state = Outcome(t)]}
    BY <1>0, <1>15 DEF Settle, o
  <2>2. q = r \/ q.started = o.started
    BY <1>b, <2>1
  <2> QED BY <1>1, <2>1, <2>2 DEF UploadAt
<1> HIDE DEF TypeOK, TasksOK
<1> QED
  BY <1>2, <1>3, <1>4, <1>5, <1>6, <1>7, <1>8, <1>9, <1>10, <1>11,
     <1>12, <1>13, <1>14, <1>15
  DEF Worker, Upload, Download

\* The host adds nothing to what waits for it.
Shrinks(t) ==
    \/ toHost'[t] = toHost[t]
    \/ \E i \in DOMAIN toHost[t] : toHost'[t] = RemoveAt(toHost[t], i)

LEMMA HostShrinks ==
  ASSUME TypeOK, NEW t \in Tasks, Host(t) \/ HostFails(t)
  PROVE  Shrinks(t)
<1>0. /\ \A i : HostTake(t, i) => toHost'[t] = RemoveAt(toHost[t], i)
      /\ \A r, q : EndJob(t, r, q) => toHost'[t] = q
  BY DEF HostTake, EndJob, Rest, TypeOK, LinkOK
<1>1. ASSUME UNCHANGED toHost PROVE Shrinks(t)
  BY <1>1 DEF Shrinks
<1>2. ASSUME NEW i \in DOMAIN toHost[t], HostTake(t, i) PROVE Shrinks(t)
  BY <1>0, <1>2 DEF Shrinks
<1>3. ASSUME NEW i \in DOMAIN toHost[t], NEW r, EndJob(t, r, Rest(t, i))
      PROVE  Shrinks(t)
  BY <1>0, <1>3 DEF Shrinks, Rest
<1>4. ASSUME NEW r, EndJob(t, r, toHost[t]) PROVE Shrinks(t)
  BY <1>0, <1>4 DEF Shrinks
<1>5. ASSUME NEW i \in DOMAIN toHost[t],
             \/ Late(t, i) \/ NameAsked(t, i) \/ ReceiveAsked(t, i)
             \/ HostBlockReceived(t, i) \/ ClearAsked(t, i) \/ SendAsked(t, i)
      PROVE  Shrinks(t)
  BY <1>2, <1>5
  DEF Late, NameAsked, ReceiveAsked, HostBlockReceived, ClearAsked, SendAsked,
      Asked
<1>6. ASSUME NEW i \in DOMAIN toHost[t],
             \/ HostFileAsked(t, i) \/ HostFileCompleted(t, i)
             \/ HostFinished(t, i) \/ HostPaused(t, i)
             \/ SendConfirmed(t, i) \/ SendAcked(t, i)
      PROVE  Shrinks(t)
  BY <1>2, <1>3, <1>6
  DEF HostFileAsked, HostFileCompleted, HostFinished, HostPaused,
      SendConfirmed, SendAcked
<1>7. ASSUME HostStops(t) \/ HostFails(t) PROVE Shrinks(t)
  BY <1>4, <1>7 DEF HostStops, HostFails
<1>8. ASSUME HostSavePrepared(t) \/ HostRename(t) \/ HostSaveRenamed(t)
      PROVE  Shrinks(t)
  BY <1>1, <1>8 DEF HostSavePrepared, HostRename, HostSaveRenamed
<1> QED BY <1>5, <1>6, <1>7, <1>8 DEF Host

\* A worker is taken off the list when it has ended, or with the connection.
LEMMA ServiceIdles ==
  ASSUME TypeOK, Service, NEW t \in Tasks
  PROVE  /\ pc'[t] = "idle" => pc[t] \in {"idle", "ended"} \/ toCtl'[t] = <<>>
         /\ Start(t) => runs'[t] \in Int /\ runs[t] < runs'[t]
<1> DEFINE Goal ==
      pc'[t] = "idle" => pc[t] \in {"idle", "ended"} \/ toCtl'[t] = <<>>
<1>1. ASSUME UNCHANGED pc PROVE Goal
  BY <1>1
<1>2. ASSUME \/ Connect \/ WireEnds \/ PausedQueue \/ Cleanup \/ ClearTimesOut
             \/ Leave \/ Leaves \/ PauseAll \/ ClearCompleted
      PROVE  Goal
  BY <1>2
  DEF Connect, WireEnds, PausedQueue, Cleanup, ClearTimesOut, Leave, Leaves,
      PauseAll, ClearCompleted, tasks
<1>3. ASSUME \/ Release \/ Restart \/ Quit \/ Disallowed \/ LinkLost
             \/ HostCrash
             \/ \E S : Resume(S)
             \/ \E u \in Tasks : PauseStale(u) \/ Add(u) \/ Pause(u) \/ Cancel(u)
      PROVE  Goal
  BY <1>3
  DEF Release, Restart, Quit, Disallowed, LinkLost, HostCrash, Resume,
      PauseStale, Add, Pause, Cancel, tasks
<1>4. ASSUME AllPaused \/ Closed PROVE Goal
  BY <1>4 DEF AllPaused, Closed, AllEnded, Running
<1>5. ASSUME Crash PROVE Goal
  BY <1>5 DEF Crash, Disconnect
<1>6. ASSUME NEW u, pc[u] = "ended", pc' = [pc EXCEPT ![u] = "idle"] PROVE Goal
  BY <1>6 DEF TypeOK, TasksOK
<1>7. ASSUME Awaited \/ \E u \in Tasks : Reap(u) PROVE Goal
  BY <1>6, <1>7 DEF Awaited, Reap
<1>8. ASSUME NEW u \in Tasks, Start(u) PROVE Goal
  BY <1>8 DEF Start, TypeOK, TasksOK
<1>9. Goal
  BY <1>2, <1>3, <1>4, <1>5, <1>7, <1>8 DEF Service, Loop, User
<1>10. ASSUME Start(t) PROVE runs'[t] \in Int /\ runs[t] < runs'[t]
  <2>1. PICK n \in 1..MaxRuns : Follows(n) /\ runs' = [runs EXCEPT ![t] = n]
    BY <1>10 DEF Start
  <2>2. runs[t] < n /\ n \in Int /\ runs'[t] = n
    BY <2>1 DEF Follows, TypeOK, TasksOK
  <2> QED BY <2>2
<1> QED BY <1>9, <1>10

(***************************************************************************)
(* The requests to receive wait in the order of their workers, the last of *)
(* them may be the present worker's, and once that one is answered nothing *)
(* of the kind is left.                                                    *)
(***************************************************************************)
AsksBefore(q, n) == \A m \in In(q) : Asks(m) => m.run < n

AsksNot(q) == \A m \in In(q) : ~Asks(m)

Unanswered(q) == \A m \in In(q) : m.kind # "response"

Numbered(t) ==
    /\ Ordered(toHost[t], runs[t])
    /\ pc[t] \in {"spawned", "begin", "exists"} =>
         AsksBefore(toHost[t], runs[t])
    /\ rec[t].dir = "upload" =>
         /\ pc[t] \in {"idle", "spawned", "ended", "begin", "exists"} =>
              Unanswered(toCtl[t])
         /\ \/ ~Unanswered(toCtl[t])
            \/ pc[t] \in {"wait_confirm", "wait_ack", "wait_result"}
            => AsksNot(toHost[t])

LEMMA AsksFewer ==
  ASSUME NEW q, NEW r, NEW n, \A m \in In(r) : Asks(m) => m \in In(q)
  PROVE  /\ AsksBefore(q, n) => AsksBefore(r, n)
         /\ AsksNot(q) => AsksNot(r)
  BY DEF AsksBefore, AsksNot

LEMMA WorkerNumbered ==
  ASSUME TypeOK, NEW t \in Tasks, Owns(t), Numbered(t), Worker(t) \/ StepFails(t)
  PROVE  Numbered(t)'
<1> DEFINE q == toHost[t]
           r == toHost'[t]
<1>1. PICK ms \in Seq(Message) :
        /\ r \in {q, q \o ms}
        /\ \A m \in In(ms) : NewToHost(t, m)
        /\ \A m \in In(ms) : Asks(m) => ms = <<m>>
  BY WorkerSends DEF Sends, Asks
<1>2. /\ q \in Seq(Message) /\ runs[t] \in Int /\ runs'[t] = runs[t]
      /\ rec'[t].dir = rec[t].dir
  BY WorkerFrame, WorkerOwns DEF TypeOK, LinkOK, TasksOK, Fits, SameTask
<1>3. /\ In(toCtl'[t]) \subseteq In(toCtl[t])
      /\ Places(t)
  <2>1. In(toCtl'[t]) \subseteq In(toCtl[t]) \cup In(<<>>)
    BY WorkerTakes DEF Adds
  <2> QED BY <2>1, InEmpty, WorkerPlaces
<1>4. Numbered(t)
  OBVIOUS
<1>5. Unanswered(toCtl[t]) => Unanswered(toCtl'[t])
  BY <1>3 DEF Unanswered
<1>6. r = q \/ In(r) = In(q) \cup In(ms)
  <2>1. In(q \o ms) = In(q) \cup In(ms)
    BY <1>2, InAppended
  <2> QED BY <1>1, <2>1
<1> HIDE DEF q, r
\* The worker asks for nothing, or what was asked before stays as it is.
<1>7. CASE AsksNot(ms) \/ r = q
  <2>1. Ordered(r, runs[t])
    BY <1>1, <1>2, <1>4, <1>7, OrderedAppended DEF Numbered, AsksNot, q
  <2>2. \A m \in In(r) : Asks(m) => m \in In(q)
    BY <1>6, <1>7 DEF AsksNot
  <2>3. /\ AsksBefore(q, runs[t]) => AsksBefore(r, runs[t])
        /\ AsksNot(q) => AsksNot(r)
    BY <2>2, AsksFewer
  <2>4. /\ pc'[t] \in {"spawned", "begin", "exists"} =>
             pc[t] \in {"spawned", "begin"}
        /\ pc'[t] \notin {"idle", "spawned"}
    BY <1>3 DEF Places
  <2>5. pc'[t] \in {"spawned", "begin", "exists"} => AsksBefore(r, runs[t])
    BY <1>4, <2>3, <2>4 DEF Numbered, q
  <2>6. CASE rec[t].dir # "upload"
    BY <1>2, <2>1, <2>5, <2>6 DEF Numbered, r
  <2>7. CASE rec[t].dir = "upload"
    <3>1. pc'[t] \in {"idle", "spawned", "ended", "begin", "exists"} =>
            Unanswered(toCtl'[t])
      <4>1. pc'[t] = "ended" => Unanswered(toCtl'[t])
        BY <1>3, InEmpty DEF Places, Unanswered
      <4> QED BY <1>4, <1>5, <2>4, <2>7, <4>1 DEF Numbered
    <3>2. ASSUME \/ ~Unanswered(toCtl'[t])
                 \/ pc'[t] \in {"wait_confirm", "wait_ack", "wait_result"}
          PROVE  AsksNot(r)
      <4>1. \/ ~Unanswered(toCtl[t])
            \/ pc[t] \in {"wait_confirm", "wait_ack", "wait_result"}
        BY <1>3, <1>5, <3>2 DEF Places, Unanswered
      <4> QED BY <1>4, <2>3, <2>7, <4>1 DEF Numbered, q
    <3> QED BY <1>2, <2>1, <2>5, <3>1, <3>2 DEF Numbered, r
  <2> QED BY <2>6, <2>7
\* The worker asks, after all the others.
<1>8. ASSUME NEW m \in In(ms), Asks(m), r # q PROVE Numbered(t)'
  <2>1. /\ ms = <<m>> /\ m.run = runs[t] /\ pc'[t] = "asked"
        /\ pc[t] \in {"begin", "exists"}
    BY <1>1, <1>8 DEF NewToHost, Asks
  <2>2. r = q \o ms
    BY <1>1, <1>8 DEF r, q
  <2>3. \A l \in In(q) : Asks(l) => l.run < runs[t]
    BY <1>4, <2>1 DEF Numbered, AsksBefore, q
  <2>4. Ordered(r, runs[t])
    BY <1>2, <1>4, <2>1, <2>2, <2>3, OrderedAppended DEF Numbered, q
  <2>5. rec[t].dir = "upload" => Unanswered(toCtl'[t])
    BY <1>4, <1>5, <2>1 DEF Numbered
  <2> QED BY <1>2, <2>1, <2>4, <2>5 DEF Numbered, r
<1> QED BY <1>7, <1>8 DEF AsksNot

LEMMA HostNumbered ==
  ASSUME TypeOK, NEW t \in Tasks, Messages(t), Numbered(t), Host(t) \/ HostFails(t)
  PROVE  Numbered(t)'
<1> DEFINE q == toHost[t]
           r == toHost'[t]
<1>1. /\ rec'[t] = rec[t] /\ pc'[t] = pc[t] /\ runs'[t] = runs[t]
      /\ q \in Seq(Message) /\ runs[t] \in Int
  BY HostFrame DEF TypeOK, LinkOK, TasksOK
<1>2. r = q \/ \E i \in DOMAIN q : r = RemoveAt(q, i)
  BY HostShrinks DEF Shrinks
<1>3. Numbered(t) /\ Messages(t)
  OBVIOUS
<1>4. Ordered(r, runs[t]) /\ In(r) \subseteq In(q)
  <2>1. Ordered(q, runs[t])
    BY <1>3 DEF Numbered
  <2> QED BY <1>1, <1>2, <2>1, OrderedRemoved, InRemoved
<1>5. PICK ms \in Seq(Message) :
        /\ In(toCtl'[t]) \subseteq In(toCtl[t]) \cup In(ms)
        /\ \A m \in In(ms) : NewToCtl(t, m)
  BY HostTells DEF Told, Adds
<1> HIDE DEF q, r
<1>6. /\ AsksBefore(q, runs[t]) => AsksBefore(r, runs[t])
      /\ AsksNot(q) => AsksNot(r)
  BY <1>4, AsksFewer
\* A new answer is the one to the worker's own request.
<1>7. ASSUME rec[t].dir = "upload", NEW m \in In(ms), m.kind = "response"
      PROVE  /\ pc[t] \notin {"idle", "spawned", "ended", "begin", "exists"}
             /\ AsksNot(r)
  <2>1. PICK i \in Heads(q) :
          /\ q[i].kind \in {"receive", "send"} /\ q[i].run = runs[t]
          /\ Routed(t) /\ HostTake(t, i)
    BY <1>5, <1>7 DEF NewToCtl, q
  <2>2. i \in DOMAIN q /\ q[i] \in In(q)
    BY DEF Heads, In
  <2>3. Asks(q[i])
    BY <1>3, <1>7, <2>1, <2>2 DEF Messages, Asks, q
  <2>4. r = RemoveAt(q, i)
    BY <2>1 DEF HostTake, Rest, TypeOK, LinkOK, q, r
  <2>5. AsksNot(r)
    <3>1. Ordered(q, runs[t])
      BY <1>3 DEF Numbered, q
    <3> QED BY <1>1, <2>1, <2>2, <2>3, <2>4, <3>1, OrderedRemoved DEF AsksNot
  <2>6. pc[t] \notin {"begin", "exists"}
    <3>1. ~AsksBefore(q, runs[t])
      BY <1>1, <2>1, <2>2, <2>3 DEF AsksBefore
    <3> QED BY <1>3, <3>1 DEF Numbered, q
  <2> QED BY <2>1, <2>5, <2>6 DEF Routed
<1>8. CASE rec[t].dir = "upload"
  <2>1. ASSUME pc[t] \in {"idle", "spawned", "ended", "begin", "exists"}
        PROVE  Unanswered(toCtl'[t])
    BY <1>3, <1>5, <1>7, <1>8, <2>1 DEF Numbered, Unanswered
  <2>2. ASSUME ~Unanswered(toCtl'[t]), Unanswered(toCtl[t]) PROVE AsksNot(r)
    BY <1>5, <1>7, <1>8, <2>2 DEF Unanswered
  <2>3. ASSUME \/ ~Unanswered(toCtl[t])
               \/ pc[t] \in {"wait_confirm", "wait_ack", "wait_result"}
        PROVE  AsksNot(r)
    BY <1>3, <1>6, <1>8, <2>3 DEF Numbered, q
  <2>4. pc[t] \in {"spawned", "begin", "exists"} => AsksBefore(r, runs[t])
    BY <1>3, <1>6 DEF Numbered, q
  <2> QED BY <1>1, <1>4, <2>1, <2>2, <2>3, <2>4 DEF Numbered, r
<1>9. CASE rec[t].dir # "upload"
  BY <1>1, <1>3, <1>4, <1>6, <1>9 DEF Numbered, q, r
<1> QED BY <1>8, <1>9

LEMMA ServiceNumbered ==
  ASSUME TypeOK, Ownership, Service, NEW t \in Tasks, Numbered(t)
  PROVE  Numbered(t)'
<1> DEFINE q == toHost[t]
           r == toHost'[t]
<1>0. /\ Numbered(t)
      /\ q \in Seq(Message) /\ runs[t] \in Int
      /\ LinkOK
  BY DEF TypeOK, LinkOK, TasksOK
<1>1. rec'[t].dir = rec[t].dir
  BY ServiceRecords DEF RecordStays, SameData, SameTask
<1>2. In(toCtl'[t]) \subseteq In(toCtl[t])
  BY ServiceLink
<1>3. Unanswered(toCtl[t]) => Unanswered(toCtl'[t])
  BY <1>2 DEF Unanswered
<1>4. /\ Ordered(r, runs[t])
      /\ \A m \in In(r) : Asks(m) => m \in In(q)
  <2>1. CASE r = q
    BY <1>0, <2>1 DEF Numbered
  <2>2. CASE r = <<>>
    BY <2>2 DEF Ordered, In
  <2>3. CASE /\ Send(target, <<Msg("clear", 0, 0)>>)
             /\ r # q
    <3> DEFINE m == Msg("clear", 0, 0)
    <3>1. m \in Message /\ m.kind = "clear"
      BY DEF Msg, Message
    <3>2. Send(target, <<m>>)
      BY <2>3
    <3> HIDE DEF m
    <3>3. target = t
      BY <1>0, <2>3, <3>2 DEF Send, LinkOK
    <3>4. r = q \o <<m>> /\ <<m>> \in Seq(Message) /\ In(<<m>>) = {m}
      BY <1>0, <2>3, <3>1, <3>2, <3>3, SendAdds, InOne
    <3>5. ~Asks(m)
      BY <3>1 DEF Asks
    <3> HIDE DEF q, r
    <3> DEFINE ms == <<m>>
    <3>6. ms \in Seq(Message) /\ (\A l \in In(ms) : ~Asks(l)) /\ r = q \o ms
      BY <3>4, <3>5
    <3> HIDE DEF ms
    <3>7. Ordered(q, runs[t])
      BY <1>0 DEF Numbered, q
    <3>8. Ordered(r, runs[t])
      BY <1>0, <3>6, <3>7, OrderedAppended
    <3>9. In(r) = In(q) \cup In(ms)
      BY <1>0, <3>6, InAppended
    <3> QED BY <3>6, <3>8, <3>9
  <2> QED BY <2>1, <2>2, <2>3, ServiceSends DEF Cut
<1> HIDE DEF q, r
<1>5. /\ \A n : AsksBefore(q, n) => AsksBefore(r, n)
      /\ AsksNot(q) => AsksNot(r)
  BY <1>4, AsksFewer
<1>6. CASE pc'[t] = pc[t] /\ runs'[t] = runs[t]
  BY <1>0, <1>1, <1>3, <1>4, <1>5, <1>6 DEF Numbered, q, r
<1>7. CASE pc'[t] = "idle" /\ runs'[t] = runs[t]
  <2>1. rec[t].dir = "upload" => Unanswered(toCtl'[t])
    BY <1>0, <1>3, <1>7, InEmpty, ServiceIdles DEF Numbered, Unanswered
  <2> QED BY <1>1, <1>4, <1>7, <2>1 DEF Numbered, r
<1>8. CASE Start(t) /\ pc[t] = "idle" /\ pc'[t] = "spawned"
  <2>1. runs'[t] \in Int /\ runs[t] < runs'[t]
    BY <1>8, ServiceIdles
  <2>2. r \in Seq(Message)
    BY ServiceLink DEF LinkOK, r
  <2>3. \A m \in In(r) : m \in Message /\ m.run \in Int
    <3>1. \A i \in DOMAIN r : r[i] \in Message
      BY <2>2
    <3>2. \A m \in Message : m.run \in Int
      BY DEF Message
    <3> QED BY <3>1, <3>2 DEF In
  <2>4. AsksBefore(r, runs'[t])
    BY <1>0, <1>4, <2>1, <2>3 DEF AsksBefore, Ordered, In
  <2>5. Ordered(r, runs'[t])
    <3>1. \A i \in DOMAIN r : r[i] \in In(r)
      BY DEF In
    <3>2. \A i \in DOMAIN r : Asks(r[i]) => r[i].run <= runs'[t]
      BY <2>1, <2>3, <2>4, <3>1 DEF AsksBefore
    <3> QED BY <1>4, <3>2 DEF Ordered
  <2>6. rec[t].dir = "upload" => Unanswered(toCtl'[t])
    BY <1>0, <1>3, <1>8 DEF Numbered
  <2> QED BY <1>1, <1>8, <2>4, <2>5, <2>6 DEF Numbered, r
<1> QED BY <1>6, <1>7, <1>8, ServiceWorkers DEF WorkerKept

(***************************************************************************)
(* What an uploading worker and its record say of the end of the file:     *)
(* who knows that it is dealt with asks for nothing any more, and what the *)
(* host was told of the end has been saved.                                *)
(***************************************************************************)
Resumes(t) ==
    rec[t].dir = "upload" =>
        /\ rec[t].partial \in Dealt => rec[t].started = TRUE
        /\ Active(t) =>
             /\ own[t].partial \in Dealt => own[t].started = TRUE
             /\ rec[t].partial \in Dealt => own[t].partial \in Dealt
        /\ pc[t] \in UploadAt \cup {"wait_init"} => own[t].partial \notin Dealt
        /\ pc[t] \in {"wait_init", "wait_confirm", "wait_ack", "wait_result"} =>
             own[t].started = TRUE
        /\ \A m \in In(toHost[t]) :
             /\ m.kind = "finish" => rec[t].partial \in Dealt
             /\ Asks(m) => /\ rec[t].partial \notin Dealt
                           /\ Active(t) => own[t].partial \notin Dealt

\* The file of an upload is dealt with at the other end.
LEMMA UploadFile ==
  ASSUME TypeOK, NEW t \in Tasks, Owns(t), rec[t].dir = "upload",
         Worker(t) \/ StepFails(t)
  PROVE  /\ UNCHANGED <<file, temp, delivered>>
         /\ Deals(t) \/ (Carries(t) /\ ~Deals(t))
<1>1. pc[t] \notin DownloadAt
  BY DEF Owns, Owned, UploadAt, DownloadAt
<1> QED BY <1>1, WorkerFile
        DEF FileTurn, Carries, Prepares, Writes, Puts, Deals, DownloadAt

LEMMA WorkerResumes ==
  ASSUME TypeOK, NEW t \in Tasks, Owns(t), Numbered(t), Resumes(t),
         Worker(t) \/ StepFails(t)
  PROVE  Resumes(t)'
<1> SUFFICES ASSUME rec'[t].dir = "upload" PROVE Resumes(t)'
  BY DEF Resumes
<1>0. rec[t].dir = "upload" /\ own[t].dir = "upload"
  BY WorkerOwns DEF Fits, SameTask, Owns, Owned, Active
<1> DEFINE o == own[t]
           p == pc[t]
           n == pc'[t]
           c == own'[t]
           q == rec'[t]
           r == rec[t]
<1>1. /\ r.partial \in Dealt => r.started = TRUE
      /\ o.partial \in Dealt => o.started = TRUE
      /\ r.partial \in Dealt => o.partial \in Dealt
      /\ p \in UploadAt \cup {"wait_init"} => o.partial \notin Dealt
      /\ p \in {"wait_init", "wait_confirm", "wait_ack", "wait_result"} =>
           o.started = TRUE
      /\ \A m \in In(toHost[t]) :
           /\ m.kind = "finish" => r.partial \in Dealt
           /\ Asks(m) => r.partial \notin Dealt /\ o.partial \notin Dealt
  BY <1>0, WorkerOwns DEF Resumes
<1>2. PICK ms \in Seq(Message) :
        /\ In(toHost'[t]) \subseteq In(toHost[t]) \cup In(ms)
        /\ \A m \in In(ms) : NewToHost(t, m)
  BY WorkerSends DEF Sends, Adds
<1>3. Starts(t) /\ (Deals(t) \/ (Carries(t) /\ ~Deals(t))) /\ Places(t)
  BY <1>0, WorkerStarts, UploadFile, WorkerPlaces
<1>4. Deals(t) => AsksNot(toHost[t])
  BY <1>0 DEF Deals, Numbered
<1>5. /\ q = r \/ q.started = o.started \/ q.started = TRUE
      /\ n # "ended" =>
           \/ c.started = o.started \/ c.started = TRUE
           \/ p = "wait_init" /\ n = "fail"
      /\ p = "begin" /\ n \in UploadAt =>
           ~(o.started /\ o.partial \in Dealt)
      /\ n \in UploadAt \cup {"wait_init"} =>
           p \in UploadAt \cup {"wait_init", "begin"}
      /\ n = "wait_init" => p = "asked" /\ c.started = TRUE
      /\ n \in {"wait_confirm", "wait_ack", "wait_result"} =>
           c.started = o.started
  BY <1>0, <1>3 DEF Starts
<1>6. Active(t)' => n # "ended"
  BY DEF Active
<1>p. n \in {"wait_confirm", "wait_ack", "wait_result"} =>
        p \in {"wait_init", "wait_confirm", "wait_ack"}
  BY <1>3 DEF Places
\* Nobody has said anything of the end.
<1>7. CASE Carries(t) /\ ~Deals(t)
  <2>1. /\ SameFile(c, o) \/ n = "ended"
        /\ q = r \/ SameFile(q, o)
    BY <1>7 DEF Carries
  <2> HIDE DEF o, p, n, c, q, r
  <2>2. /\ n # "ended" => c.partial = o.partial
        /\ q = r \/ q.partial = o.partial
    BY <2>1 DEF SameFile
  <2>3. q.partial \in Dealt => q.started = TRUE
    BY <1>1, <1>5, <2>2
  <2>4. n # "ended" =>
          /\ c.partial \in Dealt => c.started = TRUE
          /\ q.partial \in Dealt => c.partial \in Dealt
    BY <1>1, <1>5, <2>2
  <2>5. n \in UploadAt \cup {"wait_init"} => c.partial \notin Dealt
    <3> SUFFICES ASSUME n \in UploadAt \cup {"wait_init"}
                 PROVE  c.partial \notin Dealt
      OBVIOUS
    <3>1. n # "ended"
      BY DEF UploadAt
    <3>2. CASE p \in UploadAt \cup {"wait_init"}
      BY <1>1, <2>2, <3>1, <3>2
    <3>3. CASE p = "begin" /\ n \in UploadAt
      BY <1>1, <1>5, <2>2, <3>1, <3>3
    <3> QED BY <1>5, <3>2, <3>3
  <2>6. n \in {"wait_init", "wait_confirm", "wait_ack", "wait_result"} =>
          c.started = TRUE
    BY <1>1, <1>5, <1>p
  <2>7. r.partial \in Dealt => q.partial \in Dealt
    BY <1>1, <2>2
  <2>8. ASSUME NEW m \in In(toHost'[t]), m.kind = "finish"
        PROVE  q.partial \in Dealt
    BY <1>1, <1>2, <2>7, <2>8 DEF NewToHost, q
  <2>9. ASSUME NEW m \in In(toHost'[t]), Asks(m)
        PROVE  q.partial \notin Dealt /\ (n # "ended" => c.partial \notin Dealt)
    <3>1. CASE m \in In(toHost[t])
      BY <1>1, <2>2, <2>9, <3>1
    <3>2. CASE m \notin In(toHost[t])
      <4>1. n = "asked"
        BY <1>2, <2>9, <3>2 DEF NewToHost, Asks, n
      <4> QED BY <2>4, <2>5, <4>1 DEF UploadAt
    <3> QED BY <3>1, <3>2
  <2> QED BY <1>6, <2>3, <2>4, <2>5, <2>6, <2>8, <2>9
          DEF Resumes, n, c, q
\* The host has said it, in answer to what was asked last.
<1>8. CASE Deals(t)
  <2>1. /\ n \in {"done", "fail"} /\ c.partial \in Dealt /\ q \in {r, c}
        /\ c.started = o.started
        /\ p \in {"wait_confirm", "wait_result"}
    BY <1>8 DEF Deals
  <2> HIDE DEF o, p, n, c, q, r
  <2>2. c.started = TRUE
    BY <1>1, <2>1
  <2>3. q.partial \in Dealt => q.started = TRUE
    BY <1>1, <2>1, <2>2
  <2>4. ASSUME NEW m \in In(toHost'[t]), m.kind = "finish"
        PROVE  q.partial \in Dealt
    BY <1>1, <1>2, <2>1, <2>4 DEF NewToHost, q
  <2>5. ASSUME NEW m \in In(toHost'[t]) PROVE ~Asks(m)
    BY <1>2, <1>4, <1>8, <2>1 DEF NewToHost, AsksNot, Asks, n
  <2> QED BY <2>1, <2>2, <2>3, <2>4, <2>5 DEF Resumes, UploadAt, n, c, q
<1> QED BY <1>3, <1>7, <1>8

LEMMA HostResumes ==
  ASSUME TypeOK, NEW t \in Tasks, Resumes(t), Host(t) \/ HostFails(t)
  PROVE  Resumes(t)'
<1>1. rec' = rec /\ own' = own /\ pc' = pc
  BY HostFrame
<1>2. In(toHost'[t]) \subseteq In(toHost[t])
  BY HostSteps, InEmpty DEF Adds
<1> QED BY <1>1, <1>2 DEF Resumes, Active

LEMMA ServiceResumes ==
  ASSUME TypeOK, Ownership, Service, NEW t \in Tasks, Resumes(t)
  PROVE  Resumes(t)'
<1>1. /\ rec'[t].dir = rec[t].dir /\ rec'[t].partial = rec[t].partial
      /\ rec'[t].started = rec[t].started
  BY ServiceRecords DEF RecordStays, SameData, SameTask
<1>2. \A m \in In(toHost'[t]) :
        m.kind \in {"finish", "receive"} => m \in In(toHost[t])
  BY ServiceLink
<1>3. CASE own'[t] = own[t] /\ pc'[t] = pc[t]
  BY <1>1, <1>2, <1>3 DEF Resumes, Active, Asks
<1>4. CASE pc'[t] = "idle"
  BY <1>1, <1>2, <1>4 DEF Resumes, Active, Asks, UploadAt
<1>5. CASE pc'[t] = "spawned" /\ own'[t] = rec[t]
  BY <1>1, <1>2, <1>5 DEF Resumes, Active, Asks, UploadAt
<1> QED BY <1>3, <1>4, <1>5, ServiceWorkers DEF WorkerKept

Sequel == \A t \in Tasks : Numbered(t) /\ Resumes(t)

LEMMA SequelInit == Init => Sequel
<1> SUFFICES ASSUME Init, NEW t \in Tasks PROVE Numbered(t) /\ Resumes(t)
  BY DEF Sequel
<1>1. /\ toHost[t] = <<>> /\ toCtl[t] = <<>> /\ pc[t] = "idle"
      /\ rec[t].partial = "none"
  BY InitRecord DEF Init
<1>2. In(<<>>) = {} /\ "none" \notin Dealt
  BY InEmpty DEF Dealt
<1>3. Ordered(<<>>, runs[t])
  BY DEF Ordered
<1> QED BY <1>1, <1>2, <1>3
        DEF Numbered, Resumes, Active, UploadAt, Unanswered, AsksNot

LEMMA SequelNext ==
  TypeOK /\ Ownership /\ Honest /\ Sequel /\ [Next]_vars => Sequel'
<1> SUFFICES ASSUME TypeOK, Ownership, Honest, Sequel, [Next]_vars,
                    NEW t \in Tasks
             PROVE  (Numbered(t) /\ Resumes(t))'
  BY DEF Sequel
<1>1. Numbered(t) /\ Resumes(t) /\ Owns(t) /\ Messages(t)
  BY DEF Sequel, Ownership, Honest
<1>2. ASSUME rec'[t] = rec[t], own'[t] = own[t], pc'[t] = pc[t],
             toHost'[t] = toHost[t], toCtl'[t] = toCtl[t], runs'[t] = runs[t]
      PROVE  (Numbered(t) /\ Resumes(t))'
  BY <1>1, <1>2 DEF Numbered, Resumes, Active
<1>3. ASSUME NEW u \in Tasks, Worker(u) \/ StepFails(u)
      PROVE  (Numbered(t) /\ Resumes(t))'
  <2>1. CASE u = t
    BY <1>1, <1>3, <2>1, WorkerNumbered, WorkerResumes
  <2>2. CASE u # t
    BY <1>2, <1>3, <2>2, PartyFrame
  <2> QED BY <2>1, <2>2
<1>4. ASSUME NEW u \in Tasks, Host(u) \/ HostFails(u)
      PROVE  (Numbered(t) /\ Resumes(t))'
  <2>1. CASE u = t
    BY <1>1, <1>4, <2>1, HostNumbered, HostResumes
  <2>2. CASE u # t
    BY <1>2, <1>4, <2>2, PartyFrame
  <2> QED BY <2>1, <2>2
<1>5. CASE Service
  BY <1>1, <1>5, ServiceNumbered, ServiceResumes
<1>6. CASE UNCHANGED vars
  BY <1>2, <1>6 DEF vars
<1> QED BY <1>3, <1>4, <1>5, <1>6, NextParties

-----------------------------------------------------------------------------
(***************************************************************************)
(* A file that is in place is not received again: the records that could   *)
(* go on with it say that it is done, or name a temporary file that went   *)
(* when it was put in place, and a resumption must find that one.          *)
(***************************************************************************)
Shut(r, t) ==
    /\ r.partial \in {"open", "done"}
    /\ r.partial = "open" => temp[t][r.name] = Absent

\* What is being written to is what the saved record names.
Opens(t) ==
    /\ pc[t] \in {"open", "renaming"} =>
         own[t].partial = "open" /\ SameFile(rec[t], own[t])
    /\ hpc[t] \in {"open", "renaming"} =>
         hown[t].partial = "open" /\ SameFile(hrec[t], hown[t])

OnceHere(t) ==
    rec[t].dir = "download" /\ delivered[t] > 0 =>
        /\ Shut(rec[t], t)
        /\ Active(t) => Shut(own[t], t)
        /\ pc[t] \notin {"open", "renaming"}
        /\ pc[t] = "prepared" => own[t].partial = "done"

OnceThere(t) ==
    rec[t].dir = "upload" /\ delivered[t] > 0 =>
        /\ rec[t].partial \in Dealt \/ (hrec[t].policy # 0 /\ Shut(hrec[t], t))
        /\ hpc[t] \in ReceiveAt => Shut(hown[t], t) /\ Shut(hrec[t], t)
        /\ hpc[t] \notin {"open", "renaming"}
        /\ hpc[t] = "prepared" => hown[t].partial = "done"

Once(t) ==
    \/ t \in cleaned
    \/ delivered[t] < 2 /\ OnceHere(t) /\ OnceThere(t)

LEMMA ShutPrepared ==
  ASSUME NEW t, NEW d, NEW r \in Record \cup HostRecord, Shut(r, t),
         ~PrepareFails(t, r, d), Prepare(t, r, d)
  PROVE  Prepared(r, d).partial = "done" /\ UNCHANGED temp
<1>1. r.partial # "open"
  BY DEF PrepareFails, Shut, Skips, Dealt
<1>2. r.partial = "done"
  BY <1>1 DEF Shut
<1>3. Skips(r, d)
  BY <1>2 DEF Skips, Dealt
<1>4. Prepared(r, d) = [r EXCEPT !.partial = IF @ = "none" THEN "skipped" ELSE @]
  BY <1>3 DEF Prepared
<1>5. Prepared(r, d).partial = "done"
  BY <1>2, <1>4 DEF Record, HostRecord
<1>6. UNCHANGED temp
  BY <1>3 DEF Prepare
<1> QED BY <1>5, <1>6

LEMMA OpensNext ==
  ASSUME TypeOK, Ownership, NEW t \in Tasks, Opens(t),
         \/ Worker(t) \/ StepFails(t)
         \/ Host(t) \/ HostFails(t)
         \/ Service
  PROVE  Opens(t)'
<1> DEFINE Here == pc[t] \in {"open", "renaming"} =>
                     own[t].partial = "open" /\ SameFile(rec[t], own[t])
           There == hpc[t] \in {"open", "renaming"} =>
                      hown[t].partial = "open" /\ SameFile(hrec[t], hown[t])
<1>1. Here /\ There
  BY DEF Opens
<1>2. ASSUME Worker(t) \/ StepFails(t) PROVE Opens(t)'
  <2>1. There'
    BY <1>1, <1>2, WorkerFrame
  <2>2. Here'
    <3>1. CASE Carries(t)
      BY <1>1, <3>1 DEF Carries, SameFile
    <3>2. CASE Writes(t)
      BY <1>1, <3>2 DEF Writes
    <3>3. CASE Prepares(t) \/ Puts(t) \/ Deals(t)
      BY <3>3 DEF Prepares, Puts, Deals
    <3> QED BY <1>2, <3>1, <3>2, <3>3, WorkerFile DEF FileTurn
  <2> QED BY <2>1, <2>2 DEF Opens
<1>3. ASSUME Host(t) \/ HostFails(t) PROVE Opens(t)'
  <2>1. Here'
    BY <1>1, <1>3, HostFrame
  <2>2. There'
    <3>1. CASE HostCarries(t)
      BY <1>1, <3>1 DEF HostCarries, SameFile
    <3>2. CASE HostWrites(t)
      BY <1>1, <3>2 DEF HostWrites
    <3>3. CASE HostBegins(t) \/ HostPrepares(t) \/ HostPuts(t) \/ HostEnds(t)
      BY <3>3 DEF HostBegins, HostPrepares, HostPuts, HostEnds
    <3>4. CASE HostClears(t)
      BY <3>4 DEF HostClears, Receiving
    <3> QED BY <1>3, <3>1, <3>2, <3>3, <3>4, HostFile DEF HostFileTurn
  <2> QED BY <2>1, <2>2 DEF Opens
<1>4. ASSUME Service PROVE Opens(t)'
  <2>1. There'
    BY <1>1, <1>4, ServiceHost
  <2>2. SameData(rec'[t], rec[t]) /\ WorkerKept(t)
    BY <1>4, ServiceRecords, ServiceWorkers DEF RecordStays
  <2>3. Here'
    BY <1>1, <2>2 DEF WorkerKept, SameData, SameFile
  <2> QED BY <2>1, <2>3 DEF Opens
<1> QED BY <1>2, <1>3, <1>4

LEMMA WorkerOnce ==
  ASSUME TypeOK, NEW t \in Tasks, Owns(t), HostTruth(t), Resumes(t), Opens(t),
         Once(t), Worker(t) \/ StepFails(t)
  PROVE  Once(t)'
<1> DEFINE o == own[t]
           p == pc[t]
           n == pc'[t]
           c == own'[t]
           q == rec'[t]
           r == rec[t]
           StillShut(x) == /\ x.partial \in {"open", "done"}
                           /\ x.partial = "open" => temp'[t][x.name] = Absent
<1> SUFFICES ASSUME t \notin cleaned PROVE Once(t)'
  <2>1. UNCHANGED cleaned
    BY WorkerFrame
  <2> QED BY <2>1 DEF Once
<1>0. /\ r \in Record /\ o \in Record /\ DiskOK
      /\ delivered[t] \in Nat /\ delivered[t] < 2
      /\ OnceHere(t) /\ OnceThere(t)
      /\ UNCHANGED <<hrec, hown, hpc>>
      /\ Active(t) /\ q.dir = r.dir
  BY WorkerOwns, WorkerFrame DEF TypeOK, TasksOK, DiskOK, Once, Fits, SameTask
\* The task of a download.
<1>1. CASE r.dir = "download"
  <2>1. p \notin UploadAt
    BY <1>1 DEF Owns, Owned, UploadAt
  <2>2. OnceThere(t)'
    BY <1>0, <1>1 DEF OnceThere
  <2>3. ASSUME delivered[t] > 0
        PROVE  /\ Shut(r, t) /\ Shut(o, t)
               /\ p \notin {"open", "renaming"}
               /\ p = "prepared" => o.partial = "done"
    BY <1>0, <1>1, <2>3 DEF OnceHere
  <2>4. CASE Carries(t)
    <3>1. /\ UNCHANGED <<temp, delivered>>
          /\ SameFile(c, o) \/ n = "ended"
          /\ q = r \/ SameFile(q, o)
          /\ n # "prepared"
          /\ n \in {"open", "renaming"} =>
               p = "open" \/ (p = "prepared" /\ o.partial = "open")
      BY <2>4 DEF Carries
    <3>2. ASSUME delivered[t] > 0
          PROVE  /\ StillShut(q) /\ (n # "ended" => StillShut(c))
                 /\ n \notin {"open", "renaming", "prepared"}
      <4>1. \A x : SameFile(x, r) \/ SameFile(x, o) => Shut(x, t)
        BY <2>3, <3>2 DEF Shut, SameFile
      <4>2. \A x : Shut(x, t) => StillShut(x)
        BY <3>1 DEF Shut
      <4>3. SameFile(q, r) \/ SameFile(q, o)
        BY <3>1 DEF SameFile
      <4>4. /\ Shut(q, t) /\ (n # "ended" => Shut(c, t))
            /\ n \notin {"open", "renaming", "prepared"}
        BY <2>3, <3>1, <3>2, <4>1, <4>3
      <4> HIDE DEF StillShut
      <4> QED BY <4>2, <4>4
    <3>3. OnceHere(t)'
      BY <3>1, <3>2 DEF OnceHere, Active, Shut
    <3> QED BY <1>0, <2>2, <3>1, <3>3 DEF Once
  <2>5. CASE Prepares(t)
    <3>1. /\ UNCHANGED delivered /\ q = r /\ n = "prepared"
          /\ ~PrepareFails(t, o, "here") /\ Prepare(t, o, "here")
          /\ c = Prepared(o, "here")
      BY <2>5 DEF Prepares
    <3>2. ASSUME delivered[t] > 0
          PROVE  c.partial = "done" /\ UNCHANGED temp
      BY <1>0, <2>3, <3>1, <3>2, ShutPrepared
    <3>3. OnceHere(t)'
      BY <2>3, <3>1, <3>2 DEF OnceHere, Shut
    <3> QED BY <1>0, <2>2, <3>1, <3>3 DEF Once
  <2>6. CASE Writes(t)
    <3>1. delivered[t] = 0 /\ UNCHANGED delivered
      BY <1>0, <2>3, <2>6 DEF Writes
    <3> QED BY <1>0, <3>1 DEF Once, OnceHere, OnceThere
  <2>7. CASE Puts(t)
    <3>1. /\ p = "renaming" /\ n = "renamed" /\ q = r
          /\ c.partial = "done"
          /\ PutInPlace(t, o, "here")
      BY <2>7 DEF Puts
    <3>2. delivered[t] = 0
      BY <1>0, <2>3, <3>1
    <3>3. delivered'[t] = 1 /\ temp'[t][o.name] = Absent
      BY <1>0, <3>1, <3>2, PutTemp
    <3>4. r.partial = "open" /\ r.name = o.name
      BY <3>1 DEF Opens, SameFile
    <3>5. OnceHere(t)'
      BY <3>1, <3>3, <3>4 DEF OnceHere, Shut
    <3> QED BY <2>2, <3>3, <3>5 DEF Once
  <2>8. ~Deals(t)
    BY <2>1 DEF Deals, UploadAt
  <2> QED BY <2>4, <2>5, <2>6, <2>7, <2>8, WorkerFile DEF FileTurn
\* The task of an upload: what the host has is left alone.
<1>2. CASE r.dir = "upload"
  <2>1. UNCHANGED <<temp, delivered>> /\ (Deals(t) \/ Carries(t))
    BY <1>2, UploadFile
  <2>2. OnceHere(t)'
    BY <1>0, <1>2 DEF OnceHere
  <2>3. r.partial \in Dealt => q.partial \in Dealt
    <3>1. r.partial \in Dealt => o.partial \in Dealt
      BY <1>0, <1>2 DEF Resumes
    <3> QED BY <2>1, <3>1 DEF Deals, Carries, SameFile
  <2>4. \A x : Shut(x, t) =>
          /\ x.partial \in {"open", "done"}
          /\ x.partial = "open" => temp'[t][x.name] = Absent
    BY <2>1 DEF Shut
  <2>5. OnceThere(t)'
    <3> SUFFICES ASSUME delivered[t] > 0 PROVE OnceThere(t)'
      BY <2>1 DEF OnceThere
    <3>1. /\ r.partial \in Dealt \/ (hrec[t].policy # 0 /\ Shut(hrec[t], t))
          /\ hpc[t] \in ReceiveAt => Shut(hown[t], t) /\ Shut(hrec[t], t)
          /\ hpc[t] \notin {"open", "renaming"}
          /\ hpc[t] = "prepared" => hown[t].partial = "done"
      BY <1>0, <1>2 DEF OnceThere
    <3> QED BY <1>0, <2>3, <2>4, <3>1 DEF OnceThere, Shut
  <2> QED BY <1>0, <2>1, <2>2, <2>5 DEF Once
<1> QED BY <1>0, <1>1, <1>2 DEF Record

LEMMA HostOnce ==
  ASSUME TypeOK, NEW t \in Tasks, HostTruth(t), Messages(t), Resumes(t),
         Opens(t), Clears(t), Once(t), Host(t) \/ HostFails(t)
  PROVE  Once(t)'
<1> DEFINE o == hown[t]
           p == hpc[t]
           n == hpc'[t]
           c == hown'[t]
           q == hrec'[t]
           r == hrec[t]
<1>u. UNCHANGED <<rec, own, pc, cleaned>>
  BY HostFrame
<1> SUFFICES ASSUME t \notin cleaned PROVE Once(t)'
  BY <1>u DEF Once
<1>0. /\ r \in HostRecord /\ o \in HostRecord /\ DiskOK
      /\ delivered[t] \in Nat /\ delivered[t] < 2
      /\ OnceHere(t) /\ OnceThere(t)
      /\ t \notin discard /\ \A m \in In(toHost[t]) : m.kind # "clear"
      /\ rec[t] \in Record
      /\ p \in HostAt
  BY DEF TypeOK, TasksOK, HostOK, DiskOK, Once, Clears
<1>1. \A x : UNCHANGED temp =>
          (Shut(x, t) => /\ x.partial \in {"open", "done"}
                         /\ x.partial = "open" => temp'[t][x.name] = Absent)
  BY DEF Shut
\* The host has nothing to do with a download's files.
<1>2. CASE rec[t].dir = "download"
  <2>1. o = NoHostRecord /\ r = NoHostRecord /\ p \notin ReceiveAt
    BY <1>0, <1>2 DEF HostTruth, HostAt
  <2>2. \A m \in In(toHost[t]) : m.kind # "receive"
    BY <1>2 DEF Messages
  <2>3. UNCHANGED <<temp, delivered>>
    <3>1. CASE HostCarries(t) \/ HostBegins(t)
      BY <3>1 DEF HostCarries, HostBegins
    <3>2. CASE HostEnds(t)
      <4>1. UNCHANGED temp \/ temp' = Cleaned(t, NoHostRecord)
        BY <2>1, <3>2 DEF HostEnds
      <4>2. NoHostRecord.partial # "open"
        BY DEF NoHostRecord
      <4> QED BY <3>2, <4>1, <4>2, CleanedNothing DEF HostEnds
    <3>3. ~HostPrepares(t) /\ ~HostWrites(t) /\ ~HostPuts(t) /\ ~HostClears(t)
      BY <1>0, <2>1
      DEF HostPrepares, HostWrites, HostPuts, HostClears, ReceiveAt
    <3> QED BY <3>1, <3>2, <3>3, HostFile DEF HostFileTurn
  <2>4. OnceHere(t)'
    BY <1>0, <1>u, <2>3 DEF OnceHere, Shut, Active
  <2>5. OnceThere(t)'
    BY <1>2, <1>u DEF OnceThere
  <2> QED BY <1>0, <2>3, <2>4, <2>5 DEF Once
<1>3. CASE rec[t].dir = "upload"
  <2>1. OnceHere(t)'
    BY <1>3, <1>u DEF OnceHere
  <2>2. ASSUME delivered[t] > 0
        PROVE  /\ rec[t].partial \in Dealt \/ (r.policy # 0 /\ Shut(r, t))
               /\ p \in ReceiveAt => Shut(o, t) /\ Shut(r, t)
               /\ p \notin {"open", "renaming"}
               /\ p = "prepared" => o.partial = "done"
    BY <1>0, <1>3, <2>2 DEF OnceThere
  <2>3. /\ p \in ReceiveAt => o.policy # 0
        /\ p \notin {"s_confirm", "s_ack"}
    BY <1>3 DEF HostTruth
  <2>4. \A m \in In(toHost[t]) :
          /\ m.kind = "finish" => rec[t].partial \in Dealt
          /\ m.kind = "receive" => rec[t].partial \notin Dealt
          /\ m.kind # "send"
    BY <1>3 DEF Resumes, Messages, Asks
  \* Where the job is and what it holds, when no file is put in place.
  <2>5. ASSUME UNCHANGED <<temp, delivered>>,
               delivered[t] > 0 =>
                 /\ rec[t].partial \in Dealt \/ (q.policy # 0 /\ Shut(q, t))
                 /\ n \in ReceiveAt => Shut(c, t) /\ Shut(q, t)
                 /\ n \notin {"open", "renaming"}
                 /\ n = "prepared" => c.partial = "done"
        PROVE  Once(t)'
    <3>1. delivered' = delivered /\ temp' = temp
      BY <2>5
    <3>2. OnceThere(t)'
      BY <1>u, <1>1, <2>5, <3>1 DEF OnceThere, Shut
    <3> QED BY <1>0, <2>1, <3>1, <3>2 DEF Once
  <2>6. CASE HostCarries(t)
    <3>1. /\ UNCHANGED <<temp, delivered>> /\ c = o
          /\ \/ n = p /\ q = r
             \/ p = "prepared" /\ q = o
                /\ n = IF o.partial = "open" THEN "open" ELSE "complete"
             \/ p = "open"
             \/ p = "renamed" /\ n = "complete" /\ q = o
      BY <2>3, <2>4, <2>6 DEF HostCarries
    <3> HIDE DEF o, p, n, c, q, r
    <3> QED BY <2>2, <2>3, <2>5, <3>1 DEF ReceiveAt
  <2>7. CASE HostBegins(t)
    <3>1. /\ UNCHANGED <<temp, delivered>> /\ c = q /\ n = "ready"
          /\ rec[t].partial \notin Dealt
          /\ r.policy # 0 => q = r
      BY <2>4, <2>7 DEF HostBegins
    <3> HIDE DEF o, p, n, c, q, r
    <3> QED BY <2>2, <2>5, <3>1
  <2>8. CASE HostPrepares(t)
    <3>1. /\ p = "ready" /\ n = "prepared" /\ q = r
          /\ ~PrepareFails(t, o, "there") /\ Prepare(t, o, "there")
          /\ c = Prepared(o, "there") /\ UNCHANGED delivered
      BY <2>8 DEF HostPrepares
    <3>2. CASE delivered[t] = 0
      BY <1>0, <2>1, <3>1, <3>2 DEF Once, OnceThere
    <3>3. CASE delivered[t] # 0
      <4>1. delivered[t] > 0
        BY <1>0, <3>3
      <4>2. Shut(o, t) /\ Shut(r, t)
        BY <2>2, <3>1, <4>1 DEF ReceiveAt
      <4>3. c.partial = "done" /\ UNCHANGED temp
        BY <1>0, <3>1, <4>2, ShutPrepared
      <4>4. Shut(c, t)
        BY <4>3 DEF Shut
      <4> HIDE DEF o, p, n, c, q, r
      <4> QED BY <2>2, <2>5, <3>1, <4>2, <4>3, <4>4
    <3> QED BY <3>2, <3>3
  <2>9. CASE HostWrites(t)
    <3>1. delivered[t] = 0 /\ UNCHANGED delivered
      BY <1>0, <2>2, <2>9 DEF HostWrites
    <3> QED BY <1>0, <2>1, <3>1 DEF Once, OnceThere
  <2>10. CASE HostPuts(t)
    <3>1. /\ p = "renaming" /\ n = "renamed" /\ q = r
          /\ c.partial = "done"
          /\ PutInPlace(t, o, "there")
      BY <2>10 DEF HostPuts
    <3>2. delivered[t] = 0
      BY <1>0, <2>2, <3>1
    <3>3. delivered'[t] = 1 /\ temp'[t][o.name] = Absent
      BY <1>0, <3>1, <3>2, PutTemp
    <3>4. r.partial = "open" /\ r.name = o.name
      BY <3>1 DEF Opens, SameFile
    <3>5. r.policy # 0
      BY <3>4 DEF HostTruth, NoHostRecord
    <3>6. OnceThere(t)'
      BY <1>u, <3>1, <3>3, <3>4, <3>5 DEF OnceThere, Shut
    <3> QED BY <2>1, <3>3, <3>6 DEF Once
  <2>11. CASE HostEnds(t)
    <3>1. /\ n = "none" /\ p # "none" /\ UNCHANGED delivered
          /\ \/ q \in {o, r} /\ UNCHANGED temp
             \/ \E m \in In(toHost[t]) : m.kind = "finish"
      BY <1>0, <2>11 DEF HostEnds
    <3>2. p \in ReceiveAt
      BY <1>0, <2>3, <3>1 DEF HostAt
    <3>3. CASE q \in {o, r} /\ UNCHANGED temp
      <4>1. n \notin ReceiveAt \cup {"open", "renaming", "prepared"}
        BY <3>1 DEF ReceiveAt
      <4> HIDE DEF o, p, n, c, q, r
      <4> QED BY <2>2, <2>3, <2>5, <3>1, <3>2, <3>3, <4>1
    <3>4. CASE \E m \in In(toHost[t]) : m.kind = "finish"
      <4>1. rec[t].partial \in Dealt
        BY <2>4, <3>4
      <4> QED
        BY <1>0, <1>u, <2>1, <3>1, <4>1 DEF Once, OnceThere, ReceiveAt
    <3> QED BY <3>1, <3>3, <3>4
  <2>12. ~HostClears(t)
    BY <1>0 DEF HostClears
  <2> QED
    BY <2>6, <2>7, <2>8, <2>9, <2>10, <2>11, <2>12, HostFile DEF HostFileTurn
<1> QED BY <1>0, <1>2, <1>3 DEF Record

LEMMA ServiceOnce ==
  ASSUME TypeOK, Ownership, Service, NEW t \in Tasks, Once(t)
  PROVE  Once(t)'
<1>0. /\ UNCHANGED <<hrec, delivered>>
      /\ WorkerKept(t) /\ SameData(rec'[t], rec[t])
      /\ cleaned \subseteq cleaned'
  BY ServiceFrame, ServiceWorkers, ServiceRecords, ServiceTemp DEF RecordStays
<1>1. \/ hown'[t] = hown[t] /\ hpc'[t] = hpc[t]
      \/ hpc'[t] = "none"
  BY ServiceHost
<1>2. CASE temp'[t] = temp[t]
  <2>1. \A x, y : SameFile(x, y) /\ Shut(y, t) =>
          /\ x.partial \in {"open", "done"}
          /\ x.partial = "open" => temp'[t][x.name] = Absent
    BY <1>2 DEF Shut, SameFile
  <2>2. SameFile(rec'[t], rec[t]) /\ \A x : SameFile(x, x)
    BY <1>0 DEF SameData, SameFile
  <2>3. OnceHere(t) => OnceHere(t)'
    <3> SUFFICES ASSUME OnceHere(t), rec[t].dir = "download", delivered[t] > 0
                 PROVE  OnceHere(t)'
      BY <1>0 DEF OnceHere, SameData, SameTask
    <3>1. /\ Shut(rec[t], t) /\ (Active(t) => Shut(own[t], t))
          /\ pc[t] \notin {"open", "renaming"}
          /\ pc[t] = "prepared" => own[t].partial = "done"
      BY DEF OnceHere
    <3>2. CASE own'[t] = own[t] /\ pc'[t] = pc[t]
      BY <2>1, <2>2, <3>1, <3>2 DEF OnceHere, Shut, Active
    <3>3. CASE pc'[t] = "idle"
      BY <2>1, <2>2, <3>1, <3>3 DEF OnceHere, Shut, Active
    <3>4. CASE pc'[t] = "spawned" /\ own'[t] = rec[t]
      BY <2>1, <2>2, <3>1, <3>4 DEF OnceHere, Shut, Active
    <3> QED BY <1>0, <3>2, <3>3, <3>4 DEF WorkerKept
  <2>4. OnceThere(t) => OnceThere(t)'
    <3> SUFFICES ASSUME OnceThere(t), rec[t].dir = "upload", delivered[t] > 0
                 PROVE  OnceThere(t)'
      BY <1>0 DEF OnceThere, SameData, SameTask
    <3>1. /\ rec[t].partial \in Dealt \/ (hrec[t].policy # 0 /\ Shut(hrec[t], t))
          /\ hpc[t] \in ReceiveAt => Shut(hown[t], t) /\ Shut(hrec[t], t)
          /\ hpc[t] \notin {"open", "renaming"}
          /\ hpc[t] = "prepared" => hown[t].partial = "done"
      BY DEF OnceThere
    <3>2. rec'[t].partial = rec[t].partial
      BY <2>2 DEF SameFile
    <3> QED BY <1>0, <1>1, <2>1, <2>2, <3>1, <3>2 DEF OnceThere, Shut, ReceiveAt
  <2> QED BY <1>0, <2>3, <2>4 DEF Once
<1>3. CASE temp'[t] # temp[t]
  <2>1. /\ Cleanup /\ temp' = Cleaned(target, rec[target])
        /\ target \in cleaned'
    BY <1>3, ServiceTemp
  <2>2. target \in Tasks
    BY <2>1 DEF Cleanup, Ownership, TargetInv
  <2>3. TempAt(target, rec[target].name)
    BY <2>1, <2>2, CleanedTemp DEF TypeOK, TasksOK
  <2>4. t = target
    BY <1>3, <2>3 DEF TempAt
  <2> QED BY <2>1, <2>4 DEF Once
<1> QED BY <1>2, <1>3

Singly == \A t \in Tasks : Opens(t) /\ Clears(t) /\ Once(t)

LEMMA SinglyInit == Init => Singly
<1> SUFFICES ASSUME Init, NEW t \in Tasks
             PROVE  Opens(t) /\ Clears(t) /\ Once(t)
  BY DEF Singly
<1>1. /\ toHost[t] = <<>> /\ pc[t] = "idle" /\ hpc[t] = "none"
      /\ discard = {} /\ delivered[t] = 0
  BY DEF Init
<1>2. Opens(t) /\ Clears(t)
  BY <1>1, InEmpty DEF Opens, Clears
<1>3. Once(t)
  BY <1>1 DEF Once, OnceHere, OnceThere
<1> QED BY <1>2, <1>3

LEMMA SinglyNext ==
  TypeOK /\ Ownership /\ Honest /\ Sequel /\ Singly /\ [Next]_vars => Singly'
<1> SUFFICES ASSUME TypeOK, Ownership, Honest, Sequel, Singly, [Next]_vars,
                    NEW t \in Tasks
             PROVE  (Opens(t) /\ Clears(t) /\ Once(t))'
  BY DEF Singly
<1>1. /\ Owns(t) /\ HostTruth(t) /\ Messages(t) /\ Resumes(t)
      /\ Opens(t) /\ Clears(t) /\ Once(t)
  BY DEF Singly, Sequel, Honest, Ownership
<1>2. Clears(t)'
  BY <1>1, ClearsNext
<1>3. ASSUME rec'[t] = rec[t], own'[t] = own[t], pc'[t] = pc[t],
             hrec'[t] = hrec[t], hown'[t] = hown[t], hpc'[t] = hpc[t],
             temp'[t] = temp[t], delivered'[t] = delivered[t],
             cleaned' = cleaned
      PROVE  (Opens(t) /\ Once(t))'
  <2>1. Opens(t)'
    BY <1>1, <1>3 DEF Opens
  <2>2. OnceHere(t) => OnceHere(t)'
    BY <1>3 DEF OnceHere, Active, Shut
  <2>3. OnceThere(t) => OnceThere(t)'
    BY <1>3 DEF OnceThere, Shut
  <2> QED BY <1>1, <1>3, <2>1, <2>2, <2>3 DEF Once
<1>4. ASSUME NEW u \in Tasks, Worker(u) \/ StepFails(u)
      PROVE  (Opens(t) /\ Once(t))'
  <2>1. CASE u = t
    BY <1>1, <1>4, <2>1, OpensNext, WorkerOnce
  <2>2. CASE u # t
    BY <1>3, <1>4, <2>2, PartyFrame
  <2> QED BY <2>1, <2>2
<1>5. ASSUME NEW u \in Tasks, Host(u) \/ HostFails(u)
      PROVE  (Opens(t) /\ Once(t))'
  <2>1. CASE u = t
    BY <1>1, <1>5, <2>1, OpensNext, HostOnce
  <2>2. CASE u # t
    BY <1>3, <1>5, <2>2, PartyFrame
  <2> QED BY <2>1, <2>2
<1>6. ASSUME Service PROVE (Opens(t) /\ Once(t))'
  BY <1>1, <1>6, OpensNext, ServiceOnce
<1>7. ASSUME UNCHANGED vars PROVE (Opens(t) /\ Once(t))'
  BY <1>3, <1>7 DEF vars
<1> QED BY <1>2, <1>4, <1>5, <1>6, <1>7, NextParties

(***************************************************************************)
(* THEOREM DeliveredOnce: however often workers and jobs are stopped,      *)
(* crash, lose their connection or fail to save, and are resumed, the file *)
(* of a task is put in place once, unless the user cancelled the task.     *)
(***************************************************************************)
THEOREM PutInPlaceOnce == Spec => []DeliveredOnce
<1>1. Init => TypeOK /\ Ownership /\ Honest /\ Sequel /\ Singly
  BY TypeInit, OwnershipInit, HonestInit, SequelInit, SinglyInit
<1>2. TypeOK /\ Ownership /\ Honest /\ Sequel /\ Singly /\ [Next]_vars
        => (TypeOK /\ Ownership /\ Honest /\ Sequel /\ Singly)'
  BY TypeNext, OwnershipNext, HonestNext, SequelNext, SinglyNext
<1>3. Singly => DeliveredOnce
  BY DEF Singly, Once, DeliveredOnce
<1> QED BY <1>1, <1>2, <1>3, PTL DEF Spec

=============================================================================
