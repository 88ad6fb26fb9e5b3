---------------------------- MODULE FileTransfer ----------------------------
(***************************************************************************)
(* File transfer between a controller and the host it is connected to:     *)
(* the controller's service loop, its saved records and its workers        *)
(* (service.rs, tasks.rs), the host's engine and its jobs (host.rs,        *)
(* host/transfer.rs), and the receiving side's disk (storage.rs).          *)
(*                                                                         *)
(* A task is one file.  All tasks carry the same file name from different  *)
(* places to one directory of the receiving side, which is where they meet.*)
(* Records survive a crash; workers, jobs, messages and tokens do not.     *)
(*                                                                         *)
(* Left out: browsing and the other file operations, folders and their     *)
(* manifests, byte progress, and the limits on tasks, routes and queues.   *)
(* Nobody else writes to the directory.                                    *)
(***************************************************************************)
EXTENDS Integers, FiniteSets, SequencesExt, Functions

CONSTANTS Tasks,      \* the tasks of one controller with one host
          Plans,      \* what the tasks are, and a bound on the incidents:
                      \* the user's commands after adding, crashes, losses,
                      \* timeouts and failed saves together
          Size,       \* blocks of a file
          Copies,     \* the numbers a duplicate name may get, 9999 in the code
          MaxRuns     \* bound on the workers started, of all tasks together

ASSUME BoundsAssumption ==
    /\ IsFiniteSet(Tasks) /\ "free" \notin Tasks
    /\ Size \in Nat \ {0}
    /\ Copies \in Nat
    /\ MaxRuns \in Nat

\* overwrite, keep both, skip, and 0 for no such task; FileOperationStrategy
\* has 4 for a resumption.  taken: a file of that name is there already.
ASSUME PlansAssumption ==
    \A plan \in Plans :
        /\ plan.tasks \in
              [Tasks -> [dir : {"upload", "download"}, policy : 0..3]]
        /\ plan.incidents \in Nat
        /\ plan.taken \in BOOLEAN

VARIABLES
    rec,       \* the controller's saved records
    own,       \* each worker's copy of its record
    pc,        \* where each worker is, "idle" for none
    stop,      \* tasks whose token is cancelled
    runs,      \* number of the worker of each task, of all that were started
    svc,       \* what the service loop is at
    target,    \* the task whose command the loop carries out, NoTask for none
    stale,     \* copies of queued records the loop is about to pause
    quit,      \* the service's own token is cancelled
    wire,      \* the service holds a connection
    up,        \* the connection is there
    toHost, toCtl,   \* messages of each task
    hrec,      \* the host's saved records
    hown,      \* each host job's copy of its record
    hpc,       \* where each host job is, "none" for no job
    hrun,      \* the worker each host job serves
    hstop, discard,  \* host jobs told to stop, and to clear up
    file,      \* the receiving directories
    temp,      \* the temporary files of each task
    delivered, \* how often the file of a task was put in place
    unsaved,   \* tasks whose worker could not save its last record
    cleaned,   \* tasks the user cancelled: what was received is cleared up
    incidents  \* how many may still happen

tasks == <<rec, own, pc, stop, runs>>
service == <<svc, target, stale, quit, wire>>
link == <<up, toHost, toCtl>>
host == <<hrec, hown, hpc, hrun, hstop, discard>>
disk == <<file, temp, delivered, cleaned>>
vars == <<tasks, service, link, host, disk, unsaved, incidents>>

NoTask == "none"

Names == 0..Copies   \* "a", "a (1)", "a (2)"...
Free == "free"
Absent == -1
Skip == -1
Final == {"Done", "Cancelled", "Skipped"}
Dealt == {"done", "skipped"}

NoRecord == [dir |-> "upload", policy |-> 1, state |-> "none",
             started |-> FALSE, partial |-> "none", name |-> 0]

NoHostRecord == [policy |-> 0, partial |-> "none", name |-> 0]

Side(r) == IF r.dir = "upload" THEN "there" ELSE "here"

Waits == {"exists", "wait_init", "wait_confirm", "wait_ack", "wait_result",
          "receive", "open", "complete"}

\* The transport has a route to the worker.
Routed(t) == pc[t] \notin {"idle", "spawned", "done", "settle", "ended"}

Init ==
    /\ \E plan \in Plans :
         /\ rec = [t \in Tasks |->
                     [NoRecord EXCEPT !.dir = plan.tasks[t].dir,
                                      !.policy = plan.tasks[t].policy]]
         /\ incidents = plan.incidents
         /\ file = [d \in {"here", "there"} |->
                     [n \in Names |->
                        IF n = 0 /\ plan.taken THEN "old" ELSE Free]]
    /\ own = [t \in Tasks |-> NoRecord]
    /\ pc = [t \in Tasks |-> "idle"]
    /\ stop = {}
    /\ runs = [t \in Tasks |-> 0]
    /\ svc = "loop" /\ target = NoTask /\ stale = <<>>
    /\ quit = FALSE /\ wire = FALSE
    /\ up = FALSE
    /\ toHost = [t \in Tasks |-> <<>>] /\ toCtl = [t \in Tasks |-> <<>>]
    /\ hrec = [t \in Tasks |-> NoHostRecord]
    /\ hown = [t \in Tasks |-> NoHostRecord]
    /\ hpc = [t \in Tasks |-> "none"]
    /\ hrun = [t \in Tasks |-> 0]
    /\ hstop = {} /\ discard = {}
    /\ temp = [t \in Tasks |-> [n \in Names |-> Absent]]
    /\ delivered = [t \in Tasks |-> 0]
    /\ unsaved = {} /\ cleaned = {}

Fault == incidents > 0 /\ incidents' = incidents - 1

-----------------------------------------------------------------------------
(***************************************************************************)
(* Messages.  Both directions have a TEXT channel and a FILE channel for   *)
(* blocks; each is ordered, one may overtake the other.  What the host's   *)
(* engine answers itself overtakes what waits in the mailbox of a job, and *)
(* nothing overtakes it.  A number is an error code, a resume position, or *)
(* Skip.                                                                   *)
(***************************************************************************)
Msg(kind, run, arg) == [kind |-> kind, run |-> run, arg |-> arg]

Initial == {"exist", "receive", "send", "clear"}

Channel(m) ==
    IF m.kind \in Initial THEN "engine"
    ELSE IF m.kind = "block" THEN "file" ELSE "text"

Heads(q) ==
    {i \in DOMAIN q :
        \A j \in 1..(i - 1) : Channel(q[j]) \notin {"engine", Channel(q[i])}}

Blocks(t, from) == [i \in 1..(Size - from) |-> Msg("block", runs[t], 0)]

\* The worker's request: its token is looked at first, then the channel.
CanSend(t) == up /\ t \notin stop

\* What no job will take is dropped: the host knows the task is retired.
Send(t, ms) ==
    toHost' = [toHost EXCEPT ![t] =
                 IF /\ @ = <<>> /\ hrun[t] # runs[t]
                    /\ \A i \in DOMAIN ms : ms[i].kind \notin Initial
                 THEN @
                 ELSE @ \o ms]

\* What the host sends reaches the worker whose task it belongs to.
Answers(t, run, ms) ==
    IF up /\ run = runs[t] /\ Routed(t)
    THEN [toCtl EXCEPT ![t] = @ \o ms]
    ELSE toCtl

Answer(t, ms) == toCtl' = Answers(t, hrun[t], ms)

-----------------------------------------------------------------------------
(***************************************************************************)
(* The disk of the receiving side, the same code on both machines.         *)
(***************************************************************************)
FreeName(d) ==
    CHOOSE n \in Names \ {0} :
        file[d][n] = Free /\ \A m \in 1..(n - 1) : file[d][m] # Free

\* No number is left when all of them are taken.
Nameable(r, d) ==
    \/ r.policy # 2
    \/ \E n \in Names : file[d][n] = Free

Chosen(r, d) ==
    IF file[d][0] # Free /\ r.policy = 2 THEN FreeName(d) ELSE 0

Skips(r, d) ==
    \/ r.partial \in Dealt
    \/ r.partial = "none" /\ r.policy = 3 /\ file[d][0] # Free

\* Mutation of PrepareFails: a temporary file that is gone is made again.
PrepareAnew(t, r, d) ==
    /\ ~Skips(r, d)
    /\ ~Nameable(r, d) \/ temp[t][Chosen(r, d)] # Absent
    /\ r.partial = "none"

\* The file of a resumption must be there, that of a beginning must not.
PrepareFails(t, r, d) ==
    /\ ~Skips(r, d)
    /\ IF r.partial = "open"
       THEN temp[t][r.name] = Absent
       ELSE ~Nameable(r, d) \/ temp[t][Chosen(r, d)] # Absent

Prepared(r, d) ==
    IF Skips(r, d)
    THEN [r EXCEPT !.partial = IF @ = "none" THEN "skipped" ELSE @]
    ELSE [r EXCEPT !.partial = "open",
                   !.name = IF r.partial = "open" THEN @ ELSE Chosen(r, d)]

Prepare(t, r, d) ==
    LET n == Prepared(r, d).name
    IN  temp' = IF Skips(r, d) \/ temp[t][n] # Absent
                THEN temp
                ELSE [temp EXCEPT ![t][n] = 0]

Position(t, r) == IF r.partial = "open" THEN temp[t][r.name] ELSE Skip

Write(t, r) == temp' = [temp EXCEPT ![t][r.name] = @ + 1]

\* Mutation of KeepTemp: a file that cannot be put in place is thrown away.
DropTemp(t, r) == temp' = [temp EXCEPT ![t][r.name] = Absent]

KeepTemp(t, r) == UNCHANGED temp

\* Policy 1 replaces an existing target; otherwise the name must be free.
FinishAllowed(t, r, d) ==
    /\ temp[t][r.name] = Size
    /\ r.policy # 1 => file[d][r.name] = Free

PutInPlace(t, r, d) ==
    /\ file' = [file EXCEPT ![d][r.name] = t]
    /\ temp' = [temp EXCEPT ![t][r.name] = Absent]
    /\ delivered' = [delivered EXCEPT ![t] = @ + 1]

Cleaned(t, r) ==
    IF r.partial = "open" THEN [temp EXCEPT ![t][r.name] = Absent] ELSE temp

-----------------------------------------------------------------------------
(***************************************************************************)
(* Steps of a worker.  It works on its own copy and saves the whole of it; *)
(* a save replaces the record or fails and leaves it.                      *)
(***************************************************************************)
Goto(t, label) == pc' = [pc EXCEPT ![t] = label]

Keep(t, r) == own' = [own EXCEPT ![t] = r]

\* Save the copy and go on, or fail.
SaveThen(t, r, label, send) ==
    /\ Keep(t, r)
    /\ \/ /\ rec' = [rec EXCEPT ![t] = r]
          /\ IF Len(send) = 0 \/ CanSend(t)
             THEN Goto(t, label) /\ Send(t, send)
             ELSE Goto(t, "fail") /\ UNCHANGED toHost
          /\ UNCHANGED incidents
       \/ /\ Fault
          /\ Goto(t, "fail")
          /\ UNCHANGED <<rec, toHost>>

\* Take a message: stop is looked at first, the payload must be expected.
Take(t, i) == toCtl' = [toCtl EXCEPT ![t] = RemoveAt(@, i)]

Got(t, at, i) ==
    /\ pc[t] = at
    /\ t \notin stop
    /\ i \in Heads(toCtl[t])
    /\ Take(t, i)

Request(t, ms, label) ==
    IF CanSend(t)
    THEN Send(t, ms) /\ Goto(t, label)
    ELSE Goto(t, "fail") /\ UNCHANGED toHost

Register(t) ==
    /\ pc[t] = "spawned"
    /\ LET r == [own[t] EXCEPT !.state = "Running"]
       IN  \/ /\ up
              /\ rec' = [rec EXCEPT ![t] = r]
              /\ Keep(t, r)
              /\ Goto(t, "begin")
              /\ UNCHANGED incidents
           \/ ~up /\ Goto(t, "settle") /\ UNCHANGED <<rec, own, incidents>>
           \/ /\ up /\ Fault
              /\ Keep(t, r)
              /\ Goto(t, "settle")
              /\ UNCHANGED rec
    /\ UNCHANGED <<stop, runs, service, link, host, disk, unsaved>>

\* upload: a resumption names its record, a beginning asks for the name.
BeginUpload(t) ==
    /\ pc[t] = "begin" /\ own[t].dir = "upload"
    /\ IF own[t].started
       THEN IF own[t].partial \in Dealt
            THEN Goto(t, "done") /\ UNCHANGED toHost
            ELSE Request(t, <<Msg("receive", runs[t], 4)>>, "asked")
       ELSE Request(t, <<Msg("exist", runs[t], 0)>>, "exists")
    /\ UNCHANGED <<rec, own, stop, runs, service, up, toCtl, host, disk,
                   unsaved, incidents>>

\* 0: the name is free, 1: it exists, 2: another task is writing to it.
NameChecked(t, i) ==
    /\ Got(t, "exists", i)
    /\ LET m == toCtl[t][i]
       IN  IF m.kind = "exist" /\ m.arg # 2
           THEN IF m.arg = 1 /\ own[t].policy = 3
                THEN /\ Keep(t, [own[t] EXCEPT !.state = "Skipped"])
                     /\ Goto(t, "done")
                     /\ UNCHANGED toHost
                ELSE /\ Request(t, <<Msg("receive", runs[t], own[t].policy)>>,
                                "asked")
                     /\ UNCHANGED own
           ELSE Goto(t, "fail") /\ UNCHANGED <<toHost, own>>
    /\ UNCHANGED <<rec, stop, runs, service, up, host, disk, unsaved, incidents>>

\* The record counts as started when the request is out.
SaveStarted(t) ==
    /\ pc[t] = "asked"
    /\ SaveThen(t, [own[t] EXCEPT !.started = TRUE], "wait_init", <<>>)
    /\ UNCHANGED <<stop, runs, service, up, toCtl, host, disk, unsaved>>

ReceiveAnswered(t, i) ==
    /\ own[t].dir = "upload"
    /\ Got(t, "wait_init", i)
    /\ LET m == toCtl[t][i]
       IN  IF m.kind = "response" /\ m.arg = 1
           THEN /\ Request(t, <<Msg("ask", runs[t], 0)>>, "wait_confirm")
                /\ UNCHANGED own
           ELSE /\ Goto(t, "fail")
                /\ Keep(t, [own[t] EXCEPT !.started =
                              @ /\ ~(m.kind = "response" /\ m.arg \in {4, 8, 12})])
                /\ UNCHANGED toHost
    /\ UNCHANGED <<rec, stop, runs, service, up, host, disk, unsaved, incidents>>

\* The position comes from the host; the blocks after it are sent.
FileConfirmed(t, i) ==
    /\ Got(t, "wait_confirm", i)
    /\ LET m == toCtl[t][i]
       IN  IF m.kind # "confirm"
           THEN /\ Goto(t, "fail")
                /\ UNCHANGED <<rec, own, toHost, incidents>>
           ELSE IF m.arg = Skip
           THEN SaveThen(t, [own[t] EXCEPT !.partial = "skipped"], "done",
                         <<Msg("finish", runs[t], 1)>>)
           ELSE /\ IF m.arg = Size
                   THEN Request(t, <<Msg("complete", runs[t], 1)>>,
                                "wait_result")
                   ELSE Request(t, Blocks(t, m.arg), "wait_ack")
                /\ UNCHANGED <<rec, own, incidents>>
    /\ UNCHANGED <<stop, runs, service, up, host, disk, unsaved>>

\* The last block in flight has been confirmed when the position says so.
BlockConfirmed(t, i) ==
    /\ Got(t, "wait_ack", i)
    /\ LET m == toCtl[t][i]
       IN  IF m.kind # "ack"
           THEN Goto(t, "fail") /\ UNCHANGED toHost
           ELSE IF m.arg = Size
           THEN Request(t, <<Msg("complete", runs[t], 1)>>, "wait_result")
           ELSE UNCHANGED <<pc, toHost>>
    /\ UNCHANGED <<rec, own, stop, runs, service, up, host, disk, unsaved,
                   incidents>>

\* Mutation of ResultOk: any answer to the completion is taken for success.
ResultAny(m) == m.kind \in {"result", "stopped"}

ResultOk(m) == m.kind = "result"

FileSaved(t, i) ==
    /\ Got(t, "wait_result", i)
    /\ IF ResultOk(toCtl[t][i])
       THEN SaveThen(t, [own[t] EXCEPT !.partial = "done"], "done",
                     <<Msg("finish", runs[t], 1)>>)
       ELSE Goto(t, "fail") /\ UNCHANGED <<rec, own, toHost, incidents>>
    /\ UNCHANGED <<stop, runs, service, up, host, disk, unsaved>>

Upload(t) ==
    \/ BeginUpload(t) \/ SaveStarted(t)
    \/ \E i \in DOMAIN toCtl[t] :
         \/ NameChecked(t, i) \/ ReceiveAnswered(t, i) \/ FileConfirmed(t, i)
         \/ BlockConfirmed(t, i) \/ FileSaved(t, i)

-----------------------------------------------------------------------------
BeginDownload(t) ==
    /\ pc[t] = "begin" /\ own[t].dir = "download"
    /\ IF ~own[t].started /\ own[t].policy = 3 /\ file["here"][0] # Free
       THEN /\ Keep(t, [own[t] EXCEPT !.state = "Skipped"])
            /\ Goto(t, "done")
            /\ UNCHANGED toHost
       ELSE /\ IF own[t].started /\ own[t].partial \in Dealt
               THEN Goto(t, "done") /\ UNCHANGED toHost
               ELSE Request(t, <<Msg("send", runs[t], 0)>>, "wait_init")
            /\ UNCHANGED own
    /\ UNCHANGED <<rec, stop, runs, service, up, toCtl, host, disk, unsaved,
                   incidents>>

SendAnswered(t, i) ==
    /\ own[t].dir = "download"
    /\ Got(t, "wait_init", i)
    /\ LET m == toCtl[t][i]
       IN  IF m.kind = "response" /\ m.arg = 1
           THEN SaveThen(t, [own[t] EXCEPT !.started = TRUE], "receive", <<>>)
           ELSE Goto(t, "fail") /\ UNCHANGED <<rec, own, toHost, incidents>>
    /\ UNCHANGED <<stop, runs, service, up, host, disk, unsaved>>

\* The temporary file is made before the record names it.
FileAsked(t, i) ==
    /\ Got(t, "receive", i)
    /\ LET ok == /\ toCtl[t][i].kind = "ask"
                 /\ ~PrepareFails(t, own[t], "here")
       IN  IF ok
           THEN /\ Prepare(t, own[t], "here")
                /\ Keep(t, Prepared(own[t], "here"))
                /\ Goto(t, "prepared")
           ELSE Goto(t, "fail") /\ UNCHANGED <<own, temp>>
    /\ UNCHANGED <<rec, stop, runs, service, up, toHost, host, file, delivered,
                   cleaned, unsaved, incidents>>

SavePrepared(t) ==
    /\ pc[t] = "prepared"
    /\ SaveThen(t, own[t],
                IF own[t].partial = "open" THEN "open" ELSE "complete",
                <<Msg("confirm", runs[t], Position(t, own[t]))>>)
    /\ UNCHANGED <<stop, runs, service, up, toCtl, host, disk, unsaved>>

BlockReceived(t, i) ==
    /\ Got(t, "open", i)
    /\ toCtl[t][i].kind = "block"
    /\ Write(t, own[t])
    /\ Request(t, <<Msg("ack", runs[t], temp'[t][own[t].name])>>, "open")
    /\ UNCHANGED <<rec, own, stop, runs, service, up, host, file, delivered,
                   cleaned, unsaved, incidents>>

\* finish: the file is whole, its name is looked at, then it is renamed.
FileCompleted(t, i) ==
    /\ Got(t, "open", i)
    /\ toCtl[t][i].kind # "block"
    /\ IF toCtl[t][i].kind = "complete" /\ FinishAllowed(t, own[t], "here")
       THEN Goto(t, "renaming") /\ UNCHANGED temp
       ELSE Goto(t, "fail") /\ KeepTemp(t, own[t])
    /\ UNCHANGED <<rec, own, stop, runs, service, up, toHost, host, file,
                   delivered, cleaned, unsaved, incidents>>

Rename(t) ==
    /\ pc[t] = "renaming"
    /\ PutInPlace(t, own[t], "here")
    /\ Keep(t, [own[t] EXCEPT !.partial = "done"])
    /\ Goto(t, "renamed")
    /\ UNCHANGED <<rec, stop, runs, service, link, host, cleaned, unsaved,
                   incidents>>

SaveRenamed(t) ==
    /\ pc[t] = "renamed"
    /\ SaveThen(t, own[t], "complete", <<Msg("result", runs[t], 1)>>)
    /\ UNCHANGED <<stop, runs, service, up, toCtl, host, disk, unsaved>>

AllReceived(t, i) ==
    /\ Got(t, "complete", i)
    /\ IF toCtl[t][i].kind = "finish"
       THEN Request(t, <<Msg("result", runs[t], 1)>>, "done")
       ELSE Goto(t, "fail") /\ UNCHANGED toHost
    /\ UNCHANGED <<rec, own, stop, runs, service, up, host, disk, unsaved,
                   incidents>>

Download(t) ==
    \/ BeginDownload(t) \/ SavePrepared(t) \/ Rename(t) \/ SaveRenamed(t)
    \/ \E i \in DOMAIN toCtl[t] :
         \/ SendAnswered(t, i) \/ FileAsked(t, i) \/ BlockReceived(t, i)
         \/ FileCompleted(t, i) \/ AllReceived(t, i)

-----------------------------------------------------------------------------
(***************************************************************************)
(* The end of a worker: a failed one sends one notice, a stopped one then  *)
(* waits for the host to have stopped, for three seconds at the most.      *)
(***************************************************************************)
WaitStops(t) ==
    /\ pc[t] \in Waits
    /\ t \in stop
    /\ Goto(t, "fail")
    /\ UNCHANGED <<rec, own, stop, runs, service, link, host, disk, unsaved,
                   incidents>>

\* No answer for sixty seconds, or the disk refuses the last step.
StepFails(t) ==
    /\ (pc[t] \in Waits /\ t \notin stop) \/ pc[t] = "renaming"
    /\ Fault
    /\ Goto(t, "fail")
    /\ UNCHANGED <<rec, own, stop, runs, service, link, host, disk, unsaved>>

Fail(t) ==
    /\ pc[t] = "fail"
    /\ IF up
       THEN /\ Send(t, <<Msg("pause", runs[t], IF t \in stop THEN 10 ELSE 6)>>)
            /\ Goto(t, IF t \in stop THEN "drain" ELSE "settle")
       ELSE Goto(t, "settle") /\ UNCHANGED toHost
    /\ UNCHANGED <<rec, own, stop, runs, service, up, toCtl, host, disk,
                   unsaved, incidents>>

\* Mutation of DrainOver: the wait has no limit.
DrainAnswered(t) ==
    ~up \/ \E i \in Heads(toCtl[t]) : toCtl[t][i].kind = "stopped"

\* The answer came, the route is closed, or three seconds have passed.
DrainOver(t) == TRUE

Drain(t) ==
    /\ pc[t] = "drain"
    /\ DrainOver(t)
    /\ Goto(t, "settle")
    /\ UNCHANGED <<rec, own, stop, runs, service, link, host, disk, unsaved,
                   incidents>>

Outcome(t) ==
    IF pc[t] = "done"
    THEN IF own[t].state = "Skipped" THEN "Skipped" ELSE "Done"
    ELSE IF t \in stop THEN "Paused" ELSE "Failed"

Settle(t) ==
    /\ pc[t] \in {"done", "settle"}
    /\ LET r == [own[t] EXCEPT !.state = Outcome(t)]
       IN  \/ /\ rec' = [rec EXCEPT ![t] = r]
              /\ unsaved' = unsaved \ {t}
              /\ UNCHANGED incidents
           \/ /\ Fault
              /\ unsaved' = unsaved \cup {t}
              /\ UNCHANGED rec
    /\ own' = [own EXCEPT ![t] = NoRecord]
    /\ Goto(t, "ended")
    /\ toCtl' = [toCtl EXCEPT ![t] = <<>>]
    /\ UNCHANGED <<stop, runs, service, up, toHost, host, disk>>

Worker(t) ==
    \/ Register(t) \/ Upload(t) \/ Download(t)
    \/ WaitStops(t) \/ Fail(t) \/ Drain(t) \/ Settle(t)

-----------------------------------------------------------------------------
(***************************************************************************)
(* The host: requests are taken in order and given to the job of their     *)
(* task.  A job of an earlier connection ends before the next begins.      *)
(***************************************************************************)
Rest(t, i) == RemoveAt(toHost[t], i)

HostTake(t, i) == toHost' = [toHost EXCEPT ![t] = Rest(t, i)]

Asked(t, i, kind) ==
    /\ up
    /\ i \in Heads(toHost[t])
    /\ toHost[t][i].kind = kind
    /\ HostTake(t, i)

\* Late traffic of a retired task is dropped.
Late(t, i) ==
    /\ up
    /\ i \in Heads(toHost[t])
    /\ toHost[t][i].kind \notin Initial
    /\ hpc[t] = "none" \/ toHost[t][i].run # hrun[t]
    /\ HostTake(t, i)
    /\ UNCHANGED <<tasks, service, up, toCtl, host, disk, unsaved, incidents>>

Receiving ==
    {t \in Tasks : hpc[t] \notin {"none", "s_confirm", "s_ack"}}

\* FileExist: the busy names are those of the running receive jobs.
NameAsked(t, i) ==
    /\ Asked(t, i, "exist")
    /\ toCtl' = Answers(t, toHost[t][i].run,
                   <<Msg("exist", toHost[t][i].run,
                         IF Receiving # {} THEN 2
                         ELSE IF file["there"][0] # Free THEN 1 ELSE 0)>>)
    /\ UNCHANGED <<tasks, service, up, host, disk, unsaved, incidents>>

HostRecorded(t) == hrec[t].policy # 0

\* The record is reserved, then found or not, then the name is reserved.
Refusal(t, strategy) ==
    IF t \in Receiving THEN 3
    ELSE IF strategy = 4 /\ ~HostRecorded(t) THEN 11
    ELSE IF strategy # 4 /\ HostRecorded(t) THEN 3
    ELSE IF Receiving # {} THEN 3
    ELSE 1

\* A request may also be refused for want of a permission or of space.
ReceiveAsked(t, i) ==
    /\ Asked(t, i, "receive")
    /\ LET m == toHost[t][i]
           code == Refusal(t, m.arg)
           r == IF m.arg = 4 THEN hrec[t]
                ELSE [NoHostRecord EXCEPT !.policy = m.arg]
           Reply(c) == toCtl' = Answers(t, m.run, <<Msg("response", m.run, c)>>)
       IN  \/ /\ code = 1
              /\ hrec' = [hrec EXCEPT ![t] = r]
              /\ hown' = [hown EXCEPT ![t] = r]
              /\ hpc' = [hpc EXCEPT ![t] = "ready"]
              /\ hrun' = [hrun EXCEPT ![t] = m.run]
              /\ Reply(1)
              /\ UNCHANGED <<hstop, discard, incidents>>
           \/ code # 1 /\ Reply(code) /\ UNCHANGED <<host, incidents>>
           \/ Fault /\ (\E c \in {3, 4} : Reply(c)) /\ UNCHANGED host
    /\ UNCHANGED <<tasks, service, up, disk, unsaved>>

-----------------------------------------------------------------------------
HostGoto(t, label) == hpc' = [hpc EXCEPT ![t] = label]

HostGot(t, at, i) ==
    /\ up
    /\ hpc[t] = at
    /\ t \notin hstop
    /\ i \in Heads(toHost[t])
    /\ toHost[t][i].run = hrun[t]

\* The job ends: r is what stays of its record, its names are free again.
\* What q still holds for it comes late.
EndJob(t, r, q) ==
    /\ hrec' = [hrec EXCEPT ![t] = r]
    /\ toHost' = [toHost EXCEPT ![t] = q]
    /\ hown' = [hown EXCEPT ![t] = NoHostRecord]
    /\ HostGoto(t, "none")
    /\ hrun' = [hrun EXCEPT ![t] = 0]
    /\ hstop' = hstop \ {t} /\ discard' = discard \ {t}

Stopped(t, code) == Answer(t, <<Msg("stopped", hrun[t], code)>>)

HostFileAsked(t, i) ==
    /\ HostGot(t, "ready", i)
    /\ toHost[t][i].kind = "ask"
    /\ IF PrepareFails(t, hown[t], "there")
       THEN /\ EndJob(t, hown[t], Rest(t, i))
            /\ Stopped(t, 3)
            /\ UNCHANGED temp
       ELSE /\ HostTake(t, i)
            /\ Prepare(t, hown[t], "there")
            /\ hown' = [hown EXCEPT ![t] = Prepared(@, "there")]
            /\ HostGoto(t, "prepared")
            /\ UNCHANGED <<hrec, hrun, hstop, discard, toCtl>>
    /\ UNCHANGED <<tasks, service, up, file, delivered, cleaned, unsaved,
                   incidents>>

HostSavePrepared(t) ==
    /\ hpc[t] = "prepared"
    /\ hrec' = [hrec EXCEPT ![t] = hown[t]]
    /\ HostGoto(t, IF hown[t].partial = "open" THEN "open" ELSE "complete")
    /\ Answer(t, <<Msg("confirm", hrun[t], Position(t, hown[t]))>>)
    /\ UNCHANGED <<tasks, service, up, toHost, hown, hrun, hstop, discard,
                   disk, unsaved, incidents>>

HostBlockReceived(t, i) ==
    /\ HostGot(t, "open", i)
    /\ toHost[t][i].kind = "block"
    /\ HostTake(t, i)
    /\ Write(t, hown[t])
    /\ Answer(t, <<Msg("ack", hrun[t], temp'[t][hown[t].name])>>)
    /\ UNCHANGED <<tasks, service, up, host, file, delivered, cleaned,
                   unsaved, incidents>>

HostFileCompleted(t, i) ==
    /\ HostGot(t, "open", i)
    /\ toHost[t][i].kind = "complete"
    /\ IF FinishAllowed(t, hown[t], "there")
       THEN /\ HostTake(t, i)
            /\ HostGoto(t, "renaming")
            /\ UNCHANGED <<temp, toCtl, hrec, hown, hrun, hstop, discard>>
       ELSE /\ EndJob(t, hown[t], Rest(t, i))
            /\ Stopped(t, 3)
            /\ KeepTemp(t, hown[t])
    /\ UNCHANGED <<tasks, service, up, file, delivered, cleaned, unsaved,
                   incidents>>

HostRename(t) ==
    /\ hpc[t] = "renaming"
    /\ PutInPlace(t, hown[t], "there")
    /\ hown' = [hown EXCEPT ![t].partial = "done"]
    /\ HostGoto(t, "renamed")
    /\ UNCHANGED <<tasks, service, link, hrec, hrun, hstop, discard, cleaned,
                   unsaved, incidents>>

HostSaveRenamed(t) ==
    /\ hpc[t] = "renamed"
    /\ hrec' = [hrec EXCEPT ![t] = hown[t]]
    /\ HostGoto(t, "complete")
    /\ Answer(t, <<Msg("result", hrun[t], 1)>>)
    /\ UNCHANGED <<tasks, service, up, toHost, hown, hrun, hstop, discard,
                   disk, unsaved, incidents>>

\* The task is over: its record and its temporary files go.
HostFinished(t, i) ==
    /\ HostGot(t, "complete", i)
    /\ toHost[t][i].kind = "finish"
    /\ EndJob(t, NoHostRecord, Rest(t, i))
    /\ temp' = Cleaned(t, hown[t])
    /\ Stopped(t, 1)
    /\ UNCHANGED <<tasks, service, up, file, delivered, cleaned, unsaved,
                   incidents>>

\* Complete with an error code: the record stays for a resumption.
HostPaused(t, i) ==
    /\ \E at \in {"ready", "open", "complete", "s_confirm", "s_ack"} :
         HostGot(t, at, i)
    /\ toHost[t][i].kind = "pause"
    /\ EndJob(t, hown[t], Rest(t, i))
    /\ Stopped(t, toHost[t][i].arg)
    /\ UNCHANGED <<tasks, service, up, disk, unsaved, incidents>>

HostWaits == {"ready", "open", "complete", "s_confirm", "s_ack"}

\* A stopped job sends nothing more; what it was told to discard goes.
HostStops(t) ==
    /\ hpc[t] \in HostWaits
    /\ t \in hstop
    /\ IF t \in discard
       THEN /\ EndJob(t, NoHostRecord, toHost[t])
            /\ temp' = Cleaned(t, hown[t])
       ELSE EndJob(t, hown[t], toHost[t]) /\ UNCHANGED temp
    /\ UNCHANGED <<tasks, service, up, toCtl, file, delivered, cleaned, unsaved,
                   incidents>>

\* A wait times out, a step or a save fails; the closing save may fail too.
HostFails(t) ==
    /\ hpc[t] # "none"
    /\ Fault
    /\ \E saved \in BOOLEAN :
         EndJob(t, IF saved THEN hown[t] ELSE hrec[t], toHost[t])
    /\ IF t \in hstop THEN UNCHANGED toCtl ELSE Stopped(t, 3)
    /\ UNCHANGED <<tasks, service, up, disk, unsaved>>

\* ClearSendTemp is never answered.  The clearing needs the whole directory
\* of records, so it fails while any receive job holds its own.  The record
\* goes after the temporary file, and stays when that fails or the host
\* crashes first.
ClearAsked(t, i) ==
    /\ Asked(t, i, "clear")
    /\ \/ /\ t \in Receiving
          /\ hstop' = hstop \cup {t} /\ discard' = discard \cup {t}
          /\ UNCHANGED <<hrec, temp, incidents>>
       \/ /\ Receiving = {}
          /\ temp' = Cleaned(t, hrec[t])
          /\ \/ hrec' = [hrec EXCEPT ![t] = NoHostRecord] /\ UNCHANGED incidents
             \/ Fault /\ UNCHANGED hrec
          /\ UNCHANGED <<hstop, discard>>
       \/ /\ t \notin Receiving /\ Receiving # {}
          /\ UNCHANGED <<hrec, temp, hstop, discard, incidents>>
    /\ UNCHANGED <<tasks, service, up, toCtl, hown, hpc, hrun, file,
                   delivered, cleaned, unsaved>>

-----------------------------------------------------------------------------
\* send: the manifest and the first question go out at once.
SendAsked(t, i) ==
    /\ Asked(t, i, "send")
    /\ LET run == toHost[t][i].run
       IN  /\ hrun' = [hrun EXCEPT ![t] = run]
           /\ toCtl' = Answers(t, run, <<Msg("response", run, 1),
                                         Msg("ask", run, 0)>>)
    /\ HostGoto(t, "s_confirm")
    /\ UNCHANGED <<tasks, service, up, hrec, hown, hstop, discard, disk,
                   unsaved, incidents>>

Ended(t) == <<Msg("complete", hrun[t], 1), Msg("finish", hrun[t], 1)>>

SendConfirmed(t, i) ==
    /\ HostGot(t, "s_confirm", i)
    /\ LET m == toHost[t][i]
       IN  /\ m.kind = "confirm"
           /\ IF m.arg = Skip
              THEN /\ Answer(t, <<Msg("finish", hrun[t], 1)>>)
                   /\ EndJob(t, hown[t], Rest(t, i))
              ELSE IF m.arg = Size
              THEN Answer(t, Ended(t)) /\ EndJob(t, hown[t], Rest(t, i))
              ELSE /\ HostTake(t, i)
                   /\ Answer(t, Blocks(t, m.arg))
                   /\ HostGoto(t, "s_ack")
                   /\ UNCHANGED <<hrec, hown, hrun, hstop, discard>>
    /\ UNCHANGED <<tasks, service, up, disk, unsaved, incidents>>

SendAcked(t, i) ==
    /\ HostGot(t, "s_ack", i)
    /\ toHost[t][i].kind = "ack"
    /\ IF toHost[t][i].arg = Size
       THEN Answer(t, Ended(t)) /\ EndJob(t, hown[t], Rest(t, i))
       ELSE HostTake(t, i) /\ UNCHANGED <<toCtl, host>>
    /\ UNCHANGED <<tasks, service, up, disk, unsaved, incidents>>

Host(t) ==
    \/ HostSavePrepared(t) \/ HostRename(t) \/ HostSaveRenamed(t)
    \/ HostStops(t)
    \/ \E i \in DOMAIN toHost[t] :
         \/ Late(t, i) \/ NameAsked(t, i) \/ ReceiveAsked(t, i)
         \/ HostFileAsked(t, i) \/ HostBlockReceived(t, i)
         \/ HostFileCompleted(t, i) \/ HostFinished(t, i) \/ HostPaused(t, i)
         \/ ClearAsked(t, i)
         \/ SendAsked(t, i) \/ SendConfirmed(t, i) \/ SendAcked(t, i)

-----------------------------------------------------------------------------
(***************************************************************************)
(* The service loop: it looks after the connection and the workers, and    *)
(* carries out one command at a time; Pause, Cancel and PauseAll wait for  *)
(* the workers they stop.                                                  *)
(***************************************************************************)
Running == {t \in Tasks : pc[t] # "idle"}

Queued == {t \in Tasks : rec[t].state = "Queued"}

WithState(S, state) ==
    [t \in Tasks |-> IF t \in S THEN [rec[t] EXCEPT !.state = state] ELSE rec[t]]

\* The connection is gone: routes are drained, the host's jobs told to stop.
Disconnect ==
    /\ up' = FALSE
    /\ toHost' = [t \in Tasks |-> <<>>] /\ toCtl' = [t \in Tasks |-> <<>>]
    /\ hstop' = {t \in Tasks : hpc[t] # "none"}
    /\ UNCHANGED <<hrec, hown, hpc, hrun, discard>>

Routes == {t \in Tasks : Routed(t)}

Looks == svc = "loop" /\ ~quit

Command == Looks /\ Fault

\* The host admits one controller, after the session before is taken down.
Connect ==
    /\ Looks
    /\ ~wire
    /\ up \/ \A t \in Tasks : hpc[t] = "none"
    /\ wire' = TRUE
    /\ up' = TRUE
    /\ UNCHANGED <<tasks, svc, target, stale, quit, toHost, toCtl, host, disk,
                   unsaved, incidents>>

\* The connection ended: the workers are stopped, then the queue is paused.
WireEnds ==
    /\ svc = "loop"
    /\ wire /\ ~up
    /\ wire' = FALSE
    /\ stop' = stop \cup Running
    /\ svc' = "pausing"
    /\ stale' = [t \in Queued |-> rec[t]]
    /\ UNCHANGED <<rec, own, pc, runs, target, quit, link, host, disk, unsaved,
                   incidents>>

\* The host allows no transfers any more: the same, over a connection that is
\* up; its lease is returned when the queue is paused.
Disallowed ==
    /\ svc = "loop"
    /\ wire /\ up
    /\ Fault
    /\ wire' = FALSE
    /\ stop' = stop \cup Running
    /\ svc' = "pausing"
    /\ stale' = [t \in Queued |-> rec[t]]
    /\ UNCHANGED <<rec, own, pc, runs, target, quit, link, host, disk, unsaved>>

\* pause_queued saves the copies it took, one after the other, to the first
\* that fails.
PauseStale(t) ==
    /\ svc \in {"pausing", "leaving"}
    /\ t \in DOMAIN stale
    /\ \/ /\ rec' = [rec EXCEPT ![t] = [stale[t] EXCEPT !.state = "Paused"]]
          /\ stale' = Restrict(stale, DOMAIN stale \ {t})
          /\ UNCHANGED incidents
       \/ Fault /\ stale' = <<>> /\ UNCHANGED rec
    /\ UNCHANGED <<own, pc, stop, runs, svc, target, quit, wire, link, host,
                   disk, unsaved>>

PausedQueue ==
    /\ svc = "pausing" /\ stale = <<>>
    /\ svc' = "loop"
    /\ \/ up /\ Disconnect
       \/ UNCHANGED <<link, host>>
    /\ UNCHANGED <<tasks, target, stale, quit, wire, disk, unsaved, incidents>>

Reap(t) ==
    /\ svc = "loop"
    /\ pc[t] = "ended"
    /\ pc' = [pc EXCEPT ![t] = "idle"]
    /\ stop' = stop \ {t}
    /\ UNCHANGED <<rec, own, runs, service, link, host, disk, unsaved, incidents>>

\* Mutation of Serial: downloads to one destination run side by side.
SideBySide(t) == TRUE

\* "Files sharing a destination must choose duplicate names serially."
Serial(t) ==
    rec[t].dir = "download" =>
        \A u \in Running : rec[u].dir # "download"

\* Workers are numbered in the order they are started.
Follows(n) ==
    /\ \A t \in Tasks : runs[t] < n
    /\ n = 1 \/ \E t \in Tasks : runs[t] = n - 1

Start(t) ==
    /\ Looks
    /\ wire
    /\ t \in Queued \ Running
    /\ Serial(t)
    /\ \E n \in 1..MaxRuns :
         Follows(n) /\ runs' = [runs EXCEPT ![t] = n]
    /\ pc' = [pc EXCEPT ![t] = "spawned"]
    /\ own' = [own EXCEPT ![t] = rec[t]]
    /\ UNCHANGED <<rec, stop, service, link, host, disk, unsaved, incidents>>

\* Nobody looks at the window and nothing is to be done.
Release ==
    /\ Command
    /\ wire
    /\ Running = {} /\ Queued = {}
    /\ wire' = FALSE
    /\ \/ Disconnect
       \/ UNCHANGED <<link, host>>
    /\ UNCHANGED <<tasks, svc, target, stale, quit, disk, unsaved>>

-----------------------------------------------------------------------------
Add(t) ==
    /\ Looks
    /\ wire
    /\ rec[t].state = "none" /\ rec[t].policy # 0
    /\ rec' = [rec EXCEPT ![t].state = "Queued"]
    /\ UNCHANGED <<own, pc, stop, runs, service, link, host, disk, unsaved,
                   incidents>>

Resumable == {t \in Tasks : /\ rec[t].state \in {"Paused", "Failed"}
                            /\ pc[t] = "idle"}

\* One task, or all of them.
Resume(S) ==
    /\ Command
    /\ wire
    /\ S # {} /\ S \subseteq Resumable
    /\ rec' = WithState(S, "Queued")
    /\ UNCHANGED <<own, pc, stop, runs, service, link, host, disk, unsaved>>

Return == svc' = "loop" /\ target' = NoTask

Await(t, label) ==
    /\ stop' = stop \cup {t}
    /\ svc' = label
    /\ target' = t

Pause(t) ==
    /\ Command
    /\ IF t \in Running
       THEN Await(t, "pause") /\ UNCHANGED rec
       ELSE /\ t \in Queued
            /\ rec' = WithState({t}, "Paused")
            /\ UNCHANGED <<stop, svc, target>>
    /\ UNCHANGED <<own, pc, runs, stale, quit, wire, link, host, disk, unsaved>>

\* Mutation of Cancel: the worker is told to stop and not awaited.
CancelAtOnce(t) ==
    /\ Command
    /\ rec[t].state \notin {"none", "gone"}
    /\ svc' = "cleanup"
    /\ target' = t
    /\ stop' = IF t \in Running THEN stop \cup {t} ELSE stop
    /\ UNCHANGED <<rec, own, pc, runs, stale, quit, wire, link, host, disk,
                   unsaved>>

Cancel(t) ==
    /\ Command
    /\ rec[t].state \notin {"none", "gone"}
    /\ IF t \in Running
       THEN Await(t, "cancel")
       ELSE svc' = "cleanup" /\ target' = t /\ UNCHANGED stop
    /\ UNCHANGED <<rec, own, pc, runs, stale, quit, wire, link, host, disk,
                   unsaved>>

Awaited ==
    /\ svc \in {"pause", "cancel"}
    /\ pc[target] = "ended"
    /\ pc' = [pc EXCEPT ![target] = "idle"]
    /\ stop' = stop \ {target}
    /\ IF svc = "pause"
       THEN Return
       ELSE svc' = "cleanup" /\ UNCHANGED target
    /\ UNCHANGED <<rec, own, runs, stale, quit, wire, link, host, disk,
                   unsaved, incidents>>

SaveCancelled ==
    \/ rec' = WithState({target}, "Cancelled") /\ UNCHANGED incidents
    \/ Fault /\ UNCHANGED rec

\* A finished record is removed.  Another has its temporary file removed
\* here, or asks the host to clear its own, and is cancelled whatever came
\* of it.
Cleanup ==
    /\ svc = "cleanup"
    /\ LET r == rec[target]
       IN  \/ /\ r.state \in Final
              /\ rec' = WithState({target}, "gone")
              /\ Return
              /\ UNCHANGED <<toHost, temp, cleaned, incidents>>
           \/ /\ r.state \notin Final /\ r.dir = "download"
              /\ temp' = Cleaned(target, r)
              /\ cleaned' = cleaned \cup {target}
              /\ SaveCancelled
              /\ Return
              /\ UNCHANGED toHost
           \/ /\ r.state \notin Final /\ r.dir = "upload"
              /\ IF r.started /\ wire /\ up /\ ~quit
                 THEN /\ Send(target, <<Msg("clear", 0, 0)>>)
                      /\ cleaned' = cleaned \cup {target}
                      /\ svc' = "clear"
                      /\ UNCHANGED <<rec, target, incidents>>
                 ELSE /\ SaveCancelled
                      /\ Return
                      /\ UNCHANGED <<toHost, cleaned>>
              /\ UNCHANGED temp
    /\ UNCHANGED <<own, pc, stop, runs, stale, quit, wire, up, toCtl,
                   host, file, delivered, unsaved>>

\* Sixty seconds without the answer that does not exist.
ClearTimesOut ==
    /\ svc = "clear"
    /\ SaveCancelled
    /\ Return
    /\ UNCHANGED <<own, pc, stop, runs, stale, quit, wire, link, host,
                   disk, unsaved>>

PauseAll ==
    /\ Command
    /\ Running # {} \/ Queued # {}
    /\ stop' = stop \cup Running
    /\ svc' = "pauseall"
    /\ UNCHANGED <<rec, own, pc, runs, target, stale, quit, wire, link, host,
                   disk, unsaved>>

AllEnded == \A t \in Running : pc[t] = "ended"

Drained ==
    /\ pc' = [t \in Tasks |-> "idle"]
    /\ stop' = {}
    /\ UNCHANGED <<own, runs>>

AllPaused ==
    /\ svc = "pauseall"
    /\ AllEnded
    /\ Drained
    /\ \/ rec' = WithState(Queued, "Paused") /\ UNCHANGED incidents
       \/ Fault /\ UNCHANGED rec
    /\ svc' = "loop"
    /\ UNCHANGED <<target, stale, quit, wire, link, host, disk, unsaved>>

ClearCompleted ==
    /\ Command
    /\ \E t \in Tasks : rec[t].state \in Final
    /\ rec' = WithState({t \in Tasks : rec[t].state \in Final}, "gone")
    /\ UNCHANGED <<own, pc, stop, runs, service, link, host, disk, unsaved>>

-----------------------------------------------------------------------------
(***************************************************************************)
(* The end of the service: the account leaves.  The queue is paused, the   *)
(* lease of the connection returned, the workers joined.                   *)
(***************************************************************************)
Quit ==
    /\ ~quit /\ svc # "down"
    /\ Fault
    /\ quit' = TRUE
    /\ stop' = stop \cup Running
    /\ UNCHANGED <<rec, own, pc, runs, svc, target, stale, wire, link, host,
                   disk, unsaved>>

Leave ==
    /\ svc = "loop" /\ quit
    /\ svc' = "leaving"
    /\ stale' = [t \in Queued |-> rec[t]]
    /\ UNCHANGED <<tasks, target, quit, wire, link, host, disk, unsaved, incidents>>

Leaves ==
    /\ svc = "leaving" /\ stale = <<>>
    /\ svc' = "closing"
    /\ wire' = FALSE
    /\ \/ Disconnect
       \/ UNCHANGED <<link, host>>
    /\ UNCHANGED <<tasks, target, stale, quit, disk, unsaved, incidents>>

Closed ==
    /\ svc = "closing"
    /\ AllEnded
    /\ Drained
    /\ svc' = "down"
    /\ UNCHANGED <<rec, target, stale, quit, wire, link, host, disk, unsaved,
                   incidents>>

\* Mutation of Interrupted: only what was waiting is paused by a restart.
InterruptedQueue == Queued

\* Workers that a crash took away are known by their records.
Interrupted == Queued \cup {t \in Tasks : rec[t].state = "Running"}

Restart ==
    /\ svc = "down"
    /\ rec' = WithState(Interrupted, "Paused")
    /\ svc' = "loop"
    /\ quit' = FALSE
    /\ UNCHANGED <<own, pc, stop, runs, target, stale, wire, link, host, disk,
                   unsaved, incidents>>

(***************************************************************************)
(* Failures.                                                               *)
(***************************************************************************)
LinkLost ==
    /\ up
    /\ Fault
    /\ Disconnect
    /\ stop' = stop \cup Routes
    /\ UNCHANGED <<rec, own, pc, runs, service, disk, unsaved>>

Crash ==
    /\ svc # "down"
    /\ Fault
    /\ svc' = "down" /\ target' = NoTask /\ stale' = <<>>
    /\ quit' = FALSE /\ wire' = FALSE
    /\ own' = [t \in Tasks |-> NoRecord]
    /\ Disconnect
    /\ pc' = [t \in Tasks |-> "idle"] /\ stop' = {}
    /\ UNCHANGED <<rec, runs, disk, unsaved>>

HostCrash ==
    /\ up
    /\ Fault
    /\ up' = FALSE
    /\ toHost' = [t \in Tasks |-> <<>>] /\ toCtl' = [t \in Tasks |-> <<>>]
    /\ hown' = [t \in Tasks |-> NoHostRecord]
    /\ hpc' = [t \in Tasks |-> "none"]
    /\ hrun' = [t \in Tasks |-> 0]
    /\ hstop' = {} /\ discard' = {}
    /\ stop' = stop \cup Routes
    /\ UNCHANGED <<rec, own, pc, runs, service, hrec, disk, unsaved>>

-----------------------------------------------------------------------------
Loop ==
    \/ Connect \/ WireEnds \/ PausedQueue \/ Awaited \/ Cleanup
    \/ ClearTimesOut \/ AllPaused \/ Leave \/ Leaves \/ Closed
    \/ \E t \in Tasks : PauseStale(t) \/ Reap(t) \/ Start(t)

User ==
    \/ \E t \in Tasks : Add(t) \/ Pause(t) \/ Cancel(t)
    \/ \E S \in {{t} : t \in Tasks} \cup {Resumable} : Resume(S)
    \/ PauseAll \/ ClearCompleted \/ Release \/ Restart

Failure ==
    \/ \E t \in Tasks : StepFails(t) \/ HostFails(t)
    \/ Quit \/ Disallowed \/ LinkLost \/ Crash \/ HostCrash

Next ==
    \/ \E t \in Tasks : Worker(t) \/ Host(t)
    \/ Loop \/ User \/ Failure

\* The loop and every worker get their turns; the host need not.
Spec ==
    /\ Init /\ [][Next]_vars
    /\ WF_vars(Loop)
    /\ \A t \in Tasks : WF_vars(Worker(t))

-----------------------------------------------------------------------------
(***************************************************************************)
(* A task that is shown as done has its file in place on the receiving     *)
(* machine, or was to be skipped for a file that is there: no lost answer, *)
(* crash or resumption makes a record claim what the disk does not hold.   *)
(***************************************************************************)
DoneIsDelivered ==
    \A t \in Tasks :
        /\ rec[t].partial = "done" => delivered[t] > 0
        /\ rec[t].state = "Done" =>
             \/ delivered[t] > 0
             \/ rec[t].policy = 3 /\ file[Side(rec[t])][0] # Free

(***************************************************************************)
(* However often a task is interrupted and resumed, its file is put in     *)
(* place once: a resumption after a crash never leaves a second copy.  Only*)
(* a task the user cancelled may be received again, when the record of the *)
(* cancellation could not be saved and the task is resumed.                *)
(***************************************************************************)
DeliveredOnce == \A t \in Tasks : delivered[t] < 2 \/ t \in cleaned

(***************************************************************************)
(* A file that is there is replaced only by a task that is to overwrite:   *)
(* the name is looked at before the rename, and nobody who could take it   *)
(* in between runs at the same time.                                       *)
(***************************************************************************)
NeverReplaces ==
    [][\A d \in {"here", "there"}, n \in Names :
         file[d][n] # Free /\ file'[d][n] # file[d][n] =>
             \E t \in Tasks : file'[d][n] = t /\ rec[t].policy = 1]_vars

(***************************************************************************)
(* What was received is not lost: the temporary file a record names is     *)
(* there for the resumption, unless the user cancelled the task or the     *)
(* file is in place already and only the record of it is missing.          *)
(***************************************************************************)
NothingLost ==
    \A t \in Tasks :
        /\ hrec[t].partial = "open" =>
             \/ temp[t][hrec[t].name] # Absent
             \/ delivered[t] > 0
             \/ t \in cleaned
        /\ /\ rec[t].dir = "download"
           /\ rec[t].partial = "open"
           /\ rec[t].state \notin {"Cancelled", "gone"}
           => \/ temp[t][rec[t].name] # Absent
              \/ delivered[t] > 0
              \/ t \in cleaned

(***************************************************************************)
(* A record that says Running has a worker, or its worker could not save   *)
(* its end: after a crash, a lost connection or a shutdown no task is shown*)
(* as going on, which would neither resume nor let the program sleep.      *)
(***************************************************************************)
RunningHasWorker ==
    \A t \in Tasks :
        svc # "down" /\ rec[t].state = "Running" =>
            pc[t] # "idle" \/ t \in unsaved

(***************************************************************************)
(* A task that is over stays over: a worker that ends late does not bring  *)
(* back a record the user cancelled or removed.  The exception is the queue*)
(* paused from copies, which may still hold a task that was about to run.  *)
(***************************************************************************)
FinishedStaysFinished ==
    [][\A t \in Tasks :
         rec[t].state \in Final \cup {"gone"} =>
             \/ rec'[t].state \in {rec[t].state, "gone"}
             \/ t \in DOMAIN stale]_vars

(***************************************************************************)
(* The loop serves all tasks, so a command that waits must come back: for  *)
(* a worker whose host does not answer, a host that has gone, a connection *)
(* that ended, a service that is ending.                                   *)
(***************************************************************************)
LoopComesBack == svc # "loop" ~> svc \in {"loop", "down"}
=============================================================================
