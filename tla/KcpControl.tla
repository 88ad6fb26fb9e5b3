----------------------------- MODULE KcpControl -----------------------------
(***************************************************************************)
(* The worker of the mixed-KCP CONTROL stream as remote input uses it      *)
(* (transport/uu_kcp.rs): the queue of commands, the command in hand, the  *)
(* segments not acknowledged yet, and the request that waits until all of  *)
(* them are.  The host applies what arrives in order.                      *)
(*                                                                         *)
(* A command carries a guard, which the worker evaluates before it gives   *)
(* the message its place in the reliable stream, not while: between the    *)
(* two the guard may turn, and the sender may give up.  The one sender has *)
(* one request under way.  A command whose sender gave up is dropped when  *)
(* its turn comes and nothing else; here it leaves the queue at once.  One *)
(* that the byte budget for input blocks has its guard evaluated again     *)
(* each time; here it is still in the queue.  Left out: motion, the other  *)
(* users of CONTROL, fragments and forward error correction.               *)
(***************************************************************************)
EXTENDS Naturals, Sequences

CONSTANTS Inputs,       \* the keys and the mouse buttons
          NoInput,      \* what a probe presses: nothing
          MaxWire       \* bound on the segments not acknowledged

ASSUME CarrierAssumption == NoInput \notin Inputs /\ MaxWire \in Nat \ {0}

VARIABLES
    command,    \* the WorkerCommand the sender waits for, in the queue
    slot,       \* the Send in hand, whose guard has held: none or one
    wire,       \* messages committed and not acknowledged
    down,       \* what the host holds down after those acknowledged
    draining,   \* a drain is waiting for its answer
    reply,      \* the answer to the sender's request
    alive       \* the worker runs

kcpVars == <<command, slot, wire, down, draining, reply, alive>>

Edge == [input : Inputs, down : BOOLEAN]
Probe == [input |-> NoInput, down |-> FALSE]
Message == Edge \cup {Probe}

Send(m) == [message |-> m, drain |-> FALSE]
Drain == [message |-> Probe, drain |-> TRUE]

KcpTypeOK ==
    /\ command \in Seq([message : Message, drain : BOOLEAN]) /\ Len(command) =< 1
    /\ slot \in Seq([message : Message, live : BOOLEAN]) /\ Len(slot) =< 1
    /\ wire \in Seq(Message)
    /\ down \subseteq Inputs
    /\ draining \in BOOLEAN
    /\ reply \in {"none", "ok", "failed"}
    /\ alive \in BOOLEAN

KcpInit ==
    /\ command = <<>>
    /\ slot = <<>>
    /\ wire = <<>>
    /\ down = {}
    /\ draining = FALSE
    /\ reply = "none"
    /\ alive = TRUE

-----------------------------------------------------------------------------
(* What the sender does.                                                    *)

Request(c) ==
    /\ alive
    /\ command' = <<c>>
    /\ reply' = "none"
    /\ UNCHANGED <<slot, wire, down, draining, alive>>

\* The sender drops its request: the result channel closes.  What is in hand
\* may still be committed.
Forget ==
    /\ command' = <<>>
    /\ slot' = [n \in DOMAIN slot |-> [slot[n] EXCEPT !.live = FALSE]]
    /\ draining' = FALSE
    /\ reply' = "none"
    /\ UNCHANGED <<wire, down, alive>>

-----------------------------------------------------------------------------
(* What the worker does.                                                    *)

TakeDrain ==
    /\ alive /\ slot = <<>>
    /\ command # <<>> /\ command[1].drain
    /\ command' = <<>>
    /\ draining' = TRUE
    /\ UNCHANGED <<slot, wire, down, reply, alive>>

Take(valid) ==
    /\ alive /\ slot = <<>>
    /\ command # <<>> /\ ~command[1].drain
    /\ command' = <<>>
    /\ IF valid
       THEN slot' = <<[message |-> command[1].message, live |-> TRUE]>> /\ UNCHANGED reply
       ELSE reply' = "failed" /\ UNCHANGED slot
    /\ UNCHANGED <<wire, down, draining, alive>>

Answer(r) == reply' = IF slot[1].live THEN r ELSE reply

\* A message that has its place in the stream keeps it when writing it out
\* fails; one the stream refuses gets none.
Commit ==
    /\ alive /\ slot # <<>>
    /\ Len(wire) < MaxWire
    /\ \/ /\ wire' = Append(wire, slot[1].message)
          /\ \E r \in {"ok", "failed"} : Answer(r)
       \/ wire' = wire /\ Answer("failed")
    /\ slot' = <<>>
    /\ UNCHANGED <<command, down, draining, alive>>

Pressed(held, m) ==
    IF m.down THEN held \cup {m.input} ELSE held \ {m.input}

Acknowledged ==
    /\ alive /\ wire # <<>>
    /\ down' = Pressed(down, Head(wire))
    /\ wire' = Tail(wire)
    /\ UNCHANGED <<command, slot, draining, reply, alive>>

\* Mutation of Drained: the request is answered when everything was written.
DrainedEarly ==
    /\ alive /\ draining /\ slot = <<>>
    /\ draining' = FALSE
    /\ reply' = "ok"
    /\ UNCHANGED <<command, slot, wire, down, alive>>

\* The top of the worker's loop: everything committed is acknowledged.
Drained ==
    /\ alive /\ draining /\ slot = <<>>
    /\ wire = <<>>
    /\ draining' = FALSE
    /\ reply' = "ok"
    /\ UNCHANGED <<command, slot, wire, down, alive>>

\* The endpoint failed: the commands go, and their result channels with them.
Dies ==
    /\ alive
    /\ alive' = FALSE
    /\ command' = <<>> /\ slot' = <<>> /\ draining' = FALSE
    /\ reply' = IF command # <<>> \/ draining \/ (slot # <<>> /\ slot[1].live)
                THEN "failed" ELSE reply
    /\ UNCHANGED <<wire, down>>

WorkerStep(valid) ==
    TakeDrain \/ Take(valid) \/ Commit \/ Acknowledged \/ Drained \/ Dies

\* What the host will hold down once everything committed has arrived.
EndsDown(i) ==
    \E n \in 0..Len(wire) :
        /\ IF n = 0 THEN i \in down ELSE wire[n] = [input |-> i, down |-> TRUE]
        /\ \A m \in n + 1..Len(wire) : wire[m].input # i
=============================================================================
