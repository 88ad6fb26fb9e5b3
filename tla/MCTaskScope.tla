------------------------------ MODULE MCTaskScope ------------------------------
(* A peer's scope, a viewing window's below it, two tasks and two closers:   *)
(* the fewest with which two closers meet in one scope or in a parent and    *)
(* its child, while a task of either is being admitted.                      *)
EXTENDS TaskScope

CONSTANTS peer, view

MCAbove == [s \in {peer, view} |-> IF s = peer THEN {} ELSE {peer}]
==============================================================================
