---------------------------- MODULE MCRemoteInput ----------------------------
(* A key and the left button, pressed from one of two windows that are alike; *)
(* the queue of the windows is full with two edges.                           *)
EXTENDS RemoteInput, TLC

CONSTANTS k, w1, w2

MCInputs == {k, Left}
MCRank == [i \in MCInputs |-> IF i = k THEN 1 ELSE 2]
MCChord == <<k>>
AlikeOwners == Permutations({w1, w2})
==============================================================================
