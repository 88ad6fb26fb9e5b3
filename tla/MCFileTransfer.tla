--------------------------- MODULE MCFileTransfer ---------------------------
(***************************************************************************)
(* Instances of FileTransfer for TLC.                                      *)
(***************************************************************************)
EXTENDS FileTransfer, TLC

CONSTANTS t1, t2

Plan(dir, p, q, n, there) ==
    [tasks |-> (t1 :> [dir |-> dir, policy |-> p])
                   @@ (t2 :> [dir |-> dir, policy |-> q]),
     incidents |-> n,
     taken |-> there]

\* Pairs of tasks that meet in the directory, with one incident, and tasks
\* on their own that are interrupted and resumed, with three.
Instances ==
    {Plan("download", 2, 2, 1, TRUE), Plan("download", 1, 3, 1, FALSE),
     Plan("upload", 2, 3, 1, FALSE),
     Plan("download", 1, 0, 3, FALSE), Plan("upload", 2, 0, 3, FALSE)}
=============================================================================
