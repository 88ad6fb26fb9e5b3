------------------------ MODULE MCTerminalSessions ------------------------
(***************************************************************************)
(* Small instance of TerminalSessions: one shell of the controller, one of *)
(* the local user, two connections, one local terminal.                    *)
(***************************************************************************)
EXTENDS TerminalSessions, TLC

CONSTANTS c1, c2

MCKeys == {<<"login", 1>>, <<"local", 1000>>}
OneKey == {<<"login", 1>>}
MCConns == {c1, c2}
OneConn == {c1}
ConnSymmetry == Permutations(MCConns)
=============================================================================
