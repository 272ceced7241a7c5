--------------------------- MODULE MCServerProcess ---------------------------
(***************************************************************************)
(* ServerProcess for TLC: two connections of game servers, one failing     *)
(* accept and two players.                                                 *)
(***************************************************************************)
EXTENDS ServerProcess

CONSTANTS c1, c2, f1

MCConns == {c1, c2}
MCFails == {f1}
=============================================================================
