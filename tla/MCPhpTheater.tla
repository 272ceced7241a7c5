---------------------------- MODULE MCPhpTheater -----------------------------
(***************************************************************************)
(* PhpTheater for TLC: a game server that may connect three times, and     *)
(* another one on the same machine.                                        *)
(***************************************************************************)
EXTENDS PhpTheater

MCAddr(s) == IF s = "other" THEN <<"ip1", 19568>> ELSE <<"ip1", 19567>>
=============================================================================
