----------------------------- MODULE MCPhpStats ------------------------------
(***************************************************************************)
(* PhpStats for TLC: a player with two personas, perhaps another with one, *)
(* each knowing his own password.                                          *)
(***************************************************************************)
EXTENDS PhpStats

MCOwner(p) == IF p = "q1" THEN "u2" ELSE "u1"

MCAccountOf(n) == IF n = "b@x" THEN "u2" ELSE "u1"

MCRowNuid(u) == IF u = "u2" THEN "b@x" ELSE "a@x"

MCBannable(kind) == {}

MCCreds(c) == IF c = "c2" THEN {"u2"} ELSE {"u1"}
=============================================================================
