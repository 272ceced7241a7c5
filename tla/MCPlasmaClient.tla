--------------------------- MODULE MCPlasmaClient ---------------------------
(***************************************************************************)
(* PlasmaClient for TLC: two accounts with a persona each.                 *)
(***************************************************************************)
EXTENDS PlasmaClient

MCOwner(p) == IF p = "p1" THEN "u1" ELSE "u2"

\* Every player has an account of his own.
OwnAccount(c) == IF c = "c1" THEN {"u1"} ELSE {"u2"}
=============================================================================
