--------------------------- MODULE MCMasterServer ---------------------------
(***************************************************************************)
(* MasterServer for TLC: two players with an account and a persona each,   *)
(* one Theater connection.                                                 *)
(***************************************************************************)
EXTENDS MasterServer

MCOwner(p) == IF p = "p1" THEN "u1" ELSE "u2"

OwnAccount(c) == IF c = "c1" THEN {"u1"} ELSE {"u2"}
=============================================================================
