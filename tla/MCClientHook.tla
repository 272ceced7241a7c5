---------------------------- MODULE MCClientHook ----------------------------
(***************************************************************************)
(* ClientHook for TLC: all codes of six bytes that contain the pattern's   *)
(* three values only, so every partial and overlapping match there can be. *)
(***************************************************************************)
EXTENDS ClientHook

MCPattern == <<1, 2, 2, 3>>
=============================================================================
