-------------------------- MODULE MCRankConnection --------------------------
(***************************************************************************)
(* RankConnection for TLC: queries whose replies are below one chunk,      *)
(* exactly one and above two of them, for 0, 19 and 20 keys.  A query sent *)
(* in one piece, a key and the garbage behind a chunk may be too long for  *)
(* the array of a value.                                                   *)
(***************************************************************************)
EXTENDS RankConnection

MCQueries ==
  {[size |-> 4, keys |-> 0, key |-> 1], [size |-> 8, keys |-> 19, key |-> 1],
   [size |-> 4, keys |-> 20, key |-> 1], [size |-> 4, keys |-> 20, key |-> 42],
   [size |-> 4, keys |-> 1, key |-> 932]}

\* No packet of a rank query sets a variable twice; SetVar is checked to move the
\* length with the text there too, for values that grow, shrink or are empty.
ASSUME ReplacedFits ==
  \A old, new, other \in 0..3 :
    LET p == SetVar(SetVar(NewPacket, <<"TXN">>, 3, old), <<"data">>, 4, other)
        q == SetVar(p, <<"TXN">>, 3, new)
    IN /\ TextLength(q) - TextLength(p) = new - old
       /\ q.length - p.length = new - old
=============================================================================
