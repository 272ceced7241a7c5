----------------------------- MODULE MCPhpPlasma -----------------------------
(***************************************************************************)
(* PhpPlasma for TLC: an account with two personas whose player may        *)
(* connect twice, and an account of another player, who types it in two    *)
(* spellings.                                                              *)
(***************************************************************************)
EXTENDS PhpPlasma, TLC

CONSTANTS c1, c2, d1, p1, p2, q1

MCConns == {c1, c2, d1}

MCPersonas == {p1, p2, q1}

MCOwner(p) == IF p = q1 THEN "u2" ELSE "u1"

MCCreds(c) == IF c = d1 THEN {"u2"} ELSE {"u1"}

\* The second player may type his nuid as it is stored or with a capital.
MCAccountOf(n) == IF n = "a@x" THEN "u1" ELSE "u2"

MCRowNuid(u) == IF u = "u1" THEN "a@x" ELSE "b@x"

\* The first player may be banned by a ban of type c, the second one by one of
\* type x, which his key gets him past, and by his address.
MCBannable(kind) == IF kind = "c" THEN {"u1", d1} ELSE {"u2"}

\* The first player's connections are alike, and so are his personas.
Alike == Permutations({c1, c2}) \cup Permutations({p1, p2})
=============================================================================
