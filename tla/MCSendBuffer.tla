---------------------------- MODULE MCSendBuffer ----------------------------
(***************************************************************************)
(* SendBuffer for TLC: texts shorter than, equal to and longer than the    *)
(* first allocation and one with a %, of each counting kind.               *)
(***************************************************************************)
EXTENDS SendBuffer

MCPackets == {"conn", "memcheck", "exact", "long", "percent"}

MCSize(p) == CASE p = "conn" -> 1 [] p = "memcheck" -> 2 [] p = "exact" -> 3
               [] p = "long" -> 5 [] p = "percent" -> 2

MCPlain(p) == p # "percent"

\* vsprintf fails, or prints more than the characters of the conversion.
MCPrints(p) == IF p = "percent" THEN {0, 6} ELSE {MCSize(p) + 1}

MCCounts(p) == p # "memcheck"

\* Theater's packets have nothing in type2.
MCTop(p) == IF p = "conn" THEN 0 ELSE 128
=============================================================================
