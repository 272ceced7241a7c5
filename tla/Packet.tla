------------------------------- MODULE Packet -------------------------------
(***************************************************************************)
(* CPacket: the variables of a packet and the length it keeps beside them, *)
(* from which GetData takes the size of the block it prints them into; and *)
(* the sizes Base64 gives a text.  A variable is the length of its name    *)
(* and of its value; which name it is matters only to SetVar, that         *)
(* replaces the value of a name it finds.  Lengths are those of the code.  *)
(***************************************************************************)
EXTENDS Integers, Sequences

CONSTANT ValueRoom   \* 8224, the array a CPacketVar has for a value

ASSUME ValueRoomAssumption == ValueRoom \in Nat /\ ValueRoom > 10

NameRoom == 512   \* the array it has for a name

Header == 12   \* bytes before the text, counted in a packet's length

Excess(written, block) == IF written > block THEN written - block ELSE 0

NewPacket == [length |-> Header, vars |-> <<>>]

\* Names and values are copied into the arrays without looking at their lengths.
InArrays(p) == \A i \in DOMAIN p.vars : p.vars[i].n < NameRoom /\ p.vars[i].v < ValueRoom

\* Where the variable of that name is (SetVar keeps names distinct).
Places(p, name) == {i \in DOMAIN p.vars : p.vars[i].name = name}

Replace(p, name, v) ==
  LET i == CHOOSE k \in Places(p, name) : TRUE
  IN [length |-> p.length - p.vars[i].v + v, vars |-> [p.vars EXCEPT ![i].v = v]]

\* Slip: no NUL is counted for a new variable.
SetVarShort(p, name, n, v) ==
  IF Places(p, name) # {}
    THEN Replace(p, name, v)
    ELSE [length |-> p.length + n + v + 2,
          vars |-> Append(p.vars, [name |-> name, n |-> n, v |-> v])]

\* SetVar: the value of a variable that is there is replaced and the length
\* moved by the difference; a new one counts "=", the newline and a NUL.
SetVar(p, name, n, v) ==
  IF Places(p, name) # {}
    THEN Replace(p, name, v)
    ELSE [length |-> p.length + n + v + 3,
          vars |-> Append(p.vars, [name |-> name, n |-> n, v |-> v])]

\* Characters of an int that is not negative: one, and one more for each power of
\* ten it reaches.
Powers == <<10, 100, 1000, 10000, 100000, 1000000, 10000000, 100000000, 1000000000>>

\* (10 digits are the most an int has.)
Digits(k) == CHOOSE d \in 1..10 : (d > 1 => Powers[d - 1] <= k) /\ (d < 10 => k < Powers[d])

\* SetVar of a number prints it into a block of varvalue/10 + 1 bytes first (the
\* quotient is an integer before ceil sees it); what lies outside that block.
NumberExcess(k) == Excess(Digits(k) + 1, (k \div 10) + 1)

SetNumber(p, name, n, k) == SetVar(p, name, n, Digits(k))

\* What GetData prints: name, "=", value and a newline for each variable.
Printed(variables) ==
  LET upto[i \in 0..Len(variables)] ==
        IF i = 0 THEN 0 ELSE upto[i - 1] + variables[i].n + variables[i].v + 2
  IN upto

TextLength(p) == Printed(p.vars)[Len(p.vars)]

\* Bytes GetData writes past the block it allocates, terminator included; for no
\* variables it writes nothing.
TextExcess(p) ==
  IF p.vars = <<>> THEN 0 ELSE Excess(TextLength(p) + 1, p.length - Header)

\* Bytes the constructor writes past the block it makes for a text of n characters,
\* given n + Header for its length.
CopyExcess(n) == Excess(n + 1, (n + Header) - Header)

\* b64_encode breaks lines after 64 characters and puts its NUL over the last
\* newline; b64_decode drops the padding, here of a text that has none.
Encoded(n) ==
  LET chars == 4 * ((n + 2) \div 3) IN chars + ((chars + 63) \div 64) - 1

Decoded(n) == 3 * (n \div 4)

=============================================================================
