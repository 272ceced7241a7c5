------------------------ MODULE RankConnection_proofs -----------------------
(***************************************************************************)
(* Proofs about Packet, RankTransfer and RankConnection for any set of     *)
(* queries, any chunk size and however the text of a query is cut.  Packets:*)
(* the length CPacket keeps is that of the text GetData prints and one more*)
(* for each variable, whatever SetVar is called with.  Gathering: what the *)
(* server holds is what has been sent.  Answering: the turns of the loop that*)
(* have been taken account for what is left.  Reading: the packets under way*)
(* are what the player has sent and the server has not taken.              *)
(***************************************************************************)
EXTENDS RankConnection, WellFoundedInduction, TLAPS

(***************************************************************************)
(* Numbers and recursive functions.                                        *)
(***************************************************************************)
\* The order of the numbers as a relation.
Lt == OpToRel(<, Nat)

\* Lt is the order of the numbers.
LEMMA LtPairs == \A m, n \in Nat : <<m, n>> \in Lt <=> m < n
  BY DEF Lt, OpToRel

\* A set of numbers that is not empty has a least one.
LEMMA Least ==
  ASSUME NEW S, S \subseteq Nat, S # {}
  PROVE  \E m \in S : \A n \in S : m <= n
<1>1. IsWellFoundedOn(Lt, Nat)
  BY NatLessThanWellFounded, Zenon DEF Lt
<1>2. PICK m \in S : \A n \in S : <<n, m>> \notin Lt
  BY <1>1, WFMin, Zenon
<1>3. ASSUME NEW n \in S PROVE m <= n
  <2>1. m \in Nat /\ n \in Nat /\ ~(n < m)
    BY <1>2, LtPairs
  <2> QED
    BY <2>1
<1> QED
  BY <1>3

\* Induction over the numbers, for a set in place of a predicate.
LEMMA Induct ==
  ASSUME NEW S, 0 \in S, \A n \in Nat : n \in S => n + 1 \in S
  PROVE  Nat \subseteq S
<1> SUFFICES ASSUME Nat \ S # {} PROVE FALSE
  OBVIOUS
<1>1. PICK m \in Nat \ S : \A n \in Nat \ S : m <= n
  BY Least
<1>2. m # 0 /\ m - 1 \in Nat /\ m - 1 \in S
  BY <1>1
<1> QED
  BY <1>1, <1>2

\* A step for each number up to N, and a function that takes them from a.
Steps(N, S) == [1..N -> [S -> S]]

Follows(f, a, step, N, S) ==
  f \in [0..N -> S] /\ f[0] = a /\ \A i \in 1..N : f[i] = step[i][f[i - 1]]

\* A function can be defined by what it is at 0 and a step from each number to
\* the next.
LEMMA Recursion ==
  \A S, a, N, step : a \in S /\ N \in Nat /\ step \in Steps(N, S) => \E f : Follows(f, a, step, N, S)
<1> SUFFICES ASSUME NEW S, NEW a \in S, NEW N \in Nat, NEW step \in [1..N -> [S -> S]]
             PROVE  \E f : Follows(f, a, step, N, S)
  BY DEF Steps
<1> DEFINE Solves(f, n) == \A i \in 0..n : f[i] = IF i = 0 THEN a ELSE step[i][f[i - 1]]
           Solved == {n \in Nat : n <= N => \E f \in [0..n -> S] : Solves(f, n)}
<1>1. 0 \in Solved
  <2>1. [i \in 0..0 |-> a] \in [0..0 -> S] /\ Solves([i \in 0..0 |-> a], 0)
    OBVIOUS
  <2> QED
    BY <2>1
<1>2. ASSUME NEW n \in Nat, n \in Solved PROVE n + 1 \in Solved
  <2> SUFFICES ASSUME n + 1 <= N PROVE \E g \in [0..(n + 1) -> S] : Solves(g, n + 1)
    OBVIOUS
  <2>1. PICK f \in [0..n -> S] : Solves(f, n)
    BY <1>2
  <2> DEFINE g == [i \in 0..(n + 1) |-> IF i = n + 1 THEN step[n + 1][f[n]] ELSE f[i]]
  <2>2. f[n] \in S /\ step[n + 1][f[n]] \in S
    BY <2>1
  <2>3. g \in [0..(n + 1) -> S]
    BY <2>1, <2>2
  <2>4. ASSUME NEW i \in 0..(n + 1) PROVE g[i] = IF i = 0 THEN a ELSE step[i][g[i - 1]]
    <3>1. CASE i = n + 1
      <4>1. g[i] = step[i][f[n]] /\ g[i - 1] = f[n] /\ i # 0
        BY <3>1
      <4> QED
        BY <4>1
    <3>2. CASE i \in 0..n
      <4>1. g[i] = f[i] /\ (i # 0 => g[i - 1] = f[i - 1])
        BY <3>2
      <4> HIDE DEF g
      <4> QED
        BY <2>1, <3>2, <4>1
    <3> QED
      BY <3>1, <3>2
  <2> QED
    BY <2>3, <2>4
<1> HIDE DEF Solved
<1>3. N \in Solved
  BY <1>1, <1>2, Induct
<1>4. PICK f \in [0..N -> S] : Solves(f, N)
  BY <1>3 DEF Solved
<1>5. Follows(f, a, step, N, S)
  BY <1>4 DEF Follows
<1> QED
  BY <1>5

(***************************************************************************)
(* Packets.                                                                *)
(***************************************************************************)
\* A variable with one of the names.
Var(Names) == [name : Names, n : Nat, v : Nat]

\* GetData prints the lines of the variables one after the other.
LEMMA PrintedDef ==
  ASSUME NEW Names, NEW s \in Seq(Var(Names))
  PROVE  /\ Printed(s) \in [0..Len(s) -> Nat]
         /\ \A i \in 0..Len(s) :
              Printed(s)[i] = IF i = 0 THEN 0 ELSE Printed(s)[i - 1] + s[i].n + s[i].v + 2
<1> DEFINE step == [i \in 1..Len(s) |-> [x \in Nat |-> x + s[i].n + s[i].v + 2]]
<1>1. Len(s) \in Nat /\ \A i \in 1..Len(s) : s[i].n \in Nat /\ s[i].v \in Nat
  <2>1. \A i \in 1..Len(s) : s[i] \in Var(Names)
    OBVIOUS
  <2> QED
    BY <2>1 DEF Var
<1>2. step \in [1..Len(s) -> [Nat -> Nat]]
  BY <1>1
<1> HIDE DEF step
<1>3. PICK f : Follows(f, 0, step, Len(s), Nat)
  <2>1. 0 \in Nat /\ Len(s) \in Nat /\ step \in Steps(Len(s), Nat)
    BY <1>1, <1>2 DEF Steps
  <2> QED
    BY <2>1, Recursion, Zenon
<1>4. \A i \in 1..Len(s) : step[i][f[i - 1]] = f[i - 1] + s[i].n + s[i].v + 2
  <2> SUFFICES ASSUME NEW i \in 1..Len(s) PROVE step[i][f[i - 1]] = f[i - 1] + s[i].n + s[i].v + 2
    OBVIOUS
  <2>1. f[i - 1] \in Nat
    BY <1>1, <1>3, SMTT(60) DEF Follows
  <2>2. step[i] = [x \in Nat |-> x + s[i].n + s[i].v + 2]
    BY DEF step
  <2> QED
    BY <2>1, <2>2
<1>5. f = [i \in 0..Len(s) |-> IF i = 0 THEN 0 ELSE f[i - 1] + s[i].n + s[i].v + 2]
  BY <1>1, <1>3, <1>4 DEF Follows
<1>6. Printed(s) = [i \in 0..Len(s) |-> IF i = 0 THEN 0 ELSE Printed(s)[i - 1] + s[i].n + s[i].v + 2]
  BY <1>5, Zenon DEF Printed
<1> DEFINE P == Printed(s)
<1> HIDE DEF P
<1>7. P = [i \in 0..Len(s) |-> IF i = 0 THEN 0 ELSE P[i - 1] + s[i].n + s[i].v + 2]
  BY <1>6 DEF P
<1> DEFINE Typed == {n \in Nat : n <= Len(s) => P[n] \in Nat}
<1>8. 0 \in Typed
  BY <1>1, <1>7
<1>9. ASSUME NEW n \in Nat, n \in Typed PROVE n + 1 \in Typed
  BY <1>1, <1>7, <1>9
<1> HIDE DEF Typed
<1>10. \A n \in 0..Len(s) : P[n] \in Nat
  <2>1. Nat \subseteq Typed
    BY <1>8, <1>9, Induct
  <2> QED
    BY <1>1, <2>1 DEF Typed
<1>11. P \in [0..Len(s) -> Nat]
  BY <1>7, <1>10
<1> QED
  BY <1>7, <1>11 DEF P

\* Where two texts hold as many characters in each variable, they grow alike.
LEMMA PrintedAlike ==
  ASSUME NEW Names, NEW s \in Seq(Var(Names)), NEW t \in Seq(Var(Names)),
         NEW a \in Nat, NEW b \in Nat, a <= b, b <= Len(s), b <= Len(t),
         \A i \in (a + 1)..b : t[i].n + t[i].v = s[i].n + s[i].v
  PROVE  Printed(t)[b] - Printed(t)[a] = Printed(s)[b] - Printed(s)[a]
<1> DEFINE Alike == {n \in Nat : a <= n /\ n <= b => Printed(t)[n] - Printed(t)[a] = Printed(s)[n] - Printed(s)[a]}
<1>1. /\ \A r \in {s, t} : /\ r \in Seq(Var(Names)) /\ Len(r) \in Nat /\ b <= Len(r)
                           /\ \A i \in 1..Len(r) : r[i].n \in Nat /\ r[i].v \in Nat
  <2> SUFFICES ASSUME NEW r \in {s, t}
               PROVE  \A i \in 1..Len(r) : r[i].n \in Nat /\ r[i].v \in Nat
    OBVIOUS
  <2>1. \A i \in 1..Len(r) : r[i] \in Var(Names)
    OBVIOUS
  <2> QED
    BY <2>1 DEF Var
<1>2. \A r \in {s, t} : \A i \in 0..b :
        /\ Printed(r)[i] \in Nat
        /\ i > 0 => Printed(r)[i] = Printed(r)[i - 1] + r[i].n + r[i].v + 2
  <2> SUFFICES ASSUME NEW r \in {s, t}, NEW i \in 0..b
               PROVE  /\ Printed(r)[i] \in Nat
                      /\ i > 0 => Printed(r)[i] = Printed(r)[i - 1] + r[i].n + r[i].v + 2
    OBVIOUS
  <2>1. /\ Printed(r) \in [0..Len(r) -> Nat]
        /\ \A k \in 0..Len(r) : Printed(r)[k] = IF k = 0 THEN 0 ELSE Printed(r)[k - 1] + r[k].n + r[k].v + 2
    BY <1>1, PrintedDef
  <2> QED
    BY <1>1, <2>1
<1>3. 0 \in Alike
  BY <1>2
<1>4. ASSUME NEW n \in Nat, n \in Alike PROVE n + 1 \in Alike
  <2> SUFFICES ASSUME a <= n + 1, n + 1 <= b
               PROVE  Printed(t)[n + 1] - Printed(t)[a] = Printed(s)[n + 1] - Printed(s)[a]
    OBVIOUS
  <2>1. CASE n + 1 = a
    BY <2>1, <1>2
  <2>2. CASE a <= n
    <3>1. Printed(t)[n] - Printed(t)[a] = Printed(s)[n] - Printed(s)[a]
      BY <1>4, <2>2
    <3>2. /\ n + 1 \in 0..b /\ n \in 0..b /\ a \in 0..b /\ n + 1 > 0 /\ (n + 1) - 1 = n
          /\ n + 1 \in (a + 1)..b /\ n + 1 \in 1..Len(s) /\ n + 1 \in 1..Len(t)
      BY <1>1, <2>2
    <3>3. /\ Printed(t)[n + 1] = Printed(t)[n] + t[n + 1].n + t[n + 1].v + 2
          /\ Printed(s)[n + 1] = Printed(s)[n] + s[n + 1].n + s[n + 1].v + 2
      BY <1>2, <3>2
    <3>4. /\ t[n + 1].n \in Nat /\ t[n + 1].v \in Nat /\ s[n + 1].n \in Nat /\ s[n + 1].v \in Nat
          /\ Printed(t)[n] \in Nat /\ Printed(s)[n] \in Nat /\ Printed(t)[a] \in Nat /\ Printed(s)[a] \in Nat
          /\ Printed(t)[n + 1] \in Nat /\ Printed(s)[n + 1] \in Nat
      BY <1>1, <1>2, <3>2
    <3>5. t[n + 1].n + t[n + 1].v = s[n + 1].n + s[n + 1].v
      BY <3>2
    <3> DEFINE ta == Printed(t)[a]  tn == Printed(t)[n]  tm == Printed(t)[n + 1]
               sa == Printed(s)[a]  sn == Printed(s)[n]  sm == Printed(s)[n + 1]
               x == t[n + 1].n  y == t[n + 1].v  z == s[n + 1].n  w == s[n + 1].v
    <3>6. /\ tn - ta = sn - sa /\ tm = tn + x + y + 2 /\ sm = sn + z + w + 2 /\ x + y = z + w
          /\ ta \in Nat /\ tn \in Nat /\ tm \in Nat /\ sa \in Nat /\ sn \in Nat /\ sm \in Nat
          /\ x \in Nat /\ y \in Nat /\ z \in Nat /\ w \in Nat
      BY <3>1, <3>3, <3>4, <3>5, Zenon
    <3> HIDE DEF ta, tn, tm, sa, sn, sm, x, y, z, w
    <3>7. tm - ta = sm - sa
      BY <3>6
    <3> QED
      BY <3>7 DEF tm, ta, sm, sa
  <2> QED
    BY <2>1, <2>2
<1> HIDE DEF Alike
<1>5. b \in Alike
  BY <1>3, <1>4, Induct
<1> QED
  BY <1>5 DEF Alike

\* The length kept is that of the header and the text, and a byte for the NUL of
\* every variable.
Sound(p, Names) ==
  /\ p \in [length : Nat, vars : Seq(Var(Names))]
  /\ p.length = Header + TextLength(p) + Len(p.vars)

\* The length of a text is a number.
LEMMA TextLengthType ==
  ASSUME NEW Names, NEW p, p.vars \in Seq(Var(Names))
  PROVE  TextLength(p) \in Nat /\ (p.vars = <<>> => TextLength(p) = 0)
<1>1. Len(p.vars) \in Nat /\ Len(p.vars) \in 0..Len(p.vars)
  OBVIOUS
<1>2. /\ Printed(p.vars) \in [0..Len(p.vars) -> Nat]
      /\ \A i \in 0..Len(p.vars) :
           Printed(p.vars)[i] = IF i = 0 THEN 0 ELSE Printed(p.vars)[i - 1] + p.vars[i].n + p.vars[i].v + 2
  BY PrintedDef
<1> QED
  BY <1>1, <1>2 DEF TextLength

\* A new variable makes the text longer by its line.
LEMMA PrintedAppend ==
  ASSUME NEW Names, NEW s \in Seq(Var(Names)), NEW x \in Var(Names)
  PROVE  Printed(Append(s, x))[Len(s) + 1] = Printed(s)[Len(s)] + x.n + x.v + 2
<1> DEFINE t == Append(s, x)
           k == Len(s)
<1>1. t \in Seq(Var(Names)) /\ k \in Nat /\ Len(t) = k + 1 /\ t[k + 1] = x /\ \A i \in 1..k : t[i] = s[i]
  OBVIOUS
<1> HIDE DEF t
<1>2. Printed(t)[k] - Printed(t)[0] = Printed(s)[k] - Printed(s)[0]
  <2>1. 0 \in Nat /\ 0 <= k /\ k <= Len(s) /\ k <= Len(t)
    BY <1>1
  <2>2. \A i \in (0 + 1)..k : t[i].n + t[i].v = s[i].n + s[i].v
    BY <1>1
  <2> HIDE DEF k
  <2> QED
    BY <1>1, <2>1, <2>2, PrintedAlike
<1>3. /\ Printed(t) \in [0..Len(t) -> Nat]
      /\ \A i \in 0..Len(t) : Printed(t)[i] = IF i = 0 THEN 0 ELSE Printed(t)[i - 1] + t[i].n + t[i].v + 2
  BY <1>1, PrintedDef
<1>4. Printed(s) \in [0..k -> Nat] /\ Printed(s)[0] = 0
  <2>1. 0 \in 0..k
    BY <1>1
  <2> QED
    BY <2>1, PrintedDef
<1>5. Printed(t)[0] = 0 /\ Printed(t)[k] \in Nat /\ Printed(s)[k] \in Nat
      /\ Printed(t)[k + 1] = Printed(t)[k] + t[k + 1].n + t[k + 1].v + 2
  <2>1. 0 \in 0..Len(t) /\ k \in 0..Len(t) /\ k + 1 \in 0..Len(t) /\ k + 1 # 0 /\ (k + 1) - 1 = k /\ k \in 0..k
    BY <1>1
  <2> HIDE DEF k
  <2> QED
    BY <1>3, <1>4, <2>1
<1> HIDE DEF k
<1>6. Printed(t)[k + 1] = Printed(s)[k] + x.n + x.v + 2
  BY <1>1, <1>2, <1>4, <1>5 DEF Var
<1> QED
  BY <1>6 DEF t, k

\* Another value moves the length of the text by the difference.
LEMMA PrintedReplace ==
  ASSUME NEW Names, NEW s \in Seq(Var(Names)), NEW k \in 1..Len(s), NEW v \in Nat
  PROVE  /\ [s EXCEPT ![k].v = v] \in Seq(Var(Names))
         /\ Printed([s EXCEPT ![k].v = v])[Len(s)] = Printed(s)[Len(s)] - s[k].v + v
<1> DEFINE t == [s EXCEPT ![k].v = v]
           m == Len(s)
<1>1. m \in Nat /\ s[k] \in Var(Names) /\ s[k].n \in Nat /\ s[k].v \in Nat
  <2>1. s[k] \in Var(Names)
    OBVIOUS
  <2> QED
    BY <2>1 DEF Var
<1>2. /\ Len(t) = m /\ t[k] = [s[k] EXCEPT !.v = v] /\ \A i \in 1..m : i # k => t[i] = s[i]
  OBVIOUS
<1>3. t[k].n = s[k].n /\ t[k].v = v /\ t[k] \in Var(Names)
  BY <1>1, <1>2 DEF Var
<1>4. t \in Seq(Var(Names))
  <2>1. \A i \in 1..m : t[i] \in Var(Names)
    BY <1>2, <1>3
  <2>2. t = [i \in 1..m |-> t[i]]
    <3>1. DOMAIN s = 1..m
      OBVIOUS
    <3> QED
      BY <3>1, Zenon
  <2> HIDE DEF t
  <2> QED
    BY <1>1, <2>1, <2>2
<1> HIDE DEF t
<1>5. Printed(t)[k - 1] - Printed(t)[0] = Printed(s)[k - 1] - Printed(s)[0]
  <2>1. 0 \in Nat /\ k - 1 \in Nat /\ 0 <= k - 1 /\ k - 1 <= Len(s) /\ k - 1 <= Len(t)
    BY <1>1, <1>2
  <2>2. \A i \in (0 + 1)..(k - 1) : t[i].n + t[i].v = s[i].n + s[i].v
    BY <1>1, <1>2
  <2> QED
    BY <1>4, <2>1, <2>2, PrintedAlike
<1>6. Printed(t)[m] - Printed(t)[k] = Printed(s)[m] - Printed(s)[k]
  <2>1. k \in Nat /\ m \in Nat /\ k <= m /\ m <= Len(s) /\ m <= Len(t)
    BY <1>1, <1>2
  <2>2. \A i \in (k + 1)..m : t[i].n + t[i].v = s[i].n + s[i].v
    BY <1>1, <1>2
  <2> HIDE DEF m
  <2> QED
    BY <1>4, <2>1, <2>2, PrintedAlike
<1>7. \A r \in {s, t} : /\ Printed(r)[0] = 0 /\ Printed(r)[k - 1] \in Nat /\ Printed(r)[k] \in Nat /\ Printed(r)[m] \in Nat
                        /\ Printed(r)[k] = Printed(r)[k - 1] + r[k].n + r[k].v + 2
  <2> SUFFICES ASSUME NEW r \in {s, t}
               PROVE  /\ Printed(r)[0] = 0 /\ Printed(r)[k - 1] \in Nat /\ Printed(r)[k] \in Nat /\ Printed(r)[m] \in Nat
                      /\ Printed(r)[k] = Printed(r)[k - 1] + r[k].n + r[k].v + 2
    OBVIOUS
  <2>1. r \in Seq(Var(Names)) /\ Len(r) = m
    BY <1>2, <1>4
  <2>2. /\ Printed(r) \in [0..Len(r) -> Nat]
        /\ \A i \in 0..Len(r) : Printed(r)[i] = IF i = 0 THEN 0 ELSE Printed(r)[i - 1] + r[i].n + r[i].v + 2
    BY <2>1, PrintedDef
  <2>3. 0 \in 0..m /\ k - 1 \in 0..m /\ k \in 0..m /\ m \in 0..m /\ k # 0
    BY <1>1
  <2> HIDE DEF m
  <2> QED
    BY <2>1, <2>2, <2>3
<1>8. Printed(t)[m] = Printed(s)[m] - s[k].v + v
  <2> HIDE DEF m
  <2>1. /\ Printed(t)[k] = Printed(t)[k - 1] + s[k].n + v + 2
        /\ Printed(s)[k] = Printed(s)[k - 1] + s[k].n + s[k].v + 2
        /\ Printed(t)[k - 1] = Printed(s)[k - 1]
    BY <1>3, <1>5, <1>7
  <2> DEFINE tk == Printed(t)[k]  te == Printed(t)[m]  before == Printed(s)[k - 1]
             sk == Printed(s)[k]  se == Printed(s)[m]  x == s[k].n  y == s[k].v
  <2>2. /\ tk = before + x + v + 2 /\ sk = before + x + y + 2 /\ te - tk = se - sk
        /\ tk \in Nat /\ te \in Nat /\ sk \in Nat /\ se \in Nat /\ before \in Nat /\ x \in Nat /\ y \in Nat
    <3>1. Printed(s)[k - 1] \in Nat /\ Printed(s)[k] \in Nat /\ Printed(s)[m] \in Nat
          /\ Printed(t)[k] \in Nat /\ Printed(t)[m] \in Nat
      BY <1>7
    <3>2. Printed(t)[k] = Printed(s)[k - 1] + s[k].n + v + 2
      BY <2>1
    <3> QED
      BY <1>1, <1>6, <2>1, <3>1, <3>2, Zenon
  <2> HIDE DEF tk, te, before, sk, se, x, y
  <2>3. te = se - y + v
    BY <2>2
  <2> QED
    BY <2>3 DEF te, se, y
<1> QED
  BY <1>4, <1>8 DEF t, m

\* The names in a packet.
Named(p) == {p.vars[i].name : i \in DOMAIN p.vars}

\* What SetVar does to a packet that has no variable of that name.
LEMMA SetVarNew ==
  ASSUME NEW Names, NEW p, Sound(p, Names), NEW name \in Names, NEW n \in Nat, NEW v \in Nat,
         Places(p, name) = {}
  PROVE  /\ Sound(SetVar(p, name, n, v), Names)
         /\ TextLength(SetVar(p, name, n, v)) = TextLength(p) + n + v + 2
         /\ Named(SetVar(p, name, n, v)) = Named(p) \cup {name}
<1> DEFINE s == p.vars
           x == [name |-> name, n |-> n, v |-> v]
           q == [length |-> p.length + n + v + 3, vars |-> Append(s, x)]
<1>1. SetVar(p, name, n, v) = q
  BY DEF SetVar
<1>2. s \in Seq(Var(Names)) /\ x \in Var(Names) /\ p.length \in Nat /\ Len(s) \in Nat
  BY DEF Sound, Var
<1>3. q.vars = Append(s, x) /\ q.vars \in Seq(Var(Names)) /\ Len(q.vars) = Len(s) + 1
      /\ q.vars[Len(s) + 1] = x /\ \A i \in 1..Len(s) : q.vars[i] = s[i]
  BY <1>2
<1>4. TextLength(q) = TextLength(p) + n + v + 2 /\ TextLength(p) \in Nat
  <2>1. Printed(Append(s, x))[Len(s) + 1] = Printed(s)[Len(s)] + x.n + x.v + 2
    BY <1>2, PrintedAppend
  <2> QED
    BY <1>2, <1>3, <2>1, TextLengthType DEF TextLength
<1>5. Sound(q, Names)
  <2>1. q.length = Header + TextLength(q) + Len(q.vars)
    <3>1. q.length = p.length + n + v + 3 /\ p.length = 12 + TextLength(p) + Len(s)
      BY DEF Sound, Header
    <3> DEFINE a == q.length  b == p.length  c == TextLength(q)  d == TextLength(p)
               e == Len(q.vars)  f == Len(s)
    <3>2. /\ a = b + n + v + 3 /\ b = 12 + d + f /\ c = d + n + v + 2 /\ e = f + 1
          /\ b \in Nat /\ d \in Nat /\ f \in Nat
      BY <1>2, <1>3, <1>4, <3>1, Zenon
    <3> HIDE DEF a, b, c, d, e, f
    <3>3. a = 12 + c + e
      BY <3>2
    <3> QED
      BY <3>3 DEF Header, a, c, e
  <2>2. q \in [length : Nat, vars : Seq(Var(Names))]
    BY <1>2, <1>3
  <2> QED
    BY <2>1, <2>2 DEF Sound
<1>6. Named(q) = Named(p) \cup {name}
  <2>1. DOMAIN q.vars = 1..(Len(s) + 1) /\ DOMAIN p.vars = 1..Len(s)
    BY <1>2, <1>3
  <2>2. 1..(Len(s) + 1) = (1..Len(s)) \cup {Len(s) + 1}
    BY <1>2
  <2> HIDE DEF q
  <2> QED
    BY <1>3, <2>1, <2>2 DEF Named
<1> QED
  BY <1>1, <1>4, <1>5, <1>6

\* SetVar keeps the length in step with the text, whatever has been set.
LEMMA SetVarSound ==
  ASSUME NEW Names, NEW p, Sound(p, Names), NEW name \in Names, NEW n \in Nat, NEW v \in Nat
  PROVE  Sound(SetVar(p, name, n, v), Names)
<1>1. CASE Places(p, name) = {}
  BY <1>1, SetVarNew
<1>2. CASE Places(p, name) # {}
  <2> DEFINE s == p.vars
             k == CHOOSE i \in Places(p, name) : TRUE
             t == [s EXCEPT ![k].v = v]
             q == [length |-> p.length - s[k].v + v, vars |-> t]
  <2>1. SetVar(p, name, n, v) = q
    BY <1>2 DEF SetVar, Replace
  <2>2. s \in Seq(Var(Names)) /\ p.length \in Nat /\ Len(s) \in Nat /\ k \in 1..Len(s)
    <3>1. k \in DOMAIN p.vars
      BY <1>2 DEF Places
    <3> QED
      BY <3>1 DEF Sound
  <2> HIDE DEF k
  <2>3. /\ t \in Seq(Var(Names)) /\ Len(t) = Len(s)
        /\ Printed(t)[Len(s)] = Printed(s)[Len(s)] - s[k].v + v
    <3>1. Len(t) = Len(s)
      BY <2>2
    <3>2. /\ [s EXCEPT ![k].v = v] \in Seq(Var(Names))
          /\ Printed([s EXCEPT ![k].v = v])[Len(s)] = Printed(s)[Len(s)] - s[k].v + v
      <4> HIDE DEF s
      <4> QED
        BY <2>2, PrintedReplace
    <3> QED
      BY <3>1, <3>2
  <2>4. s[k].v \in Nat
    <3>1. s[k] \in Var(Names)
      BY <2>2
    <3> QED
      BY <3>1 DEF Var
  <2> HIDE DEF t
  <2>5. q.vars = t /\ TextLength(q) = TextLength(p) - s[k].v + v
    BY <2>3 DEF TextLength
  <2>6. TextLength(q) \in Nat /\ TextLength(p) \in Nat
    BY <2>2, <2>3, <2>5, TextLengthType
  <2>7. q.length = Header + TextLength(q) + Len(q.vars) /\ q.length \in Nat
    <3> DEFINE a == q.length  b == p.length  c == TextLength(q)  d == TextLength(p)
               e == Len(q.vars)  f == Len(s)  g == s[k].v
    <3>1. a = b - g + v /\ b = 12 + d + f
      BY DEF Sound, Header
    <3>2. c = d - g + v /\ e = f
      BY <2>3, <2>5, Zenon
    <3>3. b \in Nat /\ c \in Nat /\ d \in Nat /\ f \in Nat /\ g \in Nat
      BY <2>2, <2>4, <2>6, Zenon
    <3> HIDE DEF a, b, c, d, e, f, g
    <3>4. a = 12 + c + e /\ a \in Nat
      BY <3>1, <3>2, <3>3
    <3> QED
      BY <3>4 DEF Header, a, c, e
  <2> QED
    BY <2>1, <2>3, <2>5, <2>7 DEF Sound
<1> QED
  BY <1>1, <1>2

\* The block GetData allocates holds the text of such a packet and its NUL.
LEMMA SoundFits ==
  ASSUME NEW Names, NEW p, Sound(p, Names)
  PROVE  TextExcess(p) = 0
<1>1. p.vars \in Seq(Var(Names)) /\ p.length = Header + TextLength(p) + Len(p.vars) /\ Len(p.vars) \in Nat
  BY DEF Sound
<1>2. TextLength(p) \in Nat
  BY <1>1, TextLengthType
<1>3. p.vars # <<>> => Len(p.vars) > 0
  BY <1>1
<1> QED
  BY <1>1, <1>2, <1>3 DEF TextExcess, Excess, Header

\* A packet without variables has no text.
LEMMA NewPacketSound ==
  ASSUME NEW Names
  PROVE  Sound(NewPacket, Names) /\ Named(NewPacket) = {} /\ TextLength(NewPacket) = 0
<1>1. NewPacket.vars = <<>> /\ NewPacket.length = 12 /\ NewPacket.vars \in Seq(Var(Names))
  BY DEF NewPacket, Header
<1>2. TextLength(NewPacket) = 0
  BY <1>1, TextLengthType
<1> QED
  BY <1>1, <1>2 DEF Sound, Named, NewPacket, Header

\* A name that no variable has is nowhere.
LEMMA PlacesNamed ==
  ASSUME NEW p, NEW name, name \notin Named(p)
  PROVE  Places(p, name) = {}
  BY DEF Places, Named

\* The digits of a number: at most ten, two below a hundred, one below ten.
LEMMA DigitsBounds ==
  ASSUME NEW k \in Nat
  PROVE  Digits(k) \in 1..10 /\ (k < 10 => Digits(k) = 1) /\ (k < 100 => Digits(k) <= 2)
<1> DEFINE Fits(d) == (d > 1 => Powers[d - 1] <= k) /\ (d < 10 => k < Powers[d])
<1>1. /\ Powers[1] = 10 /\ Powers[2] = 100 /\ Powers[3] = 1000 /\ Powers[4] = 10000
      /\ Powers[5] = 100000 /\ Powers[6] = 1000000 /\ Powers[7] = 10000000
      /\ Powers[8] = 100000000 /\ Powers[9] = 1000000000
  BY DEF Powers
<1>2. \E d \in 1..10 : Fits(d)
  <2>1. CASE k < 10
    <3>1. Fits(1)
      BY <1>1, <2>1
    <3> QED
      BY <3>1
  <2>2. ASSUME NEW d \in 2..9, Powers[d - 1] <= k, k < Powers[d] PROVE \E e \in 1..10 : Fits(e)
    BY <2>2
  <2>3. CASE 1000000000 <= k
    <3>1. Fits(10)
      BY <1>1, <2>3
    <3> QED
      BY <3>1
  <2>4. CASE 10 <= k /\ k < 1000000000
    <3>1. \E d \in 2..9 : Powers[d - 1] <= k /\ k < Powers[d]
      <4>1. CASE k < 100
        BY <1>1, <2>4, <4>1
      <4>2. CASE 100 <= k /\ k < 1000
        BY <1>1, <4>2
      <4>3. CASE 1000 <= k /\ k < 10000
        BY <1>1, <4>3
      <4>4. CASE 10000 <= k /\ k < 100000
        BY <1>1, <4>4
      <4>5. CASE 100000 <= k /\ k < 1000000
        BY <1>1, <4>5
      <4>6. CASE 1000000 <= k /\ k < 10000000
        BY <1>1, <4>6
      <4>7. CASE 10000000 <= k /\ k < 100000000
        BY <1>1, <4>7
      <4>8. CASE 100000000 <= k
        BY <1>1, <2>4, <4>8
      <4> QED
        BY <4>1, <4>2, <4>3, <4>4, <4>5, <4>6, <4>7, <4>8
    <3> QED
      BY <2>2, <3>1
  <2> QED
    BY <2>1, <2>3, <2>4
<1>3. Digits(k) \in 1..10 /\ Fits(Digits(k))
  BY <1>2, Zenon DEF Digits
<1> DEFINE d == Digits(k)
<1> HIDE DEF d
<1>4. d \in 1..10 /\ (d > 1 => Powers[d - 1] <= k)
  BY <1>3 DEF d
<1>5. \A i \in 1..9 : Powers[i] >= 10 /\ (i >= 2 => Powers[i] >= 100) /\ Powers[i] \in Nat
  <2>1. 1..9 = {1, 2, 3, 4, 5, 6, 7, 8, 9}
    OBVIOUS
  <2> QED
    BY <1>1, <2>1
<1>6. (k < 10 => d = 1) /\ (k < 100 => d <= 2)
  BY <1>4, <1>5
<1> QED
  BY <1>4, <1>6 DEF d

\* Only a number below 20 is printed past its block, and then by one byte.
LEMMA NumberFits ==
  ASSUME NEW k \in Nat
  PROVE  NumberExcess(k) <= 1 /\ (k >= 20 => NumberExcess(k) = 0)
<1>1. Digits(k) \in 1..10 /\ (k < 10 => Digits(k) = 1) /\ (k < 100 => Digits(k) <= 2)
  BY DigitsBounds
<1> DEFINE d == Digits(k)
           t == k \div 10
<1>2. t \in Nat /\ (10 <= k => t >= 1) /\ (20 <= k => t >= 2) /\ (100 <= k => t >= 10)
  OBVIOUS
<1>3. NumberExcess(k) = IF d + 1 > t + 1 THEN (d + 1) - (t + 1) ELSE 0
  BY DEF NumberExcess, Excess
<1> HIDE DEF d, t
<1> QED
  BY <1>1, <1>2, <1>3 DEF d

\* So they are a length.
LEMMA DigitsType == \A k \in Nat : Digits(k) \in Nat
  BY DigitsBounds

\* A number fits the array of a value.
LEMMA DigitsFit == \A k \in Nat : Digits(k) \in Nat /\ Digits(k) < ValueRoom
  BY DigitsBounds, ValueRoomAssumption

\* Where name and value are shorter than their arrays, so is everything copied.
LEMMA SetVarArrays ==
  ASSUME NEW Names, NEW p, Sound(p, Names), InArrays(p),
         NEW name, NEW n \in Nat, NEW v \in Nat, n < NameRoom, v < ValueRoom
  PROVE  InArrays(SetVar(p, name, n, v))
<1>1. p.vars \in Seq(Var(Names)) /\ Len(p.vars) \in Nat /\ DOMAIN p.vars = 1..Len(p.vars)
  BY DEF Sound
<1>2. CASE Places(p, name) = {}
  <2> DEFINE t == Append(p.vars, [name |-> name, n |-> n, v |-> v])
  <2>1. /\ DOMAIN t = 1..(Len(p.vars) + 1) /\ t[Len(p.vars) + 1] = [name |-> name, n |-> n, v |-> v]
        /\ \A i \in 1..Len(p.vars) : t[i] = p.vars[i]
    BY <1>1
  <2>2. SetVar(p, name, n, v).vars = t
    BY <1>2 DEF SetVar
  <2> HIDE DEF t
  <2>3. \A i \in DOMAIN t : t[i].n < NameRoom /\ t[i].v < ValueRoom
    <3> SUFFICES ASSUME NEW i \in 1..(Len(p.vars) + 1)
                 PROVE  t[i].n < NameRoom /\ t[i].v < ValueRoom
      BY <2>1
    <3>1. CASE i = Len(p.vars) + 1
      BY <2>1, <3>1
    <3>2. CASE i # Len(p.vars) + 1
      <4>1. i \in 1..Len(p.vars)
        BY <1>1, <3>2
      <4> QED
        BY <1>1, <2>1, <4>1 DEF InArrays
    <3> QED
      BY <3>1, <3>2
  <2> QED
    BY <2>2, <2>3 DEF InArrays
<1>3. CASE Places(p, name) # {}
  <2> DEFINE k == CHOOSE i \in Places(p, name) : TRUE
             t == [p.vars EXCEPT ![k].v = v]
  <2>1. SetVar(p, name, n, v).vars = t
    BY <1>3 DEF SetVar, Replace
  <2>2. k \in DOMAIN p.vars
    BY <1>3 DEF Places
  <2> HIDE DEF k
  <2>3. /\ DOMAIN t = DOMAIN p.vars /\ t[k].v = v /\ t[k].n = p.vars[k].n
        /\ \A i \in DOMAIN p.vars : i # k => t[i] = p.vars[i]
    <3>1. p.vars[k] \in Var(Names)
      BY <1>1, <2>2
    <3> QED
      BY <1>1, <2>2, <3>1 DEF Var
  <2> HIDE DEF t
  <2>4. \A i \in DOMAIN t : t[i].n < NameRoom /\ t[i].v < ValueRoom
    BY <2>2, <2>3 DEF InArrays
  <2> QED
    BY <2>1, <2>4 DEF InArrays
<1> QED
  BY <1>2, <1>3

\* A packet without variables copies nothing.
LEMMA NewPacketArrays == InArrays(NewPacket)
  BY DEF InArrays, NewPacket

(***************************************************************************)
(* Gathering a query.                                                      *)
(***************************************************************************)
Types ==
  /\ ask \in [size : Nat, keys : Nat, key : Nat, sent : Nat]
  /\ ask.sent <= ask.size
  /\ recieving \in BOOLEAN /\ dropped \in BOOLEAN
  /\ size \in Nat /\ held \in Nat /\ overrun \in Nat

IInv == Types /\ HeldIsSent

\* Nothing is held at first.
LEMMA InitIInv == Init => IInv
<1> SUFFICES ASSUME Init PROVE IInv
  OBVIOUS
<1>1. recieving \in BOOLEAN /\ dropped \in BOOLEAN
  BY Zenon DEF Init
<1> QED
  BY <1>1 DEF Init, Idle, IInv, Types, HeldIsSent

\* A query is begun while nothing is being gathered.
LEMMA QueryIInv ==
  ASSUME IInv, NEW q \in Queries, Query(q)
  PROVE  IInv'
<1>1. /\ q.size \in Nat \ {0} /\ q.keys \in Nat /\ q.key \in Nat
  BY RankAssumption
<1>2. /\ ask' = [size |-> q.size, keys |-> q.keys, key |-> q.key, sent |-> 0] /\ ~recieving
      /\ UNCHANGED <<gathering, dropped>>
  BY DEF Query
<1> QED
  BY <1>1, <1>2 DEF gathering, IInv, Types, HeldIsSent

\* A piece goes where the last one ended; the last one of a query ends the
\* gathering, with the NUL of the whole text one byte past the block.
LEMMA PieceIInv ==
  ASSUME IInv, NEW d, Piece(d)
  PROVE  IInv'
<1> USE DEF IInv, Types
<1>1. /\ d \in 1..(ask.size - ask.sent) /\ ask' = [ask EXCEPT !.sent = @ + d]
      /\ Gather(d) /\ UNCHANGED dropped
  BY DEF Piece, Arrives
<1>2. /\ ask'.sent = ask.sent + d /\ ask'.size = ask.size /\ d \in Nat /\ d > 0
      /\ ask' \in [size : Nat, keys : Nat, key : Nat, sent : Nat] /\ ask'.sent <= ask'.size
  BY <1>1
<1>3. /\ size' \in Nat /\ held' \in Nat /\ recieving' \in BOOLEAN /\ overrun' \in Nat
  <2>1. held' \in Nat /\ size' \in Nat
    BY <1>1, <1>2 DEF Gather
  <2>2. recieving' \in BOOLEAN
    BY <1>1, Zenon DEF Gather
  <2>3. overrun' \in Nat
    BY <1>1, <1>2 DEF Gather, Excess
  <2> QED
    BY <2>1, <2>2, <2>3
<1>4. ASSUME ~dropped PROVE HeldIsSent'
  <2>1. ask # Idle
    BY <1>1 DEF Idle
  <2>2. recieving <=> (0 < ask.sent /\ ask.sent < ask.size)
    BY <1>4, <2>1 DEF HeldIsSent
  <2>3. held' = ask.sent + d /\ size' = ask.size
    BY <1>1, <1>2, <1>4, <2>1, <2>2 DEF HeldIsSent, Gather
  <2>4. recieving' <=> ask'.sent # ask.size
    <3> DEFINE had == IF recieving THEN held ELSE 0
               cap == IF recieving THEN size ELSE ask.size
    <3>1. had = ask.sent /\ cap = ask.size
      BY <1>1, <1>2, <1>4, <2>1, <2>2 DEF HeldIsSent
    <3>2. recieving' = (had + d # cap)
      BY <1>1 DEF Gather
    <3> HIDE DEF had, cap
    <3> QED
      BY <1>2, <3>1, <3>2
  <2>5. overrun' <= IF ask'.sent = ask'.size THEN 1 ELSE 0
    BY <1>1, <1>2, <1>4, <2>1, <2>2 DEF HeldIsSent, Gather, Excess
  <2> QED
    BY <1>2, <2>3, <2>4, <2>5 DEF HeldIsSent
<1> QED
  BY <1>1, <1>2, <1>3, <1>4 DEF HeldIsSent

\* A piece that is taken for something else is noted; replies gather nothing.
LEMMA MistakenIInv ==
  ASSUME IInv, NEW d, Mistaken(d)
  PROVE  IInv'
  BY DEF Mistaken, Arrives, gathering, IInv, Types, HeldIsSent

\* Replies gather nothing.
LEMMA RespondIInv ==
  ASSUME IInv, SendChunk \/ Answered
  PROVE  IInv'
<1>1. CASE SendChunk
  <2>1. UNCHANGED <<ask, gathering, dropped>>
    BY <1>1 DEF SendChunk, Cut, Turn
  <2> QED
    BY <2>1 DEF gathering, IInv, Types, HeldIsSent
<1>2. CASE Answered
  BY <1>2 DEF Answered, Idle, gathering, IInv, Types, HeldIsSent
<1> QED
  BY <1>1, <1>2

\* Nor does what leaves the transfer alone.
LEMMA StutterIInv == IInv /\ UNCHANGED vars => IInv'
  BY DEF vars, gathering, IInv, Types, HeldIsSent

\* HeldIsSent: what is held is what the player has sent of this query, and only
\* the NUL of a complete text falls outside its block.
THEOREM GatheredIsSent == Spec => []HeldIsSent
<1>1. IInv /\ [Next]_vars => IInv'
  BY QueryIInv, PieceIInv, MistakenIInv, RespondIInv, StutterIInv DEF Next, Pieces
<1>2. IInv => HeldIsSent
  BY DEF IInv
<1> QED
  BY <1>1, <1>2, InitIInv, PTL DEF Spec

\* The same over a stream, however recv cuts it up.
THEOREM StreamedIsSent == ConnectionSpec => []HeldIsSent
<1>1. ConnectionInit => IInv
  BY InitIInv DEF ConnectionInit
<1>2. IInv /\ [ConnectionNext]_<<vars, input>> => IInv'
  <2> SUFFICES ASSUME IInv, [ConnectionNext]_<<vars, input>> PROVE IInv'
    OBVIOUS
  <2>1. CASE Begin
    BY <2>1, QueryIInv DEF Begin
  <2>2. CASE SendPiece
    BY <2>2, StutterIInv DEF SendPiece
  <2>3. ASSUME NEW n, RecvHeader(n) \/ RecvData(n) PROVE IInv'
    <3>1. UNCHANGED vars \/ Piece(got' - 1) \/ Mistaken(got' - 1)
      BY <2>3 DEF RecvHeader, RecvData
    <3> QED
      BY <3>1, StutterIInv, PieceIInv, MistakenIInv
  <2>4. CASE Recv
    BY <2>3, <2>4 DEF Recv
  <2>5. CASE Respond
    BY <2>5, RespondIInv DEF Respond
  <2>6. CASE UNCHANGED <<vars, input>>
    BY <2>6, StutterIInv
  <2> QED
    BY <2>1, <2>2, <2>4, <2>5, <2>6 DEF ConnectionNext
<1>3. IInv => HeldIsSent
  BY DEF IInv
<1> QED
  BY <1>1, <1>2, <1>3, PTL DEF ConnectionSpec

\* RankConnection implements RankTransfer: a step of the stream is a step of the
\* transfer, or one of reading and sending that the transfer does not see.
THEOREM TransferOverStream == ConnectionSpec => Init /\ [][Next]_vars
<1>1. ConnectionInit => Init
  BY DEF ConnectionInit
<1>2. [ConnectionNext]_<<vars, input>> => [Next]_vars
  <2> SUFFICES ASSUME ConnectionNext PROVE [Next]_vars
    OBVIOUS
  <2>1. CASE Begin
    BY <2>1 DEF Begin, Next
  <2>2. CASE SendPiece
    BY <2>2 DEF SendPiece
  <2>3. ASSUME NEW n, RecvHeader(n) \/ RecvData(n) PROVE [Next]_vars
    <3>1. UNCHANGED vars \/ Piece(got' - 1) \/ Mistaken(got' - 1)
      BY <2>3 DEF RecvHeader, RecvData
    <3>2. ASSUME NEW d, Piece(d) \/ Mistaken(d) PROVE Next
      <4>1. d \in 1..(ask.size - ask.sent)
        BY <3>2 DEF Piece, Mistaken, Arrives
      <4> QED
        BY <3>2, <4>1 DEF Next, Pieces
    <3> QED
      BY <3>1, <3>2
  <2>4. CASE Recv
    BY <2>3, <2>4 DEF Recv
  <2>5. CASE Respond
    BY <2>5 DEF Respond, Next
  <2> QED
    BY <2>1, <2>2, <2>4, <2>5 DEF ConnectionNext
<1> QED
  BY <1>1, <1>2, PTL DEF ConnectionSpec

(***************************************************************************)
(* Answering it.                                                           *)
(***************************************************************************)
ReplyNames ==
  {<<"TXN">>, <<"stats.[]">>, <<"decodedSize">>, <<"size">>, <<"data">>} \cup {"key", "value"} \X Nat

Packets == {p \in [length : Nat, vars : Seq(Var(ReplyNames))] : Sound(p, ReplyNames)}

\* Packets is what is sound.
LEMMA PacketSound == \A p : p \in Packets <=> Sound(p, ReplyNames)
  BY DEF Packets, Sound

\* The names of a reply and of a chunk are different names.
LEMMA NamesDistinct ==
  ASSUME NEW i \in Nat
  PROVE  /\ <<"TXN">> \in ReplyNames /\ <<"stats.[]">> \in ReplyNames /\ <<"decodedSize">> \in ReplyNames
         /\ <<"size">> \in ReplyNames /\ <<"data">> \in ReplyNames
         /\ <<"key", i>> \in ReplyNames /\ <<"value", i>> \in ReplyNames
         /\ <<"TXN">> # <<"stats.[]">> /\ <<"key", i>> # <<"value", i>>
         /\ <<"key", i>> \notin {<<"TXN">>, <<"stats.[]">>} /\ <<"value", i>> \notin {<<"TXN">>, <<"stats.[]">>}
  BY DEF ReplyNames

\* The two variables a reply begins with.
LEMMA ReplyStartSound ==
  ASSUME NEW keys \in Nat
  PROVE  /\ Sound(ReplyStart(keys), ReplyNames) /\ TextLength(ReplyStart(keys)) >= 24
         /\ Named(ReplyStart(keys)) = {<<"TXN">>, <<"stats.[]">>}
<1> DEFINE d == Digits(keys)
           p == SetVar(NewPacket, <<"TXN">>, 3, 8)
           q == SetVar(p, <<"stats.[]">>, 8, d)
<1>1. d \in Nat /\ d >= 1
  BY DigitsBounds
<1> HIDE DEF d
<1>2. /\ <<"TXN">> \in ReplyNames /\ <<"stats.[]">> \in ReplyNames /\ <<"TXN">> # <<"stats.[]">>
  BY NamesDistinct
<1>3. Sound(NewPacket, ReplyNames) /\ Named(NewPacket) = {} /\ TextLength(NewPacket) = 0
  BY NewPacketSound
<1>4. Sound(p, ReplyNames) /\ TextLength(p) = 13 /\ Named(p) = {<<"TXN">>}
  <2>1. Places(NewPacket, <<"TXN">>) = {}
    BY <1>3, PlacesNamed
  <2>2. /\ Sound(SetVar(NewPacket, <<"TXN">>, 3, 8), ReplyNames)
        /\ TextLength(SetVar(NewPacket, <<"TXN">>, 3, 8)) = TextLength(NewPacket) + 3 + 8 + 2
        /\ Named(SetVar(NewPacket, <<"TXN">>, 3, 8)) = Named(NewPacket) \cup {<<"TXN">>}
    BY <1>2, <1>3, <2>1, SetVarNew
  <2> QED
    BY <1>3, <2>2
<1> HIDE DEF p
<1>5. /\ Sound(q, ReplyNames) /\ TextLength(q) = TextLength(p) + 8 + d + 2
      /\ Named(q) = Named(p) \cup {<<"stats.[]">>}
  <2>1. Places(p, <<"stats.[]">>) = {}
    BY <1>2, <1>4, PlacesNamed
  <2>2. 8 \in Nat /\ d \in Nat /\ <<"stats.[]">> \in ReplyNames /\ Sound(p, ReplyNames)
    BY <1>1, <1>2, <1>4
  <2> QED
    BY <2>1, <2>2, SetVarNew
<1>6. ReplyStart(keys) = q
  BY DEF ReplyStart, SetNumber, p, d
<1> HIDE DEF q
<1> QED
  BY <1>1, <1>4, <1>5, <1>6

\* A key keeps the length in step.
LEMMA AddKeySound ==
  ASSUME NEW p, Sound(p, ReplyNames), NEW i \in Nat, NEW key \in Nat
  PROVE  Sound(AddKey(p, i, key), ReplyNames)
<1>1. <<"key", i>> \in ReplyNames /\ <<"value", i>> \in ReplyNames /\ 10 + Digits(i) \in Nat /\ 12 + Digits(i) \in Nat
  BY NamesDistinct, DigitsType
<1>2. Sound(SetVar(p, <<"key", i>>, 10 + Digits(i), key), ReplyNames)
  BY <1>1, SetVarSound
<1> QED
  BY <1>1, <1>2, SetVarSound DEF AddKey

\* The two variables of a key are new, and make the text longer.
LEMMA AddKeyLonger ==
  ASSUME NEW p, Sound(p, ReplyNames), NEW i \in Nat, NEW key \in Nat,
         <<"key", i>> \notin Named(p), <<"value", i>> \notin Named(p)
  PROVE  /\ TextLength(AddKey(p, i, key)) >= TextLength(p)
         /\ Named(AddKey(p, i, key)) = Named(p) \cup {<<"key", i>>, <<"value", i>>}
<1> DEFINE m == 10 + Digits(i)
           n == 12 + Digits(i)
           q == SetVar(p, <<"key", i>>, m, key)
           r == SetVar(q, <<"value", i>>, n, 3)
<1>1. /\ <<"key", i>> \in ReplyNames /\ <<"value", i>> \in ReplyNames /\ <<"key", i>> # <<"value", i>>
      /\ m \in Nat /\ n \in Nat
  BY NamesDistinct, DigitsType
<1> HIDE DEF m, n
<1>2. /\ Sound(q, ReplyNames) /\ TextLength(q) = TextLength(p) + m + key + 2
      /\ Named(q) = Named(p) \cup {<<"key", i>>}
  <2>1. Places(p, <<"key", i>>) = {}
    BY PlacesNamed
  <2> QED
    BY <1>1, <2>1, SetVarNew
<1> HIDE DEF q
<1>3. /\ TextLength(r) = TextLength(q) + n + 3 + 2
      /\ Named(r) = Named(q) \cup {<<"value", i>>}
  <2>1. Places(q, <<"value", i>>) = {}
    BY <1>1, <1>2, PlacesNamed
  <2> QED
    BY <1>1, <1>2, <2>1, SetVarNew
<1>4. TextLength(p) \in Nat
  BY TextLengthType DEF Sound
<1>5. AddKey(p, i, key) = r
  BY DEF AddKey, q, m, n
<1> HIDE DEF r
<1>6. TextLength(r) >= TextLength(p)
  <2> DEFINE a == TextLength(p)  b == TextLength(q)  c == TextLength(r)
  <2>1. a \in Nat /\ b = a + m + key + 2 /\ c = b + n + 3 + 2
    BY <1>2, <1>3, <1>4, Zenon
  <2> HIDE DEF a, b, c
  <2>2. c >= a
    BY <1>1, <2>1
  <2> QED
    BY <2>2 DEF a, c
<1>7. Named(r) = Named(p) \cup {<<"key", i>>, <<"value", i>>}
  BY <1>2, <1>3
<1> QED
  BY <1>5, <1>6, <1>7

\* A reply is built key by key.
LEMMA ReplyUptoDef ==
  ASSUME NEW keys \in Nat, NEW key \in Nat
  PROVE  \A i \in 0..keys :
           ReplyUpto(keys, key)[i] = IF i = 0 THEN ReplyStart(keys)
                                              ELSE AddKey(ReplyUpto(keys, key)[i - 1], i - 1, key)
<1> DEFINE step == [i \in 1..keys |-> [p \in Packets |-> AddKey(p, i - 1, key)]]
<1>1. ReplyStart(keys) \in Packets
  BY ReplyStartSound, PacketSound
<1>2. step \in [1..keys -> [Packets -> Packets]]
  <2>1. \A i \in 1..keys : \A p \in Packets : AddKey(p, i - 1, key) \in Packets
    <3> SUFFICES ASSUME NEW i \in 1..keys, NEW p \in Packets PROVE AddKey(p, i - 1, key) \in Packets
      OBVIOUS
    <3>1. i - 1 \in Nat /\ Sound(p, ReplyNames)
      BY PacketSound
    <3> QED
      BY <3>1, AddKeySound, PacketSound
  <2> QED
    BY <2>1
<1> HIDE DEF step
<1>3. PICK f : Follows(f, ReplyStart(keys), step, keys, Packets)
  <2>1. step \in Steps(keys, Packets)
    BY <1>2 DEF Steps
  <2> QED
    BY <1>1, <2>1, Recursion, Zenon
<1>4. \A i \in 1..keys : f[i] = AddKey(f[i - 1], i - 1, key)
  <2> SUFFICES ASSUME NEW i \in 1..keys PROVE f[i] = AddKey(f[i - 1], i - 1, key)
    OBVIOUS
  <2>1. f[i - 1] \in Packets /\ f[i] = step[i][f[i - 1]]
    BY <1>3 DEF Follows
  <2>2. step[i] = [p \in Packets |-> AddKey(p, i - 1, key)]
    BY DEF step
  <2> QED
    BY <2>1, <2>2
<1>5. f = [i \in 0..keys |-> IF i = 0 THEN ReplyStart(keys) ELSE AddKey(f[i - 1], i - 1, key)]
  BY <1>3, <1>4 DEF Follows
<1> DEFINE U == ReplyUpto(keys, key)
<1>6. U = [i \in 0..keys |-> IF i = 0 THEN ReplyStart(keys) ELSE AddKey(U[i - 1], i - 1, key)]
  BY <1>5, Zenon DEF ReplyUpto
<1> HIDE DEF U
<1>7. \A i \in 0..keys : U[i] = IF i = 0 THEN ReplyStart(keys) ELSE AddKey(U[i - 1], i - 1, key)
  BY <1>6, Zenon
<1> QED
  BY <1>7 DEF U

\* A reply's length is in step with its text, and no reply is shorter than the two
\* variables it begins with.
LEMMA ReplySound ==
  ASSUME NEW keys \in Nat, NEW key \in Nat
  PROVE  Sound(Reply(keys, key), ReplyNames) /\ TextLength(Reply(keys, key)) >= 24
<1> DEFINE U == ReplyUpto(keys, key)
           Upto(n) == {<<"TXN">>, <<"stats.[]">>} \cup {"key", "value"} \X (0..(n - 1))
           Good == {n \in Nat : n <= keys => /\ Sound(U[n], ReplyNames) /\ TextLength(U[n]) >= 24
                                             /\ Named(U[n]) \subseteq Upto(n)}
<1>1. \A i \in 0..keys : U[i] = IF i = 0 THEN ReplyStart(keys) ELSE AddKey(U[i - 1], i - 1, key)
  BY ReplyUptoDef
<1> HIDE DEF U
<1>2. 0 \in Good
  <2>1. U[0] = ReplyStart(keys)
    BY <1>1
  <2> QED
    BY <2>1, ReplyStartSound
<1>3. ASSUME NEW n \in Nat, n \in Good PROVE n + 1 \in Good
  <2> SUFFICES ASSUME n + 1 <= keys
               PROVE  /\ Sound(U[n + 1], ReplyNames) /\ TextLength(U[n + 1]) >= 24
                      /\ Named(U[n + 1]) \subseteq Upto(n + 1)
    OBVIOUS
  <2>1. U[n + 1] = AddKey(U[n], n, key)
    <3>1. n + 1 \in 0..keys /\ n + 1 # 0 /\ (n + 1) - 1 = n
      OBVIOUS
    <3> QED
      BY <1>1, <3>1
  <2>2. Sound(U[n], ReplyNames) /\ TextLength(U[n]) >= 24 /\ Named(U[n]) \subseteq Upto(n)
    BY <1>3
  <2>3. <<"key", n>> \notin Upto(n) /\ <<"value", n>> \notin Upto(n)
    <3>1. n \notin 0..(n - 1)
      OBVIOUS
    <3> QED
      BY <3>1, NamesDistinct
  <2>4. /\ Sound(AddKey(U[n], n, key), ReplyNames) /\ TextLength(AddKey(U[n], n, key)) >= TextLength(U[n])
        /\ Named(AddKey(U[n], n, key)) = Named(U[n]) \cup {<<"key", n>>, <<"value", n>>}
    <3> HIDE DEF Upto
    <3>1. <<"key", n>> \notin Named(U[n]) /\ <<"value", n>> \notin Named(U[n])
      BY <2>2, <2>3
    <3> QED
      BY <2>2, <3>1, AddKeySound, AddKeyLonger
  <2>5. Upto(n) \cup {<<"key", n>>, <<"value", n>>} \subseteq Upto(n + 1)
    <3>1. 0..((n + 1) - 1) = 0..n /\ 0..(n - 1) \subseteq 0..n /\ n \in 0..n
      OBVIOUS
    <3> QED
      BY <3>1
  <2>6. TextLength(U[n + 1]) >= 24
    <3>1. TextLength(U[n]) \in Nat /\ TextLength(U[n + 1]) \in Nat
      BY <2>1, <2>2, <2>4, TextLengthType DEF Sound
    <3> QED
      BY <2>1, <2>2, <2>4, <3>1
  <2> QED
    BY <2>1, <2>2, <2>4, <2>5, <2>6
<1> HIDE DEF Good
<1>4. keys \in Good
  BY <1>2, <1>3, Induct
<1> QED
  BY <1>4 DEF Good, Reply, U

\* Nor does a reply outgrow the arrays, unless a key does.
LEMMA ReplyArrays ==
  ASSUME NEW keys \in Nat, NEW key \in Nat, keys = 0 \/ key < ValueRoom
  PROVE  InArrays(Reply(keys, key))
<1> DEFINE U == ReplyUpto(keys, key)
           Good == {n \in Nat : n <= keys => Sound(U[n], ReplyNames) /\ InArrays(U[n])}
<1>1. \A i \in 0..keys : U[i] = IF i = 0 THEN ReplyStart(keys) ELSE AddKey(U[i - 1], i - 1, key)
  BY ReplyUptoDef
<1> HIDE DEF U
<1>2. 0 \in Good
  <2> DEFINE p == SetVar(NewPacket, <<"TXN">>, 3, 8)
  <2>0. <<"TXN">> \in ReplyNames /\ <<"stats.[]">> \in ReplyNames
    BY NamesDistinct
  <2>1. Digits(keys) \in Nat /\ Digits(keys) < ValueRoom /\ 8 < ValueRoom /\ 8 < NameRoom /\ 3 < NameRoom
    BY DigitsFit, ValueRoomAssumption DEF NameRoom
  <2>2. Sound(p, ReplyNames) /\ InArrays(p)
    BY <2>0, <2>1, NewPacketSound, NewPacketArrays, SetVarSound, SetVarArrays
  <2> HIDE DEF p
  <2>3. InArrays(SetVar(p, <<"stats.[]">>, 8, Digits(keys)))
    BY <2>0, <2>1, <2>2, SetVarArrays
  <2>4. U[0] = ReplyStart(keys)
    BY <1>1
  <2> QED
    BY <2>3, <2>4, ReplyStartSound DEF ReplyStart, SetNumber, p
<1>3. ASSUME NEW n \in Nat, n \in Good PROVE n + 1 \in Good
  <2> SUFFICES ASSUME n + 1 <= keys PROVE Sound(U[n + 1], ReplyNames) /\ InArrays(U[n + 1])
    OBVIOUS
  <2>1. U[n + 1] = AddKey(U[n], n, key)
    <3>1. n + 1 \in 0..keys /\ n + 1 # 0 /\ (n + 1) - 1 = n
      OBVIOUS
    <3> QED
      BY <1>1, <3>1
  <2>2. Sound(U[n], ReplyNames) /\ InArrays(U[n]) /\ key < ValueRoom
    BY <1>3
  <2> DEFINE p == U[n]
             l == 10 + Digits(n)
             m == 12 + Digits(n)
             q == SetVar(p, <<"key", n>>, l, key)
  <2>3. /\ <<"key", n>> \in ReplyNames /\ <<"value", n>> \in ReplyNames
        /\ l \in Nat /\ l < NameRoom /\ m \in Nat /\ m < NameRoom /\ 3 < ValueRoom
    BY NamesDistinct, DigitsBounds, ValueRoomAssumption DEF NameRoom
  <2> HIDE DEF l, m, p
  <2>4. Sound(q, ReplyNames) /\ InArrays(q)
    <3>1. Sound(p, ReplyNames) /\ InArrays(p)
      BY <2>2 DEF p
    <3> QED
      BY <2>2, <2>3, <3>1, SetVarSound, SetVarArrays
  <2> HIDE DEF q
  <2>5. InArrays(SetVar(q, <<"value", n>>, m, 3))
    BY <2>3, <2>4, SetVarArrays
  <2>6. AddKey(U[n], n, key) = SetVar(q, <<"value", n>>, m, 3)
    BY DEF AddKey, q, l, m, p
  <2> QED
    BY <2>1, <2>2, <2>5, <2>6, AddKeySound
<1> HIDE DEF Good
<1>4. keys \in Good
  BY <1>2, <1>3, Induct
<1> QED
  BY <1>4 DEF Good, Reply, U

\* A packet with a part of the reply.
LEMMA ChunkPacketSound ==
  ASSUME NEW r, r.decoded \in Nat, r.encoded \in Nat, NEW d \in Nat
  PROVE  Sound(ChunkPacket(r, d), ReplyNames)
<1> DEFINE p == SetNumber(NewPacket, <<"decodedSize">>, 11, r.decoded)
           q == SetNumber(p, <<"size">>, 4, r.encoded)
<1>1. <<"decodedSize">> \in ReplyNames /\ <<"size">> \in ReplyNames /\ <<"data">> \in ReplyNames
      /\ Digits(r.decoded) \in Nat /\ Digits(r.encoded) \in Nat
  BY NamesDistinct, DigitsType
<1>2. Sound(p, ReplyNames)
  BY <1>1, NewPacketSound, SetVarSound DEF SetNumber
<1> HIDE DEF p
<1>3. Sound(q, ReplyNames)
  BY <1>1, <1>2, SetVarSound DEF SetNumber
<1> HIDE DEF q
<1>4. Sound(SetVar(q, <<"data">>, 4, d), ReplyNames)
  BY <1>1, <1>3, SetVarSound
<1> QED
  BY <1>4 DEF ChunkPacket, p, q

\* It outgrows the arrays only by that part.
LEMMA ChunkPacketArrays ==
  ASSUME NEW r, r.decoded \in Nat, r.encoded \in Nat, NEW d \in Nat, d < ValueRoom
  PROVE  InArrays(ChunkPacket(r, d))
<1> DEFINE p == SetNumber(NewPacket, <<"decodedSize">>, 11, r.decoded)
           q == SetNumber(p, <<"size">>, 4, r.encoded)
<1>0. <<"decodedSize">> \in ReplyNames /\ <<"size">> \in ReplyNames
  BY NamesDistinct
<1>1. /\ Digits(r.decoded) \in Nat /\ Digits(r.encoded) \in Nat
      /\ Digits(r.decoded) < ValueRoom /\ Digits(r.encoded) < ValueRoom /\ 11 < NameRoom /\ 4 < NameRoom
  BY DigitsFit DEF NameRoom
<1>2. Sound(p, ReplyNames) /\ InArrays(p)
  BY <1>0, <1>1, NewPacketSound, NewPacketArrays, SetVarSound, SetVarArrays DEF SetNumber
<1> HIDE DEF p
<1>3. Sound(q, ReplyNames) /\ InArrays(q)
  BY <1>0, <1>1, <1>2, SetVarSound, SetVarArrays DEF SetNumber
<1> HIDE DEF q
<1>4. InArrays(SetVar(q, <<"data">>, 4, d))
  BY <1>1, <1>3, SetVarArrays
<1> QED
  BY <1>4 DEF ChunkPacket, p, q

\* Where the loop that cuts the reply is.
CutAt(r, l, c) ==
  /\ l = r.encoded - Chunk * Len(c) /\ l > -Chunk
  /\ \A i \in 1..(Len(c) - 1) : c[i] >= Chunk
  /\ l > 0 => \A i \in 1..Len(c) : c[i] >= Chunk
  /\ l < 0 => c # <<>> /\ c[Len(c)] = l + Chunk

ReplyTypes ==
  /\ reply \in [decoded : Nat, encoded : Nat] /\ left \in Int /\ chunks \in Seq(Nat)
  /\ Sound(packet, ReplyNames)

\* What did not fit its array.
SpillKnown ==
  spilled =>
    \/ ask.size >= QueryRoom
    \/ ask.keys > 0 /\ ask.key >= ValueRoom
    \/ chunks # <<>> /\ chunks[Len(chunks)] > Chunk

RInv ==
  /\ Types /\ ReplyTypes /\ SpillKnown
  /\ ask # Idle => Asked \in Queries
  /\ reply = NoReply => left <= 0
  /\ reply # NoReply => /\ reply.decoded >= 24 /\ reply.encoded >= 24
                        /\ CutAt(reply, left, chunks)

\* Base64 makes a text no shorter.
LEMMA EncodedLonger ==
  ASSUME NEW n \in Nat, n >= 24
  PROVE  Encoded(n) \in Nat /\ Encoded(n) >= 24
<1> DEFINE a == (n + 2) \div 3
           b == 4 * a
           c == (b + 63) \div 64
<1>1. a \in Nat /\ a >= 8
  OBVIOUS
<1> HIDE DEF a
<1>2. b \in Nat /\ b >= 32
  BY <1>1
<1> HIDE DEF b
<1>3. c \in Nat /\ c >= 1
  BY <1>2
<1> HIDE DEF c
<1>4. Encoded(n) = b + c - 1
  BY DEF Encoded, a, b, c
<1> QED
  BY <1>2, <1>3, <1>4

\* There is no reply at first.
LEMMA InitRInv == Init => RInv
<1> SUFFICES ASSUME Init PROVE RInv
  OBVIOUS
<1>1. Types
  BY InitIInv DEF IInv
<1>2. Sound(packet, ReplyNames)
  BY NewPacketSound DEF Init
<1> QED
  BY <1>1, <1>2 DEF Init, RInv, ReplyTypes, NoReply, SpillKnown

\* Nothing is put into a reply while a query is begun or its pieces gathered.
LEMMA SendingKept ==
  ASSUME RInv, UNCHANGED sending, Types', SpillKnown', ask' # Idle => Asked' \in Queries
  PROVE  RInv'
<1>1. reply' = reply /\ left' = left /\ chunks' = chunks /\ packet' = packet
  BY DEF sending
<1>2. ReplyTypes'
  BY <1>1 DEF RInv, ReplyTypes
<1>3. /\ reply' = NoReply => left' <= 0
      /\ reply' # NoReply => /\ reply'.decoded >= 24 /\ reply'.encoded >= 24
                             /\ CutAt(reply', left', chunks')
  BY <1>1 DEF RInv
<1> QED
  BY <1>2, <1>3 DEF RInv

\* A query that begins is one of the queries.
LEMMA QueryRInv ==
  ASSUME IInv, RInv, NEW q \in Queries, Query(q)
  PROVE  RInv'
<1>1. Types'
  BY QueryIInv DEF IInv
<1>2. /\ q \in [size : Nat \ {0}, keys : Nat, key : Nat]
      /\ ask' = [size |-> q.size, keys |-> q.keys, key |-> q.key, sent |-> 0] /\ UNCHANGED sending
  BY RankAssumption DEF Query
<1>3. Asked' = q
  BY <1>2 DEF Asked
<1>4. SpillKnown'
  BY DEF Query, SpillKnown
<1> QED
  BY <1>1, <1>2, <1>3, <1>4, SendingKept

\* It stays that while its pieces arrive.
LEMMA ArrivesAsked ==
  ASSUME RInv, NEW d, Arrives(d)
  PROVE  /\ ask # Idle /\ Asked' = Asked /\ Asked \in Queries
         /\ d >= QueryRoom => ask'.size >= QueryRoom
<1>1. ask # Idle
  BY DEF Arrives, Idle
<1>2. d \in Nat /\ d <= ask.size /\ ask'.size = ask.size /\ ask.size \in Nat
  BY DEF Arrives, RInv, Types
<1> QED
  BY <1>1, <1>2, RankAssumption DEF Arrives, RInv, Types, Asked

\* A piece taken for something else brings no reply.
LEMMA MistakenRInv ==
  ASSUME IInv, RInv, NEW d, Mistaken(d)
  PROVE  RInv'
<1>1. Types'
  BY MistakenIInv DEF IInv
<1>2. UNCHANGED sending /\ Asked' \in Queries
  BY ArrivesAsked DEF Mistaken
<1>3. SpillKnown'
  BY ArrivesAsked DEF Mistaken, SpillKnown
<1> QED
  BY <1>1, <1>2, <1>3, SendingKept

\* The last piece: the reply is printed and encoded, and none of it is sent yet.
LEMMA PieceRInv ==
  ASSUME IInv, RInv, NEW d, Piece(d)
  PROVE  RInv'
<1>1. Types'
  BY PieceIInv DEF IInv
<1>2. /\ Asked' = Asked /\ Asked \in Queries
      /\ d >= QueryRoom => ask'.size >= QueryRoom
  BY ArrivesAsked DEF Piece
<1>3. ASSUME UNCHANGED sending, spilled' = (d >= QueryRoom) PROVE RInv'
  <2>1. SpillKnown'
    BY <1>2, <1>3 DEF SpillKnown
  <2> QED
    BY <1>1, <1>2, <1>3, <2>1, SendingKept
<1>4. ASSUME packet' = RankReply[Asked], spilled' = (d >= QueryRoom \/ ~InArrays(packet')), left' = reply'.encoded, chunks' = <<>>,
             reply' = [decoded |-> TextLength(packet'), encoded |-> Encoded(TextLength(packet'))]
      PROVE  RInv'
  <2>1. Asked.keys \in Nat /\ Asked.key \in Nat
    BY <1>2, RankAssumption
  <2>2. packet' = Reply(Asked.keys, Asked.key)
    BY <1>2, <1>4, Zenon DEF RankReply
  <2>3. Sound(packet', ReplyNames) /\ TextLength(packet') >= 24
    BY <2>1, <2>2, ReplySound
  <2> DEFINE n == TextLength(packet')
  <2>4. n \in Nat
    BY <2>3, TextLengthType DEF Sound
  <2>5. Encoded(n) \in Nat /\ Encoded(n) >= 24
    BY <2>3, <2>4, EncodedLonger
  <2>6. reply' = [decoded |-> n, encoded |-> Encoded(n)]
    BY <1>4
  <2> HIDE DEF n
  <2> DEFINE e == Encoded(n)
  <2>7. /\ reply'.decoded = n /\ reply'.encoded = e /\ left' = e /\ e \in Nat /\ e >= 24
        /\ reply' \in [decoded : Nat, encoded : Nat]
    BY <1>4, <2>4, <2>5, <2>6
  <2> HIDE DEF e
  <2>8. ReplyTypes'
    BY <1>4, <2>3, <2>7 DEF ReplyTypes
  <2>9. reply' # NoReply /\ n >= 24
    BY <2>3, <2>7 DEF NoReply, n
  <2>10. CutAt(reply', left', chunks')
    <3>1. Chunk \in Nat /\ Chunk > 0 /\ Len(chunks') = 0 /\ Chunk * 0 = 0
      BY <1>4, RankAssumption
    <3>2. left' = reply'.encoded - Chunk * Len(chunks') /\ left' > -Chunk /\ left' > 0
      BY <2>7, <3>1
    <3> QED
      BY <2>7, <3>1, <3>2 DEF CutAt
  <2>11. SpillKnown'
    <3>1. ask'.keys = Asked.keys /\ ask'.key = Asked.key
      BY <1>2 DEF Asked
    <3>2. ~InArrays(packet') => Asked.keys > 0 /\ Asked.key >= ValueRoom
      BY <2>1, <2>2, ReplyArrays, ValueRoomAssumption
    <3> QED
      BY <1>2, <1>4, <3>1, <3>2 DEF SpillKnown
  <2> QED
    BY <1>1, <1>2, <2>7, <2>8, <2>9, <2>10, <2>11 DEF RInv
<1> QED
  BY <1>3, <1>4, Zenon DEF Piece

\* A turn of the loop: a whole chunk unless what is left is less.
LEMMA SendRInv ==
  ASSUME IInv, RInv, SendChunk
  PROVE  RInv'
<1>1. PICK d \in Nat : Turn(d) /\ (left < Chunk => d = left) /\ (left >= Chunk => d >= Chunk)
  <2>1. Chunk \in Nat /\ Garbage \in Nat /\ left \in Int /\ left > 0
    BY RankAssumption DEF SendChunk, RInv, ReplyTypes
  <2>2. CASE left < Chunk /\ Turn(left)
    BY <2>1, <2>2
  <2>3. ASSUME left >= Chunk, NEW g \in 0..Garbage, Turn(Chunk + g)
        PROVE  \E d \in Nat : Turn(d) /\ (left < Chunk => d = left) /\ (left >= Chunk => d >= Chunk)
    <3>1. Chunk + g \in Nat /\ Chunk + g >= Chunk
      BY <2>1
    <3> QED
      BY <2>1, <2>3, <3>1
  <2> QED
    BY <2>2, <2>3 DEF SendChunk, Cut
<1>2. /\ chunks' = Append(chunks, d) /\ packet' = ChunkPacket(reply, d) /\ left' = left - Chunk
      /\ reply' = reply /\ UNCHANGED <<ask, gathering>> /\ left > 0
  BY <1>1 DEF Turn, SendChunk
<1>3. /\ Types' /\ Asked' = Asked
  BY <1>2, RespondIInv DEF IInv, Asked
<1>4. /\ chunks \in Seq(Nat) /\ Len(chunks) \in Nat /\ left \in Int /\ reply.encoded \in Nat /\ reply.decoded \in Nat
      /\ reply # NoReply /\ CutAt(reply, left, chunks) /\ Chunk \in Nat /\ Chunk > 0
  BY <1>2, RankAssumption DEF RInv, ReplyTypes
<1>5. ReplyTypes'
  <2>1. Sound(packet', ReplyNames)
    BY <1>2, <1>4, ChunkPacketSound
  <2>2. chunks' \in Seq(Nat) /\ left' \in Int
    BY <1>2, <1>4
  <2> QED
    BY <1>2, <2>1, <2>2 DEF RInv, ReplyTypes
<1>6. CutAt(reply', left', chunks')
  <2> DEFINE m == Len(chunks)
  <2>1. Len(chunks') = m + 1 /\ chunks'[m + 1] = d /\ (\A i \in 1..m : chunks'[i] = chunks[i]) /\ chunks' # <<>>
    BY <1>2, <1>4
  <2>2. left' = reply'.encoded - Chunk * Len(chunks')
    <3>1. Chunk * (m + 1) = Chunk * m + Chunk /\ Chunk * m \in Nat
      BY <1>4
    <3>2. left = reply.encoded - Chunk * m
      BY <1>4 DEF CutAt
    <3> DEFINE a == Chunk * m
               b == Chunk * (m + 1)
    <3> HIDE DEF a, b
    <3>3. b = a + Chunk /\ a \in Nat /\ left = reply.encoded - a
      BY <3>1, <3>2 DEF a, b
    <3>4. left' = reply'.encoded - b
      BY <1>2, <1>4, <3>3
    <3> QED
      BY <2>1, <3>4 DEF b
  <2>3. left' > -Chunk
    BY <1>2, <1>4
  <2>4. \A i \in 1..m : chunks'[i] >= Chunk
    BY <1>2, <2>1, <1>4 DEF CutAt
  <2>5. left' > 0 => d >= Chunk
    BY <1>1, <1>2, <1>4
  <2>6. left' < 0 => d = left' + Chunk
    BY <1>1, <1>2, <1>4
  <2> HIDE DEF m
  <2>7. m \in Nat
    BY <1>4 DEF m
  <2>8. \A i \in 1..(Len(chunks') - 1) : chunks'[i] >= Chunk
    BY <2>1, <2>4, <2>7
  <2>9. left' > 0 => \A i \in 1..Len(chunks') : chunks'[i] >= Chunk
    <3>1. 1..(m + 1) = (1..m) \cup {m + 1}
      BY <2>7
    <3> QED
      BY <2>1, <2>4, <2>5, <2>7, <3>1
  <2>10. left' < 0 => chunks' # <<>> /\ chunks'[Len(chunks')] = left' + Chunk
    BY <2>1, <2>6
  <2> QED
    BY <2>2, <2>3, <2>8, <2>9, <2>10 DEF CutAt
<1>7. SpillKnown'
  <2> SUFFICES ASSUME spilled' PROVE chunks' # <<>> /\ chunks'[Len(chunks')] > Chunk
    BY DEF SpillKnown
  <2>1. ~InArrays(packet')
    BY <1>1 DEF Turn
  <2>2. ~(d < ValueRoom)
    BY <1>2, <1>4, <2>1, ChunkPacketArrays
  <2>3. d > Chunk
    BY <2>2, RankAssumption, ValueRoomAssumption
  <2> QED
    BY <1>2, <1>4, <2>3
<1> QED
  BY <1>2, <1>3, <1>4, <1>5, <1>6, <1>7 DEF RInv

\* The player has his answer, and the last reply stays as it is.
LEMMA AnsweredRInv ==
  ASSUME IInv, RInv, Answered
  PROVE  RInv'
<1>1. Types' /\ SpillKnown' /\ ask' = Idle /\ UNCHANGED sending
  BY RespondIInv DEF IInv, Answered, SpillKnown
<1> QED
  BY <1>1, SendingKept

\* What leaves the transfer alone leaves the reply alone.
LEMMA StutterRInv ==
  ASSUME IInv, RInv, UNCHANGED vars
  PROVE  RInv'
<1>1. Types' /\ UNCHANGED <<ask, spilled, sending>>
  BY StutterIInv DEF IInv, vars
<1>2. ask' # Idle => Asked' \in Queries
  BY <1>1 DEF RInv, Asked
<1>3. SpillKnown'
  BY <1>1 DEF RInv, SpillKnown, sending
<1> QED
  BY <1>1, <1>2, <1>3, SendingKept

\* Division, with the remainder named.
LEMMA Divides ==
  ASSUME NEW c \in Nat, c > 0, NEW m \in Nat, NEW r \in 0..(c - 1)
  PROVE  (c * m + r) \div c = m /\ (c * m + r) % c = r
<1> DEFINE x == c * m + r
           q == x \div c
           s == x % c
<1>1. x \in Nat /\ q \in Nat /\ s \in 0..(c - 1) /\ x = c * q + s
  OBVIOUS
<1> HIDE DEF x, q, s
<1>2. q = m
  <2>1. x = c * m + r
    BY DEF x
  <2>2. ASSUME q < m PROVE FALSE
    <3>1. c * (q + 1) <= c * m /\ c * (q + 1) = c * q + c /\ c * q \in Nat /\ c * m \in Nat
      BY <1>1, <2>2
    <3> QED
      BY <1>1, <2>1, <3>1
  <2>3. ASSUME m < q PROVE FALSE
    <3>1. c * (m + 1) <= c * q /\ c * (m + 1) = c * m + c /\ c * q \in Nat /\ c * m \in Nat
      BY <1>1, <2>3
    <3> QED
      BY <1>1, <2>1, <3>1
  <2> QED
    BY <1>1, <2>2, <2>3
<1>3. s = r
  BY <1>1, <1>2 DEF x
<1> QED
  BY <1>2, <1>3 DEF q, s, x

\* When nothing is left, the turns taken are those the reply needs.
LEMMA RInvCut == RInv => ReplyCut
<1> SUFFICES ASSUME RInv, left <= 0, reply # NoReply
             PROVE  /\ Len(chunks) = PacketsFor(reply.encoded)
                    /\ reply.encoded % Chunk # 0 => chunks[Len(chunks)] = reply.encoded % Chunk
                    /\ \A i \in 1..(Len(chunks) - 1) : chunks[i] >= Chunk
  BY DEF ReplyCut
<1> DEFINE m == Len(chunks)
           e == reply.encoded
<1>1. /\ m \in Nat /\ e \in Nat /\ e >= 24 /\ left \in Int /\ Chunk \in Nat /\ Chunk > 0
      /\ left = e - Chunk * m /\ left > -Chunk
      /\ left < 0 => chunks[m] = left + Chunk
      /\ \A i \in 1..(m - 1) : chunks[i] >= Chunk
  BY RankAssumption DEF RInv, ReplyTypes, CutAt
<1> HIDE DEF m, e
<1>2. Chunk * m \in Nat /\ e = Chunk * m + left
  <2>1. Chunk * m \in Nat
    BY <1>1
  <2> DEFINE a == Chunk * m
  <2>2. a \in Nat /\ left = e - a
    BY <1>1, <2>1
  <2> HIDE DEF a
  <2>3. e = a + left
    BY <1>1, <2>2
  <2> QED
    BY <2>1, <2>3 DEF a
<1>3. m = PacketsFor(e)
  <2> DEFINE r == left + Chunk - 1
  <2>1. r \in 0..(Chunk - 1)
    BY <1>1
  <2>2. e + Chunk - 1 = Chunk * m + r
    BY <1>1, <1>2
  <2> HIDE DEF r
  <2>3. (Chunk * m + r) \div Chunk = m
    BY <1>1, <2>1, Divides
  <2> QED
    BY <2>2, <2>3 DEF PacketsFor
<1>4. CASE left = 0
  <2>1. e = Chunk * m + 0 /\ 0 \in 0..(Chunk - 1)
    BY <1>1, <1>2, <1>4
  <2>2. (Chunk * m + 0) % Chunk = 0
    BY <1>1, <2>1, Divides
  <2> QED
    BY <1>1, <1>3, <2>1, <2>2 DEF m, e
<1>5. CASE left < 0
  <2> DEFINE r == left + Chunk
             k == m - 1
  <2>1. m # 0
    <3>1. m = 0 => Chunk * m = 0
      BY <1>1
    <3> QED
      BY <1>1, <1>2, <1>5, <3>1
  <2>2. k \in Nat /\ r \in 0..(Chunk - 1)
    BY <1>1, <1>5, <2>1
  <2>3. Chunk * m = Chunk * k + Chunk /\ Chunk * k \in Nat
    <3>1. m = k + 1
      BY <1>1
    <3> HIDE DEF k
    <3> QED
      BY <1>1, <2>2, <3>1
  <2>4. e = Chunk * k + r
    <3> HIDE DEF k
    <3> QED
      BY <1>1, <1>2, <2>3
  <2> HIDE DEF k, r
  <2>5. e % Chunk = r
    BY <1>1, <2>2, <2>4, Divides
  <2>6. chunks[m] = r
    BY <1>1, <1>5 DEF r
  <2> QED
    BY <1>1, <1>3, <2>5, <2>6 DEF m, e
<1> QED
  BY <1>1, <1>4, <1>5

\* What is printed fits.
LEMMA RInvFit == RInv => PacketsFit
<1> SUFFICES ASSUME RInv PROVE PacketsFit
  OBVIOUS
<1>1. TextExcess(packet) = 0
  BY SoundFits DEF RInv, ReplyTypes
<1>2. ask # Idle => Decoded(ask.size) < ask.size
  <2> SUFFICES ASSUME ask # Idle PROVE Decoded(ask.size) < ask.size
    OBVIOUS
  <2>1. Asked.size \in Nat \ {0} /\ Asked.size = ask.size
    BY RankAssumption DEF RInv, Asked
  <2> DEFINE n == ask.size
             q == n \div 4
  <2>2. n \in Nat /\ n > 0
    BY <2>1
  <2> HIDE DEF n
  <2>3. q \in Nat /\ 4 * q <= n
    BY <2>2
  <2>4. Decoded(n) = 3 * q
    BY DEF Decoded
  <2> HIDE DEF q
  <2>5. Decoded(n) < n
    BY <2>2, <2>3, <2>4
  <2> QED
    BY <2>5 DEF n
<1>3. reply # NoReply => /\ NumberExcess(ask.keys) <= (IF ask.keys < 20 THEN 1 ELSE 0)
                         /\ NumberExcess(reply.decoded) = 0 /\ NumberExcess(reply.encoded) = 0
  <2> SUFFICES ASSUME reply # NoReply
               PROVE  /\ NumberExcess(ask.keys) <= (IF ask.keys < 20 THEN 1 ELSE 0)
                      /\ NumberExcess(reply.decoded) = 0 /\ NumberExcess(reply.encoded) = 0
    OBVIOUS
  <2>1. /\ ask.keys \in Nat /\ reply.decoded \in Nat /\ reply.encoded \in Nat
        /\ reply.decoded >= 20 /\ reply.encoded >= 20
    BY DEF RInv, Types, ReplyTypes
  <2>2. NumberExcess(reply.decoded) = 0 /\ NumberExcess(reply.encoded) = 0
    BY <2>1, NumberFits
  <2>3. NumberExcess(ask.keys) <= 1 /\ (ask.keys >= 20 => NumberExcess(ask.keys) = 0)
    BY <2>1, NumberFits
  <2> QED
    BY <2>1, <2>2, <2>3
<1>4. ask # Idle => CopyExcess(Decoded(ask.size)) = 1
  <2>1. ask.size \in Nat /\ ask.size \div 4 \in Nat
    BY DEF RInv, Types
  <2>2. Decoded(ask.size) \in Nat
    BY <2>1 DEF Decoded
  <2> QED
    BY <2>2 DEF CopyExcess, Excess, Header
<1> QED
  BY <1>1, <1>2, <1>3, <1>4 DEF PacketsFit, RInv, SpillKnown

\* Both invariants hold over a stream.
LEMMA BothInv == ConnectionSpec => [](IInv /\ RInv)
<1>1. ConnectionInit => IInv /\ RInv
  BY InitIInv, InitRInv DEF ConnectionInit
<1>2. IInv /\ RInv /\ [ConnectionNext]_<<vars, input>> => (IInv /\ RInv)'
  <2> SUFFICES ASSUME IInv, RInv, [ConnectionNext]_<<vars, input>> PROVE IInv' /\ RInv'
    OBVIOUS
  <2>1. CASE Begin
    BY <2>1, QueryIInv, QueryRInv DEF Begin
  <2>2. CASE SendPiece
    BY <2>2, StutterIInv, StutterRInv DEF SendPiece
  <2>3. ASSUME NEW n, RecvHeader(n) \/ RecvData(n) PROVE IInv' /\ RInv'
    <3>1. UNCHANGED vars \/ Piece(got' - 1) \/ Mistaken(got' - 1)
      BY <2>3 DEF RecvHeader, RecvData
    <3> QED
      BY <3>1, StutterIInv, PieceIInv, MistakenIInv, StutterRInv, PieceRInv, MistakenRInv
  <2>4. CASE Recv
    BY <2>3, <2>4 DEF Recv
  <2>5. CASE Respond
    BY <2>5, RespondIInv, SendRInv, AnsweredRInv DEF Respond
  <2>6. CASE UNCHANGED <<vars, input>>
    BY <2>6, StutterIInv, StutterRInv
  <2> QED
    BY <2>1, <2>2, <2>4, <2>5, <2>6 DEF ConnectionNext
<1> QED
  BY <1>1, <1>2, PTL DEF ConnectionSpec

\* ReplyCut, for every size of chunk and of reply: the loop takes as many turns as
\* the reply needs, and the last one sends what is left over.
THEOREM RepliesCut == ConnectionSpec => []ReplyCut
  BY BothInv, RInvCut, PTL

\* PacketsFit, for every query: the block GetData allocates holds the text it
\* prints, b64_decode stays in its block, and only a count of keys below 20 is
\* printed past its block.  Numbers are not bounded here as an int is.
THEOREM TextsFit == ConnectionSpec => []PacketsFit
  BY BothInv, RInvFit, PTL

(***************************************************************************)
(* Reading it from the stream.                                             *)
(***************************************************************************)
\* The characters of a query in one packet.
Span == [from : Nat, upto : Nat]

InputTypes ==
  /\ given \in Nat /\ off \in Nat /\ want \in Nat /\ got \in Nat
  /\ stage \in {"header", "data"}
  /\ flight \in Seq(Span) /\ \A i \in 1..Len(flight) : flight[i].from < flight[i].upto

\* Reading has stopped inside the header or the data of the first packet under way.
InStep ==
  /\ want > 0
  /\ stage = "header" => off + want = Header
  /\ stage = "data" => /\ flight # <<>> /\ off = Header + got
                       /\ off + want = PacketLength(Head(flight))
  /\ flight = <<>> => off = 0

\* The packets under way are the pieces of the query that have not arrived.
Consecutive ==
  /\ ask = Idle => flight = <<>>
  /\ ask # Idle =>
       /\ given <= ask.size
       /\ flight = <<>> => ask.sent = given
       /\ flight # <<>> => Head(flight).from = ask.sent /\ flight[Len(flight)].upto = given
       /\ \A i \in 2..Len(flight) : flight[i].from = flight[i - 1].upto
       /\ \A i, j \in 1..Len(flight) : i < j => flight[i].upto <= flight[j].from

SInv == IInv /\ InputTypes /\ InStep /\ Consecutive

\* Every packet under way has characters in it.
LEMMA FlightType ==
  ASSUME InputTypes
  PROVE  /\ Len(flight) \in Nat
         /\ \A i \in 1..Len(flight) : /\ flight[i].from \in Nat /\ flight[i].upto \in Nat
                                      /\ flight[i].from < flight[i].upto
<1> SUFFICES ASSUME NEW i \in 1..Len(flight)
             PROVE  /\ flight[i].from \in Nat /\ flight[i].upto \in Nat
                    /\ flight[i].from < flight[i].upto
  BY DEF InputTypes
<1>1. flight[i] \in Span
  BY DEF InputTypes
<1> QED
  BY <1>1 DEF InputTypes, Span

\* Nothing is under way at first.
LEMMA InitSInv == ConnectionInit => SInv
<1> SUFFICES ASSUME ConnectionInit PROVE SInv
  OBVIOUS
<1>1. IInv
  BY InitIInv DEF ConnectionInit
<1>2. InputTypes /\ InStep /\ Consecutive
  BY DEF ConnectionInit, Init, InputTypes, InStep, Consecutive, Header
<1> QED
  BY <1>1, <1>2 DEF SInv

\* A query begins with nothing under way.
LEMMA BeginSInv == SInv /\ Begin => SInv'
<1> SUFFICES ASSUME SInv, Begin PROVE SInv'
  OBVIOUS
<1>1. PICK q \in Queries : Query(q)
  BY DEF Begin
<1>2. IInv'
  BY <1>1, QueryIInv DEF SInv
<1>3. ask = Idle /\ ask'.sent = 0 /\ ask'.size \in Nat \ {0} /\ given' = 0
      /\ UNCHANGED <<flight, off, stage, want, got>>
  BY <1>1, RankAssumption DEF Begin, Query
<1>4. ask' # Idle
  BY <1>3 DEF Idle
<1>5. InputTypes' /\ InStep' /\ Consecutive'
  BY <1>3, <1>4 DEF SInv, InputTypes, InStep, Consecutive
<1> QED
  BY <1>2, <1>5 DEF SInv

\* What the player sends follows on what he sent last.
LEMMA SendSInv == SInv /\ SendPiece => SInv'
<1> SUFFICES ASSUME SInv, SendPiece PROVE SInv'
  OBVIOUS
<1>1. IInv' /\ ask # Idle /\ UNCHANGED <<ask, off, stage, want, got>>
  BY StutterIInv DEF SInv, SendPiece, vars
<1>2. PICK d \in 1..(ask.size - given) : given' = given + d /\ flight' = Append(flight, [from |-> given, upto |-> given'])
  BY DEF SendPiece
<1>3. ask.size \in Nat /\ given \in Nat /\ d \in Nat /\ d > 0 /\ given' <= ask.size /\ given' \in Nat
  BY <1>2 DEF SInv, IInv, Types, InputTypes
<1> DEFINE x == [from |-> given, upto |-> given']
<1>4. /\ x \in Span /\ x.from = given /\ x.upto = given'
  BY <1>3 DEF Span, SInv, InputTypes
<1> HIDE DEF x
<1>5. /\ flight' \in Seq(Span) /\ Len(flight') = Len(flight) + 1 /\ flight' # <<>>
      /\ \A i \in 1..Len(flight) : flight'[i] = flight[i]
      /\ flight'[Len(flight')] = x
      /\ Head(flight') = IF flight = <<>> THEN x ELSE Head(flight)
  BY <1>2, <1>4 DEF SInv, InputTypes, x
<1>6. Len(flight) \in Nat /\ (flight = <<>> <=> Len(flight) = 0)
  BY DEF SInv, InputTypes
<1>7. InputTypes'
  BY <1>1, <1>3, <1>4, <1>5, <1>6, <1>2 DEF SInv, InputTypes
<1>8. InStep'
  BY <1>1, <1>3, <1>4, <1>5, <1>6 DEF SInv, InputTypes, InStep, PacketLength, Header
<1>9. Consecutive'
  <2> DEFINE last == Len(flight)
  <2>1. /\ flight = <<>> => ask.sent = given
        /\ flight # <<>> => Head(flight).from = ask.sent /\ flight[last].upto = given
        /\ \A i \in 2..last : flight[i].from = flight[i - 1].upto
        /\ \A i, j \in 1..last : i < j => flight[i].upto <= flight[j].from
    BY <1>1 DEF SInv, Consecutive
  <2>2. \A i \in 1..last : /\ flight[i].from \in Nat /\ flight[i].upto \in Nat
                           /\ flight[i].from < flight[i].upto
    BY FlightType DEF SInv
  <2> HIDE DEF last
  <2>3. last \in Nat /\ Len(flight') = last + 1 /\ (flight # <<>> => last \in 1..last)
    BY <1>5, <1>6 DEF last
  <2>4. flight'[last + 1] = x /\ \A i \in 1..last : flight'[i] = flight[i]
    BY <1>5, <2>3 DEF last
  <2>5. \A i \in 1..last : flight[i].upto <= given
    BY <1>3, <1>6, <2>1, <2>2, <2>3 DEF last
  <2>6. \A i, j \in 1..(last + 1) : i < j => flight'[i].upto <= flight'[j].from
    <3> SUFFICES ASSUME NEW i \in 1..(last + 1), NEW j \in 1..(last + 1), i < j
                 PROVE  flight'[i].upto <= flight'[j].from
      OBVIOUS
    <3>1. i \in 1..last /\ flight'[i] = flight[i]
      BY <2>3, <2>4
    <3>2. CASE j = last + 1
      BY <1>4, <2>4, <2>5, <3>1, <3>2
    <3>3. CASE j # last + 1
      <4>1. j \in 1..last
        BY <2>3, <3>3
      <4> QED
        BY <2>1, <2>4, <3>1, <4>1
    <3> QED
      BY <3>2, <3>3
  <2>7. \A i \in 2..(last + 1) : flight'[i].from = flight'[i - 1].upto
    <3> SUFFICES ASSUME NEW i \in 2..(last + 1) PROVE flight'[i].from = flight'[i - 1].upto
      OBVIOUS
    <3>1. i - 1 \in 1..last /\ flight'[i - 1] = flight[i - 1]
      BY <2>3, <2>4
    <3>2. CASE i = last + 1
      <4>1. flight # <<>> /\ i - 1 = last
        BY <1>6, <2>3, <3>1, <3>2 DEF last
      <4> QED
        BY <1>4, <2>1, <2>4, <3>1, <3>2, <4>1
    <3>3. CASE i # last + 1
      <4>1. i \in 2..last /\ i \in 1..last
        BY <2>3, <3>3
      <4> QED
        BY <2>1, <2>4, <3>1, <4>1
    <3> QED
      BY <3>2, <3>3
  <2>8. Head(flight').from = ask.sent /\ flight'[Len(flight')].upto = given'
    BY <1>4, <1>5, <2>1
  <2> QED
    BY <1>1, <1>3, <1>5, <2>3, <2>6, <2>7, <2>8 DEF Consecutive
<1> QED
  BY <1>1, <1>7, <1>8, <1>9 DEF SInv

\* recv does not read past the packet it is in: the header ends before any data.
LEMMA ReadSInv ==
  ASSUME SInv, NEW n \in 1..PacketLength(Head(flight)), flight # <<>>,
         n <= want, off + n <= PacketLength(Head(flight)), Read(n)
  PROVE  /\ stage = "header" =>
              off' = off + n /\ flight' = flight /\ given' = given /\ (want = n => off + n = Header)
         /\ stage = "data" => (want = n <=> off + n = PacketLength(Head(flight)))
         /\ stage = "data" /\ want = n => off' = 0 /\ flight' = Tail(flight) /\ given' = given
         /\ stage = "data" /\ want # n => off' = off + n /\ flight' = flight /\ given' = given
<1>1. /\ Head(flight).from \in Nat /\ Head(flight).upto \in Nat /\ Head(flight).from < Head(flight).upto
      /\ PacketLength(Head(flight)) \in Nat /\ PacketLength(Head(flight)) > Header + 1
  <2>1. 1 \in 1..Len(flight) /\ Head(flight) = flight[1] /\ flight[1] \in Span
    BY DEF SInv, InputTypes
  <2> QED
    BY <2>1 DEF SInv, InputTypes, Span, PacketLength, Header
<1> QED
  BY <1>1 DEF SInv, InputTypes, InStep, Read, Header

\* The header tells the length of the packet it is in.
LEMMA HeaderSInv ==
  ASSUME SInv, flight # <<>>, NEW n \in 1..PacketLength(Head(flight)),
         n <= want, off + n <= PacketLength(Head(flight)), Read(n), RecvHeader(n)
  PROVE  SInv'
<1>1. /\ stage = "header" /\ UNCHANGED vars /\ UNCHANGED <<flight, given>> /\ off' = off + n
      /\ want = n => off + n = Header
  BY ReadSInv DEF RecvHeader
<1>2. IInv' /\ UNCHANGED <<ask>>
  BY <1>1, StutterIInv DEF SInv, vars
<1>3. /\ Head(flight).from \in Nat /\ Head(flight).upto \in Nat /\ Head(flight).from < Head(flight).upto
  <2>1. 1 \in 1..Len(flight) /\ Head(flight) = flight[1] /\ flight[1] \in Span
    BY DEF SInv, InputTypes
  <2> QED
    BY <2>1 DEF SInv, InputTypes, Span
<1>4. n \in Nat /\ n > 0
  BY <1>3 DEF PacketLength, Header
<1>5. CASE Rest(n) > 0
  BY <1>1, <1>2, <1>4, <1>5 DEF RecvHeader, Rest, SInv, InputTypes, InStep, Consecutive, Header
<1>6. CASE Rest(n) = 0
  <2>1. stage' = "data" /\ want' = PacketLength(Head(flight)) - Header /\ got' = 0 /\ off + n = Header
    BY <1>1, <1>4, <1>6 DEF RecvHeader, Rest, Length, SInv, InputTypes
  <2> QED
    BY <1>1, <1>2, <1>3, <1>4, <2>1 DEF SInv, InputTypes, InStep, Consecutive, Header, PacketLength
<1> QED
  BY <1>5, <1>6 DEF RecvHeader

\* The last byte of a packet hands its characters on.
LEMMA DataSInv ==
  ASSUME SInv, flight # <<>>, NEW n \in 1..PacketLength(Head(flight)),
         n <= want, off + n <= PacketLength(Head(flight)), Read(n), RecvData(n)
  PROVE  SInv'
<1> DEFINE first == Head(flight)
<1>1. /\ first.from \in Nat /\ first.upto \in Nat /\ first.from < first.upto
      /\ Len(flight) \in Nat /\ Len(flight) > 0 /\ first = flight[1]
  <2>1. 1 \in 1..Len(flight) /\ Head(flight) = flight[1] /\ flight[1] \in Span /\ Len(flight) \in Nat
    BY DEF SInv, InputTypes
  <2> QED
    BY <2>1 DEF SInv, InputTypes, Span
<1>2. n \in Nat /\ n > 0 /\ stage = "data" /\ got' = got + n
  BY <1>1 DEF PacketLength, Header, RecvData
<1>3. CASE Rest(n) > 0
  <2>1. UNCHANGED vars /\ UNCHANGED <<flight, given>> /\ off' = off + n /\ want' = want - n /\ stage' = stage
    BY <1>2, <1>3, ReadSInv DEF RecvData, Rest, SInv, InputTypes
  <2>2. IInv' /\ UNCHANGED <<ask>>
    BY <2>1, StutterIInv DEF SInv, vars
  <2>3. want' \in Nat /\ want' > 0 /\ got' \in Nat /\ off' \in Nat
    BY <1>2, <1>3, <2>1 DEF Rest, SInv, InputTypes
  <2>4. InputTypes'
    BY <2>1, <2>3 DEF SInv, InputTypes
  <2>5. InStep'
    BY <1>2, <2>1, <2>3 DEF SInv, InputTypes, InStep, Header
  <2>6. Consecutive'
    BY <2>1, <2>2 DEF SInv, Consecutive
  <2> QED
    BY <2>2, <2>4, <2>5, <2>6 DEF SInv
<1>4. CASE Rest(n) = 0
  <2>1. /\ want = n /\ off + n = PacketLength(first)
        /\ off' = 0 /\ flight' = Tail(flight) /\ given' = given
        /\ stage' = "header" /\ want' = Header
        /\ Piece(got' - 1) \/ Mistaken(got' - 1)
    BY <1>2, <1>4, ReadSInv DEF RecvData, Rest, SInv, InputTypes
  <2>2. got' - 1 = first.upto - first.from /\ got' \in Nat
    <3>1. off = 12 + got /\ off \in Nat /\ got \in Nat
      BY <1>2 DEF SInv, InputTypes, InStep, Header
    <3>2. off + n = 12 + (first.upto - first.from) + 1
      BY <2>1 DEF PacketLength, Header
    <3> HIDE DEF first
    <3> QED
      BY <1>1, <1>2, <3>1, <3>2
  <2>3. IInv'
    BY <2>1, PieceIInv, MistakenIInv DEF SInv
  <2>4. ask # Idle /\ ask.sent = first.from /\ ask.sent \in Nat /\ ask.size \in Nat
    BY DEF SInv, IInv, Types, Consecutive
  <2>5. ask'.sent = first.upto /\ ask'.size = ask.size
    BY <1>1, <2>1, <2>2, <2>4, SMTT(30) DEF Piece, Mistaken, Arrives, SInv, IInv, Types
  <2>6. ask' # Idle
    BY <1>1, <2>5 DEF Idle
  <2>7. /\ flight' \in Seq(Span) /\ Len(flight') = Len(flight) - 1
        /\ \A i \in 1..Len(flight') : flight'[i] = flight[i + 1]
        /\ flight' # <<>> => Head(flight') = flight[2] /\ Len(flight) >= 2
    BY <1>1, <2>1 DEF SInv, InputTypes
  <2>8. InputTypes'
    BY <1>1, <2>1, <2>2, <2>7 DEF SInv, InputTypes, Header
  <2>9. InStep'
    BY <2>1 DEF InStep, Header
  <2>10. Consecutive'
    <3>1. /\ given <= ask.size /\ flight[Len(flight)].upto = given
          /\ \A i \in 2..Len(flight) : flight[i].from = flight[i - 1].upto
          /\ \A i, j \in 1..Len(flight) : i < j => flight[i].upto <= flight[j].from
      BY <2>4 DEF SInv, Consecutive
    <3>2. CASE flight' = <<>>
      <4>1. Len(flight') = 0 /\ Len(flight) = 1
        BY <1>1, <2>7, <3>2
      <4>2. ask'.sent = given' /\ given' <= ask'.size
        BY <1>1, <2>1, <2>5, <3>1, <4>1
      <4> QED
        BY <2>6, <3>2, <4>1, <4>2 DEF Consecutive
    <3>3. CASE flight' # <<>>
      <4>1. flight[2].from = flight[1].upto /\ flight'[Len(flight')] = flight[Len(flight)]
        BY <1>1, <2>7, <3>1, <3>3
      <4>2. ASSUME NEW i \in 2..Len(flight') PROVE flight'[i].from = flight'[i - 1].upto
        <5>1. /\ i \in 1..Len(flight') /\ i - 1 \in 1..Len(flight') /\ (i - 1) + 1 = i
              /\ i + 1 \in 2..Len(flight) /\ (i + 1) - 1 = i
          BY <1>1, <2>7
        <5>2. flight'[i] = flight[i + 1] /\ flight'[i - 1] = flight[i]
          BY <2>7, <5>1
        <5>3. flight[i + 1].from = flight[(i + 1) - 1].upto
          BY <3>1, <5>1
        <5> QED
          BY <5>1, <5>2, <5>3
      <4>3. ASSUME NEW i \in 1..Len(flight'), NEW j \in 1..Len(flight'), i < j
            PROVE  flight'[i].upto <= flight'[j].from
        <5>1. i + 1 \in 1..Len(flight) /\ j + 1 \in 1..Len(flight) /\ i + 1 < j + 1
          BY <1>1, <2>7, <4>3
        <5>2. flight'[i] = flight[i + 1] /\ flight'[j] = flight[j + 1]
          BY <2>7
        <5> QED
          BY <3>1, <5>1, <5>2
      <4>4. Head(flight').from = ask'.sent /\ flight'[Len(flight')].upto = given'
        BY <1>1, <2>1, <2>5, <2>7, <3>1, <3>3, <4>1
      <4>5. given' <= ask'.size
        BY <2>1, <2>5, <3>1
      <4>6. \A i \in 2..Len(flight') : flight'[i].from = flight'[i - 1].upto
        BY <4>2, Zenon
      <4>7. \A i, j \in 1..Len(flight') : i < j => flight'[i].upto <= flight'[j].from
        BY <4>3, Zenon
      <4> QED
        <5>1. ask' = Idle => flight' = <<>>
          BY <2>6
        <5>2. flight' = <<>> => ask'.sent = given'
          BY <3>3
        <5> QED
          BY <5>1, <5>2, <4>4, <4>5, <4>6, <4>7, Zenon DEF Consecutive
    <3> QED
      BY <3>2, <3>3
  <2> QED
    BY <2>3, <2>8, <2>9, <2>10 DEF SInv
<1> QED
  BY <1>3, <1>4 DEF RecvData

\* Replies leave the reader where it is; the next query waits for an empty stream.
LEMMA RespondSInv == SInv /\ Respond => SInv'
<1> SUFFICES ASSUME SInv, Respond PROVE SInv'
  OBVIOUS
<1>1. IInv' /\ UNCHANGED input
  BY RespondIInv DEF SInv, Respond
<1>2. CASE SendChunk
  <2>1. UNCHANGED ask
    BY <1>2 DEF SendChunk, Cut, Turn
  <2> QED
    BY <1>1, <2>1 DEF input, SInv, InputTypes, InStep, Consecutive
<1>3. CASE Answered
  <2>1. ask # Idle /\ ask.sent = ask.size /\ ask' = Idle
    BY <1>3 DEF Answered
  <2>2. flight = <<>>
    <3> SUFFICES ASSUME flight # <<>> PROVE FALSE
      OBVIOUS
    <3> DEFINE last == Len(flight)
    <3>1. last \in Nat /\ last > 0 /\ Head(flight) = flight[1] /\ flight \in Seq(Span)
      BY DEF SInv, InputTypes
    <3>2. 1 \in 1..last /\ last \in 1..last /\ ask.size \in Nat
      BY <3>1 DEF SInv, IInv, Types
    <3>3. \A i \in 1..last : /\ flight[i].from \in Nat /\ flight[i].upto \in Nat
                             /\ flight[i].from < flight[i].upto
      BY FlightType DEF SInv
    <3>4. /\ flight[1].from = ask.size /\ flight[last].upto <= ask.size
          /\ 1 < last => flight[1].upto <= flight[last].from
      BY <2>1, <3>1, <3>2 DEF SInv, Consecutive
    <3> HIDE DEF last
    <3> QED
      BY <3>1, <3>2, <3>3, <3>4
  <2> QED
    BY <1>1, <2>1, <2>2 DEF input, SInv, InputTypes, InStep, Consecutive
<1> QED
  BY <1>2, <1>3 DEF Respond

\* Every step keeps reader and sender together.
LEMMA NextSInv == SInv /\ [ConnectionNext]_<<vars, input>> => SInv'
<1>1. ASSUME SInv, UNCHANGED <<vars, input>> PROVE SInv'
  <2>1. IInv'
    BY <1>1, StutterIInv DEF SInv
  <2> QED
    BY <1>1, <2>1 DEF vars, input, SInv, InputTypes, InStep, Consecutive
<1> QED
  BY <1>1, BeginSInv, SendSInv, HeaderSInv, DataSInv, RespondSInv DEF ConnectionNext, Recv

\* StreamKept: however recv cuts the stream, the reader starts a packet where the
\* player started one, and what is under way follows on what has been handed on.
THEOREM StreamInOrder == ConnectionSpec => []StreamKept
<1>1. SInv => StreamKept
  BY DEF SInv, InputTypes, InStep, Consecutive, StreamKept, Header, PacketLength
<1> QED
  BY <1>1, InitSInv, NextSInv, PTL DEF ConnectionSpec
=============================================================================
