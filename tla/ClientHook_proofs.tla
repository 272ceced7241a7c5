-------------------------- MODULE ClientHook_proofs --------------------------
(***************************************************************************)
(* Proofs about ClientHook, for any code and any pattern.                  *)
(***************************************************************************)
EXTENDS ClientHook, WellFoundedInduction, TLAPS

Last == Len(Pattern)

\* The pattern is a row of bytes with a last one.
LEMMA PatternType == Last \in Nat /\ Last > 0 /\ \A j \in 1..Last : Pattern[j] \in Bytes
<1>1. Pattern \in Seq(Bytes) /\ Pattern # <<>>
  BY CodeAssumption
<1> QED
  BY <1>1 DEF Last

(***************************************************************************)
(* FindPattern.                                                            *)
(***************************************************************************)
\* A set of numbers that is not empty has a least one.
LEMMA Least ==
  ASSUME NEW S, S \subseteq Nat, S # {}
  PROVE  \E m \in S : \A n \in S : m <= n
<1> DEFINE Lt == OpToRel(<, Nat)
<1>1. \A m, n \in Nat : <<m, n>> \in Lt <=> m < n
  BY DEF OpToRel
<1>2. IsWellFoundedOn(Lt, Nat)
  BY NatLessThanWellFounded, Zenon
<1> HIDE DEF Lt
<1>3. PICK m \in S : \A n \in S : <<n, m>> \notin Lt
  BY <1>2, WFMin, Zenon
<1>4. ASSUME NEW n \in S PROVE m <= n
  <2>1. m \in Nat /\ n \in Nat /\ ~(n < m)
    BY <1>1, <1>3
  <2> QED
    BY <2>1
<1> QED
  BY <1>4

\* Induction over the numbers, for a set in place of a predicate.
LEMMA Induct ==
  ASSUME NEW S, 0 \in S, \A n \in Nat : n \in S => n + 1 \in S
  PROVE  Nat \subseteq S
<1> SUFFICES ASSUME Nat \ S # {} PROVE FALSE
  OBVIOUS
<1>1. PICK m \in Nat \ S : \A n \in Nat \ S : m <= n
  BY Least
<1>2. m # 0 /\ m - 1 \in Nat /\ m - 1 \in S
  BY <1>1
<1> QED
  BY <1>1, <1>2

Start == [i |-> 0, at |-> Nowhere]

\* There is a scan of every text: one of its first n bytes can go on with the next.
LEMMA ScanDef ==
  ASSUME NEW text \in Seq(Bytes)
  PROVE  /\ Scan(text)[0] = Start
         /\ \A k \in 1..Len(text) : Scan(text)[k] = Match(Scan(text)[k - 1], k, text[k])
<1> DEFINE Goes(f, k) == IF k = 0 THEN Start ELSE Match(f[k - 1], k, text[k])
           Scanned == {n \in Nat : \E f : f = [k \in 0..n |-> Goes(f, k)]}
<1>1. Len(text) \in Nat
  OBVIOUS
<1>2. 0 \in Scanned
  <2> DEFINE f == [k \in 0..0 |-> Start]
  <2>1. f = [k \in 0..0 |-> Goes(f, k)]
    OBVIOUS
  <2> QED
    BY <2>1
<1>3. ASSUME NEW n \in Nat, n \in Scanned PROVE n + 1 \in Scanned
  <2>1. PICK f : f = [k \in 0..n |-> Goes(f, k)]
    BY <1>3
  <2> DEFINE g == [k \in 0..(n + 1) |-> IF k = n + 1 THEN Match(f[n], n + 1, text[n + 1]) ELSE f[k]]
  <2>2. ASSUME NEW k \in 0..(n + 1) PROVE g[k] = Goes(g, k)
    <3>1. CASE k = n + 1
      <4>1. g[k] = Match(f[n], k, text[k]) /\ g[k - 1] = f[n] /\ k # 0
        BY <3>1
      <4> QED
        BY <4>1
    <3>2. CASE k \in 0..n
      <4>1. g[k] = f[k] /\ (k # 0 => g[k - 1] = f[k - 1]) /\ f[k] = Goes(f, k)
        BY <2>1, <3>2
      <4> HIDE DEF g
      <4> QED
        BY <4>1
    <3> QED
      BY <3>1, <3>2
  <2>3. g = [k \in 0..(n + 1) |-> g[k]]
    OBVIOUS
  <2> HIDE DEF g
  <2>4. g = [k \in 0..(n + 1) |-> Goes(g, k)]
    BY <2>2, <2>3
  <2> QED
    BY <2>4, SMTT(30)
<1> HIDE DEF Scanned
<1>4. Len(text) \in Scanned
  BY <1>1, <1>2, <1>3, Induct
<1>5. \E f : f = [k \in 0..Len(text) |-> IF k = 0 THEN [i |-> 0, at |-> Nowhere] ELSE Match(f[k - 1], k, text[k])]
  BY <1>4 DEF Scanned, Start
<1> DEFINE S == Scan(text)
<1>6. S = [k \in 0..Len(text) |-> IF k = 0 THEN Start ELSE Match(S[k - 1], k, text[k])]
  BY <1>5, Zenon DEF Scan, Start
<1> HIDE DEF S
<1>7. \A k \in 0..Len(text) : S[k] = IF k = 0 THEN Start ELSE Match(S[k - 1], k, text[k])
  BY <1>6, Zenon
<1>8. 0 \in 0..Len(text) /\ \A k \in 1..Len(text) : k \in 0..Len(text) /\ k # 0
  BY <1>1
<1>9. S[0] = Start /\ \A k \in 1..Len(text) : S[k] = Match(S[k - 1], k, text[k])
  BY <1>7, <1>8, Zenon
<1> QED
  BY <1>9 DEF S

\* A scan s of the first k bytes of a text: the last bytes match the beginning of
\* the pattern, or the place that has been found all of it.
Matched(text, k, s) ==
  /\ s \in [i : 0..(Last - 1), at : Nat]
  /\ s.at = Nowhere => s.i <= k /\ \A j \in 1..s.i : text[k - s.i + j] = Pattern[j]
  /\ s.at # Nowhere => s.at + Last - 1 <= k /\ \A j \in 1..Last : text[s.at + j - 1] = Pattern[j]

\* The next byte leads from one such scan to another.
LEMMA MatchMatched ==
  ASSUME NEW text \in Seq(Bytes), NEW k \in Nat, k + 1 <= Len(text), NEW s, Matched(text, k, s)
  PROVE  Matched(text, k + 1, Match(s, k + 1, text[k + 1]))
<1> DEFINE b == text[k + 1]
           t == Match(s, k + 1, b)
<1>1. /\ Last \in Nat /\ Last > 0
      /\ s \in [i : 0..(Last - 1), at : Nat] /\ s.i \in 0..(Last - 1) /\ s.at \in Nat
  BY PatternType DEF Matched
<1>2. CASE s.at # Nowhere
  <2>1. t = s
    BY <1>2 DEF Match
  <2> QED
    BY <1>1, <1>2, <2>1 DEF Matched
<1>3. CASE s.at = Nowhere /\ b # Pattern[s.i + 1]
  <2>1. t = [s EXCEPT !.i = 0]
    BY <1>3 DEF Match
  <2>2. t.i = 0 /\ t.at = Nowhere /\ t \in [i : 0..(Last - 1), at : Nat]
    BY <1>1, <1>3, <2>1
  <2> HIDE DEF t
  <2>3. Matched(text, k + 1, t)
    BY <1>1, <2>2 DEF Matched
  <2> QED
    BY <2>3 DEF t
<1>4. CASE s.at = Nowhere /\ b = Pattern[s.i + 1] /\ s.i + 1 = Last
  <2> DEFINE e == (k + 1) - s.i
  <2>1. t = [s EXCEPT !.at = e]
    BY <1>4, Zenon DEF Match, Last
  <2>2. s.i <= k /\ \A j \in 1..s.i : text[k - s.i + j] = Pattern[j]
    BY <1>4 DEF Matched
  <2>3. t.at = (k + 1) - s.i /\ t.at # Nowhere /\ t \in [i : 0..(Last - 1), at : Nat] /\ t.at + Last - 1 <= k + 1
    <3>1. e \in Nat /\ e # 0 /\ e + Last - 1 <= k + 1
      BY <1>1, <1>4, <2>2
    <3>2. t.at = e /\ t \in [i : 0..(Last - 1), at : Nat]
      <4> HIDE DEF e, t
      <4> QED
        BY <1>1, <2>1, <3>1
    <3> HIDE DEF t
    <3>3. t.at = (k + 1) - s.i
      BY <3>2, Zenon
    <3> HIDE DEF e
    <3>4. t.at # Nowhere /\ t.at + Last - 1 <= k + 1
      BY <3>1, <3>2 DEF Nowhere
    <3> QED
      BY <3>2, <3>3, <3>4
  <2>4. \A j \in 1..Last : text[t.at + j - 1] = Pattern[j]
    <3> SUFFICES ASSUME NEW j \in 1..Last PROVE text[((k + 1) - s.i) + j - 1] = Pattern[j]
      BY <2>3
    <3>1. CASE j = Last
      <4>1. ((k + 1) - s.i) + j - 1 = k + 1
        BY <1>1, <1>4, <3>1
      <4> QED
        BY <1>4, <3>1, <4>1
    <3>2. CASE j \in 1..s.i
      <4>1. ((k + 1) - s.i) + j - 1 = k - s.i + j
        BY <1>1, <3>2
      <4> QED
        BY <2>2, <3>2, <4>1
    <3> QED
      BY <1>1, <1>4, <3>1, <3>2
  <2> HIDE DEF t
  <2>5. Matched(text, k + 1, t)
    BY <2>3, <2>4 DEF Matched
  <2> QED
    BY <2>5 DEF t
<1>5. CASE s.at = Nowhere /\ b = Pattern[s.i + 1] /\ s.i + 1 # Last
  <2>1. t = [s EXCEPT !.i = s.i + 1]
    BY <1>5 DEF Match, Last
  <2>2. s.i <= k /\ \A j \in 1..s.i : text[k - s.i + j] = Pattern[j]
    BY <1>5 DEF Matched
  <2>3. t.i = s.i + 1 /\ t.at = Nowhere /\ t \in [i : 0..(Last - 1), at : Nat] /\ t.i <= k + 1
    BY <1>1, <1>5, <2>1, <2>2
  <2>4. \A j \in 1..t.i : text[(k + 1) - t.i + j] = Pattern[j]
    <3> SUFFICES ASSUME NEW j \in 1..(s.i + 1) PROVE text[(k + 1) - (s.i + 1) + j] = Pattern[j]
      BY <2>3
    <3>1. (k + 1) - (s.i + 1) + j = k - s.i + j
      BY <1>1
    <3>2. CASE j = s.i + 1
      <4>1. k - s.i + j = k + 1
        BY <1>1, <3>2
      <4> QED
        BY <1>5, <3>1, <3>2, <4>1
    <3>3. CASE j \in 1..s.i
      BY <2>2, <3>1, <3>3
    <3> QED
      BY <1>1, <3>2, <3>3
  <2> HIDE DEF t
  <2>5. Matched(text, k + 1, t)
    BY <2>3, <2>4 DEF Matched
  <2> QED
    BY <2>5 DEF t
<1> QED
  BY <1>2, <1>3, <1>4, <1>5

\* So it is after every byte.
LEMMA ScanMatched ==
  ASSUME NEW text \in Seq(Bytes), NEW k \in 0..Len(text)
  PROVE  Matched(text, k, Scan(text)[k])
<1> DEFINE S == Scan(text)
           Good == {n \in Nat : n <= Len(text) => Matched(text, n, S[n])}
<1>1. S[0] = Start /\ \A n \in 1..Len(text) : S[n] = Match(S[n - 1], n, text[n])
  BY ScanDef
<1> HIDE DEF S
<1>2. 0 \in Good
  BY <1>1, PatternType DEF Matched, Start, Nowhere
<1>3. ASSUME NEW n \in Nat, n \in Good PROVE n + 1 \in Good
  <2> SUFFICES ASSUME n + 1 <= Len(text) PROVE Matched(text, n + 1, S[n + 1])
    OBVIOUS
  <2>1. S[n + 1] = Match(S[n], n + 1, text[n + 1])
    <3>1. n + 1 \in 1..Len(text) /\ (n + 1) - 1 = n
      OBVIOUS
    <3> QED
      BY <1>1, <3>1
  <2>2. Matched(text, n, S[n])
    BY <1>3
  <2> QED
    BY <2>1, <2>2, MatchMatched
<1> HIDE DEF Good
<1>4. k \in Good
  BY <1>2, <1>3, Induct
<1> QED
  BY <1>4 DEF Good, S

\* What has been found stays.
LEMMA FoundStays ==
  ASSUME NEW text \in Seq(Bytes), NEW k \in 0..Len(text), Scan(text)[k].at # Nowhere
  PROVE  FindPattern(text) = Scan(text)[k].at
<1> DEFINE S == Scan(text)
           Good == {n \in Nat : k <= n /\ n <= Len(text) => S[n] = S[k]}
<1>1. \A n \in 1..Len(text) : S[n] = Match(S[n - 1], n, text[n])
  BY ScanDef
<1>2. S[k].at # Nowhere
  OBVIOUS
<1> HIDE DEF S
<1>3. 0 \in Good
  OBVIOUS
<1>4. ASSUME NEW n \in Nat, n \in Good PROVE n + 1 \in Good
  <2> SUFFICES ASSUME k <= n, n + 1 <= Len(text) PROVE S[n + 1] = S[k]
    OBVIOUS
  <2>1. S[n + 1] = Match(S[n], n + 1, text[n + 1])
    <3>1. n + 1 \in 1..Len(text) /\ (n + 1) - 1 = n
      OBVIOUS
    <3> QED
      BY <1>1, <3>1
  <2>2. S[n] = S[k]
    BY <1>4
  <2> QED
    BY <1>2, <2>1, <2>2 DEF Match
<1> HIDE DEF Good
<1>5. Len(text) \in Good
  BY <1>3, <1>4, Induct
<1> QED
  BY <1>5 DEF Good, S, FindPattern

\* A match that is looked for from its first byte is found.
LEMMA FoundFrom ==
  ASSUME NEW text \in Seq(Bytes), NEW k \in 1..Len(text), k + Last - 1 <= Len(text),
         \A j \in 1..Last : text[k + j - 1] = Pattern[j], Scan(text)[k - 1] = Start
  PROVE  FindPattern(text) = k
<1> DEFINE S == Scan(text)
           Good == {n \in Nat : n < Last => S[k - 1 + n] = [i |-> n, at |-> Nowhere]}
<1>1. \A n \in 1..Len(text) : S[n] = Match(S[n - 1], n, text[n])
  BY ScanDef
<1>2. S[k - 1] = Start
  OBVIOUS
<1>3. Last \in Nat /\ Last > 0
  BY PatternType
<1> HIDE DEF S
<1>4. 0 \in Good
  <2>1. k - 1 + 0 = k - 1
    OBVIOUS
  <2> QED
    BY <1>2, <2>1 DEF Start
<1>5. \A n \in Nat : n < Last => /\ S[k + n] = Match(S[k - 1 + n], k + n, Pattern[n + 1])
  <2> SUFFICES ASSUME NEW n \in Nat, n < Last PROVE S[k + n] = Match(S[k - 1 + n], k + n, Pattern[n + 1])
    OBVIOUS
  <2>1. k + n \in 1..Len(text) /\ (k + n) - 1 = k - 1 + n /\ n + 1 \in 1..Last /\ k + (n + 1) - 1 = k + n
    BY <1>3
  <2>2. text[k + n] = Pattern[n + 1]
    BY <2>1
  <2> QED
    BY <1>1, <2>1, <2>2
<1>6. ASSUME NEW n \in Nat, n \in Good PROVE n + 1 \in Good
  <2> SUFFICES ASSUME n + 1 < Last PROVE S[k - 1 + (n + 1)] = [i |-> n + 1, at |-> Nowhere]
    OBVIOUS
  <2>1. S[k - 1 + n] = [i |-> n, at |-> Nowhere] /\ k - 1 + (n + 1) = k + n /\ n < Last
    BY <1>3, <1>6
  <2>2. S[k + n] = Match([i |-> n, at |-> Nowhere], k + n, Pattern[n + 1])
    BY <1>5, <2>1
  <2>3. n + 1 # Len(Pattern)
    BY <1>3 DEF Last
  <2> QED
    BY <2>1, <2>2, <2>3 DEF Match
<1> HIDE DEF Good
<1>7. Last - 1 \in Good /\ Last - 1 \in Nat
  BY <1>3, <1>4, <1>6, Induct
<1> DEFINE m == Last - 1
<1>8. /\ m \in Nat /\ m < Last /\ m + 1 = Last /\ (k + m) - m = k /\ k + m \in 0..Len(text)
      /\ S[k - 1 + m] = [i |-> m, at |-> Nowhere]
  BY <1>3, <1>7 DEF Good
<1> HIDE DEF m
<1>9. S[k + m] = Match([i |-> m, at |-> Nowhere], k + m, Pattern[m + 1])
  BY <1>5, <1>8
<1>10. S[k + m].at = k
  BY <1>8, <1>9 DEF Match, Last
<1>11. S[k + m].at # Nowhere
  BY <1>10 DEF Nowhere
<1> QED
  BY <1>8, <1>10, <1>11, FoundStays DEF S

\* Two parts of sequences are the same if their bytes are.
LEMMA SamePart ==
  ASSUME NEW s \in Seq(Bytes), NEW t \in Seq(Bytes), NEW m \in Nat, NEW n \in Nat, NEW l \in Nat,
         m + l <= Len(s), n + l <= Len(t)
  PROVE  SubSeq(s, m + 1, m + l) = SubSeq(t, n + 1, n + l) <=> \A j \in 1..l : s[m + j] = t[n + j]
<1> DEFINE a == SubSeq(s, m + 1, m + l)
           b == SubSeq(t, n + 1, n + l)
<1>1. /\ a \in Seq(Bytes) /\ Len(a) = l /\ \A j \in 1..l : a[j] = s[m + j]
  OBVIOUS
<1>2. /\ b \in Seq(Bytes) /\ Len(b) = l /\ \A j \in 1..l : b[j] = t[n + j]
  OBVIOUS
<1> HIDE DEF a, b
<1>3. a = b <=> \A j \in 1..l : a[j] = b[j]
  BY <1>1, <1>2
<1>4. (\A j \in 1..l : a[j] = b[j]) <=> (\A j \in 1..l : s[m + j] = t[n + j])
  BY <1>1, <1>2
<1> QED
  BY <1>3, <1>4 DEF a, b

\* The code is a row of bytes.
LEMMA CodeType ==
  ASSUME code \in [1..CodeSize -> Bytes]
  PROVE  code \in Seq(Bytes) /\ Len(code) = CodeSize /\ CodeSize \in Nat
  BY CodeAssumption

\* A place has the pattern when its bytes are those of the pattern.
LEMMA AtBytes ==
  ASSUME code \in [1..CodeSize -> Bytes], NEW k \in Nat
  PROVE  At(k) <=> /\ 1 <= k /\ k + Last - 1 <= CodeSize
                   /\ \A j \in 1..Last : code[k + j - 1] = Pattern[j]
<1>1. /\ code \in Seq(Bytes) /\ Len(code) = CodeSize /\ CodeSize \in Nat
      /\ Pattern \in Seq(Bytes) /\ Len(Pattern) = Last /\ Last \in Nat /\ Last > 0
  BY CodeType, CodeAssumption, PatternType DEF Last
<1>2. k \in 1..(CodeSize - Len(Pattern) + 1) <=> 1 <= k /\ k + Last - 1 <= CodeSize
  BY <1>1
<1>3. ASSUME 1 <= k, k + Last - 1 <= CodeSize
      PROVE  SubSeq(code, k, k + Len(Pattern) - 1) = Pattern <=> \A j \in 1..Last : code[k + j - 1] = Pattern[j]
  <2> DEFINE m == k - 1
  <2>1. m \in Nat /\ m + 1 = k /\ m + Last = k + Last - 1 /\ m + Last <= Len(code) /\ 0 + Last <= Len(Pattern)
    BY <1>1, <1>3
  <2>2. \A j \in 1..Last : m + j = k + j - 1 /\ 0 + j = j
    BY <1>1
  <2>3. SubSeq(Pattern, 0 + 1, 0 + Last) = Pattern
    BY <1>1
  <2> HIDE DEF m
  <2>4. SubSeq(code, m + 1, m + Last) = SubSeq(Pattern, 0 + 1, 0 + Last)
          <=> \A j \in 1..Last : code[m + j] = Pattern[0 + j]
    BY <1>1, <2>1, SamePart
  <2> QED
    BY <1>1, <2>1, <2>2, <2>3, <2>4
<1> QED
  BY <1>2, <1>3 DEF At

\* FindPattern finds a place that has the pattern, or one before it, or an
\* unfinished match hides the place.
LEMMA HiddenOrFound ==
  ASSUME code \in [1..CodeSize -> Bytes], NEW k \in Nat, At(k)
  PROVE  \/ FindPattern(code) # Nowhere /\ FindPattern(code) <= k
         \/ \E l \in 1..(Last - 1) : l < k /\ SubSeq(code, k - l, k - 1) = SubSeq(Pattern, 1, l)
<1> DEFINE S == Scan(code)
           s == S[k - 1]
<1>1. /\ code \in Seq(Bytes) /\ Len(code) = CodeSize /\ CodeSize \in Nat
      /\ Pattern \in Seq(Bytes) /\ Len(Pattern) = Last /\ Last \in Nat /\ Last > 0
  BY CodeType, CodeAssumption, PatternType DEF Last
<1>2. 1 <= k /\ k + Last - 1 <= CodeSize /\ \A j \in 1..Last : code[k + j - 1] = Pattern[j]
  BY AtBytes
<1>3. k - 1 \in 0..Len(code)
  BY <1>1, <1>2
<1>4. Matched(code, k - 1, s)
  BY <1>1, <1>3, ScanMatched
<1>5. CASE s.at # Nowhere
  <2>1. FindPattern(code) = s.at
    BY <1>1, <1>3, <1>5, FoundStays
  <2>2. s.at \in Nat /\ s.at + Last - 1 <= k - 1
    BY <1>4, <1>5 DEF Matched
  <2> HIDE DEF s
  <2> QED
    BY <1>1, <1>5, <2>1, <2>2
<1>6. CASE s.at = Nowhere /\ s.i = 0
  <2>1. s = Start
    BY <1>4, <1>6 DEF Matched, Start
  <2>2. k \in 1..Len(code) /\ k + Last - 1 <= Len(code)
    BY <1>1, <1>2
  <2>3. FindPattern(code) = k
    BY <1>1, <1>2, <2>1, <2>2, FoundFrom
  <2> QED
    BY <1>2, <2>3 DEF Nowhere
<1>7. CASE s.at = Nowhere /\ s.i # 0
  <2> DEFINE l == s.i
             m == (k - 1) - l
  <2>1. l \in 1..(Last - 1) /\ l <= k - 1 /\ \A j \in 1..l : code[((k - 1) - l) + j] = Pattern[j]
    BY <1>1, <1>4, <1>7 DEF Matched
  <2> HIDE DEF l
  <2>2. /\ m \in Nat /\ l \in Nat /\ m + l <= Len(code) /\ 0 + l <= Len(Pattern) /\ 0 \in Nat
        /\ m + 1 = k - l /\ m + l = k - 1 /\ 0 + 1 = 1 /\ 0 + l = l
    BY <1>1, <1>2, <2>1
  <2>3. \A j \in 1..l : code[m + j] = Pattern[0 + j]
    BY <2>1
  <2> HIDE DEF m
  <2>4. SubSeq(code, m + 1, m + l) = SubSeq(Pattern, 0 + 1, 0 + l)
    BY <1>1, <2>2, <2>3, SamePart
  <2> QED
    BY <1>2, <2>1, <2>2, <2>4
<1> QED
  BY <1>5, <1>6, <1>7

\* FindPattern finds a place that no unfinished match hides, or one before it,
\* wherever in the code it is.
THEOREM UnhiddenFound ==
  ASSUME code \in [1..CodeSize -> Bytes], NEW k \in Nat, At(k),
         \A l \in 1..(Last - 1) : l < k => SubSeq(code, k - l, k - 1) # SubSeq(Pattern, 1, l)
  PROVE  FindPattern(code) # Nowhere /\ FindPattern(code) <= k
BY HiddenOrFound

\* What it finds has the whole pattern, and the places before that are hidden.
LEMMA FindPatternFinds ==
  ASSUME code \in [1..CodeSize -> Bytes], FindPattern(code) # Nowhere
  PROVE  /\ FindPattern(code) \in Nat /\ At(FindPattern(code))
         /\ \A k \in 1..(FindPattern(code) - 1) :
              At(k) => \E l \in 1..(Last - 1) : l < k /\ SubSeq(code, k - l, k - 1) = SubSeq(Pattern, 1, l)
<1> DEFINE p == FindPattern(code)
<1>1. code \in Seq(Bytes) /\ Len(code) = CodeSize /\ CodeSize \in Nat /\ Last \in Nat /\ Last > 0
  BY CodeType, PatternType
<1>2. Matched(code, CodeSize, Scan(code)[CodeSize]) /\ p = Scan(code)[CodeSize].at
  BY <1>1, ScanMatched DEF FindPattern
<1>3. p \in Nat /\ p # Nowhere /\ p + Last - 1 <= CodeSize /\ \A j \in 1..Last : code[p + j - 1] = Pattern[j]
  BY <1>2 DEF Matched
<1> HIDE DEF p
<1>4. At(p)
  BY <1>3, AtBytes DEF Nowhere
<1>5. ASSUME NEW k \in 1..(p - 1), At(k)
      PROVE  \E l \in 1..(Last - 1) : l < k /\ SubSeq(code, k - l, k - 1) = SubSeq(Pattern, 1, l)
  <2>1. k \in Nat /\ ~(p <= k)
    BY <1>3
  <2> QED
    BY <1>5, <2>1, HiddenOrFound DEF p
<1> QED
  BY <1>3, <1>4, <1>5 DEF p

(***************************************************************************)
(* The two threads.                                                        *)
(***************************************************************************)
\* The first thread comes by Main_DoInit once: the jump is gone when it has been
\* there.
OnceInit ==
  /\ main \in {"attach", "wrap", "entry", "doInit", "box", "restore", "running", "ended"}
  /\ ep \in {"program", "jump"} /\ (main = "attach" => ep = "program")
  /\ main # "attach" => originalCode = "program"
  /\ main \in {"attach", "wrap", "doInit", "box"} \/ (main = "entry" /\ ep = "jump") => thread = "none"
  /\ main = "running" => ep = "program"

\* What InitHooks has done where it is.
HooksDone ==
  /\ thread \in {"none", "modules", "search", "patch", "names", "packets", "done"}
  /\ thread \in {"names", "packets", "done"} => patched = 2
  /\ "gethostbyname" \in hooked => thread \in {"packets", "done"}
  /\ resolved = "emulator" => "gethostbyname" \in hooked
  /\ place # Nowhere => place = FindPattern(code)

HInv == code \in [1..CodeSize -> Bytes] /\ OnceInit /\ HooksDone

\* Nothing has been hooked at first.
LEMMA InitHInv == Init => HInv
  BY DEF Init, HInv, OnceInit, HooksDone, Nowhere

\* The steps of the first thread.
LEMMA LoaderHInv == HInv /\ (Loader \/ Dismiss) => HInv'
<1> SUFFICES ASSUME HInv, Loader \/ Dismiss PROVE HInv'
  OBVIOUS
<1> USE DEF HInv, OnceInit, HooksDone
<1>1. CASE Main_SetSafeInit
  BY <1>1 DEF Main_SetSafeInit, hooks, game
<1>2. CASE WrapperInit
  BY <1>2 DEF WrapperInit, hooks, game
<1>3. CASE EntryPoint
  BY <1>3 DEF EntryPoint, hooks, game
<1>4. CASE CheckVersion
  BY <1>4 DEF CheckVersion, hooks, game
<1>5. CASE Dismiss
  BY <1>5 DEF Dismiss, hooks, game
<1>6. CASE Restore
  BY <1>6 DEF Restore, hooks, game
<1> QED
  BY <1>1, <1>2, <1>3, <1>4, <1>5, <1>6 DEF Loader

\* The steps of the thread that sets the hooks.
LEMMA InitHooksHInv == HInv /\ InitHooks => HInv'
<1> SUFFICES ASSUME HInv, InitHooks PROVE HInv'
  OBVIOUS
<1> USE DEF HInv, OnceInit, HooksDone
<1>1. CASE WaitModules
  BY <1>1 DEF WaitModules, hooks, game
<1>2. CASE Search
  BY <1>2 DEF Search, game
<1>3. CASE Patch
  BY <1>3 DEF Patch, game
<1>4. CASE HookNames
  BY <1>4 DEF HookNames, game
<1>5. CASE HookPackets
  BY <1>5 DEF HookPackets, game
<1> QED
  BY <1>1, <1>2, <1>3, <1>4, <1>5 DEF InitHooks

\* The program loads its libraries, decrypts itself and looks a name up.
LEMMA ProgramHInv == HInv /\ Program => HInv'
<1> SUFFICES ASSUME HInv, Program PROVE HInv'
  OBVIOUS
<1> USE DEF HInv, OnceInit, HooksDone
<1>1. ASSUME NEW m \in Modules, Load(m) PROVE HInv'
  BY <1>1 DEF Load, hooks
<1>2. CASE Decrypt
  BY <1>2 DEF Decrypt, hooks
<1>3. CASE Resolve
  BY <1>3 DEF Resolve, hooks
<1> QED
  BY <1>1, <1>2, <1>3 DEF Program

\* So the two threads are always where the other is known to be.
LEMMA InvariantHInv == Spec => []HInv
<1>1. HInv /\ UNCHANGED vars => HInv'
  BY DEF vars, hooks, game, HInv, OnceInit, HooksDone
<1>2. HInv /\ [Next]_vars => HInv'
  BY <1>1, LoaderHInv, InitHooksHInv, ProgramHInv DEF Next
<1> QED
  BY <1>2, InitHInv, PTL DEF Spec

\* RedirectedPatched: the detour is set by the thread after both bytes, so no
\* look-up is led to the emulator before the check of certificates is out.
THEOREM PatchedBeforeRedirected == Spec => []RedirectedPatched
<1>1. HInv => RedirectedPatched
  BY DEF HInv, HooksDone, RedirectedPatched
<1> QED
  BY <1>1, InvariantHInv, PTL

\* PatchedInPlace, for every code and pattern: what is changed is a place that has
\* the whole pattern, and every earlier one is hidden by an unfinished match.
THEOREM PatchedWhereFound == Spec => []PatchedInPlace
<1>1. HInv => PatchedInPlace
  BY FindPatternFinds DEF HInv, HooksDone, PatchedInPlace, Last
<1> QED
  BY <1>1, InvariantHInv, PTL
=============================================================================
