-------------------------- MODULE SendBuffer_proofs --------------------------
(***************************************************************************)
(* Proofs about SendBuffer for any threads and packets.  What a call puts  *)
(* into the shared block step by step is its own when it comes to send it, *)
(* provided no other call was under way meanwhile, whatever state earlier  *)
(* calls left the block in; the numbers are right whatever overlaps, since *)
(* the counter belongs to the socket.                                      *)
(***************************************************************************)
EXTENDS SendBuffer, TLAPS

Blocks == [cap : Nat, type : Packets \cup {None}, type2 : [top : Nat, low : Nat], slen : Nat,
           body : [Cells -> Packets \cup {"junk", "nul", "printed"}]]

Types ==
  /\ pc \in [Threads -> {"idle", "grow", "realloc", "assign", "type", "count",
                         "type2", "slen", "data", "send"}]
  /\ pkt \in [Threads -> Packets \cup {None}]
  /\ len \in [Threads -> 0..(MaxText + 1)]
  /\ type2 \in [Threads -> [top : Nat, low : Nat]]
  /\ counter \in [Threads -> Nat]
  /\ taken \in [Threads -> Nat]
  /\ buffsz \in Nat
  /\ buff \in Blocks
  /\ fresh \in [Threads -> Blocks]
  /\ DOMAIN wire = Threads
  /\ met \in [Threads -> BOOLEAN]
  /\ mixed \in BOOLEAN
  /\ \A t \in Threads : pc[t] # "idle" => pkt[t] \in Packets /\ len[t] \in Prints(pkt[t])

\* A counted packet is a step ahead of the frames sent from the time it has
\* taken its number.
Numbered ==
  \A t \in Threads :
    IF pc[t] \in {"type2", "slen", "data", "send"} /\ Counted(pkt[t])
      THEN counter[t] = taken[t] + 1 /\ type2[t] = WithNumber(128, counter[t])
      ELSE counter[t] = taken[t] /\ (pc[t] # "idle" => type2[t] = Type2(Top(pkt[t]), 0))

\* The history of calls under way at once is that of the program counters.
Alone ==
  /\ \A t \in Threads : pc[t] # "idle" /\ ~met[t] => \A u \in Threads \ {t} : pc[u] = "idle"
  /\ ~mixed => \A t \in Threads : ~met[t]

\* The size kept in buffsz is that of the block, or will be once the call under
\* way has stored its new one, and is enough for the call.
Sized ==
  ~mixed =>
    /\ (\A t \in Threads : pc[t] \notin {"realloc", "assign"}) => buff.cap = buffsz
    /\ \A t \in Threads :
         /\ pc[t] \in {"realloc", "assign"} => buffsz = Slen(t)
         /\ pc[t] = "assign" => fresh[t].cap = Slen(t)
         /\ pc[t] \in {"type", "count", "type2", "slen", "data", "send"} => Slen(t) <= buffsz

\* What a call has put into the block is still there if nobody else was.
BuiltBy(t) ==
  /\ pc[t] \in {"count", "type2", "slen", "data", "send"} => buff.type = pkt[t]
  /\ pc[t] \in {"slen", "data", "send"} => buff.type2 = type2[t]
  /\ pc[t] \in {"data", "send"} => buff.slen = Slen(t)
  /\ pc[t] = "send" =>
       \A i \in 1..len[t] : buff.body[i] = IF i = len[t] THEN "nul" ELSE Printed(pkt[t])

Built == \A t \in Threads : pc[t] # "idle" /\ ~met[t] => BuiltBy(t)

IInv == /\ Types /\ Numbered /\ Alone /\ Sized /\ Built
        /\ FrameIntact /\ FaultCause /\ NumbersInOrder

\* What a call works with fits the cells of a body.
LEMMA CallTypes ==
  ASSUME Types, NEW t \in Threads, pc[t] # "idle"
  PROVE  /\ pkt[t] \in Packets /\ Size(pkt[t]) \in Nat /\ len[t] \in Nat /\ len[t] <= MaxText + 1
         /\ Slen(t) \in Nat /\ Slen(t) >= 12 /\ MaxText \in Nat
         /\ Plain(pkt[t]) => len[t] = Size(pkt[t]) + 1
  BY FrameAssumption DEF Types, Slen

\* A number is cut into the lower bytes and what is above them.
LEMMA NumberTypes ==
  ASSUME NEW a \in Nat
  PROVE  WithNumber(128, a) \in [top : Nat, low : Nat]
<1>1. Numbers \in Nat /\ Numbers > 0
  BY FrameAssumption
<1>2. a % Numbers \in Nat
  BY <1>1
<1>3. a \div Numbers \in Nat
  BY <1>1
<1> QED
  BY <1>2, <1>3 DEF WithNumber, Type2

LEMMA InitIInv == Init => IInv
<1> SUFFICES ASSUME Init PROVE IInv
  OBVIOUS
<1>1. NoBlock \in Blocks
  BY DEF NoBlock, Blocks, Type2
<1>2. Types
  <2>1. mixed \in BOOLEAN /\ met \in [Threads -> BOOLEAN]
    BY Zenon DEF Init
  <2>2. len \in [Threads -> 0..(MaxText + 1)]
    BY FrameAssumption DEF Init
  <2> QED
    BY <1>1, <2>1, <2>2 DEF Init, Types, Type2
<1>3. Numbered /\ Alone /\ Built /\ FrameIntact /\ FaultCause /\ NumbersInOrder
  BY DEF Init, Numbered, Alone, Built, FrameIntact, FaultCause, NumbersInOrder
<1>4. Sized
  BY DEF Init, Sized, NoBlock
<1> QED
  BY <1>2, <1>3, <1>4 DEF IInv

\* A call that goes a step without having met another has the block to itself,
\* and any other call under way has met it.
LEMMA Others ==
  ASSUME IInv, Overlaps, NEW t \in Threads, NEW from, NEW to, Step(t, from, to),
         from # "idle" \/ to # "idle"
  PROVE  /\ \A u \in Threads \ {t} : pc'[u] = pc[u] /\ (pc[u] # "idle" => met'[u])
         /\ to # "idle" /\ ~met'[t] => ~met[t] /\ \A u \in Threads \ {t} : pc[u] = "idle"
         /\ from # "idle" /\ ~met[t] => \A u \in Threads \ {t} : pc[u] = "idle"
         /\ ~mixed' => ~mixed /\ ~met[t] /\ \A u \in Threads \ {t} : pc[u] = "idle"
         /\ pc'[t] = to
<1>1. pc[t] = from /\ pc'[t] = to /\ \A u \in Threads \ {t} : pc'[u] = pc[u]
  BY DEF IInv, Types, Step
<1>2. \A u \in Threads :
        met'[u] <=> pc'[u] # "idle" /\ (met[u] \/ \E v \in Threads \ {u} : pc'[v] # "idle")
  BY DEF Overlaps
<1>3. \A u \in Threads \ {t} : pc[u] # "idle" => met'[u]
  BY <1>1, <1>2 DEF IInv, Alone
<1>4. to # "idle" /\ ~met'[t] => ~met[t] /\ \A u \in Threads \ {t} : pc[u] = "idle"
  BY <1>1, <1>2
<1>5. from # "idle" /\ ~met[t] => \A u \in Threads \ {t} : pc[u] = "idle"
  BY <1>1 DEF IInv, Alone
<1>6. ~mixed' => ~mixed /\ ~met'[t]
  BY DEF Overlaps
<1>7. ~mixed' => ~met[t]
  BY <1>6 DEF IInv, Alone
<1> QED
  BY <1>1, <1>3, <1>4, <1>5, <1>6, <1>7

\* Whatever the step, calls that overlap are recorded.
LEMMA AloneKept == IInv /\ Overlaps => Alone' /\ mixed' \in BOOLEAN /\ met' \in [Threads -> BOOLEAN]
<1> SUFFICES ASSUME IInv, Overlaps PROVE Alone' /\ mixed' \in BOOLEAN /\ met' \in [Threads -> BOOLEAN]
  OBVIOUS
<1>1. mixed' \in BOOLEAN /\ met' \in [Threads -> BOOLEAN]
  BY Zenon DEF Overlaps
<1>2. \A t \in Threads :
        met'[t] <=> pc'[t] # "idle" /\ (met[t] \/ \E u \in Threads \ {t} : pc'[u] # "idle")
  BY DEF Overlaps
<1>3. ~mixed' => \A t \in Threads : ~met'[t]
  BY DEF Overlaps
<1> QED
  BY <1>1, <1>2, <1>3 DEF Alone

\* Nothing is sent: frames and numbers stay.
LEMMA Unsent ==
  ASSUME IInv, UNCHANGED <<wire, taken>>
  PROVE  FrameIntact' /\ NumbersInOrder'
  BY DEF IInv, FrameIntact, NumbersInOrder

\* A call begins: only a text of Base characters, or one with a %, is written
\* past its block.
LEMMA FormatIInv ==
  ASSUME IInv, ~fault, Overlaps, NEW t \in Threads, NEW p \in Packets, Format(t, p)
  PROVE  IInv'
<1> USE DEF IInv, Types
<1>1. PICK n \in Prints(p) : /\ len' = [len EXCEPT ![t] = n]
                             /\ fault' = (n > Block(p)) \/ (~Plain(p) /\ fault' = TRUE)
  BY DEF Format
<1>2. /\ pc' = [pc EXCEPT ![t] = "grow"] /\ pkt' = [pkt EXCEPT ![t] = p] /\ pc[t] = "idle"
      /\ type2' = [type2 EXCEPT ![t] = Type2(Top(p), 0)] /\ Step(t, "idle", "grow")
      /\ UNCHANGED <<counter, buffsz, buff, fresh, wire, taken>>
  BY DEF Format, Step
<1>3. n \in 0..(MaxText + 1) /\ Type2(Top(p), 0) \in [top : Nat, low : Nat]
  BY FrameAssumption DEF Type2
<1>4. Types'
  BY <1>1, <1>2, <1>3, AloneKept
<1>5. Numbered'
  BY <1>1, <1>2 DEF Numbered
<1>6. Built'
  BY <1>2, Others DEF Built, BuiltBy
<1>7. ASSUME ~mixed' PROVE Sized' /\ FaultCause'
  <2>1. ~mixed /\ \A u \in Threads \ {t} : pc[u] = "idle" /\ pc'[u] = "idle"
    BY <1>2, <1>7, Others
  <2>2. Sized'
    BY <1>2, <2>1 DEF Sized
  <2>3. FaultCause'
    <3>1. Size(p) \in Nat /\ Base \in Nat /\ Slack \in Nat /\ Slack >= 1 /\ p # None
      BY FrameAssumption
    <3>2. Plain(p) => n = Size(p) + 1
      BY FrameAssumption
    <3>3. ASSUME Plain(p), n > Block(p) PROVE Size(p) = Base
      <4>1. n = Size(p) + 1
        BY <3>2, <3>3
      <4>2. CASE Size(p) > Base
        <5>1. Block(p) = Size(p) + Slack
          BY <4>2 DEF Block
        <5> QED
          BY <3>1, <3>3, <4>1, <5>1
      <4>3. CASE ~(Size(p) > Base)
        <5>1. Block(p) = Base
          BY <4>3 DEF Block
        <5>2. Size(p) <= Base
          BY <3>1, <4>3
        <5>3. Base < Size(p) + 1
          BY <3>3, <4>1, <5>1, <3>1
        <5>4. \A a, b \in Nat : a <= b /\ b < a + 1 => a = b
          OBVIOUS
        <5> QED
          BY <3>1, <5>2, <5>3, <5>4
      <4> QED
        BY <4>2, <4>3
    <3>4. fault' /\ Plain(p) => Size(p) = Base
      BY <1>1, <3>3
    <3> QED
      BY <1>2, <3>1, <3>4 DEF FaultCause
  <2> QED
    BY <2>2, <2>3
<1> QED
  BY <1>2, <1>4, <1>5, <1>6, <1>7, AloneKept, Unsent DEF Sized, FaultCause

\* The block is made large enough.
LEMMA GrowIInv ==
  ASSUME IInv, ~fault, Overlaps, NEW t \in Threads, Grow(t) \/ Realloc(t) \/ Assign(t)
  PROVE  IInv'
<1> USE DEF IInv, Types
<1>1. PICK from \in {"grow", "realloc", "assign"}, to \in {"realloc", "assign", "type"} : Step(t, from, to)
  BY DEF Grow, Realloc, Assign
<1>2. UNCHANGED <<pkt, len, type2, counter, wire, taken>>
  BY DEF Grow, Realloc, Assign
<1>3. Slen(t) \in Nat /\ Slen(t)' = Slen(t) /\ Slen(t) >= 12
  BY <1>1, <1>2, CallTypes DEF Slen, Step
<1>4. Types' /\ Numbered'
  <2>1. buffsz' \in Nat /\ buff' \in Blocks /\ fresh' \in [Threads -> Blocks]
    <3>1. NoBlock \in Blocks /\ [buff EXCEPT !.cap = Slen(t)] \in Blocks
      BY <1>3 DEF NoBlock, Blocks, Type2
    <3>2. CASE Grow(t)
      BY <1>3, <3>2 DEF Grow
    <3>3. CASE Realloc(t)
      BY <3>1, <3>3 DEF Realloc
    <3>4. CASE Assign(t)
      BY <3>1, <3>4 DEF Assign
    <3> QED
      BY <3>2, <3>3, <3>4
  <2>2. Types'
    BY <1>1, <1>2, <2>1, AloneKept DEF Step
  <2>3. Numbered'
    BY <1>1, <1>2 DEF Step, Numbered
  <2> QED
    BY <2>2, <2>3
<1>5. Built'
  <2>1. \A u \in Threads \ {t} : pc'[u] # "idle" => met'[u]
    BY <1>1, Others
  <2>2. BuiltBy(t)'
    BY <1>1, Others DEF BuiltBy
  <2> QED
    BY <2>1, <2>2 DEF Built
<1>6. ASSUME ~mixed' PROVE Sized' /\ FaultCause'
  <2>1. ~mixed /\ ~Dangling(t) /\ \A u \in Threads \ {t} : pc[u] = "idle" /\ pc'[u] = "idle"
    BY <1>1, <1>6, Others DEF Dangling
  <2>2. FaultCause'
    BY <2>1, <1>2 DEF Grow, Realloc, Assign, FaultCause
  <2>3. Sized'
    <3>1. CASE Grow(t)
      BY <1>3, <2>1, <3>1 DEF Grow, Step, Sized
    <3>2. CASE Realloc(t)
      <4>1. fresh'[t].cap = Slen(t)
        BY <3>2 DEF Realloc, Blocks
      <4> QED
        BY <1>3, <2>1, <3>2, <4>1 DEF Realloc, Step, Sized
    <3>3. CASE Assign(t)
      BY <1>3, <2>1, <3>3 DEF Assign, Step, Sized
    <3> QED
      BY <3>1, <3>2, <3>3
  <2> QED
    BY <2>2, <2>3
<1> QED
  BY <1>2, <1>4, <1>5, <1>6, AloneKept, Unsent DEF Sized, FaultCause

\* A packet that is counted takes the next number of its socket.
LEMMA CountIInv ==
  ASSUME IInv, ~fault, Overlaps, NEW t \in Threads, Count(t)
  PROVE  IInv'
<1> USE DEF IInv, Types
<1>1. /\ Step(t, "count", "type2") /\ pc[t] = "count" /\ pc' = [pc EXCEPT ![t] = "type2"]
      /\ UNCHANGED <<pkt, len, buffsz, buff, fresh, wire, fault, taken>>
  BY DEF Count, Step
<1>2. counter[t] = taken[t] /\ type2[t] = Type2(Top(pkt[t]), 0) /\ pkt[t] \in Packets
  BY <1>1 DEF Numbered
<1>3. ASSUME Counted(pkt[t]) PROVE Types' /\ Numbered'
  <2>1. type2[t].low = 0 /\ type2[t].top = 128
    BY <1>2, <1>3 DEF Type2, Counted
  <2>2. /\ counter' = [counter EXCEPT ![t] = @ + 1]
        /\ type2' = [type2 EXCEPT ![t] = WithNumber(128, counter[t] + 1)]
    BY <1>3, <2>1 DEF Count
  <2>3. WithNumber(128, counter[t] + 1) \in [top : Nat, low : Nat]
    BY NumberTypes
  <2>4. Types'
    BY <1>1, <2>2, <2>3, AloneKept
  <2>5. Numbered'
    BY <1>1, <1>2, <1>3, <2>2 DEF Numbered
  <2> QED
    BY <2>4, <2>5
<1>4. ASSUME ~Counted(pkt[t]) PROVE Types' /\ Numbered'
  <2>1. UNCHANGED <<counter, type2>>
    BY <1>4 DEF Count
  <2>2. Types'
    BY <1>1, <2>1, AloneKept
  <2>3. Numbered'
    BY <1>1, <1>4, <2>1 DEF Numbered
  <2> QED
    BY <2>2, <2>3
<1>5. Types' /\ Numbered'
  BY <1>3, <1>4
<1>6. Built'
  BY <1>1, Others DEF Built, BuiltBy
<1>7. ASSUME ~mixed' PROVE Sized'
  BY <1>1, <1>7, Others DEF Sized, Slen
<1>8. FaultCause'
  BY <1>1 DEF FaultCause
<1> QED
  BY <1>1, <1>5, <1>6, <1>7, <1>8, AloneKept, Unsent DEF Sized

\* What is put into the block fits it.
LEMMA PutFits ==
  ASSUME IInv, ~fault, Overlaps, NEW t \in Threads, NEW from, NEW to, Step(t, from, to),
         from \in {"type", "type2", "slen", "data", "send"}, ~mixed'
  PROVE  Slen(t) \in Nat /\ 12 <= Slen(t) /\ Slen(t) <= buff.cap
<1>1. ~mixed /\ \A u \in Threads \ {t} : pc[u] = "idle"
  BY Others
<1>2. buff.cap = buffsz /\ Slen(t) <= buffsz
  BY <1>1 DEF IInv, Types, Sized, Step
<1> QED
  BY <1>2, CallTypes DEF IInv, Step

LEMMA PutIInv ==
  ASSUME IInv, ~fault, Overlaps, NEW t \in Threads,
         PutType(t) \/ PutType2(t) \/ PutSlen(t) \/ PutData(t)
  PROVE  IInv'
<1> USE DEF IInv, Types
<1>1. PICK from \in {"type", "type2", "slen", "data"}, to \in {"count", "slen", "data", "send"} :
        Step(t, from, to)
  BY DEF PutType, PutType2, PutSlen, PutData
<1>2. UNCHANGED <<pkt, len, type2, counter, buffsz, fresh, wire, taken>>
  BY DEF PutType, PutType2, PutSlen, PutData
<1>3. /\ pkt[t] \in Packets /\ len[t] \in Nat /\ len[t] <= MaxText + 1 /\ MaxText \in Nat
      /\ Slen(t) \in Nat /\ Slen(t)' = Slen(t)
  BY <1>1, <1>2, CallTypes DEF Step, Slen
<1>4. Text(pkt[t], len[t], buff.body) \in [Cells -> Packets \cup {"junk", "nul", "printed"}]
  BY <1>3 DEF Blocks, Text, Printed
<1>5. /\ buff' \in Blocks /\ buff'.cap = buff.cap
      /\ PutType(t) => buff'.type = pkt[t]
      /\ PutType2(t) => buff'.type2 = type2[t] /\ buff'.type = buff.type
      /\ PutSlen(t) => buff'.slen = Slen(t) /\ buff'.type = buff.type /\ buff'.type2 = buff.type2
      /\ PutData(t) => /\ buff'.body = Text(pkt[t], len[t], buff.body)
                       /\ buff'.type = buff.type /\ buff'.type2 = buff.type2 /\ buff'.slen = buff.slen
  BY <1>3, <1>4 DEF PutType, PutType2, PutSlen, PutData, Put, Blocks
<1>6. Types'
  BY <1>1, <1>2, <1>5, AloneKept DEF PutType, PutType2, PutSlen, PutData, Step
<1>7. Numbered'
  BY <1>1, <1>2 DEF PutType, PutType2, PutSlen, PutData, Step, Numbered
<1>8. Built'
  <2>1. \A u \in Threads \ {t} : pc'[u] # "idle" => met'[u]
    BY <1>1, Others
  <2>2. ASSUME ~met'[t] PROVE BuiltBy(t)'
    <3>1. ~met[t] /\ BuiltBy(t)
      BY <1>1, <2>2, Others DEF Built, Step
    <3>2. ASSUME PutData(t), NEW i \in 1..len[t]
          PROVE  buff'.body[i] = IF i = len[t] THEN "nul" ELSE Printed(pkt[t])
      <4>1. i \in Cells
        BY <1>3 DEF Cells
      <4>2. buff'.body[i] = IF i < len[t] THEN Printed(pkt[t])
                            ELSE IF i = len[t] THEN "nul" ELSE buff.body[i]
        BY <1>5, <3>2, <4>1 DEF Text
      <4> QED
        BY <1>3, <4>2
    <3> QED
      BY <1>2, <1>3, <1>5, <3>1, <3>2 DEF PutType, PutType2, PutSlen, PutData, Step, BuiltBy, Printed
  <2> QED
    BY <2>1, <2>2 DEF Built
<1>9. ASSUME ~mixed' PROVE Sized' /\ FaultCause'
  <2>1. ~mixed /\ ~Dangling(t) /\ \A u \in Threads \ {t} : pc[u] = "idle" /\ pc'[u] = "idle"
    BY <1>1, <1>9, Others DEF Dangling
  <2>2. 12 <= Slen(t) /\ Slen(t) <= buff.cap
    BY <1>1, <1>9, PutFits
  <2>3. Sized'
    BY <1>1, <1>2, <1>3, <1>5, <2>1, <2>2 DEF PutType, PutType2, PutSlen, PutData, Step, Sized
  <2>4. buff.cap \in Nat
    BY DEF Blocks
  <2>5. ~fault'
    BY <1>3, <2>1, <2>2, <2>4 DEF PutType, PutType2, PutSlen, PutData, Put
  <2> QED
    BY <2>3, <2>5 DEF FaultCause
<1> QED
  BY <1>2, <1>6, <1>7, <1>8, <1>9, AloneKept, Unsent DEF Sized, FaultCause

\* The frame goes out.
LEMMA SendIInv ==
  ASSUME IInv, ~fault, Overlaps, NEW t \in Threads, Send(t)
  PROVE  IInv'
<1> USE DEF IInv, Types
<1>1. /\ Step(t, "send", "idle") /\ pc[t] = "send" /\ pc' = [pc EXCEPT ![t] = "idle"]
      /\ UNCHANGED <<pkt, len, type2, counter, sends, buffsz, buff, fresh>>
  BY DEF Send, Step
<1>2. taken' = [taken EXCEPT ![t] = IF Counted(pkt[t]) THEN @ + 1 ELSE @]
  BY DEF Send
<1>3. /\ wire'[t].pkt = pkt[t] /\ wire'[t].num = type2[t] /\ wire'[t].len = len[t] /\ wire'[t].met = met[t]
      /\ wire'[t].type = buff.type /\ wire'[t].type2 = buff.type2 /\ wire'[t].slen = buff.slen
      /\ wire'[t].body = [i \in 1..len[t] |-> buff.body[i]]
      /\ \A u \in Threads \ {t} : wire'[u] = wire[u]
      /\ DOMAIN wire' = Threads
  BY DEF Send
<1>4. Types'
  BY <1>1, <1>2, <1>3, AloneKept, SMTT(60)
<1>5. Numbered'
  BY <1>1, <1>2 DEF Numbered
<1>6. Built'
  BY <1>1, Others DEF Built
<1>7. FrameIntact'
  <2>1. ASSUME NEW u \in Threads \ {t}, wire'[u].pkt # None /\ ~wire'[u].met
        PROVE  /\ wire'[u].type = wire'[u].pkt /\ wire'[u].type2 = wire'[u].num
               /\ wire'[u].slen = Header + wire'[u].len
               /\ Plain(wire'[u].pkt) => wire'[u].len = Size(wire'[u].pkt) + 1
               /\ \A i \in 1..wire'[u].len :
                    wire'[u].body[i] = IF i = wire'[u].len THEN "nul" ELSE Printed(wire'[u].pkt)
    <3>1. wire'[u] = wire[u] /\ wire[u].pkt # None /\ ~wire[u].met
      BY <1>3, <2>1
    <3> QED
      BY <3>1 DEF FrameIntact
  <2>2. ASSUME ~wire'[t].met
        PROVE  /\ wire'[t].type = wire'[t].pkt /\ wire'[t].type2 = wire'[t].num
               /\ wire'[t].slen = Header + wire'[t].len
               /\ Plain(wire'[t].pkt) => wire'[t].len = Size(wire'[t].pkt) + 1
               /\ \A i \in 1..wire'[t].len :
                    wire'[t].body[i] = IF i = wire'[t].len THEN "nul" ELSE Printed(wire'[t].pkt)
    <3>1. BuiltBy(t)
      BY <1>1, <1>3, <2>2 DEF Built
    <3>2. Plain(pkt[t]) => len[t] = Size(pkt[t]) + 1
      BY <1>1, CallTypes
    <3> QED
      BY <1>1, <1>3, <3>1, <3>2 DEF BuiltBy, Slen
  <2> QED
    BY <2>1, <2>2 DEF FrameIntact, Printed
<1>8. NumbersInOrder'
  <2>1. ASSUME Counted(pkt[t])
        PROVE  type2[t] = Type2(128 + taken'[t] \div Numbers, taken'[t] % Numbers)
    BY <1>1, <1>2, <2>1 DEF Numbered, WithNumber
  <2>2. ASSUME ~Counted(pkt[t]) PROVE type2[t] = Type2(Top(pkt[t]), 0)
    BY <1>1, <2>2 DEF Numbered
  <2>3. ASSUME NEW u \in Threads \ {t}, wire'[u].pkt # None
        PROVE  /\ Counted(wire'[u].pkt) =>
                    wire'[u].num = Type2(128 + taken'[u] \div Numbers, taken'[u] % Numbers)
               /\ ~Counted(wire'[u].pkt) => wire'[u].num = Type2(Top(wire'[u].pkt), 0)
    <3>1. wire'[u] = wire[u] /\ taken'[u] = taken[u]
      BY <1>2, <1>3
    <3> QED
      BY <2>3, <3>1 DEF NumbersInOrder
  <2> QED
    BY <1>3, <2>1, <2>2, <2>3 DEF NumbersInOrder, Counted
<1>9. ASSUME ~mixed' PROVE Sized' /\ FaultCause'
  <2>1. ~mixed /\ ~Dangling(t) /\ \A u \in Threads \ {t} : pc[u] = "idle" /\ pc'[u] = "idle"
    BY <1>1, <1>9, Others DEF Dangling
  <2>2. Slen(t) \in Nat /\ Slen(t) <= buff.cap
    BY <1>1, <1>9, PutFits
  <2>3. Sized'
    BY <1>1, <2>1 DEF Sized, Slen
  <2>4. buff.cap \in Nat
    BY DEF Blocks
  <2> QED
    BY <2>1, <2>2, <2>3, <2>4 DEF Send, FaultCause
<1> QED
  BY <1>4, <1>5, <1>6, <1>7, <1>8, <1>9, AloneKept DEF Sized, FaultCause

\* Every step preserves the inductive invariant.
LEMMA NextIInv == IInv /\ [Next]_vars => IInv'
<1> SUFFICES ASSUME IInv, [Next]_vars PROVE IInv'
  OBVIOUS
<1>1. CASE UNCHANGED vars
  BY <1>1 DEF vars, IInv, Types, Numbered, Alone, Sized, Built, BuiltBy, FrameIntact, FaultCause,
              NumbersInOrder, Slen
<1>2. CASE Next
  <2>1. ~fault /\ Overlaps
    BY <1>2 DEF Next
  <2> QED
    BY <1>2, <2>1, FormatIInv, GrowIInv, CountIInv, PutIInv, SendIInv DEF Next
<1> QED
  BY <1>1, <1>2

LEMMA Invariance == Spec => []IInv
  BY InitIInv, NextIInv, PTL DEF Spec

\* FrameIntact: the frame of a call that no other one overlapped is the packet's,
\* also after garbled frames of calls that did.
THEOREM FramesIntact == Spec => []FrameIntact
  BY Invariance, PTL DEF IInv

\* FaultCause: until calls overlap, only a text of Base characters or one with a
\* % is written past its block.
THEOREM FaultsExplained == Spec => []FaultCause
  BY Invariance, PTL DEF IInv

\* NumbersInOrder: the k-th counted frame of a socket is made with the number k.
THEOREM NumbersOrdered == Spec => []NumbersInOrder
  BY Invariance, PTL DEF IInv
=============================================================================
