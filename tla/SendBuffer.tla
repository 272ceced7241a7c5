----------------------------- MODULE SendBuffer -----------------------------
(***************************************************************************)
(* CSocket::SendPacket.  The text of the packet is formatted into a block  *)
(* of the call's own, but the frame is assembled in buff, a function-local *)
(* static that every socket and every thread of the process shares, and    *)
(* whose size is the static buffsz.  Each thread sends on its own socket   *)
(* (one packetCounter per socket).  A step is one access to the statics,   *)
(* so two calls interleave wherever the code lets them.                    *)
(*                                                                         *)
(* The text is handed to vsprintf as its format, with no arguments.  A     *)
(* Plain text, one without %, is printed as it stands; what another one    *)
(* prints depends on what the conversions find: Prints is what len may be  *)
(* after len++, 0 where vsprintf fails.  Writing outside a block, through  *)
(* a freed one or from a conversion without its argument is undefined: the *)
(* model stops there (fault) or goes on with any of the Prints.            *)
(***************************************************************************)
EXTENDS Naturals

CONSTANTS
  Threads,     \* the threads that send
  Packets,     \* packets, told apart by name
  Size(_),     \* strlen of a packet's text
  Plain(_),    \* the text has no %
  Prints(_),   \* bytes vsprintf may make of the text, with the final NUL
  Counts(_),   \* the packet is sent with count=true
  Top(_),      \* the top byte of its type2: 128 (Plasma) or 0 (Theater)
  MaxText,     \* bound: the longest text printed
  Base,        \* first allocation for the text (1024)
  Slack,       \* added to the length when the text is longer (128)
  Header,      \* bytes before the text (12)
  Numbers,     \* numbers the lower bytes of type2 have room for (2^24)
  MaxSends,    \* bound: sends per thread
  None         \* no packet

ASSUME FrameAssumption ==
  /\ \A p \in Packets :
       /\ Size(p) \in 0..MaxText
       /\ Plain(p) \in BOOLEAN /\ Counts(p) \in BOOLEAN /\ Top(p) \in {0, 128}
       /\ Prints(p) \subseteq 0..(MaxText + 1)
       /\ Plain(p) => Prints(p) = {Size(p) + 1}
  /\ MaxText \in Nat /\ Base \in Nat /\ Slack \in Nat \ {0}
  /\ Header \in Nat /\ Header >= 12
  /\ Numbers \in Nat \ {0} /\ MaxSends \in 0..(128 * Numbers - 1)
  /\ None \notin Packets

VARIABLES
  pc,          \* next step of each thread's call
  pkt,         \* the packet each thread is sending
  len,         \* the bytes vsprintf made of its text
  type2,       \* the call's copy of type2: its top byte and the number below
  counter,     \* packetCounter of each thread's socket
  sends,       \* calls begun, for MaxSends
  buffsz,      \* static int buffsz
  buff,        \* the block static buff points to: capacity and contents
  fresh,       \* the block realloc returned and the call has yet to assign
  wire,        \* last frame each thread's socket was given, with its packet
  fault,       \* an access outside a live block has happened
  taken,       \* history: counted frames each socket was given
  met,         \* history: another call was under way during each thread's call
  mixed        \* history: two calls have been under way at once

vars == <<pc, pkt, len, type2, counter, sends, buffsz, buff, fresh, wire, fault, taken, met, mixed>>

Cells == 1..(MaxText + 1)

Type2(top, low) == [top |-> top, low |-> low]

NoBlock == [cap |-> 0, type |-> None, type2 |-> Type2(0, 0), slen |-> 0,
            body |-> [i \in Cells |-> "junk"]]

Slen(t) == Header + len[t]

\* if(count && (type2 & 0x80000000) == 0x80000000)
Counted(p) == Counts(p) /\ Top(p) = 128

\* (type2 & 0xff000000) | n: the counter is an int that nothing keeps below
\* 2^24, so it runs into the top byte.
WithNumber(top, n) == Type2(top + n \div Numbers, n % Numbers)

\* Some call has passed its old block to realloc and not yet stored the new one.
Dangling(t) == \E u \in Threads \ {t} : pc[u] = "assign"

Init ==
  /\ pc = [t \in Threads |-> "idle"]
  /\ pkt = [t \in Threads |-> None]
  /\ len = [t \in Threads |-> 0]
  /\ type2 = [t \in Threads |-> Type2(0, 0)]
  /\ counter = [t \in Threads |-> 0]
  /\ sends = [t \in Threads |-> 0]
  /\ buffsz = 0
  /\ buff = NoBlock
  /\ fresh = [t \in Threads |-> NoBlock]
  /\ wire = [t \in Threads |-> [pkt |-> None]]
  /\ fault = FALSE
  /\ taken = [t \in Threads |-> 0]
  /\ met = [t \in Threads |-> FALSE]
  /\ mixed = FALSE

Step(t, from, to) ==
  /\ pc[t] = from
  /\ pc' = [pc EXCEPT ![t] = to]

\* malloc(Base), or Size+Slack bytes for a text longer than Base.
Block(p) == IF Size(p) > Base THEN Size(p) + Slack ELSE Base

\* The text is printed into its block, which was made by its length before.
Format(t, p) ==
  /\ sends[t] < MaxSends
  /\ Step(t, "idle", "grow")
  /\ pkt' = [pkt EXCEPT ![t] = p]
  /\ type2' = [type2 EXCEPT ![t] = Type2(Top(p), 0)]
  /\ sends' = [sends EXCEPT ![t] = @ + 1]
  /\ \E n \in Prints(p) :
       /\ len' = [len EXCEPT ![t] = n]
       /\ \/ fault' = (n > Block(p))
          \/ ~Plain(p) /\ fault' = TRUE
  /\ UNCHANGED <<counter, buffsz, buff, fresh, wire, taken>>

\* Slip: the header is forgotten in the test.
GrowForText(t) ==
  /\ \/ Step(t, "grow", "realloc") /\ len[t] > buffsz /\ buffsz' = Slen(t)
     \/ Step(t, "grow", "type") /\ len[t] <= buffsz /\ UNCHANGED buffsz
  /\ UNCHANGED <<pkt, len, type2, counter, sends, buff, fresh, wire, fault, taken>>

Grow(t) ==
  /\ \/ Step(t, "grow", "realloc") /\ Slen(t) > buffsz /\ buffsz' = Slen(t)
     \/ Step(t, "grow", "type") /\ Slen(t) <= buffsz /\ UNCHANGED buffsz
  /\ UNCHANGED <<pkt, len, type2, counter, sends, buff, fresh, wire, fault, taken>>

Realloc(t) ==
  /\ Step(t, "realloc", "assign")
  /\ fresh' = [fresh EXCEPT ![t] = [buff EXCEPT !.cap = Slen(t)]]
  /\ fault' = Dangling(t)
  /\ UNCHANGED <<pkt, len, type2, counter, sends, buffsz, buff, wire, taken>>

Assign(t) ==
  /\ Step(t, "assign", "type")
  /\ buff' = fresh[t]
  /\ fresh' = [fresh EXCEPT ![t] = NoBlock]
  /\ UNCHANGED <<pkt, len, type2, counter, sends, buffsz, wire, fault, taken>>

\* Put bytes into buff up to offset last.
Put(t, last, block) ==
  /\ buff' = block
  /\ fault' = (Dangling(t) \/ last > buff.cap)

PutType(t) ==
  /\ Step(t, "type", "count")
  /\ Put(t, 4, [buff EXCEPT !.type = pkt[t]])
  /\ UNCHANGED <<pkt, len, type2, counter, sends, buffsz, fresh, wire, taken>>

\* Slip: every packet takes a number.
CountAll(t) ==
  /\ Step(t, "count", "type2")
  /\ counter' = [counter EXCEPT ![t] = @ + 1]
  /\ type2' = [type2 EXCEPT ![t] = WithNumber(@.top, counter'[t])]
  /\ UNCHANGED <<pkt, len, sends, buffsz, buff, fresh, wire, fault, taken>>

\* A packet with 1 in the low bytes starts the count again; the servers build
\* none, their packets have nothing there.
Count(t) ==
  /\ Step(t, "count", "type2")
  /\ \/ /\ Counted(pkt[t])
        /\ counter' = [counter EXCEPT ![t] = IF type2[t].low = 1 THEN 1 ELSE @ + 1]
        /\ type2' = [type2 EXCEPT ![t] = WithNumber(@.top, counter'[t])]
     \/ ~Counted(pkt[t]) /\ UNCHANGED <<counter, type2>>
  /\ UNCHANGED <<pkt, len, sends, buffsz, buff, fresh, wire, fault, taken>>

PutType2(t) ==
  /\ Step(t, "type2", "slen")
  /\ Put(t, 8, [buff EXCEPT !.type2 = type2[t]])
  /\ UNCHANGED <<pkt, len, type2, counter, sends, buffsz, fresh, wire, taken>>

PutSlen(t) ==
  /\ Step(t, "slen", "data")
  /\ Put(t, 12, [buff EXCEPT !.slen = Slen(t)])
  /\ UNCHANGED <<pkt, len, type2, counter, sends, buffsz, fresh, wire, taken>>

\* What is printed for a packet: its text, or what came of the conversions.
Printed(p) == IF Plain(p) THEN p ELSE "printed"

\* Slip: the final NUL is not copied.
TextUnended(p, n, old) ==
  [i \in Cells |-> IF i < n THEN Printed(p) ELSE old[i]]

\* n bytes of what was printed for p, the last a NUL, over an old body.
Text(p, n, old) ==
  [i \in Cells |-> IF i < n THEN Printed(p) ELSE IF i = n THEN "nul" ELSE old[i]]

PutData(t) ==
  /\ Step(t, "data", "send")
  /\ Put(t, Slen(t), [buff EXCEPT !.body = Text(pkt[t], len[t], @)])
  /\ UNCHANGED <<pkt, len, type2, counter, sends, buffsz, fresh, wire, taken>>

\* What Send(buff, slen) hands to the socket.
Send(t) ==
  /\ Step(t, "send", "idle")
  /\ fault' = (Dangling(t) \/ Slen(t) > buff.cap)
  /\ wire' = [wire EXCEPT ![t] =
       [pkt |-> pkt[t], num |-> type2[t], len |-> len[t], met |-> met[t],
        type |-> buff.type, type2 |-> buff.type2, slen |-> buff.slen,
        body |-> [i \in 1..len[t] |-> buff.body[i]]]]
  /\ taken' = [taken EXCEPT ![t] = IF Counted(pkt[t]) THEN @ + 1 ELSE @]
  /\ UNCHANGED <<pkt, len, type2, counter, sends, buffsz, buff, fresh>>

\* History: who has been under way with whom.
Overlaps ==
  /\ met' = [t \in Threads |->
       pc'[t] # "idle" /\ (met[t] \/ \E u \in Threads \ {t} : pc'[u] # "idle")]
  /\ mixed' = (mixed \/ \E t \in Threads : met'[t])

Next ==
  /\ ~fault
  /\ \E t \in Threads :
       \/ \E p \in Packets : Format(t, p)
       \/ Grow(t) \/ Realloc(t) \/ Assign(t) \/ PutType(t) \/ Count(t)
       \/ PutType2(t) \/ PutSlen(t) \/ PutData(t) \/ Send(t)
  /\ Overlaps

Spec == Init /\ [][Next]_vars

-----------------------------------------------------------------------------
TypeOK ==
  /\ pc \in [Threads -> {"idle", "grow", "realloc", "assign", "type", "count",
                         "type2", "slen", "data", "send"}]
  /\ pkt \in [Threads -> Packets \cup {None}]
  /\ len \in [Threads -> 0..(MaxText + 1)]
  /\ counter \in [Threads -> 0..MaxSends]
  /\ sends \in [Threads -> 0..MaxSends]
  /\ buffsz \in 0..(Header + MaxText + 1)
  /\ buff.cap \in 0..(Header + MaxText + 1)
  /\ fault \in BOOLEAN
  /\ met \in [Threads -> BOOLEAN]
  /\ mixed \in BOOLEAN

\* A frame whose own call no other one overlapped is the packet the call was
\* given: its type, the type2 the call made, a length field equal to the bytes
\* sent, all that was printed of its text (the text itself where that has no %)
\* and the final NUL.  This holds whatever longer frames, and whatever garbled
\* ones of calls that did overlap, went through the shared buffer before.
FrameIntact ==
  \A t \in Threads : LET w == wire[t] IN
    w.pkt # None /\ ~w.met =>
      /\ w.type = w.pkt /\ w.type2 = w.num
      /\ w.slen = Header + w.len
      /\ Plain(w.pkt) => w.len = Size(w.pkt) + 1
      /\ \A i \in 1..w.len : w.body[i] = IF i = w.len THEN "nul" ELSE Printed(w.pkt)

\* Until two calls have overlapped, an access outside a block is the work of a
\* text with a %, or the terminator of one of exactly Base characters.  (After
\* an overlap the block may be smaller than buffsz says, and any later call may
\* write past it.)
FaultCause ==
  fault /\ ~mixed =>
    \E t \in Threads : pkt[t] # None /\ (Plain(pkt[t]) => Size(pkt[t]) = Base)

\* Whatever overlaps, the k-th counted frame a socket is given was made with the
\* number k: 1, 2, 3 and so on without a gap or a repeat, however many uncounted
\* ones go between, which keep the type2 they came with.  The number stays in
\* the lower bytes until k reaches Numbers; from there it changes the top one.
NumbersInOrder ==
  \A t \in Threads : LET w == wire[t] IN
    w.pkt # None =>
      /\ Counted(w.pkt) => w.num = Type2(128 + taken[t] \div Numbers, taken[t] % Numbers)
      /\ ~Counted(w.pkt) => w.num = Type2(Top(w.pkt), 0)
=============================================================================
