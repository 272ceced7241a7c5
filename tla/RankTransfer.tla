---------------------------- MODULE RankTransfer ----------------------------
(***************************************************************************)
(* The "rank" packets of one Plasma connection.  A player splits the       *)
(* base64 text of a statistics query over several packets, each with the   *)
(* size of the whole; clientSocket gathers the pieces in rank_data, a      *)
(* block of exactly that size, and when strlen equals the size it answers: *)
(* a packet with two variables for each key, printed, encoded, and cut     *)
(* into packets of Chunk characters.  Texts are lengths.  strcat's         *)
(* terminator and a strncpy that fills its block are outside the blocks:   *)
(* overrun counts the bytes past rank_data, and a chunk that has no        *)
(* terminator of its own may go out with some of the heap behind it (up to *)
(* Garbage characters).                                                    *)
(*   A CPacketVar has an array for a name and one for a value, and longer  *)
(* texts are written past it, onto the stack of the thread: spilled, and   *)
(* what the thread does then is not modelled.                              *)
(*   The type of a packet is four bytes that nothing terminates, and       *)
(* strcmp with "rank" reads the fifth: a piece may be taken for a packet   *)
(* of another type and dropped.                                            *)
(***************************************************************************)
EXTENDS Packet

CONSTANTS
  Queries,    \* what a player may ask: size of the text, keys in it, their length
  Chunk,      \* 8096
  QueryRoom,  \* ValueRoom for a piece of a query (an instance may have shorter pieces)
  Garbage,    \* bound: characters found after an unterminated chunk
  MaxRounds   \* bound: transfers on the connection

ASSUME RankAssumption ==
  /\ Queries \subseteq [size : Nat \ {0}, keys : Nat, key : Nat]
  /\ Chunk \in Nat \ {0} /\ Chunk < ValueRoom
  /\ QueryRoom \in Nat \ {0} /\ Garbage \in Nat /\ MaxRounds \in Nat

VARIABLES
  ask,        \* what the player is sending, and how much of it has come
  recieving,  \* sockInfo.rank_recieving
  size,       \* sockInfo.rank_size
  held,       \* strlen(sockInfo.rank_data)
  overrun,    \* most bytes written past the block of the current transfer
  spilled,    \* a value was longer than the array it was copied to
  dropped,    \* a piece was not taken for a rank packet
  reply,      \* decoded_size and encoded_size of the reply being sent
  left,       \* new_size: what the loop still has to send
  chunks,     \* lengths of the data variables of the packets sent
  packet,     \* the last packet built
  rounds      \* transfers begun

sending == <<reply, left, chunks, packet>>
gathering == <<recieving, size, held, overrun>>
vars == <<ask, gathering, spilled, dropped, sending, rounds>>

Idle == [size |-> 0, keys |-> 0, key |-> 0, sent |-> 0]
NoReply == [decoded |-> 0, encoded |-> 0]

Init ==
  /\ ask = Idle
  /\ recieving = FALSE /\ size = 0 /\ held = 0 /\ overrun = 0
  /\ spilled = FALSE /\ dropped = FALSE
  /\ reply = NoReply /\ left = 0 /\ chunks = <<>> /\ packet = NewPacket
  /\ rounds = 0

\* The player starts a query once the answer to the last one is complete.
Query(q) ==
  /\ ~spilled /\ rounds < MaxRounds /\ ask = Idle /\ left <= 0 /\ ~recieving
  /\ ask' = [size |-> q.size, keys |-> q.keys, key |-> q.key, sent |-> 0]
  /\ rounds' = rounds + 1
  /\ UNCHANGED <<gathering, spilled, dropped, sending>>

(***************************************************************************)
(* The reply: TXN=GetStats, stats.[], and stats.i.key and stats.i.value    *)
(* for each key.                                                           *)
(***************************************************************************)
ReplyStart(keys) == SetNumber(SetVar(NewPacket, <<"TXN">>, 3, 8), <<"stats.[]">>, 8, keys)

AddKey(p, i, key) ==
  SetVar(SetVar(p, <<"key", i>>, 10 + Digits(i), key), <<"value", i>>, 12 + Digits(i), 3)

\* The reply with the first i of its keys.
ReplyUpto(keys, key) ==
  LET upto[i \in 0..keys] == IF i = 0 THEN ReplyStart(keys) ELSE AddKey(upto[i - 1], i - 1, key)
  IN upto

Reply(keys, key) == ReplyUpto(keys, key)[keys]

RankReply == [q \in Queries |-> Reply(q.keys, q.key)]

\* A packet of the encoded reply with d of its characters.
ChunkPacket(r, d) ==
  SetVar(SetNumber(SetNumber(NewPacket, <<"decodedSize">>, 11, r.decoded), <<"size">>, 4, r.encoded), <<"data">>, 4, d)

Asked == [size |-> ask.size, keys |-> ask.keys, key |-> ask.key]

\* Slips: rank_data is not emptied for the next transfer, or the flag not reset.
GatherOnto(d) ==
  LET cap == IF recieving THEN size ELSE ask.size
  IN /\ size' = cap
     /\ held' = held + d
     /\ overrun' = Excess(held + d + 1, cap)
     /\ recieving' = (held + d # cap)

GatherForever(d) ==
  /\ size' = IF recieving THEN size ELSE ask.size
  /\ held' = d + IF recieving THEN held ELSE 0
  /\ recieving' = TRUE
  /\ UNCHANGED overrun

\* A piece with d characters: the first one allocates, the last one frees.
Gather(d) ==
  LET had == IF recieving THEN held ELSE 0
      cap == IF recieving THEN size ELSE ask.size
      past == Excess(had + d + 1, cap)
  IN /\ size' = cap
     /\ held' = had + d
     /\ overrun' = IF past > overrun \/ ~recieving THEN past ELSE overrun
     /\ recieving' = (had + d # cap)

\* The next d characters of the query arrive.
Arrives(d) ==
  /\ ~spilled /\ left <= 0 /\ d \in 1..(ask.size - ask.sent)
  /\ ask' = [ask EXCEPT !.sent = @ + d]
  /\ UNCHANGED rounds

\* The last piece is decoded and answered.  The reply has the keys of the query, so
\* one of them is too long for both packets or for none.
Piece(d) ==
  /\ Arrives(d)
  /\ Gather(d)
  /\ \/ recieving' /\ spilled' = (d >= QueryRoom) /\ UNCHANGED sending
     \/ /\ ~recieving'
        /\ packet' = RankReply[Asked]
        /\ spilled' = (d >= QueryRoom \/ ~InArrays(packet'))
        /\ LET n == TextLength(packet') IN reply' = [decoded |-> n, encoded |-> Encoded(n)]
        /\ left' = reply'.encoded
        /\ chunks' = <<>>
  /\ UNCHANGED dropped

\* strcmp(GetType(), "rank") found no terminator behind the four bytes.
Mistaken(d) ==
  /\ Arrives(d)
  /\ spilled' = (d >= QueryRoom)
  /\ dropped' = TRUE
  /\ UNCHANGED <<gathering, sending>>

Pieces == \E d \in 1..(ask.size - ask.sent) : Piece(d) \/ Mistaken(d)

\* The turn of the loop that sends d characters.
Turn(d) ==
  /\ chunks' = Append(chunks, d)
  /\ packet' = ChunkPacket(reply, d)
  /\ spilled' = ~InArrays(packet')
  /\ left' = left - Chunk
  /\ UNCHANGED <<ask, gathering, dropped, reply, rounds>>

\* Slip: every turn copies from the start of the reply.
CutFromStart ==
  \/ reply.encoded < Chunk /\ Turn(reply.encoded)
  \/ reply.encoded >= Chunk /\ \E g \in 0..Garbage : Turn(Chunk + g)

Cut ==
  \/ left < Chunk /\ Turn(left)
  \/ left >= Chunk /\ \E g \in 0..Garbage : Turn(Chunk + g)

SendChunk == ~spilled /\ left > 0 /\ Cut

\* The player has the whole answer.
Answered ==
  /\ ask # Idle /\ ask.sent = ask.size /\ left <= 0 /\ ~recieving /\ ~dropped /\ ~spilled
  /\ ask' = Idle
  /\ UNCHANGED <<gathering, spilled, dropped, sending, rounds>>

Next == (\E q \in Queries : Query(q)) \/ Pieces \/ SendChunk \/ Answered

\* The thread runs, and a player who began a query sends all of it.
Spec == Init /\ [][Next]_vars /\ WF_vars(SendChunk) /\ WF_vars(Pieces) /\ WF_vars(Answered)

-----------------------------------------------------------------------------
TypeOK ==
  /\ ask \in [size : Nat, keys : Nat, key : Nat, sent : Nat]
  /\ recieving \in BOOLEAN /\ spilled \in BOOLEAN /\ dropped \in BOOLEAN
  /\ size \in Nat /\ held \in Nat /\ overrun \in Nat
  /\ left \in Int /\ rounds \in 0..MaxRounds

\* What the server holds is what the player has sent of the current query:
\* nothing of an earlier one is left in rank_data, and the gathering stops
\* exactly at the last piece.  However the text is cut, only the terminator of
\* the complete text falls outside rank_data.
HeldIsSent ==
  ask # Idle /\ ~dropped =>
    /\ recieving <=> (0 < ask.sent /\ ask.sent < ask.size)
    /\ ask.sent > 0 =>
         /\ held = ask.sent /\ size = ask.size
         /\ overrun <= IF ask.sent = ask.size THEN 1 ELSE 0

PacketsFor(n) == (n + Chunk - 1) \div Chunk

\* A reply goes out in as many packets as it needs, and one shorter than a chunk
\* arrives as it is; the loop neither drops the rest nor sends an empty packet.
ReplyCut ==
  left <= 0 /\ reply # NoReply =>
    /\ Len(chunks) = PacketsFor(reply.encoded)
    /\ reply.encoded % Chunk # 0 => chunks[Len(chunks)] = reply.encoded % Chunk
    /\ \A i \in 1..(Len(chunks) - 1) : chunks[i] >= Chunk

\* The length CPacket keeps beside the variables is enough for the text GetData
\* prints from them, whatever has been set; the decoded query fits the block of
\* its encoded text and, but for its NUL, the one CPacket copies it to.  Of the
\* numbers put into a packet (the count of keys and the two sizes) only a count
\* below 20 is printed past its block, by one byte.  Names and numbers the server
\* sets never outgrow their arrays, and values only where the player has sent a query or a
\* key that long, or garbage follows a chunk that has no terminator.
PacketsFit ==
  /\ TextExcess(packet) = 0
  /\ ask # Idle => Decoded(ask.size) < ask.size /\ CopyExcess(Decoded(ask.size)) = 1
  /\ reply # NoReply =>
       NumberExcess(ask.keys) <= (IF ask.keys < 20 THEN 1 ELSE 0)
       /\ NumberExcess(reply.decoded) = 0 /\ NumberExcess(reply.encoded) = 0
  /\ spilled =>
       \/ ask.size >= QueryRoom
       \/ ask.keys > 0 /\ ask.key >= ValueRoom
       \/ chunks # <<>> /\ chunks[Len(chunks)] > Chunk

\* Every query is answered to the end, unless a piece of it was dropped or a text
\* did not fit.
QueryAnswered == (ask # Idle) ~> (ask = Idle \/ dropped \/ spilled)
=============================================================================
