--------------------------- MODULE RankConnection ---------------------------
(***************************************************************************)
(* RankTransfer over a stream: the pieces of a query are packets that      *)
(* RecievePacket puts together from whatever recv returns.  It asks for    *)
(* the twelve bytes of the header, decodes the length in it and asks for   *)
(* the rest; recv may return less than is asked for, and the player may    *)
(* have sent the next packet already.  The data of a piece with d          *)
(* characters are d bytes and a NUL (the names of the variables, which are *)
(* the same in every piece, are left out).                                 *)
(***************************************************************************)
EXTENDS RankTransfer

CONSTANT MaxFlight   \* bound: packets sent and not yet taken

VARIABLES
  given,    \* how much of the query the player has sent
  flight,   \* the packets sent: which characters of the query are in each
  off,      \* bytes of the first of them that have been read
  stage,    \* what RecievePacket is reading
  want,     \* bytes Recieve still has to read
  got       \* bytes of data read

input == <<given, flight, off, stage, want, got>>

PacketLength(piece) == Header + (piece.upto - piece.from) + 1

ConnectionInit ==
  /\ Init
  /\ given = 0 /\ flight = <<>> /\ off = 0
  /\ stage = "header" /\ want = Header /\ got = 0

Begin ==
  /\ \E q \in Queries : Query(q)
  /\ given' = 0
  /\ UNCHANGED <<flight, off, stage, want, got>>

SendPiece ==
  /\ ask # Idle /\ Len(flight) < MaxFlight
  /\ \E d \in 1..(ask.size - given) :
       /\ given' = given + d
       /\ flight' = Append(flight, [from |-> given, upto |-> given'])
  /\ UNCHANGED <<vars, off, stage, want, got>>

\* recv has returned n bytes of the first packet.
Read(n) ==
  LET whole == off + n = PacketLength(Head(flight))
  IN /\ off' = IF whole THEN 0 ELSE off + n
     /\ flight' = IF whole THEN Tail(flight) ELSE flight
     /\ UNCHANGED given

\* Slip: what the first recv returned is taken for all of it.
RestNone(n) == 0

\* What Recieve still wants after n more bytes.
Rest(n) == want - n

\* The length in the header, if that is what has been read.
Length(n) == IF off + n = Header THEN PacketLength(Head(flight)) ELSE Header + 1

RecvHeader(n) ==
  /\ stage = "header"
  /\ \/ Rest(n) > 0 /\ want' = Rest(n) /\ UNCHANGED <<stage, got>>
     \/ Rest(n) = 0 /\ stage' = "data" /\ want' = Length(n) - Header /\ got' = 0
  /\ UNCHANGED vars

RecvData(n) ==
  /\ stage = "data"
  /\ got' = got + n
  /\ \/ Rest(n) > 0 /\ want' = Rest(n) /\ UNCHANGED <<stage, vars>>
     \/ /\ Rest(n) = 0 /\ stage' = "header" /\ want' = Header
        /\ Piece(got' - 1) \/ Mistaken(got' - 1)

Recv ==
  /\ ~spilled /\ left <= 0 /\ flight # <<>>
  /\ \E n \in 1..PacketLength(Head(flight)) :
       /\ n <= want /\ off + n <= PacketLength(Head(flight))
       /\ Read(n)
       /\ RecvHeader(n) \/ RecvData(n)

Respond == (SendChunk \/ Answered) /\ UNCHANGED input

ConnectionNext == Begin \/ SendPiece \/ Recv \/ Respond

Fairness ==
  /\ WF_<<vars, input>>(SendPiece) /\ WF_<<vars, input>>(Recv) /\ WF_<<vars, input>>(Respond)

ConnectionSpec == ConnectionInit /\ [][ConnectionNext]_<<vars, input>> /\ Fairness

-----------------------------------------------------------------------------
\* The reader stays in step with the sender however recv cuts the stream: it
\* starts a packet where the player started one, and what is under way follows on
\* what it has handed on, nothing left out, repeated or changed in order.
StreamKept ==
  /\ stage = "header" => off = Header - want
  /\ stage = "data" => off = Header + got /\ want = PacketLength(Head(flight)) - off
  /\ ask # Idle =>
       /\ flight = <<>> => ask.sent = given
       /\ flight # <<>> => Head(flight).from = ask.sent /\ flight[Len(flight)].upto = given
       /\ \A i \in 2..Len(flight) : flight[i].from = flight[i - 1].upto
=============================================================================
