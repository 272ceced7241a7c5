---------------------------- MODULE ServerProcess ----------------------------
(***************************************************************************)
(* The process around a socket server.  main reads the settings, connects  *)
(* to the database, starts the thread of serverListener (SocketServer) and *)
(* then, in the current Plasma, runs the Handler itself: it accepts the    *)
(* players' connections on a port of its own and serves them one after the *)
(* other.  In Theater (derefFirst) main only keeps the process alive; the  *)
(* listener modelled is clientListener, and serverListener, which is the   *)
(* same code, is not repeated.                                             *)
(*   Both constructors of CSocketServer may fail: error() waits for the    *)
(* operator to close a message box, a socket that could not be bound is    *)
(* closed, and the listener goes on with the handle, which by then may be  *)
(* the handle of the other one's socket.                                   *)
(*   The settings themselves, the texts logged and the packets' contents   *)
(* are left out, and so is SSL but for the time SSL_accept waits.          *)
(***************************************************************************)
EXTENDS SocketServer, Integers, Sequences

CONSTANT MaxPlayers   \* bound: connections players open, numbered in their order

ASSUME PlayersAssumption == MaxPlayers \in Nat

VARIABLES
  main,      \* where main, or the Handler it runs, is
  ctor,      \* how far the constructor of each CSocketServer is
  stale,     \* a listener whose own socket was closed holds the other's handle
  queue,     \* the players' connections accept has not returned yet
  pwire,     \* a player's connection as the player sees it; taken: one of Conns now
  sock,      \* the socket the Handler serves
  ended      \* the process is gone, by exit or an exception nobody catches

startup == <<main, ctor, stale>>
handler == <<queue, pwire, sock>>
allVars == <<vars, startup, handler, ended>>

Players == 1..MaxPlayers
NoPlayer == 0

Servers == {"server", "client"}
Other(x) == IF x = "server" THEN "client" ELSE "server"

\* The constructor has returned, however.
Built(x) == ctor[x] \in {"listening", "failed", "closed"}

ProcessTypeOK ==
  /\ TypeOK
  /\ main \in {"config", "connect", "start", "construct", "accept", "serve", "keepAlive", "ended"}
  /\ ctor \in [Servers -> {"none", "begun", "box", "boxClose", "listening", "failed", "closed"}]
  /\ stale \in BOOLEAN /\ ended \in BOOLEAN
  /\ queue \in Seq(Players)
  /\ pwire \in [Players -> {"idle", "up", "down", "taken"}]
  /\ sock \in Players \cup {NoPlayer}

ProcessInit ==
  /\ Init
  /\ main = "config"
  /\ ctor = [x \in Servers |-> "none"]
  /\ stale = FALSE /\ ended = FALSE
  /\ queue = <<>> /\ pwire = [p \in Players |-> "idle"] /\ sock = NoPlayer

Goes(to) == main' = to /\ UNCHANGED <<vars, ctor, stale, handler, ended>>

\* With the process all that it held is gone; it does not start again.
Ends ==
  /\ ended' = TRUE
  /\ UNCHANGED <<derefFirst, listening, crashed>>
  /\ lpc' = "accept" /\ cur' = NoSock /\ sockList' = {} /\ inList' = {} /\ overlap' = FALSE
  /\ wire' = [c \in Conns |-> "closed"] /\ heap' = [c \in Conns |-> "none"] /\ thr' = [s \in Slots |-> "none"]
  /\ main' = "ended" /\ ctor' = [x \in Servers |-> "none"] /\ stale' = FALSE
  /\ queue' = <<>> /\ pwire' = [p \in Players |-> "down"] /\ sock' = NoPlayer

(***************************************************************************)
(* main.  Without the file, filename is whatever it was, and reading the   *)
(* settings from it may fault; Connect leaves by exit(0), or with the      *)
(* exception of setSchema.                                                 *)
(***************************************************************************)
LoadConfig ==
  /\ main = "config"
  /\ Goes("connect") \/ Ends

ConnectDatabase ==
  /\ main = "connect"
  /\ Goes("start") \/ Ends

\* The result of _beginthread is ignored here, too.
StartListener ==
  /\ main = "start"
  /\ \E begun \in {"begun", "none"} :
       ctor' = [ctor EXCEPT !["server"] = begun, !["client"] = IF derefFirst THEN "none" ELSE "begun"]
  /\ main' = IF derefFirst THEN "keepAlive" ELSE "construct"
  /\ UNCHANGED <<vars, stale, handler, ended>>

\* socket, bind and listen; a new socket may get the handle the other listener
\* has closed and still holds.
Construct(x) ==
  /\ ctor[x] = "begun"
  /\ \E result \in {"listening", "box", "boxClose"} :
       /\ x = "server" => (listening <=> result = "listening")
       /\ ctor' = [ctor EXCEPT ![x] = result]
  /\ stale' \in {FALSE, ctor[Other(x)] = "closed" /\ ctor'[x] = "listening"}
  /\ UNCHANGED <<vars, main, handler, ended>>

\* The operator closes the message box.
Dismiss(x) ==
  /\ ctor[x] \in {"box", "boxClose"}
  /\ ctor' = [ctor EXCEPT ![x] = IF ctor[x] = "box" THEN "failed" ELSE "closed"]
  /\ UNCHANGED <<vars, main, stale, handler, ended>>

Run ==
  /\ main = "construct" /\ Built("client")
  /\ Goes("accept")

(***************************************************************************)
(* The players.                                                            *)
(***************************************************************************)
PlayerConnects(p) ==
  /\ ctor["client"] = "listening" /\ pwire[p] = "idle"
  /\ \A q \in 1..(p - 1) : pwire[q] # "idle"
  /\ pwire' = [pwire EXCEPT ![p] = "up"]
  /\ queue' = Append(queue, p)
  /\ UNCHANGED <<vars, startup, sock, ended>>

PlayerLeaves(p) ==
  /\ pwire[p] = "up"
  /\ pwire' = [pwire EXCEPT ![p] = "down"]
  /\ UNCHANGED <<vars, startup, queue, sock, ended>>

Waiting(p) == \E i \in DOMAIN queue : queue[i] = p

(***************************************************************************)
(* The Handler.  An accept that fails only makes it try again.  From then  *)
(* on it waits for this player only: in SSL_accept, whose failure changes  *)
(* nothing, and in RecievePacket.                                          *)
(***************************************************************************)
HandlerAccept ==
  /\ main = "accept" /\ ctor["client"] = "listening" /\ queue # <<>>
  /\ sock' = Head(queue)
  /\ queue' = Tail(queue)
  /\ main' = "serve"
  /\ UNCHANGED <<vars, ctor, stale, pwire, ended>>

\* Slip: the connection is not left when it is closed.
HandlerNullStays ==
  /\ main = "serve"
  /\ UNCHANGED allVars

\* RecievePacket returns NULL: on to the next player.  Nobody removes the socket.
HandlerNull ==
  /\ main = "serve"
  /\ main' = "accept" /\ sock' = NoPlayer
  /\ UNCHANGED <<vars, ctor, stale, queue, pwire, ended>>

\* A packet that is no opcode of the table is logged, its number taken for a
\* text, and the Handler returns for good.
UnknownPacket ==
  /\ main = "serve" /\ pwire[sock] = "up"
  /\ Goes("keepAlive") \/ Ends

\* A length from 0 to 11 asks new for more bytes than there are.
ShortLength ==
  /\ \/ main = "serve" /\ pwire[sock] = "up"
     \/ \E c \in Conns : thr[c] = "loop" /\ wire[c] = "up"
  /\ Ends

\* With the other's handle a listener takes the other's connections.  The
\* Handler has no context for SSL, which it needs for each of them.
TakesServer ==
  /\ stale /\ main = "accept" /\ ctor["client"] = "closed"
  /\ \E c \in Conns : wire[c] \in {"up", "down"} /\ heap[c] = "none"
  /\ Ends

\* The server thread makes an object for the player, lists it and starts a
\* thread as for a game server: from here on he is one of Conns.
TakesPlayer ==
  /\ stale /\ lpc = "accept" /\ ctor["server"] = "closed" /\ queue # <<>>
  /\ \E c \in Conns, seen \in {"up", "down"} :
       /\ wire[c] = "idle" /\ heap[c] = "none" /\ pwire[Head(queue)] = seen
       /\ wire' = [wire EXCEPT ![c] = seen]
       /\ heap' = [heap EXCEPT ![c] = "live"]
       /\ cur' = c
  /\ lpc' = "push"
  /\ pwire' = [pwire EXCEPT ![Head(queue)] = "taken"]
  /\ queue' = Tail(queue)
  /\ UNCHANGED <<derefFirst, listening, thr, sockList, inList, overlap, crashed, startup, sock, ended>>

MainStep == LoadConfig \/ ConnectDatabase \/ StartListener \/ Run \/ HandlerAccept

ServerStep == Built("server") /\ Next /\ UNCHANGED <<startup, handler, ended>>

ProcessNext ==
  /\ ~ended /\ ~crashed
  /\ \/ MainStep
     \/ \E x \in Servers : Construct(x) \/ Dismiss(x)
     \/ \E p \in Players : PlayerConnects(p) \/ PlayerLeaves(p)
     \/ HandlerNull \/ UnknownPacket \/ ShortLength \/ TakesServer \/ TakesPlayer
     \/ ServerStep

(***************************************************************************)
(* The operating system runs every thread that is not blocked.  accept     *)
(* blocks while no connection is pending, recv until the peer sends or     *)
(* hangs up; a failing accept and the operator's click are never owed.     *)
(***************************************************************************)
Alive(A) == ~ended /\ ~crashed /\ A /\ UNCHANGED derefFirst
InServer(A) == Built("server") /\ Alive(A) /\ UNCHANGED <<startup, handler, ended>>

ProcessFairness ==
  /\ WF_allVars(Alive(MainStep))
  /\ \A x \in Servers : WF_allVars(Alive(Construct(x)))
  /\ WF_allVars(main = "serve" /\ pwire[sock] = "down" /\ Alive(HandlerNull))
  /\ WF_allVars(InServer(ListenerStep))
  /\ \A s \in Slots : WF_allVars(InServer(ThreadStep(s)))
  /\ \A c \in Conns : WF_allVars(wire[c] = "down" /\ InServer(ReceiveNull(c)))

ProcessSpec == ProcessInit /\ [][ProcessNext]_allVars /\ ProcessFairness

-----------------------------------------------------------------------------
\* Every socket whose peer has gone is deleted in the end, unless the process
\* ended or no thread could be started for it.
PeerGoneReleased ==
  \A c \in Conns :
    wire[c] = "down" ~> (heap[c] = "freed" \/ thr[c] = "orphan" \/ crashed \/ ended)

\* A game server is accepted whatever the other peers do: however long a player
\* keeps the Handler waiting, after the Handler has returned, and while other
\* game servers stay silent.  Only the end of the process keeps it out.
GameServersServed ==
  \A c \in Conns : wire[c] = "up" ~> (heap[c] # "none" \/ crashed \/ ended)

\* A player who waits for his turn with the Handler waits for one who is there,
\* not for one who has gone, however the connections before his ended; unless the
\* Handler has returned.
PlayersServed ==
  \A p \in Players :
    Waiting(p) ~>
      ~Waiting(p) \/ (main = "serve" /\ pwire[sock] = "up") \/ main = "keepAlive" \/ crashed \/ ended
=============================================================================
