----------------------------- MODULE PhpTheater ------------------------------
(***************************************************************************)
(* The game servers' side of the PHP Theater server and what a player who  *)
(* joins a game sees of it.  A game server connects, creates its game      *)
(* (CGAM), reports who is in which slot (UGDE) and disappears; a player    *)
(* asks to enter a game by id (EGAM).  One process, one loop: a handler    *)
(* runs whole.  STSocket::_instanceByGID finds a game's connection, the    *)
(* tables games and gdet hold what the players are told.                   *)
(*                                                                         *)
(* The lists players ask for only read; they may be old, so a player may   *)
(* ask for any id.  There is one lobby.  A game server keeps its address   *)
(* (ip and game port) and its players when it connects again.              *)
(***************************************************************************)
EXTENDS Naturals, FiniteSets

CONSTANTS
  Servers,      \* connections of game servers
  Addr(_),      \* the ip of a connection and the port its CGAM names
  Slots,        \* pdat00, pdat01, ...
  MaxRestarts,  \* bound: restarts of the Theater process
  None          \* no row, no connection

VARIABLES
  sconn,        \* a game server's connection as its two ends see it
  gid,          \* gid of each STSocket, 0 before CGAM
  byGid,        \* STSocket::_instanceByGID
  games,        \* the table games: address, server_online, game_ap
  nextId,       \* AUTO_INCREMENT of games
  gdet,         \* the table gdet: the slots whose pdat is not '|0|0|0|0'
  players,      \* the slots really taken on the server at an address
  ticket,       \* last EGAM: game, connection given EGRQ, address in EGEG
  restarts      \* for MaxRestarts

vars == <<sconn, gid, byGid, games, nextId, gdet, players, ticket, restarts>>

Addresses == {Addr(s) : s \in Servers}

GameIds == 1..Cardinality(Addresses)

\* The columns of a row of games that are modelled.
GameRow == [addr : Addresses, online : BOOLEAN, ap : 0..Cardinality(Slots)]

ASSUME ServerAssumption ==
  /\ IsFiniteSet(Servers) /\ IsFiniteSet(Slots)
  /\ MaxRestarts \in Nat
  /\ None \notin GameRow

NoTicket == [game |-> 0, egrq |-> None, egeg |-> None]

Init ==
  /\ sconn = [s \in Servers |-> "none"]
  /\ gid = [s \in Servers |-> 0]
  /\ byGid = [g \in GameIds |-> None]
  /\ games = [g \in GameIds |-> None]
  /\ nextId = 1
  /\ gdet = [g \in GameIds |-> None]
  /\ players = [a \in Addresses |-> {}]
  /\ ticket = NoTicket
  /\ restarts = 0

Accept(s) ==
  /\ sconn[s] = "none"
  /\ sconn' = [sconn EXCEPT ![s] = "open"]
  /\ UNCHANGED <<gid, byGid, games, nextId, gdet, players, ticket, restarts>>

(***************************************************************************)
(* CGAM: the row with the server's ip and port, inserted if there is none, *)
(* goes online.  getInstanceByGID enters the connection into the table     *)
(* unless the id is there already, be it of an older connection.           *)
(***************************************************************************)
Rows == {g \in GameIds : games[g] # None}

\* Slip: the connection is not entered.
RegisterNothing(s, g) == UNCHANGED byGid

Register(s, g) == byGid' = IF byGid[g] # None THEN byGid ELSE [byGid EXCEPT ![g] = s]

\* Slip: the port is left out of the search.
FoundByIp(s) == {g \in Rows : games[g].addr[1] = Addr(s)[1]}

Found(s) == {g \in Rows : games[g].addr = Addr(s)}

NewRow(s) == [addr |-> Addr(s), online |-> TRUE, ap |-> 0]

CGAM(s) ==
  /\ sconn[s] = "open"
  /\ \/ \E g \in Found(s) :
          /\ games' = [games EXCEPT ![g].online = TRUE]
          /\ gid' = [gid EXCEPT ![s] = g]
          /\ Register(s, g)
          /\ UNCHANGED nextId
     \/ /\ Found(s) = {}
        /\ games' = [games EXCEPT ![nextId] = NewRow(s)]
        /\ gid' = [gid EXCEPT ![s] = nextId]
        /\ Register(s, nextId)
        /\ nextId' = nextId + 1
  /\ UNCHANGED <<sconn, gdet, players, ticket, restarts>>

(***************************************************************************)
(* UGDE names a game and the slots that changed; nothing asks whether the  *)
(* game is the connection's own or is in the table at all.  The row of     *)
(* gdet is inserted with all slots empty if there is none; game_ap becomes *)
(* its count.                                                              *)
(***************************************************************************)
UGDE(s, g, slot) ==
  LET a == Addr(s)
      old == IF gdet[g] = None THEN {} ELSE gdet[g]
      new == IF slot \in players[a] THEN old \ {slot} ELSE old \cup {slot}
  IN /\ sconn[s] = "open"
     /\ players' = [players EXCEPT ![a] = IF slot \in @ THEN @ \ {slot} ELSE @ \cup {slot}]
     /\ gdet' = [gdet EXCEPT ![g] = new]
     /\ games' = IF g \in Rows THEN [games EXCEPT ![g].ap = Cardinality(new)] ELSE games
     /\ UNCHANGED <<sconn, gid, byGid, nextId, ticket, restarts>>

\* The id a game server names is the one CGAM gave it on this connection.
NamedBy(s) == {gid[s]} \ {0}

Drop(s) ==
  /\ sconn[s] = "open"
  /\ sconn' = [sconn EXCEPT ![s] = "dead"]
  /\ UNCHANGED <<gid, byGid, games, nextId, gdet, players, ticket, restarts>>

\* Slips: the game stays online, or in the table.
HandleGoodbyeOnline(s) ==
  /\ sconn[s] = "dead"
  /\ sconn' = [sconn EXCEPT ![s] = "closed"]
  /\ \/ gid[s] # 0 /\ byGid' = [byGid EXCEPT ![gid[s]] = None]
     \/ gid[s] = 0 /\ UNCHANGED byGid
  /\ UNCHANGED <<gid, games, nextId, gdet, players, ticket, restarts>>

HandleGoodbyeKept(s) ==
  /\ sconn[s] = "dead"
  /\ sconn' = [sconn EXCEPT ![s] = "closed"]
  /\ \/ gid[s] # 0 /\ games' = [games EXCEPT ![gid[s]].online = FALSE]
     \/ gid[s] = 0 /\ UNCHANGED games
  /\ UNCHANGED <<gid, byGid, nextId, gdet, players, ticket, restarts>>

\* handleGoodbye, after ten empty reads: the game goes offline and its id out of
\* the table, whoever may have registered it since.
HandleGoodbye(s) ==
  /\ sconn[s] = "dead"
  /\ sconn' = [sconn EXCEPT ![s] = "closed"]
  /\ \/ /\ gid[s] # 0
        /\ games' = [games EXCEPT ![gid[s]].online = FALSE]
        /\ byGid' = [byGid EXCEPT ![gid[s]] = None]
     \/ gid[s] = 0 /\ UNCHANGED <<games, byGid>>
  /\ UNCHANGED <<gid, nextId, gdet, players, ticket, restarts>>

\* EGAM: the game's connection is asked to let the player in (EGRQ), then the
\* player is told the address to go to (EGEG).
EGAM(g) ==
  /\ ticket' = [game |-> g, egrq |-> byGid[g],
                egeg |-> IF byGid[g] # None /\ g \in Rows THEN games[g].addr ELSE None]
  /\ UNCHANGED <<sconn, gid, byGid, games, nextId, gdet, players, restarts>>

\* The start deletes the games and their counter, but not gdet.
Restart ==
  /\ restarts < MaxRestarts
  /\ restarts' = restarts + 1
  /\ sconn' = [s \in Servers |-> IF sconn[s] \in {"open", "dead"} THEN "closed" ELSE sconn[s]]
  /\ gid' = [s \in Servers |-> 0]
  /\ byGid' = [g \in GameIds |-> None]
  /\ games' = [g \in GameIds |-> None]
  /\ nextId' = 1
  /\ ticket' = NoTicket
  /\ UNCHANGED <<gdet, players>>

Next ==
  \/ \E s \in Servers :
       \/ Accept(s) \/ CGAM(s) \/ Drop(s) \/ HandleGoodbye(s)
       \/ \E g \in NamedBy(s), slot \in Slots : UGDE(s, g, slot)
  \/ \E g \in GameIds : EGAM(g)
  \/ Restart

\* The loop goes on reading a connection that has nothing more to say.
Spec == Init /\ [][Next]_vars /\ \A s \in Servers : WF_vars(HandleGoodbye(s))

-----------------------------------------------------------------------------
TypeOK ==
  /\ sconn \in [Servers -> {"none", "open", "dead", "closed"}]
  /\ gid \in [Servers -> GameIds \cup {0}]
  /\ byGid \in [GameIds -> Servers \cup {None}]
  /\ games \in [GameIds -> GameRow \cup {None}]
  /\ nextId \in 1..(Cardinality(Addresses) + 1)
  /\ gdet \in [GameIds -> (SUBSET Slots) \cup {None}]
  /\ players \in [Addresses -> SUBSET Slots]
  /\ ticket \in [game : GameIds \cup {0}, egrq : Servers \cup {None},
                 egeg : Addresses \cup {None}]
  /\ restarts \in 0..MaxRestarts

Alive(s) == sconn[s] \in {"open", "dead"}

\* The connection found by a game id has that game and has not been closed.
RegistryPoints ==
  \A g \in GameIds : byGid[g] # None => Alive(byGid[g]) /\ gid[byGid[g]] = g

\* A game is listed as online only while some connection for it is there.
OnlineHasServer ==
  \A g \in Rows : games[g].online => \E s \in Servers : Alive(s) /\ gid[s] = g

\* The server that is asked to let a player in is the one the player is sent to,
\* also when ids are used again after a restart and the player's list is old.
TicketMeets ==
  [][ticket' # ticket /\ ticket'.egrq # None => ticket'.egeg = Addr(ticket'.egrq)]_vars

\* A game server that has created its game is listed and reachable by its id
\* unless another connection of the same game server has been there since the
\* last start: its late end takes the game away from the new connection.
ServedListed ==
  \A s \in Servers :
    /\ sconn[s] = "open" /\ gid[s] # 0
    /\ \A d \in Servers \ {s} : gid[d] # gid[s]
    => games[gid[s]].online /\ byGid[gid[s]] = s

\* A game whose server is gone does not stay in the list.
DeadUnlisted ==
  \A g \in GameIds :
    (g \in Rows /\ games[g].online) ~>
      \/ g \notin Rows \/ ~games[g].online
      \/ \E s \in Servers : sconn[s] = "open" /\ gid[s] = g

(***************************************************************************)
(* The tables implement the directory: a row gives its address the id, the *)
(* rows online are the list, and a connection offers its game from CGAM on *)
(* until its end is noticed.                                               *)
(***************************************************************************)
IdAt(a) == {g \in Rows : games[g].addr = a}

IdAmong(ids) == IF ids = {} THEN 0 ELSE CHOOSE g \in ids : TRUE

IdOf == [a \in Addresses |-> IdAmong(IdAt(a))]

Offering == {s \in Servers : Alive(s) /\ gid[s] # 0}

Gone == {s \in Servers : sconn[s] = "closed"}

Listed == {a \in Addresses : \E g \in IdAt(a) : games[g].online}

Joined == [asked |-> ticket.egrq, told |-> ticket.egeg]

Directory == INSTANCE GameDirectory WITH
  Ids <- GameIds, idOf <- IdOf, offering <- Offering, gone <- Gone,
  listed <- Listed, reach <- byGid, joined <- Joined

\* Whatever Theater does with its tables, to a player it is the directory: the
\* ids of the list stay with their servers until the next start, a join asks and
\* names one and the same server, and what is withdrawn leaves list and table.
ImplementsDirectory == Directory!Spec

\* CTSocket.class.php:213 "current number of players on server(Active players)",
\* of game_ap: once a server has reported a change, the number listed for its
\* game is the number of its players.
ActivePlayers ==
  \A g \in Rows :
    games[g].ap # 0 => games[g].ap = Cardinality(players[games[g].addr])
=============================================================================
