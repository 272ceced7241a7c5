---------------------------- MODULE GameDirectory ----------------------------
(***************************************************************************)
(* What Theater promises about the games in its list, without connections' *)
(* states, tables of rows or counters: a game server offers the game of    *)
(* its address and withdraws it once; an address keeps one id from start   *)
(* to start, no two share one, and whoever joins by an id is sent to the   *)
(* address of the very server that is asked to let him in.                 *)
(*   A server that connects again while its old connection is there offers *)
(* the same game; withdrawing the old one takes the game from both.        *)
(***************************************************************************)
EXTENDS Naturals

CONSTANTS
  Servers,      \* connections of game servers
  Addr(_),      \* the address of the game a connection offers
  Ids,          \* ids of games
  None

Addresses == {Addr(s) : s \in Servers}

VARIABLES
  idOf,         \* the id of the game at an address, 0 before it is offered
  offering,     \* servers that offer their game
  gone,         \* servers that will not be back
  listed,       \* addresses whose game is in the list
  reach,        \* the server that is asked when somebody joins an id
  joined        \* the last join: the server asked, the address told

dvars == <<idOf, offering, gone, listed, reach, joined>>

Nobody == [asked |-> None, told |-> None]

Init ==
  /\ idOf = [a \in Addresses |-> 0]
  /\ offering = {} /\ gone = {} /\ listed = {}
  /\ reach = [g \in Ids |-> None]
  /\ joined = Nobody

\* The address keeps its id, or takes one nobody has.
IdFor(a, g) ==
  IF idOf[a] # 0 THEN g = idOf[a] ELSE \A b \in Addresses : idOf[b] # g

Offer(s, g) ==
  /\ s \notin gone /\ IdFor(Addr(s), g)
  /\ idOf' = [idOf EXCEPT ![Addr(s)] = g]
  /\ offering' = offering \cup {s}
  /\ listed' = listed \cup {Addr(s)}
  /\ reach' = IF reach[g] = None THEN [reach EXCEPT ![g] = s] ELSE reach
  /\ UNCHANGED <<gone, joined>>

Withdraw(s) ==
  /\ s \notin gone
  /\ gone' = gone \cup {s} /\ offering' = offering \ {s}
  /\ IF s \in offering
       THEN /\ listed' = listed \ {Addr(s)}
            /\ reach' = [reach EXCEPT ![idOf[Addr(s)]] = None]
       ELSE UNCHANGED <<listed, reach>>
  /\ UNCHANGED <<idOf, joined>>

Join(g) ==
  /\ joined' = IF reach[g] = None THEN Nobody
               ELSE [asked |-> reach[g], told |-> Addr(reach[g])]
  /\ UNCHANGED <<idOf, offering, gone, listed, reach>>

\* A start with an empty list: who was connected is gone.
Restart ==
  /\ \E lost \in SUBSET Servers : offering \subseteq lost /\ gone' = gone \cup lost
  /\ idOf' = [a \in Addresses |-> 0]
  /\ offering' = {} /\ listed' = {}
  /\ reach' = [g \in Ids |-> None]
  /\ joined' = Nobody

Next ==
  \/ \E s \in Servers : Withdraw(s) \/ \E g \in Ids : Offer(s, g)
  \/ \E g \in Ids : Join(g)
  \/ Restart

Spec == Init /\ [][Next]_dvars
=============================================================================
