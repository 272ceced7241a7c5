---------------------------- MODULE MasterServer ----------------------------
(***************************************************************************)
(* The two C++ programs together.  The Plasma server gives a player a key  *)
(* and leaves it in the player's row of personas; the player takes it to   *)
(* the Theater server, which looks the row up by it.  The database is all  *)
(* the two share: each has its own process and its own sql::Statement.     *)
(***************************************************************************)
EXTENDS PlasmaClient

CONSTANTS
  Clients,      \* Theater connections
  Lobbies,      \* rows of lobbies
  MaxRequests   \* bound: requests per Theater connection

VARIABLES
  tpc, tid, lkey, persona, asked, missed, replied, named, tstmt, tcrossed, tcrashed,
  issued        \* history: the keys Plasma sent out, with the persona of each

T == INSTANCE TheaterClient

theater == <<tpc, tid, lkey, persona, asked, missed, replied, named, tstmt, tcrossed, tcrashed>>

MasterInit == Init /\ T!Init /\ issued = {}

\* A Plasma step; the key NuLoginPersona replies with becomes known.
PlasmaStep ==
  /\ Next
  /\ issued' = issued \cup
       {<<pkey'[c], pers'[c]>> : c \in {d \in Conns : pkey'[d] # pkey[d]}}
  /\ UNCHANGED theater

TheaterStep == T!TheaterNext /\ UNCHANGED <<pc, session, stmt, rows, crossed, crashed, issued>>

MasterNext == PlasmaStep \/ TheaterStep

MasterSpec == MasterInit /\ [][MasterNext]_<<vars, theater, issued>>

-----------------------------------------------------------------------------
\* The Plasma session of c is one the Theater server should recognise.
InPlay(c) == pIn[c] /\ pc[c] \notin {"personaUpdate", "logoutUser", "done"}

\* Theater names a player by a persona for which Plasma really issued the key
\* presented, however logins, logouts and the two steps of the lookup
\* interleave, as long as neither server mixed up two results.
NamedByIssuedKey ==
  ~crossed /\ ~tcrossed =>
    \A t \in Clients : named[t] # None => named[t] \in issued

\* A player in play who presents his key is among the rows the lookup finds.
\* Others are found with him (and he gets no answer) only when Plasma has
\* issued the same key to them as well.
RefusedOnlyOnClash ==
  [][\A t \in Clients, c \in Conns :
       /\ ~crossed /\ InPlay(c)
       /\ tpc[t] = "recv" /\ tpc'[t] = "user" /\ lkey'[t] = pkey[c]
       => /\ pers[c] \in tstmt'.rows
          /\ \A q \in tstmt'.rows : <<pkey[c], q>> \in issued]_<<vars, theater, issued>>
=============================================================================
