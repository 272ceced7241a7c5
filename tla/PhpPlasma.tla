------------------------------ MODULE PhpPlasma ------------------------------
(***************************************************************************)
(* The player side of the PHP Plasma server.  One process serves all       *)
(* connections from one stream_select loop, so a handler runs whole; what  *)
(* interleaves is the packets, the drops that are noticed late, bans and   *)
(* restarts.  Sessions live in UserData objects that connections reach by  *)
(* pointer and that four tables find again: UserData by nuid, by user id   *)
(* and by persona id, CSocket by user id.                                  *)
(*                                                                         *)
(* The database compares nuids without regard to case, PHP's arrays do     *)
(* not: an account may be typed in several spellings, and the row of users *)
(* has one of them.  A connection that has not logged in has an empty      *)
(* UserData of its own, None.  user_lkey is only known to have been given  *)
(* out (keyed); a stale key is refused like a wrong password.              *)
(* Registration, persona creation, statistics and the replies are left     *)
(* out, as are the game servers' connections, except that one of them may  *)
(* end a player's (Kick).                                                  *)
(***************************************************************************)
EXTENDS Naturals

CONSTANTS
  Conns,       \* connections of players, each from an address of its own
  Users,       \* rows of users
  Nuids,       \* nuids as players type them, and as they are stored
  AccountOf(_), \* the account the database finds for a nuid
  RowNuid(_),  \* user_nuid of an account
  Personas,    \* rows of personas at the start
  Owner(_),    \* the account a persona belongs to (its user_id and email)
  Creds(_),    \* accounts whose password the player at a connection knows
  Bannable(_), \* accounts and addresses an administrator gives bans of a type
  MaxLogins,   \* bound: logins between two restarts
  None         \* null, an unset key

\* A ban is for clients (c) or for all (x); those for servers do not count here.
BanKinds == {"c", "x"}

ASSUME PlayerAssumption ==
  /\ \A n \in Nuids : AccountOf(n) \in Users
  /\ \A u \in Users : RowNuid(u) \in Nuids /\ AccountOf(RowNuid(u)) = u
  /\ Nuids \cap Conns = {}
  /\ \A p \in Personas : Owner(p) \in Users
  /\ \A c \in Conns : Creds(c) \subseteq Users
  /\ \A kind \in BanKinds : Bannable(kind) \subseteq Users \cup Conns
  /\ MaxLogins \in Nat
  /\ None \notin Users \cup Nuids \cup Personas \cup Conns \cup BanKinds \cup Nat

VARIABLES
  conn,        \* a connection as its two ends see it
  ud,          \* userData of each CSocket
  logins,      \* UserData objects made by logins since the start
  objs,        \* these objects
  byNuid,      \* UserData::_instance
  byUser,      \* UserData::_instanceByUserId
  byPersona,   \* UserData::_instanceByPersonaId
  registered,  \* names in CSocket::_instance
  sockByUser,  \* CSocket::_instanceByUserId
  cache,       \* bannedUserIP and bannedUserNuid
  ban,         \* type of the active row of banned for an account or address
  uOnline,     \* users.user_online
  pOnline,     \* personas.persona_online
  pRows,       \* the rows of personas that are left
  keyed        \* accounts with a user_lkey

userData == <<ud, logins, objs, byNuid, byUser, byPersona>>
csockets == <<conn, registered, sockByUser>>
bans == <<cache, ban>>
tables == <<uOnline, pOnline, pRows, keyed>>
vars == <<csockets, userData, bans, tables>>

Objects == 1..MaxLogins

Blank == [nuid |-> None, user |-> None, uIn |-> FALSE, pers |-> None, pIn |-> FALSE]

Unset(S) == [x \in S |-> None]

Offline(S) == [x \in S |-> FALSE]

Init ==
  /\ conn = [c \in Conns |-> "none"]
  /\ registered = {} /\ sockByUser = Unset(Users)
  /\ ud = Unset(Conns) /\ logins = 0 /\ objs = [o \in Objects |-> Blank]
  /\ byNuid = Unset(Nuids) /\ byUser = Unset(Users) /\ byPersona = Unset(Personas)
  /\ cache = {} /\ ban = Unset(Users \cup Conns)
  /\ uOnline = Offline(Users) /\ pOnline = Offline(Personas)
  /\ pRows = Personas /\ keyed = {}

(***************************************************************************)
(* The tables of sessions.                                                 *)
(***************************************************************************)
\* Slip: the whole table is emptied.
ByUserEmptied(o) == IF o = None THEN byUser ELSE Unset(Users)

\* UserData::unsetUserData: the object leaves the tables by id, not by nuid.
ByUserWithout(o) == IF o = None THEN byUser ELSE [byUser EXCEPT ![objs[o].user] = None]

ByPersonaWithout(o) ==
  IF o = None \/ objs[o].pers = None THEN byPersona
  ELSE [byPersona EXCEPT ![objs[o].pers] = None]

\* Slip: the connection stays in the table by account.
UnsetInstanceByName(c) ==
  /\ registered' = registered \ {c}
  /\ UNCHANGED <<sockByUser, byUser, byPersona>>

\* CSocket::unsetInstance goes by the account of the connection it closes.
UnsetInstance(c) ==
  /\ registered' = registered \ {c}
  /\ \/ /\ c \in registered /\ ud[c] # None
        /\ LET u == objs[ud[c]].user IN
             /\ sockByUser' = [sockByUser EXCEPT ![u] = None]
             /\ byUser' = ByUserWithout(byUser[u])
             /\ byPersona' = ByPersonaWithout(byUser[u])
     \/ /\ c \notin registered \/ ud[c] = None
        /\ UNCHANGED <<sockByUser, byUser, byPersona>>

(***************************************************************************)
(* A connection arrives, is dropped by its peer, and is given up after ten *)
(* empty reads; nothing is logged out then.                                *)
(***************************************************************************)
GetInstanceByServer(c) ==
  /\ conn[c] = "none"
  /\ \/ /\ c \in cache \/ ban[c] # None
        /\ conn' = [conn EXCEPT ![c] = "refused"]
        /\ cache' = cache \cup {c}
        /\ UNCHANGED registered
     \/ /\ c \notin cache /\ ban[c] = None
        /\ conn' = [conn EXCEPT ![c] = "open"]
        /\ registered' = registered \cup {c}
        /\ UNCHANGED cache
  /\ UNCHANGED <<sockByUser, userData, ban, tables>>

Drop(c) ==
  /\ conn[c] = "open"
  /\ conn' = [conn EXCEPT ![c] = "dead"]
  /\ UNCHANGED <<registered, sockByUser, userData, bans, tables>>

GiveUp(c) ==
  /\ conn[c] = "dead"
  /\ conn' = [conn EXCEPT ![c] = "lost"]
  /\ UnsetInstance(c)
  /\ UNCHANGED <<ud, logins, objs, byNuid, bans, tables>>

(***************************************************************************)
(* NuLogin, with a password or with the key of an earlier login.           *)
(***************************************************************************)
\* UserData::getInstance($nuid, true) makes a new session and takes the one of
\* this spelling out of the tables by id, if there is one.
Login(c, n) ==
  LET o == logins + 1
      u == AccountOf(n)
  IN
  /\ logins < MaxLogins
  /\ logins' = o
  /\ objs' = [objs EXCEPT ![o] = [Blank EXCEPT !.nuid = n, !.user = u, !.uIn = TRUE]]
  /\ byNuid' = [byNuid EXCEPT ![n] = o]
  /\ byUser' = ByUserWithout(byNuid[n])
  /\ byPersona' = ByPersonaWithout(byNuid[n])
  /\ ud' = [ud EXCEPT ![c] = o]
  /\ sockByUser' = [sockByUser EXCEPT ![u] = c]
  /\ uOnline' = [uOnline EXCEPT ![u] = TRUE]
  /\ UNCHANGED <<conn, registered, bans, pOnline, pRows>>

\* A ban is remembered under the spelling that was refused.
BanFound(n) ==
  /\ cache' = cache \cup {n}
  /\ UNCHANGED <<csockets, userData, ban, tables>>

\* Slip: bans for every service are not looked for.
NuLoginPasswordClientBan(c, n) ==
  LET u == AccountOf(n) IN
  /\ conn[c] = "open"
  /\ \/ (n \in cache \/ ban[u] = "c") /\ BanFound(n)
     \/ /\ n \notin cache /\ ban[u] # "c" /\ u \in Creds(c)
        /\ Login(c, n)
        /\ keyed' = keyed \cup {u}

NuLoginPassword(c, n) ==
  LET u == AccountOf(n) IN
  /\ conn[c] = "open"
  /\ \/ (n \in cache \/ ban[u] # None) /\ BanFound(n)
     \/ /\ n \notin cache /\ ban[u] = None /\ u \in Creds(c)
        /\ Login(c, n)
        /\ keyed' = keyed \cup {u}

\* Slip: only the database is asked for a ban.
NuLoginKeyUncached(c, u) ==
  LET n == RowNuid(u) IN
  /\ conn[c] = "open" /\ u \in Creds(c) \cap keyed
  /\ \/ ban[u] = "c" /\ BanFound(n)
     \/ ban[u] # "c" /\ Login(c, n) /\ UNCHANGED keyed

\* The key finds the row, and the row's spelling is looked for.
NuLoginKey(c, u) ==
  LET n == RowNuid(u) IN
  /\ conn[c] = "open" /\ u \in Creds(c) \cap keyed
  /\ \/ (n \in cache \/ ban[u] = "c") /\ BanFound(n)
     \/ n \notin cache /\ ban[u] # "c" /\ Login(c, n) /\ UNCHANGED keyed

(***************************************************************************)
(* NuLoginPersona takes the session it works on from the tables, which may *)
(* be that of another login to the account.  The personas are found by     *)
(* email, UserData::getInstance by the session's nuid: a login has put it  *)
(* there, and it is never taken out.                                       *)
(***************************************************************************)
\* Slips: the persona is looked up by its name alone, or the session not entered
\* into the table by account.
NuLoginPersonaByName(c, p) ==
  /\ conn[c] = "open" /\ ud[c] # None /\ p \in pRows
  /\ objs' = [objs EXCEPT ![ud[c]].pers = p, ![ud[c]].pIn = TRUE]
  /\ pOnline' = [pOnline EXCEPT ![p] = TRUE]
  /\ UNCHANGED <<csockets, ud, logins, byNuid, byUser, byPersona, bans, uOnline, pRows, keyed>>

NuLoginPersonaHidden(c, p) ==
  /\ conn[c] = "open" /\ ud[c] # None
  /\ p \in pRows /\ Owner(p) = AccountOf(objs[ud[c]].nuid)
  /\ objs' = [objs EXCEPT ![ud[c]].pers = p, ![ud[c]].pIn = TRUE]
  /\ pOnline' = [pOnline EXCEPT ![p] = TRUE]
  /\ UNCHANGED <<csockets, ud, logins, byNuid, byUser, byPersona, bans, uOnline, pRows, keyed>>

NuLoginPersona(c, p) ==
  /\ conn[c] = "open" /\ ud[c] # None
  /\ p \in pRows /\ Owner(p) = AccountOf(objs[ud[c]].nuid)
  /\ LET u == objs[ud[c]].user
         o == IF byUser[u] # None THEN byUser[u] ELSE byNuid[objs[ud[c]].nuid]
     IN /\ byUser' = [byUser EXCEPT ![u] = o]
        /\ ud' = [ud EXCEPT ![c] = o]
        /\ byPersona' = IF byPersona[p] # None THEN byPersona
                        ELSE [byPersona EXCEPT ![p] = byNuid[objs[o].nuid]]
        /\ objs' = [objs EXCEPT ![o].pers = p, ![o].pIn = TRUE]
  /\ pOnline' = [pOnline EXCEPT ![p] = TRUE]
  /\ UNCHANGED <<csockets, logins, byNuid, bans, uOnline, pRows, keyed>>

\* The row goes only if it is the account's, the session's persona in any case.
NuDisablePersona(c, p) ==
  /\ conn[c] = "open" /\ ud[c] # None /\ p \in pRows
  /\ \/ Owner(p) = objs[ud[c]].user /\ pRows' = pRows \ {p}
        /\ pOnline' = [pOnline EXCEPT ![p] = FALSE]
     \/ Owner(p) # objs[ud[c]].user /\ UNCHANGED <<pRows, pOnline>>
  /\ objs' = [objs EXCEPT ![ud[c]].pers = None]
  /\ UNCHANGED <<csockets, ud, logins, byNuid, byUser, byPersona, bans, uOnline, keyed>>

(***************************************************************************)
(* handleGoodbye: dbUserLogOut, then the connection is closed.             *)
(***************************************************************************)
\* Slip: only the persona's row is updated.
DbPersonaLogOut(o) ==
  \/ o = None /\ UNCHANGED <<objs, uOnline, pOnline>>
  \/ /\ o # None
     /\ objs' = [objs EXCEPT ![o].pIn = FALSE, ![o].uIn = FALSE]
     /\ pOnline' = IF objs[o].pIn /\ objs[o].pers # None
                     THEN [pOnline EXCEPT ![objs[o].pers] = FALSE] ELSE pOnline
     /\ UNCHANGED uOnline

DbUserLogOut(o) ==
  \/ o = None /\ UNCHANGED <<objs, uOnline, pOnline>>
  \/ /\ o # None
     /\ objs' = [objs EXCEPT ![o].pIn = FALSE, ![o].uIn = FALSE]
     /\ pOnline' = IF objs[o].pIn /\ objs[o].pers # None
                     THEN [pOnline EXCEPT ![objs[o].pers] = FALSE] ELSE pOnline
     /\ uOnline' = IF objs[o].uIn THEN [uOnline EXCEPT ![objs[o].user] = FALSE] ELSE uOnline

HandleGoodbye(c) ==
  /\ DbUserLogOut(ud[c])
  /\ conn' = [conn EXCEPT ![c] = "closed"]
  /\ UnsetInstance(c)
  /\ UNCHANGED <<ud, logins, byNuid, bans, pRows, keyed>>

Goodbye(c) == conn[c] = "open" /\ HandleGoodbye(c)

\* A game server asks for the statistics of a player without naming any key.
Kick(u) == sockByUser[u] # None /\ HandleGoodbye(sockByUser[u])

(***************************************************************************)
(* The administrator, and the process: it loses its memory, the start sets *)
(* everybody offline and retires the bans that have expired.               *)
(***************************************************************************)
EnterBan(x, kind) ==
  /\ ban[x] = None
  /\ ban' = [ban EXCEPT ![x] = kind]
  /\ UNCHANGED <<csockets, userData, cache, tables>>

Restart ==
  /\ registered' = {} /\ sockByUser' = Unset(Users)
  /\ ud' = Unset(Conns) /\ logins' = 0 /\ objs' = [o \in Objects |-> Blank]
  /\ byNuid' = Unset(Nuids) /\ byUser' = Unset(Users) /\ byPersona' = Unset(Personas)
  /\ cache' = {}
  /\ conn' = [c \in Conns |-> IF conn[c] \in {"open", "dead"} THEN "lost" ELSE conn[c]]
  /\ \E expired \in SUBSET {x \in Users \cup Conns : ban[x] # None} :
       ban' = [x \in Users \cup Conns |-> IF x \in expired THEN None ELSE ban[x]]
  /\ uOnline' = Offline(Users) /\ pOnline' = Offline(Personas)
  /\ UNCHANGED <<pRows, keyed>>

Request(c) ==
  \/ \E n \in Nuids : NuLoginPassword(c, n)
  \/ \E u \in Users : NuLoginKey(c, u)
  \/ \E p \in Personas : NuLoginPersona(c, p) \/ NuDisablePersona(c, p)
  \/ Goodbye(c)

Next ==
  \/ \E c \in Conns : GetInstanceByServer(c) \/ Drop(c) \/ GiveUp(c) \/ Request(c)
  \/ \E u \in Users : Kick(u)
  \/ \E kind \in BanKinds : \E x \in Bannable(kind) : EnterBan(x, kind)
  \/ Restart

Spec == Init /\ [][Next]_vars

-----------------------------------------------------------------------------
Ids == Objects \cup {None}

UserData == [nuid : Nuids \cup {None}, user : Users \cup {None}, uIn : BOOLEAN,
             pers : Personas \cup {None}, pIn : BOOLEAN]

TypeOK ==
  /\ conn \in [Conns -> {"none", "refused", "open", "dead", "closed", "lost"}]
  /\ ud \in [Conns -> Ids]
  /\ logins \in 0..MaxLogins
  /\ objs \in [Objects -> UserData]
  /\ byNuid \in [Nuids -> Ids]
  /\ byUser \in [Users -> Ids]
  /\ byPersona \in [Personas -> Ids]
  /\ registered \subseteq Conns
  /\ sockByUser \in [Users -> Conns \cup {None}]
  /\ cache \subseteq Nuids \cup Conns
  /\ ban \in [Users \cup Conns -> {"c", "x", None}]
  /\ uOnline \in [Users -> BOOLEAN]
  /\ pOnline \in [Personas -> BOOLEAN]
  /\ pRows \subseteq Personas
  /\ keyed \subseteq Users

\* The account of a connection's session, None without one.
Account(c) == IF ud[c] = None THEN None ELSE objs[ud[c]].user

\* Sessions move between objects and are shared by connections, yet a
\* connection never works on the session of an account whose login it did not
\* pass, nor a session on a persona of another account.
OwnSession ==
  /\ \A c \in Conns : Account(c) \in Creds(c) \cup {None}
  /\ \A o \in Objects : objs[o].pers # None => Owner(objs[o].pers) = objs[o].user

\* What CSocket::_instanceByUserId returns for an account is a connection that
\* is still registered and works for that account, so Kick ends the right one.
\* Holds where a player keeps to one account per connection.
KickTarget ==
  \A u \in Users : sockByUser[u] # None =>
    sockByUser[u] \in registered /\ Account(sockByUser[u]) = u

\* A connection that is alone on its account since the last start is found by
\* every table, and its account and persona are online: whatever others do,
\* and however late their ends are noticed.
SoleSession ==
  \A c \in Conns :
    LET o == ud[c] IN
    /\ conn[c] = "open" /\ o # None
    /\ \A d \in Conns \ {c} : Account(d) # Account(c)
    => /\ sockByUser[Account(c)] = c /\ uOnline[Account(c)]
       /\ objs[o].pIn /\ objs[o].pers # None =>
            byUser[Account(c)] = o /\ pOnline[objs[o].pers]

\* The account is only ever typed as it is stored.
OneSpelling(u) == \A n \in Nuids : AccountOf(n) = u => n = RowNuid(u)

\* An account that is only ever typed as it is stored is online only if a
\* connection for it has not said goodbye.
OnlineExplained ==
  \A u \in Users :
    OneSpelling(u) /\ uOnline[u] =>
      \E c \in Conns : Account(c) = u /\ conn[c] \in {"open", "dead", "lost"}

\* A player is lost to the game servers (no entry by user id) only through a
\* connection of the same account that logs in or is closed, or a restart.
LookupKept ==
  [][\A u \in Users :
       byUser[u] # None /\ byUser'[u] # byUser[u] =>
         \/ logins' = 0
         \/ \E c \in Conns :
              \/ ud'[c] # ud[c] /\ objs'[ud'[c]].user = u
              \/ Account(c) = u /\ c \in registered \ registered']_vars

\* A spelling that was refused once is remembered until a restart, and nobody
\* gets a session under it, also by the way in that does not look for bans of
\* the type it was refused for.
RefusedStaysOut ==
  [][\A n \in Nuids \cap cache :
       /\ logins' > logins => objs'[logins'].nuid # n
       /\ n \in cache' \/ logins' = 0]_vars

\* Under no spelling does the password of a banned account let in.  The only way
\* in is the key of an earlier login, past a ban for every service ("x"), as long
\* as the stored spelling has not been refused: refusals of others do not count.
BannedByKeyOnly ==
  [][\A u \in Users : ban[u] # None /\ logins' > logins /\ objs'[logins'].user = u =>
       ban[u] = "x" /\ u \in keyed /\ RowNuid(u) \notin cache]_vars
=============================================================================
