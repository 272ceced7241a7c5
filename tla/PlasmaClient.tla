---------------------------- MODULE PlasmaClient ----------------------------
(***************************************************************************)
(* The client side of the old C++ Plasma server: one clientSocket thread   *)
(* per connection, logging accounts and personas in and out of the         *)
(* database.  All threads send their SQL through the one sql::Statement of *)
(* CDatabase::Query, which executes and only then, in a second call, asks  *)
(* the statement for its result set: a thread that is overtaken between    *)
(* the two fetches whatever was executed last.                             *)
(*                                                                         *)
(* A row is named by the account or persona it stands for.  A result       *)
(* carries the columns of the query that made it (kind); reading a column  *)
(* it does not have throws, as does using the missing result of an UPDATE, *)
(* and nothing catches it (crashed).  Requests that only build a reply     *)
(* from constants change nothing here and are left out.                    *)
(***************************************************************************)
EXTENDS Naturals, FiniteSets

CONSTANTS
  Conns,          \* connections (and their threads)
  Users,          \* rows of users
  Personas,       \* rows of personas
  Owner(_),       \* user_id of a persona
  Creds(_),       \* accounts whose password the player at a connection knows
  RandPerThread,  \* rand() starts every thread with the same state (MSVC CRT)
  LookupKinds,    \* the reading requests players make, of {"names", "sites", "stats"}
  MaxDraws,       \* bound: keys drawn per connection
  None            \* no row, no key (user_id -1, NULL)

ASSUME AccountAssumption ==
  /\ \A p \in Personas : Owner(p) \in Users
  /\ \A c \in Conns : Creds(c) \subseteq Users
  /\ RandPerThread \in BOOLEAN
  /\ LookupKinds \subseteq {"names", "sites", "stats"}
  /\ MaxDraws \in Nat
  /\ None \notin Users \cup Personas

VARIABLES
  pc,        \* where each thread is
  user,      \* sockInfo.user_id
  uIn,       \* sockInfo.user_loggedIn
  pers,      \* sockInfo.persona_id
  pIn,       \* sockInfo.persona_loggedIn
  pkey,      \* sockInfo.persona_lkey
  draws,     \* keys the thread has drawn from randomString
  stmt,      \* last execution: by whom, which columns, which rows
  uOnline,   \* users.user_online
  pOnline,   \* personas.persona_online
  pLkey,     \* personas.persona_lkey
  crossed,   \* some thread has fetched the result of another's query
  crashed    \* an exception left a thread

session == <<user, uIn, pers, pIn, pkey, draws>>
rows == <<uOnline, pOnline, pLkey>>
vars == <<pc, session, stmt, rows, crossed, crashed>>

\* The key a thread's next call of randomString(30) returns.  rand() is never
\* seeded: where each thread has its own state, the n-th key of one connection
\* is the n-th key of every other.
NextKey(c) == IF RandPerThread THEN <<None, draws[c] + 1>> ELSE <<c, draws[c] + 1>>

Keys == (Conns \cup {None}) \X (1..MaxDraws)

Init ==
  /\ pc = [c \in Conns |-> "recv"]
  /\ user = [c \in Conns |-> None]
  /\ uIn = [c \in Conns |-> FALSE]
  /\ pers = [c \in Conns |-> None]
  /\ pIn = [c \in Conns |-> FALSE]
  /\ pkey = [c \in Conns |-> None]
  /\ draws = [c \in Conns |-> 0]
  /\ stmt = [by |-> None, kind |-> "none", rows |-> {}]
  /\ uOnline = [u \in Users |-> FALSE]
  /\ pOnline = [p \in Personas |-> FALSE]
  /\ pLkey = [p \in Personas |-> None]
  /\ crossed = FALSE
  /\ crashed = FALSE

Goto(c, from, to) == pc[c] = from /\ pc' = [pc EXCEPT ![c] = to]

(***************************************************************************)
(* CDatabase::Query.                                                       *)
(***************************************************************************)
Execute(c, kind, result) == stmt' = [by |-> c, kind |-> kind, rows |-> result]

\* getResultSet: crossed records that it was another thread's.
Fetch(c) ==
  /\ crossed' = (crossed \/ stmt.by # c)
  /\ UNCHANGED stmt

\* The handler uses a result that is NULL or lacks the column it reads.
Throws(c, from) ==
  /\ pc[c] = from /\ crashed' = TRUE
  /\ Fetch(c)
  /\ UNCHANGED <<pc, session, rows>>

(***************************************************************************)
(* NuLogin: SELECT by nuid and password, then UPDATE the one row found.    *)
(***************************************************************************)
NuLogin(c, u) ==
  /\ draws[c] < MaxDraws
  /\ Goto(c, "recv", "login")
  /\ Execute(c, "users", {u} \cap Creds(c))
  /\ UNCHANGED <<session, rows, crossed, crashed>>

LoginFound(c) ==
  /\ stmt.kind = "users" /\ Cardinality(stmt.rows) = 1
  /\ Goto(c, "login", "loginUpdate")
  /\ Fetch(c)
  /\ \E u \in stmt.rows : user' = [user EXCEPT ![c] = u]
  /\ uIn' = [uIn EXCEPT ![c] = TRUE]
  /\ draws' = [draws EXCEPT ![c] = @ + 1]
  /\ UNCHANGED <<pers, pIn, pkey, rows, crashed>>

\* Error 122 goes out when the count is not one, whatever the columns.
Rejected(c, from) ==
  /\ stmt.kind # "none" /\ Cardinality(stmt.rows) # 1
  /\ Goto(c, from, "recv")
  /\ Fetch(c)
  /\ UNCHANGED <<session, rows, crashed>>

LoginThrows(c) ==
  /\ \/ stmt.kind = "none"
     \/ stmt.kind # "users" /\ Cardinality(stmt.rows) = 1
  /\ Throws(c, "login")

LoginUpdate(c) ==
  /\ Goto(c, "loginUpdate", "recv")
  /\ Execute(c, "none", {})
  /\ uOnline' = [uOnline EXCEPT ![user[c]] = TRUE]
  /\ UNCHANGED <<session, pOnline, pLkey, crossed, crashed>>

(***************************************************************************)
(* NuLoginPersona: SELECT by the session's user_id and the name.           *)
(***************************************************************************)
\* Slip: the persona is looked up by its name alone.
NuLoginPersonaByName(c, p) ==
  /\ draws[c] < MaxDraws
  /\ Goto(c, "recv", "persona")
  /\ Execute(c, "personas", {p})
  /\ UNCHANGED <<session, rows, crossed, crashed>>

NuLoginPersona(c, p) ==
  /\ draws[c] < MaxDraws
  /\ Goto(c, "recv", "persona")
  /\ Execute(c, "personas", {q \in {p} : Owner(q) = user[c]})
  /\ UNCHANGED <<session, rows, crossed, crashed>>

PersonaFound(c) ==
  /\ stmt.kind = "personas" /\ Cardinality(stmt.rows) = 1
  /\ Goto(c, "persona", "personaUpdate")
  /\ Fetch(c)
  /\ \E p \in stmt.rows : pers' = [pers EXCEPT ![c] = p]
  /\ pIn' = [pIn EXCEPT ![c] = TRUE]
  /\ pkey' = [pkey EXCEPT ![c] = NextKey(c)]
  /\ draws' = [draws EXCEPT ![c] = @ + 1]
  /\ UNCHANGED <<user, uIn, rows, crashed>>

PersonaThrows(c) ==
  /\ \/ stmt.kind = "none"
     \/ stmt.kind # "personas" /\ Cardinality(stmt.rows) = 1
  /\ Throws(c, "persona")

\* Slip: the row gets another key than the player.
PersonaUpdateNewKey(c) ==
  /\ Goto(c, "personaUpdate", "recv")
  /\ Execute(c, "none", {})
  /\ pOnline' = [pOnline EXCEPT ![pers[c]] = TRUE]
  /\ pLkey' = [pLkey EXCEPT ![pers[c]] = NextKey(c)]
  /\ UNCHANGED <<session, uOnline, crossed, crashed>>

\* Slip: the condition on the row is left out.
PersonaUpdateEveryRow(c) ==
  /\ Goto(c, "personaUpdate", "recv")
  /\ Execute(c, "none", {})
  /\ pOnline' = [pOnline EXCEPT ![pers[c]] = TRUE]
  /\ pLkey' = [p \in Personas |-> pkey[c]]
  /\ UNCHANGED <<session, uOnline, crossed, crashed>>

PersonaUpdate(c) ==
  /\ Goto(c, "personaUpdate", "recv")
  /\ Execute(c, "none", {})
  /\ pOnline' = [pOnline EXCEPT ![pers[c]] = TRUE]
  /\ pLkey' = [pLkey EXCEPT ![pers[c]] = pkey[c]]
  /\ UNCHANGED <<session, uOnline, crossed, crashed>>

(***************************************************************************)
(* NuGetPersonas, GetPingSites and GetStats: a SELECT whose rows go into   *)
(* the reply.  GetStats reads its first row without asking if there is one.*)
(***************************************************************************)
LookupRows(c, kind) ==
  CASE kind = "names" -> {{p \in Personas : Owner(p) = user[c]}}
    [] kind = "sites" -> {{"site"}}
    [] kind = "stats" -> {{}, {"stat"}}

Lookup(c, kind) ==
  /\ Goto(c, "recv", kind)
  /\ \E r \in LookupRows(c, kind) : Execute(c, kind, r)
  /\ UNCHANGED <<session, rows, crossed, crashed>>

\* The columns the reply reads are there; a persona row has its name too.
Readable(kind) ==
  \/ stmt.kind \in {kind} \cup (IF kind = "names" THEN {"personas"} ELSE {})
  \/ stmt.rows = {}

LookupReply(c, kind) ==
  /\ stmt.kind # "none" /\ Readable(kind) /\ (kind = "stats" => stmt.rows # {})
  /\ Goto(c, kind, "recv")
  /\ Fetch(c)
  /\ UNCHANGED <<session, rows, crashed>>

LookupThrows(c, kind) ==
  /\ stmt.kind = "none" \/ ~Readable(kind) \/ (kind = "stats" /\ stmt.rows = {})
  /\ Throws(c, kind)

(***************************************************************************)
(* Goodbye, a closed connection or an unusable packet ends the loop; the   *)
(* thread then logs out in the database and removes its socket.            *)
(***************************************************************************)
Leave(c) ==
  /\ Goto(c, "recv", "logoutPersona")
  /\ UNCHANGED <<session, stmt, rows, crossed, crashed>>

\* Slip: a persona's logout ends the thread.
LogoutPersonaOnly(c) ==
  /\ pc[c] = "logoutPersona"
  /\ \/ /\ pIn[c] /\ pc' = [pc EXCEPT ![c] = "done"]
        /\ Execute(c, "none", {})
        /\ pOnline' = [pOnline EXCEPT ![pers[c]] = FALSE]
        /\ pLkey' = [pLkey EXCEPT ![pers[c]] = None]
     \/ /\ ~pIn[c] /\ pc' = [pc EXCEPT ![c] = "logoutUser"]
        /\ UNCHANGED <<stmt, pOnline, pLkey>>
  /\ UNCHANGED <<session, uOnline, crossed, crashed>>

LogoutPersona(c) ==
  /\ Goto(c, "logoutPersona", "logoutUser")
  /\ \/ /\ pIn[c]
        /\ Execute(c, "none", {})
        /\ pOnline' = [pOnline EXCEPT ![pers[c]] = FALSE]
        /\ pLkey' = [pLkey EXCEPT ![pers[c]] = None]
     \/ ~pIn[c] /\ UNCHANGED <<stmt, pOnline, pLkey>>
  /\ UNCHANGED <<session, uOnline, crossed, crashed>>

\* Slip: only the persona's row is updated.
LogoutUserForgotten(c) ==
  /\ Goto(c, "logoutUser", "done")
  /\ UNCHANGED <<session, stmt, rows, crossed, crashed>>

LogoutUser(c) ==
  /\ Goto(c, "logoutUser", "done")
  /\ \/ uIn[c] /\ Execute(c, "none", {}) /\ uOnline' = [uOnline EXCEPT ![user[c]] = FALSE]
     \/ ~uIn[c] /\ UNCHANGED <<stmt, uOnline>>
  /\ UNCHANGED <<session, pOnline, pLkey, crossed, crashed>>

Request(c) ==
  \/ \E u \in Users : NuLogin(c, u)
  \/ \E p \in Personas : NuLoginPersona(c, p)
  \/ \E kind \in LookupKinds : Lookup(c, kind)
  \/ Leave(c)

\* What the thread does without waiting for its peer.
Serve(c) ==
  \/ LoginFound(c) \/ LoginThrows(c) \/ LoginUpdate(c)
  \/ PersonaFound(c) \/ PersonaThrows(c) \/ PersonaUpdate(c)
  \/ Rejected(c, "login") \/ Rejected(c, "persona")
  \/ \E kind \in LookupKinds : LookupReply(c, kind) \/ LookupThrows(c, kind)
  \/ LogoutPersona(c) \/ LogoutUser(c)

Next == ~crashed /\ \E c \in Conns : Request(c) \/ Serve(c)

\* A thread between two packets runs on; nobody owes the server a packet.
Fairness == \A c \in Conns : WF_vars(~crashed /\ Serve(c))

Spec == Init /\ [][Next]_vars /\ Fairness

-----------------------------------------------------------------------------
TypeOK ==
  /\ pc \in [Conns -> {"recv", "login", "loginUpdate", "persona", "personaUpdate",
                       "logoutPersona", "logoutUser", "done"} \cup LookupKinds]
  /\ user \in [Conns -> Users \cup {None}]
  /\ uIn \in [Conns -> BOOLEAN]
  /\ pers \in [Conns -> Personas \cup {None}]
  /\ pIn \in [Conns -> BOOLEAN]
  /\ pkey \in [Conns -> Keys \cup {None}]
  /\ draws \in [Conns -> 0..MaxDraws]
  /\ stmt.by \in Conns \cup {None}
  /\ stmt.kind \in {"none", "users", "personas"} \cup LookupKinds
  /\ uOnline \in [Users -> BOOLEAN]
  /\ pOnline \in [Personas -> BOOLEAN]
  /\ pLkey \in [Personas -> Keys \cup {None}]
  /\ crossed \in BOOLEAN
  /\ crashed \in BOOLEAN

\* While no result went to the wrong thread, a session's account is one whose
\* password its player gave, and its persona belongs to such an account, also
\* after logins as several accounts on one connection.
AuthenticatedSession ==
  ~crossed =>
    \A c \in Conns :
      /\ uIn[c] => user[c] \in Creds(c)
      /\ pIn[c] => Owner(pers[c]) \in Creds(c)

\* An account or persona is marked online only while the thread that logged it
\* in still has its logout ahead, even when other threads log in and out
\* between any two of its queries.  Holds where every player keeps to one
\* account with one persona.
OnlineHasSession ==
  ~crossed =>
    /\ \A u \in Users : uOnline[u] =>
         \E c \in Conns : uIn[c] /\ user[c] = u /\ pc[c] # "done"
    /\ \A p \in Personas : pOnline[p] =>
         \E c \in Conns : pIn[c] /\ pers[c] = p /\ pc[c] \notin {"logoutUser", "done"}

\* The row of a persona in play carries the key its player was given, which is
\* how the Theater server recognises the player.  Holds where no account is in
\* use on two connections: the logout of one would clear the other's row.
SessionFindable ==
  ~crossed =>
    \A c \in Conns :
      /\ pIn[c] /\ pc[c] \notin {"personaUpdate", "logoutUser", "done"}
           => pOnline[pers[c]] /\ pLkey[pers[c]] = pkey[c]
      /\ uIn[c] /\ pc[c] \notin {"loginUpdate", "done"} => uOnline[user[c]]

\* A thread that left its loop completes its logout: in the end its account and
\* persona are offline, unless a fetched result went to the wrong thread.
LogoutCompletes ==
  \A c \in Conns :
    pc[c] = "logoutPersona" ~>
      \/ crashed \/ crossed
      \/ pc[c] = "done" /\ (uIn[c] => ~uOnline[user[c]]) /\ (pIn[c] => ~pOnline[pers[c]])

\* ClientThread.cpp:110 "//Check login": a connection is logged in to an
\* account only after its password was checked.
LoginChecked == \A c \in Conns : uIn[c] => user[c] \in Creds(c)
=============================================================================
