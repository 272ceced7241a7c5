------------------------- MODULE MasterServer_proofs ------------------------
(***************************************************************************)
(* Proofs about the two C++ servers on one database, for any number of     *)
(* players, accounts, personas and connections, whatever passwords the     *)
(* players know.  First Plasma alone: passwords are checked by a query whose*)
(* result is used two steps later, and what must be known of the steps     *)
(* between is what the statement holds when the thread that comes back to it*)
(* was the last to use it.  What is said of the rows needs players who do not*)
(* share: OneEach and Apart say so of the constants.  Then both: a key travels*)
(* from the thread that drew it to the row, from the row to a result and from*)
(* the result to the player Theater names; the invariant follows it.       *)
(***************************************************************************)
EXTENDS MasterServer, TLAPS

\* The rows of a result are of the table its columns are of.
RowsOfTable ==
  /\ stmt.kind = "users" => stmt.rows \subseteq Users
  /\ stmt.kind = "personas" => stmt.rows \subseteq Personas

\* A thread that will draw a key may.
DrawLeft ==
  \A c \in Conns : pc[c] \in {"login", "persona"} => draws[c] < MaxDraws

\* A thread that was the last to execute finds the result of its own query:
\* an account whose password it sent, a persona of its session's account.
OwnResult ==
  \A c \in Conns : stmt.by = c =>
    /\ pc[c] = "login" => stmt.kind = "users" /\ stmt.rows \subseteq Creds(c)
    /\ pc[c] = "persona" =>
         stmt.kind = "personas" /\ \A q \in stmt.rows : Owner(q) = user[c]

\* sockInfo.user_id is only ever set by a login.
UserByLogin == \A c \in Conns : user[c] # None => uIn[c]

IInv ==
  /\ TypeOK
  /\ RowsOfTable
  /\ DrawLeft
  /\ OwnResult
  /\ UserByLogin
  /\ AuthenticatedSession

\* No connection has a session at first.
LEMMA InitIInv == Init => IInv
<1> SUFFICES ASSUME Init PROVE IInv
  OBVIOUS
<1>1. TypeOK
  <2>1. /\ uIn \in [Conns -> BOOLEAN] /\ pIn \in [Conns -> BOOLEAN]
        /\ uOnline \in [Users -> BOOLEAN] /\ pOnline \in [Personas -> BOOLEAN]
        /\ crossed \in BOOLEAN /\ crashed \in BOOLEAN
    BY Zenon DEF Init
  <2> QED
    BY <2>1, AccountAssumption DEF Init, TypeOK
<1>2. RowsOfTable /\ DrawLeft /\ OwnResult /\ UserByLogin /\ AuthenticatedSession
  BY DEF Init, RowsOfTable, DrawLeft, OwnResult, UserByLogin, AuthenticatedSession
<1> QED
  BY <1>1, <1>2 DEF IInv

\* The key drawn next is one of those the bound allows.
LEMMA NextKeyType ==
  ASSUME NEW c \in Conns, draws[c] \in Nat, draws[c] < MaxDraws
  PROVE  NextKey(c) \in Keys
  BY AccountAssumption DEF NextKey, Keys

\* What the peer asks for: a query is executed, or the thread leaves its loop.
LEMMA RequestIInv ==
  ASSUME IInv, NEW c \in Conns, Request(c)
  PROVE  IInv'
<1> USE AccountAssumption DEF IInv, TypeOK, RowsOfTable, DrawLeft, OwnResult, UserByLogin,
                              AuthenticatedSession, session, rows, Execute, Goto
<1>1. ASSUME NEW u \in Users, NuLogin(c, u) PROVE IInv'
  BY <1>1 DEF NuLogin
<1>2. ASSUME NEW p \in Personas, NuLoginPersona(c, p) PROVE IInv'
  BY <1>2 DEF NuLoginPersona
<1>3. ASSUME NEW kind \in LookupKinds, Lookup(c, kind) PROVE IInv'
  BY <1>3 DEF Lookup
<1>4. ASSUME Leave(c) PROVE IInv'
  BY <1>4 DEF Leave
<1> QED
  BY <1>1, <1>2, <1>3, <1>4 DEF Request

\* What the thread does between two packets.
LEMMA ServeIInv ==
  ASSUME IInv, NEW c \in Conns, Serve(c)
  PROVE  IInv'
<1> USE AccountAssumption DEF IInv, TypeOK, RowsOfTable, DrawLeft, OwnResult, UserByLogin,
                              AuthenticatedSession, session, rows, Execute, Fetch, Goto
<1>1. ASSUME LoginFound(c) PROVE IInv'
  <2>1. TypeOK'
    BY <1>1 DEF LoginFound
  <2>2. RowsOfTable' /\ DrawLeft' /\ OwnResult'
    BY <1>1 DEF LoginFound
  <2>3. UserByLogin' /\ AuthenticatedSession'
    <3>1. PICK u \in stmt.rows : user' = [user EXCEPT ![c] = u]
      BY <1>1 DEF LoginFound
    <3>2. /\ user'[c] = u /\ uIn'[c] /\ u \in Users
          /\ ~crossed' => ~crossed /\ u \in Creds(c)
          /\ UNCHANGED <<pers, pIn>>
      BY <1>1, <3>1 DEF LoginFound
    <3>3. \A d \in Conns \ {c} : user'[d] = user[d] /\ uIn'[d] = uIn[d]
      BY <1>1, <3>1 DEF LoginFound
    <3> QED
      BY <3>2, <3>3
  <2> QED
    BY <2>1, <2>2, <2>3
<1>2. ASSUME NEW from, Throws(c, from) PROVE IInv'
  BY <1>2 DEF Throws
<1>3. ASSUME LoginUpdate(c) PROVE IInv'
  BY <1>3 DEF LoginUpdate
<1>4. ASSUME PersonaFound(c) PROVE IInv'
  <2>1. TypeOK'
    BY <1>4, NextKeyType DEF PersonaFound
  <2>2. RowsOfTable' /\ DrawLeft' /\ OwnResult'
    BY <1>4 DEF PersonaFound
  <2>3. UserByLogin' /\ AuthenticatedSession'
    <3>1. PICK p \in stmt.rows : pers' = [pers EXCEPT ![c] = p]
      BY <1>4 DEF PersonaFound
    <3>2. /\ pers'[c] = p /\ p \in Personas
          /\ ~crossed' => ~crossed /\ Owner(p) = user[c]
          /\ UNCHANGED <<user, uIn>>
      BY <1>4, <3>1 DEF PersonaFound
    <3>3. \A d \in Conns \ {c} : pers'[d] = pers[d] /\ pIn'[d] = pIn[d]
      BY <1>4, <3>1 DEF PersonaFound
    <3>4. ~crossed' => Owner(p) \in Creds(c)
      BY <3>2
    <3> QED
      BY <3>2, <3>3, <3>4
  <2> QED
    BY <2>1, <2>2, <2>3
<1>5. ASSUME PersonaUpdate(c) PROVE IInv'
  BY <1>5 DEF PersonaUpdate
<1>6. ASSUME NEW from, Rejected(c, from) PROVE IInv'
  BY <1>6 DEF Rejected
<1>7. ASSUME NEW kind \in LookupKinds, LookupReply(c, kind) PROVE IInv'
  BY <1>7 DEF LookupReply
<1>8. ASSUME LogoutPersona(c) PROVE IInv'
  <2>1. TypeOK'
    <3>1. CASE pIn[c]
      <4>1. /\ pc' = [pc EXCEPT ![c] = "logoutUser"]
            /\ stmt' = [by |-> c, kind |-> "none", rows |-> {}]
            /\ pOnline' = [pOnline EXCEPT ![pers[c]] = FALSE]
            /\ pLkey' = [pLkey EXCEPT ![pers[c]] = None]
            /\ UNCHANGED <<user, uIn, pers, pIn, pkey, draws, uOnline, crossed, crashed>>
        BY <1>8, <3>1 DEF LogoutPersona
      <4> QED
        BY <4>1
    <3>2. CASE ~pIn[c]
      BY <1>8, <3>2 DEF LogoutPersona
    <3> QED
      BY <3>1, <3>2
  <2>2. RowsOfTable' /\ DrawLeft' /\ OwnResult'
    BY <1>8 DEF LogoutPersona
  <2>3. UserByLogin' /\ AuthenticatedSession'
    BY <1>8 DEF LogoutPersona
  <2> QED
    BY <2>1, <2>2, <2>3
<1>9. ASSUME LogoutUser(c) PROVE IInv'
  <2>1. TypeOK'
    <3>1. CASE uIn[c]
      <4>1. /\ pc' = [pc EXCEPT ![c] = "done"]
            /\ stmt' = [by |-> c, kind |-> "none", rows |-> {}]
            /\ uOnline' = [uOnline EXCEPT ![user[c]] = FALSE]
            /\ UNCHANGED <<user, uIn, pers, pIn, pkey, draws, pOnline, pLkey, crossed, crashed>>
        BY <1>9, <3>1 DEF LogoutUser
      <4> QED
        BY <4>1
    <3>2. CASE ~uIn[c]
      BY <1>9, <3>2 DEF LogoutUser
    <3> QED
      BY <3>1, <3>2
  <2>2. RowsOfTable' /\ DrawLeft' /\ OwnResult'
    BY <1>9 DEF LogoutUser
  <2>3. UserByLogin' /\ AuthenticatedSession'
    BY <1>9 DEF LogoutUser
  <2> QED
    BY <2>1, <2>2, <2>3
<1> QED
  BY <1>1, <1>2, <1>3, <1>4, <1>5, <1>6, <1>7, <1>8, <1>9
     DEF Serve, LoginThrows, PersonaThrows, LookupThrows

\* Every step preserves the inductive invariant.
LEMMA NextIInv == IInv /\ [Next]_vars => IInv'
<1>1. ASSUME IInv, UNCHANGED vars PROVE IInv'
  BY <1>1 DEF vars, session, rows, IInv, TypeOK, RowsOfTable, DrawLeft, OwnResult,
              UserByLogin, AuthenticatedSession
<1> QED
  BY <1>1, RequestIInv, ServeIInv DEF Next

\* It holds in every reachable state.
LEMMA Invariance == Spec => []IInv
  BY InitIInv, NextIInv, PTL DEF Spec

\* Sessions, statement and rows keep their types, also when a thread has
\* fetched another's result.
THEOREM TypeCorrect == Spec => []TypeOK
  BY Invariance, PTL DEF IInv

\* Until a result has gone to the wrong thread, nobody has a session of an
\* account whose password he did not give, or with a persona of such a one.
THEOREM SessionsChecked == Spec => []AuthenticatedSession
  BY Invariance, PTL DEF IInv

-----------------------------------------------------------------------------

\* A thread about to write a login is logged in, and with a row of the table.
LoginHeld ==
  \A c \in Conns :
    /\ pc[c] = "loginUpdate" => uIn[c]
    /\ pc[c] = "personaUpdate" => pIn[c]
    /\ uIn[c] => user[c] \in Users
    /\ pIn[c] => pers[c] \in Personas

\* Every step keeps to that: only NuLogin and NuLoginPersona set the session, to a
\* row of the result.
LEMMA LoginHeldStep == IInv /\ LoginHeld /\ [Next]_vars => LoginHeld'
<1> SUFFICES ASSUME IInv, LoginHeld, [Next]_vars PROVE LoginHeld'
  OBVIOUS
<1> USE DEF IInv, TypeOK, RowsOfTable, LoginHeld, session, rows, Goto
<1>1. CASE UNCHANGED vars
  BY <1>1 DEF vars
<1>2. ASSUME NEW c \in Conns, Request(c) PROVE LoginHeld'
  BY <1>2, AccountAssumption, ZenonT(30) DEF Request, NuLogin, NuLoginPersona, Lookup, Leave
<1>3. ASSUME NEW c \in Conns, LoginFound(c) PROVE LoginHeld'
  BY <1>3 DEF LoginFound
<1>4. ASSUME NEW c \in Conns, PersonaFound(c) PROVE LoginHeld'
  BY <1>4 DEF PersonaFound
<1>5. ASSUME NEW c \in Conns, NEW from, Throws(c, from) \/ Rejected(c, from) PROVE LoginHeld'
  BY <1>5 DEF Throws, Rejected
<1>6. ASSUME NEW c \in Conns, NEW kind \in LookupKinds, LookupReply(c, kind) PROVE LoginHeld'
  BY <1>6 DEF LookupReply
<1>7. ASSUME NEW c \in Conns, LoginUpdate(c) \/ PersonaUpdate(c) PROVE LoginHeld'
  BY <1>7 DEF LoginUpdate, PersonaUpdate
<1>8. ASSUME NEW c \in Conns, LogoutPersona(c) \/ LogoutUser(c) PROVE LoginHeld'
  BY <1>8 DEF LogoutPersona, LogoutUser
<1> QED
  BY <1>1, <1>2, <1>3, <1>4, <1>5, <1>6, <1>7, <1>8
     DEF Next, Serve, LoginThrows, PersonaThrows, LookupThrows

\* Every player keeps to one account with one persona.
OneEach ==
  \A c \in Conns :
    /\ \A u, w \in Creds(c) : u = w
    /\ \A p, q \in Personas : Owner(p) \in Creds(c) /\ Owner(q) \in Creds(c) => p = q

\* No account is in use on two connections.
Apart == \A c, d \in Conns : \A u \in Creds(c) \cap Creds(d) : c = d

\* A request leaves the session and the rows as they are, and the thread before
\* its logout.
LEMMA RequestKeeps ==
  ASSUME IInv, NEW c \in Conns, Request(c)
  PROVE  /\ UNCHANGED <<session, rows, crossed>>
         /\ \A d \in Conns \ {c} : pc'[d] = pc[d]
         /\ pc[c] = "recv"
         /\ pc'[c] \notin {"loginUpdate", "personaUpdate", "logoutUser", "done"}
<1> USE DEF IInv, TypeOK, Goto
<1>1. ASSUME NEW u \in Users, NuLogin(c, u) PROVE pc'[c] = "login"
  BY <1>1 DEF NuLogin
<1>2. ASSUME NEW p \in Personas, NuLoginPersona(c, p) PROVE pc'[c] = "persona"
  BY <1>2 DEF NuLoginPersona
<1>3. ASSUME NEW kind \in LookupKinds, Lookup(c, kind) PROVE pc'[c] \in {"names", "sites", "stats"}
  BY <1>3, AccountAssumption DEF Lookup
<1>4. Leave(c) => pc'[c] = "logoutPersona"
  BY DEF Leave
<1>5. /\ UNCHANGED <<session, rows, crossed>>
      /\ \A d \in Conns \ {c} : pc'[d] = pc[d]
      /\ pc[c] = "recv"
  BY DEF Request, NuLogin, NuLoginPersona, Lookup, Leave
<1> QED
  BY <1>1, <1>2, <1>3, <1>4, <1>5 DEF Request

\* Where a player has one account and one persona, a login on a connection that is
\* already logged in finds the row it has; so a session never leaves a row behind.
LEMMA OnlineStep ==
  ASSUME OneEach, IInv, IInv', LoginHeld, OnlineHasSession, [Next]_vars
  PROVE  OnlineHasSession'
<1> SUFFICES ASSUME ~crossed' PROVE OnlineHasSession'
  BY DEF OnlineHasSession
<1> USE DEF IInv, TypeOK, LoginHeld, AuthenticatedSession, OnlineHasSession, session, rows, Goto
<1>1. CASE UNCHANGED vars
  BY <1>1 DEF vars
<1>2. ASSUME NEW c \in Conns, Request(c) PROVE OnlineHasSession'
  BY <1>2, RequestKeeps
<1>3. ASSUME NEW c \in Conns, LoginFound(c) PROVE OnlineHasSession'
  <2>1. /\ ~crossed /\ UNCHANGED <<pers, pIn, uOnline, pOnline>>
        /\ uIn'[c] /\ user'[c] \in Creds(c)
        /\ \A d \in Conns \ {c} : user'[d] = user[d] /\ uIn'[d] = uIn[d] /\ pc'[d] = pc[d]
        /\ pc[c] = "login" /\ pc'[c] = "loginUpdate"
    BY <1>3 DEF LoginFound, Fetch
  <2>2. uIn[c] => user'[c] = user[c]
    BY <2>1 DEF OneEach
  <2> QED
    BY <2>1, <2>2
<1>4. ASSUME NEW c \in Conns, PersonaFound(c) PROVE OnlineHasSession'
  <2>1. /\ ~crossed /\ UNCHANGED <<user, uIn, uOnline, pOnline>>
        /\ pIn'[c] /\ Owner(pers'[c]) \in Creds(c)
        /\ \A d \in Conns \ {c} : pers'[d] = pers[d] /\ pIn'[d] = pIn[d] /\ pc'[d] = pc[d]
        /\ pc[c] = "persona" /\ pc'[c] = "personaUpdate"
    BY <1>4 DEF PersonaFound, Fetch
  <2>2. pers'[c] \in Personas
    BY <1>4 DEF PersonaFound, RowsOfTable
  <2>3. pIn[c] => pers'[c] = pers[c]
    BY <2>1, <2>2 DEF OneEach
  <2> QED
    BY <2>1, <2>3
<1>5. ASSUME NEW c \in Conns, NEW from, Throws(c, from) PROVE OnlineHasSession'
  BY <1>5 DEF Throws, Fetch
<1>6. ASSUME NEW c \in Conns, NEW from, from # "done", Rejected(c, from) PROVE OnlineHasSession'
  BY <1>6 DEF Rejected, Fetch
<1>7. ASSUME NEW c \in Conns, NEW kind \in LookupKinds, LookupReply(c, kind)
      PROVE  OnlineHasSession'
  BY <1>7 DEF LookupReply, Fetch
<1>8. ASSUME NEW c \in Conns, LoginUpdate(c) PROVE OnlineHasSession'
  BY <1>8 DEF LoginUpdate
<1>9. ASSUME NEW c \in Conns, PersonaUpdate(c) PROVE OnlineHasSession'
  BY <1>9 DEF PersonaUpdate
<1>10. ASSUME NEW c \in Conns, LogoutPersona(c) PROVE OnlineHasSession'
  BY <1>10 DEF LogoutPersona
<1>11. ASSUME NEW c \in Conns, LogoutUser(c) PROVE OnlineHasSession'
  BY <1>11 DEF LogoutUser
<1> QED
  BY <1>1, <1>2, <1>3, <1>4, <1>5, <1>6, <1>7, <1>8, <1>9, <1>10, <1>11
     DEF Next, Serve, LoginThrows, PersonaThrows, LookupThrows

\* Where no account is in use on two connections, the rows a player's login wrote
\* are changed by his own threads only.
LEMMA FindableStep ==
  ASSUME Apart, IInv, IInv', LoginHeld, SessionFindable, [Next]_vars
  PROVE  SessionFindable'
<1> SUFFICES ASSUME ~crossed' PROVE SessionFindable'
  BY DEF SessionFindable
<1> USE DEF IInv, TypeOK, LoginHeld, AuthenticatedSession, SessionFindable, session, rows, Goto
<1>1. CASE UNCHANGED vars
  BY <1>1 DEF vars
<1>2. ASSUME NEW c \in Conns, Request(c) PROVE SessionFindable'
  BY <1>2, RequestKeeps
<1>3. ASSUME NEW c \in Conns, LoginFound(c) PROVE SessionFindable'
  BY <1>3 DEF LoginFound, Fetch
<1>4. ASSUME NEW c \in Conns, PersonaFound(c) PROVE SessionFindable'
  BY <1>4 DEF PersonaFound, Fetch
<1>5. ASSUME NEW c \in Conns, NEW from, Throws(c, from) PROVE SessionFindable'
  BY <1>5 DEF Throws, Fetch
<1>6. ASSUME NEW c \in Conns, NEW from \in {"login", "persona"}, Rejected(c, from)
      PROVE  SessionFindable'
  BY <1>6 DEF Rejected, Fetch
<1>7. ASSUME NEW c \in Conns, NEW kind \in LookupKinds, LookupReply(c, kind)
      PROVE  SessionFindable'
  BY <1>7, AccountAssumption DEF LookupReply, Fetch
<1>8. ASSUME NEW c \in Conns, LoginUpdate(c) PROVE SessionFindable'
  BY <1>8 DEF LoginUpdate
\* The rows another player's login or logout writes are not this one's.
<1>9. ~crossed => \A c, d \in Conns : c # d /\ pIn[c] /\ pIn[d] => pers[c] # pers[d]
  BY DEF Apart
<1>10. ~crossed => \A c, d \in Conns : c # d /\ uIn[c] /\ uIn[d] => user[c] # user[d]
  BY DEF Apart
<1>11. ASSUME NEW c \in Conns, PersonaUpdate(c) PROVE SessionFindable'
  BY <1>11, <1>9 DEF PersonaUpdate
<1>12. ASSUME NEW c \in Conns, LogoutPersona(c) PROVE SessionFindable'
  BY <1>12, <1>9 DEF LogoutPersona
<1>13. ASSUME NEW c \in Conns, LogoutUser(c) PROVE SessionFindable'
  BY <1>13, <1>10 DEF LogoutUser
<1> QED
  BY <1>1, <1>2, <1>3, <1>4, <1>5, <1>6, <1>7, <1>8, <1>11, <1>12, <1>13
     DEF Next, Serve, LoginThrows, PersonaThrows, LookupThrows

\* The logout has been written for a session once its thread is past it.
LoggedOut ==
  ~crossed =>
    \A c \in Conns :
      /\ uIn[c] /\ pc[c] = "done" => ~uOnline[user[c]]
      /\ pIn[c] /\ pc[c] \in {"logoutUser", "done"} => ~pOnline[pers[c]]

\* Where no account is in use on two connections, nothing marks a player online
\* again who has been logged out.
LEMMA LoggedOutStep ==
  ASSUME Apart, IInv, IInv', LoginHeld, LoggedOut, [Next]_vars
  PROVE  LoggedOut'
<1> SUFFICES ASSUME ~crossed' PROVE LoggedOut'
  BY DEF LoggedOut
<1> USE DEF IInv, TypeOK, LoginHeld, AuthenticatedSession, LoggedOut, session, rows, Goto
<1>1. CASE UNCHANGED vars
  BY <1>1 DEF vars
<1>2. ASSUME NEW c \in Conns, Request(c) PROVE LoggedOut'
  BY <1>2, RequestKeeps
<1>3. ASSUME NEW c \in Conns, LoginFound(c) PROVE LoggedOut'
  BY <1>3 DEF LoginFound, Fetch
<1>4. ASSUME NEW c \in Conns, PersonaFound(c) PROVE LoggedOut'
  BY <1>4 DEF PersonaFound, Fetch
<1>5. ASSUME NEW c \in Conns, NEW from, Throws(c, from) PROVE LoggedOut'
  BY <1>5 DEF Throws, Fetch
<1>6. ASSUME NEW c \in Conns, NEW from, Rejected(c, from) PROVE LoggedOut'
  BY <1>6 DEF Rejected, Fetch
<1>7. ASSUME NEW c \in Conns, NEW kind \in LookupKinds, LookupReply(c, kind)
      PROVE  LoggedOut'
  BY <1>7, AccountAssumption DEF LookupReply, Fetch
\* The rows another player's login writes are not this one's.
<1>8. ~crossed => \A c, d \in Conns : c # d /\ pIn[c] /\ pIn[d] => pers[c] # pers[d]
  BY DEF Apart
<1>9. ~crossed => \A c, d \in Conns : c # d /\ uIn[c] /\ uIn[d] => user[c] # user[d]
  BY DEF Apart
<1>10. ASSUME NEW c \in Conns, LoginUpdate(c) PROVE LoggedOut'
  BY <1>10, <1>9 DEF LoginUpdate
<1>11. ASSUME NEW c \in Conns, PersonaUpdate(c) PROVE LoggedOut'
  BY <1>11, <1>8 DEF PersonaUpdate
<1>12. ASSUME NEW c \in Conns, LogoutPersona(c) PROVE LoggedOut'
  BY <1>12 DEF LogoutPersona
<1>13. ASSUME NEW c \in Conns, LogoutUser(c) PROVE LoggedOut'
  BY <1>13 DEF LogoutUser
<1> QED
  BY <1>1, <1>2, <1>3, <1>4, <1>5, <1>6, <1>7, <1>10, <1>11, <1>12, <1>13
     DEF Next, Serve, LoginThrows, PersonaThrows, LookupThrows

\* OnlineHasSession, for players who keep to one account and one persona: a row that
\* says online belongs to a connection that is logged in with it, so the logout of
\* its thread is still to come, unless a result was used by the wrong thread.
THEOREM OnlineBySession == OneEach => (Spec => []OnlineHasSession)
<1> SUFFICES ASSUME OneEach PROVE Spec => []OnlineHasSession
  OBVIOUS
<1>1. Init => LoginHeld /\ OnlineHasSession
  BY DEF Init, LoginHeld, OnlineHasSession
<1>2. IInv /\ IInv' /\ LoginHeld /\ OnlineHasSession /\ [Next]_vars
        => LoginHeld' /\ OnlineHasSession'
  BY LoginHeldStep, OnlineStep
<1> QED
  BY <1>1, <1>2, Invariance, PTL DEF Spec

\* SessionFindable, for accounts in use on one connection each: the rows of a player
\* who is in play say online and hold his key, so Theater finds him by it, unless a
\* result was used by the wrong thread.
THEOREM Findable == Apart => (Spec => []SessionFindable)
<1> SUFFICES ASSUME Apart PROVE Spec => []SessionFindable
  OBVIOUS
<1>1. Init => LoginHeld /\ SessionFindable
  BY DEF Init, LoginHeld, SessionFindable
<1>2. IInv /\ IInv' /\ LoginHeld /\ SessionFindable /\ [Next]_vars
        => LoginHeld' /\ SessionFindable'
  BY LoginHeldStep, FindableStep
<1> QED
  BY <1>1, <1>2, Invariance, PTL DEF Spec

\* The safe half of LogoutCompletes, for accounts in use on one connection each:
\* once a thread has ended, its player's account and persona are offline, and stay
\* so, unless a result was used by the wrong thread.
THEOREM OfflineWhenDone ==
  Apart => (Spec => [](~crossed => \A c \in Conns : pc[c] = "done" =>
                         /\ uIn[c] => ~uOnline[user[c]]
                         /\ pIn[c] => ~pOnline[pers[c]]))
<1> SUFFICES ASSUME Apart
             PROVE  Spec => [](~crossed => \A c \in Conns : pc[c] = "done" =>
                                 /\ uIn[c] => ~uOnline[user[c]]
                                 /\ pIn[c] => ~pOnline[pers[c]])
  OBVIOUS
<1>1. Init => LoginHeld /\ LoggedOut
  BY DEF Init, LoginHeld, LoggedOut
<1>2. IInv /\ IInv' /\ LoginHeld /\ LoggedOut /\ [Next]_vars => LoginHeld' /\ LoggedOut'
  BY LoginHeldStep, LoggedOutStep
<1>3. LoggedOut => (~crossed => \A c \in Conns : pc[c] = "done" =>
                      /\ uIn[c] => ~uOnline[user[c]]
                      /\ pIn[c] => ~pOnline[pers[c]])
  BY DEF LoggedOut
<1> QED
  BY <1>1, <1>2, <1>3, Invariance, PTL DEF Spec

-----------------------------------------------------------------------------

TheaterTypes ==
  /\ tpc \in [Clients -> {"recv", "user", "llst", "glst", "done"}]
  /\ lkey \in [Clients -> Keys \cup {None}]
  /\ DOMAIN named = Clients
  /\ tcrossed \in BOOLEAN

\* The key in a session has been drawn, so the next one is another.
KeyDrawn ==
  \A c \in Conns : pkey[c] # None => pkey[c] \in Keys /\ pkey[c][2] <= draws[c]

\* A key on its way into a row has been given out for the row's persona.
KeySent ==
  \A c \in Conns : pc[c] = "personaUpdate" /\ pkey[c] # None => <<pkey[c], pers[c]>> \in issued

RowKeyIssued == \A p \in Personas : pLkey[p] # None => <<pLkey[p], p>> \in issued

\* What a Theater thread finds, if the result is its own, are rows that had the
\* key it looked up.
FoundIssued ==
  \A t \in Clients :
    tpc[t] = "user" /\ tstmt.by = t /\ tstmt.kind = "personas" =>
      \A p \in tstmt.rows : <<lkey[t], p>> \in issued

KeyInv ==
  /\ IInv /\ TheaterTypes
  /\ KeyDrawn /\ KeySent /\ RowKeyIssued /\ FoundIssued
  /\ NamedByIssuedKey

\* No key is given out at first.
LEMMA InitKeyInv == MasterInit => KeyInv
<1> SUFFICES ASSUME MasterInit PROVE KeyInv
  OBVIOUS
<1>1. IInv
  BY InitIInv DEF MasterInit
<1>2. TheaterTypes
  <2>1. tcrossed \in BOOLEAN
    BY Zenon DEF MasterInit, T!Init
  <2> QED
    BY <2>1 DEF MasterInit, T!Init, TheaterTypes
<1>3. KeyDrawn /\ KeySent /\ RowKeyIssued
  BY DEF MasterInit, Init, KeyDrawn, KeySent, RowKeyIssued
<1>4. FoundIssued /\ NamedByIssuedKey
  BY DEF MasterInit, T!Init, FoundIssued, NamedByIssuedKey
<1> QED
  BY <1>1, <1>2, <1>3, <1>4 DEF KeyInv

\* What has been given out stays given out.
LEMMA IssuedGrows == MasterNext => issued \subseteq issued'
  BY DEF MasterNext, PlasmaStep, TheaterStep

\* A key is drawn: it is new to its thread, and given out with the persona found.
LEMMA PersonaFoundKeys ==
  ASSUME KeyInv, PlasmaStep, NEW c \in Conns, PersonaFound(c)
  PROVE  KeyDrawn' /\ KeySent' /\ RowKeyIssued'
<1> USE DEF KeyInv, IInv, TypeOK
<1>1. /\ pkey' = [pkey EXCEPT ![c] = NextKey(c)] /\ draws' = [draws EXCEPT ![c] = @ + 1]
      /\ pc' = [pc EXCEPT ![c] = "personaUpdate"] /\ pc[c] = "persona"
      /\ pLkey' = pLkey
      /\ \A d \in Conns \ {c} : pers'[d] = pers[d]
  BY DEF PersonaFound, Goto, rows
<1>2. draws[c] \in Nat /\ draws[c] < MaxDraws
  BY <1>1, AccountAssumption DEF DrawLeft
<1>3. NextKey(c) \in Keys /\ NextKey(c)[2] = draws[c] + 1
  BY <1>2, NextKeyType DEF NextKey
<1>4. KeyDrawn'
  BY <1>1, <1>2, <1>3, AccountAssumption DEF KeyDrawn
<1>5. pkey'[c] # None => <<pkey'[c], pers'[c]>> \in issued'
  <2>1. pkey'[c] # None => pkey'[c] # pkey[c]
    BY <1>1, <1>2, <1>3 DEF KeyDrawn
  <2> QED
    BY <2>1 DEF PlasmaStep
<1> QED
  BY <1>1, <1>4, <1>5 DEF PlasmaStep, KeySent, RowKeyIssued

\* A key goes into the row, or out of it.
LEMMA RowKeys ==
  ASSUME KeyInv, PlasmaStep, NEW c \in Conns, PersonaUpdate(c) \/ LogoutPersona(c)
  PROVE  KeyDrawn' /\ KeySent' /\ RowKeyIssued'
<1> USE DEF KeyInv, IInv, TypeOK, session
<1>1. UNCHANGED session /\ issued \subseteq issued'
  BY DEF PersonaUpdate, LogoutPersona, PlasmaStep
<1>2. KeyDrawn'
  BY <1>1 DEF KeyDrawn
<1>3. KeySent'
  BY <1>1 DEF PersonaUpdate, LogoutPersona, Goto, KeySent
<1>4. CASE PersonaUpdate(c)
  BY <1>1, <1>2, <1>3, <1>4 DEF PersonaUpdate, Goto, KeySent, RowKeyIssued
<1>5. CASE LogoutPersona(c)
  BY <1>1, <1>2, <1>3, <1>5 DEF LogoutPersona, RowKeyIssued
<1> QED
  BY <1>4, <1>5

\* The other steps of Plasma do not touch keys.
LEMMA OtherKeys ==
  ASSUME KeyInv, PlasmaStep, UNCHANGED <<pkey, pers, pLkey>>,
         draws' \in [Conns -> 0..MaxDraws],
         \A c \in Conns : draws'[c] >= draws[c] /\ (pc'[c] = "personaUpdate" => pc[c] = "personaUpdate")
  PROVE  KeyDrawn' /\ KeySent' /\ RowKeyIssued'
<1> USE DEF KeyInv, IInv, TypeOK
<1>1. issued \subseteq issued'
  BY DEF PlasmaStep
<1>2. KeyDrawn'
  BY AccountAssumption DEF KeyDrawn, Keys
<1>3. KeySent' /\ RowKeyIssued'
  BY <1>1 DEF KeySent, RowKeyIssued
<1> QED
  BY <1>2, <1>3

\* Plasma's step preserves the invariant; it leaves Theater's part alone.
LEMMA PlasmaKeyInv == KeyInv /\ PlasmaStep => KeyInv'
<1> SUFFICES ASSUME KeyInv, PlasmaStep PROVE KeyInv'
  OBVIOUS
<1>1. IInv'
  BY NextIInv DEF KeyInv, PlasmaStep
<1>2. TheaterTypes' /\ FoundIssued' /\ (~tcrossed' => NamedByIssuedKey)
  BY IssuedGrows DEF KeyInv, PlasmaStep, MasterNext, theater, TheaterTypes, FoundIssued
<1>3. crossed => crossed'
  BY DEF KeyInv, IInv, TypeOK, PlasmaStep, Next, Request, Serve, NuLogin, NuLoginPersona, Lookup, Leave,
         LoginFound, LoginThrows, LoginUpdate, PersonaFound, PersonaThrows, PersonaUpdate, Rejected,
         LookupReply, LookupThrows, LogoutPersona, LogoutUser, Throws, Fetch
<1>4. NamedByIssuedKey'
  BY <1>2, <1>3, IssuedGrows DEF KeyInv, PlasmaStep, MasterNext, theater, NamedByIssuedKey
<1>5. KeyDrawn' /\ KeySent' /\ RowKeyIssued'
  <2>1. PICK c \in Conns : Request(c) \/ Serve(c)
    BY DEF PlasmaStep, Next
  <2>2. CASE PersonaFound(c)
    BY <2>2, PersonaFoundKeys
  <2>3. CASE PersonaUpdate(c) \/ LogoutPersona(c)
    BY <2>3, RowKeys
  <2>4. CASE LoginFound(c)
    BY <1>1, <2>4, OtherKeys DEF LoginFound, Goto, rows, KeyInv, IInv, TypeOK
  <2>5. CASE Request(c) \/ LoginThrows(c) \/ LoginUpdate(c) \/ PersonaThrows(c) \/ LogoutUser(c)
             \/ Rejected(c, "login") \/ Rejected(c, "persona")
             \/ \E kind \in LookupKinds : LookupReply(c, kind) \/ LookupThrows(c, kind)
    <3>1. UNCHANGED <<pkey, pers, draws, pLkey>>
      BY <2>5 DEF Request, NuLogin, NuLoginPersona, Lookup, Leave, LoginThrows, LoginUpdate,
                  PersonaThrows, Rejected, LookupReply, LookupThrows, LogoutUser, Throws, session, rows
    <3>2. \A d \in Conns : pc'[d] = "personaUpdate" => pc[d] = "personaUpdate"
      BY <2>5, AccountAssumption
         DEF Request, NuLogin, NuLoginPersona, Lookup, Leave, LoginThrows, LoginUpdate, PersonaThrows,
             Rejected, LookupReply, LookupThrows, LogoutUser, Throws, Goto, KeyInv, IInv, TypeOK
    <3> QED
      BY <3>1, <3>2, OtherKeys DEF KeyInv, IInv, TypeOK
  <2> QED
    BY <2>1, <2>2, <2>3, <2>4, <2>5 DEF Serve
<1> QED
  BY <1>1, <1>2, <1>4, <1>5 DEF KeyInv

\* Theater looks a key up.
LEMMA UserKeyInv ==
  ASSUME KeyInv, NEW t \in Clients, NEW k \in Keys \cup {None}, T!User(t, k), UNCHANGED <<rows, issued, crossed>>
  PROVE  TheaterTypes' /\ FoundIssued' /\ NamedByIssuedKey'
<1> USE DEF KeyInv, TheaterTypes, T!User, T!Ask, T!TGoto, T!TExecute, rows
<1>1. TheaterTypes'
  OBVIOUS
<1>2. NamedByIssuedKey'
  BY DEF NamedByIssuedKey
<1>3. FoundIssued'
  <2>1. CASE k # None
    <3>1. /\ lkey' = [lkey EXCEPT ![t] = k] /\ tpc' = [tpc EXCEPT ![t] = "user"]
          /\ tstmt' = [by |-> t, kind |-> "personas", rows |-> {p \in Personas : pLkey[p] = k}]
      BY <2>1
    <3>2. lkey'[t] = k /\ tstmt'.by = t /\ \A p \in tstmt'.rows : <<k, p>> \in issued
      BY <2>1, <3>1 DEF RowKeyIssued
    <3> QED
      BY <3>1, <3>2 DEF FoundIssued
  <2>2. CASE k = None
    BY <2>2 DEF FoundIssued
  <2> QED
    BY <2>1, <2>2
<1> QED
  BY <1>1, <1>2, <1>3

\* Theater names the player of the one row found.
LEMMA UserFoundKeyInv ==
  ASSUME KeyInv, NEW t \in Clients, T!UserFound(t), UNCHANGED <<issued, crossed>>
  PROVE  TheaterTypes' /\ FoundIssued' /\ NamedByIssuedKey'
<1> USE DEF KeyInv, TheaterTypes, T!UserFound, T!TFetch, T!TGoto, T!Reply
<1>1. PICK p \in tstmt.rows : named' = [named EXCEPT ![t] = <<lkey[t], p>>]
  OBVIOUS
<1>2. TheaterTypes'
  BY <1>1
<1>3. FoundIssued'
  BY DEF FoundIssued
<1>4. ~tcrossed' => <<lkey[t], p>> \in issued
  BY DEF FoundIssued
<1>5. NamedByIssuedKey'
  BY <1>1, <1>4 DEF NamedByIssuedKey
<1> QED
  BY <1>2, <1>3, <1>5

\* Theater's other steps name nobody, and look no key up.
LEMMA TheaterKeyInv == KeyInv /\ TheaterStep => KeyInv'
<1> SUFFICES ASSUME KeyInv, TheaterStep PROVE KeyInv'
  OBVIOUS
<1>1. UNCHANGED <<vars, issued>>
  BY DEF TheaterStep, vars
<1>2. IInv' /\ KeyDrawn' /\ KeySent' /\ RowKeyIssued'
  BY <1>1, NextIInv DEF KeyInv, vars, session, rows, KeyDrawn, KeySent, RowKeyIssued
<1>3. TheaterTypes' /\ FoundIssued' /\ NamedByIssuedKey'
  <2>1. PICK t \in Clients :
          \/ T!Conn(t) \/ T!LLst(t) \/ T!GLst(t) \/ T!Unhandled(t) \/ T!Leave(t)
          \/ \E k \in Keys \cup {None} : T!User(t, k)
          \/ T!TServe(t)
    BY DEF TheaterStep, T!TheaterNext
  <2>2. ASSUME NEW k \in Keys \cup {None}, T!User(t, k) PROVE TheaterTypes' /\ FoundIssued' /\ NamedByIssuedKey'
    BY <1>1, <2>2, UserKeyInv DEF vars
  <2>3. CASE T!UserFound(t)
    BY <1>1, <2>3, UserFoundKeyInv DEF vars
  <2>4. CASE T!LLst(t) \/ T!GLst(t)
    BY <1>1, <2>4 DEF T!LLst, T!GLst, T!TGoto, T!Ask, T!TExecute, T!sockInfo, vars,
                      KeyInv, TheaterTypes, FoundIssued, NamedByIssuedKey
  <2>5. CASE T!Conn(t) \/ T!Unhandled(t) \/ T!Leave(t)
    BY <1>1, <2>5 DEF T!Conn, T!Unhandled, T!Leave, T!TGoto, T!Ask, T!sockInfo, T!client, vars,
                      KeyInv, TheaterTypes, FoundIssued, NamedByIssuedKey
  <2>6. CASE T!UserUnknown(t) \/ T!UserThrows(t) \/ T!LLstReply(t) \/ T!LLstThrows(t) \/ T!GLstThrows(t)
    BY <1>1, <2>6 DEF T!UserUnknown, T!UserThrows, T!LLstReply, T!LLstThrows, T!GLstThrows, T!TGoto,
                      T!TFetch, T!TThrows, T!Reply, T!sockInfo, T!client, vars,
                      KeyInv, TheaterTypes, FoundIssued, NamedByIssuedKey
  <2> QED
    BY <2>1, <2>2, <2>3, <2>4, <2>5, <2>6 DEF T!TServe
<1> QED
  BY <1>2, <1>3 DEF KeyInv

\* Every step of either server preserves the invariant.
LEMMA StepKeyInv == KeyInv /\ [MasterNext]_<<vars, theater, issued>> => KeyInv'
<1>1. ASSUME KeyInv, UNCHANGED <<vars, theater, issued>> PROVE KeyInv'
  <2>1. IInv'
    BY <1>1, NextIInv DEF KeyInv
  <2> QED
    BY <1>1, <2>1 DEF KeyInv, vars, session, rows, theater, TheaterTypes, KeyDrawn, KeySent,
                      RowKeyIssued, FoundIssued, NamedByIssuedKey
<1> QED
  BY <1>1, PlasmaKeyInv, TheaterKeyInv DEF MasterNext

\* Theater names a player by a persona only if Plasma gave the key presented
\* out for that persona, unless one of the servers mixed up two results.
THEOREM KeysNamed == MasterSpec => []NamedByIssuedKey
<1>1. KeyInv => NamedByIssuedKey
  BY DEF KeyInv
<1> QED
  BY <1>1, InitKeyInv, StepKeyInv, PTL DEF MasterSpec

\* The only step in which a Theater thread comes to look a player up is USER.
LEMMA LooksUp ==
  ASSUME TheaterTypes, MasterNext, NEW t \in Clients, tpc[t] = "recv", tpc'[t] = "user"
  PROVE  \E k \in Keys \cup {None} : k # None /\ T!User(t, k) /\ UNCHANGED issued
<1> USE DEF TheaterTypes
<1>1. TheaterStep
  BY DEF MasterNext, PlasmaStep, theater
<1>2. PICK d \in Clients :
        \/ T!Conn(d) \/ T!LLst(d) \/ T!GLst(d) \/ T!Unhandled(d) \/ T!Leave(d)
        \/ \E k \in Keys \cup {None} : T!User(d, k)
        \/ T!TServe(d)
  BY <1>1 DEF TheaterStep, T!TheaterNext
<1>3. \E k \in Keys \cup {None} : T!User(d, k)
  BY <1>2 DEF T!Conn, T!LLst, T!GLst, T!Unhandled, T!Leave, T!TServe, T!UserFound, T!UserUnknown,
              T!UserThrows, T!LLstReply, T!LLstThrows, T!GLstThrows, T!TGoto, T!TThrows
<1>4. PICK k \in Keys \cup {None} : T!User(d, k)
  BY <1>3
<1>5. d = t /\ k # None
  BY <1>4 DEF T!User, T!TGoto
<1> QED
  BY <1>1, <1>4, <1>5 DEF TheaterStep

\* RefusedOnlyOnClash, for accounts in use on one connection each: a player in play
\* who presents his key in USER is found by it, and whoever is found with him was
\* given the same key.
THEOREM FoundByKey == Apart => (MasterSpec => RefusedOnlyOnClash)
<1> SUFFICES ASSUME Apart PROVE MasterSpec => RefusedOnlyOnClash
  OBVIOUS
<1>1. MasterInit => LoginHeld /\ SessionFindable
  BY DEF MasterInit, Init, LoginHeld, SessionFindable
<1>2. KeyInv /\ KeyInv' /\ LoginHeld /\ SessionFindable /\ [MasterNext]_<<vars, theater, issued>>
        => LoginHeld' /\ SessionFindable'
  <2>1. MasterNext => [Next]_vars
    BY DEF MasterNext, PlasmaStep, TheaterStep, vars
  <2>2. [MasterNext]_<<vars, theater, issued>> => [Next]_vars
    BY <2>1
  <2> QED
    BY <2>2, LoginHeldStep, FindableStep DEF KeyInv
<1>3. KeyInv /\ LoginHeld /\ SessionFindable /\ [MasterNext]_<<vars, theater, issued>>
        => [\A t \in Clients, c \in Conns :
              /\ ~crossed /\ InPlay(c)
              /\ tpc[t] = "recv" /\ tpc'[t] = "user" /\ lkey'[t] = pkey[c]
              => /\ pers[c] \in tstmt'.rows
                 /\ \A q \in tstmt'.rows : <<pkey[c], q>> \in issued]_<<vars, theater, issued>>
  <2> SUFFICES ASSUME KeyInv, LoginHeld, SessionFindable, MasterNext,
                      NEW t \in Clients, NEW c \in Conns,
                      ~crossed, InPlay(c), tpc[t] = "recv", tpc'[t] = "user", lkey'[t] = pkey[c]
               PROVE  /\ pers[c] \in tstmt'.rows
                      /\ \A q \in tstmt'.rows : <<pkey[c], q>> \in issued
    OBVIOUS
  <2>1. PICK k \in Keys \cup {None} : k # None /\ T!User(t, k) /\ UNCHANGED issued
    BY LooksUp DEF KeyInv
  <2>2. tstmt'.rows = {p \in Personas : pLkey[p] = k} /\ lkey'[t] = k
    BY <2>1 DEF T!User, T!TGoto, T!TExecute, KeyInv, TheaterTypes
  <2>3. pers[c] \in Personas /\ pLkey[pers[c]] = pkey[c]
    BY DEF InPlay, LoginHeld, SessionFindable
  <2> QED
    BY <2>1, <2>2, <2>3 DEF KeyInv, RowKeyIssued
<1> QED
  BY <1>1, <1>2, <1>3, InitKeyInv, StepKeyInv, PTL DEF MasterSpec, RefusedOnlyOnClash
=============================================================================
