--------------------------- MODULE PhpStats_proofs --------------------------
(***************************************************************************)
(* Proofs about PhpPlasma and PhpStats for any players, accounts, personas,*)
(* bans, game servers and reports.  Sessions are reached by connections and by*)
(* tables, and handlers copy pointers between the two; nobody ends up in   *)
(* another's session because every pointer kept for an account, wherever it is*)
(* kept, is to a session of that account.  Statistics add a copy of a row to a*)
(* session, and the copy is of a persona of the same account.              *)
(***************************************************************************)
EXTENDS PhpStats, TLAPS

USE DEF UserData

\* The session o has been made for account u.
SessionOf(o, u) == o \in 1..logins /\ objs[o].user = u

\* A session keeps a spelling of its account's nuid, one UserData::_instance knows.
Named ==
  \A o \in 1..logins :
    /\ objs[o].user \in Users /\ objs[o].nuid \in Nuids
    /\ AccountOf(objs[o].nuid) = objs[o].user /\ byNuid[objs[o].nuid] # None

\* What the tables find for an account, or for a spelling of its nuid, is a
\* session of it, and what a connection points at is a session.
TablesOwn ==
  /\ \A n \in Nuids : byNuid[n] # None => SessionOf(byNuid[n], AccountOf(n))
  /\ \A u \in Users : byUser[u] # None => SessionOf(byUser[u], u)
  /\ \A c \in Conns : ud[c] # None => ud[c] \in 1..logins

IInv == TypeOK /\ OwnSession /\ Named /\ TablesOwn

\* There are no sessions at first.
LEMMA InitIInv == Init => IInv
<1> SUFFICES ASSUME Init PROVE IInv
  OBVIOUS
<1>1. TypeOK
  <2>1. uOnline \in [Users -> BOOLEAN] /\ pOnline \in [Personas -> BOOLEAN]
    BY Zenon DEF Init, Offline
  <2>2. objs \in [Objects -> UserData]
    BY DEF Init, Blank
  <2> QED
    BY <2>1, <2>2, PlayerAssumption DEF Init, TypeOK, Unset, Ids
<1>2. OwnSession /\ Named /\ TablesOwn
  BY DEF Init, Unset, Blank, OwnSession, Account, Named, TablesOwn
<1> QED
  BY <1>1, <1>2 DEF IInv

\* A connection leaves the tables without disturbing what they say of others.
LEMMA UnsetTables ==
  ASSUME IInv, NEW c \in Conns, UnsetInstance(c)
  PROVE  /\ registered' \subseteq registered
         /\ sockByUser' \in [Users -> Conns \cup {None}]
         /\ byUser' \in [Users -> Ids] /\ byPersona' \in [Personas -> Ids]
         /\ \A u \in Users : byUser'[u] \in {byUser[u], None}
  BY DEF IInv, TypeOK, UnsetInstance, ByUserWithout, ByPersonaWithout, Ids

\* Connections come, fall silent and are given up.
LEMMA ConnectionIInv ==
  ASSUME IInv, NEW c \in Conns, GetInstanceByServer(c) \/ Drop(c) \/ GiveUp(c)
  PROVE  IInv'
<1> USE DEF IInv, TypeOK, OwnSession, Named, TablesOwn, SessionOf, Account, userData, tables, bans
<1>1. CASE GetInstanceByServer(c)
  BY <1>1 DEF GetInstanceByServer
<1>2. CASE Drop(c)
  BY <1>2 DEF Drop
<1>3. CASE GiveUp(c)
  BY <1>3, UnsetTables DEF GiveUp
<1> QED
  BY <1>1, <1>2, <1>3

\* A login makes a session for its account, the last one made.
LEMMA LoginIInv ==
  ASSUME IInv, NEW c \in Conns, NEW n \in Nuids, AccountOf(n) \in Creds(c), Login(c, n), keyed' \subseteq Users
  PROVE  IInv'
<1> DEFINE o == logins + 1
           u == AccountOf(n)
<1> USE DEF IInv
<1>1. o \in Objects /\ o \notin 1..logins /\ u \in Users /\ 1..logins \subseteq 1..o /\ 1..logins \subseteq Objects
  BY PlayerAssumption DEF Login, TypeOK, Objects
<1>2. /\ objs' = [objs EXCEPT ![o] = [Blank EXCEPT !.nuid = n, !.user = u, !.uIn = TRUE]]
      /\ logins' = o /\ ud' = [ud EXCEPT ![c] = o] /\ byNuid' = [byNuid EXCEPT ![n] = o]
  BY DEF Login
<1>3. byUser' \in [Users -> Ids] /\ byPersona' \in [Personas -> Ids] /\ \A w \in Users : byUser'[w] \in {byUser[w], None}
  BY DEF Login, TypeOK, ByUserWithout, ByPersonaWithout, Ids
<1>4. objs' \in [Objects -> UserData]
  <2>1. [Blank EXCEPT !.nuid = n, !.user = u, !.uIn = TRUE] \in UserData
    BY <1>1 DEF Blank
  <2> QED
    BY <1>2, <2>1 DEF TypeOK
<1>5. TypeOK'
  <2>1. /\ logins' \in 0..MaxLogins
        /\ ud' \in [Conns -> Ids] /\ byNuid' \in [Nuids -> Ids]
        /\ sockByUser' \in [Users -> Conns \cup {None}] /\ uOnline' \in [Users -> BOOLEAN]
    BY <1>1, <1>2 DEF Login, TypeOK, Ids, Objects
  <2> QED
    BY <1>3, <1>4, <2>1 DEF Login, TypeOK, bans
<1>6. /\ \A i \in Objects \ {o} : objs'[i] = objs[i]
      /\ objs'[o].user = u /\ objs'[o].nuid = n /\ objs'[o].pers = None
  BY <1>1, <1>2 DEF TypeOK, Blank
<1>7. \A i, w : SessionOf(i, w) => SessionOf(i, w)'
  BY <1>1, <1>2, <1>6 DEF SessionOf, Objects, TypeOK
<1>8. o # None /\ o \in 1..logins' /\ \A m \in Nuids : byNuid'[m] = (IF m = n THEN o ELSE byNuid[m])
  BY <1>1, <1>2, PlayerAssumption DEF Objects, TypeOK
<1>9. Named'
  <2>1. ASSUME NEW i \in 1..logins'
        PROVE  /\ objs'[i].user \in Users /\ objs'[i].nuid \in Nuids
               /\ AccountOf(objs'[i].nuid) = objs'[i].user /\ byNuid'[objs'[i].nuid] # None
    <3>1. CASE i = o
      BY <1>1, <1>6, <1>8, <3>1
    <3>2. CASE i # o
      <4>1. i \in 1..logins /\ objs'[i] = objs[i]
        BY <1>1, <1>2, <1>6, <3>2 DEF TypeOK
      <4> QED
        BY <1>8, <4>1 DEF Named
    <3> QED
      BY <3>1, <3>2
  <2> QED
    BY <2>1 DEF Named
<1>10. TablesOwn'
  <2>1. \A m \in Nuids : byNuid'[m] # None => SessionOf(byNuid[m], AccountOf(m))'
    <3> SUFFICES ASSUME NEW m \in Nuids, byNuid'[m] # None PROVE SessionOf(byNuid[m], AccountOf(m))'
      OBVIOUS
    <3>1. CASE m = n
      BY <1>6, <1>8, <3>1 DEF SessionOf
    <3>2. CASE m # n
      <4>1. byNuid'[m] = byNuid[m] /\ SessionOf(byNuid[m], AccountOf(m))
        BY <1>8, <3>2 DEF TablesOwn
      <4> QED
        BY <1>7, <4>1 DEF SessionOf
    <3> QED
      BY <3>1, <3>2
  <2>2. \A w \in Users : byUser'[w] # None => SessionOf(byUser[w], w)'
    <3> SUFFICES ASSUME NEW w \in Users, byUser'[w] # None PROVE SessionOf(byUser[w], w)'
      OBVIOUS
    <3>1. byUser'[w] = byUser[w] /\ SessionOf(byUser[w], w)
      BY <1>3 DEF TablesOwn
    <3> QED
      BY <1>7, <3>1 DEF SessionOf
  <2>3. \A d \in Conns : ud'[d] # None => ud'[d] \in 1..logins'
    BY <1>1, <1>2, <1>8 DEF TablesOwn, TypeOK
  <2> QED
    BY <2>1, <2>2, <2>3 DEF TablesOwn
<1>11. OwnSession'
  BY <1>1, <1>2, <1>6 DEF OwnSession, Account, TablesOwn, TypeOK, Objects
<1> QED
  BY <1>5, <1>9, <1>10, <1>11

\* The session NuLoginPersona works on.
Found(c) ==
  IF byUser[objs[ud[c]].user] # None THEN byUser[objs[ud[c]].user] ELSE byNuid[objs[ud[c]].nuid]

\* What NuLoginPersona finds: a session of the account, and one for the persona.
LEMMA PersonaFinds ==
  ASSUME IInv, NEW c \in Conns, NEW p \in Personas, NuLoginPersona(c, p)
  PROVE  /\ Account(c) \in Users /\ Account(c) = Owner(p) /\ Account(c) \in Creds(c)
         /\ ud[c] # None /\ ud[c] \in Objects /\ Account(c) = objs[ud[c]].user
         /\ Found(c) # None /\ Found(c) \in Objects /\ SessionOf(Found(c), Account(c))
         /\ byNuid[objs[Found(c)].nuid] # None /\ SessionOf(byNuid[objs[Found(c)].nuid], Account(c))
         /\ ud' = [ud EXCEPT ![c] = Found(c)] /\ byUser' = [byUser EXCEPT ![Account(c)] = Found(c)]
         /\ objs' = [objs EXCEPT ![Found(c)].pers = p, ![Found(c)].pIn = TRUE]
         /\ byPersona' = IF byPersona[p] # None THEN byPersona
                         ELSE [byPersona EXCEPT ![p] = byNuid[objs[Found(c)].nuid]]
         /\ UNCHANGED <<logins, byNuid>>
<1> DEFINE n == objs[ud[c]].nuid
           u == objs[ud[c]].user
<1> USE DEF IInv
<1>1. ud[c] # None /\ Owner(p) = AccountOf(n) /\ u = Account(c)
  BY Zenon DEF NuLoginPersona, Account
<1>2. /\ ud' = [ud EXCEPT ![c] = Found(c)] /\ byUser' = [byUser EXCEPT ![u] = Found(c)]
      /\ objs' = [objs EXCEPT ![Found(c)].pers = p, ![Found(c)].pIn = TRUE]
      /\ byPersona' = IF byPersona[p] # None THEN byPersona
                      ELSE [byPersona EXCEPT ![p] = byNuid[objs[Found(c)].nuid]]
      /\ UNCHANGED <<logins, byNuid>>
  BY Zenon DEF NuLoginPersona, Found
<1>3. ud[c] \in 1..logins /\ 1..logins \subseteq Objects
  BY <1>1, PlayerAssumption DEF TypeOK, TablesOwn, Objects
<1>4. u \in Users /\ n \in Nuids /\ AccountOf(n) = u /\ byNuid[n] # None
  BY <1>3 DEF Named
<1>5. u \in Creds(c)
  BY <1>1, <1>4, PlayerAssumption DEF OwnSession
<1>6. Found(c) # None /\ SessionOf(Found(c), u)
  BY <1>4 DEF TablesOwn, Found
<1>7. objs[Found(c)].nuid \in Nuids /\ AccountOf(objs[Found(c)].nuid) = u /\ byNuid[objs[Found(c)].nuid] # None
  BY <1>6 DEF Named, SessionOf
<1>8. SessionOf(byNuid[objs[Found(c)].nuid], u)
  BY <1>7 DEF TablesOwn
<1>9. Found(c) \in Objects /\ ud[c] \in Objects
  BY <1>3, <1>6 DEF SessionOf
<1> HIDE DEF n
<1> QED
  BY <1>1, <1>2, <1>4, <1>5, <1>6, <1>7, <1>8, <1>9

\* A session moves to the persona of a connection's account.
LEMMA PersonaIInv ==
  ASSUME IInv, NEW c \in Conns, NEW p \in Personas, NuLoginPersona(c, p)
  PROVE  IInv'
<1> DEFINE u == Account(c)
           o == Found(c)
           q == byNuid[objs[o].nuid]
<1>1. /\ u \in Users /\ u = Owner(p) /\ u \in Creds(c)
      /\ o # None /\ o \in Objects /\ SessionOf(o, u) /\ q # None /\ SessionOf(q, u)
      /\ ud' = [ud EXCEPT ![c] = o] /\ byUser' = [byUser EXCEPT ![u] = o]
      /\ objs' = [objs EXCEPT ![o].pers = p, ![o].pIn = TRUE]
      /\ byPersona' = IF byPersona[p] # None THEN byPersona ELSE [byPersona EXCEPT ![p] = q]
      /\ UNCHANGED <<logins, byNuid>>
  BY PersonaFinds
<1> HIDE DEF u, o, q
<1> USE DEF IInv
<1>2. 1..logins \subseteq Objects
  BY PlayerAssumption DEF TypeOK, Objects
<1>3. objs' \in [Objects -> UserData]
  <2> DEFINE moved == [objs EXCEPT ![o].pers = p]
  <2>1. moved \in [Objects -> UserData]
    <3>1. objs \in [Objects -> UserData]
      BY DEF TypeOK
    <3>2. [objs[o] EXCEPT !.pers = p] \in UserData
      BY <1>1, <3>1
    <3> HIDE DEF UserData
    <3> QED
      BY <3>1, <3>2
  <2>2. objs' = [moved EXCEPT ![o].pIn = TRUE]
    BY <1>1
  <2> HIDE DEF moved
  <2> QED
    BY <2>1, <2>2
<1>4. TypeOK'
  <2>1. ud' \in [Conns -> Ids] /\ byUser' \in [Users -> Ids] /\ byPersona' \in [Personas -> Ids]
    BY <1>1, <1>2 DEF TypeOK, Ids, SessionOf
  <2>2. pOnline' \in [Personas -> BOOLEAN]
    BY Zenon DEF NuLoginPersona, TypeOK
  <2>3. UNCHANGED <<conn, registered, sockByUser, logins, byNuid, cache, ban, uOnline, pRows, keyed>>
    BY Zenon DEF NuLoginPersona, csockets, bans
  <2> QED
    BY <1>3, <2>1, <2>2, <2>3 DEF TypeOK
<1>5. \A i \in Objects : /\ objs'[i].user = objs[i].user /\ objs'[i].nuid = objs[i].nuid
                         /\ objs'[i].pers = (IF i = o THEN p ELSE objs[i].pers)
  BY <1>1, ZenonT(30) DEF TypeOK
<1>6. \A i, w : SessionOf(i, w) => SessionOf(i, w)'
  BY <1>1, <1>2, <1>5, Zenon DEF SessionOf
<1>7. Named'
  BY <1>1, <1>2, <1>5 DEF Named
<1>8. TablesOwn'
  <2>1. ASSUME NEW m \in Nuids, byNuid'[m] # None PROVE SessionOf(byNuid[m], AccountOf(m))'
    <3>1. byNuid'[m] = byNuid[m] /\ SessionOf(byNuid[m], AccountOf(m))
      BY <1>1, <2>1 DEF TablesOwn
    <3> QED
      BY <1>6, <3>1 DEF SessionOf
  <2>2. ASSUME NEW w \in Users, byUser'[w] # None PROVE SessionOf(byUser[w], w)'
    <3>1. CASE w = u
      <4>1. byUser'[w] = o /\ SessionOf(o, w)
        BY <1>1, <3>1 DEF TypeOK
      <4> QED
        BY <1>6, <4>1 DEF SessionOf
    <3>2. CASE w # u
      <4>1. byUser'[w] = byUser[w] /\ SessionOf(byUser[w], w)
        BY <1>1, <2>2, <3>2 DEF TablesOwn, TypeOK
      <4> QED
        BY <1>6, <4>1 DEF SessionOf
    <3> QED
      BY <3>1, <3>2
  <2>3. \A d \in Conns : ud'[d] # None => ud'[d] \in 1..logins'
    BY <1>1 DEF TablesOwn, TypeOK, SessionOf
  <2> QED
    BY <2>1, <2>2, <2>3 DEF TablesOwn
<1>9. OwnSession'
  <2>1. ASSUME NEW d \in Conns PROVE Account(d)' \in Creds(d) \cup {None}
    <3>1. CASE d = c
      BY <1>1, <1>5, <3>1 DEF Account, SessionOf, TypeOK
    <3>2. CASE d # c
      <4>1. ud'[d] = ud[d] /\ ud[d] \in Ids
        BY <1>1, <3>2 DEF TypeOK
      <4>2. Account(d) \in Creds(d) \cup {None}
        BY DEF OwnSession
      <4> QED
        BY <1>5, <4>1, <4>2 DEF Account, Ids
    <3> QED
      BY <3>1, <3>2
  <2>2. ASSUME NEW i \in Objects, objs'[i].pers # None PROVE Owner(objs'[i].pers) = objs'[i].user
    BY <1>1, <1>5, <2>2 DEF OwnSession, SessionOf
  <2> QED
    BY <2>1, <2>2 DEF OwnSession
<1> QED
  BY <1>4, <1>7, <1>8, <1>9

\* A session loses its persona, or is logged out.
LEMMA DisableIInv ==
  ASSUME IInv, NEW c \in Conns, NEW p \in Personas, NuDisablePersona(c, p)
  PROVE  IInv'
<1> USE DEF IInv
<1>1. TypeOK'
  BY ZenonT(30) DEF NuDisablePersona, TypeOK, csockets, bans
<1>2. \A i \in Objects : /\ objs'[i].user = objs[i].user /\ objs'[i].nuid = objs[i].nuid
                         /\ objs'[i].pers \in {objs[i].pers, None}
  BY DEF NuDisablePersona, TypeOK
<1>3. Named' /\ TablesOwn'
  BY <1>2, PlayerAssumption DEF NuDisablePersona, csockets, Named, TablesOwn, SessionOf, TypeOK, Objects
<1>4. OwnSession'
  BY <1>2 DEF NuDisablePersona, csockets, OwnSession, Account, TypeOK, Ids
<1> QED
  BY <1>1, <1>3, <1>4

\* Goodbye takes entries out of the tables and puts none in.
LEMMA GoodbyeIInv ==
  ASSUME IInv, NEW c \in Conns, HandleGoodbye(c)
  PROVE  IInv'
<1> DEFINE SameSession(i) ==
             objs'[i].user = objs[i].user /\ objs'[i].nuid = objs[i].nuid /\ objs'[i].pers = objs[i].pers
<1> USE DEF IInv
<1>1. UnsetInstance(c) /\ UNCHANGED <<ud, logins, byNuid, bans, pRows, keyed>>
  BY DEF HandleGoodbye
<1>2. /\ objs' \in [Objects -> UserData]
      /\ uOnline' \in [Users -> BOOLEAN] /\ pOnline' \in [Personas -> BOOLEAN]
      /\ \A i \in Objects : SameSession(i)
  <2>1. CASE ud[c] = None
    BY <2>1 DEF HandleGoodbye, DbUserLogOut, TypeOK
  <2>2. CASE ud[c] # None
    <3> DEFINE o == ud[c]
    <3>1. /\ objs' = [objs EXCEPT ![o].pIn = FALSE, ![o].uIn = FALSE]
          /\ pOnline' = IF objs[o].pIn /\ objs[o].pers # None
                          THEN [pOnline EXCEPT ![objs[o].pers] = FALSE] ELSE pOnline
          /\ uOnline' = IF objs[o].uIn THEN [uOnline EXCEPT ![objs[o].user] = FALSE] ELSE uOnline
      BY <2>2 DEF HandleGoodbye, DbUserLogOut
    <3>2. uOnline' \in [Users -> BOOLEAN] /\ pOnline' \in [Personas -> BOOLEAN]
      BY <3>1 DEF TypeOK
    <3>3. \A i \in Objects : SameSession(i)
      BY <3>1 DEF TypeOK
    <3>4. objs' \in [Objects -> UserData]
      <4> DEFINE out == [objs EXCEPT ![o].pIn = FALSE]
      <4>1. out \in [Objects -> UserData]
        <5>1. objs \in [Objects -> UserData]
          BY DEF TypeOK
        <5>2. o \in Objects => [objs[o] EXCEPT !.pIn = FALSE] \in UserData
          BY <5>1
        <5> HIDE DEF UserData, o
        <5> QED
          BY <5>1, <5>2
      <4>2. objs' = [out EXCEPT ![o].uIn = FALSE]
        BY <3>1
      <4> HIDE DEF out
      <4> QED
        BY <4>1, <4>2
    <3> QED
      BY <3>2, <3>3, <3>4
  <2> QED
    BY <2>1, <2>2
<1>3. conn' \in [Conns -> {"none", "refused", "open", "dead", "closed", "lost"}]
  BY DEF HandleGoodbye, TypeOK
<1>4. TypeOK'
  BY <1>1, <1>2, <1>3, UnsetTables DEF TypeOK, bans
<1>5. \A i, w : SessionOf(i, w) => SessionOf(i, w)'
  <2>1. 1..logins \subseteq Objects
    BY PlayerAssumption DEF TypeOK, Objects
  <2> QED
    BY <1>1, <1>2, <2>1 DEF SessionOf
<1>6. TablesOwn' /\ Named' /\ OwnSession'
  <2>1. TablesOwn'
    BY <1>1, <1>5, UnsetTables DEF TablesOwn
  <2>2. 1..logins \subseteq Objects
    BY PlayerAssumption DEF TypeOK, Objects
  <2>3. Named'
    BY <1>1, <1>2, <2>2 DEF Named
  <2>4. OwnSession'
    BY <1>1, <1>2 DEF OwnSession, Account, TypeOK, Ids
  <2> QED
    BY <2>1, <2>3, <2>4
<1> QED
  BY <1>4, <1>6

\* A ban is entered or found; the process starts anew.
LEMMA BanIInv ==
  ASSUME IInv, \/ \E n \in Nuids : BanFound(n)
               \/ \E kind \in BanKinds : \E x \in Bannable(kind) : EnterBan(x, kind)
  PROVE  IInv'
  BY PlayerAssumption, SMTT(60) DEF BanKinds, BanFound, EnterBan, csockets, userData, tables, IInv, TypeOK, Named, TablesOwn,
                          SessionOf, OwnSession, Account

\* A restart empties every table.
LEMMA RestartIInv == IInv /\ Restart => IInv'
<1> SUFFICES ASSUME IInv, Restart PROVE IInv'
  OBVIOUS
<1>1. uOnline' \in [Users -> BOOLEAN] /\ pOnline' \in [Personas -> BOOLEAN]
  BY Zenon DEF Restart, Offline
<1>2. /\ conn' \in [Conns -> {"none", "refused", "open", "dead", "closed", "lost"}]
      /\ ban' \in [Users \cup Conns -> {"c", "x", None}]
  BY DEF Restart, IInv, TypeOK
<1>3. objs' \in [Objects -> UserData]
  BY DEF Restart, Blank
<1>4. TypeOK'
  BY <1>1, <1>2, <1>3, PlayerAssumption DEF Restart, Unset, IInv, TypeOK, Ids
<1>5. Named' /\ TablesOwn' /\ OwnSession'
  BY DEF Restart, Unset, Blank, Named, TablesOwn, OwnSession, Account
<1> QED
  BY <1>4, <1>5 DEF IInv

\* What a player asks for is a login, a refusal, or one of the above.
LEMMA LoginOrBan ==
  ASSUME IInv, NEW c \in Conns,
         \/ \E n \in Nuids : NuLoginPassword(c, n)
         \/ \E u \in Users : NuLoginKey(c, u)
  PROVE  \/ \E n \in Nuids : BanFound(n)
         \/ \E n \in Nuids \ cache :
              AccountOf(n) \in Creds(c) /\ Login(c, n) /\ keyed' \subseteq Users /\ conn[c] = "open"
  BY PlayerAssumption DEF NuLoginPassword, NuLoginKey, IInv, TypeOK

\* A request is one of the handlers above.
LEMMA RequestIInv ==
  ASSUME IInv, NEW c \in Conns, Request(c)
  PROVE  IInv'
  BY LoginOrBan, LoginIInv, BanIInv, PersonaIInv, DisableIInv, GoodbyeIInv DEF Request, Goodbye

\* Every step preserves the inductive invariant.
LEMMA NextIInv == IInv /\ [Next]_vars => IInv'
<1> SUFFICES ASSUME IInv, [Next]_vars PROVE IInv'
  OBVIOUS
<1>1. CASE \E c \in Conns : GetInstanceByServer(c) \/ Drop(c) \/ GiveUp(c) \/ Request(c)
  BY <1>1, ConnectionIInv, RequestIInv
<1>2. ASSUME NEW u \in Users, Kick(u) PROVE IInv'
  BY <1>2, GoodbyeIInv DEF Kick, IInv, TypeOK
<1>3. CASE UNCHANGED vars
  BY <1>3 DEF vars, csockets, userData, bans, tables, IInv, TypeOK, Named, TablesOwn, SessionOf,
                 OwnSession, Account
<1> QED
  BY <1>1, <1>2, <1>3, BanIInv, RestartIInv DEF Next

\* So every pointer is to a session of its account, always.
LEMMA Invariance == Spec => []IInv
  BY InitIInv, NextIInv, PTL DEF Spec

\* Nobody works on the session of an account whose login he did not pass, and
\* no session is on a persona of another account.
THEOREM OwnSessions == Spec => []OwnSession
  BY Invariance, PTL DEF IInv

\* What a login makes is a session under the spelling used.
LEMMA LoginMakes ==
  ASSUME IInv, NEW c \in Conns, NEW n \in Nuids, Login(c, n)
  PROVE  /\ logins' = logins + 1 /\ logins' \in Objects
         /\ objs'[logins'].nuid = n /\ objs'[logins'].user = AccountOf(n)
<1>1. logins' = logins + 1 /\ logins' \in Objects
  BY PlayerAssumption DEF Login, Objects, IInv, TypeOK
<1> QED
  BY <1>1 DEF Login, Blank, IInv, TypeOK

\* Apart from logins and restarts no step makes a session or forgets a refusal.
LEMMA OtherSteps ==
  ASSUME IInv, Next
  PROVE  \/ \E c \in Conns : \/ \E n \in Nuids : NuLoginPassword(c, n)
                             \/ \E u \in Users : NuLoginKey(c, u)
         \/ Restart
         \/ UNCHANGED logins /\ cache \subseteq cache'
<1>1. ASSUME NEW c \in Conns, GetInstanceByServer(c) \/ Drop(c) \/ GiveUp(c) \/ HandleGoodbye(c)
      PROVE  UNCHANGED logins /\ cache \subseteq cache'
  BY <1>1 DEF GetInstanceByServer, Drop, GiveUp, HandleGoodbye, userData, bans
<1>2. ASSUME NEW c \in Conns, NEW p \in Personas, NuLoginPersona(c, p) \/ NuDisablePersona(c, p)
      PROVE  UNCHANGED logins /\ cache \subseteq cache'
  BY <1>2, Zenon DEF NuLoginPersona, NuDisablePersona, bans
<1>3. ASSUME NEW kind \in BanKinds, NEW x \in Bannable(kind), EnterBan(x, kind)
      PROVE  UNCHANGED logins /\ cache \subseteq cache'
  BY <1>3 DEF EnterBan, userData
<1> QED
  BY <1>1, <1>2, <1>3 DEF Next, Request, Goodbye, Kick, IInv, TypeOK

\* A login is under a spelling that has not been refused.
LEMMA StepKinds ==
  ASSUME IInv, Next
  PROVE  \/ \E c \in Conns, n \in Nuids \ cache : Login(c, n)
         \/ Restart
         \/ UNCHANGED logins /\ cache \subseteq cache'
<1>1. ASSUME NEW n \in Nuids, BanFound(n) PROVE UNCHANGED logins /\ cache \subseteq cache'
  BY <1>1 DEF BanFound, userData
<1> QED
  BY <1>1, OtherSteps, LoginOrBan

\* A spelling that was refused stays out until the next start, by either way in.
THEOREM RefusalLasts == Spec => RefusedStaysOut
<1>1. IInv /\ [Next]_vars =>
        [\A n \in Nuids \cap cache :
           /\ logins' > logins => objs'[logins'].nuid # n
           /\ n \in cache' \/ logins' = 0]_vars
  <2> SUFFICES ASSUME IInv, Next, NEW n \in Nuids \cap cache
               PROVE  /\ logins' > logins => objs'[logins'].nuid # n
                      /\ n \in cache' \/ logins' = 0
    OBVIOUS
  <2>1. ASSUME NEW m \in Nuids \ cache, NEW c \in Conns, Login(c, m)
        PROVE  (logins' > logins => objs'[logins'].nuid # n) /\ n \in cache'
    BY <2>1, LoginMakes DEF Login, bans
  <2>2. CASE Restart
    BY <2>2 DEF Restart, IInv, TypeOK
  <2>3. CASE UNCHANGED logins /\ cache \subseteq cache'
    BY <2>3 DEF IInv, TypeOK
  <2> QED
    BY <2>1, <2>2, <2>3, StepKinds
<1> QED
  BY <1>1, Invariance, PTL DEF Spec, RefusedStaysOut

\* A banned account is entered only by the key of an earlier login.
THEOREM BannedByKey == Spec => BannedByKeyOnly
<1>1. IInv /\ [Next]_vars =>
        [\A u \in Users : ban[u] # None /\ logins' > logins /\ objs'[logins'].user = u =>
           ban[u] = "x" /\ u \in keyed /\ RowNuid(u) \notin cache]_vars
  <2> SUFFICES ASSUME IInv, Next, NEW u \in Users,
                      ban[u] # None, logins' > logins, objs'[logins'].user = u
               PROVE  ban[u] = "x" /\ u \in keyed /\ RowNuid(u) \notin cache
    OBVIOUS
  <2>0. logins' # logins /\ logins' # 0
    BY DEF IInv, TypeOK
  <2>1. PICK c \in Conns : \/ \E n \in Nuids : NuLoginPassword(c, n)
                           \/ \E w \in Users : NuLoginKey(c, w)
    BY <2>0, OtherSteps DEF Restart
  <2>2. ASSUME NEW n \in Nuids, NuLoginPassword(c, n) PROVE FALSE
    <3>1. Login(c, n) /\ ban[AccountOf(n)] = None
      BY <2>0, <2>2 DEF NuLoginPassword, BanFound, userData
    <3> QED
      BY <3>1, LoginMakes
  <2>3. ASSUME NEW w \in Users, NuLoginKey(c, w)
        PROVE  ban[u] = "x" /\ u \in keyed /\ RowNuid(u) \notin cache
    <3>1. Login(c, RowNuid(w)) /\ RowNuid(w) \notin cache /\ ban[w] # "c" /\ w \in keyed
      BY <2>0, <2>3 DEF NuLoginKey, BanFound, userData
    <3>2. u = w
      BY <3>1, LoginMakes, PlayerAssumption
    <3> QED
      BY <3>1, <3>2 DEF IInv, TypeOK
  <2> QED
    BY <2>1, <2>2, <2>3
<1> QED
  BY <1>1, Invariance, PTL DEF Spec, BannedByKeyOnly

\* A player is lost to the game servers only through a connection of his own
\* account, or a restart.
THEOREM LookupsKept == Spec => LookupKept
<1> DEFINE Explained(u) ==
      \/ logins' = 0
      \/ \E c \in Conns :
           \/ ud'[c] # ud[c] /\ objs'[ud'[c]].user = u
           \/ Account(c) = u /\ c \in registered \ registered'
<1>1. IInv /\ [Next]_vars =>
        [\A u \in Users : byUser[u] # None /\ byUser'[u] # byUser[u] => Explained(u)]_vars
  <2> SUFFICES ASSUME IInv, Next, NEW u \in Users, byUser[u] # None, byUser'[u] # byUser[u]
               PROVE  Explained(u)
    OBVIOUS
  <2> USE DEF IInv
  <2>1. ASSUME NEW c \in Conns, NEW n \in Nuids, Login(c, n) PROVE Explained(u)
    <3>1. u = AccountOf(n)
      BY <2>1 DEF Login, ByUserWithout, TypeOK, TablesOwn, SessionOf
    <3>2. ud'[c] = logins + 1 /\ ud'[c] # ud[c]
      BY <2>1, PlayerAssumption DEF Login, TypeOK, TablesOwn
    <3>3. logins' = logins + 1 /\ objs'[logins'].user = AccountOf(n)
      BY <2>1, LoginMakes
    <3>4. ud'[c] # ud[c] /\ objs'[ud'[c]].user = u
      BY <3>1, <3>2, <3>3
    <3> QED
      BY <3>4
  <2>2. ASSUME NEW c \in Conns, UnsetInstance(c) PROVE Explained(u)
    <3>1. c \in registered /\ ud[c] # None /\ registered' = registered \ {c}
      BY <2>2 DEF UnsetInstance
    <3>2. Account(c) = u
      <4>1. objs[ud[c]].user \in Users
        BY <3>1 DEF TablesOwn, Named
      <4> QED
        BY <2>2, <3>1, <4>1 DEF UnsetInstance, ByUserWithout, Account, TypeOK, TablesOwn, SessionOf
    <3> QED
      BY <3>1, <3>2
  <2>3. ASSUME NEW c \in Conns, GetInstanceByServer(c) \/ Drop(c) \/ GiveUp(c) \/ HandleGoodbye(c)
        PROVE  Explained(u)
    <3>1. CASE GetInstanceByServer(c) \/ Drop(c)
      BY <3>1, SMTT(30) DEF GetInstanceByServer, Drop, userData
    <3> QED
      BY <2>2, <2>3, <3>1 DEF GiveUp, HandleGoodbye
  <2>4. ASSUME NEW c \in Conns, NEW p \in Personas, NuLoginPersona(c, p) \/ NuDisablePersona(c, p)
        PROVE  FALSE
    <3>1. CASE NuLoginPersona(c, p)
      <4>1. /\ byUser' = [byUser EXCEPT ![Account(c)] = Found(c)]
            /\ Account(c) = objs[ud[c]].user
        BY <3>1, PersonaFinds
      <4> QED
        BY <4>1 DEF Found, TypeOK
    <3>2. CASE NuDisablePersona(c, p)
      BY <3>2 DEF NuDisablePersona
    <3> QED
      BY <2>4, <3>1, <3>2
  <2>5. CASE Restart
    BY <2>5 DEF Restart
  <2>6. ASSUME NEW kind \in BanKinds, NEW x \in Bannable(kind), EnterBan(x, kind)
        PROVE  FALSE
    BY <2>6 DEF EnterBan, userData
  <2>7. ASSUME NEW n \in Nuids, BanFound(n) PROVE FALSE
    BY <2>7 DEF BanFound, userData
  <2> QED
    BY <2>1, <2>3, <2>4, <2>5, <2>6, <2>7, LoginOrBan DEF Next, Request, Goodbye, Kick, TypeOK
<1> QED
  BY <1>1, Invariance, PTL DEF Spec, LookupKept

-----------------------------------------------------------------------------
\* For an account of one spelling, the tables know its last session or none, and
\* it is online only while that session is, for a connection that has not said
\* goodbye.
NewestOnline ==
  \A u \in Users : OneSpelling(u) =>
    LET o == byNuid[RowNuid(u)] IN
    /\ byUser[u] \in {o, None}
    /\ uOnline[u] =>
         /\ o # None /\ objs[o].uIn
         /\ \E c \in Conns : ud[c] = o /\ conn[c] \in {"open", "dead", "lost"}

\* A player knows the password of one account.
OneAccount == \A c \in Conns : \A u, w \in Creds(c) : u = w

\* Nobody is online at first.
LEMMA InitOnline == Init => NewestOnline
  BY PlayerAssumption DEF Init, Unset, Offline, NewestOnline

\* The last session is the one a login has just made.
LEMMA LoginOnline ==
  ASSUME OneAccount, IInv, NewestOnline, NEW c \in Conns, conn[c] = "open",
         NEW n \in Nuids, AccountOf(n) \in Creds(c), Login(c, n)
  PROVE  NewestOnline'
<1> DEFINE o == logins + 1
           u == AccountOf(n)
<1>1. u \in Users /\ o \in Objects /\ o # None /\ o \notin 1..logins
  BY PlayerAssumption DEF IInv, TypeOK, Objects, Login
<1>2. /\ byNuid' = [byNuid EXCEPT ![n] = o] /\ ud' = [ud EXCEPT ![c] = o]
      /\ uOnline' = [uOnline EXCEPT ![u] = TRUE] /\ byUser' = ByUserWithout(byNuid[n])
      /\ objs' = [objs EXCEPT ![o] = [Blank EXCEPT !.nuid = n, !.user = u, !.uIn = TRUE]]
      /\ UNCHANGED conn
  BY DEF Login
<1>3. objs'[o].uIn /\ \A i \in Objects \ {o} : objs'[i] = objs[i]
  BY <1>1, <1>2 DEF IInv, TypeOK, Blank
<1>4. ASSUME NEW w \in Users \ {u}
      PROVE  /\ RowNuid(w) \in Nuids /\ RowNuid(w) # n
             /\ byNuid'[RowNuid(w)] = byNuid[RowNuid(w)] /\ byNuid[RowNuid(w)] # o
             /\ uOnline'[w] = uOnline[w]
  <2>1. RowNuid(w) \in Nuids /\ RowNuid(w) # n
    BY PlayerAssumption
  <2> QED
    BY <1>1, <1>2, <2>1, PlayerAssumption DEF IInv, TypeOK, TablesOwn, SessionOf
<1>5. /\ \A w \in Users : byUser'[w] \in {byUser[w], None}
      /\ OneSpelling(u) => byUser'[u] = None /\ RowNuid(u) = n
  <2>1. OneSpelling(u) => RowNuid(u) = n
    BY DEF OneSpelling
  <2>2. CASE byNuid[n] = None
    BY <1>1, <1>2, <2>1, <2>2 DEF NewestOnline, ByUserWithout
  <2>3. CASE byNuid[n] # None
    BY <1>1, <1>2, <2>1, <2>3 DEF ByUserWithout, IInv, TypeOK, TablesOwn, SessionOf
  <2> QED
    BY <2>2, <2>3
<1>6. ASSUME NEW w \in Users \ {u}, OneSpelling(w), uOnline[w]
      PROVE  /\ byNuid[RowNuid(w)] \in Objects \ {o} /\ objs[byNuid[RowNuid(w)]].uIn
             /\ \E d \in Conns : ud'[d] = byNuid[RowNuid(w)] /\ conn[d] \in {"open", "dead", "lost"}
  <2>1. PICK d \in Conns : ud[d] = byNuid[RowNuid(w)] /\ conn[d] \in {"open", "dead", "lost"}
    BY <1>6 DEF NewestOnline
  <2>2. /\ byNuid[RowNuid(w)] # None /\ objs[byNuid[RowNuid(w)]].uIn
        /\ byNuid[RowNuid(w)] \in Objects \ {o} /\ objs[byNuid[RowNuid(w)]].user = w
    BY <1>4, <1>6, PlayerAssumption DEF NewestOnline, IInv, TypeOK, Ids, TablesOwn, SessionOf
  <2>3. d # c
    <3>1. Account(d) = w /\ w # None
      BY <2>1, <2>2, PlayerAssumption DEF Account
    <3> QED
      BY <1>1, <3>1 DEF OneAccount, IInv, OwnSession
  <2>4. ud'[d] = ud[d]
    BY <1>2, <2>3 DEF IInv, TypeOK
  <2> QED
    BY <2>1, <2>2, <2>4
<1>7. ud'[c] = o /\ byNuid'[n] = o
  BY <1>1, <1>2 DEF IInv, TypeOK
<1>8. ASSUME NEW w \in Users, OneSpelling(w)
      PROVE  /\ byUser'[w] \in {byNuid'[RowNuid(w)], None}
             /\ uOnline'[w] =>
                  /\ byNuid'[RowNuid(w)] # None /\ objs'[byNuid'[RowNuid(w)]].uIn
                  /\ \E d \in Conns : ud'[d] = byNuid'[RowNuid(w)] /\ conn'[d] \in {"open", "dead", "lost"}
  <2>1. CASE w = u
    BY <1>1, <1>2, <1>3, <1>5, <1>7, <1>8, <2>1
  <2>2. CASE w # u
    <3>1. byUser'[w] \in {byNuid'[RowNuid(w)], None}
      BY <1>4, <1>5, <1>8, <2>2 DEF NewestOnline
    <3>2. ASSUME uOnline'[w]
          PROVE  /\ byNuid'[RowNuid(w)] # None /\ objs'[byNuid'[RowNuid(w)]].uIn
                 /\ \E d \in Conns : ud'[d] = byNuid'[RowNuid(w)] /\ conn'[d] \in {"open", "dead", "lost"}
      <4>1. uOnline[w] /\ byNuid'[RowNuid(w)] = byNuid[RowNuid(w)]
        BY <1>4, <2>2, <3>2
      <4>2. byNuid[RowNuid(w)] # None
        BY <1>8, <4>1 DEF NewestOnline
      <4> QED
        BY <1>2, <1>3, <1>6, <1>8, <2>2, <4>1, <4>2
    <3> QED
      BY <3>1, <3>2
  <2> QED
    BY <2>1, <2>2
<1> QED
  BY <1>8 DEF NewestOnline, OneSpelling

\* A connection that takes up the last session of its account leaves it online.
LEMMA PersonaOnline ==
  ASSUME IInv, NewestOnline, NEW c \in Conns, NEW p \in Personas, NuLoginPersona(c, p)
  PROVE  NewestOnline'
<1> DEFINE u == Account(c)
           o == Found(c)
<1>1. /\ u \in Users /\ ud[c] # None /\ ud[c] \in Objects /\ u = objs[ud[c]].user
      /\ o # None /\ o \in Objects /\ objs[o].user = u
      /\ byUser' = [byUser EXCEPT ![u] = o] /\ ud' = [ud EXCEPT ![c] = o]
      /\ objs' = [objs EXCEPT ![o].pers = p, ![o].pIn = TRUE]
      /\ UNCHANGED byNuid
  BY PersonaFinds DEF SessionOf
<1>2. OneSpelling(u) => o = byNuid[RowNuid(u)]
  <2>1. ud[c] \in 1..logins
    BY <1>1 DEF IInv, TablesOwn
  <2>2. OneSpelling(u) => objs[ud[c]].nuid = RowNuid(u)
    BY <1>1, <2>1 DEF IInv, Named, OneSpelling
  <2> QED
    BY <1>1, <2>2 DEF NewestOnline, Found
<1>3. UNCHANGED <<uOnline, conn>>
  BY Zenon DEF NuLoginPersona, csockets
<1> HIDE DEF u, o
<1>4. \A i \in Objects : objs'[i].uIn = objs[i].uIn
  BY <1>1, ZenonT(30) DEF IInv, TypeOK
<1>5. ASSUME NEW w \in Users, OneSpelling(w) PROVE byUser'[w] \in {byNuid[RowNuid(w)], None}
  BY <1>1, <1>2, <1>5 DEF NewestOnline, IInv, TypeOK
<1>6. ASSUME NEW w \in Users, OneSpelling(w), NEW d \in Conns, ud[d] = byNuid[RowNuid(w)], byNuid[RowNuid(w)] # None
      PROVE  ud'[d] = byNuid[RowNuid(w)]
  <2>1. CASE d = c
    <3>1. u = w
      BY <1>1, <1>6, <2>1, PlayerAssumption DEF IInv, TablesOwn, SessionOf
    <3> QED
      BY <1>1, <1>2, <1>6, <2>1, <3>1 DEF IInv, TypeOK
  <2>2. CASE d # c
    BY <1>1, <1>6, <2>2 DEF IInv, TypeOK
  <2> QED
    BY <2>1, <2>2
<1>7. ASSUME NEW w \in Users, OneSpelling(w), uOnline[w]
      PROVE  /\ byNuid[RowNuid(w)] # None /\ objs'[byNuid[RowNuid(w)]].uIn
             /\ \E d \in Conns : ud'[d] = byNuid[RowNuid(w)] /\ conn[d] \in {"open", "dead", "lost"}
  <2>1. byNuid[RowNuid(w)] # None /\ byNuid[RowNuid(w)] \in Objects /\ objs[byNuid[RowNuid(w)]].uIn
    BY <1>7, PlayerAssumption DEF NewestOnline, IInv, TypeOK, Ids
  <2>2. PICK d \in Conns : ud[d] = byNuid[RowNuid(w)] /\ conn[d] \in {"open", "dead", "lost"}
    BY <1>7 DEF NewestOnline
  <2> QED
    BY <1>4, <1>6, <1>7, <2>1, <2>2
<1> QED
  BY <1>1, <1>3, <1>5, <1>7, ZenonT(30) DEF NewestOnline, OneSpelling

\* The logout of the last session of an account takes the account offline.
LEMMA GoodbyeOnline ==
  ASSUME IInv, NewestOnline, NEW c \in Conns, HandleGoodbye(c)
  PROVE  NewestOnline'
<1>1. /\ UNCHANGED <<ud, byNuid>> /\ conn' = [conn EXCEPT ![c] = "closed"]
      /\ \A u \in Users : byUser'[u] \in {byUser[u], None}
  BY UnsetTables DEF HandleGoodbye
<1>2. CASE ud[c] = None
  BY <1>1, <1>2, PlayerAssumption DEF HandleGoodbye, DbUserLogOut, NewestOnline, OneSpelling, IInv, TypeOK
<1>3. CASE ud[c] # None
  <2> DEFINE o == ud[c]
  <2>1. /\ objs' = [objs EXCEPT ![o].pIn = FALSE, ![o].uIn = FALSE]
        /\ uOnline' = IF objs[o].uIn THEN [uOnline EXCEPT ![objs[o].user] = FALSE] ELSE uOnline
    BY <1>3 DEF HandleGoodbye, DbUserLogOut
  <2>2. \A i \in Objects \ {o} : objs'[i].uIn = objs[i].uIn
    BY <2>1 DEF IInv, TypeOK
  <2>3. ASSUME NEW u \in Users, OneSpelling(u), uOnline'[u]
        PROVE  uOnline[u] /\ byNuid[RowNuid(u)] # o /\ byNuid[RowNuid(u)] \in Objects
    <3>1. uOnline[u]
      BY <2>1, <2>3 DEF IInv, TypeOK
    <3>2. byNuid[RowNuid(u)] # None /\ byNuid[RowNuid(u)] \in Objects
      BY <2>3, <3>1, PlayerAssumption DEF NewestOnline, IInv, TypeOK, Ids
    <3>3. byNuid[RowNuid(u)] = o => objs[o].uIn /\ objs[o].user = u
      BY <2>3, <3>1, <3>2, PlayerAssumption DEF NewestOnline, IInv, TablesOwn, SessionOf
    <3> QED
      BY <2>1, <2>3, <3>1, <3>2, <3>3 DEF IInv, TypeOK
  <2>4. ASSUME NEW u \in Users, OneSpelling(u), uOnline'[u]
        PROVE  /\ byNuid[RowNuid(u)] # None /\ objs'[byNuid[RowNuid(u)]].uIn
               /\ \E d \in Conns : ud[d] = byNuid[RowNuid(u)] /\ conn'[d] \in {"open", "dead", "lost"}
    <3>1. uOnline[u] /\ byNuid[RowNuid(u)] # o /\ byNuid[RowNuid(u)] \in Objects
      BY <2>3, <2>4
    <3>2. PICK d \in Conns : ud[d] = byNuid[RowNuid(u)] /\ conn[d] \in {"open", "dead", "lost"}
      BY <2>4, <3>1 DEF NewestOnline
    <3>3. conn'[d] = conn[d]
      BY <1>1, <3>1, <3>2 DEF IInv, TypeOK
    <3>4. objs[byNuid[RowNuid(u)]].uIn /\ byNuid[RowNuid(u)] # None
      BY <2>4, <3>1 DEF NewestOnline
    <3> QED
      BY <2>2, <3>1, <3>2, <3>3, <3>4
  <2>5. \A u \in Users : OneSpelling(u) => byUser'[u] \in {byNuid[RowNuid(u)], None}
    BY <1>1 DEF NewestOnline
  <2> QED
    BY <1>1, <2>4, <2>5 DEF NewestOnline, OneSpelling
<1> QED
  BY <1>2, <1>3

\* The other steps log nobody in or out.
LEMMA NextOnline ==
  ASSUME OneAccount, IInv, NewestOnline, [Next]_vars
  PROVE  NewestOnline'
<1>1. ASSUME NEW c \in Conns,
             \/ \E n \in Nuids : NuLoginPassword(c, n)
             \/ \E u \in Users : NuLoginKey(c, u)
      PROVE  NewestOnline'
  <2>1. ASSUME NEW n \in Nuids, BanFound(n) PROVE NewestOnline'
    BY <2>1 DEF BanFound, csockets, userData, tables, NewestOnline, OneSpelling
  <2> QED
    BY <1>1, <2>1, LoginOrBan, LoginOnline
<1>2. ASSUME NEW c \in Conns, GetInstanceByServer(c) \/ Drop(c) PROVE NewestOnline'
  BY <1>2 DEF GetInstanceByServer, Drop, userData, tables, NewestOnline, OneSpelling, IInv, TypeOK
<1>3. ASSUME NEW c \in Conns, GiveUp(c) PROVE NewestOnline'
  BY <1>3, UnsetTables DEF GiveUp, tables, NewestOnline, OneSpelling, IInv, TypeOK
<1>4. ASSUME NEW c \in Conns, NEW p \in Personas, NuDisablePersona(c, p) PROVE NewestOnline'
  <2>1. \A i \in Objects : objs'[i].uIn = objs[i].uIn
    BY <1>4 DEF NuDisablePersona, IInv, TypeOK
  <2> QED
    BY <1>4, <2>1, PlayerAssumption DEF NuDisablePersona, csockets, NewestOnline, OneSpelling, IInv, TypeOK, Ids
<1>5. ASSUME NEW kind \in BanKinds, NEW x \in Bannable(kind), EnterBan(x, kind) PROVE NewestOnline'
  BY <1>5 DEF EnterBan, csockets, userData, tables, NewestOnline, OneSpelling
<1>6. CASE Restart
  BY <1>6, PlayerAssumption DEF Restart, Unset, Offline, NewestOnline, OneSpelling
<1>7. CASE UNCHANGED vars
  BY <1>7 DEF vars, csockets, userData, tables, NewestOnline, OneSpelling
<1> QED
  BY <1>1, <1>2, <1>3, <1>4, <1>5, <1>6, <1>7, PersonaOnline, GoodbyeOnline
     DEF Next, Request, Goodbye, Kick, IInv, TypeOK

\* OnlineExplained: where each player keeps to one account, an account of one
\* spelling is online only if a connection for it has not said goodbye.
THEOREM OnlineByConnection == OneAccount => (Spec => []OnlineExplained)
<1> SUFFICES ASSUME OneAccount PROVE Spec => []OnlineExplained
  OBVIOUS
<1>1. IInv /\ NewestOnline /\ [Next]_vars => IInv' /\ NewestOnline'
  BY NextIInv, NextOnline
<1>2. IInv /\ NewestOnline => OnlineExplained
  BY PlayerAssumption DEF IInv, TablesOwn, SessionOf, NewestOnline, OnlineExplained, Account
<1> QED
  BY <1>1, <1>2, InitIInv, InitOnline, PTL DEF Spec

-----------------------------------------------------------------------------
\* A connection that has not ended is registered.
KickInv ==
  /\ KickTarget
  /\ \A c \in Conns : conn[c] \in {"open", "dead"} => c \in registered

\* Nobody has been kicked at first.
LEMMA InitKick == Init => KickInv
  BY DEF Init, Unset, KickInv, KickTarget

\* A connection leaves the table with the account it is found by.
LEMMA UnsetKick ==
  ASSUME IInv, KickInv, NEW c \in Conns, UnsetInstance(c), UNCHANGED ud,
         \A i \in Objects : objs'[i].user = objs[i].user,
         \A d \in Conns : conn'[d] \in {"open", "dead"} => d # c /\ conn[d] \in {"open", "dead"}
  PROVE  KickInv'
<1>1. registered' = registered \ {c}
  BY DEF UnsetInstance
<1>2. ASSUME NEW u \in Users, sockByUser'[u] # None
      PROVE  sockByUser[u] # c /\ sockByUser'[u] = sockByUser[u]
  <2>1. sockByUser[u] = c => c \in registered /\ ud[c] # None /\ objs[ud[c]].user = u
    BY PlayerAssumption DEF KickInv, KickTarget, Account
  <2>2. CASE c \in registered /\ ud[c] # None
    <3>1. sockByUser' = [sockByUser EXCEPT ![objs[ud[c]].user] = None]
      BY <2>2 DEF UnsetInstance
    <3> QED
      BY <1>2, <2>1, <3>1 DEF IInv, TypeOK
  <2>3. CASE c \notin registered \/ ud[c] = None
    BY <2>1, <2>3 DEF UnsetInstance
  <2> QED
    BY <2>2, <2>3
<1>3. \A d \in Conns : Account(d)' = Account(d)
  BY DEF Account, IInv, TypeOK, Ids
<1> QED
  BY <1>1, <1>2, <1>3 DEF KickInv, KickTarget, IInv, TypeOK

\* A login makes its session the one found for the account.
LEMMA LoginKick ==
  ASSUME OneAccount, IInv, KickInv, NEW c \in Conns, conn[c] = "open",
         NEW n \in Nuids, AccountOf(n) \in Creds(c), Login(c, n)
  PROVE  KickInv'
<1> DEFINE o == logins + 1
           u == AccountOf(n)
<1>1. u \in Users /\ o \in Objects /\ o # None /\ o \notin 1..logins
  BY PlayerAssumption DEF IInv, TypeOK, Objects, Login
<1>2. /\ ud' = [ud EXCEPT ![c] = o] /\ sockByUser' = [sockByUser EXCEPT ![u] = c]
      /\ objs' = [objs EXCEPT ![o] = [Blank EXCEPT !.nuid = n, !.user = u, !.uIn = TRUE]]
      /\ UNCHANGED <<conn, registered>>
  BY DEF Login
<1>3. Account(c)' = u
  BY <1>1, <1>2 DEF Account, Blank, IInv, TypeOK
<1>4. \A d \in Conns \ {c} : Account(d)' = Account(d)
  BY <1>1, <1>2 DEF Account, IInv, TypeOK, TablesOwn, SessionOf
<1>5. \A w \in Users \ {u} : sockByUser[w] # c
  BY <1>1, PlayerAssumption DEF KickInv, KickTarget, IInv, OwnSession, OneAccount
<1> QED
  BY <1>1, <1>2, <1>3, <1>4, <1>5 DEF KickInv, KickTarget, IInv, TypeOK

\* What a connection moves to is a session of the same account.
LEMMA PersonaKick ==
  ASSUME IInv, KickInv, NEW c \in Conns, NEW p \in Personas, NuLoginPersona(c, p)
  PROVE  KickInv'
<1> DEFINE u == Account(c)
           o == Found(c)
<1>1. /\ ud[c] # None /\ ud[c] \in Objects /\ u = objs[ud[c]].user
      /\ o # None /\ o \in Objects /\ objs[o].user = u
      /\ ud' = [ud EXCEPT ![c] = o] /\ objs' = [objs EXCEPT ![o].pers = p, ![o].pIn = TRUE]
  BY PersonaFinds DEF SessionOf
<1>2. UNCHANGED <<conn, registered, sockByUser>>
  BY Zenon DEF NuLoginPersona, csockets
<1> HIDE DEF u, o
<1>3. \A i \in Objects : objs'[i].user = objs[i].user
  BY <1>1, ZenonT(30) DEF IInv, TypeOK
<1>4. \A d \in Conns : Account(d)' = Account(d)
  <2>1. Account(c)' = Account(c)
    BY <1>1, <1>3 DEF Account, IInv, TypeOK, u
  <2>2. ASSUME NEW d \in Conns \ {c} PROVE Account(d)' = Account(d)
    BY <1>1, <1>3 DEF Account, IInv, TypeOK, Ids
  <2> QED
    BY <2>1, <2>2
<1> QED
  BY <1>2, <1>4 DEF KickInv, KickTarget, IInv, TypeOK

\* Goodbye ends with its own connection closed.
LEMMA GoodbyeKick ==
  ASSUME IInv, KickInv, NEW c \in Conns, HandleGoodbye(c)
  PROVE  KickInv'
<1>1. \A i \in Objects : objs'[i].user = objs[i].user
  <2>1. CASE ud[c] = None
    BY <2>1 DEF HandleGoodbye, DbUserLogOut
  <2>2. CASE ud[c] # None
    <3>1. objs' = [objs EXCEPT ![ud[c]].pIn = FALSE, ![ud[c]].uIn = FALSE]
      BY <2>2 DEF HandleGoodbye, DbUserLogOut
    <3> QED
      BY <3>1 DEF IInv, TypeOK
  <2> QED
    BY <2>1, <2>2
<1>2. UnsetInstance(c) /\ UNCHANGED ud /\ conn' = [conn EXCEPT ![c] = "closed"]
  BY DEF HandleGoodbye
<1> QED
  BY <1>1, <1>2, UnsetKick DEF IInv, TypeOK

\* The other steps do not touch the table.
LEMMA NextKick ==
  ASSUME OneAccount, IInv, KickInv, [Next]_vars
  PROVE  KickInv'
<1>1. ASSUME NEW c \in Conns,
             \/ \E n \in Nuids : NuLoginPassword(c, n)
             \/ \E u \in Users : NuLoginKey(c, u)
      PROVE  KickInv'
  <2>1. ASSUME NEW n \in Nuids, BanFound(n) PROVE KickInv'
    BY <2>1 DEF BanFound, csockets, userData, KickInv, KickTarget, Account
  <2> QED
    BY <1>1, <2>1, LoginOrBan, LoginKick
<1>2. ASSUME NEW c \in Conns, GetInstanceByServer(c) \/ Drop(c) PROVE KickInv'
  BY <1>2 DEF GetInstanceByServer, Drop, userData, KickInv, KickTarget, Account, IInv, TypeOK
<1>3. ASSUME NEW c \in Conns, GiveUp(c) PROVE KickInv'
  BY <1>3, UnsetKick DEF GiveUp, IInv, TypeOK
<1>4. ASSUME NEW c \in Conns, NEW p \in Personas, NuDisablePersona(c, p) PROVE KickInv'
  <2>1. \A i \in Objects : objs'[i].user = objs[i].user
    BY <1>4 DEF NuDisablePersona, IInv, TypeOK
  <2>2. \A d \in Conns : Account(d)' = Account(d)
    BY <1>4, <2>1 DEF NuDisablePersona, Account, IInv, TypeOK, Ids
  <2> QED
    BY <1>4, <2>2 DEF NuDisablePersona, csockets, KickInv, KickTarget, IInv, TypeOK
<1>5. ASSUME NEW kind \in BanKinds, NEW x \in Bannable(kind), EnterBan(x, kind) PROVE KickInv'
  BY <1>5 DEF EnterBan, csockets, userData, KickInv, KickTarget, Account
<1>6. CASE Restart
  BY <1>6 DEF Restart, Unset, KickInv, KickTarget, IInv, TypeOK
<1>7. CASE UNCHANGED vars
  BY <1>7 DEF vars, csockets, userData, KickInv, KickTarget, Account
<1> QED
  BY <1>1, <1>2, <1>3, <1>4, <1>5, <1>6, <1>7, PersonaKick, GoodbyeKick
     DEF Next, Request, Goodbye, Kick, IInv, TypeOK

\* KickTarget: where each player keeps to one account, the connection found for an
\* account is registered and works for that account.
THEOREM KicksRight == OneAccount => (Spec => []KickTarget)
<1> SUFFICES ASSUME OneAccount PROVE Spec => []KickTarget
  OBVIOUS
<1>1. IInv /\ KickInv /\ [Next]_vars => IInv' /\ KickInv'
  BY NextIInv, NextKick
<1>2. KickInv => KickTarget
  BY DEF KickInv
<1> QED
  BY <1>1, <1>2, InitIInv, InitKick, PTL DEF Spec

-----------------------------------------------------------------------------

\* c is the only connection with its account.
Sole(c) ==
  /\ conn[c] = "open" /\ ud[c] # None
  /\ \A d \in Conns \ {c} : Account(d) # Account(c)

\* The tables find c and, once it has a persona, its session.
Findable(c) ==
  LET o == ud[c] IN
  /\ sockByUser[Account(c)] = c /\ uOnline[Account(c)]
  /\ objs[o].pIn /\ objs[o].pers # None => byUser[Account(c)] = o /\ pOnline[objs[o].pers]

SoleInv ==
  /\ \A c \in Conns : conn[c] = "none" => ud[c] = None
  /\ \A c \in Conns : Sole(c) => Findable(c)

\* Nobody has an account at first.
LEMMA InitSole == Init => SoleInv
  BY DEF Init, Unset, SoleInv, Sole

\* A connection's session is of a known account.
LEMMA AccountType ==
  ASSUME IInv, NEW c \in Conns, ud[c] # None
  PROVE  Account(c) \in Users /\ Account(c) \in Creds(c) /\ ud[c] \in Objects /\ objs[ud[c]].user = Account(c)
  BY PlayerAssumption DEF IInv, TypeOK, TablesOwn, Named, Account, OwnSession, Ids

\* What other accounts' connections do leaves the tables' entries for c alone.
LEMMA SoleStays ==
  ASSUME IInv, SoleInv, NEW c \in Conns, Sole(c), ud'[c] = ud[c],
         objs'[ud[c]] = objs[ud[c]],
         byUser'[Account(c)] = byUser[Account(c)],
         sockByUser'[Account(c)] = sockByUser[Account(c)], uOnline'[Account(c)] = uOnline[Account(c)],
         objs[ud[c]].pers # None => pOnline'[objs[ud[c]].pers] = pOnline[objs[ud[c]].pers]
  PROVE  Findable(c)'
<1>1. Account(c)' = Account(c)
  BY DEF Account
<1> QED
  BY <1>1 DEF SoleInv, Findable

\* A step in which every connection keeps its account leaves those alone that
\* were.
LEMMA SoleBefore ==
  ASSUME NEW c \in Conns, Sole(c)', conn[c] = "open",
         \A d \in Conns : Account(d)' = Account(d), ud[c] # None
  PROVE  Sole(c)
  BY DEF Sole

\* Another connection logs in, and has the account it had if it had one; or c does.
LEMMA LoginSole ==
  ASSUME OneAccount, IInv, IInv', SoleInv, NEW c \in Conns, conn[c] = "open",
         NEW n \in Nuids, AccountOf(n) \in Creds(c), Login(c, n)
  PROVE  SoleInv'
<1> DEFINE o == logins + 1
           u == AccountOf(n)
<1>1. u \in Users /\ o \in Objects /\ o # None /\ o \notin 1..logins
  BY PlayerAssumption DEF IInv, TypeOK, Objects, Login
<1>2. /\ ud' = [ud EXCEPT ![c] = o] /\ sockByUser' = [sockByUser EXCEPT ![u] = c]
      /\ uOnline' = [uOnline EXCEPT ![u] = TRUE] /\ byUser' = ByUserWithout(byNuid[n])
      /\ objs' = [objs EXCEPT ![o] = [Blank EXCEPT !.nuid = n, !.user = u, !.uIn = TRUE]]
      /\ UNCHANGED <<conn, pOnline>>
  BY DEF Login
<1>3. \A i \in Objects \ {o} : objs'[i] = objs[i]
  BY <1>1, <1>2 DEF IInv, TypeOK
<1>4. Account(c)' = u /\ objs'[o].pers = None /\ ud'[c] = o
  BY <1>1, <1>2 DEF Account, Blank, IInv, TypeOK
<1>5. \A d \in Conns \ {c} : Account(d)' = Account(d) /\ ud'[d] = ud[d]
  BY <1>1, <1>2, <1>3 DEF Account, IInv, TypeOK, TablesOwn, SessionOf
<1>6. Findable(c)'
  BY <1>1, <1>2, <1>4 DEF Findable, IInv, TypeOK
<1>7. ASSUME NEW d \in Conns \ {c}, Sole(d)' PROVE Findable(d)'
  <2>1. ud[d] # None /\ Account(d) # u
    BY <1>4, <1>5, <1>7 DEF Sole
  <2>2. Account(c) \in {u, None}
    BY PlayerAssumption DEF IInv, OwnSession, OneAccount
  <2>3. Sole(d)
    BY <1>2, <1>5, <1>7, <2>1, <2>2, AccountType, PlayerAssumption DEF Sole
  <2>4. Account(d) \in Users /\ ud[d] \in Objects /\ ud[d] # o
    BY <1>1, <2>1, AccountType DEF IInv, TypeOK, TablesOwn, SessionOf
  <2>5. byUser'[Account(d)] = byUser[Account(d)]
    BY <1>1, <1>2, <2>1, <2>4 DEF ByUserWithout, IInv, TypeOK, TablesOwn, SessionOf
  <2> QED
    BY <1>2, <1>3, <1>5, <2>1, <2>3, <2>4, <2>5, SoleStays DEF IInv, TypeOK
<1>8. \A d \in Conns : conn'[d] = "none" => ud'[d] = None
  BY <1>2 DEF SoleInv, IInv, TypeOK
<1> QED
  BY <1>6, <1>7, <1>8 DEF SoleInv

\* A persona goes into the session the tables find, which is that of a sole
\* connection.
LEMMA PersonaSole ==
  ASSUME IInv, SoleInv, NEW c \in Conns, NEW p \in Personas, NuLoginPersona(c, p)
  PROVE  SoleInv'
<1> DEFINE u == Account(c)
           o == Found(c)
<1>1. /\ u = Account(c) /\ u \in Users /\ ud[c] # None /\ Owner(p) = u
      /\ o \in Objects /\ o # None /\ objs[o].user = u
  BY PersonaFinds DEF SessionOf
<1>2. /\ byUser' = [byUser EXCEPT ![u] = o] /\ ud' = [ud EXCEPT ![c] = o]
      /\ objs' = [objs EXCEPT ![o].pers = p, ![o].pIn = TRUE]
      /\ pOnline' = [pOnline EXCEPT ![p] = TRUE]
      /\ UNCHANGED <<uOnline, conn, sockByUser>> /\ conn[c] = "open"
  <2>1. /\ pOnline' = [pOnline EXCEPT ![p] = TRUE]
        /\ UNCHANGED <<uOnline, conn, sockByUser>> /\ conn[c] = "open"
    BY Zenon DEF NuLoginPersona, csockets
  <2> QED
    BY <2>1, PersonaFinds
<1> HIDE DEF u, o
<1>3. /\ \A i \in Objects : objs'[i].user = objs[i].user
      /\ \A i \in Objects \ {o} : objs'[i] = objs[i]
      /\ objs'[o].pers = p
  BY <1>1, <1>2 DEF IInv, TypeOK
<1>4. \A d \in Conns : Account(d)' = Account(d)
  <2>1. Account(c)' = Account(c)
    <3>1. o # None
      BY <1>1, PlayerAssumption DEF Objects
    <3>2. ud'[c] = o /\ objs'[o].user = u
      BY <1>1, <1>2, <1>3 DEF IInv, TypeOK
    <3> QED
      BY <1>1, <3>1, <3>2 DEF Account
  <2>2. \A d \in Conns \ {c} : Account(d)' = Account(d)
    BY <1>2, <1>3 DEF Account, IInv, TypeOK, Ids
  <2> QED
    BY <2>1, <2>2
<1>5. Findable(c)' \/ ~Sole(c)'
  <2> SUFFICES ASSUME Sole(c)' PROVE Findable(c)'
    OBVIOUS
  <2>1. Sole(c)
    BY <1>1, <1>2, <1>4, SoleBefore
  <2>2. Findable(c)
    BY <2>1 DEF SoleInv
  <2> QED
    BY <1>1, <1>2, <1>3, <1>4, <2>2 DEF Findable, IInv, TypeOK
<1>6. ASSUME NEW d \in Conns \ {c}, Sole(d)' PROVE Findable(d)'
  <2>1. ud'[d] = ud[d] /\ ud[d] # None
    BY <1>2, <1>6 DEF Sole, IInv, TypeOK
  <2>2. Sole(d)
    BY <1>2, <1>4, <1>6, <2>1, SoleBefore DEF Sole
  <2>3. Account(d) # u /\ ud[d] # o /\ Account(d) \in Users /\ ud[d] \in Objects
    BY <1>1, <2>1, <2>2, AccountType DEF Sole
  <2>4. objs[ud[d]].pers # None => pOnline'[objs[ud[d]].pers] = pOnline[objs[ud[d]].pers]
    BY <1>1, <1>2, <2>3, <2>1, AccountType DEF IInv, TypeOK, OwnSession
  <2> QED
    BY <1>2, <1>3, <2>1, <2>2, <2>3, <2>4, SoleStays DEF IInv, TypeOK
<1>7. \A d \in Conns : conn'[d] = "none" => ud'[d] = None
  BY <1>1, <1>2 DEF SoleInv, IInv, TypeOK
<1> QED
  BY <1>5, <1>6, <1>7 DEF SoleInv

\* A persona that is given up leaves its session, and is offline only if it was of
\* the same account.
LEMMA DisableSole ==
  ASSUME IInv, SoleInv, NEW c \in Conns, NEW p \in Personas, NuDisablePersona(c, p)
  PROVE  SoleInv'
<1>1. /\ objs' = [objs EXCEPT ![ud[c]].pers = None] /\ ud[c] # None
      /\ UNCHANGED <<ud, byUser, uOnline, conn, sockByUser>>
      /\ pOnline' \in {pOnline, [pOnline EXCEPT ![p] = FALSE]}
      /\ pOnline' # pOnline => Owner(p) = Account(c)
  BY DEF NuDisablePersona, csockets, Account
<1>2. /\ \A i \in Objects : objs'[i].user = objs[i].user
      /\ \A i \in Objects \ {ud[c]} : objs'[i] = objs[i]
      /\ objs'[ud[c]].pers = None
  BY <1>1, AccountType DEF IInv, TypeOK
<1>3. \A d \in Conns : Account(d)' = Account(d)
  BY <1>1, <1>2 DEF Account, IInv, TypeOK, Ids
<1>4. ASSUME NEW d \in Conns, Sole(d)' PROVE Findable(d)'
  <2>1. Sole(d)
    BY <1>1, <1>3, <1>4, SoleBefore DEF Sole
  <2>2. CASE d = c
    BY <1>1, <1>2, <1>3, <2>1, <2>2 DEF SoleInv, Findable
  <2>3. CASE d # c
    <3>1. Account(d) # Account(c) /\ ud[d] # ud[c] /\ ud[d] \in Objects /\ ud[d] # None
      BY <2>1, <2>3, AccountType DEF Sole, Account
    <3>2. objs[ud[d]].pers # None => Owner(objs[ud[d]].pers) = Account(d)
      BY <3>1, AccountType DEF IInv, OwnSession
    <3> QED
      BY <1>1, <1>2, <2>1, <3>1, <3>2, SoleStays DEF IInv, TypeOK
  <2> QED
    BY <2>2, <2>3
<1> QED
  BY <1>1, <1>4 DEF SoleInv

\* A connection that is closed or given up takes its own account's entries out.
LEMMA UnsetOthers ==
  ASSUME IInv, NEW c \in Conns, UnsetInstance(c), NEW u \in Users, Account(c) # u
  PROVE  sockByUser'[u] = sockByUser[u] /\ byUser'[u] = byUser[u]
  BY AccountType, SMTT(30) DEF IInv, TypeOK, UnsetInstance, ByUserWithout, TablesOwn, SessionOf, Account

\* Goodbye logs out the session of its own connection.
LEMMA GoodbyeSole ==
  ASSUME IInv, SoleInv, NEW c \in Conns, HandleGoodbye(c)
  PROVE  SoleInv'
<1>1. /\ UNCHANGED ud /\ conn' = [conn EXCEPT ![c] = "closed"] /\ UnsetInstance(c)
  BY DEF HandleGoodbye
<1>2. /\ \A i \in Objects : objs'[i].user = objs[i].user
      /\ \A i \in Objects : i # ud[c] => objs'[i] = objs[i]
      /\ \A u \in Users : u # Account(c) => uOnline'[u] = uOnline[u]
      /\ \A p \in Personas : Owner(p) # Account(c) => pOnline'[p] = pOnline[p]
  <2>1. CASE ud[c] = None
    BY <2>1 DEF HandleGoodbye, DbUserLogOut
  <2>2. CASE ud[c] # None
    <3> DEFINE o == ud[c]
    <3>1. /\ objs' = [objs EXCEPT ![o].pIn = FALSE, ![o].uIn = FALSE]
          /\ pOnline' = IF objs[o].pIn /\ objs[o].pers # None
                          THEN [pOnline EXCEPT ![objs[o].pers] = FALSE] ELSE pOnline
          /\ uOnline' = IF objs[o].uIn THEN [uOnline EXCEPT ![objs[o].user] = FALSE] ELSE uOnline
      BY <2>2 DEF HandleGoodbye, DbUserLogOut
    <3>2. o \in Objects /\ objs[o].user = Account(c)
      BY <2>2, AccountType
    <3> HIDE DEF o
    <3>3. /\ \A i \in Objects : objs'[i].user = objs[i].user
          /\ \A i \in Objects : i # o => objs'[i] = objs[i]
      BY <3>1, <3>2 DEF IInv, TypeOK
    <3>4. \A u \in Users : u # Account(c) => uOnline'[u] = uOnline[u]
      BY <3>1, <3>2 DEF IInv, TypeOK
    <3>5. \A p \in Personas : Owner(p) # Account(c) => pOnline'[p] = pOnline[p]
      BY <3>1, <3>2 DEF IInv, TypeOK, OwnSession
    <3> QED
      BY <3>3, <3>4, <3>5 DEF o
  <2> QED
    BY <2>1, <2>2
<1>3. \A d \in Conns : Account(d)' = Account(d)
  BY <1>1, <1>2 DEF Account, IInv, TypeOK, Ids
<1>4. ASSUME NEW d \in Conns, Sole(d)' PROVE Findable(d)'
  <2>1. d # c /\ conn[d] = "open" /\ ud[d] # None
    BY <1>1, <1>4 DEF Sole, IInv, TypeOK
  <2>2. Sole(d)
    BY <1>3, <1>4, <2>1, SoleBefore
  <2>3. Account(d) # Account(c) /\ ud[d] # ud[c] /\ ud[d] \in Objects /\ Account(d) \in Users
    BY <2>1, <2>2, AccountType DEF Sole, Account
  <2>4. objs[ud[d]].pers # None => objs[ud[d]].pers \in Personas /\ Owner(objs[ud[d]].pers) = Account(d)
    BY <2>1, <2>3, AccountType DEF IInv, OwnSession, TypeOK
  <2> QED
    BY <1>1, <1>2, <2>2, <2>3, <2>4, UnsetOthers, SoleStays
<1>5. \A d \in Conns : conn'[d] = "none" => ud'[d] = None
  BY <1>1 DEF SoleInv, IInv, TypeOK
<1> QED
  BY <1>4, <1>5 DEF SoleInv

\* A connection given up without a logout leaves the rows as they are.
LEMMA GiveUpSole ==
  ASSUME IInv, SoleInv, NEW c \in Conns, GiveUp(c)
  PROVE  SoleInv'
<1>1. /\ UNCHANGED <<ud, objs, uOnline, pOnline>> /\ conn' = [conn EXCEPT ![c] = "lost"]
      /\ UnsetInstance(c)
  BY DEF GiveUp, tables
<1>2. \A d \in Conns : Account(d)' = Account(d)
  BY <1>1 DEF Account
<1>3. ASSUME NEW d \in Conns, Sole(d)' PROVE Findable(d)'
  <2>1. d # c /\ conn[d] = "open" /\ ud[d] # None
    BY <1>1, <1>3 DEF Sole, IInv, TypeOK
  <2>2. Sole(d)
    BY <1>2, <1>3, <2>1, SoleBefore
  <2>3. Account(d) # Account(c) /\ Account(d) \in Users
    BY <2>1, <2>2, AccountType DEF Sole
  <2> QED
    BY <1>1, <2>2, <2>3, UnsetOthers, SoleStays
<1>4. \A d \in Conns : conn'[d] = "none" => ud'[d] = None
  BY <1>1 DEF SoleInv, IInv, TypeOK
<1> QED
  BY <1>3, <1>4 DEF SoleInv

\* Every step keeps the tables at the session of a sole connection; a restart
\* leaves no connection.
LEMMA NextSole ==
  ASSUME OneAccount, IInv, IInv', SoleInv, [Next]_vars
  PROVE  SoleInv'
<1>1. ASSUME NEW c \in Conns,
             \/ \E n \in Nuids : NuLoginPassword(c, n)
             \/ \E u \in Users : NuLoginKey(c, u)
      PROVE  SoleInv'
  <2>1. ASSUME NEW n \in Nuids, BanFound(n) PROVE SoleInv'
    BY <2>1 DEF BanFound, csockets, userData, tables, SoleInv, Sole, Findable, Account
  <2> QED
    BY <1>1, <2>1, LoginOrBan, LoginSole
<1>2. ASSUME NEW c \in Conns, GetInstanceByServer(c) \/ Drop(c) PROVE SoleInv'
  <2>1. UNCHANGED <<userData, tables, sockByUser>>
    BY <1>2 DEF GetInstanceByServer, Drop
  <2>2. \A d \in Conns \ {c} : conn'[d] = conn[d]
    BY <1>2 DEF GetInstanceByServer, Drop, IInv, TypeOK
  <2>3. conn'[c] # "none" /\ (conn'[c] = "open" => ud[c] = None)
    BY <1>2 DEF GetInstanceByServer, Drop, IInv, TypeOK, SoleInv
  <2> QED
    BY <2>1, <2>2, <2>3 DEF userData, tables, SoleInv, Sole, Findable, Account
<1>3. ASSUME NEW kind \in BanKinds, NEW x \in Bannable(kind), EnterBan(x, kind) PROVE SoleInv'
  BY <1>3 DEF EnterBan, csockets, userData, tables, SoleInv, Sole, Findable, Account
<1>4. CASE Restart
  BY <1>4 DEF Restart, Unset, SoleInv, Sole
<1>5. CASE UNCHANGED vars
  BY <1>5 DEF vars, csockets, userData, tables, SoleInv, Sole, Findable, Account
<1> QED
  BY <1>1, <1>2, <1>3, <1>4, <1>5, PersonaSole, DisableSole, GoodbyeSole, GiveUpSole
     DEF Next, Request, Goodbye, Kick, IInv, TypeOK

\* SoleSession, for players with one account each: a player on the only connection
\* of his account is found by every table UserData keeps, and is online, until he
\* says Goodbye or is kicked.
THEOREM SolesFound == OneAccount => (Spec => []SoleSession)
<1> SUFFICES ASSUME OneAccount PROVE Spec => []SoleSession
  OBVIOUS
<1>1. IInv /\ SoleInv /\ [Next]_vars => IInv' /\ SoleInv'
  BY NextIInv, NextSole
<1>2. SoleInv => SoleSession
  BY DEF SoleInv, Sole, Findable, SoleSession
<1> QED
  BY <1>1, <1>2, InitIInv, InitSole, PTL DEF Spec

-----------------------------------------------------------------------------

\* Every account is only ever typed as it is stored.
Spelled == \A u \in Users : OneSpelling(u)

StatsTypes ==
  /\ row \in [Personas -> [scored : BOOLEAN, from : Sums] \cup {None}]
  /\ stats \in [Objects -> [of : Personas \cup {None}, scored : BOOLEAN, from : Sums] \cup {None}]
  /\ pdata \in [GameServers -> Objects \cup {None, Bare}]
  /\ sent \in 0..MaxReports

\* What is found by persona id is a session of the persona's account.
PersonaTable ==
  \A p \in Personas : byPersona[p] # None => SessionOf(byPersona[p], Owner(p))

\* Statistics in an object were loaded for a persona of the object's account.
CopiesOwn ==
  \A o \in Objects : stats[o] # None =>
    /\ o \in 1..logins
    /\ stats[o].of # None => Owner(stats[o].of) = objs[o].user

\* A game server holds a session that has been made.
HeldMade == \A g \in GameServers : pdata[g] \in Objects => pdata[g] \in 1..logins

SInv == IInv /\ StatsTypes /\ PersonaTable /\ CopiesOwn /\ HeldMade

\* Nothing has been loaded or reported at first.
LEMMA InitSInv == StatsInit => SInv
<1> SUFFICES ASSUME StatsInit PROVE SInv
  OBVIOUS
<1>1. IInv
  BY InitIInv DEF StatsInit
<1>2. StatsTypes
  <2>1. row \in [Personas -> [scored : BOOLEAN, from : Sums] \cup {None}]
    BY DEF StatsInit, Sums
  <2> QED
    BY <2>1, ReportAssumption DEF StatsInit, StatsTypes
<1>3. PersonaTable /\ CopiesOwn
  BY DEF StatsInit, Init, Unset, PersonaTable, CopiesOwn
<1>4. HeldMade
  BY PlayerAssumption DEF StatsInit, HeldMade, Objects
<1> QED
  BY <1>1, <1>2, <1>3, <1>4 DEF SInv

\* A step that makes no session and empties entries only.
LEMMA QuietTables ==
  ASSUME SInv, IInv', logins' = logins, UNCHANGED <<byNuid, row, pdata, sent>>,
         \A i \in Objects : objs'[i].user = objs[i].user,
         \A p \in Personas : byPersona'[p] \in {byPersona[p], None},
         \A i \in Objects : stats'[i] \in {stats[i], None}, 
         stats' \in [Objects -> [of : Personas \cup {None}, scored : BOOLEAN, from : Sums] \cup {None}]
  PROVE  SInv'
<1> USE DEF SInv
<1>1. StatsTypes'
  BY DEF StatsTypes
<1>2. PersonaTable'
  BY DEF PersonaTable, SessionOf, IInv, TypeOK, Ids, TablesOwn
<1>3. CopiesOwn'
  BY DEF CopiesOwn
<1> QED
  BY <1>1, <1>2, <1>3 DEF HeldMade

\* A login makes a session without statistics.
LEMMA LoginSInv ==
  ASSUME SInv, IInv', NEW c \in Conns, NEW n \in Nuids, Login(c, n), UNCHANGED <<row, pdata, sent, stats>>
  PROVE  SInv'
<1> DEFINE o == logins + 1
           u == AccountOf(n)
<1> USE DEF SInv
<1>1. /\ o \in Objects /\ o # None /\ o \notin 1..logins /\ logins' = o
      /\ 1..logins \subseteq 1..o /\ 1..logins \subseteq Objects
  BY PlayerAssumption DEF IInv, TypeOK, Objects, Login
<1>2. /\ byPersona' = ByPersonaWithout(byNuid[n])
      /\ objs' = [objs EXCEPT ![o] = [Blank EXCEPT !.nuid = n, !.user = u, !.uIn = TRUE]]
  BY DEF Login
<1>3. \A i \in Objects \ {o} : objs'[i] = objs[i]
  BY <1>1, <1>2 DEF IInv, TypeOK
<1>4. \A p \in Personas : byPersona'[p] \in {byPersona[p], None}
  BY <1>2 DEF ByPersonaWithout, IInv, TypeOK
<1>6. PersonaTable'
  BY <1>1, <1>3, <1>4, PlayerAssumption DEF PersonaTable, SessionOf
<1>7. ASSUME NEW i \in Objects, stats[i] # None PROVE objs'[i] = objs[i] /\ i \in 1..logins'
  BY <1>1, <1>3, <1>7 DEF CopiesOwn
<1>8. CopiesOwn'
  BY <1>7 DEF CopiesOwn
<1> QED
  BY <1>1, <1>6, <1>8 DEF StatsTypes, HeldMade

\* A player's connection comes, goes and logs in.
LEMMA PlayerSInv ==
  ASSUME SInv, NEW c \in Conns, PlayerStep(c)
  PROVE  SInv'
<1> USE DEF SInv
<1>1. UNCHANGED <<row, stats, pdata, sent>>
  BY DEF PlayerStep
<1>2. stats \in [Objects -> [of : Personas \cup {None}, scored : BOOLEAN, from : Sums] \cup {None}]
  BY DEF StatsTypes
<1>3. CASE GetInstanceByServer(c)
  BY <1>1, <1>2, <1>3, ConnectionIInv, QuietTables DEF GetInstanceByServer, userData
<1>4. ASSUME HandleGoodbye(c) PROVE SInv'
  <2>1. \A i \in Objects : objs'[i].user = objs[i].user
    BY <1>4 DEF HandleGoodbye, DbUserLogOut, IInv, TypeOK
  <2>2. \A p \in Personas : byPersona'[p] \in {byPersona[p], None}
    BY <1>4 DEF HandleGoodbye, UnsetInstance, ByPersonaWithout, IInv, TypeOK
  <2>3. logins' = logins /\ byNuid' = byNuid
    BY <1>4 DEF HandleGoodbye
  <2> QED
    BY <1>1, <1>2, <1>4, <2>1, <2>2, <2>3, GoodbyeIInv, QuietTables
<1>5. ASSUME NEW n \in Nuids, NuLoginPassword(c, n) PROVE SInv'
  <2>1. ASSUME NEW m \in Nuids, BanFound(m) PROVE SInv'
    BY <1>1, <1>2, <2>1, BanIInv, QuietTables DEF BanFound, userData
  <2>2. ASSUME NEW m \in Nuids, AccountOf(m) \in Creds(c), Login(c, m), keyed' \subseteq Users PROVE SInv'
    BY <1>1, <2>2, LoginIInv, LoginSInv
  <2> QED
    BY <1>5, <2>1, <2>2, LoginOrBan
<1>6. ASSUME NEW p \in Personas, NuDisablePersona(c, p) PROVE SInv'
  <2>1. \A i \in Objects : objs'[i].user = objs[i].user
    BY <1>6 DEF NuDisablePersona, IInv, TypeOK
  <2>2. UNCHANGED <<logins, byNuid, byPersona>>
    BY <1>6 DEF NuDisablePersona
  <2> QED
    BY <1>1, <1>2, <1>6, <2>1, <2>2, DisableIInv, QuietTables
<1> QED
  BY <1>3, <1>4, <1>5, <1>6 DEF PlayerStep, Goodbye

\* A persona is put into the session found for its account.
LEMMA PersonaSInv ==
  ASSUME SInv, NEW c \in Conns, NEW p \in Personas, PersonaStep(c, p)
  PROVE  SInv'
<1> DEFINE u == Account(c)
           o == Found(c)
           q == byNuid[objs[o].nuid]
<1> USE DEF SInv
<1>1. NuLoginPersona(c, p) /\ stats' = [stats EXCEPT ![ud'[c]] = None] /\ UNCHANGED <<row, pdata, sent>>
  BY DEF PersonaStep
<1>2. IInv'
  BY <1>1, PersonaIInv
<1>3. /\ Owner(p) = u /\ q # None /\ SessionOf(q, u)
      /\ byPersona' = IF byPersona[p] # None THEN byPersona ELSE [byPersona EXCEPT ![p] = q]
      /\ objs' = [objs EXCEPT ![o].pers = p, ![o].pIn = TRUE]
      /\ UNCHANGED <<logins, byNuid>>
  BY <1>1, PersonaFinds
<1> HIDE DEF o, q, u
<1>4. \A i \in Objects : objs'[i].user = objs[i].user
  BY <1>3 DEF IInv, TypeOK
<1>5. 1..logins \subseteq Objects
  BY PlayerAssumption DEF IInv, TypeOK, Objects
<1>6. PersonaTable'
  BY <1>3, <1>4, <1>5 DEF PersonaTable, SessionOf, IInv, TypeOK
<1>7. CopiesOwn'
  BY <1>1, <1>3, <1>4 DEF CopiesOwn, StatsTypes
<1>8. StatsTypes'
  BY <1>1 DEF StatsTypes
<1> QED
  BY <1>1, <1>2, <1>3, <1>6, <1>7, <1>8 DEF HeldMade

\* What is loaded into an object of the persona's account is of that account.
LEMMA LoadedOwn ==
  ASSUME SInv, NEW o \in Objects, NEW p \in Personas \cup {None}, o \in 1..logins,
         p # None => Owner(p) = objs[o].user
  PROVE  /\ Loaded(o, p) \in [of : Personas \cup {None}, scored : BOOLEAN, from : Sums] \cup {None}
         /\ Loaded(o, p) # None /\ Loaded(o, p).of # None => Owner(Loaded(o, p).of) = objs[o].user
         /\ p # None /\ row[p] # None => Loaded(o, p).of = p /\ Loaded(o, p).from = row[p].from
<1> USE DEF SInv, StatsTypes, CopiesOwn, Loaded
<1>1. CASE p = None \/ row[p] = None
  BY <1>1
<1>2. CASE p # None /\ row[p] # None
  <2>1. row[p] \in [scored : BOOLEAN, from : Sums]
    BY <1>2
  <2> QED
    BY <1>2, <2>1
<1> QED
  BY <1>1, <1>2

\* A player's GetStats loads the row of his persona into his session.
LEMMA PlayerStatsSInv ==
  ASSUME SInv, NEW c \in Conns, PlayerGetStats(c)
  PROVE  SInv'
<1> USE DEF SInv
<1>1. CASE HandleGoodbye(c) /\ UNCHANGED stats
  <2>1. \A i \in Objects : objs'[i].user = objs[i].user
    BY <1>1 DEF HandleGoodbye, DbUserLogOut, IInv, TypeOK
  <2>2. \A p \in Personas : byPersona'[p] \in {byPersona[p], None}
    BY <1>1 DEF HandleGoodbye, UnsetInstance, ByPersonaWithout, IInv, TypeOK
  <2>3. logins' = logins /\ byNuid' = byNuid /\ UNCHANGED <<row, pdata, sent>>
    BY <1>1 DEF HandleGoodbye, PlayerGetStats
  <2> QED
    BY <1>1, <2>1, <2>2, <2>3, GoodbyeIInv, QuietTables DEF StatsTypes
<1>2. CASE UNCHANGED vars /\ stats' = [stats EXCEPT ![ud[c]] = None]
  <2>1. IInv'
    BY <1>2, NextIInv
  <2>2. UNCHANGED <<logins, byNuid, objs, byPersona, row, pdata, sent>>
    BY <1>2 DEF vars, userData, PlayerGetStats
  <2> QED
    BY <1>2, <2>1, <2>2, QuietTables DEF StatsTypes
<1> QED
  BY <1>1, <1>2 DEF PlayerGetStats

\* A game server's connection is made, finds a session or asks for statistics.
LEMMA ServerSInv ==
  ASSUME SInv, NEW g \in GameServers,
         \/ Reconnect(g) \/ ServerGetStats(g)
         \/ \E p \in Personas : NuLookupUserInfo(g, p)
  PROVE  SInv'
<1> USE DEF SInv
<1>1. UNCHANGED vars /\ UNCHANGED <<row, sent>>
  BY DEF Reconnect, ServerGetStats, NuLookupUserInfo
<1>2. IInv' /\ PersonaTable'
  BY <1>1, NextIInv DEF vars, userData, PersonaTable, SessionOf
<1>3. pdata' \in [GameServers -> Objects \cup {None, Bare}] /\ HeldMade'
  <2>1. \A p \in pRows : byUser[Owner(p)] # None => byUser[Owner(p)] \in 1..logins /\ byUser[Owner(p)] \in Objects
    BY PlayerAssumption DEF IInv, TypeOK, Ids, TablesOwn, SessionOf
  <2>2. logins' = logins
    BY <1>1 DEF vars, userData
  <2>3. CASE ServerGetStats(g)
    BY <2>2, <2>3 DEF ServerGetStats, StatsTypes, HeldMade
  <2>4. CASE Reconnect(g)
    BY <2>2, <2>4, PlayerAssumption DEF Reconnect, StatsTypes, HeldMade, Objects
  <2>5. ASSUME NEW p \in Personas, NuLookupUserInfo(g, p)
        PROVE  pdata' \in [GameServers -> Objects \cup {None, Bare}] /\ HeldMade'
    BY <2>1, <2>2, <2>5 DEF NuLookupUserInfo, StatsTypes, HeldMade
  <2> QED
    BY <2>3, <2>4, <2>5
<1>4. CASE UNCHANGED stats
  BY <1>1, <1>2, <1>3, <1>4 DEF StatsTypes, CopiesOwn, vars, userData
<1>5. CASE ServerGetStats(g) /\ pdata[g] \in Objects
  <2> DEFINE o == pdata[g]
             s == IF Loaded(o, objs[o].pers) = None THEN NoStats ELSE Loaded(o, objs[o].pers)
  <2>1. stats' = [stats EXCEPT ![o] = s]
    BY <1>5, ReportAssumption DEF ServerGetStats
  <2>2. /\ o \in 1..logins /\ objs[o].pers \in Personas \cup {None}
        /\ objs[o].pers # None => Owner(objs[o].pers) = objs[o].user
    BY <1>5 DEF HeldMade, IInv, TypeOK, OwnSession
  <2>3. /\ s \in [of : Personas \cup {None}, scored : BOOLEAN, from : Sums]
        /\ s.of # None => Owner(s.of) = objs[o].user
    <3>1. NoStats \in [of : Personas \cup {None}, scored : BOOLEAN, from : Sums] /\ NoStats.of = None
      BY DEF NoStats, Sums
    <3> QED
      BY <1>5, <2>2, <3>1, LoadedOwn
  <2> HIDE DEF o, s
  <2>4. StatsTypes'
    BY <1>1, <1>3, <2>1, <2>3 DEF StatsTypes
  <2>5. CopiesOwn'
    BY <1>1, <2>1, <2>2, <2>3 DEF vars, userData, CopiesOwn, StatsTypes
  <2> QED
    BY <1>2, <1>3, <2>4, <2>5
<1> QED
  BY <1>4, <1>5 DEF Reconnect, ServerGetStats, NuLookupUserInfo

\* A session becomes the named persona's: one of the account's, or a new one.
LEMMA AssociationSInv ==
  ASSUME Spelled, SInv, NEW g \in GameServers, NEW p \in Personas, AddAssociations(g, p)
  PROVE  SInv'
<1> DEFINE u == Owner(p)
           n == Email(p)
           new == byPersona[p] = None /\ byNuid[n] = None
           o == IF byPersona[p] # None THEN byPersona[p]
                ELSE IF new THEN logins + 1 ELSE byNuid[n]
<1> USE DEF SInv
<1>1. /\ o \in Objects
      /\ logins' = IF new THEN o ELSE logins
      /\ byNuid' = IF new THEN [byNuid EXCEPT ![n] = o] ELSE byNuid
      /\ byPersona' = [byPersona EXCEPT ![p] = o]
      /\ objs' = [objs EXCEPT ![o].nuid = n, ![o].user = u, ![o].pers = p]
      /\ pdata' = [pdata EXCEPT ![g] = o]
      /\ UNCHANGED <<csockets, ud, byUser, bans, tables, row, stats, sent>>
  BY Zenon DEF AddAssociations
<1>2. /\ u \in Users /\ n \in Nuids /\ AccountOf(n) = u
      /\ \A m \in Nuids : AccountOf(m) = u => m = n
  BY PlayerAssumption DEF Spelled, OneSpelling, Email
<1>3. /\ o # None
      /\ ~new => SessionOf(o, u) /\ byNuid[n] # None
      /\ new => o = logins + 1
  <2>1. CASE byPersona[p] # None
    <3>1. SessionOf(o, u)
      BY <2>1 DEF PersonaTable
    <3>2. objs[o].nuid = n /\ byNuid[n] # None
      BY <1>2, <3>1 DEF IInv, Named, SessionOf
    <3> QED
      BY <2>1, <3>1, <3>2
  <2>2. CASE byPersona[p] = None /\ byNuid[n] # None
    BY <1>2, <2>2 DEF IInv, TablesOwn
  <2>3. CASE new
    BY <1>1, <2>3, PlayerAssumption DEF Objects
  <2> QED
    BY <2>1, <2>2, <2>3
<1>4. Owner(p) = u
  OBVIOUS
<1> HIDE DEF o, new, u, n
<1>5. /\ 1..logins \subseteq 1..logins' /\ o \in 1..logins' /\ logins' \in 0..MaxLogins
      /\ 1..logins' \subseteq 1..logins \cup {o}
      /\ 1..logins \subseteq Objects /\ 1..logins' \subseteq Objects
      /\ new => o \notin 1..logins
  BY <1>1, <1>3, PlayerAssumption DEF IInv, TypeOK, Objects, SessionOf
<1>6. /\ objs' \in [Objects -> UserData]
      /\ \A i \in Objects \ {o} : objs'[i] = objs[i]
      /\ objs'[o].nuid = n /\ objs'[o].user = u /\ objs'[o].pers = p
  <2> DEFINE spelled == [objs EXCEPT ![o].nuid = n]
             named == [spelled EXCEPT ![o].user = u]
  <2>1. /\ spelled \in [Objects -> UserData]
        /\ \A i \in Objects \ {o} : spelled[i] = objs[i]
        /\ spelled[o].nuid = n
    BY <1>1, <1>2 DEF IInv, TypeOK
  <2> HIDE DEF spelled
  <2>2. /\ named \in [Objects -> UserData]
        /\ \A i \in Objects \ {o} : named[i] = objs[i]
        /\ named[o].nuid = n /\ named[o].user = u
    BY <1>1, <1>2, <2>1
  <2>3. objs' = [named EXCEPT ![o].pers = p]
    BY <1>1 DEF spelled
  <2> HIDE DEF named
  <2>4. objs' \in [Objects -> UserData]
    BY <2>2, <2>3
  <2>5. /\ \A i \in Objects \ {o} : objs'[i] = objs[i]
        /\ objs'[o].nuid = n /\ objs'[o].user = u /\ objs'[o].pers = p
    BY <1>1, <2>2, <2>3
  <2> QED
    BY <2>4, <2>5
<1>7. TypeOK'
  <2>1. byNuid' \in [Nuids -> Ids] /\ byPersona' \in [Personas -> Ids]
    BY <1>1, <1>2 DEF IInv, TypeOK, Ids
  <2>2. UNCHANGED <<conn, registered, sockByUser, ud, byUser, cache, ban, uOnline, pOnline, pRows, keyed>>
    BY <1>1 DEF csockets, bans, tables
  <2> QED
    BY <1>5, <1>6, <2>1, <2>2, ZenonT(30) DEF IInv, TypeOK
<1>8. \A i, w : SessionOf(i, w) => SessionOf(i, w)'
  BY <1>3, <1>5, <1>6 DEF SessionOf
<1>9. o \in 1..logins' /\ objs'[o].user = u
  BY <1>5, <1>6
<1>10. \A m \in Nuids : byNuid'[m] = (IF new /\ m = n THEN o ELSE byNuid[m])
  BY <1>1, <1>2 DEF IInv, TypeOK
<1>11. Named'
  <2> SUFFICES ASSUME NEW i \in 1..logins'
               PROVE  /\ objs'[i].user \in Users /\ objs'[i].nuid \in Nuids
                      /\ AccountOf(objs'[i].nuid) = objs'[i].user /\ byNuid'[objs'[i].nuid] # None
    BY DEF Named
  <2>1. CASE i = o
    BY <1>2, <1>3, <1>6, <1>10, <2>1
  <2>2. CASE i # o
    <3>1. i \in 1..logins /\ objs'[i] = objs[i]
      BY <1>5, <1>6, <2>2
    <3> QED
      BY <1>3, <1>10, <3>1 DEF IInv, Named
  <2> QED
    BY <2>1, <2>2
<1>12. TablesOwn'
  <2>1. ASSUME NEW m \in Nuids, byNuid'[m] # None PROVE SessionOf(byNuid[m], AccountOf(m))'
    <3>1. CASE new /\ m = n
      <4>1. byNuid'[m] = o /\ AccountOf(m) = u
        BY <1>2, <1>10, <3>1
      <4> QED
        BY <1>9, <4>1 DEF SessionOf
    <3>2. CASE ~(new /\ m = n)
      <4>1. byNuid'[m] = byNuid[m] /\ SessionOf(byNuid[m], AccountOf(m))
        BY <1>10, <2>1, <3>2 DEF IInv, TablesOwn
      <4> QED
        BY <1>8, <4>1 DEF SessionOf
    <3> QED
      BY <3>1, <3>2
  <2>2. ASSUME NEW w \in Users, byUser'[w] # None PROVE SessionOf(byUser[w], w)'
    <3>1. byUser'[w] = byUser[w] /\ SessionOf(byUser[w], w)
      BY <1>1, <2>2 DEF IInv, TablesOwn
    <3> QED
      BY <1>8, <3>1 DEF SessionOf
  <2>3. \A c \in Conns : ud'[c] # None => ud'[c] \in 1..logins'
    BY <1>1, <1>5 DEF IInv, TablesOwn
  <2> QED
    BY <2>1, <2>2, <2>3 DEF TablesOwn
<1>13. OwnSession'
  <2>1. \A c \in Conns : ud'[c] = ud[c] /\ (ud[c] # None => SessionOf(ud[c], objs[ud[c]].user))
    BY <1>1 DEF IInv, TablesOwn, SessionOf
  <2>2. \A c \in Conns : Account(c)' = Account(c)
    BY <1>8, <2>1 DEF Account, SessionOf
  <2>3. \A i \in Objects : objs'[i].pers # None => Owner(objs'[i].pers) = objs'[i].user
    BY <1>4, <1>6 DEF IInv, OwnSession
  <2> QED
    BY <2>2, <2>3 DEF IInv, OwnSession
<1>14. PersonaTable'
  <2> SUFFICES ASSUME NEW q \in Personas, byPersona'[q] # None
               PROVE  SessionOf(byPersona[q], Owner(q))'
    BY DEF PersonaTable
  <2>1. CASE q = p
    <3>1. byPersona'[q] = o /\ Owner(q) = u
      BY <1>1, <1>4, <2>1 DEF IInv, TypeOK
    <3> QED
      BY <1>9, <3>1 DEF SessionOf
  <2>2. CASE q # p
    <3>1. byPersona'[q] = byPersona[q]
      BY <1>1, <2>2 DEF IInv, TypeOK
    <3>2. SessionOf(byPersona[q], Owner(q))
      BY <3>1 DEF PersonaTable
    <3> QED
      BY <1>8, <3>1, <3>2 DEF SessionOf
  <2> QED
    BY <2>1, <2>2
<1>15. CopiesOwn'
  <2> SUFFICES ASSUME NEW i \in Objects, stats'[i] # None
               PROVE  i \in 1..logins' /\ (stats'[i].of # None => Owner(stats'[i].of) = objs'[i].user)
    BY DEF CopiesOwn
  <2>1. /\ stats'[i] = stats[i] /\ i \in 1..logins
        /\ stats[i].of # None => Owner(stats[i].of) = objs[i].user
    BY <1>1 DEF CopiesOwn
  <2>2. ASSUME NEW w, SessionOf(i, w) PROVE objs'[i].user = w
    BY <1>8, <2>2 DEF SessionOf
  <2>3. i \in 1..logins' /\ objs'[i].user = objs[i].user
    BY <1>5, <2>1, <2>2 DEF SessionOf
  <2> QED
    BY <2>1, <2>3
<1>16. HeldMade' /\ StatsTypes'
  BY <1>1, <1>5 DEF HeldMade, StatsTypes
<1> QED
  BY <1>7, <1>11, <1>12, <1>13, <1>14, <1>15, <1>16 DEF IInv

\* The session a report is added to is of the account of the persona it is of.
LEMMA ReportedOwn ==
  ASSUME Spelled, SInv, NEW p \in Personas, byPersona[p] # None, objs[byPersona[p]].pers # None
  PROVE  /\ Reported(p).obj \in 1..logins /\ Reported(p).obj \in Objects
         /\ Reported(p).pers \in Personas /\ Reported(p).pers # None
         /\ Owner(Reported(p).pers) = objs[Reported(p).obj].user
         /\ Reported(p).pers = p \/ p \notin pRows
<1> USE DEF SInv
<1>1. /\ byPersona[p] \in 1..logins /\ objs[byPersona[p]].user = Owner(p)
      /\ byNuid[Email(p)] \in 1..logins /\ objs[byNuid[Email(p)]].user = Owner(p)
  <2>1. SessionOf(byPersona[p], Owner(p))
    BY DEF PersonaTable
  <2>2. Email(p) \in Nuids /\ AccountOf(Email(p)) = Owner(p)
    BY PlayerAssumption DEF Email
  <2>3. objs[byPersona[p]].nuid = Email(p)
    BY <2>1, PlayerAssumption DEF IInv, Named, SessionOf, Spelled, OneSpelling, Email
  <2>4. byNuid[Email(p)] # None
    BY <2>1, <2>3 DEF IInv, Named, SessionOf
  <2> QED
    BY <2>1, <2>2, <2>4 DEF IInv, TablesOwn, SessionOf
<1>2. 1..logins \subseteq Objects /\ p # None
  BY PlayerAssumption DEF IInv, TypeOK, Objects
<1>3. objs[byPersona[p]].pers \in Personas /\ Owner(objs[byPersona[p]].pers) = objs[byPersona[p]].user
  BY <1>1, <1>2 DEF IInv, TypeOK, OwnSession
<1>4. CASE objs[byPersona[p]].pers # p /\ p \in pRows
  BY <1>1, <1>2, <1>4 DEF Reported
<1>5. CASE ~(objs[byPersona[p]].pers # p /\ p \in pRows)
  <2>1. Reported(p) = [obj |-> byPersona[p], pers |-> objs[byPersona[p]].pers]
    BY <1>5 DEF Reported
  <2> QED
    BY <1>1, <1>2, <1>3, <1>5, <2>1
<1> QED
  BY <1>4, <1>5

\* What a report saves: the row as it was, and the report.
LEMMA ReportSaved ==
  ASSUME Spelled, SInv, NEW g \in GameServers, NEW p \in Personas, NEW score \in BOOLEAN, UpdateStats(g, p, score)
  PROVE  /\ row' \in [Personas -> [scored : BOOLEAN, from : Sums] \cup {None}]
         /\ \A q \in Personas :
              /\ row'[q] # None => row[q] # None
              /\ row[q] # None => row'[q].from \in {row[q].from, row[q].from \cup {<<p, sent + 1>>}}
              /\ row[q] # None /\ row'[q].from # row[q].from => q = Reported(p).pers
         /\ stats' \in [Objects -> [of : Personas \cup {None}, scored : BOOLEAN, from : Sums] \cup {None}]
         /\ \A i \in Objects : stats'[i] # None =>
              \/ stats[i] # None /\ stats'[i].of = stats[i].of
              \/ i = Reported(p).obj /\ (stats'[i].of # None => Owner(stats'[i].of) = objs[i].user)
<1> DEFINE r == Reported(p)
           s == Loaded(r.obj, r.pers)
           sum == [s EXCEPT !.scored = @ \/ score, !.from = @ \cup {<<p, sent'>>}]
<1> USE DEF SInv
<1>1. /\ r.obj \in 1..logins /\ r.obj \in Objects
      /\ r.pers \in Personas /\ r.pers # None
      /\ Owner(r.pers) = objs[r.obj].user
  BY ReportedOwn, Zenon DEF UpdateStats
<1>2. \/ s # None /\ stats' = [stats EXCEPT ![r.obj] = sum] /\ Save(r.pers, sum)
      \/ s = None /\ UNCHANGED <<stats, row>>
  BY Zenon DEF UpdateStats
<1>3. sent' = sent + 1 /\ sent' \in 1..MaxReports
  BY ReportAssumption DEF UpdateStats, StatsTypes
<1> HIDE DEF r, s
<1>4. /\ s \in [of : Personas \cup {None}, scored : BOOLEAN, from : Sums] \cup {None}
      /\ s # None /\ s.of # None => Owner(s.of) = objs[r.obj].user
      /\ row[r.pers] # None => s.from = row[r.pers].from
  BY <1>1, LoadedOwn DEF s
<1>5. CASE s = None
  BY <1>2, <1>5 DEF StatsTypes
<1>6. CASE s # None
  <2>1. /\ sum \in [of : Personas \cup {None}, scored : BOOLEAN, from : Sums]
        /\ sum.of = s.of /\ sum.from = s.from \cup {<<p, sent'>>}
    <3>1. s \in [of : Personas \cup {None}, scored : BOOLEAN, from : Sums]
      BY <1>4, <1>6
    <3>2. s.from \cup {<<p, sent'>>} \in Sums /\ (s.scored \/ score) \in BOOLEAN
      BY <1>3, <3>1 DEF Sums
    <3> DEFINE scored == s.scored \/ score
               from == s.from \cup {<<p, sent'>>}
    <3>3. sum = [s EXCEPT !.scored = scored, !.from = from]
      OBVIOUS
    <3> HIDE DEF sum, scored, from
    <3>4. sum = [of |-> s.of, scored |-> scored, from |-> from]
      BY <3>1, <3>3
    <3> QED
      BY <3>1, <3>2, <3>4 DEF scored, from
  <2> HIDE DEF sum
  <2>2. /\ stats' \in [Objects -> [of : Personas \cup {None}, scored : BOOLEAN, from : Sums] \cup {None}]
        /\ \A i \in Objects \ {r.obj} : stats'[i] = stats[i]
        /\ stats'[r.obj] = sum
    BY <1>1, <1>2, <1>6, <2>1 DEF StatsTypes
  <2>3. /\ row' \in [Personas -> [scored : BOOLEAN, from : Sums] \cup {None}]
        /\ \A q \in Personas \ {r.pers} : row'[q] = row[q]
        /\ row'[r.pers] # None => row[r.pers] # None
        /\ row[r.pers] # None => row'[r.pers].from \in {row[r.pers].from, sum.from}
    <3>1. CASE sum.scored /\ row[r.pers] # None
      <4>1. row' = [row EXCEPT ![r.pers] = [scored |-> TRUE, from |-> sum.from]]
        BY <1>2, <1>6, <3>1 DEF Save
      <4> QED
        BY <1>1, <2>1, <3>1, <4>1 DEF StatsTypes
    <3>2. CASE ~(sum.scored /\ row[r.pers] # None)
      BY <1>2, <1>6, <3>2 DEF Save, StatsTypes
    <3> QED
      BY <3>1, <3>2
  <2> QED
    BY <1>1, <1>3, <1>4, <1>6, <2>1, <2>2, <2>3 DEF r
<1> QED
  BY <1>5, <1>6

\* A report moves a session to the persona reported about, which is of the session's
\* account, and saves.
LEMMA ReportSInv ==
  ASSUME Spelled, SInv, NEW g \in GameServers, NEW p \in Personas, NEW score \in BOOLEAN, UpdateStats(g, p, score)
  PROVE  SInv'
<1> DEFINE r == Reported(p)
<1> USE DEF SInv
<1>1. /\ r.obj \in 1..logins /\ r.obj \in Objects
      /\ r.pers \in Personas /\ Owner(r.pers) = objs[r.obj].user
  BY ReportedOwn, Zenon DEF UpdateStats
<1>2. /\ objs' = [objs EXCEPT ![r.obj].pers = r.pers]
      /\ UNCHANGED <<csockets, ud, logins, byNuid, byUser, byPersona, bans, tables>>
      /\ sent' = sent + 1 /\ sent < MaxReports
      /\ pdata' \in {pdata, [pdata EXCEPT ![g] = IF @ = None THEN Bare ELSE @]}
  BY Zenon DEF UpdateStats
<1> HIDE DEF r
<1>3. /\ objs' \in [Objects -> UserData]
      /\ \A i \in Objects : objs'[i].user = objs[i].user /\ objs'[i].nuid = objs[i].nuid
      /\ \A i \in Objects : objs'[i].pers = (IF i = r.obj THEN r.pers ELSE objs[i].pers)
  BY <1>1, <1>2, ZenonT(60) DEF IInv, TypeOK
<1>4. TypeOK'
  <2>1. UNCHANGED <<conn, registered, sockByUser, ud, logins, byNuid, byUser, byPersona, cache, ban, uOnline,
                    pOnline, pRows, keyed>>
    BY <1>2 DEF csockets, bans, tables
  <2> QED
    BY <1>3, <2>1, ZenonT(30) DEF IInv, TypeOK
<1>5. Named' /\ TablesOwn' /\ PersonaTable'
  <2>1. 1..logins \subseteq Objects
    BY PlayerAssumption DEF IInv, TypeOK, Objects
  <2> QED
    BY <1>2, <1>3, <2>1 DEF IInv, Named, TablesOwn, PersonaTable, SessionOf
<1>6. OwnSession'
  BY <1>1, <1>2, <1>3 DEF IInv, OwnSession, Account, TypeOK, Ids
<1>7. StatsTypes' /\ HeldMade'
  <2>1. sent' \in 0..MaxReports
    BY <1>2, ReportAssumption DEF StatsTypes
  <2>2. pdata' \in [GameServers -> Objects \cup {None, Bare}] /\ HeldMade'
    BY <1>2, ReportAssumption DEF StatsTypes, HeldMade
  <2> QED
    BY <2>1, <2>2, ReportSaved DEF StatsTypes
<1>8. CopiesOwn'
  BY <1>1, <1>2, <1>3, ReportSaved DEF CopiesOwn, r
<1> QED
  BY <1>4, <1>5, <1>6, <1>7, <1>8 DEF IInv

\* Every step keeps the copies in sessions of their accounts.
LEMMA NextSInv == Spelled /\ SInv /\ [StatsNext]_<<vars, reports>> => SInv'
<1>1. ASSUME SInv, UNCHANGED <<vars, reports>> PROVE SInv'
  <2>1. IInv'
    BY <1>1, NextIInv DEF SInv
  <2> QED
    BY <1>1, <2>1 DEF vars, userData, reports, SInv, StatsTypes, PersonaTable, SessionOf, CopiesOwn, HeldMade
<1> QED
  BY <1>1, PlayerSInv, PersonaSInv, PlayerStatsSInv, ServerSInv, AssociationSInv, ReportSInv DEF StatsNext

\* So they are, always.
LEMMA SInvariance == Spelled => (StatsSpec => []SInv)
<1> SUFFICES ASSUME Spelled PROVE StatsSpec => []SInv
  OBVIOUS
<1>1. SInv /\ [StatsNext]_<<vars, reports>> => SInv'
  BY NextSInv
<1> QED
  BY <1>1, InitSInv, PTL DEF StatsSpec

\* Rows of personas only go.
LEMMA RowsShrink ==
  ASSUME SInv, [StatsNext]_<<vars, reports>>
  PROVE  pRows' \subseteq pRows
<1>1. ASSUME NEW c \in Conns, GetInstanceByServer(c) \/ HandleGoodbye(c) PROVE pRows' = pRows
  BY <1>1 DEF GetInstanceByServer, HandleGoodbye, tables
<1>2. ASSUME NEW c \in Conns, NEW n \in Nuids, NuLoginPassword(c, n) PROVE pRows' = pRows
  BY <1>2, LoginOrBan DEF SInv, BanFound, Login, tables
<1>3. ASSUME NEW c \in Conns, NEW p \in Personas, NuDisablePersona(c, p) \/ NuLoginPersona(c, p)
      PROVE  pRows' \subseteq pRows
  BY <1>3, Zenon DEF NuDisablePersona, NuLoginPersona
<1>4. ASSUME NEW c \in Conns,
             PlayerStep(c) \/ PlayerGetStats(c) \/ \E p \in Personas : PersonaStep(c, p)
      PROVE  pRows' \subseteq pRows
  BY <1>1, <1>2, <1>3, <1>4 DEF PlayerStep, PlayerGetStats, PersonaStep, Goodbye, vars, tables
<1>5. ASSUME NEW g \in GameServers, Reconnect(g) \/ ServerGetStats(g) PROVE pRows' = pRows
  BY <1>5 DEF Reconnect, ServerGetStats, vars, tables
<1>6. ASSUME NEW g \in GameServers, NEW p \in Personas, NEW score \in BOOLEAN,
             NuLookupUserInfo(g, p) \/ AddAssociations(g, p) \/ UpdateStats(g, p, score)
      PROVE  pRows' = pRows
  BY <1>6, Zenon DEF NuLookupUserInfo, AddAssociations, UpdateStats, vars, tables
<1>7. CASE UNCHANGED <<vars, reports>>
  BY <1>7 DEF vars, tables
<1> QED
  BY <1>4, <1>5, <1>6, <1>7 DEF StatsNext

\* The rows of stats change by a report only.
LEMMA RowsByReport ==
  ASSUME StatsNext, row' # row
  PROVE  \E g \in GameServers, p \in Personas, score \in BOOLEAN : UpdateStats(g, p, score)
  BY Zenon DEF StatsNext, PlayerStep, PlayerGetStats, PersonaStep, Reconnect, ServerGetStats, NuLookupUserInfo,
         AddAssociations

\* ReportsKept: a report that has been saved is in its row from then on.
THEOREM ReportsLast == Spelled => (StatsSpec => ReportsKept)
<1> SUFFICES ASSUME Spelled PROVE StatsSpec => ReportsKept
  OBVIOUS
<1>1. SInv /\ [StatsNext]_<<vars, reports>> =>
        [\A p \in Personas : row[p] # None => row[p].from \subseteq row'[p].from]_<<vars, reports>>
  <2> SUFFICES ASSUME SInv, StatsNext, NEW p \in Personas, row[p] # None, row' # row
               PROVE  row[p].from \subseteq row'[p].from
    OBVIOUS
  <2>1. PICK g \in GameServers, q \in Personas, score \in BOOLEAN : UpdateStats(g, q, score)
    BY RowsByReport
  <2> QED
    BY <2>1, ReportSaved
<1>2. StatsSpec => []SInv
  BY SInvariance
<1> QED
  BY <1>1, <1>2, PTL DEF StatsSpec, ReportsKept

\* A report goes into the row of its persona while that has one.
LEMMA NextRowsOwn ==
  ASSUME Spelled, SInv, RowsOwn, [StatsNext]_<<vars, reports>>
  PROVE  RowsOwn'
<1>1. pRows' \subseteq pRows
  BY RowsShrink
<1>2. CASE row' = row
  BY <1>1, <1>2 DEF RowsOwn
<1>3. CASE row' # row
  <2>1. PICK g \in GameServers, p \in Personas, score \in BOOLEAN : UpdateStats(g, p, score)
    BY <1>3, RowsByReport DEF reports
  <2>2. Reported(p).pers = p \/ p \notin pRows
    BY <2>1, ReportedOwn, Zenon DEF UpdateStats
  <2> SUFFICES ASSUME NEW q \in Personas, row'[q] # None, NEW rep \in row'[q].from
               PROVE  rep[1] \in {q} \cup (Personas \ pRows')
    BY DEF RowsOwn
  <2>3. row[q] # None /\ (rep \in row[q].from \/ (rep = <<p, sent + 1>> /\ q = Reported(p).pers))
    BY <2>1, ReportSaved
  <2> QED
    BY <1>1, <2>2, <2>3 DEF RowsOwn
<1> QED
  BY <1>2, <1>3

\* RowsOwn: a row sums reports about its own persona, or about one whose row has
\* been deleted since its session last had a persona.
THEOREM RowsOfOwner == Spelled => (StatsSpec => []RowsOwn)
<1> SUFFICES ASSUME Spelled PROVE StatsSpec => []RowsOwn
  OBVIOUS
<1>1. StatsInit => RowsOwn
  BY DEF StatsInit, RowsOwn
<1>2. SInv /\ RowsOwn /\ [StatsNext]_<<vars, reports>> => RowsOwn'
  BY NextRowsOwn
<1>3. StatsSpec => []SInv
  BY SInvariance
<1> QED
  BY <1>1, <1>2, <1>3, PTL DEF StatsSpec

\* An answer is of the persona in the session, or of what was loaded before.
LEMMA NextAnswerOwn ==
  ASSUME SInv, AnswerOwn, [StatsNext]_<<vars, reports>>
  PROVE  AnswerOwn'
<1> USE DEF SInv
<1>1. CASE UNCHANGED <<vars, reports>>
  BY <1>1 DEF reports, AnswerOwn
<1>2. CASE answer' = NoAnswer
  BY <1>2 DEF NoAnswer, AnswerOwn
<1>3. ASSUME NEW c \in Conns, PlayerGetStats(c), answer' # NoAnswer PROVE AnswerOwn'
  <2> DEFINE o == ud[c]
             s == Loaded(o, objs[o].pers)
  <2>1. ud[c] # None /\ answer' = [to |-> c, of |-> s.of, pers |-> objs[o].pers] /\ s # None /\ UNCHANGED row
    BY <1>3 DEF PlayerGetStats
  <2>2. /\ o \in 1..logins /\ o \in Objects /\ objs[o].user \in Creds(c)
    <3>1. o \in 1..logins /\ Account(c) = objs[o].user
      BY <2>1 DEF IInv, TablesOwn, Account
    <3>2. objs[o].user \in Users
      BY <3>1 DEF IInv, Named
    <3>3. 1..logins \subseteq Objects
      BY PlayerAssumption DEF IInv, TypeOK, Objects
    <3> HIDE DEF o
    <3> QED
      BY <3>1, <3>2, <3>3, PlayerAssumption DEF IInv, OwnSession
  <2>3. objs[o].pers \in Personas \cup {None} /\ (objs[o].pers # None => Owner(objs[o].pers) = objs[o].user)
    BY <2>2 DEF IInv, TypeOK, OwnSession
  <2> HIDE DEF o
  <2>4. /\ s.of # None => Owner(s.of) = objs[o].user
        /\ objs[o].pers # None /\ row[objs[o].pers] # None => s.of = objs[o].pers
    BY <2>1, <2>2, <2>3, LoadedOwn
  <2> HIDE DEF s
  <2> QED
    BY <2>1, <2>2, <2>4 DEF AnswerOwn
<1>4. ASSUME NEW g \in GameServers, ServerGetStats(g), answer' # NoAnswer PROVE AnswerOwn'
  <2> DEFINE o == pdata[g]
             s == IF Loaded(o, objs[o].pers) = None THEN NoStats ELSE Loaded(o, objs[o].pers)
  <2>1. o \in Objects /\ answer' = [to |-> g, of |-> s.of, pers |-> objs[o].pers] /\ UNCHANGED row
    BY <1>4 DEF ServerGetStats
  <2>2. o \in 1..logins
    BY <2>1 DEF HeldMade
  <2>3. objs[o].pers \in Personas \cup {None} /\ (objs[o].pers # None => Owner(objs[o].pers) = objs[o].user)
    BY <2>1 DEF IInv, TypeOK, OwnSession
  <2> HIDE DEF o
  <2>4. s.of # None /\ objs[o].pers # None => s.of = objs[o].pers \/ row[objs[o].pers] = None
    BY <2>1, <2>2, <2>3, LoadedOwn DEF NoStats
  <2> HIDE DEF s
  <2>5. g \notin Conns
    BY ReportAssumption
  <2> QED
    BY <2>1, <2>4, <2>5 DEF AnswerOwn
<1> QED
  BY <1>1, <1>2, <1>3, <1>4, ZenonT(30)
     DEF StatsNext, PlayerStep, PersonaStep, Reconnect, NuLookupUserInfo, AddAssociations, UpdateStats

\* AnswerOwn: GetStats answers with statistics of the persona in the session it was
\* asked for, or of another persona of the player's own accounts.
THEOREM AnswersOwn == Spelled => (StatsSpec => []AnswerOwn)
<1> SUFFICES ASSUME Spelled PROVE StatsSpec => []AnswerOwn
  OBVIOUS
<1>1. StatsInit => AnswerOwn
  BY DEF StatsInit, NoAnswer, AnswerOwn
<1>2. SInv /\ AnswerOwn /\ [StatsNext]_<<vars, reports>> => AnswerOwn'
  BY NextAnswerOwn
<1>3. StatsSpec => []SInv
  BY SInvariance
<1> QED
  BY <1>1, <1>2, <1>3, PTL DEF StatsSpec
=============================================================================
