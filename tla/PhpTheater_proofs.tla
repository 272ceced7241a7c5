------------------------- MODULE PhpTheater_proofs --------------------------
(***************************************************************************)
(* Proofs about PhpTheater for any number of game servers, connections and *)
(* restarts.  What a join relies on follows from how rows are numbered and *)
(* found: ids are given in order, one game to an address, and a connection *)
(* that has created its game knows the row of its own address.             *)
(***************************************************************************)
EXTENDS PhpTheater, FiniteSetTheorems, TLAPS

\* AUTO_INCREMENT: the rows are those with an id below the next one.
RowsNumbered == \A g \in GameIds : g \in Rows <=> g < nextId

OneGamePerAddress ==
  \A g, h \in Rows : games[g].addr = games[h].addr => g = h

\* A connection's gid is the row of its own address.
GidRow ==
  \A s \in Servers :
    /\ gid[s] # 0 => gid[s] \in Rows /\ games[gid[s]].addr = Addr(s)
    /\ sconn[s] = "none" => gid[s] = 0

IInv ==
  /\ TypeOK
  /\ RowsNumbered
  /\ OneGamePerAddress
  /\ GidRow
  /\ RegistryPoints
  /\ OnlineHasServer
  /\ ServedListed

\* There are finitely many addresses, so as many as their number says.
LEMMA AddressesFinite == IsFiniteSet(Addresses) /\ Cardinality(Addresses) \in Nat
<1> DEFINE f == [s \in Servers |-> Addr(s)]
<1>1. f \in Surjection(Servers, Addresses)
  BY DEF Surjection, Addresses
<1>2. IsFiniteSet(Addresses)
  BY <1>1, FS_Surjection, ServerAssumption
<1> QED
  BY <1>2, FS_CardinalityType

\* The count of some slots fits into game_ap.
LEMMA SlotCount ==
  ASSUME NEW T \in SUBSET Slots
  PROVE  Cardinality(T) \in 0..Cardinality(Slots)
<1>1. IsFiniteSet(T) /\ Cardinality(T) <= Cardinality(Slots)
  BY FS_Subset, ServerAssumption
<1> QED
  BY <1>1, FS_CardinalityType, ServerAssumption

\* An address without a game leaves an id for one.
LEMMA RoomForGame ==
  ASSUME IInv, NEW s \in Servers, Found(s) = {}
  PROVE  nextId \in GameIds
<1> DEFINE n == nextId - 1
           f == [g \in 1..n |-> games[g].addr]
           others == Addresses \ {Addr(s)}
<1>1. nextId \in 1..(Cardinality(Addresses) + 1) /\ n \in Nat
  BY AddressesFinite DEF IInv, TypeOK
<1>2. \A g \in 1..n : g \in Rows /\ games[g] \in GameRow
  BY <1>1, AddressesFinite DEF IInv, TypeOK, RowsNumbered, GameIds, Rows
<1>3. \A g \in 1..n : games[g].addr \in others
  BY <1>2 DEF GameRow, Found
<1>4. f \in Injection(1..n, others)
  BY <1>2, <1>3 DEF Injection, IsInjective, IInv, OneGamePerAddress
<1>5. IsFiniteSet(others) /\ Cardinality(others) = Cardinality(Addresses) - 1
  <2>1. Addr(s) \in Addresses
    BY DEF Addresses
  <2> HIDE DEF others
  <2> QED
    BY <2>1, AddressesFinite, FS_RemoveElement DEF others
<1>6. Cardinality(1..n) <= Cardinality(others)
  BY <1>4, <1>5, FS_Injection
<1>7. Cardinality(1..n) = n
  BY <1>1, FS_Interval
<1> QED
  BY <1>1, <1>5, <1>6, <1>7, AddressesFinite DEF GameIds

\* The tables and counters start empty.
LEMMA InitIInv == Init => IInv
<1> SUFFICES ASSUME Init PROVE IInv
  OBVIOUS
<1>1. TypeOK
  BY ServerAssumption, AddressesFinite DEF Init, TypeOK, NoTicket
<1>2. Rows = {}
  BY DEF Init, Rows
<1> QED
  BY <1>1, <1>2, AddressesFinite
     DEF Init, IInv, RowsNumbered, OneGamePerAddress, GidRow, RegistryPoints,
         OnlineHasServer, ServedListed, GameIds

\* A game server that creates its game, whether its row is found or inserted:
\* the row it gets is the only one of its address, and if the connection had
\* created its game before, it gets the same.
LEMMA CgamIInv ==
  ASSUME IInv, NEW s \in Servers, CGAM(s)
  PROVE  IInv'
<1> USE DEF IInv
<1>1. ASSUME NEW g \in Found(s),
             games' = [games EXCEPT ![g].online = TRUE],
             gid' = [gid EXCEPT ![s] = g],
             Register(s, g), nextId' = nextId
      PROVE  IInv'
  <2>1. sconn[s] = "open" /\ UNCHANGED <<sconn, gdet, players, ticket, restarts>>
    BY DEF CGAM
  <2>2. g \in GameIds /\ g \in Rows /\ games[g] \in GameRow /\ games[g].addr = Addr(s) /\ g # 0
    BY DEF Found, Rows, TypeOK, GameIds
  <2>3. gid[s] \in {0, g}
    BY <2>2 DEF GidRow, OneGamePerAddress
  <2>4. games' \in [GameIds -> GameRow \cup {None}]
    BY <1>1, <2>2 DEF TypeOK, GameRow
  <2>5. TypeOK'
    BY <1>1, <2>1, <2>2, <2>4 DEF TypeOK, Register
  <2>6. /\ Rows' = Rows
        /\ \A h \in Rows : games'[h].addr = games[h].addr
        /\ \A h \in GameIds \ {g} : games'[h] = games[h]
        /\ games'[g].online
    <3>1. \A h \in GameIds \ {g} : games'[h] = games[h]
      BY <1>1 DEF TypeOK
    <3>2. games'[g] = [games[g] EXCEPT !.online = TRUE]
      BY <1>1, <2>2 DEF TypeOK
    <3>3. games'[g] \in GameRow /\ games'[g].addr = games[g].addr /\ games'[g].online
      BY <2>2, <3>2 DEF GameRow
    <3> QED
      BY <2>2, <3>1, <3>3, ServerAssumption DEF Rows
  <2>7. RowsNumbered' /\ OneGamePerAddress'
    BY <1>1, <2>6 DEF RowsNumbered, OneGamePerAddress
  <2>8. GidRow'
    BY <1>1, <2>1, <2>2, <2>6 DEF GidRow, TypeOK
  <2>9. RegistryPoints'
    <3> SUFFICES ASSUME NEW h \in GameIds, byGid'[h] # None
                 PROVE  Alive(byGid[h])' /\ gid'[byGid'[h]] = h
      BY DEF RegistryPoints
    <3>1. byGid'[h] = byGid[h] \/ (h = g /\ byGid'[h] = s)
      BY <1>1, <2>2 DEF Register, TypeOK
    <3>2. CASE h = g /\ byGid'[h] = s
      BY <1>1, <2>1, <3>2 DEF Alive, TypeOK
    <3>3. CASE byGid'[h] = byGid[h]
      <4>1. byGid[h] \in Servers /\ Alive(byGid[h]) /\ gid[byGid[h]] = h
        BY <3>3 DEF RegistryPoints, TypeOK
      <4>2. byGid[h] = s => h = g
        BY <2>3, <4>1 DEF GameIds
      <4> QED
        BY <1>1, <2>1, <3>3, <4>1, <4>2 DEF Alive, TypeOK
    <3> QED
      BY <3>1, <3>2, <3>3
  <2>10. OnlineHasServer'
    <3> SUFFICES ASSUME NEW h \in Rows, games'[h].online
                 PROVE  \E t \in Servers : Alive(t)' /\ gid'[t] = h
      BY <2>6 DEF OnlineHasServer
    <3>1. CASE h = g
      BY <1>1, <2>1, <3>1 DEF Alive, TypeOK
    <3>2. CASE h # g
      <4>1. PICK t \in Servers : Alive(t) /\ gid[t] = h
        BY <2>6, <3>2 DEF OnlineHasServer, Rows
      <4>2. t # s
        BY <2>3, <3>2, <4>1 DEF Rows, GameIds
      <4> QED
        BY <1>1, <2>1, <4>1, <4>2 DEF Alive, TypeOK
    <3> QED
      BY <3>1, <3>2
  <2>11. ServedListed'
    BY <1>1, <2>1, <2>2, <2>3, <2>6 DEF ServedListed, RegistryPoints, Register, TypeOK, GidRow, Rows
  <2> QED
    BY <2>5, <2>7, <2>8, <2>9, <2>10, <2>11
<1>2. ASSUME Found(s) = {},
             games' = [games EXCEPT ![nextId] = NewRow(s)],
             gid' = [gid EXCEPT ![s] = nextId],
             Register(s, nextId), nextId' = nextId + 1
      PROVE  IInv'
  <2>1. sconn[s] = "open" /\ UNCHANGED <<sconn, gdet, players, ticket, restarts>>
    BY DEF CGAM
  <2>2. nextId \in GameIds /\ nextId # 0
    BY <1>2, RoomForGame DEF GameIds
  <2>3. nextId \notin Rows /\ gid[s] = 0
    BY <1>2, <2>2 DEF RowsNumbered, GidRow, Found, GameIds
  <2>4. NewRow(s) \in GameRow
    BY FS_CardinalityType, ServerAssumption DEF NewRow, GameRow, Addresses
  <2>5. TypeOK'
    BY <1>2, <2>1, <2>2, <2>4, AddressesFinite DEF TypeOK, Register, GameIds
  <2>6. /\ Rows' = Rows \cup {nextId}
        /\ \A h \in Rows : games'[h] = games[h]
        /\ games'[nextId] = NewRow(s)
    BY <1>2, <2>2, <2>3, <2>4, ServerAssumption DEF Rows, TypeOK
  <2>7. RowsNumbered'
    BY <1>2, <2>2, <2>6, AddressesFinite DEF RowsNumbered, GameIds
  <2>8. OneGamePerAddress'
    BY <1>2, <2>6 DEF OneGamePerAddress, Found, NewRow
  <2>9. GidRow'
    BY <1>2, <2>1, <2>2, <2>6 DEF GidRow, NewRow, TypeOK
  <2>10. byGid[nextId] = None
    BY <2>2, <2>3 DEF RegistryPoints, GidRow, TypeOK
  <2>11. RegistryPoints'
    <3> SUFFICES ASSUME NEW h \in GameIds, byGid'[h] # None
                 PROVE  Alive(byGid[h])' /\ gid'[byGid'[h]] = h
      BY DEF RegistryPoints
    <3>1. CASE h = nextId
      <4>1. byGid'[h] = s
        BY <1>2, <2>2, <2>10, <3>1 DEF Register, TypeOK
      <4> QED
        BY <1>2, <2>1, <3>1, <4>1 DEF Alive, TypeOK
    <3>2. CASE h # nextId
      <4>1. byGid'[h] = byGid[h]
        BY <1>2, <2>10, <3>2 DEF Register, TypeOK
      <4>2. byGid[h] \in Servers /\ Alive(byGid[h]) /\ gid[byGid[h]] = h
        BY <4>1 DEF RegistryPoints, TypeOK
      <4>3. byGid[h] # s
        BY <2>3, <4>2 DEF GameIds
      <4> QED
        BY <1>2, <2>1, <4>1, <4>2, <4>3 DEF Alive, TypeOK
    <3> QED
      BY <3>1, <3>2
  <2>12. OnlineHasServer'
    <3> SUFFICES ASSUME NEW h \in Rows', games'[h].online
                 PROVE  \E t \in Servers : Alive(t)' /\ gid'[t] = h
      BY DEF OnlineHasServer
    <3>1. CASE h = nextId
      BY <1>2, <2>1, <3>1 DEF Alive, TypeOK
    <3>2. CASE h # nextId
      <4>1. h \in Rows /\ games[h].online
        BY <2>6, <3>2
      <4>2. PICK t \in Servers : Alive(t) /\ gid[t] = h
        BY <4>1 DEF OnlineHasServer
      <4>3. t # s
        BY <2>3, <4>1, <4>2 DEF Rows, GameIds
      <4> QED
        BY <1>2, <2>1, <4>2, <4>3 DEF Alive, TypeOK
    <3> QED
      BY <3>1, <3>2
  <2>13. ServedListed'
    BY <1>2, <2>1, <2>2, <2>3, <2>6, <2>10
       DEF ServedListed, Register, NewRow, TypeOK, GidRow, Rows
  <2> QED
    BY <2>5, <2>7, <2>8, <2>9, <2>11, <2>12, <2>13
<1> QED
  BY <1>1, <1>2 DEF CGAM

\* A connection that is made or lost.
LEMMA ConnectionIInv ==
  ASSUME IInv, NEW s \in Servers, Accept(s) \/ Drop(s)
  PROVE  IInv'
<1> USE DEF IInv
<1>1. /\ UNCHANGED <<gid, byGid, games, nextId, gdet, players, ticket, restarts>>
      /\ sconn' \in [Servers -> {"none", "open", "dead", "closed"}]
      /\ \A t \in Servers : Alive(t) => Alive(t)'
      /\ \A t \in Servers : sconn'[t] = "open" => sconn[t] = "open" \/ (t = s /\ sconn[s] = "none")
  BY DEF Accept, Drop, TypeOK, Alive
<1>0. \A t \in Servers : sconn'[t] = "none" => sconn[t] = "none"
  BY DEF Accept, Drop, TypeOK
<1>2. TypeOK'
  BY <1>1 DEF TypeOK
<1>3. Rows' = Rows /\ RowsNumbered' /\ OneGamePerAddress' /\ GidRow'
  BY <1>1, <1>0 DEF Rows, RowsNumbered, OneGamePerAddress, GidRow
<1>4. RegistryPoints'
  BY <1>1 DEF RegistryPoints, TypeOK
<1>5. OnlineHasServer'
  BY <1>1, <1>3 DEF OnlineHasServer
<1>6. ServedListed'
  BY <1>1 DEF ServedListed, GidRow
<1> QED
  BY <1>2, <1>3, <1>4, <1>5, <1>6

\* A report of slots changes nothing of the rows but a count, whatever game it names.
LEMMA UgdeRows ==
  ASSUME IInv, NEW s \in Servers, NEW g \in GameIds, NEW slot \in Slots, UGDE(s, g, slot)
  PROVE  /\ games' \in [GameIds -> GameRow \cup {None}]
         /\ gdet' \in [GameIds -> (SUBSET Slots) \cup {None}]
         /\ Rows' = Rows
         /\ \A h \in Rows : games'[h].addr = games[h].addr /\ games'[h].online = games[h].online
<1> USE DEF IInv
<1> DEFINE old == IF gdet[g] = None THEN {} ELSE gdet[g]
           new == IF slot \in players[Addr(s)] THEN old \ {slot} ELSE old \cup {slot}
<1>1. Addr(s) \in Addresses
  BY DEF Addresses
<1>2. new \in SUBSET Slots /\ Cardinality(new) \in 0..Cardinality(Slots)
  <2>1. new \in SUBSET Slots
    BY <1>1 DEF TypeOK
  <2> QED
    BY <2>1, SlotCount
<1>3. /\ games' = IF g \in Rows THEN [games EXCEPT ![g].ap = Cardinality(new)] ELSE games
      /\ gdet' = [gdet EXCEPT ![g] = new]
  BY DEF UGDE
<1> HIDE DEF new
<1>4. gdet' \in [GameIds -> (SUBSET Slots) \cup {None}]
  BY <1>2, <1>3 DEF TypeOK
<1>5. CASE g \notin Rows
  BY <1>3, <1>4, <1>5 DEF Rows, TypeOK
<1>6. CASE g \in Rows
  <2>1. games[g] \in GameRow /\ games' = [games EXCEPT ![g].ap = Cardinality(new)]
    BY <1>3, <1>6 DEF TypeOK, Rows
  <2>2. games' \in [GameIds -> GameRow \cup {None}]
    BY <1>2, <1>6, <2>1 DEF TypeOK, GameRow, Rows
  <2>3. \A h \in GameIds \ {g} : games'[h] = games[h]
    BY <2>1 DEF TypeOK
  <2>4. games'[g] = [games[g] EXCEPT !.ap = Cardinality(new)]
    BY <1>6, <2>1 DEF TypeOK, Rows
  <2>5. /\ games'[g] \in GameRow
        /\ games'[g].addr = games[g].addr /\ games'[g].online = games[g].online
    BY <1>2, <2>1, <2>4 DEF GameRow
  <2> QED
    BY <1>4, <1>6, <2>2, <2>3, <2>5, ServerAssumption DEF Rows
<1> QED
  BY <1>5, <1>6

\* A game server names a game there can be.
LEMMA NamedIds == IInv => \A s \in Servers : NamedBy(s) \subseteq GameIds
  BY DEF IInv, TypeOK, NamedBy

\* So it preserves the invariant.
LEMMA UgdeIInv ==
  ASSUME IInv, NEW s \in Servers, NEW g \in GameIds, NEW slot \in Slots, UGDE(s, g, slot)
  PROVE  IInv'
<1> USE DEF IInv
<1>1. /\ UNCHANGED <<sconn, gid, byGid, nextId, ticket, restarts>>
      /\ players' \in [Addresses -> SUBSET Slots]
  BY DEF UGDE, TypeOK
<1>2. /\ Rows' = Rows
      /\ \A h \in Rows : games'[h].addr = games[h].addr /\ games'[h].online = games[h].online
  BY UgdeRows
<1>3. TypeOK'
  BY <1>1, UgdeRows DEF TypeOK
<1>4. RowsNumbered' /\ OneGamePerAddress' /\ GidRow'
  BY <1>1, <1>2 DEF RowsNumbered, OneGamePerAddress, GidRow
<1>5. RegistryPoints'
  BY <1>1 DEF RegistryPoints, Alive
<1>6. OnlineHasServer'
  BY <1>1, <1>2 DEF OnlineHasServer, Alive
<1>7. ServedListed'
  BY <1>1, <1>2 DEF ServedListed, GidRow
<1> QED
  BY <1>3, <1>4, <1>5, <1>6, <1>7

\* The end of a connection takes its game off the list, also when another one
\* has it now; that other one then shares its gid, which ServedListed allows for.
LEMMA GoodbyeIInv ==
  ASSUME IInv, NEW s \in Servers, HandleGoodbye(s)
  PROVE  IInv'
<1> USE DEF IInv
<1>1. /\ sconn[s] = "dead" /\ sconn' = [sconn EXCEPT ![s] = "closed"]
      /\ UNCHANGED <<gid, nextId, gdet, players, ticket, restarts>>
  BY DEF HandleGoodbye
<1>2. \A t \in Servers \ {s} : sconn'[t] = sconn[t] /\ (Alive(t)' <=> Alive(t))
  BY <1>1 DEF Alive, TypeOK
<1>3. CASE gid[s] = 0
  <2>1. UNCHANGED <<games, byGid>>
    BY <1>3 DEF HandleGoodbye
  <2>2. TypeOK'
    BY <1>1, <2>1 DEF TypeOK
  <2>3. Rows' = Rows /\ RowsNumbered' /\ OneGamePerAddress' /\ GidRow'
    BY <1>1, <2>1 DEF Rows, RowsNumbered, OneGamePerAddress, GidRow
  <2>4. RegistryPoints'
    BY <1>1, <1>2, <1>3, <2>1 DEF RegistryPoints, TypeOK, GameIds
  <2>5. OnlineHasServer'
    BY <1>1, <1>2, <1>3, <2>1 DEF OnlineHasServer, Rows, GameIds
  <2>6. ServedListed'
    BY <1>1, <1>2, <1>3, <2>1 DEF ServedListed
  <2> QED
    BY <2>2, <2>3, <2>4, <2>5, <2>6
<1>4. CASE gid[s] # 0
  <2> DEFINE g == gid[s]
  <2>1. /\ games' = [games EXCEPT ![g].online = FALSE]
        /\ byGid' = [byGid EXCEPT ![g] = None]
    BY <1>4 DEF HandleGoodbye
  <2>2. g \in Rows /\ games[g] \in GameRow
    BY <1>4 DEF GidRow, Rows, TypeOK
  <2> HIDE DEF g
  <2>3. games' \in [GameIds -> GameRow \cup {None}]
    BY <2>1, <2>2 DEF TypeOK, GameRow, Rows
  <2>4. TypeOK'
    BY <1>1, <2>1, <2>3 DEF TypeOK
  <2>5. /\ Rows' = Rows /\ ~games'[g].online
        /\ \A h \in Rows : games'[h].addr = games[h].addr
        /\ \A h \in Rows \ {g} : games'[h] = games[h]
        /\ byGid'[g] = None
        /\ \A h \in GameIds \ {g} : byGid'[h] = byGid[h]
    <3>1. /\ \A h \in GameIds \ {g} : games'[h] = games[h] /\ byGid'[h] = byGid[h]
          /\ byGid'[g] = None
      BY <2>1, <2>2 DEF TypeOK, Rows
    <3>2. games'[g] = [games[g] EXCEPT !.online = FALSE]
      BY <2>1, <2>2 DEF TypeOK, Rows
    <3>3. games'[g] \in GameRow /\ games'[g].addr = games[g].addr /\ ~games'[g].online
      BY <2>2, <3>2 DEF GameRow
    <3> QED
      BY <2>2, <3>1, <3>3, ServerAssumption DEF Rows
  <2>6. RowsNumbered' /\ OneGamePerAddress' /\ GidRow'
    BY <1>1, <2>5 DEF RowsNumbered, OneGamePerAddress, GidRow
  <2>7. RegistryPoints'
    <3> SUFFICES ASSUME NEW h \in GameIds, byGid'[h] # None
                 PROVE  Alive(byGid[h])' /\ gid'[byGid'[h]] = h
      BY DEF RegistryPoints
    <3>1. h # g /\ byGid'[h] = byGid[h]
      BY <2>5
    <3>2. byGid[h] \in Servers \ {s} /\ Alive(byGid[h]) /\ gid[byGid[h]] = h
      BY <3>1 DEF RegistryPoints, TypeOK, g
    <3> QED
      BY <1>1, <1>2, <3>1, <3>2 DEF Alive
  <2>8. OnlineHasServer'
    <3> SUFFICES ASSUME NEW h \in Rows, games'[h].online
                 PROVE  \E t \in Servers : Alive(t)' /\ gid'[t] = h
      BY <2>5 DEF OnlineHasServer
    <3>1. h # g /\ games[h].online
      BY <2>5
    <3>2. PICK t \in Servers : Alive(t) /\ gid[t] = h
      BY <3>1 DEF OnlineHasServer
    <3> QED
      BY <1>1, <1>2, <3>1, <3>2 DEF g
  <2>9. ServedListed'
    <3> SUFFICES ASSUME NEW t \in Servers, sconn'[t] = "open", gid'[t] # 0,
                        \A d \in Servers \ {t} : gid'[d] # gid'[t]
                 PROVE  games'[gid'[t]].online /\ byGid'[gid'[t]] = t
      BY DEF ServedListed
    <3>1. t # s /\ sconn[t] = "open" /\ gid[t] \in Rows \ {g}
      BY <1>1, <1>2 DEF GidRow, TypeOK, g
    <3>2. games[gid[t]].online /\ byGid[gid[t]] = t
      BY <1>1, <3>1 DEF ServedListed
    <3> QED
      BY <1>1, <2>5, <3>1, <3>2 DEF Rows
  <2> QED
    BY <2>4, <2>6, <2>7, <2>8, <2>9
<1> QED
  BY <1>3, <1>4

\* A restart forgets the games and everybody's ids together.
LEMMA RestartIInv == IInv /\ Restart => IInv'
<1> SUFFICES ASSUME IInv, Restart PROVE IInv'
  OBVIOUS
<1>1. TypeOK'
  BY AddressesFinite, ServerAssumption DEF IInv, TypeOK, Restart, NoTicket
<1>2. Rows' = {}
  BY DEF Rows, Restart
<1> QED
  BY <1>1, <1>2, AddressesFinite
     DEF IInv, Restart, RowsNumbered, OneGamePerAddress, GidRow, RegistryPoints,
         OnlineHasServer, ServedListed, GameIds

\* Every step preserves the inductive invariant; EGAM only writes a ticket.
LEMMA NextIInv == IInv /\ [Next]_vars => IInv'
<1> SUFFICES ASSUME IInv, [Next]_vars
             PROVE  IInv'
  OBVIOUS
<1>1. ASSUME UNCHANGED <<sconn, gid, byGid, games, nextId, gdet, players, restarts>>,
             TypeOK'
      PROVE  IInv'
  BY <1>1 DEF IInv, Rows, RowsNumbered, OneGamePerAddress, GidRow,
              RegistryPoints, OnlineHasServer, ServedListed, Alive
<1>2. CASE UNCHANGED vars
  BY <1>1, <1>2 DEF vars, IInv, TypeOK
<1>3. ASSUME NEW g \in GameIds, EGAM(g) PROVE IInv'
  <2>1. g \in Rows => games[g].addr \in Addresses
    BY DEF IInv, TypeOK, Rows, GameRow
  <2>2. TypeOK'
    BY <1>3, <2>1 DEF IInv, TypeOK, EGAM
  <2> QED
    BY <1>1, <1>3, <2>2 DEF EGAM
<1>4. ASSUME NEW s \in Servers, NEW g \in NamedBy(s), NEW slot \in Slots, UGDE(s, g, slot)
      PROVE  IInv'
  BY <1>4, NamedIds, UgdeIInv
<1> QED
  BY <1>2, <1>3, <1>4, ConnectionIInv, CgamIInv, GoodbyeIInv, RestartIInv DEF Next

\* The inductive invariant holds in every reachable state.
LEMMA Invariance == Spec => []IInv
  BY InitIInv, NextIInv, PTL DEF Spec

\* The tables stay in their types: ids run out for no address, and game_ap fits.
THEOREM TypeCorrect == Spec => []TypeOK
  BY Invariance, PTL DEF IInv

\* A game id in STSocket's table leads to a connection that is there and has
\* that game, however connections of one game server overlap and die late.
THEOREM RegistrySafe == Spec => []RegistryPoints
  BY Invariance, PTL DEF IInv

\* A game is marked online only while a connection for it is there.
THEOREM OnlineServed == Spec => []OnlineHasServer
  BY Invariance, PTL DEF IInv

\* A game server alone on its game is listed and can be reached.
THEOREM ServerListed == Spec => []ServedListed
  BY Invariance, PTL DEF IInv

\* EGAM sends a player to the address of the very server it asked to let him
\* in, for any id he asks for.
THEOREM JoinMeets == Spec => TicketMeets
<1> DEFINE Meets == ticket' # ticket /\ ticket'.egrq # None => ticket'.egeg = Addr(ticket'.egrq)
<1>1. IInv /\ [Next]_vars => [Meets]_vars
  <2> SUFFICES ASSUME IInv, Next, ticket' # ticket, ticket'.egrq # None
               PROVE  ticket'.egeg = Addr(ticket'.egrq)
    OBVIOUS
  <2>1. CASE \E g \in GameIds : EGAM(g)
    <3>1. PICK g \in GameIds : EGAM(g)
      BY <2>1
    <3>2. /\ ticket'.egrq = byGid[g]
          /\ ticket'.egeg = IF byGid[g] # None /\ g \in Rows THEN games[g].addr ELSE None
      BY <3>1 DEF EGAM
    <3>3. byGid[g] \in Servers /\ gid[byGid[g]] = g /\ g # 0
      BY <3>2 DEF IInv, RegistryPoints, TypeOK, GameIds
    <3>4. g \in Rows /\ games[g].addr = Addr(byGid[g])
      BY <3>3 DEF IInv, GidRow
    <3> QED
      BY <3>2, <3>4
  <2>2. CASE Restart
    BY <2>2 DEF Restart, NoTicket
  <2> QED
    BY <2>1, <2>2 DEF Next, Accept, CGAM, UGDE, Drop, HandleGoodbye
<1>2. Spec => [][Meets]_vars
  BY <1>1, Invariance, PTL DEF Spec
<1> QED
  BY <1>2 DEF TicketMeets

-----------------------------------------------------------------------------
(***************************************************************************)
(* Theater implements the directory: the mapped state changes as one of    *)
(* its steps says, or not at all.                                          *)
(***************************************************************************)
\* Of one id, one is chosen.
LEMMA AmongOne ==
  ASSUME NEW g
  PROVE  IdAmong({g}) = g
  BY DEF IdAmong

\* The row of an address is one, and its id is the one the mapping gives.
LEMMA IdAtOne ==
  ASSUME IInv, NEW a \in Addresses, NEW g \in IdAt(a)
  PROVE  IdAt(a) = {g} /\ IdOf[a] = g
<1>1. IdAt(a) = {g}
  BY DEF IInv, OneGamePerAddress, IdAt, Rows
<1> QED
  BY <1>1, AmongOne DEF IdOf

\* An address without a row has no id, and other ids are those of rows.
LEMMA IdOfRow ==
  ASSUME IInv, NEW a \in Addresses
  PROVE  IF IdAt(a) = {} THEN IdOf[a] = 0 ELSE IdOf[a] \in IdAt(a)
<1>1. CASE IdAt(a) = {}
  BY <1>1 DEF IdOf, IdAmong
<1>2. CASE IdAt(a) # {}
  BY <1>2, IdAtOne
<1> QED
  BY <1>1, <1>2

\* The mapping reads nothing of a row but its address and whether it is online.
LEMMA SameRows ==
  ASSUME Rows' = Rows,
         \A g \in Rows : games'[g].addr = games[g].addr
  PROVE  /\ \A a \in Addresses : IdAt(a)' = IdAt(a)
         /\ IdOf' = IdOf
<1>1. \A a \in Addresses : IdAt(a)' = IdAt(a)
  BY DEF IdAt
<1> QED
  BY <1>1 DEF IdOf

\* What a game server says about its connection or its players is nothing the
\* directory sees.
LEMMA Unseen ==
  ASSUME IInv, NEW s \in Servers,
         Accept(s) \/ Drop(s) \/ \E g \in GameIds, slot \in Slots : UGDE(s, g, slot)
  PROVE  UNCHANGED Directory!dvars
<1>1. CASE Accept(s) \/ Drop(s)
  <2>1. UNCHANGED <<gid, byGid, games, ticket>>
    BY <1>1 DEF Accept, Drop
  <2>2. Offering' = Offering /\ Gone' = Gone
    BY <1>1, <2>1 DEF Accept, Drop, Offering, Gone, Alive, IInv, TypeOK, GidRow
  <2>3. Rows' = Rows
    BY <2>1 DEF Rows
  <2>4. UNCHANGED <<IdOf, Listed, Joined>>
    BY <2>1, <2>3, SameRows DEF IdAt, Listed, Joined
  <2> QED
    BY <2>1, <2>2, <2>4 DEF Directory!dvars
<1>2. CASE \E g \in GameIds, slot \in Slots : UGDE(s, g, slot)
  <2>1. /\ Rows' = Rows
        /\ \A h \in Rows : games'[h].addr = games[h].addr /\ games'[h].online = games[h].online
    BY <1>2, UgdeRows
  <2>2. UNCHANGED <<sconn, gid, byGid, ticket>>
    BY <1>2 DEF UGDE
  <2>3. IdOf' = IdOf /\ Listed' = Listed
    BY <2>1, SameRows DEF Listed, IdAt
  <2> QED
    BY <2>2, <2>3 DEF Directory!dvars, Offering, Gone, Alive, Joined
<1> QED
  BY <1>1, <1>2
\* A game server that creates its game offers it, with the id of its row.
LEMMA CgamOffers ==
  ASSUME IInv, NEW s \in Servers, CGAM(s)
  PROVE  \E g \in GameIds : Directory!Offer(s, g)
<1> DEFINE a == Addr(s)
<1>1. a \in Addresses /\ sconn[s] = "open" /\ Found(s) = IdAt(a)
  BY DEF Addresses, CGAM, Found, IdAt
<1>2. UNCHANGED <<sconn, ticket>> /\ IInv'
  BY CgamIInv DEF CGAM
<1>3. PICK g \in GameIds :
        /\ gid' = [gid EXCEPT ![s] = g] /\ Register(s, g)
        /\ g \in IdAt(a) \/ (IdAt(a) = {} /\ g = nextId)
        /\ Rows' = Rows \cup {g}
        /\ games'[g].addr = a /\ games'[g].online
        /\ \A h \in GameIds \ {g} : games'[h] = games[h]
  <2>1. ASSUME NEW g \in Found(s), games' = [games EXCEPT ![g].online = TRUE],
               gid' = [gid EXCEPT ![s] = g], Register(s, g)
        PROVE  /\ g \in GameIds /\ g \in IdAt(a) /\ Rows' = Rows \cup {g}
               /\ games'[g].addr = a /\ games'[g].online
               /\ \A h \in GameIds \ {g} : games'[h] = games[h]
    <3>1. g \in Rows /\ g \in GameIds /\ games[g] \in GameRow /\ games[g].addr = a
      BY DEF Found, Rows, IInv, TypeOK
    <3>2. /\ games'[g] = [games[g] EXCEPT !.online = TRUE]
          /\ \A h \in GameIds \ {g} : games'[h] = games[h]
      BY <2>1, <3>1 DEF IInv, TypeOK
    <3>3. games'[g] \in GameRow /\ games'[g].addr = a /\ games'[g].online
      BY <3>1, <3>2 DEF GameRow
    <3> QED
      BY <1>1, <3>1, <3>2, <3>3, ServerAssumption DEF Rows
  <2>2. ASSUME Found(s) = {}, games' = [games EXCEPT ![nextId] = NewRow(s)]
        PROVE  /\ nextId \in GameIds /\ Rows' = Rows \cup {nextId}
               /\ games'[nextId].addr = a /\ games'[nextId].online
               /\ \A h \in GameIds \ {nextId} : games'[h] = games[h]
    <3>1. nextId \in GameIds
      BY <2>2, RoomForGame
    <3>2. /\ games'[nextId] = NewRow(s)
          /\ \A h \in GameIds \ {nextId} : games'[h] = games[h]
      BY <2>2, <3>1 DEF IInv, TypeOK
    <3>3. NewRow(s) \in GameRow /\ NewRow(s).addr = a /\ NewRow(s).online
      BY <1>1, ServerAssumption, FS_CardinalityType DEF NewRow, GameRow
    <3> QED
      BY <3>1, <3>2, <3>3, ServerAssumption DEF Rows
  <2> QED
    BY <1>1, <2>1, <2>2 DEF CGAM
<1>4. g # 0 /\ IdAt(a)' = {g}
  <2>1. g # 0 /\ g \in IdAt(a)'
    BY <1>3 DEF GameIds, IdAt
  <2> QED
    BY <1>2, <2>1 DEF IInv, OneGamePerAddress, IdAt, Rows
<1>5. \A b \in Addresses \ {a} : IdAt(b)' = IdAt(b)
  <2>1. \A b \in Addresses \ {a} : g \notin IdAt(b)' /\ g \notin IdAt(b)
    <3>1. g \in Rows => g \in IdAt(a)
      BY <1>3, AddressesFinite DEF IInv, RowsNumbered, TypeOK
    <3> QED
      BY <1>3, <3>1 DEF IdAt
  <2> QED
    BY <1>3, <2>1 DEF IdAt, Rows
<1>6. IdOf' = [IdOf EXCEPT ![a] = g]
  BY <1>1, <1>4, <1>5, AmongOne DEF IdOf
<1>7. Listed' = Listed \cup {a}
  <2>1. a \in Listed'
    BY <1>1, <1>3, <1>4 DEF Listed
  <2>2. \A b \in Addresses \ {a} : \A h \in IdAt(b) : h # g /\ games'[h] = games[h]
    BY <1>3, <1>4, <1>5 DEF IdAt, Rows
  <2> QED
    BY <1>1, <1>5, <2>1, <2>2 DEF Listed
<1>8. Offering' = Offering \cup {s} /\ s \notin Gone /\ Gone' = Gone
  BY <1>1, <1>2, <1>3, <1>4 DEF Offering, Gone, Alive, IInv, TypeOK
<1>9. Directory!IdFor(a, g)
  <2>1. CASE g \in IdAt(a)
    BY <1>1, <1>4, <2>1, IdAtOne DEF Directory!IdFor
  <2>2. CASE IdAt(a) = {} /\ g = nextId
    <3>1. g \notin Rows
      BY <2>2, AddressesFinite DEF IInv, RowsNumbered, TypeOK, GameIds
    <3> QED
      BY <1>1, <1>4, <2>2, <3>1, IdOfRow
         DEF IdAt, Directory!IdFor, Directory!Addresses, Addresses
  <2> QED
    BY <1>3, <2>1, <2>2
<1>10. byGid' = IF byGid[g] = None THEN [byGid EXCEPT ![g] = s] ELSE byGid
  BY <1>3 DEF Register
<1>11. Joined' = Joined
  BY <1>2 DEF Joined
<1> HIDE DEF a
<1> QED
  BY <1>6, <1>7, <1>8, <1>9, <1>10, <1>11 DEF Directory!Offer, a

\* The end of a game server's connection, noticed, withdraws its game.
LEMMA GoodbyeWithdraws ==
  ASSUME IInv, NEW s \in Servers, HandleGoodbye(s)
  PROVE  Directory!Withdraw(s)
<1> DEFINE a == Addr(s)
<1>1. s \notin Gone /\ Gone' = Gone \cup {s} /\ Offering' = Offering \ {s}
  BY DEF HandleGoodbye, Gone, Offering, Alive, IInv, TypeOK
<1>2. Joined' = Joined /\ (gid[s] # 0 <=> s \in Offering)
  BY DEF HandleGoodbye, Joined, Offering, Alive
<1>3. CASE gid[s] = 0
  <2>1. UNCHANGED <<games, byGid>> /\ Rows' = Rows
    BY <1>3 DEF HandleGoodbye, Rows
  <2>2. IdOf' = IdOf /\ Listed' = Listed
    BY <2>1, SameRows DEF IdAt, Listed
  <2> QED
    BY <1>1, <1>2, <1>3, <2>1, <2>2 DEF Directory!Withdraw
<1>4. CASE gid[s] # 0
  <2> DEFINE g == gid[s]
  <2>1. /\ games' = [games EXCEPT ![g].online = FALSE]
        /\ byGid' = [byGid EXCEPT ![g] = None]
    BY <1>4 DEF HandleGoodbye
  <2>2. /\ a \in Addresses /\ g \in GameIds /\ g \in Rows
        /\ games[g] \in GameRow /\ games[g].addr = a
    BY <1>4 DEF IInv, GidRow, TypeOK, Rows, Addresses
  <2>3. g \in IdAt(a) /\ IdAt(a) = {g} /\ IdOf[a] = g
    BY <2>2, IdAtOne DEF IdAt
  <2>4. /\ games'[g] = [games[g] EXCEPT !.online = FALSE]
        /\ \A h \in GameIds \ {g} : games'[h] = games[h]
    BY <2>1, <2>2 DEF IInv, TypeOK
  <2>5. games'[g] \in GameRow /\ games'[g].addr = a /\ ~games'[g].online
    BY <2>2, <2>4 DEF GameRow
  <2>6. Rows' = Rows /\ \A h \in Rows : games'[h].addr = games[h].addr
    BY <2>2, <2>4, <2>5, ServerAssumption DEF Rows
  <2>7. IdOf' = IdOf /\ \A b \in Addresses : IdAt(b)' = IdAt(b)
    BY <2>6, SameRows
  <2>8. \A b \in Addresses \ {a} : \A h \in IdAt(b) : games'[h] = games[h]
    BY <2>2, <2>4 DEF IdAt, Rows
  <2>9. Listed' = Listed \ {a}
    BY <2>3, <2>5, <2>7, <2>8 DEF Listed
  <2> HIDE DEF a
  <2> QED
    BY <1>1, <1>2, <1>4, <2>1, <2>3, <2>7, <2>9 DEF Directory!Withdraw, a
<1> QED
  BY <1>3, <1>4

\* A join by an id reads the connection from one table and the address from the
\* other, and both are of one server.
LEMMA EgamJoins ==
  ASSUME IInv, NEW g \in GameIds, EGAM(g)
  PROVE  Directory!Join(g)
<1>1. byGid[g] # None => g \in Rows /\ games[g].addr = Addr(byGid[g])
  BY DEF IInv, RegistryPoints, GidRow, TypeOK, GameIds
<1>2. Joined' = IF byGid[g] = None THEN [asked |-> None, told |-> None]
                ELSE [asked |-> byGid[g], told |-> Addr(byGid[g])]
  BY <1>1 DEF EGAM, Joined
<1>3. UNCHANGED <<gid, byGid, games, sconn>> /\ Rows' = Rows
  BY DEF EGAM, Rows
<1>4. IdOf' = IdOf /\ Listed' = Listed
  BY <1>3, SameRows DEF IdAt, Listed
<1> QED
  BY <1>2, <1>3, <1>4 DEF Directory!Join, Directory!Nobody, Offering, Gone, Alive

\* Tables without rows are an empty directory.
LEMMA EmptyDirectory ==
  ASSUME IInv, games = [g \in GameIds |-> None]
  PROVE  /\ Listed = {}
         /\ IdOf = [a \in Directory!Addresses |-> 0]
<1>1. Rows = {}
  BY DEF Rows
<1>2. \A a \in Addresses : IdAt(a) = {}
  BY <1>1 DEF IdAt
<1> QED
  BY <1>2 DEF Listed, IdOf, IdAmong, Directory!Addresses, Addresses

\* A start of Theater empties the directory.
LEMMA RestartEmpties ==
  ASSUME IInv, Restart
  PROVE  Directory!Restart
<1>1. Listed' = {} /\ IdOf' = [a \in Directory!Addresses |-> 0]
  <2>1. Rows' = {}
    BY DEF Restart, Rows
  <2>2. \A a \in Addresses : IdAt(a)' = {}
    BY <2>1 DEF IdAt
  <2> QED
    BY <2>2 DEF Listed, IdOf, IdAmong, Directory!Addresses, Addresses
<1>2. Offering' = {} /\ byGid' = [g \in GameIds |-> None] /\ Joined' = Directory!Nobody
  BY DEF Restart, Offering, Joined, NoTicket, Directory!Nobody
<1>3. Gone' = Gone \cup {s \in Servers : Alive(s)}
  BY DEF Restart, Gone, Alive
<1>4. Offering \subseteq {s \in Servers : Alive(s)}
  BY DEF Offering
<1> QED
  BY <1>1, <1>2, <1>3, <1>4 DEF Directory!Restart

\* Theater starts as an empty directory, and every step of it is one of the
\* directory's or none.
THEOREM DirectoryImplemented == Spec => ImplementsDirectory
<1>1. Init => Directory!Init
  <2> SUFFICES ASSUME Init PROVE Directory!Init
    OBVIOUS
  <2>1. IInv
    BY InitIInv
  <2>2. Offering = {} /\ Gone = {} /\ Joined = Directory!Nobody
    BY DEF Init, Offering, Gone, Alive, Joined, NoTicket, Directory!Nobody
  <2> QED
    BY <2>1, <2>2, EmptyDirectory DEF Init, Directory!Init
<1>2. IInv /\ [Next]_vars => [Directory!Next]_(Directory!dvars)
  <2> SUFFICES ASSUME IInv, [Next]_vars
               PROVE  Directory!Next \/ UNCHANGED Directory!dvars
    OBVIOUS
  <2>1. ASSUME NEW s \in Servers, CGAM(s) PROVE Directory!Next
    BY <2>1, CgamOffers DEF Directory!Next
  <2>2. ASSUME NEW s \in Servers, HandleGoodbye(s) PROVE Directory!Next
    BY <2>2, GoodbyeWithdraws DEF Directory!Next
  <2>3. ASSUME NEW g \in GameIds, EGAM(g) PROVE Directory!Next
    BY <2>3, EgamJoins DEF Directory!Next
  <2>4. CASE Restart
    BY <2>4, RestartEmpties DEF Directory!Next
  <2>5. CASE UNCHANGED vars
    <3>1. UNCHANGED <<sconn, gid, byGid, games, ticket>> /\ Rows' = Rows
      BY <2>5 DEF vars, Rows
    <3>2. IdOf' = IdOf /\ Listed' = Listed
      BY <3>1, SameRows DEF IdAt, Listed
    <3> QED
      BY <3>1, <3>2 DEF Directory!dvars, Offering, Gone, Alive, Joined
  <2>6. ASSUME NEW s \in Servers, NEW g \in NamedBy(s), NEW slot \in Slots, UGDE(s, g, slot)
        PROVE  UNCHANGED Directory!dvars
    BY <2>6, NamedIds, Unseen
  <2>7. ASSUME NEW s \in Servers, Accept(s) \/ Drop(s) PROVE UNCHANGED Directory!dvars
    BY <2>7, Unseen
  <2> QED
    BY <2>1, <2>2, <2>3, <2>4, <2>5, <2>6, <2>7 DEF Next
<1> QED
  BY <1>1, <1>2, Invariance, PTL DEF Spec, ImplementsDirectory, Directory!Spec
=============================================================================
