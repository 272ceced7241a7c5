------------------------------ MODULE PhpStats -------------------------------
(***************************************************************************)
(* Statistics in the PHP Plasma server.  A game server's connection        *)
(* (SSocket) points personaData at the session of the player it last       *)
(* looked up and reports every player's statistics by persona id.  It      *)
(* works on the players' UserData objects of PhpPlasma and moves them to   *)
(* other personas.  The table stats has a row per persona; an object holds *)
(* what was last loaded.                                                   *)
(*                                                                         *)
(* Statistics are abstracted to the reports they add up (from: the persona *)
(* reported and the number of the report) and to whether these gave any    *)
(* score; of names the row a loaded copy is of.  Scores do not fall, so    *)
(* the test that keeps a rank from falling never stops a save.  Of         *)
(* PhpPlasma only what changes sessions is repeated: log-in by key, drops, *)
(* kicks and bans end in the same ways, and a restart leaves nothing but   *)
(* the rows.  Rank data in pieces is left out; game servers log in to      *)
(* accounts no player uses.  The module is for accounts of one spelling    *)
(* (OneSpelling): AddAssociations gives a session the nuid in its          *)
(* persona's row, which otherwise need not be one it is found by.          *)
(***************************************************************************)
EXTENDS PhpPlasma

CONSTANTS
  GameServers,  \* game servers' connections
  Rowless,      \* personas that may lack a row in stats (made by a game server)
  MaxReports,   \* bound: reports
  Bare          \* personaData is an object, but no UserData

ASSUME ReportAssumption ==
  /\ Rowless \subseteq Personas
  /\ MaxReports \in Nat
  /\ Bare \notin Objects \cup {None}
  /\ GameServers \cap Conns = {}

VARIABLES
  row,          \* the table stats
  stats,        \* UserData::stats
  pdata,        \* SSocket::personaData
  answer,       \* reply to GetStats just sent: to whom, of what row, for what persona
  sent,         \* history: reports so far
  fatal         \* the process has ended by a PHP error

reports == <<row, stats, pdata, answer, sent, fatal>>

NoStats == [of |-> None, scored |-> FALSE, from |-> {}]

NoAnswer == [to |-> None, of |-> None, pers |-> None]

StatsInit ==
  /\ Init
  /\ \E missing \in SUBSET Rowless :
       row = [p \in Personas |-> IF p \in missing THEN None ELSE [scored |-> FALSE, from |-> {}]]
  /\ stats = [o \in Objects |-> None]
  /\ pdata = [g \in GameServers |-> None]
  /\ answer = NoAnswer
  /\ sent = 0
  /\ fatal = FALSE

(***************************************************************************)
(* UserData.                                                               *)
(***************************************************************************)
\* Slip: what is there is not loaded again.
LoadedOnce(o, p) ==
  IF stats[o] # None \/ p = None \/ row[p] = None THEN stats[o]
  ELSE [of |-> p, scored |-> row[p].scored, from |-> row[p].from]

\* loadPersonaStats(true) on an object with persona p: without a row, what was
\* there stays.
Loaded(o, p) ==
  IF p = None \/ row[p] = None THEN stats[o]
  ELSE [of |-> p, scored |-> row[p].scored, from |-> row[p].from]

\* fixStats and savePersonaStats: statistics without a score are not saved, nor
\* those of a persona without a row.
Save(p, s) ==
  row' = IF s.scored /\ row[p] # None
           THEN [row EXCEPT ![p] = [scored |-> TRUE, from |-> s.from]] ELSE row

(***************************************************************************)
(* The player's side.                                                      *)
(***************************************************************************)
\* What PhpPlasma says of connections, with the statistics it leaves alone.
PlayerStep(c) ==
  /\ \/ GetInstanceByServer(c) \/ Goodbye(c)
     \/ \E n \in Nuids : NuLoginPassword(c, n)
     \/ \E p \in Personas : NuDisablePersona(c, p)
  /\ answer' = NoAnswer /\ UNCHANGED <<row, stats, pdata, sent, fatal>>

PersonaStep(c, p) ==
  /\ NuLoginPersona(c, p)
  /\ stats' = [stats EXCEPT ![ud'[c]] = None]
  /\ answer' = NoAnswer /\ UNCHANGED <<row, pdata, sent, fatal>>

\* A reply takes the statistics with it; without any the player is put out.
PlayerGetStats(c) ==
  /\ conn[c] = "open"
  /\ \/ /\ ud[c] # None
        /\ LET o == ud[c]
               s == Loaded(o, objs[o].pers)
           IN \/ /\ s # None
                 /\ answer' = [to |-> c, of |-> s.of, pers |-> objs[o].pers]
                 /\ stats' = [stats EXCEPT ![o] = None]
                 /\ UNCHANGED vars
              \/ s = None /\ HandleGoodbye(c) /\ answer' = NoAnswer /\ UNCHANGED stats
     \/ ud[c] = None /\ HandleGoodbye(c) /\ answer' = NoAnswer /\ UNCHANGED stats
  /\ UNCHANGED <<row, pdata, sent, fatal>>

(***************************************************************************)
(* The game servers' side.                                                 *)
(***************************************************************************)
\* personas.email: the nuid of the session that created the persona.
Email(p) == RowNuid(Owner(p))

\* A game server connects again; its old connection is gone.
Reconnect(g) ==
  /\ pdata' = [pdata EXCEPT ![g] = None]
  /\ answer' = NoAnswer /\ UNCHANGED <<vars, row, stats, sent, fatal>>

\* The session of the account the persona named belongs to.
NuLookupUserInfo(g, p) ==
  /\ p \in pRows /\ byUser[Owner(p)] # None
  /\ pdata' = [pdata EXCEPT ![g] = byUser[Owner(p)]]
  /\ answer' = NoAnswer /\ UNCHANGED <<vars, row, stats, sent, fatal>>

\* Slip: the object the game server holds is made the named persona's.
AddAssociationsHeld(g, p) ==
  /\ p \in pRows /\ pdata[g] \in Objects
  /\ objs' = [objs EXCEPT ![pdata[g]].nuid = Email(p), ![pdata[g]].user = Owner(p),
                          ![pdata[g]].pers = p]
  /\ answer' = NoAnswer
  /\ UNCHANGED <<csockets, ud, logins, byNuid, byUser, byPersona, bans, tables,
                 row, stats, pdata, sent, fatal>>

\* The object found by persona id, else the account's, else a new one, is made
\* the named persona's.
AddAssociations(g, p) ==
  LET n == Email(p)
      new == byPersona[p] = None /\ byNuid[n] = None
      o == IF byPersona[p] # None THEN byPersona[p]
           ELSE IF new THEN logins + 1 ELSE byNuid[n]
  IN /\ p \in pRows
     /\ o \in Objects
     /\ logins' = IF new THEN o ELSE logins
     /\ byNuid' = IF new THEN [byNuid EXCEPT ![n] = o] ELSE byNuid
     /\ byPersona' = [byPersona EXCEPT ![p] = o]
     /\ objs' = [objs EXCEPT ![o].nuid = n, ![o].user = Owner(p), ![o].pers = p]
     /\ pdata' = [pdata EXCEPT ![g] = o]
     /\ answer' = NoAnswer
     /\ UNCHANGED <<csockets, ud, byUser, bans, tables, row, stats, sent, fatal>>

ServerGetStats(g) ==
  \/ /\ pdata[g] = Bare
     /\ fatal' = TRUE
     /\ answer' = NoAnswer /\ UNCHANGED <<vars, row, stats, pdata, sent>>
  \/ /\ pdata[g] \in Objects
     /\ LET o == pdata[g]
            s == IF Loaded(o, objs[o].pers) = None THEN NoStats ELSE Loaded(o, objs[o].pers)
        IN /\ stats' = [stats EXCEPT ![o] = s]
           /\ answer' = [to |-> g, of |-> s.of, pers |-> objs[o].pers]
     /\ UNCHANGED <<vars, row, pdata, sent, fatal>>

\* Slip: the object found is taken for p's.
ReportedAsFound(p) == [obj |-> byPersona[p], pers |-> objs[byPersona[p]].pers]

\* The object a report for p is added to, and the persona it is then of: the one
\* found by persona id if it is still p's, else the account's, which becomes
\* p's.  If p has no row of personas the object found is taken as it is.
Reported(p) ==
  IF objs[byPersona[p]].pers # p /\ p \in pRows
    THEN [obj |-> byNuid[Email(p)], pers |-> p]
    ELSE [obj |-> byPersona[p], pers |-> objs[byPersona[p]].pers]

UpdateStats(g, p, score) ==
  /\ byPersona[p] # None /\ objs[byPersona[p]].pers # None
  /\ sent < MaxReports
  /\ sent' = sent + 1
  /\ LET r == Reported(p)
         s == Loaded(r.obj, r.pers)
     IN /\ objs' = [objs EXCEPT ![r.obj].pers = r.pers]
        /\ \/ /\ s # None
              /\ LET sum == [s EXCEPT !.scored = @ \/ score, !.from = @ \cup {<<p, sent'>>}]
                 IN /\ stats' = [stats EXCEPT ![r.obj] = sum]
                    /\ Save(r.pers, sum)
              /\ pdata' = [pdata EXCEPT ![g] = IF @ = None THEN Bare ELSE @]
           \/ s = None /\ UNCHANGED <<stats, row, pdata>>
  /\ answer' = NoAnswer
  /\ UNCHANGED <<csockets, ud, logins, byNuid, byUser, byPersona, bans, tables,
                 fatal>>

StatsNext ==
  /\ ~fatal
  /\ \/ \E c \in Conns :
          \/ PlayerStep(c) \/ PlayerGetStats(c)
          \/ \E p \in Personas : PersonaStep(c, p)
     \/ \E g \in GameServers :
          \/ Reconnect(g) \/ ServerGetStats(g)
          \/ \E p \in Personas :
               \/ NuLookupUserInfo(g, p) \/ AddAssociations(g, p)
               \/ \E score \in BOOLEAN : UpdateStats(g, p, score)

StatsSpec == StatsInit /\ [][StatsNext]_<<vars, reports>>

-----------------------------------------------------------------------------
Sums == SUBSET (Personas \X (1..MaxReports))

StatsTypeOK ==
  /\ TypeOK
  /\ row \in [Personas -> [scored : BOOLEAN, from : Sums] \cup {None}]
  /\ stats \in [Objects -> [of : Personas \cup {None}, scored : BOOLEAN, from : Sums] \cup {None}]
  /\ pdata \in [GameServers -> Objects \cup {None, Bare}]
  /\ answer.to \in Conns \cup GameServers \cup {None}
  /\ sent \in 0..MaxReports
  /\ fatal \in BOOLEAN

\* What was reported for a persona is added to its own row, however sessions
\* move between personas and game servers report late; only the reports for a
\* persona that has been disabled may go to another one.
RowsOwn ==
  \A p \in Personas : row[p] # None =>
    \A r \in row[p].from : r[1] \in {p} \cup (Personas \ pRows)

\* A report that has been saved is never lost again: several objects may hold
\* copies of one row, and none of them is saved over what came after it.
ReportsKept ==
  [][\A p \in Personas : row[p] # None => row[p].from \subseteq row'[p].from]_<<vars, reports>>

\* Statistics told for a persona are that persona's, unless it has no row: then
\* they may be those of the persona the session was on before.  And a player is
\* told those of personas of his own accounts only, although game servers work
\* on his session and move it.
AnswerOwn ==
  answer.of # None =>
    /\ answer.pers # None => answer.of = answer.pers \/ row[answer.pers] = None
    /\ answer.to \in Conns => Owner(answer.of) \in Creds(answer.to)
=============================================================================
