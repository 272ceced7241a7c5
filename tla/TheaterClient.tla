--------------------------- MODULE TheaterClient ----------------------------
(***************************************************************************)
(* The client side of the C++ Theater server: one clientSocket thread per  *)
(* connection.  The server numbers its replies itself (sock_tid) and knows *)
(* a player by the key the Plasma server left in the player's row of       *)
(* personas (pLkey, which other programs write).  Its threads share one    *)
(* sql::Statement, as in PlasmaClient, but only ever SELECT.  Using a      *)
(* result set that was never positioned, or a column it has not got, or a  *)
(* variable the packet has not got, ends the process (crashed).            *)
(***************************************************************************)
EXTENDS Naturals, FiniteSets

CONSTANTS
  Clients,      \* connections (and their threads)
  Personas,     \* rows of personas
  Keys,         \* values of persona_lkey
  Lobbies,      \* rows of lobbies
  MaxRequests,  \* bound: requests per connection
  None          \* no key, no persona

ASSUME RequestAssumption == MaxRequests \in Nat

VARIABLES
  tpc,        \* where each thread is
  tid,        \* sockInfo.sock_tid
  lkey,       \* sockInfo.persona_lkey
  persona,    \* sockInfo.persona_id
  asked,      \* TID of the client's last request: it counts what it asks
  missed,     \* a request of the client has gone without a reply
  replied,    \* TIDs of the replies to the client's last request
  named,      \* last USER reply: the key presented and the persona named
  tstmt,      \* last execution: by whom, which columns, which rows
  tcrossed,   \* some thread has fetched the result of another's query
  tcrashed,   \* the process has ended
  pLkey       \* personas.persona_lkey

sockInfo == <<tid, lkey, persona>>
client == <<asked, missed, replied, named>>
tvars == <<tpc, sockInfo, client, tstmt, tcrossed, tcrashed>>

Init ==
  /\ tpc = [t \in Clients |-> "recv"]
  /\ tid = [t \in Clients |-> 0]
  /\ lkey = [t \in Clients |-> None]
  /\ persona = [t \in Clients |-> None]
  /\ asked = [t \in Clients |-> 0]
  /\ missed = [t \in Clients |-> FALSE]
  /\ replied = [t \in Clients |-> {}]
  /\ named = [t \in Clients |-> None]
  /\ tstmt = [by |-> None, kind |-> "none", rows |-> {}]
  /\ tcrossed = FALSE
  /\ tcrashed = FALSE

TGoto(t, from, to) == tpc[t] = from /\ tpc' = [tpc EXCEPT ![t] = to]

\* The client sends its next request and waits for the replies to it.
Ask(t) ==
  /\ asked[t] < MaxRequests
  /\ asked' = [asked EXCEPT ![t] = @ + 1]
  /\ replied' = [replied EXCEPT ![t] = {}]
  /\ UNCHANGED named

TExecute(t, kind, result) == tstmt' = [by |-> t, kind |-> kind, rows |-> result]

TFetch(t) ==
  /\ tcrossed' = (tcrossed \/ tstmt.by # t)
  /\ UNCHANGED tstmt

TThrows(t) ==
  /\ tcrashed' = TRUE
  /\ UNCHANGED <<tpc, sockInfo, client>>

\* The next reply takes the next number; a list's entries repeat it.
Reply(t) ==
  /\ tid' = [tid EXCEPT ![t] = @ + 1]
  /\ replied' = [replied EXCEPT ![t] = @ \cup {tid'[t]}]

Conn(t) ==
  /\ tpc[t] = "recv" /\ asked[t] < MaxRequests
  /\ asked' = [asked EXCEPT ![t] = @ + 1]
  /\ tid' = [tid EXCEPT ![t] = @ + 1]
  /\ replied' = [replied EXCEPT ![t] = {tid'[t]}]
  /\ UNCHANGED <<tpc, lkey, persona, missed, named, tstmt, tcrossed, tcrashed>>

\* USER carries LKEY; k = None is a packet without it, which strcpy faults on.
User(t, k) ==
  /\ Ask(t)
  /\ \/ k # None /\ TGoto(t, "recv", "user")
        /\ lkey' = [lkey EXCEPT ![t] = k]
        /\ TExecute(t, "personas", {p \in Personas : pLkey[p] = k})
        /\ UNCHANGED tcrashed
     \/ k = None /\ tpc[t] = "recv" /\ tcrashed' = TRUE /\ UNCHANGED <<tpc, lkey, tstmt>>
  /\ UNCHANGED <<tid, persona, missed, tcrossed>>

UserFound(t) ==
  /\ tstmt.kind = "personas" /\ Cardinality(tstmt.rows) = 1
  /\ TGoto(t, "user", "recv")
  /\ TFetch(t)
  /\ \E p \in tstmt.rows :
       /\ persona' = [persona EXCEPT ![t] = p]
       /\ named' = [named EXCEPT ![t] = <<lkey[t], p>>]
  /\ Reply(t)
  /\ UNCHANGED <<lkey, asked, missed, tcrashed>>

\* Slip: the reply that is not sent takes a number.
UserUnknownNumbered(t) ==
  /\ Cardinality(tstmt.rows) # 1
  /\ TGoto(t, "user", "recv")
  /\ TFetch(t)
  /\ missed' = [missed EXCEPT ![t] = TRUE]
  /\ tid' = [tid EXCEPT ![t] = @ + 1]
  /\ UNCHANGED <<lkey, persona, asked, replied, named, tcrashed>>

\* No row or several: no reply at all.
UserUnknown(t) ==
  /\ Cardinality(tstmt.rows) # 1
  /\ TGoto(t, "user", "recv")
  /\ TFetch(t)
  /\ missed' = [missed EXCEPT ![t] = TRUE]
  /\ UNCHANGED <<sockInfo, asked, replied, named, tcrashed>>

UserThrows(t) ==
  /\ tpc[t] = "user" /\ tstmt.kind # "personas" /\ Cardinality(tstmt.rows) = 1
  /\ TFetch(t)
  /\ TThrows(t)

LLst(t) ==
  /\ TGoto(t, "recv", "llst")
  /\ Ask(t)
  /\ TExecute(t, "lobbies", Lobbies)
  /\ UNCHANGED <<sockInfo, missed, tcrossed, tcrashed>>

\* The LLST reply and then an LDAT with the same TID for every row.
LLstReply(t) ==
  /\ tstmt.kind = "lobbies" \/ tstmt.rows = {}
  /\ TGoto(t, "llst", "recv")
  /\ TFetch(t)
  /\ Reply(t)
  /\ UNCHANGED <<lkey, persona, asked, missed, named, tcrashed>>

LLstThrows(t) ==
  /\ tpc[t] = "llst" /\ tstmt.kind # "lobbies" /\ tstmt.rows # {}
  /\ TFetch(t)
  /\ TThrows(t)

\* GLST runs two queries and then reads a column of the first result without
\* having moved to a row, which throws whatever the result holds.
GLst(t) ==
  /\ TGoto(t, "recv", "glst")
  /\ Ask(t)
  /\ TExecute(t, "lobbies", Lobbies)
  /\ UNCHANGED <<sockInfo, missed, tcrossed, tcrashed>>

GLstThrows(t) ==
  /\ tpc[t] = "glst"
  /\ TFetch(t)
  /\ TThrows(t)

\* A type no branch handles is logged and dropped.
Unhandled(t) ==
  /\ tpc[t] = "recv" /\ Ask(t)
  /\ missed' = [missed EXCEPT ![t] = TRUE]
  /\ UNCHANGED <<tpc, sockInfo, tstmt, tcrossed, tcrashed>>

Leave(t) ==
  /\ TGoto(t, "recv", "done")
  /\ UNCHANGED <<sockInfo, client, tstmt, tcrossed, tcrashed>>

TServe(t) ==
  \/ UserFound(t) \/ UserUnknown(t) \/ UserThrows(t)
  \/ LLstReply(t) \/ LLstThrows(t) \/ GLstThrows(t)

TheaterNext ==
  /\ ~tcrashed
  /\ \E t \in Clients :
       \/ Conn(t) \/ LLst(t) \/ GLst(t) \/ Unhandled(t) \/ Leave(t)
       \/ \E k \in Keys \cup {None} : User(t, k)
       \/ TServe(t)

-----------------------------------------------------------------------------
(***************************************************************************)
(* The server alone: the Plasma server logs personas in and out at will.   *)
(***************************************************************************)
PlasmaWrites ==
  /\ \E p \in Personas, k \in Keys \cup {None} : pLkey' = [pLkey EXCEPT ![p] = k]
  /\ UNCHANGED tvars

InitAlone == Init /\ pLkey = [p \in Personas |-> None]

NextAlone == (TheaterNext /\ UNCHANGED pLkey) \/ (~tcrashed /\ PlasmaWrites)

SpecAlone == InitAlone /\ [][NextAlone]_<<tvars, pLkey>>

TypeOK ==
  /\ tpc \in [Clients -> {"recv", "user", "llst", "glst", "done"}]
  /\ tid \in [Clients -> 0..MaxRequests]
  /\ lkey \in [Clients -> Keys \cup {None}]
  /\ persona \in [Clients -> Personas \cup {None}]
  /\ asked \in [Clients -> 0..MaxRequests]
  /\ missed \in [Clients -> BOOLEAN]
  /\ replied \in [Clients -> SUBSET (1..MaxRequests)]
  /\ named \in [Clients -> (Keys \X Personas) \cup {None}]
  /\ tstmt.by \in Clients \cup {None}
  /\ tstmt.kind \in {"none", "personas", "lobbies"}
  /\ tcrossed \in BOOLEAN
  /\ tcrashed \in BOOLEAN
  /\ pLkey \in [Personas -> Keys \cup {None}]

\* A client matches replies to requests by TID, and the server counts instead
\* of echoing: the two agree on every reply, the entries of a list included,
\* as long as no request of the client goes without a reply, and never again
\* after that: the replies then lag behind the requests for good.
TidAgrees ==
  \A t \in Clients :
    replied[t] \subseteq IF missed[t] THEN 1..(asked[t] - 1) ELSE {asked[t]}
=============================================================================
