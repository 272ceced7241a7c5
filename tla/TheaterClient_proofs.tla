------------------------ MODULE TheaterClient_proofs ------------------------
(***************************************************************************)
(* Proof that the numbers of requests and replies agree, for any number of *)
(* connections and whatever is written into the rows they look up.  What   *)
(* must be known between two replies is how far the server's count is      *)
(* behind the client's, and that a thread that has a request to serve has  *)
(* sent nothing for it.                                                    *)
(***************************************************************************)
EXTENDS TheaterClient, TLAPS

Serving(t) == tpc[t] \in {"user", "llst", "glst"}

\* The requests of a client that are done with, with or without a reply.
Done(t) == IF Serving(t) THEN asked[t] - 1 ELSE asked[t]

\* The server's count is the client's, or falls behind for good.
InStep ==
  ~tcrashed =>
    \A t \in Clients : IF missed[t] THEN tid[t] < Done(t) ELSE tid[t] = Done(t)

Unreplied == \A t \in Clients : Serving(t) => replied[t] = {}

Counts ==
  /\ tpc \in [Clients -> {"recv", "user", "llst", "glst", "done"}]
  /\ tid \in [Clients -> Nat] /\ asked \in [Clients -> Nat]
  /\ missed \in [Clients -> BOOLEAN]
  /\ replied \in [Clients -> SUBSET (Nat \ {0})]
  /\ tcrashed \in BOOLEAN

IInv == Counts /\ InStep /\ Unreplied /\ TidAgrees

\* Nothing is asked or served at first.
LEMMA InitIInv == InitAlone => IInv
<1> SUFFICES ASSUME InitAlone PROVE IInv
  OBVIOUS
<1>1. Counts
  <2>1. missed \in [Clients -> BOOLEAN] /\ tcrashed \in BOOLEAN
    BY Zenon DEF InitAlone, Init
  <2> QED
    BY <2>1 DEF InitAlone, Init, Counts
<1>2. InStep /\ Unreplied /\ TidAgrees
  BY DEF InitAlone, Init, InStep, Unreplied, TidAgrees, Serving, Done
<1> QED
  BY <1>1, <1>2 DEF IInv


\* A packet arrives: the client's count goes on, and the server's if the reply
\* is sent at once.
LEMMA RequestIInv ==
  ASSUME IInv, ~tcrashed, NEW t \in Clients,
         \/ Conn(t) \/ LLst(t) \/ GLst(t) \/ Unhandled(t) \/ Leave(t)
         \/ \E k \in Keys \cup {None} : User(t, k)
  PROVE  IInv'
<1> USE RequestAssumption DEF IInv, Counts, InStep, Unreplied, TidAgrees, Serving, Done, sockInfo,
        client, TGoto, Ask, TExecute
<1>1. CASE Conn(t)
  BY <1>1 DEF Conn
<1>2. CASE LLst(t)
  BY <1>2 DEF LLst
<1>3. CASE GLst(t)
  BY <1>3 DEF GLst
<1>4. CASE Unhandled(t)
  BY <1>4 DEF Unhandled
<1>5. CASE Leave(t)
  BY <1>5 DEF Leave
<1>6. ASSUME NEW k \in Keys \cup {None}, User(t, k) PROVE IInv'
  <2>1. CASE k # None
    BY <1>6, <2>1 DEF User
  <2>2. CASE k = None
    <3>1. Counts' /\ tcrashed'
      BY <1>6, <2>2 DEF User
    <3> QED
      BY <1>6, <2>2, <3>1 DEF User
  <2> QED
    BY <2>1, <2>2
<1> QED
  BY <1>1, <1>2, <1>3, <1>4, <1>5, <1>6

\* A thread serves its packet: the reply takes the number of the request, or there
\* is none and the server's count stays behind from now on.
LEMMA ServeIInv ==
  ASSUME IInv, ~tcrashed, NEW t \in Clients, TServe(t)
  PROVE  IInv'
<1> USE RequestAssumption DEF IInv, Counts, InStep, Unreplied, TidAgrees, Serving, Done, sockInfo,
        client, TGoto, TFetch, TThrows, Reply
<1>1. CASE UserFound(t)
  BY <1>1 DEF UserFound
<1>2. CASE UserUnknown(t)
  BY <1>2 DEF UserUnknown
<1>3. CASE LLstReply(t)
  BY <1>3 DEF LLstReply
<1>4. CASE UserThrows(t) \/ LLstThrows(t) \/ GLstThrows(t)
  BY <1>4 DEF UserThrows, LLstThrows, GLstThrows
<1> QED
  BY <1>1, <1>2, <1>3, <1>4 DEF TServe

LEMMA NextIInv == IInv /\ [NextAlone]_<<tvars, pLkey>> => IInv'
<1>1. ASSUME IInv, UNCHANGED tvars PROVE IInv'
  BY <1>1 DEF tvars, sockInfo, client, IInv, Counts, InStep, Unreplied, TidAgrees, Serving, Done
<1> QED
  BY <1>1, RequestIInv, ServeIInv DEF NextAlone, TheaterNext, PlasmaWrites

\* The numbers of a connection's replies are those of its requests until one goes
\* unanswered, and behind them ever after.
THEOREM NumbersAgree == SpecAlone => []TidAgrees
<1>1. IInv => TidAgrees
  BY DEF IInv
<1> QED
  BY <1>1, InitIInv, NextIInv, PTL DEF SpecAlone
=============================================================================
