------------------------ MODULE ServerProcess_proofs -------------------------
(***************************************************************************)
(* Proofs about SocketServer and the process around it, for any number of  *)
(* connections, failed accepts and players: first that the steps of the    *)
(* socket server preserve an invariant of its own, then that the process   *)
(* does, whose steps are steps of SocketServer, leave its variables alone  *)
(* or end the process, which leaves nothing of them behind.                *)
(***************************************************************************)
EXTENDS ServerProcess, TLAPS


\* What Accept has in hand at each stage of the listener's loop, and that a
\* slot in hand has no thread yet.
ListenerHolds ==
  /\ lpc = "accept" <=> cur = NoSock
  /\ lpc \in {"push", "linking"} => cur \in Conns
  /\ \A s \in Slots : cur = s => thr[s] = "none"

\* A connection gets a thread (or loses its chance of one) only after Accept
\* made its object.
NoThreadWithoutObject ==
  \A c \in Conns : heap[c] = "none" => thr[c] = "none" /\ cur # c

IInv ==
  /\ TypeOK
  /\ ListenerHolds
  /\ NoThreadWithoutObject
  /\ Handover
  /\ RegistryExact

\* The initial state satisfies the inductive invariant.
LEMMA InitIInv == Init => IInv
  BY SlotAssumption, ZenonT(30) DEF Init, IInv, TypeOK, Slots, Running, ListenerHolds, NoThreadWithoutObject, Handover,
                        RegistryExact

\* Every step of a peer, the listener or a connection thread preserves it.
LEMMA NextIInv == IInv /\ [Next]_vars => IInv'
<1> SUFFICES ASSUME IInv, [Next]_vars
             PROVE  IInv'
  OBVIOUS
<1> USE SlotAssumption DEF IInv, Slots
<1>u. CASE UNCHANGED vars
  BY <1>u DEF vars, TypeOK, ListenerHolds, NoThreadWithoutObject, Handover,
              RegistryExact, Running
<1>1. ASSUME ~crashed, NEW c \in Conns, Connect(c), UNCHANGED derefFirst PROVE IInv'
  BY <1>1 DEF Connect, TypeOK, ListenerHolds, NoThreadWithoutObject,
              Handover, RegistryExact, Running
<1>2. ASSUME ~crashed, NEW c \in Conns, Hangup(c), UNCHANGED derefFirst PROVE IInv'
  BY <1>2 DEF Hangup, TypeOK, ListenerHolds, NoThreadWithoutObject,
              Handover, RegistryExact, Running
<1>3. ASSUME ~crashed, NEW c \in Conns, ReceiveNull(c), UNCHANGED derefFirst PROVE IInv'
  BY <1>3 DEF ReceiveNull, TypeOK, ListenerHolds, NoThreadWithoutObject,
              Handover, RegistryExact, Running
<1>4. ASSUME ~crashed, NEW f \in Fails, AcceptFails(f), UNCHANGED derefFirst PROVE IInv'
  BY <1>4 DEF AcceptFails, TypeOK, ListenerHolds, NoThreadWithoutObject,
              Handover, RegistryExact, Running
<1>5. ASSUME ~crashed, NEW c \in Conns, AcceptOk(c), UNCHANGED derefFirst PROVE IInv'
  BY <1>5 DEF AcceptOk, TypeOK, ListenerHolds, NoThreadWithoutObject,
              Handover, RegistryExact, Running
<1>6. ASSUME ~crashed, PushBegin, UNCHANGED derefFirst PROVE IInv'
  BY <1>6 DEF PushBegin, BeginList, TypeOK, ListenerHolds,
              NoThreadWithoutObject, Handover, RegistryExact, Running
<1>7. ASSUME ~crashed, PushEnd, UNCHANGED derefFirst PROVE IInv'
  <2>1. TypeOK'
    BY <1>7 DEF PushEnd, EndList, TypeOK, ListenerHolds, Running
  <2>2. ListenerHolds' /\ NoThreadWithoutObject'
    BY <1>7 DEF PushEnd, EndList, TypeOK, ListenerHolds, NoThreadWithoutObject, Running
  <2>3. Handover'
    BY <1>7 DEF PushEnd, EndList, TypeOK, ListenerHolds, NoThreadWithoutObject, Handover, Running
  <2>4. RegistryExact'
    BY <1>7 DEF PushEnd, EndList, TypeOK, ListenerHolds, NoThreadWithoutObject, Handover, RegistryExact, Running
  <2> QED
    BY <2>1, <2>2, <2>3, <2>4
<1>8. ASSUME ~crashed, Spawn, UNCHANGED derefFirst PROVE IInv'
  <2>1. TypeOK'
    BY <1>8 DEF Spawn, TypeOK, Running
  <2>2. ListenerHolds' /\ NoThreadWithoutObject'
    BY <1>8 DEF Spawn, TypeOK, ListenerHolds, NoThreadWithoutObject, Running
  <2>3. Handover'
    BY <1>8 DEF Spawn, TypeOK, ListenerHolds, NoThreadWithoutObject, Handover, Running
  <2>4. RegistryExact'
    BY <1>8 DEF Spawn, TypeOK, ListenerHolds, NoThreadWithoutObject, Handover, RegistryExact, Running
  <2> QED
    BY <2>1, <2>2, <2>3, <2>4
<1>9. ASSUME ~crashed, NEW s \in Slots, Start(s), UNCHANGED derefFirst PROVE IInv'
  BY <1>9, ZenonT(30) DEF Start, TypeOK, ListenerHolds, NoThreadWithoutObject,
              Handover, RegistryExact, Running
<1>10. ASSUME ~crashed, NEW s \in Slots, UnlinkBegin(s), UNCHANGED derefFirst PROVE IInv'
  BY <1>10 DEF UnlinkBegin, BeginList, TypeOK, ListenerHolds,
               NoThreadWithoutObject, Handover, RegistryExact, Running
<1>11. ASSUME ~crashed, NEW s \in Slots, UnlinkEnd(s), UNCHANGED derefFirst PROVE IInv'
  BY <1>11 DEF UnlinkEnd, EndList, TypeOK, ListenerHolds,
               NoThreadWithoutObject, Handover, RegistryExact, Running
<1>12. ASSUME ~crashed, NEW s \in Slots, Delete(s), UNCHANGED derefFirst PROVE IInv'
  BY <1>12 DEF Delete, TypeOK, ListenerHolds, NoThreadWithoutObject,
               Handover, RegistryExact, Running
<1> QED
  BY <1>u, <1>1, <1>2, <1>3, <1>4, <1>5, <1>6, <1>7, <1>8, <1>9, <1>10,
     <1>11, <1>12 DEF Next, ListenerStep, ThreadStep

-----------------------------------------------------------------------------
\* The end of the process leaves a state in which the invariant of SocketServer
\* holds for want of sockets.
LEMMA EndsIInv == IInv /\ ~crashed /\ Ends => IInv'
<1> SUFFICES ASSUME IInv, ~crashed, Ends
             PROVE  IInv'
  OBVIOUS
<1> USE SlotAssumption DEF Ends
<1>1. TypeOK'
  BY DEF IInv, TypeOK, Slots, Running
<1>2. ListenerHolds' /\ NoThreadWithoutObject'
  BY DEF IInv, TypeOK, Slots, ListenerHolds, NoThreadWithoutObject
<1>3. Handover'
  BY DEF Handover, Running, Slots
<1>4. RegistryExact'
  BY DEF RegistryExact, Slots
<1> QED
  BY <1>1, <1>2, <1>3, <1>4 DEF IInv

\* A player taken by the server thread is accepted like a game server.
LEMMA TakesPlayerIInv == IInv /\ ~crashed /\ TakesPlayer => IInv'
<1> SUFFICES ASSUME IInv, ~crashed, TakesPlayer
             PROVE  IInv'
  OBVIOUS
<1>1. PICK c \in Conns, seen \in {"up", "down"} :
        /\ wire[c] = "idle" /\ heap[c] = "none"
        /\ wire' = [wire EXCEPT ![c] = seen] /\ heap' = [heap EXCEPT ![c] = "live"] /\ cur' = c
  BY DEF TakesPlayer
<1>2. /\ lpc = "accept" /\ lpc' = "push"
      /\ UNCHANGED <<derefFirst, listening, thr, sockList, inList, overlap, crashed>>
  BY DEF TakesPlayer
<1> USE SlotAssumption DEF IInv, Slots
<1>3. TypeOK'
  BY <1>1, <1>2 DEF TypeOK
<1>4. ListenerHolds' /\ NoThreadWithoutObject'
  BY <1>1, <1>2 DEF TypeOK, ListenerHolds, NoThreadWithoutObject
<1>5. Handover'
  BY <1>1, <1>2 DEF TypeOK, NoThreadWithoutObject, Handover, Running
<1>6. RegistryExact'
  BY <1>1, <1>2 DEF TypeOK, ListenerHolds, NoThreadWithoutObject, RegistryExact
<1> QED
  BY <1>3, <1>4, <1>5, <1>6

\* Every step of the process preserves the invariant of SocketServer.
LEMMA ProcessNextIInv == IInv /\ [ProcessNext]_allVars => IInv'
<1> SUFFICES ASSUME IInv, [ProcessNext]_allVars
             PROVE  IInv'
  OBVIOUS
<1>1. UNCHANGED vars => IInv'
  BY NextIInv
<1>2. CASE UNCHANGED allVars
  BY <1>1, <1>2 DEF allVars
<1>3. CASE ~crashed /\ MainStep
  BY <1>1, <1>3, EndsIInv DEF MainStep, LoadConfig, ConnectDatabase, StartListener, Run, HandlerAccept, Goes
<1>4. CASE \E x \in Servers : Construct(x) \/ Dismiss(x)
  BY <1>1, <1>4 DEF Construct, Dismiss
<1>5. CASE \E p \in Players : PlayerConnects(p) \/ PlayerLeaves(p)
  BY <1>1, <1>5 DEF PlayerConnects, PlayerLeaves
<1>6. CASE ~crashed /\ (HandlerNull \/ UnknownPacket \/ ShortLength \/ TakesServer)
  BY <1>1, <1>6, EndsIInv DEF HandlerNull, UnknownPacket, ShortLength, TakesServer, Goes
<1>8. CASE ~crashed /\ TakesPlayer
  BY <1>8, TakesPlayerIInv
<1>7. CASE ServerStep
  BY <1>7, NextIInv DEF ServerStep
<1> QED
  BY <1>2, <1>3, <1>4, <1>5, <1>6, <1>7, <1>8 DEF ProcessNext

\* The invariant of SocketServer is one of the process.
LEMMA ProcessIInv == ProcessSpec => []IInv
<1>1. ProcessInit => IInv
  BY InitIInv DEF ProcessInit
<1> QED
  BY <1>1, ProcessNextIInv, PTL DEF ProcessSpec

\* Handover: however the process starts and ends, a CSocket has one holder at a
\* time, and lives while it has.
THEOREM ProcessHandover == ProcessSpec => []Handover
  BY ProcessIInv, PTL DEF IInv

\* RegistryExact: until two threads have been in it at once, sockList holds
\* exactly the sockets that live, whatever main and the players do.
THEOREM ProcessRegistry == ProcessSpec => []RegistryExact
  BY ProcessIInv, PTL DEF IInv
=============================================================================
