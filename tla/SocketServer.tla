---------------------------- MODULE SocketServer ----------------------------
(***************************************************************************)
(* CSocketServer with the threads that use it: one listener thread that    *)
(* loops on Accept and starts a thread per returned socket (serverListener *)
(* and clientListener), and the connection threads (serverSocket,          *)
(* clientSocket), each of which receives until RecievePacket returns NULL  *)
(* and then calls Remove.  No lock protects sockList: two threads may be   *)
(* inside the std::list at once, after which its links are unspecified.    *)
(*                                                                         *)
(* An accept that fails returns NULL, and the listener starts a thread for *)
(* it all the same; Fails are those NULL sockets, Conns the real ones.     *)
(* sockCount (never initialised, only stored into the socket's id) and the *)
(* packets a live thread handles change nothing modelled here.             *)
(***************************************************************************)
EXTENDS FiniteSets

CONSTANTS
  Conns,       \* connections a peer may open
  Fails,       \* accepts that may fail (bounds the NULL sockets)
  NoSock,      \* the listener holds no result of Accept
  Listener     \* the listener thread, as a user of the list

ASSUME SlotAssumption ==
  /\ Conns \cap Fails = {}
  /\ NoSock \notin Conns \cup Fails
  /\ Listener \notin Conns \cup Fails

VARIABLES
  derefFirst,  \* the threads are clientSocket, which calls sock->GetId() before
               \* its while(sock) test, and not serverSocket; never changes
  listening,   \* the constructor got as far as listen()
  lpc,         \* where the listener is in its loop
  cur,         \* what Accept is about to return or has returned
  wire,        \* the TCP connection as the peer sees it
  heap,        \* the CSocket object of a connection
  thr,         \* where the thread of a socket is
  sockList,    \* the sockets linked in the list
  inList,      \* the threads inside a list operation
  overlap,     \* two list operations have overlapped
  crashed      \* the process has faulted

vars == <<derefFirst, listening, lpc, cur, wire, heap, thr, sockList, inList, overlap, crashed>>

Slots == Conns \cup Fails

\* Stages in which a thread exists and has not given its socket up.
Running == {"start", "loop", "unlink", "unlinking", "delete"}

TypeOK ==
  /\ derefFirst \in BOOLEAN
  /\ listening \in BOOLEAN
  /\ lpc \in {"accept", "push", "linking", "spawn"}
  /\ cur \in Slots \cup {NoSock}
  /\ wire \in [Conns -> {"idle", "up", "down", "closed"}]
  /\ heap \in [Conns -> {"none", "live", "freed"}]
  /\ thr \in [Slots -> Running \cup {"none", "orphan", "done"}]
  /\ sockList \in SUBSET Conns
  /\ inList \in SUBSET (Slots \cup {Listener})
  /\ overlap \in BOOLEAN
  /\ crashed \in BOOLEAN

(***************************************************************************)
(* List operations.  remove(NULL) only walks the list; every other         *)
(* operation writes links, so it races with any operation it overlaps.     *)
(***************************************************************************)
BeginList(t) ==
  /\ inList' = inList \cup {t}
  /\ overlap' = (overlap \/ (inList # {} /\ ~ (inList \cup {t} \subseteq Fails)))
  /\ UNCHANGED sockList

EndList(t, result) ==
  /\ inList' = inList \ {t}
  /\ \/ ~overlap /\ sockList' = result /\ UNCHANGED crashed
     \/ overlap /\ sockList' = {} /\ crashed' \in BOOLEAN
  /\ UNCHANGED overlap

Init ==
  /\ derefFirst \in BOOLEAN
  /\ listening \in BOOLEAN
  /\ lpc = "accept"
  /\ cur = NoSock
  /\ wire = [c \in Conns |-> "idle"]
  /\ heap = [c \in Conns |-> "none"]
  /\ thr = [s \in Slots |-> "none"]
  /\ sockList = {}
  /\ inList = {}
  /\ overlap = FALSE
  /\ crashed = FALSE

(***************************************************************************)
(* The peers.                                                              *)
(***************************************************************************)
Connect(c) ==
  /\ listening /\ wire[c] = "idle"
  /\ wire' = [wire EXCEPT ![c] = "up"]
  /\ UNCHANGED <<listening, lpc, cur, heap, thr, sockList, inList, overlap, crashed>>

Hangup(c) ==
  /\ wire[c] = "up"
  /\ wire' = [wire EXCEPT ![c] = "down"]
  /\ UNCHANGED <<listening, lpc, cur, heap, thr, sockList, inList, overlap, crashed>>

(***************************************************************************)
(* The listener: Accept, then _beginthread whatever Accept returned.       *)
(***************************************************************************)
AcceptFails(f) ==
  /\ lpc = "accept" /\ thr[f] = "none"
  /\ cur' = f
  /\ lpc' = "spawn"
  /\ UNCHANGED <<listening, wire, heap, thr, sockList, inList, overlap, crashed>>

\* Slip: a new socket is returned without having been pushed.
AcceptOkUnlisted(c) ==
  /\ lpc = "accept" /\ listening
  /\ wire[c] \in {"up", "down"} /\ heap[c] = "none"
  /\ heap' = [heap EXCEPT ![c] = "live"]
  /\ cur' = c
  /\ lpc' = "spawn"
  /\ UNCHANGED <<listening, wire, thr, sockList, inList, overlap, crashed>>

AcceptOk(c) ==
  /\ lpc = "accept" /\ listening
  /\ wire[c] \in {"up", "down"} /\ heap[c] = "none"
  /\ heap' = [heap EXCEPT ![c] = "live"]
  /\ cur' = c
  /\ lpc' = "push"
  /\ UNCHANGED <<listening, wire, thr, sockList, inList, overlap, crashed>>

PushBegin ==
  /\ lpc = "push"
  /\ lpc' = "linking"
  /\ BeginList(Listener)
  /\ UNCHANGED <<listening, cur, wire, heap, thr, crashed>>

PushEnd ==
  /\ lpc = "linking"
  /\ lpc' = "spawn"
  /\ EndList(Listener, sockList \cup {cur})
  /\ UNCHANGED <<listening, cur, wire, heap, thr>>

\* Slip: the listener serves the connection itself, as the Handler does.
SpawnServes ==
  /\ lpc = "spawn"
  /\ \/ thr[cur] = "none" /\ thr' = [thr EXCEPT ![cur] = "start"] /\ UNCHANGED <<cur, lpc>>
     \/ thr[cur] = "done" /\ cur' = NoSock /\ lpc' = "accept" /\ UNCHANGED thr
  /\ UNCHANGED <<listening, wire, heap, sockList, inList, overlap, crashed>>

\* _beginthread's result is ignored: when it fails nobody owns the socket.
Spawn ==
  /\ lpc = "spawn"
  /\ \E started \in {"start", "orphan"} : thr' = [thr EXCEPT ![cur] = started]
  /\ cur' = NoSock
  /\ lpc' = "accept"
  /\ UNCHANGED <<listening, wire, heap, sockList, inList, overlap, crashed>>

(***************************************************************************)
(* A connection thread.                                                    *)
(***************************************************************************)
Start(s) ==
  /\ thr[s] = "start"
  /\ IF derefFirst /\ s \in Fails
       THEN crashed' = TRUE /\ UNCHANGED thr
       ELSE /\ thr' = [thr EXCEPT ![s] = IF s \in Fails THEN "unlink" ELSE "loop"]
            /\ UNCHANGED crashed
  /\ UNCHANGED <<listening, lpc, cur, wire, heap, sockList, inList, overlap>>

\* Slip: the thread deletes its socket itself and Remove does so again.
ReceiveNullDeletes(c) ==
  /\ thr[c] = "loop"
  /\ thr' = [thr EXCEPT ![c] = "unlink"]
  /\ heap' = [heap EXCEPT ![c] = "freed"]
  /\ UNCHANGED <<listening, lpc, cur, wire, sockList, inList, overlap, crashed>>

\* RecievePacket returns NULL: the peer is gone or the packet is unusable.
ReceiveNull(c) ==
  /\ thr[c] = "loop"
  /\ thr' = [thr EXCEPT ![c] = "unlink"]
  /\ UNCHANGED <<listening, lpc, cur, wire, heap, sockList, inList, overlap, crashed>>

UnlinkBegin(s) ==
  /\ thr[s] = "unlink"
  /\ thr' = [thr EXCEPT ![s] = "unlinking"]
  /\ BeginList(s)
  /\ UNCHANGED <<listening, lpc, cur, wire, heap, crashed>>

UnlinkEnd(s) ==
  /\ thr[s] = "unlinking"
  /\ thr' = [thr EXCEPT ![s] = "delete"]
  /\ EndList(s, sockList \ {s})
  /\ UNCHANGED <<listening, lpc, cur, wire, heap>>

\* Slip: Remove unlinks the socket and leaves it to nobody.
DeleteForgotten(s) ==
  /\ thr[s] = "delete"
  /\ thr' = [thr EXCEPT ![s] = "done"]
  /\ UNCHANGED <<listening, lpc, cur, wire, heap, sockList, inList, overlap, crashed>>

Delete(s) ==
  /\ thr[s] = "delete"
  /\ thr' = [thr EXCEPT ![s] = "done"]
  /\ heap' = [c \in Conns |-> IF c = s THEN "freed" ELSE heap[c]]
  /\ wire' = [c \in Conns |-> IF c = s THEN "closed" ELSE wire[c]]
  /\ UNCHANGED <<listening, lpc, cur, sockList, inList, overlap, crashed>>

ListenerStep ==
  \/ \E c \in Conns : AcceptOk(c)
  \/ PushBegin
  \/ PushEnd
  \/ Spawn

ThreadStep(s) == Start(s) \/ UnlinkBegin(s) \/ UnlinkEnd(s) \/ Delete(s)

Next ==
  /\ ~crashed
  /\ \/ \E c \in Conns : Connect(c) \/ Hangup(c) \/ ReceiveNull(c)
     \/ \E f \in Fails : AcceptFails(f)
     \/ ListenerStep
     \/ \E s \in Slots : ThreadStep(s)
  /\ UNCHANGED derefFirst

Spec == Init /\ [][Next]_vars

-----------------------------------------------------------------------------
(***************************************************************************)
(* Properties.                                                             *)
(***************************************************************************)

\* A CSocket is handed from the listener to exactly one thread, and whoever
\* holds the pointer (the listener inside Accept, or the thread until its
\* delete) holds a live object: no use after free, no second delete.
Handover ==
  \A c \in Conns :
    /\ cur = c => heap[c] = "live" /\ thr[c] = "none"
    /\ thr[c] \in Running => heap[c] = "live"

\* As long as no two list operations overlapped, sockList holds exactly the
\* sockets that Accept has registered and Remove has not unlinked: a thread
\* never runs before its socket is linked, so Remove leaves no dangling
\* pointer behind and misses none.
RegistryExact ==
  ~overlap =>
    \A c \in Conns :
      c \in sockList <=> \/ cur = c /\ lpc = "spawn"
                         \/ thr[c] \in {"orphan", "start", "loop", "unlink", "unlinking"}
=============================================================================
