------------------------------ MODULE Acceptor ------------------------------
(***************************************************************************)
(* Acceptor (net/Acceptor.cpp) with the base class that keeps its sockets  *)
(* (Acceptor_Connector_Base.cpp, SocketManager.cpp), run by the threads of *)
(* AcceptorManager::RunAll: accept operations complete, a thread in        *)
(* io_service::run takes the completion, has the socket kept, read and     *)
(* greeted by the receive manager, and posts the next accept.              *)
(*                                                                         *)
(* What is read is in ReceiveManager; of it only the end of a connection   *)
(* is left here.  RunAll is in join_all: no thread leaves run by itself.   *)
(***************************************************************************)
EXTENDS Integers, FiniteSets, Sequences

CONSTANTS
  Threads,         (* io threads of AcceptorManager                         *)
  Sockets,         (* socket objects                                        *)
  NoSocket,        (* the NULL pointer                                      *)
  Accepts,         (* _max_prepare_accept_count                             *)
  MaxConnections   (* bound: connections accepted in a behaviour            *)

ASSUME AcceptsAssumption ==
  /\ Accepts \in Nat \ {0}
  /\ MaxConnections \in Nat

(* new does not fail within the bound.                                     *)
ASSUME SocketsAssumption ==
  /\ NoSocket \notin Sockets
  /\ IsFiniteSet(Sockets)
  /\ Cardinality(Sockets) >= Accepts + MaxConnections

VARIABLES
  accepting,    (* sockets of the accepts under way                        *)
  ready,        (* completions of io_service, oldest first                 *)
  pc,           (* pc[t]: where thread t is; "run" outside of a handler    *)
  held,         (* held[t]: socket of its accept_handler                   *)
  kept,         (* SocketManager::_set                                     *)
  reading,      (* sockets with a receive under way                        *)
  greeted,      (* sockets First was called for                            *)
  ended,        (* sockets CloseSocket was called for                      *)
  connections   (* connections accepted so far                             *)

vars ==
  <<accepting, ready, pc, held, kept, reading, greeted, ended, connections>>

-----------------------------------------------------------------------------

Completion == [kind : {"accepted", "refused", "end"}, socket : Sockets]

Pending(kinds) == {i \in DOMAIN ready : ready[i].kind \in kinds}

Queued(kinds) == {ready[i].socket : i \in Pending(kinds)}

Holding == {t \in Threads : pc[t] \in {"add", "receive", "first"}}

(* Objects that were created and not deleted.                              *)
Created ==
  accepting \cup Queued({"accepted", "refused", "end"}) \cup kept
    \cup {held[t] : t \in Holding}

(* Initialize posts the accepts before a thread runs.                      *)
Init ==
  /\ accepting \in {S \in SUBSET Sockets : Cardinality(S) = Accepts}
  /\ ready = <<>>
  /\ pc = [t \in Threads |-> "run"]
  /\ held = [t \in Threads |-> NoSocket]
  /\ kept = {}
  /\ reading = {}
  /\ greeted = {}
  /\ ended = {}
  /\ connections = 0

-----------------------------------------------------------------------------
(* The peers and the system.                                               *)

Complete(s, kind) == ready' = Append(ready, [kind |-> kind, socket |-> s])

ClientConnects(s) ==
  /\ s \in accepting
  /\ connections < MaxConnections
  /\ connections' = connections + 1
  /\ accepting' = accepting \ {s}
  /\ Complete(s, "accepted")
  /\ UNCHANGED <<pc, held, kept, reading, greeted, ended>>

AcceptFails(s) ==
  /\ s \in accepting
  /\ accepting' = accepting \ {s}
  /\ Complete(s, "refused")
  /\ UNCHANGED <<pc, held, kept, reading, greeted, ended, connections>>

PeerCloses(s) ==
  /\ s \in reading
  /\ reading' = reading \ {s}
  /\ Complete(s, "end")
  /\ UNCHANGED <<accepting, pc, held, kept, greeted, ended, connections>>

-----------------------------------------------------------------------------
(* Handlers, run by thread t.                                              *)

Take(t, kind) ==
  /\ pc[t] = "run"
  /\ ready # <<>>
  /\ Head(ready).kind = kind
  /\ ready' = Tail(ready)

Goto(t, point) == pc' = [pc EXCEPT ![t] = point]

(* accept_handler without an error: PostRecvAndFirst has the socket kept,  *)
Accepted(t) ==
  /\ Take(t, "accepted")
  /\ held' = [held EXCEPT ![t] = Head(ready).socket]
  /\ Goto(t, "add")
  /\ UNCHANGED <<accepting, kept, reading, greeted, ended, connections>>

Add(t) ==
  /\ pc[t] = "add"
  /\ kept' = kept \cup {held[t]}
  /\ Goto(t, "receive")
  /\ UNCHANGED <<accepting, ready, held, reading, greeted, ended, connections>>

(* Bug: without memory for a receive the handler skips First.              *)
PostReceive_Returns(t) ==
  /\ pc[t] = "receive"
  /\ \/ reading' = reading \cup {held[t]} /\ Goto(t, "first")
     \/ UNCHANGED reading /\ Goto(t, "repost")
  /\ UNCHANGED <<accepting, ready, held, kept, greeted, ended, connections>>

(* read, unless there is no memory for a handle, ...                       *)
PostReceive(t) ==
  /\ pc[t] = "receive"
  /\ reading' = reading \cup {held[t]} \/ UNCHANGED reading
  /\ Goto(t, "first")
  /\ UNCHANGED <<accepting, ready, held, kept, greeted, ended, connections>>

(* ... and greeted, whatever PostReceive returned.                         *)
First(t) ==
  /\ pc[t] = "first"
  /\ greeted' = greeted \cup {held[t]}
  /\ Goto(t, "repost")
  /\ UNCHANGED <<accepting, ready, held, kept, reading, ended, connections>>

(* Bug: no further accept is posted after a failed one.                    *)
Refused_NotReposted(t) ==
  /\ Take(t, "refused")
  /\ UNCHANGED <<accepting, pc, held, kept, reading, greeted, ended, connections>>

(* accept_handler with an error deletes the socket.                        *)
Refused(t) ==
  /\ Take(t, "refused")
  /\ held' = [held EXCEPT ![t] = NoSocket]
  /\ Goto(t, "repost")
  /\ UNCHANGED <<accepting, kept, reading, greeted, ended, connections>>

(* Bug: the next accept is posted with the socket of the last.             *)
PostAccept_SameSocket(t) ==
  /\ pc[t] = "repost"
  /\ \E s \in Sockets :
       /\ IF held[t] = NoSocket THEN s \notin Created ELSE s = held[t]
       /\ accepting' = accepting \cup {s}
  /\ held' = [held EXCEPT ![t] = NoSocket]
  /\ Goto(t, "run")
  /\ UNCHANGED <<ready, kept, reading, greeted, ended, connections>>

(* The next accept gets a new socket object.                               *)
PostAccept(t) ==
  /\ pc[t] = "repost"
  /\ \E s \in Sockets \ Created : accepting' = accepting \cup {s}
  /\ held' = [held EXCEPT ![t] = NoSocket]
  /\ Goto(t, "run")
  /\ UNCHANGED <<ready, kept, reading, greeted, ended, connections>>

(* A read of 0 bytes: the handle is released, which calls CloseSocket.     *)
(* That does nothing: no SetSocketManager gave the receive manager a       *)
(* socket manager.                                                         *)
ReadEnd(t) ==
  /\ Take(t, "end")
  /\ ended' = ended \cup {Head(ready).socket}
  /\ UNCHANGED <<accepting, pc, held, kept, reading, greeted, connections>>

-----------------------------------------------------------------------------

ThreadStep(t) ==
  \/ Accepted(t) \/ Add(t) \/ PostReceive(t) \/ First(t)
  \/ Refused(t) \/ PostAccept(t) \/ ReadEnd(t)

Next ==
  \/ \E s \in Sockets : ClientConnects(s) \/ AcceptFails(s) \/ PeerCloses(s)
  \/ \E t \in Threads : ThreadStep(t)

Spec == Init /\ [][Next]_vars

(* The io threads run; nothing is assumed of peers and system.             *)
FairSpec == Spec /\ \A t \in Threads : WF_vars(ThreadStep(t))

-----------------------------------------------------------------------------
TypeOK ==
  /\ accepting \subseteq Sockets
  /\ ready \in Seq(Completion)
  /\ pc \in [Threads -> {"run", "add", "receive", "first", "repost"}]
  /\ held \in [Threads -> Sockets \cup {NoSocket}]
  /\ \A t \in Holding : held[t] \in Sockets
  /\ kept \subseteq Sockets
  /\ reading \subseteq Sockets
  /\ greeted \subseteq Sockets
  /\ ended \subseteq Sockets
  /\ connections \in 0 .. MaxConnections

(* Whatever accepts fail, as many as RunAll was asked for are prepared:    *)
(* each is under way, completed, or in the hands of a thread that will     *)
(* post the next one.                                                      *)
AcceptsPrepared ==
  Cardinality(accepting) + Cardinality(Pending({"accepted", "refused"}))
    + Cardinality({t \in Threads : pc[t] # "run"}) = Accepts

(* A socket object belongs to one accept or to the manager: no accept is   *)
(* under way on a socket that another handler deletes, reads or keeps.     *)
OneOwner ==
  /\ accepting \cap kept = {}
  /\ Queued({"accepted", "refused"}) \cap (accepting \cup kept) = {}
  /\ \A i, j \in Pending({"accepted", "refused"}) : ready[i].socket = ready[j].socket => i = j
  /\ \A t \in Holding :
       /\ held[t] \notin accepting \cup Queued({"accepted", "refused"})
       /\ \A u \in Holding : held[t] = held[u] => t = u

(* Every connection that was accepted is greeted, though accepts fail      *)
(* before and after it.                                                    *)
Served == \A s \in Sockets : s \in Queued({"accepted"}) ~> s \in greeted

(* "0 bytes were received: the client has closed the connection", for      *)
(* which CloseSocket is the way "to close and release" a socket: the       *)
(* manager has it no more.                                                 *)
ClosedIsReleased == \A s \in Sockets : s \in ended ~> s \notin kept
=============================================================================
