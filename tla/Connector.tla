----------------------------- MODULE Connector ------------------------------
(***************************************************************************)
(* Connector (net/Connector.cpp) with its base class and socket manager:   *)
(* the life of one connection to a server, from Initialize to Stop, and    *)
(* what is sent on it through a SendManager.                               *)
(*                                                                         *)
(* The owner calls Initialize, sends and calls Stop; the runner calls      *)
(* Start and runs the handlers; the workers of the receive manager's queue *)
(* dispatch what handlers put there.  What Receive does with bytes is in   *)
(* ReceiveManager, how workers wait in MessageQueue; here a handler or a   *)
(* worker calls DoData, which may send or call Stop, be it that another    *)
(* thread is in Stop already.                                              *)
(*                                                                         *)
(* A thread that follows a dangling pointer or NULL sets crashed, and      *)
(* nothing more happens.                                                   *)
(***************************************************************************)
EXTENDS Integers, FiniteSets, SendManager

CONSTANTS
  Owner, Runner,
  Workers,      (* threads of the message queue                            *)
  MaxConnects,  (* bound: calls of Initialize                              *)
  MaxReceives,  (* bound: receives completed with data, per connection     *)
  MaxRefused    (* bound: PostSends that return FAILED                     *)

ASSUME ConnectorAssumption ==
  /\ Owner # Runner /\ {Owner, Runner} \cap Workers = {}
  /\ MaxConnects \in Nat /\ MaxReceives \in Nat /\ MaxRefused \in Nat

Threads == {Owner, Runner} \cup Workers

VARIABLES
  at,           (* at[t]: where thread t is                                *)
  socket,       (* "none", "open", "closed" or "deleted"                   *)
  deletions,    (* how often this socket object was deleted                *)
  pointer,      (* _socket is not NULL                                     *)
  sockets,      (* _socket_manager is not NULL                             *)
  kept,         (* the socket is in SocketManager::_set                    *)
  service,      (* _io_service is not NULL                                 *)
  io,           (* the object it held: "none", "open" or "stopped"         *)
  manager,      (* _receive_manager: "none", "alive", "dying", "deleted"   *)
  listed,       (* messages in the queue of the receive manager            *)
  isRun,        (* _is_run                                                 *)
  receive,      (* the receive: "none", "posted", or how it completed      *)
  connects, received, refused, crashed

connection == <<socket, deletions, pointer, kept>>
pointers   == <<sockets, service>>
bounds     == <<connects, received, refused>>
vars == <<at, connection, pointers, io, manager, listed, isRun, receive, bounds, crashed, place>>

Goto(t, point) == at' = [at EXCEPT ![t] = point]

Init ==
  /\ at = [t \in Threads |-> IF t = Owner THEN "idle" ELSE IF t = Runner THEN "out" ELSE "wait"]
  /\ socket = "none" /\ deletions = 0 /\ pointer = FALSE /\ kept = FALSE
  /\ sockets = FALSE /\ service = FALSE
  /\ io = "none"
  /\ manager = "none"
  /\ listed = 0
  /\ isRun = FALSE
  /\ receive = "none"
  /\ connects = 0 /\ received = 0 /\ refused = 0
  /\ crashed = FALSE
  /\ SendInit

-----------------------------------------------------------------------------
(* The owner.                                                              *)

(* Initialize connects: the socket is kept, read unless there is no memory *)
(* for a handle, and greeted.                                              *)
Connected ==
  /\ socket' = "open" /\ deletions' = 0 /\ pointer' = TRUE /\ kept' = TRUE
  /\ receive' \in {"posted", "none"}
  /\ UNCHANGED <<at, isRun>>

(* Bug: the socket is closed, not deleted.                                 *)
NotConnected_Kept ==
  /\ socket' = "closed" /\ deletions' = 0 /\ pointer' = FALSE
  /\ isRun' = FALSE
  /\ Goto(Owner, "sockets")
  /\ UNCHANGED <<kept, receive>>

(* It does not: the socket is closed and deleted, the rest released.       *)
NotConnected ==
  /\ socket' = "deleted" /\ deletions' = 1 /\ pointer' = FALSE
  /\ isRun' = FALSE
  /\ Goto(Owner, "sockets")
  /\ UNCHANGED <<kept, receive>>

(* With a new receive manager, on a Connector that holds nothing and in    *)
(* which no thread is.                                                     *)
Initialize ==
  /\ ~crashed
  /\ at[Owner] = "idle" /\ at[Runner] = "out" /\ \A w \in Workers : at[w] = "wait"
  /\ ~sockets /\ ~service /\ manager \in {"none", "deleted"}
  /\ connects < MaxConnects
  /\ connects' = connects + 1
  /\ sockets' = TRUE
  /\ service' = TRUE /\ io' = "open"
  /\ manager' = "alive"
  /\ received' = 0
  /\ Connected \/ NotConnected
  /\ UNCHANGED <<listed, refused, crashed, place>>

(* Start is called once, on a connection.                                  *)
Start ==
  /\ ~crashed
  /\ at[Runner] = "out" /\ at[Owner] = "idle"
  /\ pointer /\ service /\ io = "open"
  /\ isRun' = TRUE
  /\ Goto(Runner, "run")
  /\ UNCHANGED <<connection, pointers, io, manager, listed, receive, bounds, crashed, place>>

-----------------------------------------------------------------------------
(* What the owner does outside of other calls, and DoData anywhere.        *)

InDoData(t) == at[t] \in {"data", "last"}

MayCall(t) == ~crashed /\ IF t = Owner THEN at[t] = "idle" ELSE InDoData(t)

(* PostSend and PostError look at the pointer of the socket only: the      *)
(* write goes to the socket, be it closed or gone.                         *)
Use == crashed' = (socket = "deleted")

Send(t) ==
  /\ MayCall(t)
  /\ pointer
  /\ \E h \in SendHandles :
       \/ GetData(h) /\ UNCHANGED <<refused, crashed>>
       \/ (PostSend(h) \/ PostError(h)) /\ Use /\ UNCHANGED refused
       \/ /\ refused < MaxRefused
          /\ refused' = refused + 1
          /\ PostSendFails(h)
          /\ UNCHANGED crashed
  /\ UNCHANGED <<at, connection, pointers, io, manager, listed, isRun, receive, connects, received>>

(* Bug: Stop also closes and deletes the socket, as the line it has in a   *)
(* comment did.                                                            *)
Stop_Deletes(t) ==
  /\ MayCall(t)
  /\ IF pointer
     THEN socket' = "deleted" /\ deletions' = deletions + 1 /\ pointer' = FALSE
     ELSE UNCHANGED <<socket, deletions, pointer>>
  /\ isRun' = FALSE
  /\ Goto(t, "sockets")
  /\ UNCHANGED <<kept, pointers, io, manager, listed, receive, bounds, crashed, place>>

(* Stop; both destructors call it or ReleaseResource, too.                 *)
Stop(t) ==
  /\ MayCall(t)
  /\ isRun' = FALSE
  /\ Goto(t, "sockets")
  /\ UNCHANGED <<connection, pointers, io, manager, listed, receive, bounds, crashed, place>>

-----------------------------------------------------------------------------
(* ReleaseResource, by thread t.  Pointers are tested and then used; what  *)
(* was no NULL may be one by then.                                         *)

At(t, point) == ~crashed /\ at[t] = point

TestSockets(t) ==
  /\ At(t, "sockets")
  /\ Goto(t, IF sockets THEN "clear" ELSE "service")
  /\ UNCHANGED <<connection, pointers, io, manager, listed, isRun, receive, bounds, crashed, place>>

(* ClearAll closes and deletes what is kept, under its lock; what was      *)
(* under way on the socket completes.                                      *)
ClearAll(t) ==
  /\ At(t, "clear")
  /\ crashed' = ~sockets
  /\ IF kept
     THEN /\ socket' = "deleted" /\ deletions' = deletions + 1 /\ kept' = FALSE
          /\ receive' = IF receive = "posted" THEN "aborted" ELSE receive
          /\ place' = Aborted(place)
     ELSE UNCHANGED <<socket, deletions, kept, receive, place>>
  /\ Goto(t, "forget")
  /\ UNCHANGED <<pointer, pointers, io, manager, listed, isRun, bounds>>

ResetSockets(t) ==
  /\ At(t, "forget")
  /\ sockets' = FALSE
  /\ Goto(t, "service")
  /\ UNCHANGED <<connection, service, io, manager, listed, isRun, receive, bounds, crashed, place>>

TestService(t) ==
  /\ At(t, "service")
  /\ Goto(t, IF service THEN "halt" ELSE "manager")
  /\ UNCHANGED <<connection, pointers, io, manager, listed, isRun, receive, bounds, crashed, place>>

(* Bug: the receive manager is deleted before the io_service.              *)
StopService_DeletesManager(t) ==
  /\ At(t, "halt")
  /\ crashed' = ~service
  /\ io' = IF io = "open" THEN "stopped" ELSE io
  /\ manager' = IF manager = "alive" THEN "deleted" ELSE manager
  /\ Goto(t, "reset")
  /\ UNCHANGED <<connection, pointers, listed, isRun, receive, bounds, place>>

(* The handlers in the service that have not begun will not.               *)
StopService(t) ==
  /\ At(t, "halt")
  /\ crashed' = ~service
  /\ io' = IF io = "open" THEN "stopped" ELSE io
  /\ Goto(t, "reset")
  /\ UNCHANGED <<connection, pointers, manager, listed, isRun, receive, bounds, place>>

(* reset() of the shared pointer makes it NULL; the thread that took the   *)
(* object from it destroys it after that.                                  *)
ResetService(t) ==
  /\ At(t, "reset")
  /\ service' = FALSE
  /\ Goto(t, IF service THEN "destroy" ELSE "manager")
  /\ UNCHANGED <<connection, sockets, io, manager, listed, isRun, receive, bounds, crashed, place>>

ReleaseSteps == {"sockets", "clear", "forget", "service", "halt", "reset", "destroy", "manager", "dying"}

(* A receive handler is under way, of which io_service counts the work.    *)
InHandler == at[Runner] \in {"data", "last", "post", "release"} \cup ReleaseSteps

(* Bug: a Stop from a handler does not wait for that handler.              *)
DestroyService_OwnHandler(t) ==
  /\ At(t, "destroy")
  /\ t = Runner \/ ~InHandler
  /\ io' = "none" /\ receive' = "none" /\ place' = Dropped(place)
  /\ crashed' \in {FALSE, at[Runner] = "run"}
  /\ Goto(t, "manager")
  /\ UNCHANGED <<connection, pointers, manager, listed, isRun, bounds>>

(* Destroying the io_service waits for the handler under way; what has not *)
(* been run is dropped.  A thread still on its way out of run may or may   *)
(* not touch what is destroyed.                                            *)
DestroyService(t) ==
  /\ At(t, "destroy")
  /\ ~InHandler
  /\ io' = "none" /\ receive' = "none" /\ place' = Dropped(place)
  /\ crashed' \in {FALSE, at[Runner] = "run"}
  /\ Goto(t, "manager")
  /\ UNCHANGED <<connection, pointers, manager, listed, isRun, bounds>>

Return(t) == Goto(t, IF t = Owner THEN "idle" ELSE "data")

(* SAFE_DELETE takes the pointer for what it points to until it has come   *)
(* back from the destructor, which takes a second.                         *)
DeleteManager(t) ==
  /\ At(t, "manager")
  /\ \/ manager \in {"none", "deleted"} /\ Return(t) /\ UNCHANGED <<manager, crashed>>
     \/ manager = "alive" /\ manager' = "dying" /\ Goto(t, "dying") /\ UNCHANGED crashed
     \/ manager = "dying" /\ crashed' = TRUE /\ UNCHANGED <<at, manager>>
  /\ UNCHANGED <<connection, pointers, io, listed, isRun, receive, bounds, place>>

(* The destructor is over: manager, queue and all handles are gone.        *)
ManagerGone(t) ==
  /\ At(t, "dying")
  /\ manager' = "deleted"
  /\ listed' = 0
  /\ Return(t)
  /\ UNCHANGED <<connection, pointers, io, isRun, receive, bounds, crashed, place>>

ReleaseResource(t) ==
  \/ TestSockets(t) \/ ClearAll(t) \/ ResetSockets(t)
  \/ TestService(t) \/ StopService(t) \/ ResetService(t) \/ DestroyService(t)
  \/ DeleteManager(t) \/ ManagerGone(t)

-----------------------------------------------------------------------------
(* The network: bytes or the end of the stream come, writes are over.      *)

Arrive ==
  /\ ~crashed
  /\ socket = "open" /\ receive = "posted"
  /\ \/ received < MaxReceives /\ received' = received + 1 /\ receive' = "data"
     \/ receive' = "end" /\ UNCHANGED received
  /\ UNCHANGED <<at, connection, pointers, io, manager, listed, isRun, connects, refused, crashed, place>>

WriteEnds ==
  /\ ~crashed
  /\ \E h \in SendHandles : Written(h)
  /\ UNCHANGED <<at, connection, pointers, io, manager, listed, isRun, receive, bounds, crashed>>

-----------------------------------------------------------------------------
(* The runner, which runs one handler after the other.                     *)

InRun == At(Runner, "run") /\ io = "open"

(* AsynReceive and Receive, with data or without.                          *)
TakeReceive ==
  /\ InRun
  /\ receive \in {"data", "end", "aborted"}
  /\ Goto(Runner, IF receive = "data" THEN "data" ELSE "last")
  /\ receive' = "none"
  /\ UNCHANGED <<connection, pointers, io, manager, listed, isRun, bounds, crashed, place>>

(* A method of the receive manager, or DoData, which is pure in its        *)
(* destructor, goes on or is called.                                       *)
UseManager == crashed' \in {manager = "deleted", manager \in {"dying", "deleted"}}

(* Receive is left with true, and the next receive posted, or with false.  *)
(* What came last, data or the end, was put into the queue before, if it   *)
(* was a message and there was memory for a copy; DoData was called        *)
(* directly otherwise, and for the messages of a batch before the last.    *)
DataDone ==
  /\ ~crashed
  /\ \/ at[Runner] = "data" /\ UNCHANGED listed /\ \E point \in {"post", "release"} : Goto(Runner, point)
     \/ at[Runner] = "data" /\ listed' = listed + 1 /\ Goto(Runner, "post")
     \/ at[Runner] = "last" /\ listed' \in {listed, listed + 1} /\ Goto(Runner, "release")
  /\ UseManager
  /\ UNCHANGED <<connection, pointers, io, manager, isRun, receive, bounds, place>>

(* PostReceive begins with is_open of the socket.                          *)
PostReceive ==
  /\ At(Runner, "post")
  /\ crashed' = (socket = "deleted" \/ manager = "deleted")
  /\ receive' \in IF socket = "open" THEN {"posted", "none"} ELSE {receive}
  /\ Goto(Runner, "release")
  /\ UNCHANGED <<connection, pointers, io, manager, listed, isRun, bounds, place>>

ReleaseHandle ==
  /\ At(Runner, "release")
  /\ crashed' = (manager = "deleted")
  /\ Goto(Runner, "run")
  /\ UNCHANGED <<connection, pointers, io, manager, listed, isRun, receive, bounds, place>>

TakeSend ==
  /\ InRun
  /\ \E h \in SendHandles : SendComplete(h)
  /\ UNCHANGED <<at, connection, pointers, io, manager, listed, isRun, receive, bounds, crashed>>

NothingToRun == receive = "none" /\ \A h \in SendHandles : place[h] \notin {"sending", "written", "aborted"}

(* Bug: _is_run is not reset.                                              *)
Leave_StillRunning ==
  /\ At(Runner, "run")
  /\ io # "open" \/ NothingToRun
  /\ io' = IF io = "open" THEN "stopped" ELSE io
  /\ Goto(Runner, "out")
  /\ UNCHANGED <<connection, pointers, manager, listed, isRun, receive, bounds, crashed, place>>

(* run returns when it is stopped or has nothing left to wait for; the     *)
(* service is stopped after that.                                          *)
Leave ==
  /\ At(Runner, "run")
  /\ io # "open" \/ NothingToRun
  /\ io' = IF io = "open" THEN "stopped" ELSE io
  /\ isRun' = FALSE
  /\ Goto(Runner, "out")
  /\ UNCHANGED <<connection, pointers, manager, listed, receive, bounds, crashed, place>>

-----------------------------------------------------------------------------
(* The workers, while there is a queue.                                    *)

TakeMessage(w) ==
  /\ At(w, "wait")
  /\ manager \in {"alive", "dying"} /\ listed > 0
  /\ listed' = listed - 1
  /\ UseManager
  /\ Goto(w, "data")
  /\ UNCHANGED <<connection, pointers, io, manager, isRun, receive, bounds, place>>

(* DoData has returned: the queue is used again.                           *)
MessageDone(w) ==
  /\ At(w, "data")
  /\ crashed' = (manager = "deleted")
  /\ Goto(w, "wait")
  /\ UNCHANGED <<connection, pointers, io, manager, listed, isRun, receive, bounds, place>>

Next ==
  \/ Initialize \/ Start
  \/ \E t \in Threads : Send(t) \/ Stop(t) \/ ReleaseResource(t)
  \/ Arrive \/ WriteEnds
  \/ TakeReceive \/ DataDone \/ PostReceive \/ ReleaseHandle \/ TakeSend \/ Leave
  \/ \E w \in Workers : TakeMessage(w) \/ MessageDone(w)

Spec == Init /\ [][Next]_vars

-----------------------------------------------------------------------------
(* Properties.                                                             *)

(* Types; deletions is bounded by DeletedOnce.  _is_run is only set while  *)
(* a thread is in Start.                                                   *)
TypeOK ==
  /\ at \in [Threads -> {"idle", "out", "run", "data", "last", "post", "release", "wait"} \cup ReleaseSteps]
  /\ socket \in {"none", "open", "closed", "deleted"}
  /\ deletions \in Nat
  /\ {pointer, kept, sockets, service, crashed} \subseteq BOOLEAN
  /\ isRun \in {FALSE, at[Runner] # "out"}
  /\ io \in {"none", "open", "stopped"}
  /\ manager \in {"none", "alive", "dying", "deleted"}
  /\ listed \in Nat
  /\ receive \in {"none", "posted", "data", "end", "aborted"}
  /\ connects \in 0..MaxConnects
  /\ received \in 0..MaxReceives
  /\ refused \in 0..MaxRefused
  /\ place \in [SendHandles -> Places]

(* A handler runs with its receive manager deleted, or being deleted, only *)
(* if one Stop has overtaken another: that one waits for the handler in    *)
(* destroying the service, this one found the pointer to the service NULL  *)
(* (Acceptor_Connector_Base.cpp:81-86).  A single Stop, from wherever it   *)
(* is called, does not delete a handler's manager.                         *)
HandlersHaveManager ==
  InHandler /\ manager # "alive" => \E t \in Threads : at[t] = "destroy"

(* No socket object is deleted twice, though Connector and SocketManager   *)
(* both hold it (Connector.cpp:98), and however many threads are in Stop.  *)
DeletedOnce == deletions <= 1

(* When Initialize has failed, or every Stop has returned, nothing of the  *)
(* connection is left: not a socket, receive, service or manager, and no   *)
(* handle waits for a write that will not be completed.                    *)
NothingLeft ==
  ~service /\ ~crashed /\ (\A t \in Threads : at[t] \notin ReleaseSteps)
    => /\ socket \in {"none", "deleted"}
       /\ io = "none"
       /\ receive = "none"
       /\ manager \notin {"alive", "dying"}
       /\ \A h \in SendHandles : place[h] \notin {"sending", "written", "aborted"}

(* A Stop that DoData calls on the runner, in a handler, comes to destroy  *)
(* the service that waits for this handler and does not return, as the     *)
(* comment at Connector.cpp:101-111 warns; unless another Stop has taken   *)
(* the service before and waits for the handler in its place.  A Stop that *)
(* DoData calls on a worker does return; on either thread it returns with  *)
(* the receive manager and its queue deleted, of which the thread is in a  *)
(* method.                                                                 *)
Returns(t) == at[t] \in ReleaseSteps /\ at'[t] \notin ReleaseSteps

StopInDoData ==
  [][\A t \in Threads \ {Owner} : Returns(t) =>
       /\ manager' = "deleted"
       /\ t = Runner => \E other \in Threads \ {Runner} : at[other] = "destroy"]_vars
=============================================================================
