-------------------------- MODULE ConnectorProofs ---------------------------
(***************************************************************************)
(* Theorems about Connector, for any number of workers, connections,       *)
(* receives and send handles, and however many threads are in Stop at a    *)
(* time: a handler loses its receive manager only where one Stop overtakes *)
(* another, a Stop in DoData returns into what it deleted or not at all, a *)
(* socket is deleted once, and nothing of a connection is left when every  *)
(* Stop has returned.                                                      *)
(***************************************************************************)
EXTENDS Connector, TLAPS

(* TypeOK in parts, since no prover does numbers, sets and Booleans at     *)
(* once.                                                                   *)
Numbers ==
  /\ deletions \in Nat
  /\ listed \in Nat
  /\ connects \in 0 .. MaxConnects
  /\ received \in 0 .. MaxReceives
  /\ refused \in 0 .. MaxRefused

AllPoints == {"idle", "out", "run", "data", "last", "post", "release", "wait"} \cup ReleaseSteps

(* Which thread can be where.                                              *)
Points ==
  /\ at \in [Threads -> AllPoints]
  /\ at[Owner] \in {"idle"} \cup ReleaseSteps
  /\ at[Runner] \in {"out", "run", "data", "last", "post", "release"} \cup ReleaseSteps
  /\ \A w \in Workers : at[w] \in {"wait", "data"} \cup ReleaseSteps

Kinds ==
  /\ socket \in {"none", "open", "closed", "deleted"}
  /\ io \in {"none", "open", "stopped"}
  /\ manager \in {"none", "alive", "dying", "deleted"}
  /\ receive \in {"none", "posted", "data", "end", "aborted"}

Flags ==
  /\ pointer \in BOOLEAN /\ kept \in BOOLEAN /\ sockets \in BOOLEAN
  /\ service \in BOOLEAN /\ crashed \in BOOLEAN

RunFlag == isRun \in {FALSE, at[Runner] # "out"}

Handles == place \in [SendHandles -> Places]

LEMMA Types == Numbers /\ Points /\ Kinds /\ Flags /\ RunFlag /\ Handles => TypeOK
BY DEF TypeOK, Numbers, Points, AllPoints, Kinds, Flags, RunFlag, Handles

(* The service: whoever has passed reset() knows the pointer to be NULL,   *)
(* and if there is a service nevertheless, exactly one thread destroys it. *)
Service ==
  /\ service => io # "none"
  /\ \A t \in Threads : at[t] \in {"destroy", "manager", "dying"} => ~service
  /\ \A t \in Threads : at[t] = "destroy" => io # "none"
  /\ \A t, u \in Threads : at[t] = "destroy" /\ at[u] = "destroy" => t = u
  /\ io # "none" /\ ~service => \E t \in Threads : at[t] = "destroy"
  /\ InHandler => io # "none"

(* The manager: it is alive as long as the pointer to the service is there,*)
(* and when that is NULL somebody comes to delete it.                      *)
Manager ==
  /\ service => manager = "alive"
  /\ manager = "alive" /\ ~service => \E t \in Threads : at[t] \in {"destroy", "manager"}
  /\ manager = "dying" => \E t \in Threads : at[t] = "dying"
  /\ manager = "none" => at[Runner] = "out" /\ \A w \in Workers : at[w] = "wait"

(* A socket is open exactly while SocketManager has it, was not deleted    *)
(* then, and goes before the service does.                                 *)
Cleared == {"forget", "service", "halt", "reset", "destroy", "manager", "dying"}

SocketKept ==
  /\ socket # "closed"
  /\ kept <=> socket = "open"
  /\ kept => sockets /\ service
  /\ pointer => socket # "none"
  /\ \A t \in Threads : at[t] \in Cleared => ~kept

DeletedInv == deletions <= 1 /\ (kept => deletions = 0)

(* Nothing waits for an io_service that is gone.                           *)
Waits(h) == place[h] \in {"sending", "written", "aborted"}

Quiet == io = "none" /\ ~crashed => receive = "none" /\ \A h \in SendHandles : ~Waits(h)

IInv ==
  /\ Numbers /\ Points /\ Kinds /\ Flags /\ RunFlag /\ Handles
  /\ Service /\ Manager /\ SocketKept /\ DeletedInv /\ Quiet

-----------------------------------------------------------------------------
(* One thread moves.                                                       *)

LEMMA Moved ==
  ASSUME Points, NEW t \in Threads, NEW point, Goto(t, point)
  PROVE  at'[t] = point /\ \A u \in Threads : u # t => at'[u] = at[u]
BY DEF Points, Goto

LEMMA ThreadsDiffer ==
  /\ Owner \in Threads /\ Runner \in Threads /\ Workers \subseteq Threads
  /\ Owner # Runner /\ Owner \notin Workers /\ Runner \notin Workers
BY ConnectorAssumption DEF Threads

LEMMA PointsMove ==
  ASSUME Points, NEW t \in Threads, NEW point \in AllPoints, Goto(t, point),
         t = Owner => point \in {"idle"} \cup ReleaseSteps,
         t = Runner => point \in {"out", "run", "data", "last", "post", "release"} \cup ReleaseSteps,
         t \in Workers => point \in {"wait", "data"} \cup ReleaseSteps
  PROVE  Points'
<1>1. at' \in [Threads -> AllPoints]
  BY DEF Points, Goto
<1>2. at'[t] = point /\ \A u \in Threads : u # t => at'[u] = at[u]
  BY Moved
<1> QED
  BY <1>1, <1>2, ThreadsDiffer DEF Points

(* A move that neither comes from the end of ReleaseResource nor leads     *)
(* there, but for the one past a service that is gone.                     *)
Late == {"destroy", "manager", "dying"}

LEMMA ServiceMove ==
  ASSUME Points, Service, NEW t \in Threads, NEW point, Goto(t, point),
         at[t] \notin Late, point \notin {"destroy", "dying"}, point = "manager" => ~service,
         UNCHANGED service, io' = "none" <=> io = "none", InHandler' => io # "none"
  PROVE  Service'
<1>1. at'[t] = point /\ \A u \in Threads : u # t => at'[u] = at[u]
  BY Moved
<1>2. \A u \in Threads : at'[u] = "destroy" <=> at[u] = "destroy"
  BY <1>1 DEF Late
<1>3. \A u \in Threads : at'[u] \in {"destroy", "manager", "dying"} => ~service
  BY <1>1 DEF Service
<1> QED
  BY <1>2, <1>3 DEF Service

LEMMA ManagerMove ==
  ASSUME Points, Manager, NEW t \in Threads, NEW point, Goto(t, point),
         at[t] \notin Late, manager = "none" => t = Owner, UNCHANGED <<service, manager>>
  PROVE  Manager'
<1>1. at'[t] = point /\ \A u \in Threads : u # t => at'[u] = at[u]
  BY Moved
<1>2. \A u \in Threads : at[u] \in Late => at'[u] = at[u]
  BY <1>1
<1> QED
  BY <1>1, <1>2, ThreadsDiffer DEF Manager, Late

LEMMA SocketMove ==
  ASSUME Points, SocketKept, NEW t \in Threads, NEW point, Goto(t, point),
         UNCHANGED connection, kept => sockets' /\ service',
         point \in Cleared => at[t] \in Cleared \/ ~kept
  PROVE  SocketKept'
<1>1. at'[t] = point /\ \A u \in Threads : u # t => at'[u] = at[u]
  BY Moved
<1>2. \A u \in Threads : at'[u] \in Cleared => ~kept
  BY <1>1 DEF SocketKept
<1> QED
  BY <1>2 DEF SocketKept, connection

-----------------------------------------------------------------------------
(* Steps of the send handles.                                              *)

LEMMA AbortedType ==
  ASSUME place \in [SendHandles -> Places], place' = Aborted(place)
  PROVE  place' \in [SendHandles -> Places] /\ \A h \in SendHandles : Waits(h)' => Waits(h)
BY DEF Aborted, Waits, Places

LEMMA DroppedType ==
  ASSUME place \in [SendHandles -> Places], place' = Dropped(place)
  PROVE  place' \in [SendHandles -> Places] /\ \A h \in SendHandles : ~Waits(h)'
BY DEF Dropped, Waits, Places

LEMMA IInvInit == Init => IInv
<1> SUFFICES ASSUME Init PROVE IInv
  OBVIOUS
<1>1. Numbers
  BY ConnectorAssumption DEF Init, Numbers
<1>2. at[Owner] = "idle" /\ at[Runner] = "out" /\ \A w \in Workers : at[w] = "wait"
  BY ThreadsDiffer DEF Init
<1>3. \A t \in Threads : at[t] \in {"idle", "out", "wait"}
  BY DEF Init
<1>4. Points
  BY <1>2 DEF Init, Points, AllPoints
<1>5. Kinds /\ Handles
  BY DEF Init, SendInit, Kinds, Handles, Places
<1>6. Flags /\ RunFlag
  BY DEF Init, Flags, RunFlag
<1>7. Service
  BY <1>2, <1>3 DEF Init, Service, InHandler, ReleaseSteps
<1>8. Manager
  BY <1>2 DEF Init, Manager
<1>9. SocketKept
  BY <1>3 DEF Init, SocketKept, Cleared
<1>10. DeletedInv
  BY DEF Init, DeletedInv
<1>11. Quiet
  BY DEF Init, SendInit, Quiet, Waits
<1> QED
  BY <1>1, <1>4, <1>5, <1>6, <1>7, <1>8, <1>9, <1>10, <1>11 DEF IInv

-----------------------------------------------------------------------------
(* Steps, part by part.                                                    *)

(* The points at which a step of ReleaseResource leaves a thread.          *)
LEMMA ReleaseMoves ==
  ASSUME NEW t \in Threads, ReleaseResource(t)
  PROVE  /\ at[t] \in ReleaseSteps
         /\ at' = at \/ Return(t) \/ \E point \in ReleaseSteps : Goto(t, point)
<1> USE DEF ReleaseSteps
<1>1. CASE TestSockets(t) \/ ClearAll(t) \/ ResetSockets(t)
  BY <1>1 DEF TestSockets, ClearAll, ResetSockets, At
<1>2. CASE TestService(t) \/ StopService(t) \/ ResetService(t) \/ DestroyService(t)
  BY <1>2 DEF TestService, StopService, ResetService, DestroyService, At
<1>3. CASE DeleteManager(t) \/ ManagerGone(t)
  BY <1>3 DEF DeleteManager, ManagerGone, At
<1> QED
  BY <1>1, <1>2, <1>3 DEF ReleaseResource

LEMMA NumbersNext == Numbers /\ [Next]_vars => Numbers'
<1> SUFFICES ASSUME Numbers, [Next]_vars PROVE Numbers'
  OBVIOUS
<1> USE ConnectorAssumption DEF Numbers
<1>1. CASE Initialize
  BY <1>1 DEF Initialize, Connected, NotConnected
<1>2. ASSUME NEW t \in Threads, Send(t)
      PROVE  Numbers'
  BY <1>2 DEF Send, connection
<1>3. ASSUME NEW t \in Threads, ClearAll(t) \/ ManagerGone(t)
      PROVE  Numbers'
  BY <1>3 DEF ClearAll, ManagerGone, connection, bounds
<1>4. CASE Arrive
  BY <1>4 DEF Arrive, connection
<1>5. CASE DataDone \/ \E w \in Workers : TakeMessage(w)
  BY <1>5 DEF DataDone, TakeMessage, connection, bounds
<1>6. ASSUME NEW t \in Threads, Stop(t) \/ TestSockets(t) \/ ResetSockets(t) \/ TestService(t) \/ StopService(t)
                                 \/ ResetService(t) \/ DestroyService(t) \/ DeleteManager(t)
      PROVE  Numbers'
  <2>1. UNCHANGED <<connection, listed, bounds>>
    BY <1>6 DEF Stop, TestSockets, ResetSockets, TestService, StopService, ResetService, DestroyService, DeleteManager
  <2> QED
    BY <2>1 DEF connection, bounds
<1>7. CASE Start \/ WriteEnds \/ TakeReceive \/ PostReceive \/ ReleaseHandle \/ TakeSend \/ Leave
           \/ (\E w \in Workers : MessageDone(w)) \/ UNCHANGED vars
  <2>1. UNCHANGED <<connection, listed, bounds>>
    BY <1>7 DEF Start, WriteEnds, TakeReceive, PostReceive, ReleaseHandle, TakeSend, Leave, MessageDone, vars
  <2> QED
    BY <2>1 DEF connection, bounds
<1> QED
  BY <1>1, <1>2, <1>3, <1>4, <1>5, <1>6, <1>7 DEF Next, ReleaseResource

LEMMA HandlesNext == Handles /\ [Next]_vars => Handles'
<1> SUFFICES ASSUME Handles, [Next]_vars PROVE Handles'
  OBVIOUS
<1> USE DEF Handles
<1>1. ASSUME NEW t \in Threads, Send(t)
      PROVE  Handles'
  <2>1. PICK h \in SendHandles : GetData(h) \/ PostSend(h) \/ PostError(h) \/ PostSendFails(h)
    BY <1>1 DEF Send
  <2> QED
    BY <2>1 DEF GetData, PostSend, PostError, PostSendFails, Move, Places
<1>2. ASSUME NEW t \in Threads, ClearAll(t)
      PROVE  Handles'
  BY <1>2, AbortedType DEF ClearAll
<1>3. ASSUME NEW t \in Threads, DestroyService(t)
      PROVE  Handles'
  BY <1>3, DroppedType DEF DestroyService
<1>4. CASE WriteEnds
  BY <1>4 DEF WriteEnds, Written, Move, Places
<1>5. CASE TakeSend
  BY <1>5 DEF TakeSend, SendComplete, Completed, Places
<1>6. ASSUME NEW t \in Threads, Stop(t) \/ TestSockets(t) \/ ResetSockets(t) \/ TestService(t) \/ StopService(t)
                                 \/ ResetService(t) \/ DeleteManager(t) \/ ManagerGone(t)
      PROVE  Handles'
  BY <1>6 DEF Stop, TestSockets, ResetSockets, TestService, StopService, ResetService, DeleteManager, ManagerGone
<1>7. CASE Initialize \/ Start \/ Arrive \/ TakeReceive \/ DataDone \/ PostReceive \/ ReleaseHandle \/ Leave
           \/ (\E w \in Workers : TakeMessage(w) \/ MessageDone(w)) \/ UNCHANGED vars
  BY <1>7 DEF Initialize, Start, Arrive, TakeReceive, DataDone, PostReceive, ReleaseHandle, Leave, TakeMessage,
     MessageDone, vars
<1> QED
  BY <1>1, <1>2, <1>3, <1>4, <1>5, <1>6, <1>7 DEF Next, ReleaseResource

LEMMA FlagsNext == Flags /\ [Next]_vars => Flags'
<1> SUFFICES ASSUME Flags, [Next]_vars PROVE Flags'
  OBVIOUS
<1> USE DEF Flags, connection, pointers
<1>1. CASE Initialize
  BY <1>1 DEF Initialize, Connected, NotConnected
<1>2. ASSUME NEW t \in Threads, Send(t)
      PROVE  Flags'
  <2>1. UNCHANGED <<connection, pointers>>
    BY <1>2 DEF Send
  <2>2. UNCHANGED crashed \/ Use
    BY <1>2 DEF Send
  <2> QED
    BY <2>1, <2>2 DEF Use
<1>3. ASSUME NEW t \in Threads, ReleaseResource(t)
      PROVE  Flags'
  <2>1. CASE TestSockets(t) \/ ResetSockets(t) \/ TestService(t) \/ ManagerGone(t)
    BY <2>1 DEF TestSockets, ResetSockets, TestService, ManagerGone
  <2>2. CASE ClearAll(t)
    BY <2>2 DEF ClearAll
  <2>3. CASE StopService(t) \/ ResetService(t)
    BY <2>3 DEF StopService, ResetService
  <2>4. CASE DestroyService(t)
    BY <2>4 DEF DestroyService
  <2>5. CASE DeleteManager(t)
    BY <2>5 DEF DeleteManager
  <2> QED
    BY <1>3, <2>1, <2>2, <2>3, <2>4, <2>5 DEF ReleaseResource
<1>4. CASE DataDone \/ \E w \in Workers : TakeMessage(w)
  <2>1. UNCHANGED <<connection, pointers>> /\ UseManager
    BY <1>4 DEF DataDone, TakeMessage
  <2>2. (manager = "deleted") \in BOOLEAN /\ (manager \in {"dying", "deleted"}) \in BOOLEAN
    OBVIOUS
  <2>3. crashed' \in BOOLEAN
    BY <2>1, <2>2, Zenon DEF UseManager
  <2> QED
    BY <2>1, <2>3
<1>5. CASE PostReceive \/ ReleaseHandle \/ \E w \in Workers : MessageDone(w)
  BY <1>5 DEF PostReceive, ReleaseHandle, MessageDone
<1>6. ASSUME NEW t \in Threads, Stop(t)
      PROVE  Flags'
  BY <1>6 DEF Stop
<1>7. CASE Start \/ Arrive \/ WriteEnds \/ TakeReceive \/ TakeSend \/ Leave \/ UNCHANGED vars
  BY <1>7 DEF Start, Arrive, WriteEnds, TakeReceive, TakeSend, Leave, vars
<1> QED
  BY <1>1, <1>2, <1>3, <1>4, <1>5, <1>6, <1>7 DEF Next

LEMMA KindsNext == Kinds /\ [Next]_vars => Kinds'
<1> SUFFICES ASSUME Kinds, [Next]_vars PROVE Kinds'
  OBVIOUS
<1> USE DEF Kinds, connection
<1>1. CASE Initialize
  BY <1>1 DEF Initialize, Connected, NotConnected
<1>2. ASSUME NEW t \in Threads, ReleaseResource(t)
      PROVE  Kinds'
  <2>1. CASE TestSockets(t) \/ ResetSockets(t) \/ TestService(t) \/ ResetService(t)
    BY <2>1 DEF TestSockets, ResetSockets, TestService, ResetService
  <2>2. CASE ClearAll(t)
    BY <2>2 DEF ClearAll
  <2>3. CASE StopService(t)
    BY <2>3 DEF StopService
  <2>4. CASE DestroyService(t)
    BY <2>4 DEF DestroyService
  <2>5. CASE DeleteManager(t) \/ ManagerGone(t)
    BY <2>5 DEF DeleteManager, ManagerGone
  <2> QED
    BY <1>2, <2>1, <2>2, <2>3, <2>4, <2>5 DEF ReleaseResource
<1>3. CASE Arrive \/ TakeReceive \/ PostReceive
  BY <1>3 DEF Arrive, TakeReceive, PostReceive
<1>4. CASE Leave
  BY <1>4 DEF Leave
<1>5. ASSUME NEW t \in Threads, Send(t) \/ Stop(t)
      PROVE  Kinds'
  BY <1>5 DEF Send, Stop
<1>6. CASE Start \/ WriteEnds \/ DataDone \/ ReleaseHandle \/ TakeSend
           \/ (\E w \in Workers : TakeMessage(w) \/ MessageDone(w)) \/ UNCHANGED vars
  BY <1>6 DEF Start, WriteEnds, DataDone, ReleaseHandle, TakeSend, TakeMessage, MessageDone, vars
<1> QED
  BY <1>1, <1>2, <1>3, <1>4, <1>5, <1>6 DEF Next

(* A thread that calls Stop is one that may be there.                      *)
LEMMA PointsNext == Points /\ [Next]_vars => Points'
<1> SUFFICES ASSUME Points, [Next]_vars PROVE Points'
  OBVIOUS
<1> USE ThreadsDiffer DEF AllPoints, ReleaseSteps
<1>1. CASE Initialize
  <2>1. UNCHANGED at \/ Goto(Owner, "sockets")
    BY <1>1 DEF Initialize, Connected, NotConnected
  <2>2. CASE UNCHANGED at
    BY <2>2 DEF Points
  <2>3. CASE Goto(Owner, "sockets")
    BY <2>3, PointsMove
  <2> QED
    BY <2>1, <2>2, <2>3
<1>2. ASSUME NEW t \in Threads, Stop(t)
      PROVE  Points'
  BY <1>2, PointsMove DEF Stop
<1>3. ASSUME NEW t \in Threads, ReleaseResource(t)
      PROVE  Points'
  <2>1. CASE UNCHANGED at
    BY <2>1 DEF Points
  <2>2. CASE Return(t)
    BY <2>2, PointsMove DEF Return
  <2>3. ASSUME NEW point \in ReleaseSteps, Goto(t, point)
        PROVE  Points'
    BY <2>3, PointsMove
  <2> QED
    BY <1>3, <2>1, <2>2, <2>3, ReleaseMoves
<1>4. CASE Start
  BY <1>4, PointsMove DEF Start
<1>5. CASE TakeReceive
  BY <1>5, PointsMove DEF TakeReceive
<1>6. CASE DataDone
  <2>1. \E point \in {"post", "release"} : Goto(Runner, point)
    BY <1>6 DEF DataDone
  <2> QED
    BY <2>1, PointsMove
<1>7. CASE PostReceive \/ ReleaseHandle \/ Leave
  <2>1. \E point \in {"release", "run", "out"} : Goto(Runner, point)
    BY <1>7 DEF PostReceive, ReleaseHandle, Leave
  <2> QED
    BY <2>1, PointsMove
<1>8. ASSUME NEW w \in Workers, TakeMessage(w) \/ MessageDone(w)
      PROVE  Points'
  <2>1. \E point \in {"data", "wait"} : Goto(w, point)
    BY <1>8 DEF TakeMessage, MessageDone
  <2> QED
    BY <2>1, PointsMove
<1>9. CASE (\E t \in Threads : Send(t)) \/ Arrive \/ WriteEnds \/ TakeSend \/ UNCHANGED vars
  <2>1. UNCHANGED at
    BY <1>9 DEF Send, Arrive, WriteEnds, TakeSend, vars
  <2> QED
    BY <2>1 DEF Points
<1> QED
  BY <1>1, <1>2, <1>3, <1>4, <1>5, <1>6, <1>7, <1>8, <1>9 DEF Next

(* Who sets _is_run is in Start, and Leave and Stop reset it.              *)
LEMMA RunFlagNext == Points /\ RunFlag /\ [Next]_vars => RunFlag'
<1> SUFFICES ASSUME Points, RunFlag, [Next]_vars PROVE RunFlag'
  OBVIOUS
<1> USE ThreadsDiffer DEF RunFlag
<1>1. CASE Start
  <2>1. isRun' = TRUE /\ at'[Runner] = "run"
    BY <1>1, Moved DEF Start
  <2> QED
    BY <2>1
<1>2. CASE Leave \/ \E t \in Threads : Stop(t)
  BY <1>2 DEF Leave, Stop
<1>3. CASE Initialize
  <2>1. UNCHANGED <<at, isRun>> \/ isRun' = FALSE
    BY <1>3 DEF Initialize, Connected, NotConnected
  <2> QED
    BY <2>1
<1>4. ASSUME NEW t \in Threads, ReleaseResource(t)
      PROVE  RunFlag'
  <2>1. UNCHANGED isRun
    BY <1>4 DEF ReleaseResource, TestSockets, ClearAll, ResetSockets, TestService, StopService, ResetService,
       DestroyService, DeleteManager, ManagerGone
  <2>2. UNCHANGED at \/ Return(t) \/ \E point \in ReleaseSteps : Goto(t, point)
    BY <1>4, ReleaseMoves
  <2>3. UNCHANGED at \/ \E point \in ReleaseSteps \cup {"idle", "data"} : Goto(t, point)
    BY <2>2 DEF Return
  <2>4. t = Runner => at[Runner] # "out"
    BY <1>4, ReleaseMoves DEF ReleaseSteps
  <2>5. at'[Runner] = at[Runner] \/ (at[Runner] # "out" /\ at'[Runner] # "out")
    BY <2>3, <2>4, Moved DEF ReleaseSteps
  <2> QED
    BY <2>1, <2>5
<1>5. CASE TakeReceive \/ DataDone \/ PostReceive \/ ReleaseHandle
  <2>1. UNCHANGED isRun /\ at[Runner] # "out"
    BY <1>5 DEF TakeReceive, InRun, At, DataDone, PostReceive, ReleaseHandle
  <2>2. \E point \in {"data", "last", "post", "release", "run"} : Goto(Runner, point)
    BY <1>5 DEF TakeReceive, DataDone, PostReceive, ReleaseHandle
  <2>3. at'[Runner] # "out"
    BY <2>2, Moved
  <2> QED
    BY <2>1, <2>3
<1>6. ASSUME NEW w \in Workers, TakeMessage(w) \/ MessageDone(w)
      PROVE  RunFlag'
  <2>1. UNCHANGED isRun /\ \E point \in {"data", "wait"} : Goto(w, point)
    BY <1>6 DEF TakeMessage, MessageDone
  <2>2. at'[Runner] = at[Runner]
    BY <2>1, Moved
  <2> QED
    BY <2>1, <2>2
<1>7. CASE (\E t \in Threads : Send(t)) \/ Arrive \/ WriteEnds \/ TakeSend \/ UNCHANGED vars
  <2>1. UNCHANGED <<at, isRun>>
    BY <1>7 DEF Send, Arrive, WriteEnds, TakeSend, vars
  <2> QED
    BY <2>1
<1> QED
  BY <1>1, <1>2, <1>3, <1>4, <1>5, <1>6, <1>7 DEF Next

-----------------------------------------------------------------------------
(* The service: it is made with Initialize, taken from its pointer by one  *)
(* thread in reset() and destroyed by that thread.                         *)
LEMMA ServiceRelease ==
  ASSUME Points, Service, SocketKept, NEW t \in Threads, ReleaseResource(t)
  PROVE  Service'
<1>0. at[Runner] \in ReleaseSteps => InHandler
  BY DEF InHandler
<1>1. t = Runner => InHandler
  BY <1>0, ReleaseMoves
<1>2. InHandler' => InHandler
  <2>1. CASE t = Runner
    BY <1>1, <2>1
  <2>2. CASE t # Runner
    <3>1. UNCHANGED at \/ \E point : Goto(t, point)
      BY ReleaseMoves DEF Return
    <3>2. at'[Runner] = at[Runner]
      BY <2>2, <3>1, Moved, ThreadsDiffer
    <3> QED
      BY <3>2 DEF InHandler
  <2> QED
    BY <2>1, <2>2
<1>3. InHandler' => io # "none"
  BY <1>2 DEF Service
<1>4. CASE TestSockets(t)
  <2>1. at[t] \notin Late /\ UNCHANGED <<service, io>>
        /\ \E point \in {"clear", "service"} : Goto(t, point)
    BY <1>4 DEF TestSockets, At, Late, pointers
  <2> QED
    BY <1>3, <2>1, ServiceMove
<1>5. CASE ClearAll(t)
  <2>1. at[t] \notin Late /\ UNCHANGED <<service, io>> /\ Goto(t, "forget")
    BY <1>5 DEF ClearAll, At, Late, pointers
  <2> QED
    BY <1>3, <2>1, ServiceMove
<1>6. CASE ResetSockets(t)
  <2>1. at[t] \notin Late /\ UNCHANGED <<service, io>> /\ Goto(t, "service")
    BY <1>6 DEF ResetSockets, At, Late
  <2> QED
    BY <1>3, <2>1, ServiceMove
<1>7. CASE TestService(t)
  <2>1. at[t] \notin Late /\ UNCHANGED <<service, io>>
        /\ Goto(t, IF service THEN "halt" ELSE "manager")
    BY <1>7 DEF TestService, At, Late, pointers
  <2> QED
    BY <1>3, <2>1, ServiceMove
<1>8. CASE StopService(t)
  <2>1. at[t] \notin Late /\ UNCHANGED service /\ Goto(t, "reset") /\ (io' = "none" <=> io = "none")
    BY <1>8 DEF StopService, At, Late, pointers
  <2> QED
    BY <1>3, <2>1, ServiceMove
<1>9. CASE ResetService(t)
  <2>1. at[t] = "reset" /\ service' = FALSE /\ UNCHANGED io
        /\ Goto(t, IF service THEN "destroy" ELSE "manager")
    BY <1>9 DEF ResetService, At
  <2>2. \A u \in Threads : u # t => at'[u] = at[u]
    BY <2>1, Moved
  <2>3. at'[t] = IF service THEN "destroy" ELSE "manager"
    BY <2>1, Moved
  <2>4. CASE service
    <3>1. \A u \in Threads : at[u] # "destroy"
      BY <2>4 DEF Service
    <3>2. at'[t] = "destroy" /\ \A u \in Threads : at'[u] = "destroy" => u = t
      BY <2>2, <2>3, <2>4, <3>1
    <3> QED
      BY <1>3, <2>1, <2>4, <3>2 DEF Service
  <2>5. CASE ~service
    <3>1. \A u \in Threads : at'[u] = "destroy" <=> at[u] = "destroy"
      BY <2>1, <2>2, <2>3, <2>5
    <3> QED
      BY <1>3, <2>1, <2>5, <3>1 DEF Service
  <2> QED
    BY <2>4, <2>5
<1>10. CASE DestroyService(t)
  <2>1. at[t] = "destroy" /\ UNCHANGED service /\ io' = "none" /\ ~InHandler /\ Goto(t, "manager")
    BY <1>10 DEF DestroyService, At, pointers
  <2>2. ~service
    BY <2>1 DEF Service
  <2>3. \A u \in Threads : at'[u] # "destroy"
    BY <2>1, Moved DEF Service
  <2> QED
    BY <1>2, <2>1, <2>2, <2>3 DEF Service
<1>11. CASE DeleteManager(t) \/ ManagerGone(t)
  <2>1. at[t] \in {"manager", "dying"} /\ UNCHANGED <<service, io>>
    BY <1>11 DEF DeleteManager, ManagerGone, At, pointers
  <2>2. UNCHANGED at \/ \E point \in {"dying", "idle", "data"} : Goto(t, point)
    BY <1>11 DEF DeleteManager, ManagerGone, Return
  <2>3. \A u \in Threads : at'[u] = "destroy" <=> at[u] = "destroy"
    BY <2>1, <2>2, Moved
  <2>4. ~service
    BY <2>1 DEF Service
  <2> QED
    BY <1>3, <2>1, <2>3, <2>4 DEF Service
<1> QED
  BY <1>4, <1>5, <1>6, <1>7, <1>8, <1>9, <1>10, <1>11 DEF ReleaseResource

LEMMA ServiceNext == IInv /\ [Next]_vars => Service'
<1> SUFFICES ASSUME IInv, [Next]_vars PROVE Service'
  OBVIOUS
<1> USE ThreadsDiffer DEF IInv
<1>1. CASE Initialize
  <2>1. \A t \in Threads : at[t] \in {"idle", "out", "wait"}
    BY <1>1 DEF Initialize, Threads
  <2>2. UNCHANGED at \/ Goto(Owner, "sockets")
    BY <1>1 DEF Initialize, Connected, NotConnected
  <2>3. \A t \in Threads : at'[t] \in {"idle", "out", "wait", "sockets"}
    BY <2>1, <2>2, Moved
  <2>4. service' = TRUE /\ io' = "open"
    BY <1>1 DEF Initialize
  <2> QED
    BY <2>3, <2>4 DEF Service
<1>2. ASSUME NEW t \in Threads, Stop(t)
      PROVE  Service'
  <2>1. at[t] \notin Late /\ UNCHANGED <<service, io>> /\ Goto(t, "sockets")
    BY <1>2 DEF Stop, MayCall, InDoData, Late, pointers
  <2>2. t = Runner => InHandler
    BY <1>2 DEF Stop, MayCall, InDoData, InHandler
  <2>3. InHandler' => InHandler
    BY <2>1, <2>2, Moved DEF InHandler
  <2> QED
    BY <2>1, <2>3, ServiceMove DEF Service
<1>3. CASE Start
  <2>1. at[Runner] \notin Late /\ UNCHANGED <<service, io>> /\ Goto(Runner, "run") /\ io # "none"
    BY <1>3 DEF Start, Late, pointers
  <2> QED
    BY <2>1, ServiceMove
<1>4. CASE TakeReceive
  <2>1. at[Runner] \notin Late /\ UNCHANGED <<service, io>> /\ io # "none"
        /\ \E point \in {"data", "last"} : Goto(Runner, point)
    BY <1>4 DEF TakeReceive, InRun, At, Late, pointers
  <2> QED
    BY <2>1, ServiceMove
<1>5. CASE DataDone \/ PostReceive \/ ReleaseHandle
  <2>1. at[Runner] \in {"data", "last", "post", "release"} /\ UNCHANGED <<service, io>>
        /\ \E point \in {"post", "release", "run"} : Goto(Runner, point)
    BY <1>5 DEF DataDone, PostReceive, ReleaseHandle, At, pointers
  <2>2. io # "none"
    BY <2>1 DEF Service, InHandler
  <2>3. at[Runner] \notin Late
    BY <2>1 DEF Late
  <2> QED
    BY <2>1, <2>2, <2>3, ServiceMove
<1>6. CASE Leave
  <2>1. at[Runner] \notin Late /\ UNCHANGED service /\ Goto(Runner, "out") /\ (io' = "none" <=> io = "none")
    BY <1>6 DEF Leave, At, Late, pointers
  <2>2. ~InHandler'
    BY <2>1, Moved DEF InHandler, ReleaseSteps
  <2> QED
    BY <2>1, <2>2, ServiceMove
<1>7. ASSUME NEW w \in Workers, TakeMessage(w) \/ MessageDone(w)
      PROVE  Service'
  <2>1. at[w] \notin Late /\ UNCHANGED <<service, io>> /\ \E point \in {"data", "wait"} : Goto(w, point)
    BY <1>7 DEF TakeMessage, MessageDone, At, Late, pointers
  <2>2. InHandler' => InHandler
    BY <2>1, Moved DEF InHandler
  <2> QED
    BY <2>1, <2>2, ServiceMove DEF Service
<1>8. CASE (\E t \in Threads : Send(t)) \/ Arrive \/ WriteEnds \/ TakeSend \/ UNCHANGED vars
  <2>1. UNCHANGED <<at, service, io>>
    BY <1>8 DEF Send, Arrive, WriteEnds, TakeSend, vars, pointers
  <2> QED
    BY <2>1 DEF Service, InHandler
<1>9. ASSUME NEW t \in Threads, ReleaseResource(t)
      PROVE  Service'
  BY <1>9, ServiceRelease
<1> QED
  BY <1>1, <1>2, <1>3, <1>4, <1>5, <1>6, <1>7, <1>8, <1>9 DEF Next

-----------------------------------------------------------------------------
(* The manager: who has taken the service from its pointer deletes it.     *)
LEMMA ManagerRelease ==
  ASSUME Points, Manager, Service, NEW t \in Threads, ReleaseResource(t)
  PROVE  Manager'
<1> USE ThreadsDiffer
<1>1. manager = "none" => t = Owner
  BY ReleaseMoves DEF Manager, ReleaseSteps, Threads
<1>2. CASE TestSockets(t) \/ ClearAll(t) \/ ResetSockets(t)
  <2>1. at[t] \notin Late /\ UNCHANGED <<service, manager>> /\ \E point : Goto(t, point)
    BY <1>2 DEF TestSockets, ClearAll, ResetSockets, At, Late, pointers
  <2> QED
    BY <1>1, <2>1, ManagerMove
<1>3. CASE TestService(t) \/ StopService(t)
  <2>1. at[t] \notin Late /\ UNCHANGED <<service, manager>> /\ \E point : Goto(t, point)
    BY <1>3 DEF TestService, StopService, At, Late, pointers
  <2> QED
    BY <1>1, <2>1, ManagerMove
<1>4. CASE ResetService(t)
  <2>1. at[t] = "reset" /\ service' = FALSE /\ UNCHANGED manager
        /\ \E point \in {"destroy", "manager"} : Goto(t, point)
    BY <1>4 DEF ResetService, At
  <2>2. at'[t] \in {"destroy", "manager"} /\ \A u \in Threads : u # t => at'[u] = at[u]
    BY <2>1, Moved
  <2>3. manager = "dying" => \E u \in Threads : at'[u] = "dying"
    BY <2>1, <2>2 DEF Manager
  <2>4. manager = "none" => at'[Runner] = "out" /\ \A w \in Workers : at'[w] = "wait"
    BY <1>1, <2>2 DEF Manager
  <2> QED
    BY <2>1, <2>2, <2>3, <2>4 DEF Manager
<1>5. CASE DestroyService(t)
  <2>1. at[t] = "destroy" /\ UNCHANGED <<service, manager>> /\ Goto(t, "manager")
    BY <1>5 DEF DestroyService, At, pointers
  <2>2. at'[t] = "manager" /\ \A u \in Threads : u # t => at'[u] = at[u]
    BY <2>1, Moved
  <2>3. manager = "dying" => \E u \in Threads : at'[u] = "dying"
    BY <2>1, <2>2 DEF Manager
  <2>4. manager = "none" => at'[Runner] = "out" /\ \A w \in Workers : at'[w] = "wait"
    BY <1>1, <2>2 DEF Manager
  <2>5. ~service
    BY <2>1 DEF Service
  <2> QED
    BY <2>1, <2>2, <2>3, <2>4, <2>5 DEF Manager
<1>6. CASE DeleteManager(t)
  <2>1. at[t] = "manager" /\ UNCHANGED service
    BY <1>6 DEF DeleteManager, At, pointers
  <2>2. ~service
    BY <2>1 DEF Service
  <2>3. CASE manager \in {"none", "deleted"} /\ Return(t) /\ UNCHANGED manager
    <3>1. \A u \in Threads : u # t => at'[u] = at[u]
      BY <2>3, Moved DEF Return
    <3>2. manager = "none" => at'[Runner] = "out" /\ \A w \in Workers : at'[w] = "wait"
      BY <1>1, <3>1 DEF Manager
    <3> QED
      BY <2>1, <2>2, <2>3, <3>2 DEF Manager
  <2>4. CASE manager' = "dying" /\ Goto(t, "dying")
    <3>1. at'[t] = "dying"
      BY <2>4, Moved
    <3> QED
      BY <2>1, <2>2, <2>4, <3>1 DEF Manager
  <2>5. CASE UNCHANGED <<at, manager>>
    BY <2>1, <2>5 DEF Manager
  <2> QED
    BY <1>6, <2>3, <2>4, <2>5 DEF DeleteManager
<1>7. CASE ManagerGone(t)
  <2>1. at[t] = "dying" /\ UNCHANGED service /\ manager' = "deleted"
    BY <1>7 DEF ManagerGone, At, pointers
  <2>2. ~service
    BY <2>1 DEF Service
  <2> QED
    BY <2>1, <2>2 DEF Manager
<1> QED
  BY <1>2, <1>3, <1>4, <1>5, <1>6, <1>7 DEF ReleaseResource

LEMMA ManagerNext == IInv /\ [Next]_vars => Manager'
<1> SUFFICES ASSUME IInv, [Next]_vars PROVE Manager'
  OBVIOUS
<1> USE ThreadsDiffer DEF IInv
<1>1. CASE Initialize
  BY <1>1 DEF Initialize, Manager
<1>2. ASSUME NEW t \in Threads, Stop(t)
      PROVE  Manager'
  <2>1. at[t] \notin Late /\ UNCHANGED <<service, manager>> /\ Goto(t, "sockets")
    BY <1>2 DEF Stop, MayCall, InDoData, Late, pointers
  <2>2. manager = "none" => t = Owner
    BY <1>2 DEF Stop, MayCall, InDoData, Manager, Threads
  <2> QED
    BY <2>1, <2>2, ManagerMove
<1>3. CASE Start
  <2>1. at[Runner] \notin Late /\ UNCHANGED <<service, manager>> /\ Goto(Runner, "run") /\ service
    BY <1>3 DEF Start, Late, pointers
  <2>2. manager # "none"
    BY <2>1 DEF Manager
  <2> QED
    BY <2>1, <2>2, ManagerMove
<1>4. CASE TakeReceive \/ DataDone \/ PostReceive \/ ReleaseHandle \/ Leave
  <2>1. at[Runner] \in {"run", "data", "last", "post", "release"} /\ UNCHANGED <<service, manager>>
        /\ \E point : Goto(Runner, point)
    BY <1>4 DEF TakeReceive, InRun, DataDone, PostReceive, ReleaseHandle, Leave, At, pointers
  <2>2. at[Runner] \notin Late
    BY <2>1 DEF Late
  <2>3. manager # "none"
    BY <2>1 DEF Manager
  <2> QED
    BY <2>1, <2>2, <2>3, ManagerMove
<1>5. ASSUME NEW w \in Workers, TakeMessage(w) \/ MessageDone(w)
      PROVE  Manager'
  <2>1. at[w] \notin Late /\ UNCHANGED <<service, manager>> /\ \E point : Goto(w, point)
    BY <1>5 DEF TakeMessage, MessageDone, At, Late, pointers
  <2>2. manager # "none"
    BY <1>5 DEF TakeMessage, MessageDone, At, Manager
  <2> QED
    BY <2>1, <2>2, ManagerMove
<1>6. CASE (\E t \in Threads : Send(t)) \/ Arrive \/ WriteEnds \/ TakeSend \/ UNCHANGED vars
  <2>1. UNCHANGED <<at, service, manager>>
    BY <1>6 DEF Send, Arrive, WriteEnds, TakeSend, vars, pointers
  <2> QED
    BY <2>1 DEF Manager
<1>7. ASSUME NEW t \in Threads, ReleaseResource(t)
      PROVE  Manager'
  BY <1>7, ManagerRelease
<1> QED
  BY <1>1, <1>2, <1>3, <1>4, <1>5, <1>6, <1>7 DEF Next

-----------------------------------------------------------------------------
(* The socket: ClearAll deletes it, and nobody passes ClearAll while there *)
(* is something to clear.                                                  *)
LEMMA SocketRelease ==
  ASSUME Points, SocketKept, DeletedInv, Numbers, NEW t \in Threads, ReleaseResource(t)
  PROVE  SocketKept' /\ DeletedInv'
<1>1. CASE ClearAll(t)
  <2>1. Goto(t, "forget") /\ UNCHANGED <<pointer, pointers>> /\ kept' = FALSE
    BY <1>1 DEF ClearAll, SocketKept
  <2>2. IF kept THEN socket' = "deleted" /\ deletions' = deletions + 1 ELSE UNCHANGED <<socket, deletions>>
    BY <1>1 DEF ClearAll
  <2>3. SocketKept'
    BY <2>1, <2>2 DEF SocketKept
  <2>4. DeletedInv'
    BY <2>1, <2>2 DEF DeletedInv
  <2> QED
    BY <2>3, <2>4
<1>2. CASE TestSockets(t)
  <2>1. UNCHANGED <<connection, pointers>> /\ Goto(t, IF sockets THEN "clear" ELSE "service")
    BY <1>2 DEF TestSockets
  <2>2. UNCHANGED <<sockets, service, kept, deletions>>
    BY <2>1 DEF connection, pointers
  <2>3. SocketKept'
    BY <2>1, <2>2, SocketMove DEF SocketKept, Cleared
  <2> QED
    BY <2>2, <2>3 DEF DeletedInv
<1>3. CASE ResetSockets(t) \/ ResetService(t)
  <2>1. UNCHANGED connection /\ at[t] \in Cleared /\ \E point : Goto(t, point)
    BY <1>3 DEF ResetSockets, ResetService, At, Cleared
  <2>2. ~kept
    BY <2>1 DEF SocketKept
  <2>3. SocketKept'
    BY <2>1, <2>2, SocketMove
  <2> QED
    BY <2>1, <2>3 DEF DeletedInv, connection
<1>4. CASE TestService(t) \/ StopService(t) \/ DestroyService(t)
  <2>1. UNCHANGED connection /\ at[t] \in Cleared /\ \E point : Goto(t, point)
    BY <1>4 DEF TestService, StopService, DestroyService, At, Cleared
  <2>2. ~kept
    BY <2>1 DEF SocketKept
  <2>3. SocketKept'
    BY <2>1, <2>2, SocketMove
  <2> QED
    BY <2>1, <2>3 DEF DeletedInv, connection
<1>5. CASE DeleteManager(t) \/ ManagerGone(t)
  <2>1. UNCHANGED connection /\ at[t] \in Cleared /\ (UNCHANGED at \/ \E point : Goto(t, point))
    BY <1>5 DEF DeleteManager, ManagerGone, Return, At, Cleared
  <2>2. ~kept
    BY <2>1 DEF SocketKept
  <2>3. CASE UNCHANGED at
    BY <2>1, <2>2, <2>3 DEF SocketKept, DeletedInv, connection
  <2>4. CASE \E point : Goto(t, point)
    <3>1. SocketKept'
      BY <2>1, <2>2, <2>4, SocketMove
    <3> QED
      BY <2>1, <3>1 DEF DeletedInv, connection
  <2> QED
    BY <2>1, <2>3, <2>4
<1> QED
  BY <1>1, <1>2, <1>3, <1>4, <1>5 DEF ReleaseResource

LEMMA SocketNext == IInv /\ [Next]_vars => SocketKept' /\ DeletedInv'
<1> SUFFICES ASSUME IInv, [Next]_vars PROVE SocketKept' /\ DeletedInv'
  OBVIOUS
<1> USE ThreadsDiffer DEF IInv
<1>1. CASE Initialize
  <2>1. \A t \in Threads : at[t] \in {"idle", "out", "wait"}
    BY <1>1 DEF Initialize, Threads
  <2>2. UNCHANGED at \/ Goto(Owner, "sockets")
    BY <1>1 DEF Initialize, Connected, NotConnected
  <2>3. \A t \in Threads : at'[t] \notin Cleared
    BY <2>1, <2>2, Moved DEF Cleared
  <2>4. ~kept
    BY <1>1 DEF Initialize, SocketKept
  <2>5. SocketKept'
    BY <1>1, <2>3, <2>4 DEF Initialize, Connected, NotConnected, SocketKept
  <2>6. DeletedInv'
    BY <1>1, <2>4 DEF Initialize, Connected, NotConnected, DeletedInv
  <2> QED
    BY <2>5, <2>6
<1>2. ASSUME NEW t \in Threads, NEW point, Goto(t, point), UNCHANGED <<connection, pointers>>, point \notin Cleared
      PROVE  SocketKept' /\ DeletedInv'
  <2>1. UNCHANGED <<sockets, service, kept, deletions>>
    BY <1>2 DEF connection, pointers
  <2>2. kept => sockets' /\ service'
    BY <2>1 DEF SocketKept
  <2>3. SocketKept'
    BY <1>2, <2>2, SocketMove
  <2> QED
    BY <2>1, <2>3 DEF DeletedInv
<1>3. ASSUME NEW t \in Threads, Stop(t)
      PROVE  SocketKept' /\ DeletedInv'
  BY <1>2, <1>3 DEF Stop, Cleared
<1>4. CASE Start \/ TakeReceive \/ DataDone
  <2>1. UNCHANGED <<connection, pointers>>
        /\ \E point \in {"run", "data", "last", "post", "release"} : Goto(Runner, point)
    BY <1>4 DEF Start, TakeReceive, DataDone
  <2> QED
    BY <1>2, <2>1 DEF Cleared
<1>5. CASE PostReceive \/ ReleaseHandle \/ Leave
  <2>1. UNCHANGED <<connection, pointers>> /\ \E point \in {"release", "run", "out"} : Goto(Runner, point)
    BY <1>5 DEF PostReceive, ReleaseHandle, Leave
  <2> QED
    BY <1>2, <2>1 DEF Cleared
<1>6. ASSUME NEW w \in Workers, TakeMessage(w) \/ MessageDone(w)
      PROVE  SocketKept' /\ DeletedInv'
  <2>1. UNCHANGED <<connection, pointers>> /\ \E point \in {"data", "wait"} : Goto(w, point)
    BY <1>6 DEF TakeMessage, MessageDone
  <2> QED
    BY <1>2, <2>1 DEF Cleared
<1>7. CASE (\E t \in Threads : Send(t)) \/ Arrive \/ WriteEnds \/ TakeSend \/ UNCHANGED vars
  <2>1. UNCHANGED <<at, connection, pointers>>
    BY <1>7 DEF Send, Arrive, WriteEnds, TakeSend, vars
  <2> QED
    BY <2>1 DEF SocketKept, DeletedInv, connection, pointers
<1>8. ASSUME NEW t \in Threads, ReleaseResource(t)
      PROVE  SocketKept' /\ DeletedInv'
  BY <1>8, SocketRelease
<1> QED
  BY <1>1, <1>3, <1>4, <1>5, <1>6, <1>7, <1>8 DEF Next

-----------------------------------------------------------------------------
(* What waits for an io_service has one: without it the socket is gone,    *)
(* and who would use that crashes.                                         *)
LEMMA QuietNext == IInv /\ [Next]_vars => Quiet'
<1> SUFFICES ASSUME IInv, [Next]_vars PROVE Quiet'
  OBVIOUS
<1> USE DEF IInv
<1>0. io = "none" => ~service /\ socket # "open"
  BY DEF Service, SocketKept
<1>1. CASE Initialize
  BY <1>1 DEF Initialize, Quiet
<1>2. ASSUME NEW t \in Threads, Send(t)
      PROVE  Quiet'
  <2>1. PICK h \in SendHandles :
          \/ (GetData(h) \/ PostSendFails(h)) /\ UNCHANGED crashed
          \/ (PostSend(h) \/ PostError(h)) /\ Use
    BY <1>2 DEF Send
  <2>2. UNCHANGED <<io, receive>> /\ ~crashed /\ socket # "none"
    BY <1>2 DEF Send, MayCall, SocketKept
  <2>3. CASE GetData(h) \/ PostSendFails(h)
    <3>1. \A k \in SendHandles : Waits(k)' => Waits(k)
      BY <2>3 DEF GetData, PostSendFails, Move, Waits, Handles
    <3> QED
      BY <2>2, <3>1 DEF Quiet
  <2>4. CASE Use
    BY <1>0, <2>2, <2>4 DEF Use, Quiet, SocketKept, Kinds
  <2> QED
    BY <2>1, <2>3, <2>4
<1>3. ASSUME NEW t \in Threads, ClearAll(t)
      PROVE  Quiet'
  <2>1. UNCHANGED io /\ ~crashed /\ (receive = "none" => receive' = "none")
    BY <1>3 DEF ClearAll, At
  <2>2. \A h \in SendHandles : Waits(h)' => Waits(h)
    BY <1>3, AbortedType DEF ClearAll, Waits, Handles
  <2> QED
    BY <2>1, <2>2 DEF Quiet
<1>4. ASSUME NEW t \in Threads, DestroyService(t)
      PROVE  Quiet'
  BY <1>4, DroppedType DEF DestroyService, Quiet, Handles
<1>5. ASSUME NEW t \in Threads, Stop(t) \/ TestSockets(t) \/ ResetSockets(t) \/ TestService(t)
                                 \/ ResetService(t) \/ DeleteManager(t) \/ ManagerGone(t)
      PROVE  Quiet'
  <2>1. UNCHANGED <<io, receive, place>> /\ ~crashed
    BY <1>5 DEF Stop, MayCall, TestSockets, ResetSockets, TestService, ResetService, DeleteManager, ManagerGone, At
  <2> QED
    BY <2>1 DEF Quiet, Waits
<1>6. CASE (\E t \in Threads : StopService(t)) \/ Leave
  <2>1. UNCHANGED <<receive, place>> /\ ~crashed /\ (io' = "none" => io = "none")
    BY <1>6 DEF StopService, Leave, At
  <2> QED
    BY <2>1 DEF Quiet, Waits
<1>7. CASE Arrive
  <2>1. UNCHANGED io /\ io # "none"
    BY <1>0, <1>7 DEF Arrive
  <2> QED
    BY <2>1 DEF Quiet
<1>8. CASE WriteEnds
  <2>1. PICK h \in SendHandles : Written(h)
    BY <1>8 DEF WriteEnds
  <2>2. Waits(h) /\ UNCHANGED io /\ ~crashed
    BY <1>8, <2>1 DEF WriteEnds, Written, Move, Waits
  <2> QED
    BY <2>2 DEF Quiet
<1>9. CASE TakeReceive \/ TakeSend
  <2>1. UNCHANGED io /\ io # "none"
    BY <1>9 DEF TakeReceive, TakeSend, InRun
  <2> QED
    BY <2>1 DEF Quiet
<1>10. CASE PostReceive
  <2>1. UNCHANGED io /\ io # "none"
    BY <1>10 DEF PostReceive, At, InHandler, Service
  <2> QED
    BY <2>1 DEF Quiet
<1>11. CASE Start \/ DataDone \/ ReleaseHandle \/ (\E w \in Workers : TakeMessage(w) \/ MessageDone(w))
  <2>1. UNCHANGED <<io, receive, place>> /\ ~crashed
    BY <1>11 DEF Start, DataDone, ReleaseHandle, TakeMessage, MessageDone, At
  <2> QED
    BY <2>1 DEF Quiet, Waits
<1>12. CASE UNCHANGED vars
  BY <1>12 DEF vars, Quiet, Waits
<1> QED
  BY <1>1, <1>2, <1>3, <1>4, <1>5, <1>6, <1>7, <1>8, <1>9, <1>10, <1>11, <1>12 DEF Next, ReleaseResource

LEMMA IInvNext == IInv /\ [Next]_vars => IInv'
BY NumbersNext, PointsNext, KindsNext, FlagsNext, RunFlagNext, HandlesNext, ServiceNext, ManagerNext, SocketNext,
   QuietNext DEF IInv

LEMMA Inductive == Spec => []IInv
BY IInvInit, IInvNext, PTL DEF Spec

-----------------------------------------------------------------------------
(* The type invariant.                                                     *)
THEOREM TypeCorrect == Spec => []TypeOK
BY Inductive, Types, PTL DEF IInv

(* Who uses the manager is a handler, and of a handler the service counts  *)
(* the work: a manager that is not alive under a handler means that the    *)
(* pointer to the service is NULL and the service there, so that a Stop is *)
(* waiting to destroy it (Acceptor_Connector_Base.cpp:81-86).              *)
THEOREM ManagerOutlivesHandlers == Spec => []HandlersHaveManager
<1>1. IInv => HandlersHaveManager
  BY DEF IInv, Service, Manager, HandlersHaveManager
<1> QED
  BY <1>1, Inductive, PTL

(* No socket object is deleted twice, however many threads are in Stop.    *)
THEOREM SocketDeletedOnce == Spec => []DeletedOnce
<1>1. IInv => DeletedOnce
  BY DEF IInv, DeletedInv, DeletedOnce
<1> QED
  BY <1>1, Inductive, PTL

(* When Initialize has failed or every Stop has returned, neither socket   *)
(* nor receive, service, manager or write under way is left.               *)
THEOREM StopLeavesNothing == Spec => []NothingLeft
<1>1. IInv => NothingLeft
  <2> SUFFICES ASSUME IInv, ~service, ~crashed, \A t \in Threads : at[t] \notin ReleaseSteps
               PROVE  /\ socket \in {"none", "deleted"}
                      /\ io = "none"
                      /\ receive = "none"
                      /\ manager \notin {"alive", "dying"}
                      /\ \A h \in SendHandles : place[h] \notin {"sending", "written", "aborted"}
    BY DEF NothingLeft
  <2>1. \A t \in Threads : at[t] \notin {"destroy", "manager", "dying"}
    BY DEF ReleaseSteps
  <2>2. io = "none" /\ manager \notin {"alive", "dying"}
    BY <2>1 DEF IInv, Service, Manager
  <2>3. socket \in {"none", "deleted"}
    BY DEF IInv, Kinds, SocketKept
  <2> QED
    BY <2>2, <2>3 DEF IInv, Quiet, Waits
<1> QED
  BY <1>1, Inductive, PTL

(* A Stop in DoData returns with the manager deleted, and on the runner    *)
(* only when another thread waits in its place (Connector.cpp:101-111).    *)
THEOREM StopInDoDataReturnsIntoNothing == Spec => StopInDoData
<1>1. IInv /\ [Next]_vars =>
        [\A t \in Threads \ {Owner} : Returns(t) =>
           /\ manager' = "deleted"
           /\ t = Runner => \E other \in Threads \ {Runner} : at[other] = "destroy"]_vars
  <2> SUFFICES ASSUME IInv, Next, NEW t \in Threads \ {Owner}, Returns(t)
               PROVE  /\ manager' = "deleted"
                      /\ t = Runner => \E other \in Threads \ {Runner} : at[other] = "destroy"
    BY DEF vars
  <2> USE ThreadsDiffer DEF IInv
  <2>1. ASSUME NEW u \in Threads, NEW point, Goto(u, point)
        PROVE  u = t /\ point \notin ReleaseSteps
    BY <2>1, Moved DEF Returns
  <2>2. ~UNCHANGED at
    BY DEF Returns
  <2>3. at[t] \in ReleaseSteps
    BY DEF Returns
  <2>4. DeleteManager(t) \/ ManagerGone(t)
    <3>1. ASSUME NEW u \in Threads, ReleaseResource(u)
          PROVE  DeleteManager(t) \/ ManagerGone(t)
      <4>1. ~TestSockets(u) /\ ~ClearAll(u) /\ ~ResetSockets(u)
        BY <2>1 DEF TestSockets, ClearAll, ResetSockets, ReleaseSteps
      <4>2. ~TestService(u) /\ ~StopService(u) /\ ~ResetService(u) /\ ~DestroyService(u)
        BY <2>1 DEF TestService, StopService, ResetService, DestroyService, ReleaseSteps
      <4>3. u = t
        BY <2>1, <2>2, <3>1, ReleaseMoves DEF Return
      <4> QED
        BY <3>1, <4>1, <4>2, <4>3 DEF ReleaseResource
    <3>2. \A u \in Threads : ~Stop(u) /\ ~Send(u)
      BY <2>1, <2>2 DEF Stop, Send, ReleaseSteps
    <3>3. ~Initialize /\ ~Start /\ ~Arrive /\ ~WriteEnds /\ ~TakeSend
      <4>1. ~Goto(Owner, "sockets")
        BY <2>1 DEF ReleaseSteps
      <4>2. Start => at[Runner] = "out" /\ Goto(Runner, "run")
        BY DEF Start
      <4>3. ~Start
        BY <2>1, <2>3, <4>2 DEF ReleaseSteps
      <4> QED
        BY <2>2, <4>1, <4>3 DEF Initialize, Connected, NotConnected, Arrive, WriteEnds, TakeSend
    <3>4. ~TakeReceive /\ ~DataDone /\ ~PostReceive /\ ~ReleaseHandle /\ ~Leave
      <4>1. at[Runner] \in ReleaseSteps => at[Runner] \notin {"run", "data", "last", "post", "release"}
        BY DEF ReleaseSteps
      <4> QED
        BY <2>1, <2>3, <4>1 DEF TakeReceive, InRun, DataDone, PostReceive, ReleaseHandle, Leave, At
    <3>5. \A w \in Workers : ~TakeMessage(w) /\ ~MessageDone(w)
      <4> SUFFICES ASSUME NEW w \in Workers, TakeMessage(w) \/ MessageDone(w)
                   PROVE  FALSE
        OBVIOUS
      <4>1. at[w] \in {"wait", "data"} /\ \E point : Goto(w, point)
        BY DEF TakeMessage, MessageDone, At
      <4>2. w = t
        BY <2>1, <4>1
      <4> QED
        BY <2>3, <4>1, <4>2 DEF ReleaseSteps
    <3> QED
      BY <3>1, <3>2, <3>3, <3>4, <3>5 DEF Next
  <2>5. at[t] \in {"manager", "dying"}
    BY <2>4 DEF DeleteManager, ManagerGone, At
  <2>6. manager # "none"
    BY <2>5 DEF Manager, Threads
  <2>7. manager' = "deleted"
    <3>1. CASE ManagerGone(t)
      BY <3>1 DEF ManagerGone
    <3>2. CASE DeleteManager(t)
      <4>1. ~Goto(t, "dying")
        BY <2>1 DEF ReleaseSteps
      <4> QED
        BY <2>2, <2>6, <3>2, <4>1 DEF DeleteManager
    <3> QED
      BY <2>4, <3>1, <3>2
  <2>8. ASSUME t = Runner
        PROVE  \E other \in Threads \ {Runner} : at[other] = "destroy"
    <3>1. InHandler
      BY <2>3, <2>8 DEF InHandler
    <3>2. ~service /\ io # "none"
      BY <2>5, <3>1 DEF Service
    <3>3. PICK other \in Threads : at[other] = "destroy"
      BY <3>2 DEF Service
    <3> QED
      BY <2>5, <2>8, <3>3
  <2> QED
    BY <2>7, <2>8
<1> QED
  BY <1>1, Inductive, PTL DEF Spec, StopInDoData
=============================================================================
