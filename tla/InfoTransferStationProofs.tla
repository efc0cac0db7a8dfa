--------------------- MODULE InfoTransferStationProofs ----------------------
(***************************************************************************)
(* Theorems about InfoTransferStation, for any number of workers, objects  *)
(* and buffers: whatever the mutex does, a reply is handled once and no    *)
(* buffer is lost but by Get; a reply is left in the table for a reason;   *)
(* and how many workers Exit ends.                                         *)
(***************************************************************************)
EXTENDS InfoTransferStation, BoostConditionProofs

Points == {"loop", "wait", "get", "do", "release", "ended"}

Types ==
  /\ place \in [Objects -> {"free", "upper", "database", "ready", "handled"}]
  /\ buffers \in Nat
  /\ leaked \in Nat
  /\ missed \in Nat
  /\ job \in [Workers -> Objects \cup {NoObject}]
  /\ pc \in [Workers -> Points \cup Waiting]
  /\ waiters \subseteq Workers
  /\ slept \subseteq Workers

(* Workers that were not notified have not locked the mutex again.         *)
WaitersAsleep == \A w \in waiters : pc[w] \in {"unlock", "unlockWrite", "open", "asleep"}

(* Only Exit interrupts, and it notifies all workers first.                *)
Exits ==
  /\ exit \in {"no", "flagged", "notified", "deleted"}
  /\ exit # "deleted" => interrupted = {}
  /\ exit \in {"notified", "deleted"} => early \/ slept = Workers

(* What a worker that handles a reply has in hand is its own.              *)
Handles ==
  /\ \A w \in Handling : job[w] \in Objects /\ place[job[w]] = "handled"
  /\ HandledOnce

Taken == Objects \ In("free")

Buffers ==
  /\ IsFiniteSet(Taken)
  /\ BuffersBalanced

Fetching ==
  exit = "no" =>
    /\ IsFiniteSet(In("ready"))
    /\ IsFiniteSet(OnTheWay)
    /\ Cardinality(In("ready")) <= Cardinality(OnTheWay) + missed

Mutex == ~early => CondInv

IInv == Types /\ WaitersAsleep /\ Exits /\ Handles /\ Buffers /\ Fetching /\ Mutex

-----------------------------------------------------------------------------
(* What a step of wait() does to a worker: it enters, or goes on inside,   *)
(* and stays among those that sleep while it was not notified.             *)
Asleep == {"unlock", "unlockWrite", "open", "asleep"}

Enters(w) ==
  /\ pc[w] = "wait"
  /\ pc' = [pc EXCEPT ![w] = "unlock"]
  /\ waiters' = waiters \cup {w}

GoesOn(w) ==
  /\ pc[w] \in Waiting
  /\ \E point \in Waiting \cup {"get"} :
       /\ pc' = [pc EXCEPT ![w] = point]
       /\ w \in waiters => point \in Asleep
  /\ UNCHANGED waiters

LEMMA WaitMoves ==
  ASSUME WaitersAsleep, NEW w \in Workers, WaitStep(w, "get")
  PROVE  Enters(w) \/ GoesOn(w)
<1> USE DEF Enters, GoesOn, Goto, Waiting, Asleep
<1>1. CASE Enter(w)
  BY <1>1 DEF Enter
<1>2. CASE UnlockRead(w)
  BY <1>2 DEF UnlockRead
<1>3. CASE UnlockWrite(w)
  BY <1>3 DEF UnlockWrite
<1>4. CASE Open(w)
  BY <1>4 DEF Open
<1>5. CASE Lock(w, "get")
  BY <1>5 DEF Lock
<1>6. CASE LockWrite(w, "get")
  BY <1>6 DEF LockWrite, WaitersAsleep
<1>7. CASE LockAgain(w)
  BY <1>7 DEF LockAgain
<1>8. CASE LockAgainWrite(w, "get")
  BY <1>8 DEF LockAgainWrite, WaitersAsleep
<1> QED
  BY <1>1, <1>2, <1>3, <1>4, <1>5, <1>6, <1>7, <1>8 DEF WaitStep

-----------------------------------------------------------------------------
LEMMA TypesNext == Types /\ Handles /\ WaitersAsleep /\ [Next]_vars => Types'
<1> SUFFICES ASSUME Types, Handles, WaitersAsleep, [Next]_vars PROVE Types'
  OBVIOUS
<1> USE DEF Types
<1>1. ASSUME NEW o \in Objects, Get(o) \/ SendRequest(o)
      PROVE  Types'
  BY <1>1 DEF Get, SendRequest, Move, pushes, ending, mutex
<1>2. ASSUME NEW o \in Objects, PushData(o)
      PROVE  Types'
  BY <1>2 DEF PushData, Move, ending, mutex
<1>3. CASE GetFails
  BY <1>3 DEF GetFails, pushes, ending, mutex
<1>4. ASSUME NEW w \in Workers, Wait(w)
      PROVE  Types'
  <2>1. Enters(w) \/ GoesOn(w)
    BY <1>4, WaitMoves DEF Wait
  <2>2. slept' \subseteq Workers
    BY <1>4, SleptGrows DEF Wait
  <2>3. pc' \in [Workers -> Points \cup Waiting] /\ waiters' \subseteq Workers
    BY <2>1 DEF Enters, GoesOn, Points, Waiting
  <2> QED
    BY <1>4, <2>2, <2>3 DEF Wait, objects, pushes, ending
<1>5. ASSUME NEW w \in Workers, Loop(w) \/ GetNoData(w) \/ DoData(w) \/ EndInterrupted(w)
      PROVE  Types'
  BY <1>5 DEF Loop, GetNoData, DoData, EndInterrupted, Goto, Points, objects, pushes, ending, mutex
<1>6. ASSUME NEW w \in Workers, GetData(w)
      PROVE  Types'
  <2>1. PICK o \in In("ready") : job' = [job EXCEPT ![w] = o] /\ Move(o, "handled")
    BY <1>6 DEF GetData
  <2> QED
    BY <1>6, <2>1 DEF GetData, In, Move, Goto, Points, pushes, ending, mutex
<1>7. ASSUME NEW w \in Workers, Release(w)
      PROVE  Types'
  <2>1. pc' \in [Workers -> Points \cup Waiting] /\ job' \in [Workers -> Objects \cup {NoObject}]
    BY <1>7 DEF Release, Goto, Points
  <2>2. place' \in [Objects -> {"free", "upper", "database", "ready", "handled"}]
    BY <1>7 DEF Release, Move
  <2>3. buffers' \in Nat
    BY <1>7 DEF Release
  <2> QED
    BY <1>7, <2>1, <2>2, <2>3 DEF Release, pushes, ending, mutex
<1>8. CASE SetExit \/ NotifyAll \/ Delete \/ \E w \in Workers : Interrupt(w)
  BY <1>8 DEF SetExit, NotifyAll, Delete, Interrupt, objects, pushes, ending, mutex
<1>9. CASE UNCHANGED vars
  BY <1>9 DEF vars, objects, pushes, ending, mutex
<1> QED
  BY <1>1, <1>2, <1>3, <1>4, <1>5, <1>6, <1>7, <1>8, <1>9 DEF Next, WorkThread

LEMMA WaitersNext == Types /\ WaitersAsleep /\ [Next]_vars => WaitersAsleep'
<1> SUFFICES ASSUME Types, WaitersAsleep, [Next]_vars PROVE WaitersAsleep'
  OBVIOUS
<1> USE DEF Types, WaitersAsleep
<1>1. ASSUME NEW w \in Workers, Wait(w)
      PROVE  WaitersAsleep'
  BY <1>1, WaitMoves DEF Wait, Enters, GoesOn, Asleep
<1>2. ASSUME NEW w \in Workers,
             Loop(w) \/ GetData(w) \/ GetNoData(w) \/ DoData(w) \/ Release(w) \/ EndInterrupted(w)
      PROVE  WaitersAsleep'
  BY <1>2 DEF Loop, GetData, GetNoData, DoData, Release, EndInterrupted, Goto
<1>3. ASSUME NEW o \in Objects, Get(o) \/ SendRequest(o) \/ PushData(o)
      PROVE  WaitersAsleep'
  BY <1>3 DEF Get, SendRequest, PushData
<1>4. CASE GetFails \/ SetExit \/ NotifyAll \/ Delete \/ (\E w \in Workers : Interrupt(w)) \/ UNCHANGED vars
  BY <1>4 DEF GetFails, SetExit, NotifyAll, Delete, Interrupt, vars
<1> QED
  BY <1>1, <1>2, <1>3, <1>4 DEF Next, WorkThread

LEMMA ExitsNext == Types /\ Exits /\ [Next]_vars => Exits'
<1> SUFFICES ASSUME Types, Exits, [Next]_vars PROVE Exits'
  OBVIOUS
<1> USE DEF Types, Exits
<1>1. ASSUME NEW w \in Workers, Wait(w)
      PROVE  Exits'
  BY <1>1, SleptGrows DEF Wait, pushes, ending
<1>2. ASSUME NEW w \in Workers, Loop(w) \/ GetData(w) \/ GetNoData(w) \/ DoData(w) \/ Release(w)
                               \/ EndInterrupted(w) \/ Interrupt(w)
      PROVE  Exits'
  BY <1>2 DEF Loop, GetData, GetNoData, DoData, Release, EndInterrupted, Interrupt, pushes, ending, mutex
<1>3. ASSUME NEW o \in Objects, Get(o) \/ SendRequest(o) \/ PushData(o)
      PROVE  Exits'
  BY <1>3 DEF Get, SendRequest, PushData, pushes, ending, mutex
<1>4. CASE GetFails \/ SetExit \/ NotifyAll \/ Delete \/ UNCHANGED vars
  BY <1>4 DEF GetFails, SetExit, NotifyAll, Delete, vars, pushes, ending, mutex
<1> QED
  BY <1>1, <1>2, <1>3, <1>4 DEF Next, WorkThread

LEMMA MutexNext == Types /\ Exits /\ Mutex /\ [Next]_vars => Mutex'
<1> SUFFICES ASSUME Types, Exits, Mutex, [Next]_vars PROVE Mutex'
  OBVIOUS
<1> USE DEF Mutex
<1>1. ASSUME NEW w \in Workers, Wait(w)
      PROVE  Mutex'
  BY <1>1, CondInvWait DEF Wait, pushes, Waiting
<1>2. ASSUME NEW w \in Workers,
             Loop(w) \/ GetData(w) \/ GetNoData(w) \/ DoData(w) \/ Release(w) \/ EndInterrupted(w)
      PROVE  Mutex'
  <2>1. UNCHANGED <<waiters, mutex, early>> /\ pc[w] \notin Waiting /\ \E point \in Points : Goto(w, point)
    BY <1>2 DEF Loop, GetData, GetNoData, DoData, Release, EndInterrupted, pushes, Waiting, Points
  <2>2. \A point \in Points : point \notin Waiting
    BY DEF Points, Waiting
  <2> QED
    BY <2>1, <2>2, CondInvGoto
<1>3. CASE NotifyAll \/ \E o \in Objects : PushData(o)
  <2>1. UNCHANGED <<pc, mutex>> /\ waiters' \subseteq waiters /\ early' = (early \/ slept # Workers)
    BY <1>3 DEF NotifyAll, PushData
  <2> QED
    BY <2>1, CondInvNotify
<1>4. ASSUME NEW w \in Workers, Interrupt(w)
      PROVE  Mutex'
  <2>1. UNCHANGED <<pc, mutex, early>> /\ waiters' \subseteq waiters /\ interrupted # {}
    BY <1>4 DEF Interrupt, pushes
  <2>2. early \/ slept = Workers
    BY <2>1 DEF Exits
  <2> QED
    BY <2>1, <2>2, CondInvNotify
<1>5. CASE GetFails \/ SetExit \/ Delete \/ (\E o \in Objects : Get(o) \/ SendRequest(o)) \/ UNCHANGED vars
  <2>1. UNCHANGED <<pc, waiters, mutex, early>>
    BY <1>5 DEF GetFails, SetExit, Delete, Get, SendRequest, vars, pushes
  <2> QED
    BY <2>1, CondInvStays
<1> QED
  BY <1>1, <1>2, <1>3, <1>4, <1>5 DEF Next, WorkThread

-----------------------------------------------------------------------------
(* Steps outside of DoData and Release leave the handling workers alone.   *)
LEMMA HandlingStays ==
  ASSUME Types, NEW w \in Workers, NEW point, point \notin {"do", "release"}, pc[w] \notin {"do", "release"},
         Goto(w, point)
  PROVE  Handling' = Handling
BY DEF Types, Handling, Goto

LEMMA HandlesStays ==
  ASSUME Handles, UNCHANGED job, Handling' = Handling,
         \A o \in Objects : (place[o] = "handled") = (place'[o] = "handled")
  PROVE  Handles'
<1>1. In("handled")' = In("handled")
  BY DEF In
<1> QED
  BY <1>1 DEF Handles, HandledOnce

LEMMA HandlesNext == Types /\ WaitersAsleep /\ Handles /\ [Next]_vars => Handles'
<1> SUFFICES ASSUME Types, WaitersAsleep, Handles, [Next]_vars PROVE Handles'
  OBVIOUS
<1>1. ASSUME NEW o \in Objects, Get(o) \/ SendRequest(o) \/ PushData(o)
      PROVE  Handles'
  <2>1. UNCHANGED <<job, pc>> /\ place[o] # "handled"
        /\ \E where \in {"upper", "database", "ready"} : Move(o, where)
    BY <1>1 DEF Get, SendRequest, PushData
  <2>2. Handling' = Handling
    BY <2>1 DEF Handling
  <2>3. \A p \in Objects : (place[p] = "handled") = (place'[p] = "handled")
    BY <2>1 DEF Move, Types
  <2> QED
    BY <2>1, <2>2, <2>3, HandlesStays
<1>2. CASE GetFails \/ SetExit \/ NotifyAll \/ Delete \/ (\E w \in Workers : Interrupt(w)) \/ UNCHANGED vars
  <2>1. UNCHANGED <<job, pc, place>>
    BY <1>2 DEF GetFails, SetExit, NotifyAll, Delete, Interrupt, vars, objects
  <2>2. Handling' = Handling
    BY <2>1 DEF Handling
  <2> QED
    BY <2>1, <2>2, HandlesStays
<1>3. ASSUME NEW w \in Workers, Wait(w)
      PROVE  Handles'
  <2>1. UNCHANGED <<job, place>> /\ pc[w] \notin {"do", "release"}
        /\ \E point \in Waiting \cup {"get"} : Goto(w, point)
    BY <1>3, WaitMoves DEF Wait, objects, Enters, GoesOn, Goto, Waiting
  <2>2. Handling' = Handling
    BY <2>1, HandlingStays DEF Waiting
  <2> QED
    BY <2>1, <2>2, HandlesStays
<1>4. ASSUME NEW w \in Workers, Loop(w) \/ GetNoData(w) \/ EndInterrupted(w)
      PROVE  Handles'
  <2>1. UNCHANGED <<job, place>> /\ pc[w] \notin {"do", "release"}
        /\ \E point \in {"wait", "ended", "loop"} : Goto(w, point)
    BY <1>4 DEF Loop, GetNoData, EndInterrupted, objects
  <2>2. Handling' = Handling
    BY <2>1, HandlingStays
  <2> QED
    BY <2>1, <2>2, HandlesStays
<1>5. ASSUME NEW w \in Workers, DoData(w)
      PROVE  Handles'
  <2>1. Handling' = Handling
    BY <1>5 DEF DoData, Goto, Handling, Types
  <2> QED
    BY <1>5, <2>1, HandlesStays DEF DoData, objects
<1>6. ASSUME NEW w \in Workers, GetData(w)
      PROVE  Handles'
  <2>1. PICK o \in Objects : place[o] = "ready" /\ job' = [job EXCEPT ![w] = o] /\ Move(o, "handled")
    BY <1>6 DEF GetData, In
  <2>2. Handling' = Handling \cup {w} /\ w \notin Handling
    BY <1>6 DEF GetData, Goto, Handling, Types
  <2>3. \A v \in Handling : job'[v] = job[v] /\ job[v] # o /\ place'[job[v]] = "handled"
    BY <2>1, <2>2 DEF Handles, Move, Types, Handling
  <2>4. job'[w] = o /\ place'[o] = "handled"
    BY <2>1 DEF Move, Types
  <2>5. In("handled")' = In("handled") \cup {o}
    BY <2>1 DEF In, Move, Types
  <2>6. \A v \in Handling' : job'[v] \in Objects /\ place'[job'[v]] = "handled"
    BY <2>2, <2>3, <2>4 DEF Handles
  <2>7. \A u, v \in Handling' : job'[u] = job'[v] => v = u
    BY <2>2, <2>3, <2>4 DEF Handles, HandledOnce
  <2>8. {job'[v] : v \in Handling'} = {job[v] : v \in Handling} \cup {o}
    BY <2>2, <2>3, <2>4
  <2> QED
    BY <2>5, <2>6, <2>7, <2>8 DEF Handles, HandledOnce
<1>7. ASSUME NEW w \in Workers, Release(w)
      PROVE  Handles'
  <2>1. w \in Handling /\ Handling' = Handling \ {w}
    BY <1>7 DEF Release, Goto, Handling, Types
  <2>2. job[w] \in Objects /\ place' = [place EXCEPT ![job[w]] = "free"]
    BY <1>7, <2>1 DEF Release, Move, Handles
  <2>3. \A v \in Handling' : job'[v] = job[v] /\ job[v] # job[w] /\ place'[job[v]] = "handled"
    BY <1>7, <2>1, <2>2 DEF Release, Handles, HandledOnce, Types, Handling
  <2>4. In("handled")' = In("handled") \ {job[w]}
    BY <2>2 DEF In, Types
  <2>5. \A v \in Handling' : job'[v] \in Objects /\ place'[job'[v]] = "handled"
    BY <2>1, <2>3 DEF Handles
  <2>6. \A u, v \in Handling' : job'[u] = job'[v] => v = u
    BY <2>1, <2>3 DEF Handles, HandledOnce
  <2>7. {job'[v] : v \in Handling'} = {job[v] : v \in Handling} \ {job[w]}
    BY <2>1, <2>3
  <2> QED
    BY <2>4, <2>5, <2>6, <2>7 DEF Handles, HandledOnce
<1> QED
  BY <1>1, <1>2, <1>3, <1>4, <1>5, <1>6, <1>7 DEF Next, WorkThread

-----------------------------------------------------------------------------
(* A buffer for every object that is not in its pool.                      *)
LEMMA TakenStays ==
  ASSUME \A o \in Objects : (place[o] = "free") = (place'[o] = "free")
  PROVE  Taken' = Taken
BY DEF Taken, In

LEMMA BuffersStay ==
  ASSUME Buffers, UNCHANGED <<buffers, leaked>>,
         \A o \in Objects : (place[o] = "free") = (place'[o] = "free")
  PROVE  Buffers'
BY TakenStays DEF Buffers, BuffersBalanced, Taken

LEMMA BuffersNext == Types /\ Handles /\ Buffers /\ [Next]_vars => Buffers'
<1> SUFFICES ASSUME Types, Handles, Buffers, [Next]_vars PROVE Buffers'
  OBVIOUS
<1>0. /\ Cardinality(Taken) \in Nat /\ BufferCount \in Nat /\ buffers \in Nat /\ leaked \in Nat
      /\ buffers + leaked + Cardinality(Taken) = BufferCount
  BY FS_CardinalityType, CountsAssumption DEF Buffers, BuffersBalanced, Taken, Types
<1>1. ASSUME NEW o \in Objects, Get(o)
      PROVE  Buffers'
  <2>1. Taken' = Taken \cup {o} /\ o \notin Taken
    BY <1>1 DEF Get, Taken, In, Move, Types
  <2>2. IsFiniteSet(Taken') /\ Cardinality(Taken') = Cardinality(Taken) + 1
    BY <2>1, FS_AddElement DEF Buffers
  <2>3. buffers' + leaked' + Cardinality(Taken') = BufferCount
    BY <1>0, <1>1, <2>2 DEF Get
  <2> QED
    BY <2>2, <2>3 DEF Buffers, BuffersBalanced, Taken
<1>2. CASE GetFails
  <2>1. Taken' = Taken
    BY <1>2 DEF GetFails, Taken, In
  <2>2. buffers' + leaked' + Cardinality(Taken') = BufferCount
    BY <1>0, <1>2, <2>1 DEF GetFails
  <2> QED
    BY <2>1, <2>2 DEF Buffers, BuffersBalanced, Taken
<1>3. ASSUME NEW w \in Workers, Release(w)
      PROVE  Buffers'
  <2>1. job[w] \in Objects /\ place[job[w]] = "handled"
    BY <1>3 DEF Release, Handles, Handling
  <2>2. Taken' = Taken \ {job[w]} /\ job[w] \in Taken
    BY <1>3, <2>1 DEF Release, Taken, In, Move, Types
  <2>3. IsFiniteSet(Taken') /\ Cardinality(Taken') = Cardinality(Taken) - 1
    BY <2>2, FS_RemoveElement DEF Buffers
  <2>4. buffers' + leaked' + Cardinality(Taken') = BufferCount
    BY <1>0, <1>3, <2>3 DEF Release
  <2> QED
    BY <2>3, <2>4 DEF Buffers, BuffersBalanced, Taken
<1>4. ASSUME NEW o \in Objects, SendRequest(o) \/ PushData(o)
      PROVE  Buffers'
  BY <1>4, BuffersStay DEF SendRequest, PushData, Move, Types
<1>5. ASSUME NEW w \in Workers, GetData(w)
      PROVE  Buffers'
  BY <1>5, BuffersStay DEF GetData, In, Move, Types
<1>6. ASSUME NEW w \in Workers,
             Loop(w) \/ Wait(w) \/ GetNoData(w) \/ DoData(w) \/ EndInterrupted(w) \/ Interrupt(w)
      PROVE  Buffers'
  BY <1>6, BuffersStay DEF Loop, Wait, GetNoData, DoData, EndInterrupted, Interrupt, objects
<1>7. CASE SetExit \/ NotifyAll \/ Delete \/ UNCHANGED vars
  BY <1>7, BuffersStay DEF SetExit, NotifyAll, Delete, vars, objects
<1> QED
  BY <1>1, <1>2, <1>3, <1>4, <1>5, <1>6, <1>7 DEF Next, WorkThread

-----------------------------------------------------------------------------
(* A reply in the table, a worker on its way or a push that was missed.    *)
LEMMA FetchingStays ==
  ASSUME Fetching, exit = "no", UNCHANGED missed, OnTheWay' = OnTheWay,
         \A o \in Objects : (place[o] = "ready") = (place'[o] = "ready")
  PROVE  Fetching'
<1>1. In("ready")' = In("ready")
  BY DEF In
<1> QED
  BY <1>1 DEF Fetching

(* A worker that enters wait(), goes on in it or runs without having been  *)
(* in it is no more and no less on its way.                                *)
LEMMA OnTheWayStays ==
  ASSUME Types, NEW w \in Workers,
         \/ Enters(w) \/ GoesOn(w)
         \/ /\ pc[w] \notin Waiting \cup {"get"}
            /\ UNCHANGED waiters
            /\ \E point \in Points \ {"get"} : Goto(w, point)
  PROVE  OnTheWay' = OnTheWay
<1> USE DEF Types, OnTheWay
<1>1. CASE Enters(w)
  BY <1>1 DEF Enters, Waiting
<1>2. CASE GoesOn(w)
  BY <1>2 DEF GoesOn
<1>3. CASE /\ pc[w] \notin Waiting \cup {"get"}
           /\ UNCHANGED waiters
           /\ \E point \in Points \ {"get"} : Goto(w, point)
  <2>1. \A point \in Points : point \notin Waiting
    BY DEF Points, Waiting
  <2> QED
    BY <1>3, <2>1 DEF Goto
<1> QED
  BY <1>1, <1>2, <1>3

LEMMA FetchingNext ==
  Types /\ WaitersAsleep /\ Exits /\ Handles /\ Fetching /\ [Next]_vars => Fetching'
<1> SUFFICES ASSUME Types, WaitersAsleep, Exits, Handles, Fetching, [Next]_vars, exit' = "no"
             PROVE  Fetching'
  BY DEF Fetching
<1>open. exit = "no" /\ interrupted = {}
  BY DEF Next, WorkThread, Get, SendRequest, PushData, GetFails, Loop, Wait, GetData, GetNoData, DoData,
     Release, Interrupt, EndInterrupted, SetExit, NotifyAll, Delete, vars, ending, Exits
<1>counts. /\ Cardinality(In("ready")) \in Nat /\ Cardinality(OnTheWay) \in Nat /\ missed \in Nat
      /\ IsFiniteSet(In("ready")) /\ IsFiniteSet(OnTheWay)
  BY <1>open, FS_CardinalityType DEF Fetching, Types
<1>1. ASSUME NEW o \in Objects, PushData(o)
      PROVE  Fetching'
  <2>1. In("ready")' = In("ready") \cup {o} /\ o \notin In("ready")
    BY <1>1 DEF PushData, Move, In, Types
  <2>2. IsFiniteSet(In("ready")') /\ Cardinality(In("ready")') = Cardinality(In("ready")) + 1
    BY <1>counts, <2>1, FS_AddElement
  <2>3. CASE UNCHANGED waiters /\ missed' = missed + 1
    <3>1. OnTheWay' = OnTheWay 
      BY <1>1, <2>3 DEF PushData, OnTheWay
    <3> QED
      BY <1>counts, <1>open, <2>2, <2>3, <3>1 DEF Fetching
  <2>4. ASSUME NEW w \in waiters, waiters' = waiters \ {w}, UNCHANGED missed
        PROVE  Fetching'
    <3>1. OnTheWay' = OnTheWay \cup {w} /\ w \notin OnTheWay 
      BY <1>1, <2>4 DEF PushData, OnTheWay, WaitersAsleep, Waiting, Types
    <3>2. IsFiniteSet(OnTheWay') /\ Cardinality(OnTheWay') = Cardinality(OnTheWay) + 1
      BY <1>counts, <3>1, FS_AddElement
    <3> QED
      BY <1>counts, <1>open, <2>2, <2>4, <3>1, <3>2 DEF Fetching
  <2> QED
    BY <1>1, <2>3, <2>4 DEF PushData
<1>2. ASSUME NEW w \in Workers, GetData(w)
      PROVE  Fetching'
  <2>1. PICK o \in In("ready") : Move(o, "handled")
    BY <1>2 DEF GetData
  <2>2. In("ready")' = In("ready") \ {o}
    BY <2>1 DEF Move, In, Types
  <2>3. IsFiniteSet(In("ready")') /\ Cardinality(In("ready")') = Cardinality(In("ready")) - 1
    BY <1>counts, <2>1, <2>2, FS_RemoveElement
  <2>4. OnTheWay' = OnTheWay \ {w} /\ w \in OnTheWay
    BY <1>2 DEF GetData, Goto, OnTheWay, WaitersAsleep, Waiting, Types
  <2>5. IsFiniteSet(OnTheWay') /\ Cardinality(OnTheWay') = Cardinality(OnTheWay) - 1
    BY <1>counts, <2>4, FS_RemoveElement
  <2> QED
    BY <1>counts, <1>open, <1>2, <2>3, <2>5 DEF GetData, pushes, Fetching, Backlog
<1>3. ASSUME NEW w \in Workers, GetNoData(w)
      PROVE  Fetching'
  <2>1. In("ready")' = {} /\ UNCHANGED missed
    BY <1>3 DEF GetNoData, objects, pushes, In
  <2>2. OnTheWay' = OnTheWay \ {w}
    BY <1>3 DEF GetNoData, Goto, OnTheWay, Waiting, Types
  <2>3. IsFiniteSet(OnTheWay') /\ Cardinality(OnTheWay') \in Nat
    BY <1>counts, <2>2, FS_RemoveElement, FS_CardinalityType
  <2>4. IsFiniteSet(In("ready")') /\ Cardinality(In("ready")') = 0
    BY <2>1, FS_EmptySet
  <2> QED
    BY <1>counts, <1>open, <2>1, <2>3, <2>4 DEF Fetching
<1>4. \A w \in Workers : ~EndInterrupted(w) /\ ~Interrupt(w)
  BY <1>open DEF EndInterrupted, Interrupt
<1>5. ~NotifyAll /\ ~SetExit /\ ~Delete
  BY DEF NotifyAll, SetExit, Delete
<1>6. ASSUME NEW w \in Workers, Wait(w) \/ Loop(w) \/ DoData(w)
      PROVE  Fetching'
  <2>1. UNCHANGED <<missed, place>>
    BY <1>6 DEF Wait, Loop, DoData, pushes, objects
  <2>2. OnTheWay' = OnTheWay
    <3>1. CASE Wait(w)
      BY <3>1, WaitMoves, OnTheWayStays DEF Wait
    <3>2. CASE ~Wait(w)
      BY <1>6, <3>2, OnTheWayStays DEF Loop, DoData, Goto, Points, Waiting
    <3> QED
      BY <3>1, <3>2
  <2> QED
    BY <1>open, <2>1, <2>2, FetchingStays
<1>7. ASSUME NEW w \in Workers, Release(w)
      PROVE  Fetching'
  <2>1. UNCHANGED missed /\ OnTheWay' = OnTheWay
    BY <1>7, OnTheWayStays DEF Release, pushes, Goto, Points, Waiting
  <2>2. place' = [place EXCEPT ![job[w]] = "free"] /\ job[w] \in Objects /\ place[job[w]] = "handled"
    BY <1>7 DEF Release, Move, Handles, Handling
  <2>3. \A o \in Objects : (place[o] = "ready") = (place'[o] = "ready")
    BY <2>2 DEF Types
  <2> QED
    BY <1>open, <2>1, <2>3, FetchingStays
<1>8. ASSUME NEW o \in Objects, Get(o) \/ SendRequest(o)
      PROVE  Fetching'
  <2>1. UNCHANGED <<missed, pc, waiters>> /\ place[o] # "ready"
        /\ \E where \in {"upper", "database"} : Move(o, where)
    BY <1>8 DEF Get, SendRequest, pushes
  <2>2. OnTheWay' = OnTheWay
    BY <2>1 DEF OnTheWay
  <2>3. \A p \in Objects : (place[p] = "ready") = (place'[p] = "ready")
    BY <2>1 DEF Move, Types
  <2> QED
    BY <1>open, <2>1, <2>2, <2>3, FetchingStays
<1>9. CASE GetFails \/ UNCHANGED vars
  <2>1. UNCHANGED <<missed, pc, waiters, place>>
    BY <1>9 DEF GetFails, vars, pushes, objects
  <2>2. OnTheWay' = OnTheWay
    BY <2>1 DEF OnTheWay
  <2> QED
    BY <1>open, <2>1, <2>2, FetchingStays
<1> QED
  BY <1>1, <1>2, <1>3, <1>4, <1>5, <1>6, <1>7, <1>8, <1>9 DEF Next, WorkThread

-----------------------------------------------------------------------------
LEMMA IInvInit == Init => IInv
<1> SUFFICES ASSUME Init PROVE IInv
  OBVIOUS
<1>1. Types
  BY CountsAssumption DEF Init, CondInit, Types, Points
<1>2. WaitersAsleep /\ Exits
  BY DEF Init, CondInit, WaitersAsleep, Exits
<1>3. Handles
  BY DEF Init, Handles, HandledOnce, Handling, In
<1>4. Buffers
  <2>1. Taken = {}
    BY DEF Init, Taken, In
  <2> QED
    BY <2>1, FS_EmptySet, CountsAssumption DEF Init, Buffers, BuffersBalanced, Taken
<1>5. Fetching
  <2>1. In("ready") = {} /\ OnTheWay = {}
    BY DEF Init, In, OnTheWay, Waiting
  <2> QED
    BY <2>1, FS_EmptySet DEF Init, Fetching
<1>6. Mutex
  BY CondInvInit DEF Init, Mutex, Waiting
<1> QED
  BY <1>1, <1>2, <1>3, <1>4, <1>5, <1>6 DEF IInv

LEMMA Inductive == Spec => []IInv
<1>1. IInv /\ [Next]_vars => IInv'
  BY TypesNext, WaitersNext, ExitsNext, HandlesNext, BuffersNext, FetchingNext, MutexNext DEF IInv
<1> QED
  BY <1>1, IInvInit, PTL DEF Spec

(* A reply is handled by one worker, and freed by it alone, though the     *)
(* mutex may let any number of workers run at once.                        *)
THEOREM RepliesHandledOnce == Spec => []HandledOnce
<1>1. IInv => HandledOnce
  BY DEF IInv, Handles
<1> QED
  BY <1>1, Inductive, PTL

(* No buffer is lost but the ones Get takes for an object it does not get. *)
THEOREM NoBufferLost == Spec => []BuffersBalanced
<1>1. IInv => BuffersBalanced
  BY DEF IInv, Buffers
<1> QED
  BY <1>1, Inductive, PTL

(* A reply stays in the table while a worker is on its way to fetch one,   *)
(* or because it came when no worker was waiting.                          *)
THEOREM RepliesWaitForAReason == Spec => []Backlog
<1>1. IInv => Backlog
  BY DEF IInv, Fetching, Backlog
<1> QED
  BY <1>1, Inductive, PTL

(* If no reply and no Exit came before all workers slept, one of them at   *)
(* most ever ends.                                                         *)
THEOREM ExitEndsOne == Spec => []OneLeaves
<1>1. IInv => OneLeaves
  <2> SUFFICES ASSUME CondInv, slept = Workers
               PROVE  Cardinality({w \in Workers : pc[w] = "ended"}) <= 1
    BY DEF IInv, Mutex, OneLeaves
  <2>1. {w \in Workers : pc[w] = "ended"} \in SUBSET {w \in Workers : pc[w] # "asleep"}
    OBVIOUS
  <2> QED
    BY <2>1, OneAtATime
<1> QED
  BY <1>1, Inductive, PTL

(* Worker v ended and all others stand in wait().                          *)
LastOut(v) ==
  slept = Workers /\ ~early /\ pc[v] = "ended" /\ \A w \in Workers \ {v} : pc[w] = "asleep"

(* And there they stay: the first worker to end, by Exit's flag or by an   *)
(* interruption, is the only one, and the others never get out of wait()   *)
(* to handle what is in the table or to end, notified or not.              *)
THEOREM OthersStayInWait ==
  Spec => /\ [](\A v \in Workers : slept = Workers /\ ~early /\ pc[v] = "ended" => LastOut(v))
          /\ [][\A v \in Workers : LastOut(v) => LastOut(v)' /\ UNCHANGED <<job, mutex>>]_vars
<1>1. ASSUME IInv, NEW v \in Workers, slept = Workers, ~early, pc[v] = "ended"
      PROVE  LastOut(v)
  BY <1>1, EndedKeepsMutex DEF IInv, Mutex, LastOut
<1>2. ASSUME IInv, [Next]_vars, NEW v \in Workers, LastOut(v)
      PROVE  LastOut(v)' /\ UNCHANGED <<job, mutex>>
  <2> USE <1>2
  <2>1. \A w \in Workers : \A back : ~WaitStep(w, back)
    BY EndedKeepsMutex DEF IInv, Mutex, LastOut
  <2>2. \A w \in Workers : pc[w] \in {"asleep", "ended"}
    BY DEF LastOut
  <2>3. ASSUME NEW w \in Workers, WorkThread(w)
        PROVE  Interrupt(w)
    BY <2>1, <2>2, <2>3 DEF WorkThread, Loop, Wait, GetData, GetNoData, DoData, Release, EndInterrupted
  <2>4. slept = Workers /\ ~early
    BY DEF LastOut
  <2>5. ASSUME NEW o \in Objects, PushData(o)
        PROVE  LastOut(v)' /\ UNCHANGED <<job, mutex>>
    BY <2>4, <2>5 DEF PushData, LastOut, mutex
  <2>6. ASSUME NEW o \in Objects, Get(o) \/ SendRequest(o)
        PROVE  LastOut(v)' /\ UNCHANGED <<job, mutex>>
    BY <2>4, <2>6 DEF Get, SendRequest, pushes, LastOut, mutex
  <2>7. CASE GetFails \/ SetExit \/ Delete \/ UNCHANGED vars
    BY <2>4, <2>7 DEF GetFails, SetExit, Delete, vars, pushes, LastOut, mutex
  <2>8. CASE NotifyAll
    BY <2>4, <2>8 DEF NotifyAll, LastOut, mutex
  <2>9. ASSUME NEW w \in Workers, Interrupt(w)
        PROVE  LastOut(v)' /\ UNCHANGED <<job, mutex>>
    BY <2>4, <2>9 DEF Interrupt, pushes, LastOut, mutex
  <2> QED
    BY <2>3, <2>5, <2>6, <2>7, <2>8, <2>9 DEF Next
<1>3. IInv => \A v \in Workers : slept = Workers /\ ~early /\ pc[v] = "ended" => LastOut(v)
  BY <1>1
<1>4. IInv /\ [Next]_vars => \A v \in Workers : LastOut(v) => LastOut(v)' /\ UNCHANGED <<job, mutex>>
  BY <1>2
<1> QED
  BY <1>3, <1>4, Inductive, PTL DEF Spec
=============================================================================
