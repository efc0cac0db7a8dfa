----------------------------- MODULE ThreadPool -----------------------------
(***************************************************************************)
(* cThreadPool (database/ThreadPool.cpp) with the worker of cSQLPool       *)
(* (database/SQLPool.cpp): callers queue requests, workers wait on         *)
(* _condition with _mutex, the lock of the table, which they do not hold.  *)
(*                                                                         *)
(* boost's shared_mutex (1.57, Windows) is reduced to its exclusive bit:   *)
(* lock waits until it is clear and sets it, unlock clears it, whoever     *)
(* calls.                                                                  *)
(***************************************************************************)
EXTENDS Integers, FiniteSets

CONSTANTS
  Callers,      (* threads that call QueueRequest                          *)
  PoolWorkers,  (* threads of WorkerThread                                 *)
  Requests,     (* requests                                                *)
  NoRequest     (* the NULL that GetData returns                           *)

ASSUME NoRequestAssumption == NoRequest \notin Requests
ASSUME WorkersAssumption == IsFiniteSet(PoolWorkers)

VARIABLES
  table,        (* _data_set                                               *)
  exclusive,    (* the bit of _mutex                                       *)
  waiters,      (* workers entered in _condition and not yet notified      *)
  pc,           (* pc[t]: where thread t is                                *)
  request,      (* request[t]: the request t has in hand                   *)
  exit,         (* _is_exit                                                *)
  over,         (* the program was ended by an exception, or the pool was  *)
                (* destroyed under its threads                             *)
  raced,        (* two threads have been in the table at a time            *)
  missed        (* a request was inserted when no worker was waiting       *)

tpVars == <<table, exclusive, waiters, pc, request, exit, over, raced, missed>>

-----------------------------------------------------------------------------

AllThreads == Callers \cup PoolWorkers

Goto(t, point) == pc' = [pc EXCEPT ![t] = point]

Take(t, r) == request' = [request EXCEPT ![t] = r]

(* Requests nobody has queued yet.                                         *)
New == Requests \ (table \cup {request[t] : t \in AllThreads})

TPInit ==
  /\ table = {}
  /\ exclusive = FALSE
  /\ waiters = {}
  /\ pc = [t \in AllThreads |-> IF t \in Callers THEN "idle" ELSE "loop"]
  /\ request = [t \in AllThreads |-> NoRequest]
  /\ exit = FALSE
  /\ over = FALSE
  /\ raced = FALSE
  /\ missed = FALSE

-----------------------------------------------------------------------------
(* QueueRequest, by a caller or by a worker that got no connection.        *)

Call(c) ==
  /\ pc[c] = "idle"
  /\ \E r \in New : Take(c, r)
  /\ Goto(c, "queue")
  /\ UNCHANGED <<table, exclusive, waiters, exit, over, missed>>

QueueLock(t) ==
  /\ pc[t] = "queue"
  /\ ~exclusive
  /\ exclusive' = TRUE
  /\ Goto(t, "insert")
  /\ UNCHANGED <<table, waiters, request, exit, over, missed>>

(* Bug: the workers are not notified.                                      *)
Notified_None == waiters

Notified == {}

(* The request is inserted and all waiting workers are notified.           *)
Insert(t) ==
  /\ pc[t] = "insert"
  /\ table' = table \cup {request[t]}
  /\ waiters' = Notified
  /\ missed' = (missed \/ waiters = {})
  /\ Goto(t, "inserted")
  /\ UNCHANGED <<exclusive, request, exit, over>>

QueueUnlock(t) ==
  /\ pc[t] = "inserted"
  /\ exclusive' = FALSE
  /\ Take(t, NoRequest)
  /\ Goto(t, IF t \in Callers THEN "idle" ELSE "loop")
  /\ UNCHANGED <<table, waiters, exit, over, missed>>

-----------------------------------------------------------------------------
(* WorkerThread, by worker w.                                              *)

(* while (!_is_exit)                                                       *)
Loop(w) ==
  /\ pc[w] = "loop"
  /\ Goto(w, IF exit THEN "ended" ELSE "wait")
  /\ UNCHANGED <<table, exclusive, waiters, request, exit, over, missed>>

(* _condition.wait(_mutex) enters w among the waiters, ...                 *)
Wait(w) ==
  /\ pc[w] = "wait"
  /\ waiters' = waiters \cup {w}
  /\ Goto(w, "unlock")
  /\ UNCHANGED <<table, exclusive, request, exit, over, missed>>

(* ... unlocks _mutex, ...                                                 *)
WaitUnlock(w) ==
  /\ pc[w] = "unlock"
  /\ exclusive' = FALSE
  /\ Goto(w, "asleep")
  /\ UNCHANGED <<table, waiters, request, exit, over, missed>>

(* ... and, notified, locks it, to return with it locked.                  *)
WaitLock(w) ==
  /\ pc[w] = "asleep"
  /\ w \notin waiters
  /\ ~exclusive
  /\ exclusive' = TRUE
  /\ Goto(w, "get")
  /\ UNCHANGED <<table, waiters, request, exit, over, missed>>

(* GetData locks _mutex, takes a request if there is one, and unlocks.     *)
GetLock(w) ==
  /\ pc[w] = "get"
  /\ ~exclusive
  /\ exclusive' = TRUE
  /\ Goto(w, "erase")
  /\ UNCHANGED <<table, waiters, request, exit, over, missed>>

(* Bug: the request is read and stays in the table.                        *)
Erase_Kept(w) ==
  /\ pc[w] = "erase"
  /\ \/ table = {} /\ Take(w, NoRequest)
     \/ \E r \in table \ {NoRequest} : Take(w, r)
  /\ Goto(w, "erased")
  /\ UNCHANGED <<table, exclusive, waiters, exit, over, missed>>

Erase(w) ==
  /\ pc[w] = "erase"
  /\ \/ table = {} /\ Take(w, NoRequest) /\ UNCHANGED table
     \/ \E r \in table \ {NoRequest} : Take(w, r) /\ table' = table \ {r}
  /\ Goto(w, "erased")
  /\ UNCHANGED <<exclusive, waiters, exit, over, missed>>

(* A NULL found in the table is thrown about, and nothing catches it.      *)
Throw(w) ==
  /\ pc[w] = "erase"
  /\ NoRequest \in table
  /\ table' = table \ {NoRequest}
  /\ over' = TRUE
  /\ UNCHANGED <<exclusive, waiters, pc, request, exit, missed>>

GetUnlock(w) ==
  /\ pc[w] = "erased"
  /\ exclusive' = FALSE
  /\ Goto(w, "connect")
  /\ UNCHANGED <<table, waiters, request, exit, over, missed>>

(* With a connection of the pool the request is forgotten; without one it  *)
(* is queued again, NULL or not.                                           *)
GetConnection(w) ==
  /\ pc[w] = "connect"
  /\ \/ Take(w, NoRequest) /\ Goto(w, "loop")
     \/ Goto(w, "queue") /\ UNCHANGED request
  /\ UNCHANGED <<table, exclusive, waiters, exit, over, missed>>

(* NotifyAllAndClose sets the flag, ...                                    *)
SetExit ==
  /\ exit' = TRUE
  /\ UNCHANGED <<table, exclusive, waiters, pc, request, over, missed>>

(* ... and then notifies; a worker in between may wait after that.         *)
NotifyWaiting ==
  /\ exit
  /\ waiters' = {}
  /\ UNCHANGED <<table, exclusive, pc, request, exit, over, missed>>

(* ~cSQLPool and ~cThreadPool: the workers are told to end and interrupted *)
(* but not waited for; the mutex and the table go at once.                 *)
Destroy ==
  /\ exit' = TRUE
  /\ over' = TRUE
  /\ UNCHANGED <<table, exclusive, waiters, pc, request, missed>>

-----------------------------------------------------------------------------

QueueRequest(t) == QueueLock(t) \/ Insert(t) \/ QueueUnlock(t)

WorkerThread(w) ==
  \/ Loop(w) \/ Wait(w) \/ WaitUnlock(w) \/ WaitLock(w)
  \/ GetLock(w) \/ Erase(w) \/ Throw(w) \/ GetUnlock(w) \/ GetConnection(w)

InTable == {t \in AllThreads : pc[t] \in {"insert", "inserted", "erase", "erased"}}

Thread(t) ==
  /\ ~over
  /\ QueueRequest(t) \/ (t \in PoolWorkers /\ WorkerThread(t))
  /\ raced' = (raced \/ Cardinality(InTable') > 1)

Outside ==
  /\ ~over
  /\ (\E c \in Callers : Call(c)) \/ SetExit \/ NotifyWaiting \/ Destroy
  /\ UNCHANGED raced

TPNext == Outside \/ \E t \in AllThreads : Thread(t)

TPSpec == TPInit /\ [][TPNext]_tpVars

(* Every thread goes on while it can; nothing is assumed of who calls.     *)
TPFairSpec == TPSpec /\ \A t \in AllThreads : WF_tpVars(Thread(t))

-----------------------------------------------------------------------------
(* "Lock, for operations on the table": no two threads change _data_set at *)
(* a time.                                                                 *)
TableLocked == Cardinality(InTable) <= 1

(* Until they do, a request is in one place: in the table or with one      *)
(* thread.  None is handled twice, and only the worker that has it, with a *)
(* connection, forgets it.                                                 *)
With(r) == {t \in AllThreads : request[t] = r /\ pc[t] # "inserted"}

InOnePlace ==
  ~raced => \A r \in Requests :
    Cardinality(With(r)) + (IF r \in table THEN 1 ELSE 0) <= 1

(* Workers that look into the table without being notified once more.      *)
OnTheWay ==
  {w \in PoolWorkers :
     \/ pc[w] \in {"unlock", "asleep"} /\ w \notin waiters
     \/ pc[w] \in {"get", "erase"}}

(* As long as no request was queued when no worker was waiting, there are  *)
(* at least as many workers on their way to the table as requests in it,   *)
(* whatever the lock lets through and however many take at a time.         *)
RequestsHaveTakers == ~missed => Cardinality(table) <= Cardinality(OnTheWay)

(* All threads stand before the lock, and none is left to open it: a       *)
(* worker that came out of wait() with the lock wants it once more.        *)
Stalled ==
  exclusive /\ \A t \in AllThreads : pc[t] \in {"idle", "queue", "asleep", "get", "ended"}

(* Nothing ends it: no thread that calls, no notification, no request.     *)
StallIsForever == [][Stalled => Stalled']_tpVars

(* A worker gets to a queued request, but for two reasons the code has:    *)
(* the threads stall, or the request came when no worker was waiting, for  *)
(* workers wait before they look.  (Or the pool was closed, or ended.)     *)
Took == \E w \in PoolWorkers : pc[w] = "erased" /\ request[w] # NoRequest

Progress == table \cap Requests # {} ~> Took \/ Stalled \/ missed \/ exit \/ over
=============================================================================
