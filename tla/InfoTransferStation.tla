------------------------ MODULE InfoTransferStation ------------------------
(***************************************************************************)
(* InfoTransferStation (infoTransferStation/InfoTransferStation.h, .cpp):  *)
(* the upper layer gets a data object, sends it to the database as a       *)
(* request, the database layer pushes it back when it is executed, and a   *)
(* worker thread takes it out of _data_set, handles it in DoData and       *)
(* releases it; Exit ends all that.                                        *)
(*                                                                         *)
(* What the database does between QueueRequest and PushData_db_to_me is    *)
(* up to the class derived from cSQLPool and left open here.               *)
(***************************************************************************)
EXTENDS BoostCondition, FiniteSets

CONSTANTS
  Objects,      (* PerhandleDataDB objects memory allows                   *)
  NoObject,     (* the NULL pointer                                        *)
  BufferCount,  (* buffers memory allows                                   *)
  MaxMissed     (* bound: pushes that find no worker waiting               *)

ASSUME ObjectAssumption == NoObject \notin Objects
ASSUME CountsAssumption == BufferCount \in Nat /\ MaxMissed \in Nat

VARIABLES
  place,        (* place[o]: free (in its pool), upper (layer), database,  *)
                (* ready (in _data_set) or handled (by a worker)           *)
  buffers,      (* buffers left in _buffer_pool                            *)
  leaked,       (* buffers Get took for an object it did not get           *)
  job,          (* job[w]: tmpData                                         *)
  missed,       (* pushes whose notify_one reached nobody                  *)
  early,        (* workers were notified before all of them had slept once *)
  exit,         (* how far Exit has come: no, flagged, notified, deleted   *)
  interrupted   (* workers that were interrupted in wait()                 *)

objects == <<place, buffers, leaked>>
pushes  == <<missed, early>>
ending  == <<exit, interrupted>>
vars    == <<objects, job, pushes, ending, pc, waiters, mutex>>

-----------------------------------------------------------------------------

In(where) == {o \in Objects : place[o] = where}

Move(o, where) == place' = [place EXCEPT ![o] = where]

Init ==
  /\ place = [o \in Objects |-> "free"]
  /\ buffers = BufferCount
  /\ leaked = 0
  /\ job = [w \in Workers |-> NoObject]
  /\ missed = 0
  /\ early = FALSE
  /\ exit = "no"
  /\ interrupted = {}
  /\ pc = [w \in Workers |-> "loop"]
  /\ CondInit

-----------------------------------------------------------------------------
(* The upper layer and the database.                                       *)

(* Get: an object with a buffer.  Without a buffer nothing is taken.       *)
Get(o) ==
  /\ exit # "deleted"
  /\ place[o] = "free"
  /\ buffers > 0
  /\ buffers' = buffers - 1
  /\ Move(o, "upper")
  /\ UNCHANGED <<leaked, job, pushes, ending, pc, waiters, mutex>>

(* Without an object the buffer taken for it is not given back.            *)
GetFails ==
  /\ exit # "deleted"
  /\ In("free") = {}
  /\ buffers > 0
  /\ buffers' = buffers - 1
  /\ leaked' = leaked + 1
  /\ UNCHANGED <<place, job, pushes, ending, pc, waiters, mutex>>

(* SendRequest: the request is the database's, if there is one.            *)
SendRequest(o) ==
  /\ exit # "deleted"
  /\ place[o] = "upper"
  /\ Move(o, "database")
  /\ UNCHANGED <<buffers, leaked, job, pushes, ending, pc, waiters, mutex>>

(* Bug: no worker is notified.                                             *)
PushData_Silent(o) ==
  /\ exit # "deleted"
  /\ place[o] = "database"
  /\ Move(o, "ready")
  /\ UNCHANGED <<buffers, leaked, job, pushes, ending, pc, waiters, mutex>>

(* PushData_db_to_me: the object enters _data_set and one of the waiting   *)
(* workers is notified, if any is.                                         *)
PushData(o) ==
  /\ exit # "deleted"
  /\ place[o] = "database"
  /\ Move(o, "ready")
  /\ \/ \E w \in waiters : waiters' = waiters \ {w} /\ UNCHANGED missed
     \/ /\ waiters = {}
        /\ missed < MaxMissed
        /\ missed' = missed + 1
        /\ UNCHANGED waiters
  /\ early' = (early \/ slept # Workers)
  /\ UNCHANGED <<buffers, leaked, job, ending, pc, mutex>>

-----------------------------------------------------------------------------
(* WorkThread, by worker w.                                                *)

Loop(w) ==
  /\ pc[w] = "loop"
  /\ Goto(w, IF exit = "no" THEN "wait" ELSE "ended")
  /\ UNCHANGED <<objects, job, pushes, ending, waiters, mutex>>

Wait(w) ==
  /\ WaitStep(w, "get")
  /\ UNCHANGED <<objects, job, pushes, ending>>

(* Bug: the object is not erased from _data_set.                           *)
GetData_Kept(w) ==
  /\ pc[w] = "get"
  /\ w \notin interrupted
  /\ \E o \in In("ready") : job' = [job EXCEPT ![w] = o]
  /\ Goto(w, "do")
  /\ UNCHANGED <<objects, pushes, ending, waiters, mutex>>

(* GetData takes some object of _data_set, whichever it was notified for.  *)
GetData(w) ==
  /\ pc[w] = "get"
  /\ w \notin interrupted
  /\ \E o \in In("ready") :
       /\ job' = [job EXCEPT ![w] = o]
       /\ Move(o, "handled")
  /\ Goto(w, "do")
  /\ UNCHANGED <<buffers, leaked, pushes, ending, waiters, mutex>>

(* With an empty table it returns NULL.                                    *)
GetNoData(w) ==
  /\ pc[w] = "get"
  /\ w \notin interrupted
  /\ In("ready") = {}
  /\ Goto(w, "loop")
  /\ UNCHANGED <<objects, job, pushes, ending, waiters, mutex>>

(* DoData of the derived class.                                            *)
DoData(w) ==
  /\ pc[w] = "do"
  /\ Goto(w, "release")
  /\ UNCHANGED <<objects, job, pushes, ending, waiters, mutex>>

(* Bug: only the object is given back.                                     *)
Release_ObjectOnly(w) ==
  /\ pc[w] = "release"
  /\ exit # "deleted"
  /\ Move(job[w], "free")
  /\ job' = [job EXCEPT ![w] = NoObject]
  /\ Goto(w, "loop")
  /\ UNCHANGED <<buffers, leaked, pushes, ending, waiters, mutex>>

(* Release; when Exit deleted _buffer_pool, its behaviour is undefined and *)
(* nothing is modelled of it.                                              *)
Release(w) ==
  /\ pc[w] = "release"
  /\ exit # "deleted"
  /\ Move(job[w], "free")
  /\ buffers' = buffers + 1
  /\ job' = [job EXCEPT ![w] = NoObject]
  /\ Goto(w, "loop")
  /\ UNCHANGED <<leaked, pushes, ending, waiters, mutex>>

(* An interrupted wait() throws once it has the mutex; the thread ends.    *)
EndInterrupted(w) ==
  /\ pc[w] = "get"
  /\ w \in interrupted
  /\ Goto(w, "ended")
  /\ UNCHANGED <<objects, job, pushes, ending, waiters, mutex>>

-----------------------------------------------------------------------------
(* Exit: _is_exit is set, all waiting workers are notified, and, a second  *)
(* later, those that wait again are interrupted and database and buffers   *)
(* deleted.                                                                *)
SetExit ==
  /\ exit = "no"
  /\ exit' = "flagged"
  /\ UNCHANGED <<objects, job, pushes, interrupted, pc, waiters, mutex>>

NotifyAll ==
  /\ exit = "flagged"
  /\ exit' = "notified"
  /\ waiters' = {}
  /\ early' = (early \/ slept # Workers)
  /\ UNCHANGED <<objects, job, missed, interrupted, pc, mutex>>

(* interrupt_all takes effect in wait(), on a worker not notified before.  *)
Delete ==
  /\ exit = "notified"
  /\ exit' = "deleted"
  /\ interrupted' = waiters \cup {w \in Workers : pc[w] = "wait"}
  /\ UNCHANGED <<objects, job, pushes, pc, waiters, mutex>>

Interrupt(w) ==
  /\ pc[w] = "asleep"
  /\ w \in waiters \cap interrupted
  /\ waiters' = waiters \ {w}
  /\ UNCHANGED <<objects, job, pushes, ending, pc, mutex>>

-----------------------------------------------------------------------------

WorkThread(w) ==
  \/ Loop(w) \/ Wait(w) \/ GetData(w) \/ GetNoData(w) \/ DoData(w)
  \/ Release(w) \/ Interrupt(w) \/ EndInterrupted(w)

Next ==
  \/ \E o \in Objects : Get(o) \/ SendRequest(o) \/ PushData(o)
  \/ GetFails
  \/ \E w \in Workers : WorkThread(w)
  \/ SetExit \/ NotifyAll \/ Delete

Spec == Init /\ [][Next]_vars

(* Workers run and DoData returns; nothing is assumed of the upper layer,  *)
(* the database and the thread that calls Exit.                            *)
FairSpec == Spec /\ \A w \in Workers : WF_vars(WorkThread(w))

-----------------------------------------------------------------------------
(* Workers with an object in hand.                                         *)
Handling == {w \in Workers : pc[w] \in {"do", "release"}}

(* A reply is handled by one worker and an object under way has a buffer,  *)
(* however the mutex lets several workers run at once: none is handled or  *)
(* freed twice, and no buffer is lost but by Get.                          *)
HandledOnce ==
  /\ \A v, w \in Handling : job[v] = job[w] => v = w
  /\ In("handled") = {job[w] : w \in Handling}

BuffersBalanced ==
  buffers + leaked + Cardinality(Objects \ In("free")) = BufferCount

(* A reply stays in _data_set only while a worker is on its way to fetch   *)
(* one, or because it came when no worker was waiting: PushData_db_to_me   *)
(* notifies once per reply and WorkThread waits before it looks, so that   *)
(* each such reply leaves the table one longer for good.                   *)
OnTheWay ==
  {w \in Workers : pc[w] \in Waiting \cup {"get"} /\ w \notin waiters}

Backlog ==
  exit = "no" => Cardinality(In("ready")) <= Cardinality(OnTheWay) + missed

(* If no reply came before all workers slept, nor later when none was      *)
(* waiting, the table is emptied once the database falls silent.  (While   *)
(* it does not, a reply may stay behind others: _data_set is no queue.)    *)
Silent == <>[](In("database") = {})

Drained ==
  Silent => []<>(In("ready") = {} \/ early \/ missed > 0 \/ exit # "no")

(* Exit does not end the workers: if neither it nor a reply came before    *)
(* all of them slept, the first one to leave the loop keeps the mutex that *)
(* its wait() locked, and every other one stands in wait() for ever.       *)
OneLeaves ==
  slept = Workers /\ ~early => Cardinality({w \in Workers : pc[w] = "ended"}) <= 1

(* "Wait for the other threads to be done": when Exit deletes the pools,   *)
(* no worker handles an object of theirs.                                  *)
ThreadsDone == exit = "deleted" => Handling = {}
=============================================================================
