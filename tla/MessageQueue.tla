---------------------------- MODULE MessageQueue ----------------------------
(***************************************************************************)
(* MessageQueue (net/MessageQueue.h, .cpp): io threads add copies of data  *)
(* handles, worker threads take them out and dispatch them to DoData.      *)
(*                                                                         *)
(* The workers sleep on _condition with a mutex nobody locked before; what *)
(* that does is in BoostCondition.                                         *)
(***************************************************************************)
EXTENDS BoostCondition, FiniteSets, Sequences

CONSTANTS
  PoolSize,     (* handles the queue's own pool can give out               *)
  MaxMessages   (* bound: messages added in a behaviour                    *)

ASSUME BoundsAssumption == PoolSize \in Nat /\ MaxMessages \in Nat

VARIABLES
  queue,        (* _handle_data_list, oldest message first                 *)
  free,         (* handles left in the pool                                *)
  added,        (* messages added so far: the next one is added + 1        *)
  msg,          (* msg[w]: tmpData, 0 when it holds none                   *)
  early,        (* waiters were notified before all workers had slept      *)
  dispatched,   (* messages passed to _dispatch_func, in that order        *)
  stage,        (* how far the destructor is                               *)
  thrown,       (* workers interruption has taken out of wait()            *)
  walked,       (* how many of the list, the newest, the destructor has    *)
                (* released                                                *)
  reused        (* workers that have taken one of those                    *)

data   == <<queue, free, added, msg, early, dispatched>>
notify == <<waiters, mutex>>
ending == <<stage, thrown, walked, reused>>
vars   == <<data, notify, pc, ending>>

-----------------------------------------------------------------------------

(* A worker takes and dispatches messages between two waits.               *)
Running == {"fetch", "dispatch", "release", "wait"}

Messages == 1 .. MaxMessages

Init ==
  /\ queue = <<>>
  /\ free = PoolSize
  /\ added = 0
  /\ pc = [w \in Workers |-> "fetch"]
  /\ msg = [w \in Workers |-> 0]
  /\ CondInit
  /\ early = FALSE
  /\ dispatched = <<>>
  /\ stage = "alive"
  /\ thrown = {}
  /\ walked = 0
  /\ reused = {}

-----------------------------------------------------------------------------
(* MessageQueue::Add, on an io thread.                                     *)

(* Bug: the workers are not notified.                                      *)
Notified_None == waiters

Notified == {}

(* Bug: the result of GetData is not tested.                               *)
CanCopy_Untested == TRUE

CanCopy == free > 0

(* A copy of the handle is pushed and all waiting workers are notified,    *)
(* under _mutex.  Who deletes the queue has destroyed the io_service, and  *)
(* waited for its handlers, unless it has overtaken another thread in Stop *)
(* (Connector).                                                            *)
Add ==
  /\ stage \in {"alive", "notified", "interrupted"}
  /\ added < MaxMessages
  /\ CanCopy
  /\ free' = free - 1
  /\ added' = added + 1
  /\ queue' = Append(queue, added + 1)
  /\ waiters' = Notified
  /\ early' = (early \/ slept # Workers)
  /\ UNCHANGED <<pc, msg, mutex, dispatched, ending>>

(* The list changes while the destructor walks it without _mutex.          *)
AddTooLate ==
  /\ stage = "releasing"
  /\ added < MaxMessages
  /\ CanCopy
  /\ stage' = "undefined"
  /\ UNCHANGED <<data, notify, pc, thrown, walked, reused>>

(* Without memory for a copy the io thread dispatches the message itself.  *)
AddWithoutMemory ==
  /\ stage \notin {"gone", "undefined"}
  /\ added < MaxMessages
  /\ free = 0
  /\ added' = added + 1
  /\ dispatched' = Append(dispatched, added + 1)
  /\ UNCHANGED <<queue, free, pc, msg, notify, early, ending>>

-----------------------------------------------------------------------------
(* MessageQueue::Dispatch, the loop of worker w.                           *)

(* Bug: messages are taken where they are pushed.                          *)
Fetch_Newest(w) ==
  /\ pc[w] = "fetch"
  /\ queue # <<>>
  /\ msg' = [msg EXCEPT ![w] = queue[Len(queue)]]
  /\ queue' = SubSeq(queue, 1, Len(queue) - 1)
  /\ Goto(w, "dispatch")
  /\ UNCHANGED <<free, added, notify, early, dispatched, ending>>

(* tmpFunc takes the oldest message, under _mutex, which the destructor    *)
(* does not lock: if the rest of the list is walked, that is the node its  *)
(* iterator points to, and if all is walked, a handle it has released.     *)
Fetch(w) ==
  /\ pc[w] = "fetch"
  /\ queue # <<>>
  /\ msg' = [msg EXCEPT ![w] = Head(queue)]
  /\ queue' = Tail(queue)
  /\ Goto(w, "dispatch")
  /\ \/ /\ walked < Len(queue)
        /\ stage' = IF stage = "releasing" /\ walked + 1 = Len(queue) THEN "undefined" ELSE stage
        /\ UNCHANGED <<walked, reused>>
     \/ /\ walked = Len(queue)
        /\ walked' = walked - 1
        /\ reused' = reused \cup {w}
        /\ UNCHANGED stage
  /\ UNCHANGED <<free, added, notify, early, dispatched, thrown>>

(* tmpFunc finds the list empty and returns NULL.                          *)
FetchNone(w) ==
  /\ pc[w] = "fetch"
  /\ queue = <<>>
  /\ Goto(w, "wait")
  /\ UNCHANGED <<data, notify, ending>>

DispatchIt(w) ==
  /\ pc[w] = "dispatch"
  /\ dispatched' = Append(dispatched, msg[w])
  /\ Goto(w, "release")
  /\ UNCHANGED <<queue, free, added, msg, early, notify, ending>>

Release(w) ==
  /\ pc[w] = "release"
  /\ w \notin reused
  /\ free' = free + 1
  /\ msg' = [msg EXCEPT ![w] = 0]
  /\ Goto(w, "fetch")
  /\ UNCHANGED <<queue, added, early, dispatched, notify, ending>>

(* What the destructor has released is released again.                     *)
ReleaseAgain(w) ==
  /\ pc[w] = "release"
  /\ w \in reused
  /\ stage' = "undefined"
  /\ UNCHANGED <<data, notify, pc, thrown, walked, reused>>

(* Where wait() leads: on in the loop, or out of the thread's function by  *)
(* the exception of an interruption, with the mutex locked all the same.   *)
Back(w) == IF w \in thrown THEN "ended" ELSE "fetch"

(* _condition.wait(_notify_mutex), and continue.                           *)
Wait(w) ==
  /\ WaitStep(w, Back(w))
  /\ UNCHANGED <<data, ending>>

(* A worker that is asleep, or comes to be, after interrupt_all.           *)
Interrupted(w) ==
  /\ stage \in {"interrupted", "releasing"}
  /\ pc[w] = "asleep"
  /\ w \in waiters
  /\ waiters' = waiters \ {w}
  /\ thrown' = thrown \cup {w}
  /\ UNCHANGED <<data, mutex, pc, stage, walked, reused>>

-----------------------------------------------------------------------------
(* ~MessageQueue.  _dispatch_func is not set to NULL, so that the notified *)
(* workers go on in their loop.                                            *)

DestructorNotifies ==
  /\ stage = "alive"
  /\ stage' = "notified"
  /\ waiters' = {}
  /\ early' = (early \/ slept # Workers)
  /\ UNCHANGED <<queue, free, added, msg, dispatched, mutex, pc, thrown, walked, reused>>

(* A second later, whatever the workers are doing.                         *)
InterruptAll ==
  /\ stage = "notified"
  /\ stage' = "interrupted"
  /\ UNCHANGED <<data, notify, pc, thrown, walked, reused>>

(* The iterator is set to the newest message in the list, ...              *)
BeginRelease ==
  /\ stage = "interrupted"
  /\ stage' = "releasing"
  /\ UNCHANGED <<data, notify, pc, thrown, walked, reused>>

(* ... and moved on before the handle it pointed to is released, without   *)
(* _mutex and with the node left in the list.                              *)
ReleaseOne ==
  /\ stage = "releasing"
  /\ walked < Len(queue)
  /\ walked' = walked + 1
  /\ free' = free + 1
  /\ UNCHANGED <<queue, added, msg, early, dispatched, notify, pc, stage, thrown, reused>>

(* The list is cleared and the object freed: what a worker still inside of *)
(* it does then is undefined.                                              *)
ClearList ==
  /\ stage = "releasing"
  /\ walked = Len(queue)
  /\ stage' = "gone"
  /\ queue' = <<>>
  /\ walked' = 0
  /\ UNCHANGED <<free, added, msg, early, dispatched, notify, pc, thrown, reused>>

-----------------------------------------------------------------------------

WorkerStep(w) ==
  /\ stage \notin {"gone", "undefined"}
  /\ \/ Fetch(w) \/ FetchNone(w) \/ DispatchIt(w) \/ Release(w) \/ ReleaseAgain(w)
     \/ Wait(w) \/ Interrupted(w)

Next ==
  \/ Add \/ AddTooLate \/ AddWithoutMemory
  \/ \E w \in Workers : WorkerStep(w)
  \/ DestructorNotifies \/ InterruptAll \/ BeginRelease \/ ReleaseOne \/ ClearList

Spec == Init /\ [][Next]_vars

(* Workers run, and boost's mutex lets some thread in when it is open;     *)
(* nothing is assumed of the io threads.                                   *)
Fairness == \A w \in Workers : WF_vars(WorkerStep(w))

FairSpec == Spec /\ Fairness

-----------------------------------------------------------------------------
TypeOK ==
  /\ queue \in Seq(Messages)
  /\ free \in 0 .. PoolSize
  /\ added \in 0 .. MaxMessages
  /\ pc \in [Workers -> Running \cup Waiting \cup {"ended"}]
  /\ msg \in [Workers -> Messages \cup {0}]
  /\ CondTypeOK
  /\ early \in BOOLEAN
  /\ dispatched \in Seq(Messages)
  /\ stage \in {"alive", "notified", "interrupted", "releasing", "gone", "undefined"}
  /\ thrown \subseteq Workers
  /\ walked \in 0 .. Len(queue)
  /\ reused \subseteq Workers

(* If no message and no destructor came before every worker had waited     *)
(* once, the mutex that wait() leaves locked lets a single worker at a     *)
(* time out of it.  However many threads Init creates, messages are        *)
(* dispatched one at a time; and the destructor does not end the workers:  *)
(* the first one interrupted ends with the mutex locked, and the others    *)
(* stand in wait() for it when the queue is freed.                         *)
Warm == slept = Workers /\ ~early

OneOutside == Warm => Cardinality({w \in Workers : pc[w] \in Running \cup {"ended"}}) <= 1

(* A message in the list is dispatched sooner or later, if the workers     *)
(* were all waiting before the first message came, unless the queue is     *)
(* destroyed.                                                              *)
Dispatched(m) == \E i \in DOMAIN dispatched : dispatched[i] = m
Queued(m)     == \E i \in DOMAIN queue : queue[i] = m

WarmDispatch ==
  \A m \in Messages : Queued(m) ~> (early \/ stage # "alive" \/ Dispatched(m))

(* However the mutex lets several workers out at once: messages are taken  *)
(* in the order they were added, each by one worker, dispatched once, and  *)
(* every handle returns to the pool, once.  The destructor keeps this, too,*)
(* as long as none of what it leaves to run overtakes it: a worker that    *)
(* takes from under its iterator or a handle that it has released, which   *)
(* will be released twice, or an io thread that adds while it walks.       *)
Overtaken == reused # {} \/ stage = "undefined"

Left == SubSeq(queue, 1, Len(queue) - walked)

HQ == INSTANCE HandleQueue WITH
        list <- Left,
        room <- free,
        inHand <- msg,
        begun <- [w \in Workers |-> pc[w] = "release"],
        NoMessage <- 0
ImplementsHandleQueue ==
  HQ!HQInit /\ [][HQ!HQNext(Messages) \/ Overtaken']_(HQ!hqVars)
=============================================================================
