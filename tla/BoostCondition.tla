--------------------------- MODULE BoostCondition ---------------------------
(***************************************************************************)
(* _condition.wait(_notify_mutex) as MessageQueue and InfoTransferStation  *)
(* call it: on a recursive mutex that the caller never locked.  What that  *)
(* does is decided by boost's condition_variable_any and recursive_mutex   *)
(* (thread library of boost 1.57 on Windows), modelled here as far as the  *)
(* two classes use them: wait() enters the caller among the waiters,       *)
(* unlocks the mutex, sleeps until notified and locks it again; unlock()   *)
(* decrements recursion_count without asking who the owner is, and only    *)
(* opens the mutex when the count becomes 0.                               *)
(***************************************************************************)
EXTENDS Integers

CONSTANTS
  Workers,      (* threads that wait                                       *)
  NoWorker      (* locking_thread_id of a mutex without owner              *)

ASSUME WorkersAssumption == NoWorker \notin Workers

VARIABLES
  pc,           (* pc[w]: where worker w is                                *)
  waiters,      (* workers entered in _condition and not yet notified      *)
  locked,       (* the mutex proper inside _notify_mutex                   *)
  owner,        (* its locking_thread_id                                   *)
  count,        (* its recursion_count                                     *)
  seen,         (* seen[w]: recursion_count as w read it, before writing   *)
  slept         (* workers that have been asleep in wait() once            *)

mutex == <<locked, owner, count, seen, slept>>

(* Inside wait(): entered and about to unlock, asleep, locking again.      *)
Waiting == {"unlock", "unlockWrite", "open", "asleep", "lockWrite", "lockAgain"}

CondInit ==
  /\ waiters = {}
  /\ locked = FALSE
  /\ owner = NoWorker
  /\ count = 0
  /\ seen = [w \in Workers |-> 0]
  /\ slept = {}

Goto(w, point) == pc' = [pc EXCEPT ![w] = point]

(* wait() is called at pc[w] = "wait": w becomes a waiter ...              *)
Enter(w) ==
  /\ pc[w] = "wait"
  /\ waiters' = waiters \cup {w}
  /\ Goto(w, "unlock")
  /\ UNCHANGED mutex

(* ... and unlocks: --recursion_count, read and written without the lock   *)
(* unless w has it, so that an update of another thread can be lost; ...   *)
UnlockRead(w) ==
  /\ pc[w] = "unlock"
  /\ seen' = [seen EXCEPT ![w] = count]
  /\ Goto(w, "unlockWrite")
  /\ UNCHANGED <<waiters, locked, owner, count, slept>>

UnlockWrite(w) ==
  /\ pc[w] = "unlockWrite"
  /\ count' = seen[w] - 1
  /\ Goto(w, IF seen[w] = 1 THEN "open" ELSE "asleep")
  /\ slept' = IF seen[w] = 1 THEN slept ELSE slept \cup {w}
  /\ UNCHANGED <<waiters, locked, owner, seen>>

(* ... at 0 the mutex proper is unlocked, which toggles its lock bit; ...  *)
Open(w) ==
  /\ pc[w] = "open"
  /\ owner' = NoWorker
  /\ locked' = ~locked
  /\ Goto(w, "asleep")
  /\ slept' = slept \cup {w}
  /\ UNCHANGED <<waiters, count, seen>>

(* Bug: wait() returns without the mutex.                                  *)
Lock_Skipped(w, back) ==
  /\ pc[w] = "asleep"
  /\ w \notin waiters
  /\ Goto(w, back)
  /\ UNCHANGED <<waiters, mutex>>

(* ... w sleeps until it was notified and locks the mutex again, to go on  *)
(* at the point back, ...                                                  *)
Lock(w, back) ==
  /\ pc[w] = "asleep"
  /\ w \notin waiters
  /\ owner # w
  /\ ~locked
  /\ locked' = TRUE
  /\ owner' = w
  /\ Goto(w, "lockWrite")
  /\ UNCHANGED <<waiters, count, seen, slept>>

LockWrite(w, back) ==
  /\ pc[w] = "lockWrite"
  /\ count' = 1
  /\ Goto(w, back)
  /\ UNCHANGED <<waiters, locked, owner, seen, slept>>

(* ... or finds itself its owner and increments the count.                 *)
LockAgain(w) ==
  /\ pc[w] = "asleep"
  /\ w \notin waiters
  /\ owner = w
  /\ seen' = [seen EXCEPT ![w] = count]
  /\ Goto(w, "lockAgain")
  /\ UNCHANGED <<waiters, locked, owner, count, slept>>

LockAgainWrite(w, back) ==
  /\ pc[w] = "lockAgain"
  /\ count' = seen[w] + 1
  /\ Goto(w, back)
  /\ UNCHANGED <<waiters, locked, owner, seen, slept>>

WaitStep(w, back) ==
  \/ Enter(w) \/ UnlockRead(w) \/ UnlockWrite(w) \/ Open(w)
  \/ Lock(w, back) \/ LockWrite(w, back) \/ LockAgain(w) \/ LockAgainWrite(w, back)

CondTypeOK ==
  /\ waiters \subseteq Workers
  /\ locked \in BOOLEAN
  /\ owner \in Workers \cup {NoWorker}
  /\ count \in Int
  /\ seen \in [Workers -> Int]
  /\ slept \subseteq Workers
=============================================================================
