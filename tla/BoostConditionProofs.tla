------------------------ MODULE BoostConditionProofs ------------------------
(***************************************************************************)
(* What becomes of a mutex that wait() unlocks for threads that never      *)
(* locked it: if every worker gets to sleep before the first notification, *)
(* the mutex works from then on as if it had been locked all along, and    *)
(* lets one worker at a time out of wait().                                *)
(***************************************************************************)
EXTENDS BoostCondition, FiniteSetTheorems, TLAPS

(* Types, whatever the mutex does.                                         *)
LEMMA CondTypeWait ==
  ASSUME CondTypeOK, NEW w \in Workers, NEW back, WaitStep(w, back)
  PROVE  CondTypeOK'
<1> USE DEF CondTypeOK
<1>1. CASE Enter(w)
  BY <1>1 DEF Enter, mutex
<1>2. CASE UnlockRead(w)
  BY <1>2 DEF UnlockRead
<1>3. CASE UnlockWrite(w)
  BY <1>3 DEF UnlockWrite
<1>4. CASE Open(w)
  BY <1>4 DEF Open
<1>5. CASE Lock(w, back)
  BY <1>5 DEF Lock
<1>6. CASE LockWrite(w, back)
  BY <1>6 DEF LockWrite
<1>7. CASE LockAgain(w)
  BY <1>7 DEF LockAgain
<1>8. CASE LockAgainWrite(w, back)
  BY <1>8 DEF LockAgainWrite
<1> QED
  BY <1>1, <1>2, <1>3, <1>4, <1>5, <1>6, <1>7, <1>8 DEF WaitStep

LEMMA CondTypeInit == CondInit => CondTypeOK
<1> SUFFICES ASSUME CondInit PROVE CondTypeOK
  OBVIOUS
<1>1. seen \in [Workers -> Int]
  BY DEF CondInit
<1>2. count \in Int
  BY DEF CondInit
<1> QED
  BY <1>1, <1>2 DEF CondInit, CondTypeOK

LEMMA SleptGrows ==
  ASSUME slept \subseteq Workers, NEW w \in Workers, NEW back, WaitStep(w, back)
  PROVE  slept \subseteq slept' /\ slept' \subseteq Workers
BY DEF WaitStep, Enter, UnlockRead, UnlockWrite, Open, Lock, LockWrite, LockAgain, LockAgainWrite, mutex

(* Until all have slept: nobody was notified, and the count is only        *)
(* decremented, so that none of them finds it 1 and opens the mutex.       *)
FirstWaits ==
  /\ ~locked
  /\ owner = NoWorker
  /\ count <= 0
  /\ \A w \in Workers :
       /\ seen[w] <= 0
       /\ pc[w] \in Waiting => pc[w] \in {"unlock", "unlockWrite", "asleep"} /\ w \in waiters
       /\ w \in slept <=> pc[w] = "asleep"

(* From then on: who is not asleep has the mutex, once.                    *)
OneOut ==
  \A w \in Workers :
    /\ pc[w] # "asleep" => locked
    /\ owner = w <=> pc[w] # "asleep"
    /\ pc[w] \notin {"asleep", "lockWrite", "open"} => count = 1
    /\ pc[w] = "unlockWrite" => seen[w] = 1
    /\ pc[w] # "lockAgain"

CondInv ==
  /\ DOMAIN pc = Workers
  /\ CondTypeOK
  /\ IF slept = Workers THEN OneOut ELSE FirstWaits

(* The invariant in the first phase, and what ends that phase.             *)
LEMMA FirstWaitsStep ==
  ASSUME CondInv, slept # Workers, NEW w \in Workers, NEW back, back \notin Waiting,
         WaitStep(w, back)
  PROVE  CondInv'
<1> USE DEF CondInv, CondTypeOK, FirstWaits, Waiting, Goto
<1>1. CASE Enter(w)
  BY <1>1 DEF Enter, mutex
<1>2. CASE UnlockRead(w)
  BY <1>2 DEF UnlockRead
<1>3. CASE UnlockWrite(w)
  <2>1. seen[w] \in Int /\ seen[w] <= 0
    OBVIOUS
  <2>2. count' = seen[w] - 1 /\ count' <= 0 /\ count' \in Int
    BY <1>3, <2>1 DEF UnlockWrite
  <2>3. pc' = [pc EXCEPT ![w] = "asleep"] /\ slept' = slept \cup {w}
    <3>1. seen[w] # 1
      BY <2>1
    <3> QED
      BY <1>3, <3>1 DEF UnlockWrite
  <2>4. UNCHANGED <<waiters, locked, owner, seen>> /\ pc[w] = "unlockWrite"
    BY <1>3 DEF UnlockWrite
  <2>5. CondTypeOK' /\ FirstWaits'
    BY <2>2, <2>3, <2>4
  <2>6. slept' = Workers => OneOut'
    BY <2>5, WorkersAssumption DEF OneOut
  <2> QED
    BY <2>3, <2>5, <2>6
<1>4. ~Open(w) /\ ~Lock(w, back) /\ ~LockWrite(w, back) /\ ~LockAgain(w) /\ ~LockAgainWrite(w, back)
  BY DEF Open, Lock, LockWrite, LockAgain, LockAgainWrite
<1> QED
  BY <1>1, <1>2, <1>3, <1>4 DEF WaitStep

LEMMA OneOutStep ==
  ASSUME CondInv, slept = Workers, NEW w \in Workers, NEW back, back \notin Waiting,
         WaitStep(w, back)
  PROVE  CondInv'
<1> USE WorkersAssumption DEF CondInv, CondTypeOK, OneOut, Waiting, Goto
<1>1. CASE Enter(w)
  BY <1>1 DEF Enter, mutex
<1>2. CASE UnlockRead(w)
  BY <1>2 DEF UnlockRead
<1>3. CASE UnlockWrite(w)
  BY <1>3 DEF UnlockWrite
<1>4. CASE Open(w)
  BY <1>4 DEF Open
<1>5. CASE Lock(w, back)
  BY <1>5 DEF Lock
<1>6. CASE LockWrite(w, back)
  BY <1>6 DEF LockWrite
<1>7. ~LockAgain(w) /\ ~LockAgainWrite(w, back)
  BY DEF LockAgain, LockAgainWrite
<1> QED
  BY <1>1, <1>2, <1>3, <1>4, <1>5, <1>6, <1>7 DEF WaitStep

(* A step of wait() preserves the invariant, ...                           *)
LEMMA CondInvWait ==
  ASSUME CondInv, NEW w \in Workers, NEW back, back \notin Waiting, WaitStep(w, back)
  PROVE  CondInv'
BY FirstWaitsStep, OneOutStep

(* ... and so does a step outside of wait(), ...                           *)
LEMMA CondInvGoto ==
  ASSUME CondInv, NEW w \in Workers, NEW point, point \notin Waiting, pc[w] \notin Waiting,
         Goto(w, point), UNCHANGED <<waiters, mutex>>
  PROVE  CondInv'
<1> USE DEF CondInv, CondTypeOK, Waiting, Goto, mutex
<1>1. CASE slept = Workers
  BY <1>1 DEF OneOut
<1>2. CASE slept # Workers
  BY <1>2 DEF FirstWaits
<1> QED
  BY <1>1, <1>2

(* ... a notification or interruption once all workers have slept, ...     *)
LEMMA CondInvNotify ==
  ASSUME CondInv, slept = Workers, waiters' \subseteq waiters, UNCHANGED <<pc, mutex>>
  PROVE  CondInv'
BY DEF CondInv, CondTypeOK, OneOut, mutex

LEMMA CondInvStays ==
  ASSUME CondInv, UNCHANGED <<pc, waiters, mutex>>
  PROVE  CondInv'
BY DEF CondInv, CondTypeOK, OneOut, FirstWaits, mutex

LEMMA CondInvInit ==
  ASSUME CondInit, DOMAIN pc = Workers, \A w \in Workers : pc[w] \notin Waiting
  PROVE  CondInv
<1>1. CondTypeOK
  BY CondTypeInit
<1>2. CASE Workers = {}
  BY <1>1, <1>2 DEF CondInit, CondInv, OneOut
<1>3. CASE Workers # {}
  <2>1. slept # Workers
    BY <1>3 DEF CondInit
  <2>2. \A w \in Workers : pc[w] # "asleep"
    BY DEF Waiting
  <2>3. FirstWaits
    BY <2>2 DEF CondInit, FirstWaits
  <2> QED
    BY <1>1, <2>1, <2>3 DEF CondInv
<1> QED
  BY <1>2, <1>3

(* Workers out of wait(), to run, to end or on their way back: one at most.*)
LEMMA OneAtATime ==
  ASSUME CondInv, slept = Workers, NEW S \in SUBSET {w \in Workers : pc[w] # "asleep"}
  PROVE  Cardinality(S) <= 1
<1>1. \A v, w \in S : v = w
  BY DEF CondInv, OneOut
<1>2. CASE S = {}
  BY <1>2, FS_EmptySet
<1>3. ASSUME NEW w \in S
      PROVE  Cardinality(S) <= 1
  <2>1. S = {w}
    BY <1>1
  <2> QED
    BY <2>1, FS_Singleton
<1> QED
  BY <1>2, <1>3

(* A worker that ended keeps the mutex; the others sleep in wait(), and no *)
(* step of it is possible any more.                                        *)
LEMMA EndedKeepsMutex ==
  ASSUME CondInv, slept = Workers, NEW v \in Workers, pc[v] = "ended"
  PROVE  /\ \A w \in Workers \ {v} : pc[w] = "asleep"
         /\ \A w \in Workers : \A back : ~WaitStep(w, back)
<1>1. locked /\ owner = v
  BY DEF CondInv, OneOut
<1>2. \A w \in Workers \ {v} : pc[w] = "asleep"
  BY <1>1 DEF CondInv, OneOut
<1>3. ASSUME NEW w \in Workers, NEW back
      PROVE  ~WaitStep(w, back)
  <2>1. pc[w] = "ended" \/ (pc[w] = "asleep" /\ owner # w)
    BY <1>1, <1>2
  <2> QED
    BY <1>1, <2>1
       DEF WaitStep, Enter, UnlockRead, UnlockWrite, Open, Lock, LockWrite, LockAgain, LockAgainWrite
<1> QED
  BY <1>2, <1>3
=============================================================================
