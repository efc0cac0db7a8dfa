------------------------- MODULE MessageQueueProofs --------------------------
(***************************************************************************)
(* Theorems about MessageQueue, for any number of workers, messages and    *)
(* handles, whatever becomes of the mutex that wait() unlocks for others:  *)
(* it implements HandleQueue as long as nobody overtakes the destructor,   *)
(* loses no handle, and dispatches no message twice even then; and one     *)
(* worker at a time is out of wait().                                      *)
(***************************************************************************)
EXTENDS MessageQueue, BoostConditionProofs

(* A worker holds a message from fetching it to releasing it; messages are *)
(* numbered as they are added.                                             *)
Holding == {"dispatch", "release"}

QInv ==
  /\ added \in Nat
  /\ free \in Nat
  /\ queue \in Seq(1 .. added)
  /\ dispatched \in Seq(1 .. added)
  /\ msg \in [Workers -> 0 .. added]
  /\ pc \in [Workers -> Running \cup Waiting \cup {"ended"}]
  /\ \A w \in Workers : msg[w] # 0 <=> pc[w] \in Holding
  /\ walked \in 0 .. Len(queue)
  /\ stage \in {"alive", "notified", "interrupted"} => walked = 0 /\ reused = {}
  /\ \A w \in Workers : w \in reused => pc[w] \in Holding

(* Numbers of later messages may come to occur.                            *)
LEMMA MoreMessages ==
  ASSUME NEW n \in Nat, NEW s \in Seq(1 .. n)
  PROVE  s \in Seq(1 .. n + 1) /\ Append(s, n + 1) \in Seq(1 .. n + 1)
<1>1. s \in Seq(1 .. n + 1)
  <2>1. Len(s) \in Nat /\ s = [i \in 1 .. Len(s) |-> s[i]]
        /\ \A i \in 1 .. Len(s) : s[i] \in 1 .. n + 1
    OBVIOUS
  <2> QED
    BY <2>1
<1>2. n + 1 \in 1 .. n + 1
  OBVIOUS
<1> QED
  BY <1>1, <1>2

LEMMA SeqOfMore ==
  ASSUME NEW S, NEW T, S \subseteq T, NEW s \in Seq(S)
  PROVE  s \in Seq(T)
<1>1. Len(s) \in Nat /\ s = [i \in 1 .. Len(s) |-> s[i]] /\ \A i \in 1 .. Len(s) : s[i] \in T
  OBVIOUS
<1> QED
  BY <1>1

LEMMA QInvInit == Init => QInv
BY BoundsAssumption DEF Init, QInv, Running, Holding

(* The steps of wait() take a worker neither to a message nor from one.    *)
LEMMA WaitMoves ==
  ASSUME QInv, NEW w \in Workers, Wait(w)
  PROVE  /\ UNCHANGED <<data, ending>>
         /\ pc[w] \notin Holding
         /\ \E point \in (Running \cup Waiting \cup {"ended"}) \ Holding :
              pc' = [pc EXCEPT ![w] = point]
<1>1. Back(w) \in {"fetch", "ended"}
  BY DEF Back
<1>2. UNCHANGED <<data, ending>> /\ WaitStep(w, Back(w))
  BY DEF Wait
<1>3. CASE Enter(w)
  BY <1>2, <1>3 DEF Enter, Goto, Running, Waiting, Holding
<1>4. CASE UnlockRead(w)
  BY <1>2, <1>4 DEF UnlockRead, Goto, Running, Waiting, Holding
<1>5. CASE UnlockWrite(w)
  BY <1>2, <1>5 DEF UnlockWrite, Goto, Running, Waiting, Holding
<1>6. CASE Open(w)
  BY <1>2, <1>6 DEF Open, Goto, Running, Waiting, Holding
<1>7. CASE Lock(w, Back(w))
  BY <1>2, <1>7 DEF Lock, Goto, Running, Waiting, Holding
<1>8. CASE LockWrite(w, Back(w))
  BY <1>1, <1>2, <1>8 DEF LockWrite, Goto, Running, Waiting, Holding
<1>9. CASE LockAgain(w)
  BY <1>2, <1>9 DEF LockAgain, Goto, Running, Waiting, Holding
<1>10. CASE LockAgainWrite(w, Back(w))
  BY <1>1, <1>2, <1>10 DEF LockAgainWrite, Goto, Running, Waiting, Holding
<1> QED
  BY <1>2, <1>3, <1>4, <1>5, <1>6, <1>7, <1>8, <1>9, <1>10 DEF WaitStep

LEMMA QInvNext == QInv /\ [Next]_vars => QInv'
<1> SUFFICES ASSUME QInv, [Next]_vars PROVE QInv'
  OBVIOUS
<1> USE DEF QInv
<1>0. Len(queue) \in Nat /\ walked \in Nat /\ walked <= Len(queue)
  <2>1. queue \in Seq(1 .. added) /\ walked \in 0 .. Len(queue)
    OBVIOUS
  <2> QED
    BY <2>1
<1>1. CASE Add
  <2>1. added' = added + 1 /\ queue' = Append(queue, added + 1)
        /\ free' = free - 1 /\ free > 0
        /\ UNCHANGED <<dispatched, msg, pc, stage, walked, reused>>
    BY <1>1 DEF Add, CanCopy, ending
  <2>2. queue' \in Seq(1 .. added') /\ dispatched' \in Seq(1 .. added')
    BY <2>1, MoreMessages
  <2>3. walked' \in 0 .. Len(queue')
    BY <1>0, <2>1
  <2> QED
    BY <2>1, <2>2, <2>3
<1>2. CASE AddWithoutMemory
  <2>1. added' = added + 1 /\ dispatched' = Append(dispatched, added + 1)
        /\ UNCHANGED <<queue, free, msg, pc, stage, walked, reused>>
    BY <1>2 DEF AddWithoutMemory, ending
  <2>2. queue' \in Seq(1 .. added') /\ dispatched' \in Seq(1 .. added')
    BY <2>1, MoreMessages
  <2> QED
    BY <2>1, <2>2
<1>3. ASSUME NEW w \in Workers, WorkerStep(w)
      PROVE  QInv'
  <2>1. CASE Fetch(w)
    <3>1. Head(queue) \in 1 .. added /\ Tail(queue) \in Seq(1 .. added) /\ Len(Tail(queue)) = Len(queue) - 1
      BY <2>1 DEF Fetch
    <3>2. walked' \in 0 .. Len(queue')
      <4> HIDE DEF QInv
      <4>1. \/ walked < Len(queue) /\ walked' = walked
            \/ walked = Len(queue) /\ walked' = walked - 1
        BY <2>1 DEF Fetch
      <4>2. Len(queue) # 0
        BY <2>1 DEF Fetch, QInv
      <4>3. queue' = Tail(queue)
        BY <2>1 DEF Fetch
      <4>4. Len(queue') = Len(queue) - 1
        BY <3>1, <4>3
      <4> QED
        BY <1>0, <4>1, <4>2, <4>4
    <3>3. stage' \in {"alive", "notified", "interrupted"} => walked' = 0 /\ reused' = {}
      <4>1. CASE stage \in {"alive", "notified", "interrupted"}
        <5>1. walked = 0 /\ reused = {} /\ Len(queue) # 0
          BY <2>1, <4>1 DEF Fetch
        <5> QED
          BY <2>1, <5>1 DEF Fetch
      <4>2. CASE stage \notin {"alive", "notified", "interrupted"}
        BY <2>1, <4>2 DEF Fetch
      <4> QED
        BY <4>1, <4>2
    <3>4. UNCHANGED <<added, free, dispatched>> /\ queue' = Tail(queue) /\ msg' = [msg EXCEPT ![w] = Head(queue)]
          /\ pc' = [pc EXCEPT ![w] = "dispatch"] /\ reused' \subseteq reused \cup {w}
      BY <2>1 DEF Fetch, Goto
    <3>5. msg' \in [Workers -> 0 .. added'] /\ pc' \in [Workers -> Running \cup Waiting \cup {"ended"}]
      BY <3>1, <3>4 DEF Running
    <3>6. \A v \in Workers : /\ msg'[v] # 0 <=> pc'[v] \in Holding
                             /\ v \in reused' => pc'[v] \in Holding
      BY <3>1, <3>4 DEF Holding
    <3> QED
      BY <3>1, <3>2, <3>3, <3>4, <3>5, <3>6
  <2>2. CASE FetchNone(w)
    <3>1. UNCHANGED <<data, ending>> /\ pc' = [pc EXCEPT ![w] = "wait"] /\ pc[w] \notin Holding
      BY <2>2 DEF FetchNone, Goto, Holding
    <3> QED
      BY <3>1 DEF data, ending, Running, Holding
  <2>3. CASE DispatchIt(w)
    <3>1. msg[w] \in 1 .. added
      BY <2>3 DEF DispatchIt, Holding
    <3>2. dispatched' \in Seq(1 .. added)
      BY <2>3, <3>1 DEF DispatchIt
    <3>3. UNCHANGED <<queue, free, added, msg, ending>> /\ pc' = [pc EXCEPT ![w] = "release"]
          /\ pc[w] = "dispatch"
      BY <2>3 DEF DispatchIt, Goto
    <3> QED
      BY <3>2, <3>3 DEF ending, Running, Holding
  <2>4. CASE Release(w)
    <3>1. UNCHANGED <<queue, added, dispatched, ending>> /\ free' = free + 1 /\ msg' = [msg EXCEPT ![w] = 0]
          /\ pc' = [pc EXCEPT ![w] = "fetch"] /\ w \notin reused
      BY <2>4 DEF Release, Goto
    <3>2. msg' \in [Workers -> 0 .. added] /\ pc' \in [Workers -> Running \cup Waiting \cup {"ended"}]
      BY <3>1 DEF Running
    <3>3. \A v \in Workers : /\ msg'[v] # 0 <=> pc'[v] \in Holding
                             /\ v \in reused' => pc'[v] \in Holding
      BY <3>1 DEF Holding, ending
    <3> QED
      BY <3>1, <3>2, <3>3 DEF ending
  <2>5. CASE ReleaseAgain(w)
    BY <2>5 DEF ReleaseAgain, data
  <2>6. CASE Wait(w)
    <3>1. UNCHANGED <<data, ending>> /\ pc[w] \notin Holding
      BY <2>6, WaitMoves
    <3>2. PICK point \in (Running \cup Waiting \cup {"ended"}) \ Holding : pc' = [pc EXCEPT ![w] = point]
      BY <2>6, WaitMoves
    <3> QED
      BY <3>1, <3>2 DEF data, ending
  <2>7. CASE Interrupted(w)
    BY <2>7 DEF Interrupted, data
  <2> QED
    BY <1>3, <2>1, <2>2, <2>3, <2>4, <2>5, <2>6, <2>7 DEF WorkerStep
<1>4. CASE AddTooLate \/ DestructorNotifies \/ InterruptAll \/ BeginRelease
  BY <1>4 DEF AddTooLate, DestructorNotifies, InterruptAll, BeginRelease, data
<1>5. CASE ReleaseOne
  <2>1. walked' \in 0 .. Len(queue)
    BY <1>0, <1>5 DEF ReleaseOne
  <2> QED
    BY <1>5, <2>1 DEF ReleaseOne
<1>6. CASE ClearList
  BY <1>6 DEF ClearList
<1>7. CASE UNCHANGED vars
  BY <1>7 DEF vars, data, ending
<1> QED
  BY <1>1, <1>2, <1>3, <1>4, <1>5, <1>6, <1>7 DEF Next

-----------------------------------------------------------------------------
(* What the destructor has not walked.                                     *)

LEMMA LeftAt ==
  ASSUME NEW n \in Nat, NEW s \in Seq(1 .. n), NEW k \in 0 .. Len(s)
  PROVE  /\ Len(SubSeq(s, 1, k)) = k
         /\ \A i \in 1 .. k : SubSeq(s, 1, k)[i] = s[i]
         /\ SubSeq(s, 1, k) \in Seq(1 .. n)
         /\ SubSeq(s, 1, 0) = <<>>
         /\ SubSeq(s, 1, Len(s)) = s
<1>1. Len(s) \in Nat
  OBVIOUS
<1> QED
  BY <1>1

LEMMA LeftIsQueue ==
  ASSUME QInv, walked = 0
  PROVE  Left = queue
<1>1. Len(queue) \in Nat /\ queue \in Seq(1 .. added) /\ added \in Nat
  BY DEF QInv
<1>2. SubSeq(queue, 1, Len(queue)) = queue
  BY <1>1, LeftAt
<1> QED
  BY <1>1, <1>2 DEF Left

(* The oldest is taken from what is left, ...                              *)
LEMMA LeftTail ==
  ASSUME NEW n \in Nat, NEW s \in Seq(1 .. n), NEW k \in 1 .. Len(s)
  PROVE  /\ SubSeq(s, 1, k) # <<>>
         /\ Head(SubSeq(s, 1, k)) = Head(s)
         /\ SubSeq(Tail(s), 1, k - 1) = Tail(SubSeq(s, 1, k))
<1>1. Len(s) \in Nat /\ Len(Tail(s)) = Len(s) - 1 /\ Tail(s) \in Seq(1 .. n)
  OBVIOUS
<1>2. Len(SubSeq(s, 1, k)) = k /\ \A i \in 1 .. k : SubSeq(s, 1, k)[i] = s[i]
  BY <1>1, LeftAt
<1>3. SubSeq(s, 1, k) # <<>> /\ Head(SubSeq(s, 1, k)) = Head(s)
  BY <1>1, <1>2
<1>4. SubSeq(Tail(s), 1, k - 1) \in Seq(1 .. n) /\ Len(SubSeq(Tail(s), 1, k - 1)) = k - 1
  <2>1. k - 1 \in 0 .. Len(Tail(s))
    BY <1>1
  <2> QED
    BY <1>1, <2>1, LeftAt
<1>5. Tail(SubSeq(s, 1, k)) \in Seq(1 .. n) /\ Len(Tail(SubSeq(s, 1, k))) = k - 1
  <2>1. SubSeq(s, 1, k) \in Seq(1 .. n)
    BY <1>1, LeftAt
  <2> QED
    BY <1>2, <1>3, <2>1
<1>6. ASSUME NEW i \in 1 .. k - 1
      PROVE  SubSeq(Tail(s), 1, k - 1)[i] = Tail(SubSeq(s, 1, k))[i]
  <2>1. i + 1 \in 1 .. k
    BY <1>1
  <2>2. SubSeq(Tail(s), 1, k - 1)[i] = Tail(s)[i] /\ Tail(s)[i] = s[i + 1]
    <3>1. k - 1 \in 0 .. Len(Tail(s)) /\ i \in 1 .. Len(Tail(s))
      BY <1>1
    <3> QED
      BY <1>1, <3>1, LeftAt
  <2>3. Tail(SubSeq(s, 1, k))[i] = SubSeq(s, 1, k)[i + 1]
    <3>1. SubSeq(s, 1, k) \in Seq(1 .. n) /\ i \in 1 .. Len(SubSeq(s, 1, k)) - 1
      BY <1>1, <1>2, LeftAt
    <3> QED
      BY <1>3, <3>1
  <2> QED
    BY <1>2, <2>1, <2>2, <2>3
<1>7. ASSUME NEW m \in Nat, NEW u \in Seq(1 .. n), NEW v \in Seq(1 .. n), Len(u) = m, Len(v) = m,
             \A i \in 1 .. m : u[i] = v[i]
      PROVE  u = v
  BY <1>7
<1>8. k - 1 \in Nat
  BY <1>1
<1>9. SubSeq(Tail(s), 1, k - 1) = Tail(SubSeq(s, 1, k))
  BY <1>4, <1>5, <1>6, <1>7, <1>8, Zenon
<1> QED
  BY <1>3, <1>9

(* ... and the newest is walked.                                           *)
LEMMA LeftFront ==
  ASSUME NEW n \in Nat, NEW s \in Seq(1 .. n), NEW k \in 1 .. Len(s)
  PROVE  /\ SubSeq(s, 1, k) # <<>>
         /\ SubSeq(s, 1, k - 1) = SubSeq(SubSeq(s, 1, k), 1, Len(SubSeq(s, 1, k)) - 1)
<1>1. Len(s) \in Nat
  OBVIOUS
<1>2. Len(SubSeq(s, 1, k)) = k
  BY <1>1
<1> QED
  BY <1>1, <1>2

-----------------------------------------------------------------------------
(* What is mapped to begun[w] when one worker moves.                       *)
Begun == [w \in Workers |-> pc[w] = "release"]

LEMMA BegunStays ==
  ASSUME QInv, NEW w \in Workers, NEW point,
         pc' = [pc EXCEPT ![w] = point], point # "release", pc[w] # "release"
  PROVE  Begun' = Begun
BY DEF QInv, Begun

LEMMA NewMessage ==
  ASSUME QInv, added < MaxMessages
  PROVE  added + 1 \in Messages /\ added + 1 # 0 /\ ~HQ!Known(added + 1)
<1>1. added \in Nat /\ MaxMessages \in Nat
  BY BoundsAssumption DEF QInv
<1>2. \A i \in DOMAIN Left : Left[i] # added + 1
  <2>1. queue \in Seq(1 .. added) /\ Len(queue) - walked \in 0 .. Len(queue)
    BY DEF QInv
  <2>2. Left \in Seq(1 .. added)
    BY <1>1, <2>1, LeftAt DEF Left
  <2> QED
    BY <1>1, <2>2
<1>3. \A i \in DOMAIN dispatched : dispatched[i] # added + 1
  BY <1>1 DEF QInv
<1>4. ASSUME NEW w \in Workers
      PROVE  msg[w] # added + 1
  <2>1. msg[w] \in 0 .. added
    BY DEF QInv
  <2>2. \A k \in 0 .. added : k # added + 1
    BY <1>1
  <2> QED
    BY <2>1, <2>2
<1>5. ~HQ!Known(added + 1)
  BY <1>2, <1>3, <1>4 DEF HQ!Known, HQ!InList, HQ!Dispatched, HQ!Takers
<1> QED
  BY <1>1, <1>5 DEF Messages

LEMMA RefinesHandleQueue == QInv /\ [Next]_vars => [HQ!HQNext(Messages) \/ Overtaken']_(HQ!hqVars)
<1> SUFFICES ASSUME QInv, [Next]_vars, ~Overtaken'
             PROVE  HQ!HQNext(Messages) \/ UNCHANGED <<Left, free, msg, Begun, dispatched>>
  BY DEF HQ!hqVars, Begun
<1>0. queue \in Seq(1 .. added) /\ added \in Nat /\ Len(queue) \in Nat /\ walked \in 0 .. Len(queue)
  BY DEF QInv
<1>1. CASE Add
  <2>1. walked = 0 /\ walked' = 0 /\ queue' = Append(queue, added + 1) /\ queue' \in Seq(1 .. added + 1)
    BY <1>0, <1>1, MoreMessages DEF Add, QInv, ending
  <2>2. Left = queue
    BY <2>1, LeftIsQueue
  <2>3. Left' = Append(queue, added + 1)
    <3>1. SubSeq(queue', 1, Len(queue')) = queue' /\ Len(queue') \in Nat
      BY <1>0, <2>1
    <3> QED
      BY <2>1, <3>1 DEF Left
  <2>4. HQ!Put(added + 1)
    BY <1>1, <2>2, <2>3, NewMessage DEF Add, CanCopy, HQ!Put
  <2> QED
    BY <1>1, <2>4, NewMessage DEF Add, HQ!HQNext
<1>2. CASE AddWithoutMemory
  <2>1. Left' = Left
    BY <1>2 DEF AddWithoutMemory, ending, Left
  <2>2. HQ!Pass(added + 1)
    BY <1>2, <2>1, NewMessage DEF AddWithoutMemory, HQ!Pass
  <2> QED
    BY <1>2, <2>2, NewMessage DEF AddWithoutMemory, HQ!HQNext
<1>3. ASSUME NEW w \in Workers, WorkerStep(w)
      PROVE  HQ!HQWorker(w) \/ UNCHANGED <<Left, free, msg, Begun, dispatched>>
  <2>1. CASE Fetch(w)
    <3>1. msg[w] = 0
      BY <2>1 DEF Fetch, QInv, Holding
    <3>2. Begun' = Begun
      BY <2>1, BegunStays DEF Fetch, Goto
    <3>3. walked < Len(queue) /\ walked' = walked /\ queue' = Tail(queue)
      BY <2>1 DEF Fetch, Overtaken
    <3>4. Len(queue) - walked \in 1 .. Len(queue) /\ Len(queue') - walked' = (Len(queue) - walked) - 1
      BY <1>0, <3>3
    <3>5. Left # <<>> /\ Head(Left) = Head(queue) /\ Left' = Tail(Left)
      BY <1>0, <3>3, <3>4, LeftTail DEF Left
    <3>6. HQ!Take(w)
      BY <2>1, <3>1, <3>2, <3>5 DEF Fetch, HQ!Take, Begun
    <3> QED
      BY <3>6 DEF HQ!HQWorker
  <2>2. CASE FetchNone(w)
    BY <2>2, BegunStays DEF FetchNone, Goto, data, ending, Left
  <2>3. CASE DispatchIt(w)
    <3>1. msg[w] # 0 /\ pc[w] = "dispatch" /\ Left' = Left
      BY <2>3 DEF DispatchIt, QInv, Holding, ending, Left
    <3>2. Begun' = [Begun EXCEPT ![w] = TRUE]
      BY <2>3 DEF DispatchIt, Goto, QInv, Begun
    <3>3. HQ!Begin(w)
      BY <2>3, <3>1, <3>2 DEF DispatchIt, HQ!Begin, Begun
    <3> QED
      BY <3>3 DEF HQ!HQWorker
  <2>4. CASE Release(w)
    <3>1. Begun' = [Begun EXCEPT ![w] = FALSE] /\ Left' = Left
      BY <2>4 DEF Release, Goto, QInv, Begun, ending, Left
    <3>2. HQ!GiveBack(w)
      BY <2>4, <3>1 DEF Release, HQ!GiveBack, Begun
    <3> QED
      BY <3>2 DEF HQ!HQWorker
  <2>5. CASE ReleaseAgain(w)
    BY <2>5 DEF ReleaseAgain, Overtaken
  <2>6. CASE Wait(w)
    <3>1. PICK point \in (Running \cup Waiting \cup {"ended"}) \ Holding :
            pc' = [pc EXCEPT ![w] = point]
      BY <2>6, WaitMoves
    <3>2. Begun' = Begun
      BY <2>6, <3>1, WaitMoves, BegunStays DEF Holding
    <3> QED
      BY <2>6, <3>2, WaitMoves DEF data, ending, Left
  <2>7. CASE Interrupted(w)
    BY <2>7 DEF Interrupted, data, Begun, Left
  <2> QED
    BY <1>3, <2>1, <2>2, <2>3, <2>4, <2>5, <2>6, <2>7 DEF WorkerStep
<1>4. CASE AddTooLate \/ DestructorNotifies \/ InterruptAll \/ BeginRelease
  BY <1>4 DEF AddTooLate, DestructorNotifies, InterruptAll, BeginRelease, data, Begun, Left
<1>5. CASE ReleaseOne
  <2>1. walked < Len(queue) /\ walked' = walked + 1 /\ queue' = queue /\ free' = free + 1
        /\ UNCHANGED <<msg, dispatched, pc>>
    BY <1>5 DEF ReleaseOne
  <2>2. Len(queue) - walked \in 1 .. Len(queue) /\ Len(queue') - walked' = (Len(queue) - walked) - 1
    BY <1>0, <2>1
  <2>3. Left # <<>> /\ Left' = SubSeq(Left, 1, Len(Left) - 1)
    BY <1>0, <2>1, <2>2, LeftFront DEF Left
  <2>4. HQ!Drop
    BY <2>1, <2>3 DEF HQ!Drop
  <2> QED
    BY <2>4 DEF HQ!HQNext
<1>6. CASE ClearList
  <2>1. walked = Len(queue) /\ queue' = <<>> /\ walked' = 0 /\ UNCHANGED <<free, msg, dispatched, pc>>
    BY <1>6 DEF ClearList
  <2>2. Left = <<>> /\ Left' = <<>>
    BY <1>0, <2>1 DEF Left
  <2> QED
    BY <2>1, <2>2 DEF Begun
<1>7. CASE UNCHANGED vars
  BY <1>7 DEF vars, data, ending, Begun, Left
<1> QED
  BY <1>1, <1>2, <1>3, <1>4, <1>5, <1>6, <1>7 DEF Next, HQ!HQNext

(* The queue keeps what HandleQueue promises: messages are taken in the    *)
(* order they were added, each by one worker, dispatched once, and every   *)
(* handle is released once, by a worker or by the destructor, unless the   *)
(* destructor is overtaken while it walks the list without the mutex.      *)
THEOREM ImplementsQueue == Spec => ImplementsHandleQueue
<1>1. Init => HQ!HQInit
  <2>1. Init => Left = <<>>
    BY QInvInit, LeftIsQueue DEF Init
  <2> QED
    BY <2>1 DEF Init, HQ!HQInit
<1> QED
  BY <1>1, QInvInit, QInvNext, RefinesHandleQueue, PTL DEF Spec, ImplementsHandleQueue

-----------------------------------------------------------------------------
(* Where a message can be: the list is sorted by age and younger than what *)
(* workers have; no worker has what another has; what was dispatched is    *)
(* nowhere else, but with the worker that is about to release it.          *)
TakenInOrder ==
  /\ \A i, j \in DOMAIN queue : i < j => queue[i] < queue[j]
  /\ \A w \in Workers, i \in DOMAIN queue : msg[w] < queue[i]

OneTaker == \A v, w \in Workers : msg[v] # 0 /\ msg[v] = msg[w] => v = w

DispatchedOnce == \A i, j \in DOMAIN dispatched : dispatched[i] = dispatched[j] => i = j

NotAgain ==
  \A i \in DOMAIN dispatched :
    /\ \A j \in DOMAIN queue : dispatched[i] # queue[j]
    /\ \A w \in Workers : dispatched[i] = msg[w] => pc[w] = "release"

OnceInv == TakenInOrder /\ OneTaker /\ DispatchedOnce /\ NotAgain

LEMMA AppendAt ==
  ASSUME NEW n \in Nat, NEW s \in Seq(1 .. n), NEW m, NEW t, t = Append(s, m)
  PROVE  /\ \A i \in DOMAIN s : s[i] \in 1 .. n
         /\ \A i \in DOMAIN t : (i \in DOMAIN s /\ t[i] = s[i]) \/ (i = Len(s) + 1 /\ t[i] = m)
         /\ Len(s) \in Nat /\ DOMAIN s = 1 .. Len(s)
<1>1. \A i \in DOMAIN s : s[i] \in 1 .. n
  OBVIOUS
<1>2. Len(s) \in Nat /\ DOMAIN s = 1 .. Len(s)
  OBVIOUS
<1>3. \A i \in DOMAIN t : (i \in DOMAIN s /\ t[i] = s[i]) \/ (i = Len(s) + 1 /\ t[i] = m)
  OBVIOUS
<1> QED
  BY <1>1, <1>2, <1>3

LEMMA TailAt ==
  ASSUME NEW n \in Nat, NEW s \in Seq(1 .. n), s # <<>>
  PROVE  /\ 1 \in DOMAIN s /\ Head(s) = s[1]
         /\ \A i \in DOMAIN Tail(s) : i + 1 \in DOMAIN s /\ Tail(s)[i] = s[i + 1] /\ i \in Nat /\ 1 < i + 1
OBVIOUS

LEMMA OnceInit == Init => OnceInv
BY DEF Init, OnceInv, TakenInOrder, OneTaker, DispatchedOnce, NotAgain

(* A message that comes is younger than all others.                        *)
LEMMA OnceAdd ==
  ASSUME QInv, OnceInv, Add
  PROVE  OnceInv'
<1>1. /\ queue' = Append(queue, added + 1) /\ UNCHANGED <<pc, msg, dispatched>>
      /\ queue \in Seq(1 .. added) /\ added \in Nat /\ dispatched \in Seq(1 .. added)
  BY DEF Add, QInv
<1>2. /\ \A i \in DOMAIN queue : queue[i] \in 1 .. added
      /\ \A i \in DOMAIN queue' : \/ i \in DOMAIN queue /\ queue'[i] = queue[i]
                                  \/ i = Len(queue) + 1 /\ queue'[i] = added + 1
      /\ Len(queue) \in Nat /\ DOMAIN queue = 1 .. Len(queue)
  BY <1>1, AppendAt
<1>3. \A w \in Workers : msg[w] \in 0 .. added
  BY DEF QInv
<1>4. \A i \in DOMAIN dispatched : dispatched[i] \in 1 .. added
  BY <1>1
<1>5. TakenInOrder'
  <2>1. ASSUME NEW i \in DOMAIN queue', NEW j \in DOMAIN queue', i < j
        PROVE  queue'[i] < queue'[j]
    <3>1. i \in DOMAIN queue /\ queue'[i] = queue[i]
      BY <1>2, <2>1
    <3>2. CASE j \in DOMAIN queue /\ queue'[j] = queue[j]
      BY <2>1, <3>1, <3>2 DEF OnceInv, TakenInOrder
    <3>3. CASE queue'[j] = added + 1
      BY <1>1, <1>2, <3>1, <3>3
    <3> QED
      BY <1>2, <3>2, <3>3
  <2>2. ASSUME NEW w \in Workers, NEW i \in DOMAIN queue'
        PROVE  msg[w] < queue'[i]
    <3>1. msg[w] < added + 1
      BY <1>1, <1>3
    <3> QED
      BY <1>2, <3>1 DEF OnceInv, TakenInOrder
  <2> QED
    BY <1>1, <2>1, <2>2 DEF TakenInOrder
<1>6. NotAgain'
  BY <1>1, <1>2, <1>4 DEF OnceInv, NotAgain
<1> QED
  BY <1>1, <1>5, <1>6 DEF OnceInv, OneTaker, DispatchedOnce

LEMMA OncePass ==
  ASSUME QInv, OnceInv, AddWithoutMemory
  PROVE  OnceInv'
<1>1. /\ dispatched' = Append(dispatched, added + 1) /\ UNCHANGED <<pc, msg, queue>>
      /\ queue \in Seq(1 .. added) /\ added \in Nat /\ dispatched \in Seq(1 .. added)
  BY DEF AddWithoutMemory, QInv
<1>2. /\ \A i \in DOMAIN dispatched : dispatched[i] \in 1 .. added
      /\ \A i \in DOMAIN dispatched' : \/ i \in DOMAIN dispatched /\ dispatched'[i] = dispatched[i]
                                       \/ i = Len(dispatched) + 1 /\ dispatched'[i] = added + 1
      /\ Len(dispatched) \in Nat /\ DOMAIN dispatched = 1 .. Len(dispatched)
  BY <1>1, AppendAt
<1>3. \A w \in Workers : msg[w] \in 0 .. added
  BY DEF QInv
<1>4. \A i \in DOMAIN queue : queue[i] \in 1 .. added
  BY <1>1
<1>5. DispatchedOnce'
  BY <1>1, <1>2 DEF OnceInv, DispatchedOnce
<1>6. NotAgain'
  BY <1>1, <1>2, <1>3, <1>4 DEF OnceInv, NotAgain
<1> QED
  BY <1>1, <1>5, <1>6 DEF OnceInv, OneTaker, TakenInOrder

(* The oldest goes from the list to a worker.                              *)
LEMMA OnceFetch ==
  ASSUME QInv, OnceInv, NEW w \in Workers, Fetch(w)
  PROVE  OnceInv'
<1>1. /\ queue # <<>> /\ queue \in Seq(1 .. added) /\ added \in Nat
      /\ queue' = Tail(queue) /\ msg' = [msg EXCEPT ![w] = Head(queue)]
      /\ pc' = [pc EXCEPT ![w] = "dispatch"] /\ dispatched' = dispatched
  BY DEF Fetch, Goto, QInv
<1>2. /\ 1 \in DOMAIN queue /\ Head(queue) = queue[1]
      /\ \A i \in DOMAIN queue' : i + 1 \in DOMAIN queue /\ queue'[i] = queue[i + 1] /\ i \in Nat /\ 1 < i + 1
  BY <1>1, TailAt
<1>3. /\ msg'[w] = queue[1] /\ \A v \in Workers : v # w => msg'[v] = msg[v] /\ pc'[v] = pc[v]
  BY <1>1, <1>2 DEF QInv
<1>4. \A v \in Workers : msg[v] < queue[1]
  BY <1>2 DEF OnceInv, TakenInOrder
<1>5. TakenInOrder'
  <2>1. \A i, j \in DOMAIN queue' : i < j => queue'[i] < queue'[j]
    BY <1>2 DEF OnceInv, TakenInOrder
  <2>2. \A v \in Workers, i \in DOMAIN queue' : msg'[v] < queue'[i]
    <3> SUFFICES ASSUME NEW v \in Workers, NEW i \in DOMAIN queue'
                 PROVE  msg'[v] < queue'[i]
      OBVIOUS
    <3>1. queue[1] < queue[i + 1] /\ msg[v] < queue[i + 1] /\ queue'[i] = queue[i + 1]
      BY <1>2 DEF OnceInv, TakenInOrder
    <3>2. msg'[v] = queue[1] \/ msg'[v] = msg[v]
      BY <1>3
    <3> QED
      BY <3>1, <3>2
  <2> QED
    BY <2>1, <2>2 DEF TakenInOrder
<1>6. OneTaker'
  <2>1. \A v \in Workers : msg[v] # queue[1]
    <3> SUFFICES ASSUME NEW v \in Workers
                 PROVE  msg[v] # queue[1]
      OBVIOUS
    <3>1. queue[1] \in Int /\ msg[v] \in Int
      BY <1>1, <1>2 DEF QInv
    <3>2. msg[v] < queue[1]
      BY <1>4
    <3> QED
      BY <3>1, <3>2
  <2> QED
    BY <1>3, <2>1 DEF OnceInv, OneTaker
<1>7. NotAgain'
  BY <1>1, <1>2, <1>3 DEF OnceInv, NotAgain
<1> QED
  BY <1>1, <1>5, <1>6, <1>7 DEF OnceInv, DispatchedOnce

(* A worker dispatches what nobody dispatched before.                      *)
LEMMA OnceDispatch ==
  ASSUME QInv, OnceInv, NEW w \in Workers, DispatchIt(w)
  PROVE  OnceInv'
<1>1. /\ dispatched' = Append(dispatched, msg[w]) /\ pc[w] = "dispatch"
      /\ pc' = [pc EXCEPT ![w] = "release"] /\ UNCHANGED <<queue, msg>>
      /\ dispatched \in Seq(1 .. added) /\ added \in Nat
  BY DEF DispatchIt, Goto, QInv
<1>2. /\ \A i \in DOMAIN dispatched' : \/ i \in DOMAIN dispatched /\ dispatched'[i] = dispatched[i]
                                       \/ i = Len(dispatched) + 1 /\ dispatched'[i] = msg[w]
      /\ Len(dispatched) \in Nat /\ DOMAIN dispatched = 1 .. Len(dispatched)
  BY <1>1, AppendAt
<1>3. pc'[w] = "release" /\ \A v \in Workers : v # w => pc'[v] = pc[v]
  BY <1>1 DEF QInv
<1>4. msg[w] # 0 /\ msg[w] \in Int
  BY <1>1 DEF QInv, Holding
<1>5. \A i \in DOMAIN dispatched : dispatched[i] # msg[w]
  BY <1>1 DEF OnceInv, NotAgain
<1>6. \A j \in DOMAIN queue : msg[w] # queue[j]
  <2>1. \A j \in DOMAIN queue : msg[w] < queue[j] /\ queue[j] \in Int
    BY DEF OnceInv, TakenInOrder, QInv
  <2> QED
    BY <1>4, <2>1
<1>7. DispatchedOnce'
  BY <1>2, <1>5 DEF OnceInv, DispatchedOnce
<1>8. NotAgain'
  BY <1>1, <1>2, <1>3, <1>4, <1>6 DEF OnceInv, NotAgain, OneTaker
<1> QED
  BY <1>1, <1>7, <1>8 DEF OnceInv, OneTaker, TakenInOrder

LEMMA OnceRelease ==
  ASSUME QInv, OnceInv, NEW w \in Workers, Release(w)
  PROVE  OnceInv'
<1>1. /\ msg' = [msg EXCEPT ![w] = 0] /\ pc' = [pc EXCEPT ![w] = "fetch"] /\ UNCHANGED <<queue, dispatched>>
  BY DEF Release, Goto
<1>2. msg'[w] = 0 /\ \A v \in Workers : v # w => msg'[v] = msg[v] /\ pc'[v] = pc[v]
  BY <1>1 DEF QInv
<1>3. \A i \in DOMAIN queue : 0 < queue[i]
  BY DEF QInv
<1>4. \A i \in DOMAIN dispatched : dispatched[i] # 0
  BY DEF QInv
<1>5. TakenInOrder'
  BY <1>1, <1>2, <1>3 DEF OnceInv, TakenInOrder
<1>6. OneTaker'
  BY <1>2 DEF OnceInv, OneTaker
<1>7. NotAgain'
  BY <1>1, <1>2, <1>4 DEF OnceInv, NotAgain
<1> QED
  BY <1>1, <1>5, <1>6, <1>7 DEF OnceInv, DispatchedOnce

(* A worker without a message moves.                                       *)
LEMMA OnceMoves ==
  ASSUME QInv, OnceInv, NEW w \in Workers, NEW point, pc[w] \notin Holding,
         pc' = [pc EXCEPT ![w] = point], UNCHANGED <<queue, msg, dispatched>>
  PROVE  OnceInv'
<1>1. msg[w] = 0 /\ \A v \in Workers : v # w => pc'[v] = pc[v]
  BY DEF QInv
<1>2. \A i \in DOMAIN dispatched : dispatched[i] # 0
  BY DEF QInv
<1>3. NotAgain'
  BY <1>1, <1>2 DEF OnceInv, NotAgain
<1> QED
  BY <1>3 DEF OnceInv, TakenInOrder, OneTaker, DispatchedOnce

LEMMA OnceStays ==
  ASSUME OnceInv, UNCHANGED <<pc, msg, dispatched>>, queue' = queue \/ queue' = <<>>
  PROVE  OnceInv'
BY DEF OnceInv, TakenInOrder, OneTaker, DispatchedOnce, NotAgain

LEMMA OnceNext == QInv /\ OnceInv /\ [Next]_vars => OnceInv'
<1> SUFFICES ASSUME QInv, OnceInv, [Next]_vars PROVE OnceInv'
  OBVIOUS
<1>1. ASSUME NEW w \in Workers, FetchNone(w)
      PROVE  OnceInv'
  BY <1>1, OnceMoves DEF FetchNone, Goto, data, Holding
<1>2. ASSUME NEW w \in Workers, Wait(w)
      PROVE  OnceInv'
  <2>1. PICK point : pc' = [pc EXCEPT ![w] = point]
    BY <1>2, WaitMoves
  <2> QED
    BY <1>2, <2>1, WaitMoves, OnceMoves DEF data
<1>3. ASSUME NEW w \in Workers, Interrupted(w)
      PROVE  OnceInv'
  BY <1>3, OnceStays DEF Interrupted, data
<1>4. CASE DestructorNotifies \/ InterruptAll \/ BeginRelease \/ ReleaseOne \/ ClearList \/ UNCHANGED vars
  BY <1>4, OnceStays DEF DestructorNotifies, InterruptAll, BeginRelease, ReleaseOne, ClearList, vars, data
<1>5. CASE AddTooLate \/ \E w \in Workers : ReleaseAgain(w)
  BY <1>5, OnceStays DEF AddTooLate, ReleaseAgain, data
<1> QED
  BY <1>1, <1>2, <1>3, <1>4, <1>5, OnceAdd, OncePass, OnceFetch, OnceDispatch, OnceRelease DEF Next, WorkerStep

(* No message reaches DoData twice, and workers take them in the order in  *)
(* which they were added, for any number of workers and io threads, with   *)
(* or without memory for a copy, whatever the mutex lets through, and also *)
(* where a worker overtakes the destructor and takes a handle that has     *)
(* been released.                                                          *)
THEOREM EachMessageOnce == Spec => [](DispatchedOnce /\ TakenInOrder /\ OneTaker)
<1>1. OnceInv => DispatchedOnce /\ TakenInOrder /\ OneTaker
  BY DEF OnceInv
<1> QED
  BY <1>1, QInvInit, QInvNext, OnceInit, OnceNext, PTL DEF Spec

-----------------------------------------------------------------------------
(* Unless waiters were notified too early, the mutex does what is said in  *)
(* BoostConditionProofs; the destructor notifies, too.                     *)
WInv ==
  /\ ~early => CondInv
  /\ slept \subseteq Workers
  /\ stage # "alive" => early \/ slept = Workers

LEMMA PointsOutside == \A point \in Running \cup {"ended"} : point \notin Waiting
BY DEF Running, Waiting

LEMMA WInvInit == Init => WInv
<1> SUFFICES ASSUME Init PROVE WInv
  OBVIOUS
<1>1. CondInit /\ pc = [w \in Workers |-> "fetch"] /\ stage = "alive"
  BY DEF Init
<1>2. CondInv
  BY <1>1, PointsOutside, CondInvInit DEF Running
<1> QED
  BY <1>1, <1>2 DEF WInv, CondInit

LEMMA WInvNext == QInv /\ WInv /\ [Next]_vars => WInv'
<1> SUFFICES ASSUME QInv, WInv, [Next]_vars PROVE WInv'
  OBVIOUS
<1> USE DEF WInv
<1>1. CASE Add \/ DestructorNotifies
  <2>1. UNCHANGED <<pc, mutex>> /\ waiters' = {} /\ early' = (early \/ slept # Workers)
    BY <1>1 DEF Add, DestructorNotifies, Notified
  <2>2. slept' = slept
    BY <2>1 DEF mutex
  <2>3. ~early' => CondInv'
    BY <2>1, CondInvNotify
  <2> QED
    BY <2>1, <2>2, <2>3
<1>2. CASE AddTooLate \/ AddWithoutMemory \/ InterruptAll \/ BeginRelease \/ ReleaseOne \/ ClearList
           \/ UNCHANGED vars
  <2>1. UNCHANGED <<pc, waiters, mutex, early>> /\ (stage = "alive" => stage' = "alive")
    BY <1>2 DEF AddTooLate, AddWithoutMemory, InterruptAll, BeginRelease, ReleaseOne, ClearList,
       vars, data, notify, ending
  <2>2. slept' = slept
    BY <2>1 DEF mutex
  <2> QED
    BY <2>1, <2>2, CondInvStays
<1>3. ASSUME NEW w \in Workers, Fetch(w) \/ FetchNone(w) \/ DispatchIt(w) \/ Release(w)
      PROVE  WInv'
  <2>1. UNCHANGED <<waiters, mutex, early>> /\ pc[w] \in Running
        /\ \E point \in Running : Goto(w, point)
    BY <1>3 DEF Fetch, FetchNone, DispatchIt, Release, data, notify, Running
  <2>2. stage = "alive" => stage' = "alive"
    BY <1>3 DEF Fetch, FetchNone, DispatchIt, Release, ending
  <2>3. slept' = slept
    BY <2>1 DEF mutex
  <2>4. ~early => CondInv'
    BY <2>1, PointsOutside, CondInvGoto
  <2> QED
    BY <2>1, <2>2, <2>3, <2>4
<1>4. ASSUME NEW w \in Workers, Wait(w)
      PROVE  WInv'
  <2>1. WaitStep(w, Back(w)) /\ UNCHANGED <<early, stage>>
    BY <1>4 DEF Wait, data, ending
  <2>2. Back(w) \notin Waiting
    BY PointsOutside DEF Back, Running
  <2>3. ~early => CondInv'
    BY <2>1, <2>2, CondInvWait
  <2> QED
    BY <2>1, <2>3, SleptGrows
<1>5. ASSUME NEW w \in Workers, Interrupted(w)
      PROVE  WInv'
  <2>1. UNCHANGED <<pc, mutex, early, stage>> /\ waiters' \subseteq waiters /\ stage # "alive"
    BY <1>5 DEF Interrupted, data
  <2>2. slept' = slept
    BY <2>1 DEF mutex
  <2>3. ~early => CondInv'
    BY <2>1, CondInvNotify
  <2> QED
    BY <2>1, <2>2, <2>3
<1>6. ASSUME NEW w \in Workers, ReleaseAgain(w)
      PROVE  WInv'
  <2>1. UNCHANGED <<pc, waiters, mutex, early>> /\ w \in reused
    BY <1>6 DEF ReleaseAgain, data, notify
  <2>2. stage # "alive"
    BY <2>1 DEF QInv
  <2>3. slept' = slept
    BY <2>1 DEF mutex
  <2> QED
    BY <2>1, <2>2, <2>3, CondInvStays
<1> QED
  BY <1>1, <1>2, <1>3, <1>4, <1>5, <1>6 DEF Next, WorkerStep

(* Once warm, one worker at a time dispatches, and the first one that the  *)
(* destructor ends is the last one out of wait().                          *)
THEOREM OneWorkerAtATime == Spec => []OneOutside
<1>1. WInv => OneOutside
  <2> SUFFICES ASSUME CondInv, slept = Workers
               PROVE  Cardinality({w \in Workers : pc[w] \in Running \cup {"ended"}}) <= 1
    BY DEF WInv, OneOutside, Warm
  <2>1. {w \in Workers : pc[w] \in Running \cup {"ended"}} \in SUBSET {w \in Workers : pc[w] # "asleep"}
    BY DEF Running
  <2> QED
    BY <2>1, OneAtATime
<1> QED
  BY <1>1, QInvInit, QInvNext, WInvInit, WInvNext, PTL DEF Spec

(* Worker v ended and all others stand in wait().                          *)
LastOut(v) == Warm /\ pc[v] = "ended" /\ \A w \in Workers \ {v} : pc[w] = "asleep"

(* And there they stay: once warm, the first worker that interruption ends *)
(* is the only one that ever ends, and no other is ever out of wait()      *)
(* again, so that no message is taken after that, interrupted or not.      *)
THEOREM OthersStayInWait ==
  Spec => /\ [](\A v \in Workers : Warm /\ pc[v] = "ended" => LastOut(v))
          /\ [][\A v \in Workers : LastOut(v) => LastOut(v)' /\ UNCHANGED <<msg, mutex>>]_vars
<1>1. ASSUME WInv, NEW v \in Workers, Warm, pc[v] = "ended"
      PROVE  LastOut(v)
  BY <1>1, EndedKeepsMutex DEF WInv, Warm, LastOut
<1>2. ASSUME WInv, [Next]_vars, NEW v \in Workers, LastOut(v)
      PROVE  LastOut(v)' /\ UNCHANGED <<msg, mutex>>
  <2> USE <1>2
  <2>1. \A w \in Workers : \A back : ~WaitStep(w, back)
    BY EndedKeepsMutex DEF WInv, Warm, LastOut
  <2>2. \A w \in Workers : pc[w] \in {"asleep", "ended"}
    BY DEF LastOut
  <2>3. ASSUME NEW w \in Workers, WorkerStep(w)
        PROVE  Interrupted(w)
    BY <2>1, <2>2, <2>3 DEF WorkerStep, Fetch, FetchNone, DispatchIt, Release, ReleaseAgain, Wait
  <2>4. slept = Workers /\ ~early
    BY DEF LastOut, Warm
  <2>5. CASE Add \/ DestructorNotifies
    BY <2>4, <2>5 DEF Add, DestructorNotifies, LastOut, Warm, mutex
  <2>6. CASE AddTooLate \/ AddWithoutMemory \/ InterruptAll \/ BeginRelease \/ ReleaseOne \/ ClearList
             \/ UNCHANGED vars
    BY <2>4, <2>6 DEF AddTooLate, AddWithoutMemory, InterruptAll, BeginRelease, ReleaseOne, ClearList, vars, data, notify, LastOut, Warm, mutex
  <2>7. ASSUME NEW w \in Workers, Interrupted(w)
        PROVE  LastOut(v)' /\ UNCHANGED <<msg, mutex>>
    BY <2>4, <2>7 DEF Interrupted, data, LastOut, Warm, mutex
  <2> QED
    BY <2>3, <2>5, <2>6, <2>7 DEF Next
<1>3. WInv => \A v \in Workers : Warm /\ pc[v] = "ended" => LastOut(v)
  BY <1>1
<1>4. WInv /\ [Next]_vars => \A v \in Workers : LastOut(v) => LastOut(v)' /\ UNCHANGED <<msg, mutex>>
  BY <1>2
<1> QED
  BY <1>3, <1>4, QInvInit, QInvNext, WInvInit, WInvNext, PTL DEF Spec

-----------------------------------------------------------------------------
(* A handle is in the pool, in what the destructor has not walked of the   *)
(* list, or with a worker; what a worker takes of the rest is in the pool, *)
(* too.                                                                    *)
Handling == {w \in Workers : msg[w] # 0} \ reused

Balanced ==
  /\ IsFiniteSet(Handling)
  /\ free + (Len(queue) - walked) + Cardinality(Handling) = PoolSize

LEMMA BalancedInit == Init => Balanced
<1> SUFFICES ASSUME Init PROVE Balanced
  OBVIOUS
<1>1. Handling = {}
  BY DEF Init, Handling
<1> QED
  BY <1>1, FS_EmptySet, BoundsAssumption DEF Init, Balanced

LEMMA BalancedNext == QInv /\ Balanced /\ [Next]_vars => Balanced'
<1> SUFFICES ASSUME QInv, Balanced, [Next]_vars PROVE Balanced'
  OBVIOUS
<1>0. /\ Cardinality(Handling) \in Nat /\ Len(queue) \in Nat /\ free \in Nat /\ PoolSize \in Nat
      /\ walked \in Nat
  BY FS_CardinalityType, BoundsAssumption DEF Balanced, QInv
<1>1. CASE Add
  <2>1. Handling' = Handling /\ walked' = walked
    BY <1>1 DEF Add, Handling, ending
  <2>2. Len(queue') = Len(queue) + 1
    BY <1>1 DEF Add, QInv
  <2> QED
    BY <1>0, <1>1, <2>1, <2>2 DEF Add, Balanced
<1>2. ASSUME NEW w \in Workers, Fetch(w)
      PROVE  Balanced'
  <2>1. w \notin reused /\ msg[w] = 0
    BY <1>2 DEF Fetch, QInv, Holding
  <2>2. Head(queue) # 0 /\ Len(queue') = Len(queue) - 1
    <3>1. Head(queue) \in 1 .. added
      BY <1>2 DEF Fetch, QInv
    <3> QED
      BY <1>2, <3>1 DEF Fetch, QInv
  <2>3. free' = free /\ \A v \in Workers : msg'[v] # 0 <=> v = w \/ msg[v] # 0
    BY <1>2, <2>2 DEF Fetch, QInv
  <2>4. CASE walked' = walked /\ reused' = reused
    <3>1. Handling' = Handling \cup {w} /\ w \notin Handling
      BY <2>1, <2>3, <2>4 DEF Handling
    <3>2. IsFiniteSet(Handling') /\ Cardinality(Handling') = Cardinality(Handling) + 1
      BY <3>1, FS_AddElement DEF Balanced
    <3> QED
      BY <1>0, <2>2, <2>3, <2>4, <3>2 DEF Balanced
  <2>5. CASE walked' = walked - 1 /\ reused' = reused \cup {w}
    <3>1. Handling' = Handling
      BY <2>1, <2>3, <2>5 DEF Handling
    <3> QED
      BY <1>0, <2>2, <2>3, <2>5, <3>1 DEF Balanced
  <2> QED
    BY <1>2, <2>4, <2>5 DEF Fetch
<1>3. ASSUME NEW w \in Workers, Release(w)
      PROVE  Balanced'
  <2>1. free' = free + 1 /\ queue' = queue /\ walked' = walked
    BY <1>3 DEF Release, ending
  <2>2. Handling' = Handling \ {w} /\ w \in Handling
    BY <1>3 DEF Release, Handling, QInv, Holding, ending
  <2>3. IsFiniteSet(Handling') /\ Cardinality(Handling') = Cardinality(Handling) - 1
    BY <2>2, FS_RemoveElement DEF Balanced
  <2> QED
    BY <1>0, <2>1, <2>3 DEF Balanced
<1>4. CASE ReleaseOne
  <2>1. Handling' = Handling /\ queue' = queue /\ walked' = walked + 1 /\ free' = free + 1
    BY <1>4 DEF ReleaseOne, Handling
  <2> QED
    BY <1>0, <2>1 DEF Balanced
<1>5. CASE ClearList
  <2>1. Handling' = Handling /\ walked = Len(queue) /\ Len(queue') = 0 /\ walked' = 0 /\ free' = free
    BY <1>5 DEF ClearList, Handling
  <2> QED
    BY <1>0, <2>1 DEF Balanced
<1>6. CASE UNCHANGED <<queue, free, msg, walked, reused>>
  BY <1>6 DEF Balanced, Handling
<1>7. ASSUME NEW w \in Workers, FetchNone(w) \/ DispatchIt(w) \/ ReleaseAgain(w) \/ Wait(w) \/ Interrupted(w)
      PROVE  UNCHANGED <<queue, free, msg, walked, reused>>
  BY <1>7 DEF FetchNone, DispatchIt, ReleaseAgain, Wait, Interrupted, data, ending
<1>8. AddTooLate \/ AddWithoutMemory \/ DestructorNotifies \/ InterruptAll \/ BeginRelease \/ UNCHANGED vars
        => UNCHANGED <<queue, free, msg, walked, reused>>
  BY DEF AddTooLate, AddWithoutMemory, DestructorNotifies, InterruptAll, BeginRelease, vars, data, ending
<1> QED
  BY <1>1, <1>2, <1>3, <1>4, <1>5, <1>6, <1>7, <1>8 DEF Next, WorkerStep

(* What TypeOK says beyond QInv and Balanced.                              *)
Rest ==
  /\ added <= MaxMessages
  /\ CondTypeOK
  /\ early \in BOOLEAN
  /\ stage \in {"alive", "notified", "interrupted", "releasing", "gone", "undefined"}
  /\ thrown \subseteq Workers
  /\ reused \subseteq Workers

LEMMA RestInit == Init => Rest
<1> SUFFICES ASSUME Init PROVE Rest
  OBVIOUS
<1>1. CondTypeOK
  BY CondTypeInit DEF Init
<1>2. added <= MaxMessages
  BY BoundsAssumption DEF Init
<1> QED
  BY <1>1, <1>2 DEF Init, Rest

LEMMA RestNext == QInv /\ Rest /\ [Next]_vars => Rest'
<1> SUFFICES ASSUME QInv, Rest, [Next]_vars PROVE Rest'
  OBVIOUS
<1>1. CASE Add \/ AddWithoutMemory
  <2>1. added' <= MaxMessages
    BY <1>1, BoundsAssumption DEF Add, AddWithoutMemory, QInv
  <2>2. CondTypeOK'
    BY <1>1 DEF Add, AddWithoutMemory, Notified, notify, mutex, Rest, CondTypeOK
  <2>3. early' \in BOOLEAN /\ UNCHANGED <<stage, thrown, reused>>
    BY <1>1 DEF Add, AddWithoutMemory, ending, Rest
  <2> QED
    BY <2>1, <2>2, <2>3 DEF Rest
<1>2. ASSUME NEW w \in Workers, WorkerStep(w)
      PROVE  Rest'
  <2>1. UNCHANGED <<added, early>> /\ stage' \in {stage, "undefined"}
    BY <1>2 DEF WorkerStep, Fetch, FetchNone, DispatchIt, Release, ReleaseAgain, Wait, Interrupted, data, ending
  <2>2. thrown' \subseteq Workers /\ reused' \subseteq Workers
    BY <1>2 DEF WorkerStep, Fetch, FetchNone, DispatchIt, Release, ReleaseAgain, Wait, Interrupted, ending, Rest
  <2>3. CASE Wait(w)
    BY <2>1, <2>2, <2>3, CondTypeWait DEF Wait, Rest
  <2>4. CASE ~Wait(w)
    <3>1. CondTypeOK'
      BY <1>2, <2>4
         DEF WorkerStep, Fetch, FetchNone, DispatchIt, Release, ReleaseAgain, Interrupted, notify, mutex, Rest,
             CondTypeOK
    <3> QED
      BY <2>1, <2>2, <3>1 DEF Rest
  <2> QED
    BY <2>3, <2>4
<1>3. CASE AddTooLate \/ DestructorNotifies \/ InterruptAll \/ BeginRelease \/ ReleaseOne \/ ClearList
  <2>1. CondTypeOK' /\ UNCHANGED <<added, thrown, reused>>
    BY <1>3 DEF AddTooLate, DestructorNotifies, InterruptAll, BeginRelease, ReleaseOne, ClearList, data, notify,
                mutex, Rest, CondTypeOK
  <2>2. early' \in BOOLEAN /\ stage' \in {stage, "notified", "interrupted", "releasing", "gone", "undefined"}
    BY <1>3 DEF AddTooLate, DestructorNotifies, InterruptAll, BeginRelease, ReleaseOne, ClearList, data, Rest
  <2> QED
    BY <2>1, <2>2 DEF Rest
<1>4. CASE UNCHANGED vars
  BY <1>4 DEF vars, data, notify, mutex, ending, Rest, CondTypeOK
<1> QED
  BY <1>1, <1>2, <1>3, <1>4 DEF Next

LEMMA Invariants == Spec => [](QInv /\ Balanced /\ Rest)
BY QInvInit, QInvNext, BalancedInit, BalancedNext, RestInit, RestNext, PTL DEF Spec

(* The pool's count is right at every moment, also while the destructor    *)
(* walks the list: no handle is lost by interruption, and none is added to *)
(* the pool a second time before a worker releases again what it took from *)
(* the walked end of the list, which is where the behaviour is undefined.  *)
THEOREM NoHandleLost == Spec => []Balanced
BY Invariants, PTL

(* The type invariant; the pool never holds more than it began with.       *)
THEOREM QueueTypes == Spec => []TypeOK
<1>1. QInv /\ Balanced /\ Rest => TypeOK
  <2> SUFFICES ASSUME QInv, Balanced, Rest PROVE TypeOK
    OBVIOUS
  <2>1. \A k \in 1 .. added : k \in Messages
    BY BoundsAssumption DEF QInv, Rest, Messages
  <2>2. queue \in Seq(Messages) /\ dispatched \in Seq(Messages)
    <3>1. 1 .. added \subseteq Messages
      BY <2>1
    <3> QED
      BY <3>1, SeqOfMore DEF QInv
  <2>3. free \in 0 .. PoolSize
    <3>1. Cardinality(Handling) \in Nat /\ Len(queue) - walked \in Nat
      BY FS_CardinalityType DEF Balanced, QInv
    <3> QED
      BY <3>1, BoundsAssumption DEF Balanced, QInv
  <2>4. added \in 0 .. MaxMessages
    BY BoundsAssumption DEF QInv, Rest
  <2>5. msg \in [Workers -> Messages \cup {0}]
    <3>1. ASSUME NEW w \in Workers
          PROVE  msg[w] = 0 \/ msg[w] \in 1 .. added
      <4>1. msg[w] \in 0 .. added /\ added \in Nat
        BY DEF QInv
      <4> QED
        BY <4>1
    <3>2. \A w \in Workers : msg[w] \in Messages \cup {0}
      BY <2>1, <3>1
    <3> QED
      BY <3>2 DEF QInv
  <2> QED
    BY <2>2, <2>3, <2>4, <2>5 DEF TypeOK, QInv, Rest
<1> QED
  BY <1>1, Invariants, PTL
=============================================================================
