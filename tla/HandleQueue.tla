----------------------------- MODULE HandleQueue -----------------------------
(***************************************************************************)
(* What MessageQueue promises to the io threads that add to it and to the  *)
(* class whose messages it dispatches: a pool of handles, a list that is   *)
(* first in first out, and workers that take one message at a time.  How   *)
(* the workers wait is left out; MessageQueue is shown to implement this.  *)
(***************************************************************************)
EXTENDS Integers, FiniteSets, Sequences

CONSTANTS
  Workers,      (* threads that dispatch messages                          *)
  PoolSize,     (* handles the queue's own pool can give out               *)
  NoMessage     (* stands for no message                                   *)

ASSUME PoolAssumption == PoolSize \in Nat

VARIABLES
  list,         (* messages not yet taken, oldest first                    *)
  room,         (* handles left in the pool                                *)
  inHand,       (* inHand[w]: the message worker w has taken               *)
  begun,        (* begun[w]: w has passed it to the dispatching function   *)
  dispatched    (* messages passed to the dispatching function, in order   *)

hqVars == <<list, room, inHand, begun, dispatched>>

InList(m)     == \E i \in DOMAIN list : list[i] = m
Dispatched(m) == \E i \in DOMAIN dispatched : dispatched[i] = m
Takers        == {w \in Workers : inHand[w] # NoMessage}
Known(m)      == InList(m) \/ Dispatched(m) \/ \E w \in Takers : inHand[w] = m

HQInit ==
  /\ list = <<>>
  /\ room = PoolSize
  /\ inHand = [w \in Workers |-> NoMessage]
  /\ begun = [w \in Workers |-> FALSE]
  /\ dispatched = <<>>

(* A handle is there for a copy of message m.                              *)
Put(m) ==
  /\ m # NoMessage /\ ~Known(m)
  /\ room > 0
  /\ room' = room - 1
  /\ list' = Append(list, m)
  /\ UNCHANGED <<inHand, begun, dispatched>>

(* Bug: the message is read under the lock and not removed.                *)
Take_LeavesIt(w) ==
  /\ inHand[w] = NoMessage
  /\ list # <<>>
  /\ inHand' = [inHand EXCEPT ![w] = Head(list)]
  /\ UNCHANGED <<list, room, begun, dispatched>>

(* Bug: messages are taken where they are pushed.                          *)
Take_Newest(w) ==
  /\ inHand[w] = NoMessage
  /\ list # <<>>
  /\ inHand' = [inHand EXCEPT ![w] = list[Len(list)]]
  /\ list' = SubSeq(list, 1, Len(list) - 1)
  /\ UNCHANGED <<room, begun, dispatched>>

(* Bug: a list of one message counts as empty.                             *)
Take_LeavesLast(w) ==
  /\ inHand[w] = NoMessage
  /\ Len(list) > 1
  /\ inHand' = [inHand EXCEPT ![w] = Head(list)]
  /\ list' = Tail(list)
  /\ UNCHANGED <<room, begun, dispatched>>

Take(w) ==
  /\ inHand[w] = NoMessage
  /\ list # <<>>
  /\ inHand' = [inHand EXCEPT ![w] = Head(list)]
  /\ list' = Tail(list)
  /\ UNCHANGED <<room, begun, dispatched>>

Begin(w) ==
  /\ inHand[w] # NoMessage /\ ~begun[w]
  /\ begun' = [begun EXCEPT ![w] = TRUE]
  /\ dispatched' = Append(dispatched, inHand[w])
  /\ UNCHANGED <<list, room, inHand>>

GiveBack(w) ==
  /\ begun[w]
  /\ begun' = [begun EXCEPT ![w] = FALSE]
  /\ inHand' = [inHand EXCEPT ![w] = NoMessage]
  /\ room' = room + 1
  /\ UNCHANGED <<list, dispatched>>

(* The thread that has m dispatches it itself.                             *)
Pass(m) ==
  /\ m # NoMessage /\ ~Known(m)
  /\ dispatched' = Append(dispatched, m)
  /\ UNCHANGED <<list, room, inHand, begun>>

(* The queue is destroyed: the handles of what is left are freed, one by   *)
(* one and the newest first.                                               *)
Drop ==
  /\ list # <<>>
  /\ list' = SubSeq(list, 1, Len(list) - 1)
  /\ room' = room + 1
  /\ UNCHANGED <<inHand, begun, dispatched>>

HQWorker(w) == Take(w) \/ Begin(w) \/ GiveBack(w)

HQNext(Messages) ==
  \/ \E m \in Messages : Put(m) \/ (room = 0 /\ Pass(m))
  \/ \E w \in Workers : HQWorker(w)
  \/ Drop
=============================================================================
