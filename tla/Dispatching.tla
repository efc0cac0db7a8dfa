----------------------------- MODULE Dispatching -----------------------------
(***************************************************************************)
(* ReceiveManager with its message queue: what is received on io threads   *)
(* reaches DoData.  A packet that fills a buffer is added to the queue, to *)
(* be dispatched by a worker; packets in front of others in a buffer, and  *)
(* all packets when the queue has no memory, go to DoData at once, on the  *)
(* io thread.  So up to two threads work on the packets of a connection,   *)
(* and in two orders.                                                      *)
(*                                                                         *)
(* The receiving half is ReceiveManager, action by action; the queue is    *)
(* HandleQueue, which MessageQueue implements.                             *)
(***************************************************************************)
EXTENDS ReceiveManager, HandleQueue

VARIABLES
  calling,      (* calling[t]: the message io thread t is in DoData with   *)
  overlapped    (* two workers have had a message at the same time         *)

queueVars == <<hqVars, overlapped>>
dVars     == <<vars, queueVars, calling>>

-----------------------------------------------------------------------------

(* A message is an entry of handed: its connection and its place there.    *)
Message(s, n) == [sock |-> s, n |-> n]
EntryOf(m)    == handed[m.sock][m.n]

(* What Add and Receive do with the message a step has just handed over.   *)
Newest(s)  == Message(s, Len(handed'[s]))
ViaOf(s)   == handed'[s][Len(handed'[s])].via

Route(t, s) ==
  \/ ViaOf(s) = "queue" /\ Put(Newest(s)) /\ UNCHANGED calling
  \/ /\ ViaOf(s) = "batch" \/ (ViaOf(s) = "caller" /\ room = 0)
     /\ Pass(Newest(s))
     /\ calling' = [calling EXCEPT ![t] = Newest(s)]

DInit ==
  /\ Init
  /\ HQInit
  /\ calling = [t \in Threads |-> NoMessage]
  /\ overlapped = FALSE

-----------------------------------------------------------------------------

(* Connections, peers, and completions taken by io threads.                *)
Network ==
  /\ \/ \E s \in Sockets : Open(s) \/ PeerCloses(s) \/ ClosedHere(s)
     \/ \E h \in Handles : Arrive(h) \/ CompleteEmpty(h)
     \/ \E t \in Threads, h \in Handles : Run(t, h)
  /\ UNCHANGED <<queueVars, calling>>

(* Bug: the callback posts the next receive before DoData returns.         *)
IoStep_NotWaiting(t) ==
  /\ Step(t)
  /\ IF handed' = handed THEN UNCHANGED <<hqVars, calling>> ELSE Route(t, sock[serving[t]])
  /\ UNCHANGED overlapped

(* Io thread t goes on in AsynReceive, up to the next call of DoData.      *)
IoStep(t) ==
  /\ calling[t] = NoMessage
  /\ Step(t)
  /\ IF handed' = handed THEN UNCHANGED <<hqVars, calling>> ELSE Route(t, sock[serving[t]])
  /\ UNCHANGED overlapped

DoDataReturns(t) ==
  /\ calling[t] # NoMessage
  /\ calling' = [calling EXCEPT ![t] = NoMessage]
  /\ UNCHANGED <<vars, queueVars>>

Work(w) ==
  /\ HQWorker(w)
  /\ overlapped' = (overlapped \/ Cardinality(Takers') > 1)
  /\ UNCHANGED <<vars, calling>>

DNext ==
  \/ Network
  \/ \E t \in Threads : IoStep(t) \/ DoDataReturns(t)
  \/ \E w \in Workers : Work(w)

(* DoData returns, and so a worker that has taken a message dispatches and *)
(* releases it.  That a worker comes to take one is not assumed: where it  *)
(* begins to wait it may miss its notify, or stall.                        *)
DFairness ==
  /\ \A t \in Threads : WF_dVars(IoStep(t) \/ DoDataReturns(t))
  /\ \A w \in Workers : WF_dVars(inHand[w] # NoMessage /\ Work(w))

DSpec == DInit /\ [][DNext]_dVars
DFairSpec == DSpec /\ DFairness

-----------------------------------------------------------------------------
IoInDoData(s)     == {t \in Threads : calling[t] # NoMessage /\ calling[t].sock = s}
WorkerInDoData(s) == {w \in Workers : begun[w] /\ inHand[w].sock = s}

(* DoData never runs on two io threads for one connection, whichever of    *)
(* them received what: the next receive is posted after DoData returned.   *)
OneIoThread == \A s \in Sockets : \A t, u \in IoInDoData(s) : t = u

(* Every packet handed over is in the list, with a worker or dispatched,   *)
(* and in one of these places only: none is lost between Receive and       *)
(* DoData, and none is handled twice.                                      *)
Places(m) ==
  {<<"list", i>> : i \in {j \in DOMAIN list : list[j] = m}}
    \cup {<<"worker", w>> : w \in {v \in Workers : inHand[v] = m /\ ~begun[v]}}
    \cup {<<"dispatched", i>> : i \in {j \in DOMAIN dispatched : dispatched[j] = m}}

EachOnce ==
  \A s \in Sockets : \A n \in DOMAIN handed[s] : Cardinality(Places(Message(s, n))) = 1

(* Packets of a connection change their order in one way only: one that an *)
(* io thread dispatches itself overtakes one that is in the queue.  (While *)
(* workers take turns, as MessageQueue's do once it is warm.)              *)
OnlyQueuedOvertaken ==
  ~overlapped => \A i, j \in DOMAIN dispatched :
    LET first == dispatched[i] second == dispatched[j] IN
    i < j /\ first.sock = second.sock /\ first.n > second.n
      => EntryOf(first).via # "queue" /\ EntryOf(second).via = "queue"

(* When a worker tells the derived class that a connection has ended, all  *)
(* of its packets were dispatched, and no other thread is in DoData with   *)
(* one: the class may drop what it keeps for the connection.  (Not so when *)
(* the end is told by an io thread, for want of memory.)                   *)
EndIsQuiet ==
  ~overlapped => \A w \in Workers :
    begun[w] /\ EntryOf(inHand[w]).zero =>
      LET s == inHand[w].sock IN
      /\ \A n \in DOMAIN handed[s] : Dispatched(Message(s, n))
      /\ IoInDoData(s) = {}

(* Workers come to take what is in the list.  MessageQueue's do if all of  *)
(* them slept before the first message (WarmDispatch); before that they    *)
(* may not, and then the list is left for good.                            *)
WorkersTake == WF_hqVars(\E w \in Workers : Take(w))

(* If they do, every packet handed over reaches DoData: again and again    *)
(* (streams end) nothing is left that did not, whatever was dispatched on  *)
(* io threads meanwhile and however short the pool was.                    *)
AllDispatched ==
  WorkersTake => []<>(\A s \in Sockets : \A n \in DOMAIN handed[s] : Dispatched(Message(s, n)))
=============================================================================
