--------------------------- MODULE AcceptorProofs ---------------------------
(***************************************************************************)
(* Theorems about Acceptor, for any number of threads, prepared accepts    *)
(* and connections: as many accepts stay prepared as RunAll posted, and a  *)
(* socket object has one owner until the manager keeps it.                 *)
(***************************************************************************)
EXTENDS Acceptor, FiniteSetTheorems, TLAPS

Accepting == {"accepted", "refused"}
Kinds     == {"accepted", "refused", "end"}

-----------------------------------------------------------------------------
(* Completions at the end of the queue of io_service and taken from its    *)
(* front.                                                                  *)
PendingIn(r, kinds) == {i \in DOMAIN r : r[i].kind \in kinds}

LEMMA PendingFinite ==
  ASSUME NEW r \in Seq(Completion), NEW kinds
  PROVE  /\ PendingIn(r, kinds) \in SUBSET (1 .. Len(r))
         /\ IsFiniteSet(PendingIn(r, kinds))
         /\ Cardinality(PendingIn(r, kinds)) \in Nat
<1>1. PendingIn(r, kinds) \in SUBSET (1 .. Len(r)) /\ Len(r) \in Int
  BY DEF PendingIn
<1>2. IsFiniteSet(PendingIn(r, kinds))
  BY <1>1, FS_Interval, FS_Subset
<1> QED
  BY <1>1, <1>2, FS_CardinalityType

LEMMA Appended ==
  ASSUME NEW r \in Seq(Completion), NEW e \in Completion
  PROVE  /\ Append(r, e) \in Seq(Completion)
         /\ \A i \in DOMAIN r : i \in DOMAIN Append(r, e) /\ Append(r, e)[i] = r[i]
         /\ \A i \in DOMAIN Append(r, e) : i \in DOMAIN r \/ i = Len(r) + 1
         /\ Append(r, e)[Len(r) + 1] = e
         /\ Len(r) + 1 \in DOMAIN Append(r, e) /\ Len(r) + 1 \notin DOMAIN r
OBVIOUS

LEMMA PendingAppend ==
  ASSUME NEW r \in Seq(Completion), NEW e \in Completion, NEW kinds
  PROVE  Cardinality(PendingIn(Append(r, e), kinds)) =
           Cardinality(PendingIn(r, kinds)) + (IF e.kind \in kinds THEN 1 ELSE 0)
<1>1. CASE e.kind \in kinds
  <2>1. PendingIn(Append(r, e), kinds) = PendingIn(r, kinds) \cup {Len(r) + 1}
    BY <1>1, Appended DEF PendingIn
  <2>2. Len(r) + 1 \notin PendingIn(r, kinds)
    BY Appended DEF PendingIn
  <2> QED
    BY <1>1, <2>1, <2>2, PendingFinite, FS_AddElement
<1>2. CASE e.kind \notin kinds
  <2>1. PendingIn(Append(r, e), kinds) = PendingIn(r, kinds)
    BY <1>2, Appended DEF PendingIn
  <2> QED
    BY <1>2, <2>1, PendingFinite
<1> QED
  BY <1>1, <1>2

LEMMA Tailed ==
  ASSUME NEW r \in Seq(Completion), r # <<>>
  PROVE  /\ Tail(r) \in Seq(Completion)
         /\ 1 \in DOMAIN r /\ Head(r) = r[1] /\ Head(r) \in Completion
         /\ \A i \in DOMAIN Tail(r) : i \in Nat /\ i + 1 \in DOMAIN r /\ i + 1 # 1 /\ Tail(r)[i] = r[i + 1]
         /\ \A i \in DOMAIN r : i \in Nat /\ (i # 1 => i - 1 \in DOMAIN Tail(r))
OBVIOUS

LEMMA PendingTail ==
  ASSUME NEW r \in Seq(Completion), r # <<>>, NEW kinds
  PROVE  Cardinality(PendingIn(Tail(r), kinds)) =
           Cardinality(PendingIn(r, kinds)) - (IF Head(r).kind \in kinds THEN 1 ELSE 0)
<1> DEFINE S == PendingIn(Tail(r), kinds)
           T == PendingIn(r, kinds) \ {1}
           f == [i \in S |-> i + 1]
<1>1. f \in Bijection(S, T)
  <2>1. \A i \in S : i \in Nat /\ i + 1 \in T
    <3>1. \A i \in DOMAIN Tail(r) : i \in Nat /\ i + 1 \in DOMAIN r \ {1} /\ Tail(r)[i] = r[i + 1]
      BY Tailed
    <3> QED
      BY <3>1 DEF PendingIn
  <2>2. \A j \in T : j \in Nat /\ j - 1 \in S /\ (j - 1) + 1 = j
    <3> SUFFICES ASSUME NEW j \in T PROVE j \in Nat /\ j - 1 \in S /\ (j - 1) + 1 = j
      OBVIOUS
    <3>1. j \in DOMAIN r /\ j # 1 /\ r[j].kind \in kinds
      BY DEF PendingIn
    <3>2. j \in Nat /\ j - 1 \in DOMAIN Tail(r)
      BY <3>1, Tailed
    <3>3. (j - 1) + 1 = j
      BY <3>2
    <3>4. Tail(r)[j - 1] = r[j]
      BY <3>2, <3>3, Tailed
    <3> QED
      BY <3>1, <3>2, <3>3, <3>4 DEF PendingIn
  <2> HIDE DEF S, T
  <2>3. f \in [S -> T]
    BY <2>1
  <2>4. \A i, j \in S : f[i] = f[j] => i = j
    BY <2>1
  <2>5. \A j \in T : \E i \in S : f[i] = j
    BY <2>2
  <2> QED
    BY <2>3, <2>4, <2>5 DEF Bijection, Injection, Surjection, IsInjective
<1>2. Cardinality(T) = Cardinality(S)
  <2>1. ExistsBijection(S, T)
    BY <1>1 DEF ExistsBijection
  <2>2. IsFiniteSet(S)
    BY Tailed, PendingFinite
  <2> HIDE DEF S, T
  <2> QED
    BY <2>1, <2>2, FS_Bijection
<1>3. Cardinality(T) = Cardinality(PendingIn(r, kinds)) - (IF 1 \in PendingIn(r, kinds) THEN 1 ELSE 0)
  <2>1. IsFiniteSet(PendingIn(r, kinds)) /\ Cardinality(PendingIn(r, kinds)) \in Nat
    BY PendingFinite
  <2>2. Cardinality(PendingIn(r, kinds) \ {1}) =
          IF 1 \in PendingIn(r, kinds) THEN Cardinality(PendingIn(r, kinds)) - 1
                                       ELSE Cardinality(PendingIn(r, kinds))
    BY <2>1, FS_RemoveElement, Zenon
  <2> QED
    BY <2>1, <2>2
<1>4. 1 \in PendingIn(r, kinds) <=> Head(r).kind \in kinds
  BY Tailed DEF PendingIn
<1> QED
  BY <1>2, <1>3, <1>4

-----------------------------------------------------------------------------
(* The sockets of accepts, of handlers and of the manager are different    *)
(* ones; and the threads in a handler are finitely many.                   *)
Busy == {t \in Threads : pc[t] # "run"}

Owners ==
  /\ \A s \in accepting : s \notin kept
  /\ \A i \in DOMAIN ready : ready[i].kind \in Accepting =>
       /\ ready[i].socket \notin accepting \cup kept
       /\ \A j \in DOMAIN ready :
            ready[j].kind \in Accepting /\ ready[j].socket = ready[i].socket => i = j
  /\ \A t \in Holding :
       /\ held[t] \notin accepting
       /\ \A i \in DOMAIN ready : ready[i].kind \in Accepting => ready[i].socket # held[t]
       /\ \A u \in Holding : held[t] = held[u] => t = u

Prepared ==
  /\ IsFiniteSet(Busy)
  /\ AcceptsPrepared

LEMMA OwnersSuffice == Owners => OneOwner
BY DEF Owners, OneOwner, Queued, Pending, Accepting

LEMMA OwnersInit == Init => Owners
BY DEF Init, Owners, Holding

LEMMA TypeInit == Init => TypeOK
BY AcceptsAssumption DEF Init, TypeOK, Holding

LEMMA PreparedInit == Init => Prepared
<1> SUFFICES ASSUME Init PROVE Prepared
  OBVIOUS
<1>1. Busy = {} /\ Pending(Accepting) = {}
  BY DEF Init, Busy, Pending
<1>2. Cardinality(accepting) = Accepts
  BY DEF Init
<1> QED
  BY <1>1, <1>2, FS_EmptySet, AcceptsAssumption DEF Prepared, AcceptsPrepared, Busy, Accepting

-----------------------------------------------------------------------------
LEMMA TypeNext == TypeOK /\ [Next]_vars => TypeOK'
<1> SUFFICES ASSUME TypeOK, [Next]_vars PROVE TypeOK'
  OBVIOUS
<1>1. ASSUME NEW s \in Sockets, ClientConnects(s) \/ AcceptFails(s) \/ PeerCloses(s)
      PROVE  TypeOK'
  <2>1. \A kind \in Kinds : [kind |-> kind, socket |-> s] \in Completion
    BY DEF Completion, Kinds
  <2>2. ready' \in Seq(Completion)
    BY <1>1, <2>1, Appended DEF ClientConnects, AcceptFails, PeerCloses, Complete, Kinds, TypeOK
  <2>3. connections' \in 0 .. MaxConnections
    BY <1>1, AcceptsAssumption DEF ClientConnects, AcceptFails, PeerCloses, TypeOK
  <2>4. pc' = pc /\ held' = held /\ Holding' = Holding
    BY <1>1 DEF ClientConnects, AcceptFails, PeerCloses, Holding
  <2> QED
    BY <1>1, <2>2, <2>3, <2>4 DEF ClientConnects, AcceptFails, PeerCloses, TypeOK
<1>2. ASSUME NEW t \in Threads, Accepted(t) \/ Refused(t) \/ ReadEnd(t)
      PROVE  TypeOK'
  <2>1. ready # <<>> /\ ready' = Tail(ready)
    BY <1>2 DEF Accepted, Refused, ReadEnd, Take
  <2>2. ready' \in Seq(Completion) /\ Head(ready).socket \in Sockets
    BY <2>1, Tailed DEF TypeOK, Completion
  <2> QED
    BY <1>2, <2>2 DEF Accepted, Refused, ReadEnd, Goto, TypeOK, Holding
<1>3. ASSUME NEW t \in Threads, Add(t) \/ PostReceive(t) \/ First(t) \/ PostAccept(t)
      PROVE  TypeOK'
  BY <1>3 DEF Add, PostReceive, First, PostAccept, Goto, TypeOK, Holding
<1>4. CASE UNCHANGED vars
  BY <1>4 DEF vars, TypeOK, Holding
<1> QED
  BY <1>1, <1>2, <1>3, <1>4 DEF Next, ThreadStep

-----------------------------------------------------------------------------
(* A socket that was accepting becomes one whose completion is queued.     *)
LEMMA OwnersComplete ==
  ASSUME TypeOK, Owners, NEW s \in accepting, NEW kind \in Accepting,
         accepting' = accepting \ {s}, Complete(s, kind), UNCHANGED <<kept, pc, held>>
  PROVE  Owners'
<1> DEFINE e == [kind |-> kind, socket |-> s]
<1>1. ready \in Seq(Completion) /\ e \in Completion /\ ready' = Append(ready, e)
  BY DEF TypeOK, Completion, Accepting, Complete
<1>2. /\ \A i \in DOMAIN ready : ready'[i] = ready[i]
      /\ \A i \in DOMAIN ready' : i \in DOMAIN ready \/ (i = Len(ready) + 1 /\ ready'[i] = e)
  BY <1>1, Appended
<1>3. Holding' = Holding
  BY DEF Holding
<1>4. e.socket = s /\ e.kind = kind
  OBVIOUS
<1> HIDE DEF e
<1>5. \A x \in accepting' : x \notin kept'
  BY DEF Owners
<1>6. ASSUME NEW i \in DOMAIN ready', ready'[i].kind \in Accepting
      PROVE  /\ ready'[i].socket \notin accepting' \cup kept'
             /\ \A j \in DOMAIN ready' :
                  ready'[j].kind \in Accepting /\ ready'[j].socket = ready'[i].socket => i = j
  BY <1>2, <1>4, <1>6 DEF Owners
<1>7. ASSUME NEW t \in Holding
      PROVE  /\ held[t] \notin accepting'
             /\ \A i \in DOMAIN ready' : ready'[i].kind \in Accepting => ready'[i].socket # held[t]
             /\ \A u \in Holding : held[t] = held[u] => t = u
  BY <1>2, <1>4 DEF Owners
<1> QED
  BY <1>3, <1>5, <1>6, <1>7 DEF Owners

(* A completion is taken; t is what holds its socket, if anything does.    *)
LEMMA OwnersTake ==
  ASSUME TypeOK, Owners, ready # <<>>, ready' = Tail(ready), UNCHANGED <<accepting, kept>>,
         \/ Holding' = Holding /\ \A u \in Holding : held'[u] = held[u]
         \/ \E t \in Threads : /\ Head(ready).kind \in Accepting
                               /\ Holding' = Holding \cup {t}
                               /\ held'[t] = Head(ready).socket
                               /\ \A u \in Holding : u # t /\ held'[u] = held[u]
  PROVE  Owners'
<1>1. /\ \A i \in DOMAIN ready' : i \in Nat /\ i + 1 \in DOMAIN ready /\ i + 1 # 1 /\ ready'[i] = ready[i + 1]
      /\ 1 \in DOMAIN ready /\ Head(ready) = ready[1]
  BY Tailed DEF TypeOK
<1>2. ASSUME NEW i \in DOMAIN ready', ready'[i].kind \in Accepting
      PROVE  /\ ready'[i].socket \notin accepting' \cup kept'
             /\ \A j \in DOMAIN ready' :
                  ready'[j].kind \in Accepting /\ ready'[j].socket = ready'[i].socket => i = j
  <2>1. ready'[i].socket \notin accepting' \cup kept'
    BY <1>1, <1>2 DEF Owners
  <2>2. ASSUME NEW j \in DOMAIN ready', ready'[j].kind \in Accepting,
               ready'[j].socket = ready'[i].socket
        PROVE  i = j
    <3>1. i + 1 = j + 1
      BY <1>1, <1>2, <2>2 DEF Owners
    <3> QED
      BY <1>1, <3>1
  <2> QED
    BY <2>1, <2>2
<1>3. ASSUME NEW t \in Holding'
      PROVE  /\ held'[t] \notin accepting'
             /\ \A i \in DOMAIN ready' : ready'[i].kind \in Accepting => ready'[i].socket # held'[t]
             /\ \A u \in Holding' : held'[t] = held'[u] => t = u
  <2>1. CASE Holding' = Holding /\ \A u \in Holding : held'[u] = held[u]
    BY <1>1, <1>3, <2>1 DEF Owners
  <2>2. CASE \E v \in Threads : /\ Head(ready).kind \in Accepting
                                /\ Holding' = Holding \cup {v}
                                /\ held'[v] = Head(ready).socket
                                /\ \A u \in Holding : u # v /\ held'[u] = held[u]
    <3> PICK v \in Threads : /\ ready[1].kind \in Accepting
                             /\ Holding' = Holding \cup {v}
                             /\ held'[v] = ready[1].socket
                             /\ \A u \in Holding : u # v /\ held'[u] = held[u]
      BY <1>1, <2>2
    <3>1. \A u \in Holding : held[u] # ready[1].socket
      BY <1>1 DEF Owners
    <3>2. ready[1].socket \notin accepting
      BY <1>1 DEF Owners
    <3>3. \A i \in DOMAIN ready' : ready'[i].kind \in Accepting => ready'[i].socket # ready[1].socket
      BY <1>1 DEF Owners
    <3> QED
      BY <1>1, <1>3, <3>1, <3>2, <3>3 DEF Owners
  <2> QED
    BY <2>1, <2>2
<1> QED
  BY <1>2, <1>3 DEF Owners

LEMMA OwnersNext == TypeOK /\ Owners /\ [Next]_vars => Owners'
<1> SUFFICES ASSUME TypeOK, Owners, [Next]_vars PROVE Owners'
  OBVIOUS
<1>1. ASSUME NEW s \in Sockets, ClientConnects(s) \/ AcceptFails(s) PROVE Owners'
  BY <1>1, OwnersComplete DEF ClientConnects, AcceptFails, Accepting
<1>2. ASSUME NEW s \in Sockets, PeerCloses(s) PROVE Owners'
  <2>1. ready \in Seq(Completion) /\ [kind |-> "end", socket |-> s] \in Completion
    BY DEF TypeOK, Completion
  <2>2. ready' = Append(ready, [kind |-> "end", socket |-> s])
    BY <1>2 DEF PeerCloses, Complete
  <2>3. /\ \A i \in DOMAIN ready' : ready'[i].kind \in Accepting => i \in DOMAIN ready /\ ready'[i] = ready[i]
    BY <2>1, <2>2, Appended DEF Accepting
  <2>4. UNCHANGED <<accepting, pc, held, kept>> /\ Holding' = Holding
    BY <1>2 DEF PeerCloses, Holding
  <2> QED
    BY <2>3, <2>4 DEF Owners
<1>3. ASSUME NEW t \in Threads, Accepted(t) PROVE Owners'
  <2>1. /\ ready # <<>> /\ ready' = Tail(ready) /\ UNCHANGED <<accepting, kept>>
        /\ Head(ready).kind \in Accepting /\ pc[t] = "run" /\ pc' = [pc EXCEPT ![t] = "add"]
        /\ held' = [held EXCEPT ![t] = Head(ready).socket]
    BY <1>3 DEF Accepted, Take, Goto, Accepting
  <2>2. Holding' = Holding \cup {t} /\ t \notin Holding
    BY <2>1 DEF Holding, TypeOK
  <2>3. held'[t] = Head(ready).socket /\ \A u \in Holding : u # t /\ held'[u] = held[u]
    BY <2>1, <2>2 DEF TypeOK, Holding
  <2> QED
    BY <2>1, <2>2, <2>3, OwnersTake
<1>4. ASSUME NEW t \in Threads, Refused(t) \/ ReadEnd(t) PROVE Owners'
  <2>1. /\ ready # <<>> /\ ready' = Tail(ready) /\ UNCHANGED <<accepting, kept>>
        /\ pc[t] = "run"
    BY <1>4 DEF Refused, ReadEnd, Take
  <2>2. Holding' = Holding /\ t \notin Holding
    BY <1>4, <2>1 DEF Refused, ReadEnd, Goto, Holding, TypeOK
  <2>3. \A u \in Holding : held'[u] = held[u]
    BY <1>4, <2>2 DEF Refused, ReadEnd, TypeOK, Holding
  <2> QED
    BY <2>1, <2>2, <2>3, OwnersTake
<1>5. ASSUME NEW t \in Threads, Add(t) PROVE Owners'
  <2>1. /\ kept' = kept \cup {held[t]} /\ UNCHANGED <<accepting, ready, held>>
        /\ t \in Holding /\ Holding' = Holding
    BY <1>5 DEF Add, Goto, Holding, TypeOK
  <2> QED
    BY <2>1 DEF Owners
<1>6. ASSUME NEW t \in Threads, PostReceive(t) \/ First(t) PROVE Owners'
  <2>1. UNCHANGED <<accepting, ready, held, kept>> /\ Holding' \subseteq Holding
    BY <1>6 DEF PostReceive, First, Goto, Holding, TypeOK
  <2> QED
    BY <2>1 DEF Owners
<1>7. ASSUME NEW t \in Threads, PostAccept(t) PROVE Owners'
  <2>1. PICK s \in Sockets \ Created : accepting' = accepting \cup {s}
    BY <1>7 DEF PostAccept
  <2>2. UNCHANGED <<ready, kept>> /\ t \notin Holding /\ Holding' = Holding
    BY <1>7 DEF PostAccept, Goto, Holding, TypeOK
  <2>3. \A u \in Holding : held'[u] = held[u]
    BY <1>7, <2>2 DEF PostAccept, TypeOK, Holding
  <2>4. /\ s \notin kept
        /\ \A i \in DOMAIN ready : ready[i].kind \in Accepting => ready[i].socket # s
        /\ \A u \in Holding : held[u] # s
    BY <2>1 DEF Created, Queued, Pending, Accepting
  <2> QED
    BY <2>1, <2>2, <2>3, <2>4 DEF Owners
<1>8. CASE UNCHANGED vars
  <2>1. UNCHANGED <<accepting, ready, held, kept>> /\ Holding' = Holding
    BY <1>8 DEF vars, Holding
  <2> QED
    BY <2>1 DEF Owners
<1> QED
  BY <1>1, <1>2, <1>3, <1>4, <1>5, <1>6, <1>7, <1>8 DEF Next, ThreadStep

-----------------------------------------------------------------------------
(* How many accepts are under way, completed, and in the hands of threads. *)
LEMMA Counted ==
  ASSUME TypeOK, Prepared
  PROVE  /\ IsFiniteSet(accepting) /\ Cardinality(accepting) \in Nat
         /\ IsFiniteSet(Busy) /\ Cardinality(Busy) \in Nat
         /\ Cardinality(PendingIn(ready, Accepting)) \in Nat
         /\ Cardinality(accepting) + Cardinality(PendingIn(ready, Accepting)) + Cardinality(Busy) = Accepts
<1>1. IsFiniteSet(accepting)
  BY SocketsAssumption, FS_Subset DEF TypeOK
<1>2. Cardinality(PendingIn(ready, Accepting)) \in Nat
  BY PendingFinite DEF TypeOK
<1> QED
  BY <1>1, <1>2, FS_CardinalityType DEF Prepared, AcceptsPrepared, Busy, Accepting, Pending, PendingIn

LEMMA BusyMore ==
  ASSUME IsFiniteSet(Busy), pc \in [Threads -> {"run", "add", "receive", "first", "repost"}],
         NEW t \in Threads, pc[t] = "run", NEW point, point # "run",
         pc' = [pc EXCEPT ![t] = point]
  PROVE  IsFiniteSet(Busy') /\ Cardinality(Busy') = Cardinality(Busy) + 1
<1>1. Busy' = Busy \cup {t} /\ t \notin Busy
  BY DEF Busy
<1> QED
  BY <1>1, FS_AddElement

LEMMA BusyLess ==
  ASSUME IsFiniteSet(Busy), pc \in [Threads -> {"run", "add", "receive", "first", "repost"}],
         NEW t \in Threads, pc[t] # "run", pc' = [pc EXCEPT ![t] = "run"]
  PROVE  IsFiniteSet(Busy') /\ Cardinality(Busy') = Cardinality(Busy) - 1
<1>1. Busy' = Busy \ {t} /\ t \in Busy
  BY DEF Busy
<1> QED
  BY <1>1, FS_RemoveElement

LEMMA PreparedFrom ==
  ASSUME IsFiniteSet(Busy'),
         Cardinality(accepting') + Cardinality(PendingIn(ready', Accepting)) + Cardinality(Busy') = Accepts
  PROVE  Prepared'
BY DEF Prepared, AcceptsPrepared, Busy, Accepting, Pending, PendingIn

LEMMA PreparedNext == TypeOK /\ Prepared /\ [Next]_vars => Prepared'
<1> SUFFICES ASSUME TypeOK, Prepared, [Next]_vars PROVE Prepared'
  OBVIOUS
<1>0. ready \in Seq(Completion) /\ pc \in [Threads -> {"run", "add", "receive", "first", "repost"}]
  BY DEF TypeOK
<1>1. ASSUME NEW s \in Sockets, ClientConnects(s) \/ AcceptFails(s) PROVE Prepared'
  <2>1. PICK kind \in Accepting : ready' = Append(ready, [kind |-> kind, socket |-> s])
    BY <1>1 DEF ClientConnects, AcceptFails, Complete, Accepting
  <2>2. s \in accepting /\ accepting' = accepting \ {s} /\ Busy' = Busy
    BY <1>1 DEF ClientConnects, AcceptFails, Busy
  <2>3. [kind |-> kind, socket |-> s] \in Completion
    BY DEF Completion, Accepting
  <2>4. Cardinality(PendingIn(ready', Accepting)) = Cardinality(PendingIn(ready, Accepting)) + 1
    BY <1>0, <2>1, <2>3, PendingAppend
  <2>5. Cardinality(accepting') = Cardinality(accepting) - 1
    BY <2>2, Counted, FS_RemoveElement
  <2> QED
    BY <2>2, <2>4, <2>5, Counted, PreparedFrom
<1>2. ASSUME NEW s \in Sockets, PeerCloses(s) PROVE Prepared'
  <2> DEFINE e == [kind |-> "end", socket |-> s]
  <2>1. e \in Completion /\ e.kind \notin Accepting
    BY DEF Completion, Accepting
  <2>2. ready' = Append(ready, e) /\ accepting' = accepting /\ Busy' = Busy
    BY <1>2 DEF PeerCloses, Complete, Busy
  <2> HIDE DEF e
  <2>3. Cardinality(PendingIn(ready', Accepting)) = Cardinality(PendingIn(ready, Accepting))
    BY <1>0, <2>1, <2>2, PendingAppend, Counted
  <2> QED
    BY <2>2, <2>3, Counted, PreparedFrom
<1>3. ASSUME NEW t \in Threads, Accepted(t) \/ Refused(t) PROVE Prepared'
  <2>1. /\ ready # <<>> /\ ready' = Tail(ready) /\ accepting' = accepting
        /\ Head(ready).kind \in Accepting /\ pc[t] = "run"
        /\ pc' = [pc EXCEPT ![t] = "add"] \/ pc' = [pc EXCEPT ![t] = "repost"]
    BY <1>3 DEF Accepted, Refused, Take, Goto, Accepting
  <2>2. Cardinality(PendingIn(ready', Accepting)) = Cardinality(PendingIn(ready, Accepting)) - 1
    BY <1>0, <2>1, PendingTail
  <2>3. IsFiniteSet(Busy') /\ Cardinality(Busy') = Cardinality(Busy) + 1
    BY <1>0, <2>1, Counted, BusyMore
  <2> QED
    BY <2>1, <2>2, <2>3, Counted, PreparedFrom
<1>4. ASSUME NEW t \in Threads, ReadEnd(t) PROVE Prepared'
  <2>1. /\ ready # <<>> /\ ready' = Tail(ready) /\ accepting' = accepting
        /\ Head(ready).kind \notin Accepting /\ Busy' = Busy
    BY <1>4 DEF ReadEnd, Take, Accepting, Busy
  <2>2. Cardinality(PendingIn(ready', Accepting)) = Cardinality(PendingIn(ready, Accepting))
    BY <1>0, <2>1, PendingTail, Counted
  <2> QED
    BY <2>1, <2>2, Counted, PreparedFrom
<1>5. ASSUME NEW t \in Threads, Add(t) \/ PostReceive(t) \/ First(t) PROVE Prepared'
  <2>1. accepting' = accepting /\ ready' = ready
    BY <1>5 DEF Add, PostReceive, First
  <2>2. Busy' = Busy
    BY <1>0, <1>5 DEF Add, PostReceive, First, Goto, Busy
  <2> QED
    BY <2>1, <2>2, Counted, PreparedFrom
<1>6. ASSUME NEW t \in Threads, PostAccept(t) PROVE Prepared'
  <2>1. PICK s \in Sockets \ Created : accepting' = accepting \cup {s}
    BY <1>6 DEF PostAccept
  <2>2. /\ s \notin accepting /\ ready' = ready
        /\ pc[t] # "run" /\ pc' = [pc EXCEPT ![t] = "run"]
    BY <1>6, <2>1 DEF PostAccept, Goto, Created
  <2>3. Cardinality(accepting') = Cardinality(accepting) + 1
    BY <2>1, <2>2, Counted, FS_AddElement
  <2>4. IsFiniteSet(Busy') /\ Cardinality(Busy') = Cardinality(Busy) - 1
    BY <1>0, <2>2, Counted, BusyLess
  <2> QED
    BY <2>2, <2>3, <2>4, Counted, PreparedFrom
<1>7. CASE UNCHANGED vars
  <2>1. accepting' = accepting /\ ready' = ready /\ Busy' = Busy
    BY <1>7 DEF vars, Busy
  <2> QED
    BY <2>1, Counted, PreparedFrom
<1> QED
  BY <1>1, <1>2, <1>3, <1>4, <1>5, <1>6, <1>7 DEF Next, ThreadStep

-----------------------------------------------------------------------------
LEMMA Invariant == Spec => [](TypeOK /\ Owners /\ Prepared)
BY TypeInit, TypeNext, OwnersInit, OwnersNext, PreparedInit, PreparedNext, PTL DEF Spec

(* The completions are records the handlers can take, and a thread that    *)
(* has to keep, read or greet a socket has one in hand.                    *)
THEOREM AcceptorTypes == Spec => []TypeOK
BY Invariant, PTL

(* Whatever accepts fail and however their completions interleave, as many *)
(* accepts are prepared as Initialize posted.                              *)
THEOREM AcceptsStayPrepared == Spec => []AcceptsPrepared
<1>1. Prepared => AcceptsPrepared
  BY DEF Prepared
<1> QED
  BY <1>1, Invariant, PTL

(* No two accepts and no two handlers have the same socket object, and no  *)
(* accept is under way on one that the manager keeps.                      *)
THEOREM SocketsHaveOneOwner == Spec => []OneOwner
BY Invariant, OwnersSuffice, PTL
=============================================================================
