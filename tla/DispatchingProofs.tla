-------------------------- MODULE DispatchingProofs --------------------------
(***************************************************************************)
(* Theorems about receiving, for any number of connections, io threads,    *)
(* workers and handles, any buffer size and any streams.                   *)
(*                                                                         *)
(* Part 1 is about ReceiveManager alone: its type, the single reader of a  *)
(* socket, that no byte is lost between two receives, that buffers are     *)
(* unpacked from packet boundaries and within their bounds, that it        *)
(* implements PacketStream and stops reading only for a reason.            *)
(*                                                                         *)
(* Part 2 is about Dispatching, ReceiveManager with its queue: it          *)
(* implements ReceiveManager, so that all of part 1 holds of it; no        *)
(* connection has two io threads in DoData; every packet is in one place,  *)
(* overtaken only where the code means it, and the end comes last.         *)
(***************************************************************************)
EXTENDS Dispatching, FiniteSetTheorems, TLAPS

-----------------------------------------------------------------------------
(* Part 1: ReceiveManager.                                                 *)

(* A callback runs on behalf of a handle, and a handle in use belongs to a *)
(* socket with a stream.                                                   *)
LEMMA AtHandle ==
  ASSUME TypeOK, NEW t \in Threads, NEW point, At(t, point)
  PROVE  serving[t] \in Handles /\ st[serving[t]] = point
BY DEF TypeOK, At

LEMMA UsedHandle ==
  ASSUME TypeOK, NEW h \in Handles, st[h] \notin Unused
  PROVE  sock[h] \in Sockets /\ IsStream(stream[sock[h]])
BY StreamsAssumption DEF TypeOK

(* Handing over appends one entry to the log of the handle's socket.       *)
LEMMA HandOverType ==
  ASSUME TypeOK, NEW h \in Handles, st[h] \notin Unused, NEW len \in Nat,
         NEW via \in AddPaths \cup {"batch"}, NEW zero \in BOOLEAN,
         HandOver(h, len, via, zero)
  PROVE  handed' \in [Sockets -> Seq(Entries)]
<1> DEFINE e == [start |-> start[h], len |-> len, via |-> via, zero |-> zero]
<1>1. e \in Entries
  BY DEF TypeOK, Entries
<1>2. sock[h] \in Sockets /\ handed[sock[h]] \in Seq(Entries)
  BY UsedHandle DEF TypeOK
<1>3. Append(handed[sock[h]], e) \in Seq(Entries)
  BY <1>1, <1>2
<1>4. handed' = [handed EXCEPT ![sock[h]] = Append(handed[sock[h]], e)]
  BY DEF HandOver
<1> QED
  BY <1>2, <1>3, <1>4 DEF TypeOK

(* A new handle has the fields of a handle.                                *)
LEMMA NewHandleType ==
  ASSUME TypeOK, NEW g \in Handles, NEW s \in Sockets \cup {None},
         NEW p \in Nat, NEW k \in Nat, NewHandle(g, s, p, k)
  PROVE  /\ sock' \in [Handles -> Sockets \cup {None}]
         /\ start' \in [Handles -> Nat]
         /\ off' \in [Handles -> Nat]
         /\ got' \in [Handles -> Nat]
         /\ shift' \in [Handles -> Nat]
BY DEF TypeOK, NewHandle

LEMMA TypeInit == Init => TypeOK
BY NoneAssumption DEF Init, TypeOK, Points, Reading, Unused

(* Bytes a reader holds lie within the stream, so that header fields read  *)
(* there are numbers.                                                      *)
LEMMA ScannedSizes ==
  ASSUME IInv, NEW h \in Handles, st[h] = "scan"
  PROVE  /\ start[h] + off[h] <= stream[sock[h]].len
         /\ off[h] > 0
         /\ WholeSize(h) \in Nat
<1>1. IsStream(stream[sock[h]])
  BY UsedHandle DEF IInv, Unused
<1>2. start[h] \in Nat /\ off[h] \in Nat /\ rcvd[sock[h]] \in Nat
  BY UsedHandle DEF IInv, TypeOK, Unused
<1>3. /\ start[h] + off[h] = rcvd[sock[h]]
      /\ rcvd[sock[h]] <= stream[sock[h]].len
      /\ off[h] > 0
  <2>1. st[h] \in Reading
    BY DEF Reading
  <2>2. Held(h) = off[h]
    BY <1>2 DEF Held
  <2>3. start[h] + Held(h) = rcvd[sock[h]]
    BY <2>1 DEF IInv, NoByteLost, HoldsTheRest
  <2> QED
    BY <2>1, <2>2, <2>3 DEF IInv, ReaderOK
<1>4. start[h] \in 0 .. stream[sock[h]].len
  BY <1>1, <1>2, <1>3 DEF IsStream
<1> QED
  BY <1>1, <1>3, <1>4 DEF IsStream, WholeSize

LEMMA TypeNext == IInv /\ [Next]_vars => TypeOK'
<1> SUFFICES ASSUME IInv, [Next]_vars PROVE TypeOK'
  OBVIOUS
<1>0. TypeOK
  BY DEF IInv
<1> USE <1>0
<1> USE DEF Points, Reading, Unused, network, fields
<1>1. ASSUME NEW s \in Sockets, Open(s) PROVE TypeOK'
  <2>1. CASE UNCHANGED <<st, fields>>
    BY <1>1, <2>1 DEF TypeOK, Open
  <2>2. ASSUME NEW g \in Free, NewHandle(g, s, 0, 0), st' = [st EXCEPT ![g] = "posted"]
        PROVE  TypeOK'
    <3>1. g \in Handles
      BY DEF Free
    <3>2. st' \in [Handles -> Points]
      BY <2>2, <3>1 DEF TypeOK
    <3>3. \A x \in Handles : sock'[x] = None <=> st'[x] \in Unused
      BY <2>2, <3>1, NoneAssumption DEF TypeOK, NewHandle
    <3> QED
      BY <1>1, <2>2, <3>1, <3>2, <3>3, NewHandleType DEF TypeOK, Open
  <2> QED
    BY <1>1, <2>1, <2>2 DEF Open
<1>2. ASSUME NEW s \in Sockets, PeerCloses(s) \/ ClosedHere(s) PROVE TypeOK'
  BY <1>2 DEF TypeOK, PeerCloses, ClosedHere
<1>3. ASSUME NEW h \in Handles, Arrive(h) PROVE TypeOK'
  <2>1. sock[h] \in Sockets
    BY <1>3, UsedHandle DEF Arrive
  <2>2. Room(h) \in Int
    BY BufferAssumption DEF TypeOK, Room
  <2>3. rcvd' \in [Sockets -> Nat] /\ got' \in [Handles -> Nat]
    <3>1. PICK n \in 1 .. Room(h) : /\ rcvd' = [rcvd EXCEPT ![sock[h]] = @ + n]
                                    /\ got' = [got EXCEPT ![h] = n]
      BY <1>3 DEF Arrive
    <3>2. n \in Nat
      BY <2>2
    <3> QED
      BY <2>1, <3>1, <3>2 DEF TypeOK
  <2>4. st' \in [Handles -> Points] /\ \A x \in Handles : sock'[x] = None <=> st'[x] \in Unused
    BY <1>3 DEF TypeOK, Arrive
  <2> QED
    BY <1>3, <2>3, <2>4 DEF TypeOK, Arrive
<1>4. ASSUME NEW h \in Handles, CompleteEmpty(h) PROVE TypeOK'
  BY <1>4 DEF TypeOK, CompleteEmpty
<1>5. ASSUME NEW t \in Threads, NEW h \in Handles, Run(t, h) PROVE TypeOK'
  <2>1. st' \in [Handles -> Points]
    BY <1>5 DEF TypeOK, Run
  <2>2. off' \in [Handles -> Nat]
    BY <1>5 DEF TypeOK, Run
  <2>3. serving' \in [Threads -> Handles \cup {None}]
    BY <1>5 DEF TypeOK, Run
  <2>4. \A x \in Handles : sock'[x] = None <=> st'[x] \in Unused
    BY <1>5 DEF TypeOK, Run
  <2> QED
    BY <1>5, <2>1, <2>2, <2>3, <2>4 DEF TypeOK, Run
<1>6. ASSUME NEW t \in Threads, Step(t) PROVE TypeOK'
  <2> DEFINE h == serving[t]
  <2>0. h \in Handles /\ st[h] \notin Unused
    <3>1. \E point \in {"eof", "scan", "repost", "release"} : At(t, point)
      BY <1>6 DEF Step, ZeroRead, BadHeader, WholePacket, Incomplete,
                  Batched, Repost, Release
    <3> QED
      BY <3>1, AtHandle
  <2>1. sock[h] \in Sockets /\ start[h] \in Nat /\ off[h] \in Nat
    BY <2>0, UsedHandle DEF TypeOK
  <2>2. CASE ZeroRead(t)
    <3>1. handed' \in [Sockets -> Seq(Entries)]
      BY <2>0, <2>1, <2>2, HandOverType DEF ZeroRead
    <3> QED
      BY <2>0, <2>1, <2>2, <3>1 DEF TypeOK, ZeroRead
  <2>3. CASE BadHeader(t)
    BY <2>0, <2>3 DEF TypeOK, BadHeader
  <2>4. CASE WholePacket(t)
    <3>1. handed' \in [Sockets -> Seq(Entries)]
      BY <2>0, <2>1, <2>4, HandOverType DEF WholePacket
    <3> QED
      BY <2>0, <2>1, <2>4, <3>1 DEF TypeOK, WholePacket
  <2>5. CASE Incomplete(t)
    <3>1. ASSUME UNCHANGED fields, st' = [st EXCEPT ![h] = "release"]
          PROVE  TypeOK'
      BY <2>0, <2>5, <3>1 DEF TypeOK, Incomplete
    <3>2. ASSUME UNCHANGED fields,
                 NEW g \in Free, st' = [st EXCEPT ![h] = "release", ![g] = "leaked"]
          PROVE  TypeOK'
      <4>1. g \in Handles /\ st[g] = "free"
        BY DEF Free
      <4>2. st' \in [Handles -> Points]
        BY <2>0, <3>2, <4>1 DEF TypeOK
      <4>3. \A x \in Handles : st'[x] \in Unused <=> st[x] \in Unused
        BY <2>0, <3>2, <4>1 DEF TypeOK
      <4>4. \A x \in Handles : sock'[x] = None <=> st'[x] \in Unused
        BY <3>2, <4>3 DEF TypeOK
      <4> QED
        BY <2>5, <3>2, <4>2, <4>4 DEF TypeOK, Incomplete
    <3>3. ASSUME NEW g \in Free, NewHandle(g, sock[h], start[h], off[h]),
                 st' = [st EXCEPT ![h] = "release", ![g] = "posted"]
          PROVE  TypeOK'
      <4>1. g \in Handles
        BY DEF Free
      <4>2. st' \in [Handles -> Points]
        BY <2>0, <3>3, <4>1 DEF TypeOK
      <4>3. \A x \in Handles : sock'[x] = None <=> st'[x] \in Unused
        BY <2>0, <2>1, <3>3, <4>1, NoneAssumption DEF TypeOK, NewHandle
      <4>4. /\ sock' \in [Handles -> Sockets \cup {None}]
            /\ start' \in [Handles -> Nat] /\ off' \in [Handles -> Nat]
            /\ got' \in [Handles -> Nat] /\ shift' \in [Handles -> Nat]
        BY <2>1, <3>3, <4>1, NewHandleType
      <4>5. UNCHANGED <<network, serving, handed>>
        BY <2>5 DEF Incomplete
      <4> QED
        BY <4>2, <4>3, <4>4, <4>5 DEF TypeOK, network
    <3> QED
      BY <2>5, <3>1, <3>2, <3>3 DEF Incomplete
  <2>6. CASE Batched(t)
    <3>1. WholeSize(h) \in Nat /\ off[h] > WholeSize(h)
      BY <2>0, <2>6, AtHandle, ScannedSizes DEF Batched
    <3>2. handed' \in [Sockets -> Seq(Entries)]
      BY <2>0, <2>6, <3>1, HandOverType DEF Batched, TakeFirst
    <3>3. start' \in [Handles -> Nat] /\ off' \in [Handles -> Nat] /\ shift' \in [Handles -> Nat]
      <4>1. /\ start' = [start EXCEPT ![h] = @ + WholeSize(h)]
            /\ shift' = [shift EXCEPT ![h] = @ + WholeSize(h)]
            /\ off' = [off EXCEPT ![h] = @ - WholeSize(h)]
        BY <2>6 DEF Batched, TakeFirst
      <4>2. /\ start[h] + WholeSize(h) \in Nat /\ shift[h] + WholeSize(h) \in Nat
            /\ off[h] - WholeSize(h) \in Nat
        BY <2>0, <3>1 DEF TypeOK
      <4> QED
        BY <2>0, <4>1, <4>2 DEF TypeOK
    <3> QED
      BY <2>6, <3>2, <3>3 DEF TypeOK, Batched, TakeFirst
  <2>7. CASE Repost(t)
    <3>1. ASSUME UNCHANGED fields, st' = [st EXCEPT ![h] = "release"]
          PROVE  TypeOK'
      BY <2>0, <2>7, <3>1 DEF TypeOK, Repost
    <3>2. ASSUME NEW g \in Free, NewHandle(g, sock[h], start[h] + off[h], 0),
                 st' = [st EXCEPT ![h] = "release", ![g] = "posted"]
          PROVE  TypeOK'
      <4>1. g \in Handles
        BY DEF Free
      <4>2. st' \in [Handles -> Points]
        BY <2>0, <3>2, <4>1 DEF TypeOK
      <4>3. \A x \in Handles : sock'[x] = None <=> st'[x] \in Unused
        BY <2>0, <2>1, <3>2, <4>1, NoneAssumption DEF TypeOK, NewHandle
      <4>4. start[h] + off[h] \in Nat
        BY <2>1
      <4> QED
        BY <2>1, <2>7, <4>4, <3>2, <4>1, <4>2, <4>3, NewHandleType DEF TypeOK, Repost
    <3> QED
      BY <2>7, <3>1, <3>2 DEF Repost
  <2>8. CASE Release(t)
    <3>1. st' \in [Handles -> Points] /\ serving' \in [Threads -> Handles \cup {None}]
      BY <2>0, <2>8 DEF TypeOK, Release
    <3>2. \A x \in Handles : sock'[x] = None <=> st'[x] \in Unused
      BY <2>0, <2>8 DEF TypeOK, Release, NewHandle
    <3> QED
      BY <2>0, <2>8, <3>1, <3>2, NewHandleType DEF TypeOK, Release
  <2> QED
    BY <1>6, <2>2, <2>3, <2>4, <2>5, <2>6, <2>7, <2>8 DEF Step
<1>7. CASE UNCHANGED vars
  BY <1>7 DEF TypeOK, vars
<1> QED
  BY <1>1, <1>2, <1>3, <1>4, <1>5, <1>6, <1>7 DEF Next

-----------------------------------------------------------------------------
(* The inductive invariant.  What it says of one reader:                   *)
ReaderInv(h) ==
  /\ HoldsTheRest(h)
  /\ st[h] # "repost" => start[h] \in stream[sock[h]].boundaries
  /\ ReaderOK(h)

(* ... and of a socket:                                                    *)
FreshSockets == \A s \in Sockets : conn[s] = "new" => rcvd[s] = 0 /\ handed[s] = <<>>

LEMMA IInvParts ==
  IInv <=> /\ TypeOK
           /\ SingleReader
           /\ BufferBounds
           /\ \A h \in Handles : st[h] \in Reading => ReaderInv(h)
           /\ FreshSockets
BY DEF IInv, ReaderInv, NoByteLost, Aligned, FreshSockets

LEMMA IInvPartsNext ==
  ASSUME TypeOK', SingleReader', BufferBounds', FreshSockets',
         \A h \in Handles : st'[h] \in Reading => ReaderInv(h)'
  PROVE  IInv'
BY DEF IInv, ReaderInv, NoByteLost, Aligned, FreshSockets

(* What is handed over becomes the end of the log.                         *)
LEMMA LogEnd ==
  ASSUME NEW log \in Seq(Entries), NEW e \in Entries
  PROVE  /\ NextByte(Append(log, e)) = e.start + e.len
         /\ Ended(Append(log, e)) <=> e.zero
<1> DEFINE longer == Append(log, e)
<1>1. longer # <<>> /\ longer[Len(longer)] = e
  OBVIOUS
<1>2. NextByte(longer) = e.start + e.len /\ (Ended(longer) <=> e.zero)
  <2> HIDE DEF longer
  <2> QED
    BY <1>1 DEF NextByte, Ended
<1> QED
  BY <1>2

(* A reader none of whose fields a step touches, on a socket of which the  *)
(* step reads and hands over nothing, stays what it was.                   *)
SameReader(x) ==
  /\ st'[x] = st[x] /\ sock'[x] = sock[x] /\ start'[x] = start[x]
  /\ off'[x] = off[x] /\ got'[x] = got[x] /\ shift'[x] = shift[x]

SameSocket(s) ==
  /\ rcvd'[s] = rcvd[s]
  /\ handed'[s] = handed[s]
  /\ conn[s] # "new" => conn'[s] # "new"

LEMMA Untouched ==
  ASSUME NEW x \in Handles, ReaderInv(x), stream' = stream,
         SameReader(x), SameSocket(sock[x])
  PROVE  ReaderInv(x)'
BY DEF ReaderInv, HoldsTheRest, Held, ReaderOK, Unfinished, HeaderShort,
       WholeSize, SameReader, SameSocket

(* Readers that only stop being readers stay single.                       *)
LEMMA FewerReaders ==
  ASSUME SingleReader,
         \A x \in Handles : st'[x] \in Reading => st[x] \in Reading /\ sock'[x] = sock[x]
  PROVE  SingleReader'
BY DEF SingleReader

(* The reader of a socket may pass its place on to another handle.         *)
LEMMA NextReader ==
  ASSUME SingleReader, NEW h \in Handles, NEW g \in Handles,
         st[h] \in Reading, st'[h] \notin Reading, sock'[g] = sock[h],
         \A x \in Handles \ {g} : st'[x] \in Reading => st[x] \in Reading /\ sock'[x] = sock[x]
  PROVE  SingleReader'
BY DEF SingleReader

(* A handle on which a receive is posted at the right place is a reader.   *)
LEMMA NewReader ==
  ASSUME NEW g \in Handles, NEW s \in Sockets, NEW p \in Nat, NEW k \in Nat,
         TypeOK, NewHandle(g, s, p, k), st'[g] = "posted", stream' = stream,
         SameSocket(s), conn'[s] # "new",
         p + k = rcvd[s], p = NextByte(handed[s]), p \in stream[s].boundaries,
         rcvd[s] <= stream[s].len, ~Ended(handed[s]),
         k < PACKET_SIZE \/ stream[s].whole[p] = 0 \/ k < stream[s].whole[p]
  PROVE  ReaderInv(g)'
<1>1. /\ sock'[g] = s /\ start'[g] = p /\ off'[g] = k
      /\ shift'[g] = 0 /\ got'[g] = 0
  BY DEF NewHandle, TypeOK
<1>2. Held(g)' = k
  BY <1>1 DEF Held
<1>3. HoldsTheRest(g)'
  BY <1>1, <1>2 DEF HoldsTheRest, SameSocket
<1>4. ReaderOK(g)'
  BY <1>1 DEF ReaderOK, Unfinished, HeaderShort, WholeSize, SameSocket
<1> QED
  BY <1>1, <1>3, <1>4 DEF ReaderInv

LEMMA IInvInit == Init => IInv
<1> SUFFICES ASSUME Init PROVE IInv
  OBVIOUS
<1>1. \A h \in Handles : st[h] \notin Reading
  BY DEF Init, Reading
<1>2. BufferBounds
  BY BufferAssumption DEF Init, BufferBounds, Held
<1>3. FreshSockets
  BY DEF Init, FreshSockets
<1> QED
  BY <1>1, <1>2, <1>3, TypeInit, IInvParts DEF SingleReader

(* The steps of the outside keep the invariant.                            *)
LEMMA OutsideStep ==
  ASSUME IInv, TypeOK',
         \/ \E s \in Sockets : Open(s) \/ PeerCloses(s) \/ ClosedHere(s)
         \/ \E h \in Handles : Arrive(h) \/ CompleteEmpty(h)
  PROVE  IInv'
<1> USE DEF network, fields
<1>0. /\ TypeOK /\ SingleReader /\ BufferBounds /\ FreshSockets
      /\ \A h \in Handles : st[h] \in Reading => ReaderInv(h)
  BY IInvParts
<1>1. ASSUME NEW s \in Sockets, PeerCloses(s) \/ ClosedHere(s) PROVE IInv'
  <2>1. /\ stream' = stream
        /\ \A x \in Handles : SameReader(x)
        /\ \A r \in Sockets : SameSocket(r)
    BY <1>0, <1>1 DEF PeerCloses, ClosedHere, SameReader, SameSocket, TypeOK
  <2>2. ASSUME NEW x \in Handles, st'[x] \in Reading PROVE ReaderInv(x)'
    BY <1>0, <2>1, <2>2, Untouched, UsedHandle DEF SameReader, Reading, Unused
  <2>3. SingleReader'
    BY <1>0, <2>1, FewerReaders DEF SameReader
  <2>4. BufferBounds'
    BY <1>0, <2>1 DEF BufferBounds, Held, SameReader
  <2>5. FreshSockets'
    BY <1>0, <1>1 DEF FreshSockets, PeerCloses, ClosedHere, TypeOK
  <2> QED
    BY <2>2, <2>3, <2>4, <2>5, IInvPartsNext
<1>2. ASSUME NEW s \in Sockets, Open(s) PROVE IInv'
  <2>1. \A x \in Handles : st[x] \in Reading => sock[x] \in Sockets \ {s}
    BY <1>0, <1>2, UsedHandle DEF Open, ReaderInv, ReaderOK, Reading, Unused
  <2>2. stream' = stream /\ \A r \in Sockets : SameSocket(r)
    BY <1>0, <1>2 DEF Open, SameSocket, TypeOK
  <2>3. conn'[s] # "new" /\ rcvd[s] = 0 /\ handed[s] = <<>>
    BY <1>0, <1>2 DEF Open, FreshSockets, TypeOK
  <2>4. FreshSockets'
    BY <1>0, <1>2 DEF FreshSockets, Open, TypeOK
  <2>5. CASE UNCHANGED <<st, fields>>
    <3>1. \A x \in Handles : SameReader(x)
      BY <2>5 DEF SameReader
    <3>2. ASSUME NEW x \in Handles, st'[x] \in Reading PROVE ReaderInv(x)'
      BY <1>0, <2>1, <2>2, <2>5, <3>1, <3>2, Untouched
    <3> QED
      BY <1>0, <2>4, <2>5, <3>1, <3>2, FewerReaders, IInvPartsNext
         DEF SameReader, BufferBounds, Held
  <2>6. ASSUME NEW g \in Free, NewHandle(g, s, 0, 0), st' = [st EXCEPT ![g] = "posted"]
        PROVE  IInv'
    <3>1. g \in Handles /\ st[g] = "free" /\ st'[g] = "posted" /\ sock'[g] = s
      BY <1>0, <2>6 DEF Free, TypeOK, NewHandle
    <3>2. \A x \in Handles \ {g} : SameReader(x)
      BY <1>0, <2>6 DEF SameReader, NewHandle, TypeOK
    <3>3. ReaderInv(g)'
      <4>1. IsStream(stream[s]) /\ NextByte(handed[s]) = 0 /\ ~Ended(handed[s])
        BY <1>0, <2>3, StreamsAssumption DEF TypeOK, NextByte, Ended
      <4>2. 0 + 0 = rcvd[s] /\ 0 \in stream[s].boundaries /\ rcvd[s] <= stream[s].len
        BY <2>3, <4>1 DEF IsStream
      <4> QED
        BY <1>0, <2>2, <2>3, <2>6, <3>1, <4>1, <4>2, NewReader, HeaderAssumption
    <3>4. ASSUME NEW x \in Handles, st'[x] \in Reading PROVE ReaderInv(x)'
      BY <1>0, <2>1, <2>2, <3>2, <3>3, <3>4, Untouched DEF SameReader
    <3>5. SingleReader'
      BY <1>0, <2>1, <3>1, <3>2 DEF SingleReader, SameReader
    <3>6. BufferBounds'
      <4>1. (shift[g] + Held(g) <= BufferSize)'
        BY <1>0, <2>6, <3>1, BufferAssumption DEF Held, NewHandle, TypeOK
      <4> QED
        BY <1>0, <3>2, <4>1 DEF BufferBounds, Held, SameReader
    <3> QED
      BY <2>4, <3>4, <3>5, <3>6, IInvPartsNext
  <2> QED
    BY <1>2, <2>5, <2>6 DEF Open
<1>3. ASSUME NEW h \in Handles, Arrive(h) PROVE IInv'
  <2> DEFINE s == sock[h]
  <2>1. PICK n \in 1 .. Room(h) :
          /\ rcvd[s] + n <= stream[s].len
          /\ rcvd' = [rcvd EXCEPT ![s] = @ + n]
          /\ got' = [got EXCEPT ![h] = n]
    BY <1>3 DEF Arrive
  <2>2. s \in Sockets /\ st[h] \in Reading /\ ReaderInv(h)
    BY <1>0, <1>3, UsedHandle DEF Arrive, Reading, Unused
  <2>3. /\ st'[h] = "completed" /\ got'[h] = n /\ rcvd'[s] = rcvd[s] + n
        /\ sock' = sock /\ start' = start /\ off' = off /\ shift' = shift
        /\ stream' = stream /\ handed' = handed /\ conn' = conn
    BY <1>0, <1>3, <2>1, <2>2 DEF Arrive, TypeOK
  <2>4. /\ start[h] \in Nat /\ off[h] \in Nat /\ rcvd[s] \in Nat /\ n \in Nat
        /\ n <= BufferSize - off[h]
    BY <1>0, <2>1, <2>2, BufferAssumption DEF TypeOK, Room
  <2>5. Held(h) = off[h] /\ Held(h)' = off[h] + n
    BY <1>3, <2>3, <2>4 DEF Held, Arrive
  <2>6. ReaderInv(h)'
    BY <1>3, <2>1, <2>2, <2>3, <2>4, <2>5
       DEF ReaderInv, HoldsTheRest, ReaderOK, Unfinished, HeaderShort, WholeSize, Arrive
  <2>7. \A x \in Handles \ {h} : SameReader(x)
    BY <1>0, <1>3, <2>1 DEF SameReader, Arrive, TypeOK
  <2>8. ASSUME NEW x \in Handles, st'[x] \in Reading PROVE ReaderInv(x)'
    <3>1. CASE x # h
      <4>1. st[x] \in Reading /\ sock[x] \in Sockets \ {s}
        BY <1>0, <2>2, <2>7, <2>8, <3>1, UsedHandle
           DEF SameReader, SingleReader, Reading, Unused
      <4>2. SameSocket(sock[x])
        BY <1>0, <2>1, <2>3, <4>1 DEF SameSocket, TypeOK
      <4> QED
        BY <1>0, <2>3, <2>7, <3>1, <4>1, <4>2, Untouched
    <3> QED
      BY <2>6, <3>1
  <2>9. SingleReader'
    BY <1>0, <2>2, <2>3, <2>7, FewerReaders DEF SameReader
  <2>10. BufferBounds'
    <3>1. (shift[h] + Held(h) <= BufferSize)'
      <4>1. shift'[h] = 0
        BY <1>3, <2>2, <2>3 DEF ReaderInv, ReaderOK, Arrive
      <4> QED
        BY <2>4, <2>5, <4>1, BufferAssumption
    <3> QED
      BY <1>0, <2>7, <3>1 DEF BufferBounds, Held, SameReader
  <2>11. FreshSockets'
    BY <1>0, <1>3, <2>1, <2>2, <2>3 DEF FreshSockets, Arrive, TypeOK
  <2> QED
    BY <2>8, <2>9, <2>10, <2>11, IInvPartsNext
<1>4. ASSUME NEW h \in Handles, CompleteEmpty(h) PROVE IInv'
  <2>1. st[h] = "posted" /\ ReaderInv(h) /\ off[h] \in Nat /\ got[h] = 0
    BY <1>0, <1>4 DEF CompleteEmpty, Reading, TypeOK, ReaderInv, ReaderOK
  <2>2. st'[h] = "completed" /\ UNCHANGED <<stream, conn, rcvd, handed, fields>>
    BY <1>0, <1>4 DEF CompleteEmpty, TypeOK
  <2>3. Held(h) = off[h] /\ Held(h)' = off[h]
    BY <2>1, <2>2 DEF Held
  <2>4. ReaderInv(h)'
    BY <2>1, <2>2, <2>3
       DEF ReaderInv, HoldsTheRest, ReaderOK, Unfinished, HeaderShort, WholeSize
  <2>5. \A x \in Handles \ {h} : SameReader(x)
    BY <1>0, <1>4 DEF SameReader, CompleteEmpty, TypeOK
  <2>6. ASSUME NEW x \in Handles, st'[x] \in Reading PROVE ReaderInv(x)'
    BY <1>0, <2>2, <2>4, <2>5, <2>6, Untouched DEF SameReader, SameSocket
  <2>7. SingleReader'
    BY <1>0, <2>1, <2>2, <2>5, FewerReaders DEF SameReader, Reading
  <2>8. BufferBounds'
    BY <1>0, <2>2, <2>3, <2>5 DEF BufferBounds, Held, SameReader
  <2>9. FreshSockets'
    BY <1>0, <2>2 DEF FreshSockets
  <2> QED
    BY <2>6, <2>7, <2>8, <2>9, IInvPartsNext
<1> QED
  BY <1>1, <1>2, <1>3, <1>4

(* A step of a callback touches the reader h of one socket s and, when it  *)
(* posts, a free handle g.                                                 *)
LEMMA OtherReaders ==
  ASSUME IInv, NEW h \in Handles, st[h] \in Reading, stream' = stream,
         NEW x \in Handles, x # h, st[x] \in Reading, SameReader(x),
         \A r \in Sockets \ {sock[h]} : SameSocket(r)
  PROVE  ReaderInv(x)'
<1>1. sock[x] \in Sockets \ {sock[h]}
  BY UsedHandle DEF IInv, SingleReader, Reading, Unused
<1> QED
  BY <1>1, IInvParts, Untouched

LEMMA RunStep ==
  ASSUME IInv, TypeOK', NEW t \in Threads, NEW h \in Handles, Run(t, h)
  PROVE  IInv'
<1> USE DEF network, fields
<1>0. /\ TypeOK /\ SingleReader /\ BufferBounds /\ FreshSockets
      /\ \A x \in Handles : st[x] \in Reading => ReaderInv(x)
  BY IInvParts
<1>1. /\ st[h] = "completed" /\ ReaderInv(h) /\ off[h] \in Nat /\ got[h] \in Nat
      /\ Held(h) = off[h] + got[h]
  BY <1>0 DEF Run, Reading, TypeOK, Held
<1>2. /\ st'[h] = IF got[h] = 0 THEN "eof" ELSE "scan"
      /\ off'[h] = off[h] + got[h]
      /\ UNCHANGED <<stream, conn, rcvd, handed, sock, start, got, shift>>
  BY <1>0 DEF Run, TypeOK
<1>3. Held(h)' = off[h] + got[h]
  BY <1>1, <1>2 DEF Held
<1>4. ReaderInv(h)'
  BY <1>1, <1>2, <1>3
     DEF ReaderInv, HoldsTheRest, ReaderOK, Unfinished, HeaderShort, WholeSize
<1>5. \A x \in Handles \ {h} : SameReader(x)
  BY <1>0 DEF SameReader, Run, TypeOK
<1>6. ASSUME NEW x \in Handles, st'[x] \in Reading PROVE ReaderInv(x)'
  BY <1>0, <1>2, <1>4, <1>5, <1>6, Untouched DEF SameReader, SameSocket
<1>7. SingleReader'
  BY <1>0, <1>1, <1>2, <1>5, FewerReaders DEF SameReader, Reading
<1>8. BufferBounds'
  BY <1>0, <1>1, <1>2, <1>3, <1>5 DEF BufferBounds, Held, SameReader
<1>9. FreshSockets'
  BY <1>0, <1>2 DEF FreshSockets
<1> QED
  BY <1>6, <1>7, <1>8, <1>9, IInvPartsNext

(* What holds of the handle whose callback is at a point in Receive.       *)
LEMMA Caller ==
  ASSUME IInv, NEW t \in Threads, NEW point \in {"eof", "scan", "repost"}, At(t, point),
         NEW h, h = serving[t]
  PROVE  /\ h \in Handles /\ st[h] = point /\ st[h] \in Reading /\ ReaderInv(h)
         /\ sock[h] \in Sockets /\ IsStream(stream[sock[h]])
         /\ handed[sock[h]] \in Seq(Entries)
         /\ start[h] \in Nat /\ off[h] \in Nat /\ Held(h) = off[h]
<1>1. h \in Handles /\ st[h] = point
  BY AtHandle, IInvParts
<1>2. sock[h] \in Sockets /\ IsStream(stream[sock[h]])
  BY <1>1, UsedHandle, IInvParts DEF Unused
<1>3. off[h] \in Nat /\ Held(h) = off[h]
  BY <1>1, IInvParts DEF TypeOK, Held
<1> QED
  BY <1>1, <1>2, <1>3, IInvParts DEF TypeOK, Reading

(* A callback that posts no receive: its socket has no reader any more.    *)
LEMMA StopsReading ==
  ASSUME IInv, TypeOK', NEW h \in Handles, st[h] \in Reading, st'[h] = "release",
         UNCHANGED <<network, fields>>,
         \A r \in Sockets \ {sock[h]} : handed'[r] = handed[r],
         \A x \in Handles \ {h} : \/ st'[x] = st[x]
                                  \/ st[x] = "free" /\ st'[x] = "leaked"
  PROVE  IInv'
<1> USE DEF network, fields
<1>0. /\ TypeOK /\ SingleReader /\ BufferBounds /\ FreshSockets
      /\ \A x \in Handles : st[x] \in Reading => ReaderInv(x)
      /\ sock[h] \in Sockets
  BY IInvParts, UsedHandle DEF Reading, Unused
<1>1. \A x \in Handles : st'[x] \in Reading =>
        x # h /\ st[x] \in Reading /\ SameReader(x)
  BY DEF Reading, SameReader
<1>2. ASSUME NEW x \in Handles, st'[x] \in Reading PROVE ReaderInv(x)'
  BY <1>0, <1>1, <1>2, OtherReaders DEF SameSocket
<1>3. SingleReader'
  BY <1>0, <1>1, FewerReaders DEF SameReader
<1>4. BufferBounds'
  <2>1. ASSUME NEW x \in Handles PROVE Held(x)' <= Held(x)
    <3>1. st'[x] = "completed" => st[x] = "completed"
      OBVIOUS
    <3>2. off[x] \in Nat /\ got[x] \in Nat
      BY <1>0 DEF TypeOK
    <3> QED
      BY <3>1, <3>2 DEF Held
  <2>2. \A x \in Handles : Held(x) \in Int /\ Held(x)' \in Int /\ shift[x] \in Int
    BY <1>0 DEF Held, TypeOK
  <2> QED
    BY <1>0, <2>1, <2>2, BufferAssumption DEF BufferBounds
<1>5. FreshSockets'
  BY <1>0 DEF FreshSockets, ReaderInv, ReaderOK
<1> QED
  BY <1>2, <1>3, <1>4, <1>5, IInvPartsNext

(* A callback that posts the next receive: the new handle takes over.      *)
LEMMA PassesOn ==
  ASSUME IInv, TypeOK', NEW h \in Handles, st[h] \in Reading, ReaderInv(h),
         NEW g \in Free, NEW p \in Nat, NEW k \in Nat,
         NewHandle(g, sock[h], p, k),
         st' = [st EXCEPT ![h] = "release", ![g] = "posted"],
         UNCHANGED <<network, handed>>,
         p + k = rcvd[sock[h]], p = NextByte(handed[sock[h]]),
         p \in stream[sock[h]].boundaries, k <= BufferSize,
         \/ k < PACKET_SIZE
         \/ stream[sock[h]].whole[p] = 0
         \/ k < stream[sock[h]].whole[p]
  PROVE  IInv'
<1> USE DEF network
<1>0. /\ TypeOK /\ SingleReader /\ BufferBounds /\ FreshSockets
      /\ \A x \in Handles : st[x] \in Reading => ReaderInv(x)
      /\ sock[h] \in Sockets
  BY IInvParts, UsedHandle DEF Reading, Unused
<1>1. /\ g \in Handles /\ g # h /\ st'[g] = "posted" /\ st'[h] = "release"
      /\ sock'[g] = sock[h] /\ off'[g] = k /\ shift'[g] = 0
  BY <1>0 DEF Free, Reading, TypeOK, NewHandle
<1>2. \A r \in Sockets : SameSocket(r)
  BY DEF SameSocket
<1>3. ReaderInv(g)'
  <2>1. /\ conn'[sock[h]] # "new" /\ ~Ended(handed[sock[h]])
        /\ rcvd[sock[h]] <= stream[sock[h]].len
    BY DEF ReaderInv, ReaderOK
  <2> QED
    BY <1>0, <1>1, <1>2, <2>1, NewReader
<1>4. \A x \in Handles \ {g, h} : SameReader(x)
  BY <1>0 DEF SameReader, NewHandle, TypeOK
<1>5. ASSUME NEW x \in Handles, st'[x] \in Reading PROVE ReaderInv(x)'
  <2>1. CASE x \notin {g, h}
    BY <1>2, <1>4, <1>5, <2>1, OtherReaders DEF SameReader
  <2> QED
    BY <1>1, <1>3, <1>5, <2>1 DEF Reading
<1>6. SingleReader'
  <2>1. st'[h] \notin Reading
    BY <1>1 DEF Reading
  <2>2. \A x \in Handles \ {g} : st'[x] \in Reading => st[x] \in Reading /\ sock'[x] = sock[x]
    BY <1>4, <2>1 DEF SameReader
  <2> QED
    BY <1>0, <1>1, <2>1, <2>2, NextReader
<1>7. BufferBounds'
  <2>1. (shift[g] + Held(g) <= BufferSize)'
    BY <1>1, BufferAssumption DEF Held
  <2>2. (shift[h] + Held(h) <= BufferSize)'
    <3>1. off'[h] = off[h] /\ shift'[h] = shift[h]
      BY <1>0, <1>1 DEF NewHandle, TypeOK
    <3>2. off[h] \in Nat /\ shift[h] \in Nat /\ got[h] \in Nat
      BY <1>0 DEF TypeOK
    <3>3. Held(h)' = off[h]
      BY <1>1, <3>1, <3>2 DEF Held
    <3>4. shift[h] + Held(h) <= BufferSize
      BY <1>0 DEF BufferBounds
    <3>5. Held(h) = off[h] \/ Held(h) = off[h] + got[h]
      BY <3>2 DEF Held
    <3> QED
      BY <3>1, <3>2, <3>3, <3>4, <3>5, BufferAssumption
  <2> QED
    BY <1>0, <1>4, <2>1, <2>2 DEF BufferBounds, Held, SameReader
<1>8. FreshSockets'
  BY <1>0 DEF FreshSockets
<1> QED
  BY <1>5, <1>6, <1>7, <1>8, IInvPartsNext

(* A callback that hands a packet over and goes on: the packet ends where  *)
(* the bytes not yet handed over begin.                                    *)
LEMMA GoesOn ==
  ASSUME IInv, TypeOK', NEW h \in Handles, st[h] = "scan", NEW w \in Nat \ {0},
         NEW via \in AddPaths \cup {"batch"},
         HandOver(h, w, via, FALSE), w = WholeSize(h), w <= off[h]
  PROVE  /\ sock[h] \in Sockets
         /\ NextByte(handed'[sock[h]]) = start[h] + w
         /\ ~Ended(handed'[sock[h]])
         /\ start[h] + w \in stream[sock[h]].boundaries
         /\ \A r \in Sockets \ {sock[h]} : handed'[r] = handed[r]
<1>0. TypeOK /\ ReaderInv(h)
  BY IInvParts DEF Reading
<1>1. sock[h] \in Sockets /\ IsStream(stream[sock[h]]) /\ handed[sock[h]] \in Seq(Entries)
  BY <1>0, UsedHandle DEF Unused, TypeOK
<1>2. start[h] \in Nat /\ off[h] \in Nat
  BY <1>0 DEF TypeOK
<1> DEFINE e == [start |-> start[h], len |-> w, via |-> via, zero |-> FALSE]
<1>3. e \in Entries /\ e.start = start[h] /\ e.len = w /\ e.zero = FALSE
  BY <1>2 DEF Entries
<1>4. /\ handed'[sock[h]] = Append(handed[sock[h]], e)
      /\ \A r \in Sockets \ {sock[h]} : handed'[r] = handed[r]
  BY <1>0, <1>1 DEF HandOver, TypeOK
<1>5. NextByte(handed'[sock[h]]) = start[h] + w /\ ~Ended(handed'[sock[h]])
  <2> HIDE DEF e
  <2> QED
    BY <1>1, <1>3, <1>4, LogEnd
<1>6. start[h] < stream[sock[h]].len /\ start[h] \in stream[sock[h]].boundaries
  <2>1. stream[sock[h]].len \in Nat
    BY <1>1 DEF IsStream
  <2> QED
    BY <1>0, <1>2, <2>1, ScannedSizes DEF ReaderInv
<1>7. start[h] + w \in stream[sock[h]].boundaries
  BY <1>1, <1>6 DEF IsStream, WholeSize
<1> QED
  BY <1>1, <1>4, <1>5, <1>7

(* Every step of a callback keeps the invariant.                           *)
LEMMA CallbackStep ==
  ASSUME IInv, TypeOK', NEW t \in Threads, Step(t)
  PROVE  IInv'
<1>0. PICK h : h = serving[t]
  OBVIOUS
<1>1. CASE ZeroRead(t)
  <2>1. At(t, "eof")
    BY <1>1 DEF ZeroRead
  <2>2. h \in Handles /\ st[h] \in Reading /\ sock[h] \in Sockets
    BY <2>1, <1>0, Caller
  <2>3. st'[h] = "release" /\ \A x \in Handles \ {h} : st'[x] = st[x]
    BY <1>1, <1>0, <2>2, IInvParts DEF ZeroRead, TypeOK
  <2>4. \A r \in Sockets \ {sock[h]} : handed'[r] = handed[r]
    BY <1>1, <1>0, <2>2, IInvParts DEF ZeroRead, HandOver, TypeOK
  <2> QED
    BY <1>1, <1>0, <2>2, <2>3, <2>4, StopsReading DEF ZeroRead
<1>2. CASE BadHeader(t)
  <2>1. At(t, "scan")
    BY <1>2 DEF BadHeader
  <2>2. h \in Handles /\ st[h] \in Reading
    BY <2>1, <1>0, Caller
  <2>3. st'[h] = "release" /\ \A x \in Handles \ {h} : st'[x] = st[x]
    BY <1>2, <1>0, <2>2, IInvParts DEF BadHeader, TypeOK
  <2> QED
    BY <1>2, <1>0, <2>2, <2>3, StopsReading DEF BadHeader
<1>3. CASE WholePacket(t)
  <2>1. At(t, "scan")
    BY <1>3 DEF WholePacket
  <2>2. /\ h \in Handles /\ st[h] = "scan" /\ st[h] \in Reading /\ ReaderInv(h)
        /\ sock[h] \in Sockets
        /\ start[h] \in Nat /\ off[h] \in Nat /\ Held(h) = off[h]
    BY <2>1, <1>0, Caller
  <2>3. /\ st'[h] = "repost" /\ UNCHANGED <<network, fields>>
        /\ \A x \in Handles \ {h} : SameReader(x)
    BY <1>3, <1>0, <2>2, IInvParts DEF WholePacket, TypeOK, SameReader, fields
  <2>4. /\ NextByte(handed'[sock[h]]) = start[h] + off[h]
        /\ ~Ended(handed'[sock[h]])
        /\ start[h] + off[h] \in stream[sock[h]].boundaries
        /\ \A r \in Sockets \ {sock[h]} : handed'[r] = handed[r]
    <3>1. PICK via \in AddPaths : HandOver(h, off[h], via, FALSE)
      BY <1>0, <1>3 DEF WholePacket
    <3>2. off[h] = WholeSize(h) /\ off[h] \in Nat \ {0}
      BY <1>0, <1>3, <2>2, ScannedSizes DEF WholePacket
    <3>3. off[h] <= off[h] /\ via \in AddPaths \cup {"batch"}
      BY <2>2
    <3> QED
      BY <2>2, <3>1, <3>2, <3>3, GoesOn
  <2>5. Held(h)' = off[h]
    BY <2>2, <2>3 DEF Held, fields
  <2>6. ReaderInv(h)'
    BY <2>2, <2>3, <2>4, <2>5 DEF ReaderInv, HoldsTheRest, ReaderOK, network, fields
  <2>7. ASSUME NEW x \in Handles, st'[x] \in Reading PROVE ReaderInv(x)'
    <3>1. CASE x # h
      BY <2>2, <2>3, <2>4, <2>7, <3>1, OtherReaders DEF SameReader, SameSocket, network
    <3> QED
      BY <2>6, <3>1
  <2>8. SingleReader'
    BY <2>2, <2>3, IInvParts, FewerReaders DEF SameReader, fields
  <2>9. BufferBounds'
    BY <2>2, <2>3, <2>5, IInvParts DEF BufferBounds, Held, SameReader, fields
  <2>10. FreshSockets'
    BY <2>2, <2>3, <2>4, IInvParts DEF FreshSockets, ReaderInv, ReaderOK, network
  <2> QED
    BY <2>7, <2>8, <2>9, <2>10, IInvPartsNext
<1>4. CASE Incomplete(t)
  <2>1. At(t, "scan")
    BY <1>4 DEF Incomplete
  <2>2. /\ h \in Handles /\ st[h] = "scan" /\ st[h] \in Reading /\ ReaderInv(h)
        /\ sock[h] \in Sockets
        /\ start[h] \in Nat /\ off[h] \in Nat /\ Held(h) = off[h]
    BY <2>1, <1>0, Caller
  <2>3. ASSUME UNCHANGED fields,
               \/ \E g \in Free : st' = [st EXCEPT ![h] = "release", ![g] = "leaked"]
               \/ st' = [st EXCEPT ![h] = "release"]
        PROVE  IInv'
    <3>1. /\ st'[h] = "release"
          /\ \A x \in Handles \ {h} : \/ st'[x] = st[x]
                                      \/ st[x] = "free" /\ st'[x] = "leaked"
      BY <2>2, <2>3, IInvParts DEF TypeOK, Free
    <3> QED
      BY <1>4, <1>0, <2>2, <2>3, <3>1, StopsReading DEF Incomplete
  <2>4. ASSUME NEW g \in Free, NewHandle(g, sock[h], start[h], off[h]),
               st' = [st EXCEPT ![h] = "release", ![g] = "posted"]
        PROVE  IInv'
    <3>1. /\ start[h] + off[h] = rcvd[sock[h]]
          /\ start[h] = NextByte(handed[sock[h]])
          /\ start[h] \in stream[sock[h]].boundaries
      BY <2>2 DEF ReaderInv, HoldsTheRest
    <3>2. off[h] <= BufferSize
      BY <2>2, IInvParts, BufferAssumption DEF BufferBounds, TypeOK
    <3>3. \/ off[h] < PACKET_SIZE
          \/ stream[sock[h]].whole[start[h]] = 0
          \/ off[h] < stream[sock[h]].whole[start[h]]
      BY <1>0, <1>4 DEF Incomplete, MustReadOn, HeaderShort, WholeSize
    <3> QED
      BY <1>4, <1>0, <2>2, <2>4, <3>1, <3>2, <3>3, PassesOn DEF Incomplete
  <2> QED
    BY <1>4, <1>0, <2>3, <2>4 DEF Incomplete
<1>5. CASE Batched(t)
  <2> DEFINE w == WholeSize(h)
  <2>1. At(t, "scan")
    BY <1>5 DEF Batched
  <2>2. /\ h \in Handles /\ st[h] = "scan" /\ st[h] \in Reading /\ ReaderInv(h)
        /\ sock[h] \in Sockets
        /\ start[h] \in Nat /\ off[h] \in Nat /\ Held(h) = off[h]
    BY <2>1, <1>0, Caller
  <2>3. w \in Nat \ {0} /\ w < off[h]
    BY <1>5, <1>0, <2>2, ScannedSizes DEF Batched
  <2>4. /\ start'[h] = start[h] + w /\ shift'[h] = shift[h] + w /\ off'[h] = off[h] - w
        /\ UNCHANGED <<network, st, sock, got>>
        /\ \A x \in Handles \ {h} : SameReader(x)
    BY <1>5, <1>0, <2>2, IInvParts DEF Batched, TakeFirst, TypeOK, SameReader
  <2>5. /\ NextByte(handed'[sock[h]]) = start[h] + w
        /\ ~Ended(handed'[sock[h]])
        /\ start[h] + w \in stream[sock[h]].boundaries
        /\ \A r \in Sockets \ {sock[h]} : handed'[r] = handed[r]
    <3>1. HandOver(h, w, "batch", FALSE)
      BY <1>0, <1>5 DEF Batched, TakeFirst
    <3> HIDE DEF w
    <3>2. w = WholeSize(h)
      BY DEF w
    <3>3. w <= off[h] /\ "batch" \in AddPaths \cup {"batch"}
      BY <2>2, <2>3
    <3> QED
      BY <2>2, <2>3, <3>1, <3>2, <3>3, GoesOn, Zenon
  <2>6. Held(h)' = off[h] - w
    BY <2>2, <2>3, <2>4 DEF Held
  <2>7. ReaderInv(h)'
    <3>1. HoldsTheRest(h)'
      <4> HIDE DEF w
      <4> QED
        BY <2>2, <2>3, <2>4, <2>5, <2>6 DEF ReaderInv, HoldsTheRest, network
    <3>2. ReaderOK(h)'
      <4> HIDE DEF w
      <4> QED
        BY <2>2, <2>3, <2>4, <2>5 DEF ReaderInv, ReaderOK, network
    <3> QED
      BY <2>4, <2>5, <3>1, <3>2 DEF ReaderInv, network
  <2>8. ASSUME NEW x \in Handles, st'[x] \in Reading PROVE ReaderInv(x)'
    <3>1. CASE x # h
      BY <2>2, <2>4, <2>5, <2>8, <3>1, OtherReaders DEF SameReader, SameSocket, network
    <3> QED
      BY <2>7, <3>1
  <2>9. SingleReader'
    BY <2>4, IInvParts, FewerReaders
  <2>10. BufferBounds'
    <3>1. shift[h] \in Nat /\ shift[h] + off[h] <= BufferSize
      BY <2>2, IInvParts DEF BufferBounds, TypeOK
    <3>2. (shift[h] + Held(h) <= BufferSize)'
      <4> HIDE DEF w
      <4> QED
        BY <2>2, <2>3, <2>4, <2>6, <3>1, BufferAssumption
    <3> QED
      BY <2>4, <3>2, IInvParts DEF BufferBounds, Held, SameReader
  <2>11. FreshSockets'
    BY <2>2, <2>4, <2>5, IInvParts DEF FreshSockets, ReaderInv, ReaderOK, network
  <2> QED
    BY <2>8, <2>9, <2>10, <2>11, IInvPartsNext
<1>6. CASE Repost(t)
  <2>1. At(t, "repost")
    BY <1>6 DEF Repost
  <2>2. /\ h \in Handles /\ st[h] = "repost" /\ st[h] \in Reading /\ ReaderInv(h)
        /\ sock[h] \in Sockets
        /\ start[h] \in Nat /\ off[h] \in Nat /\ Held(h) = off[h]
    BY <2>1, <1>0, Caller
  <2>3. ASSUME UNCHANGED fields, st' = [st EXCEPT ![h] = "release"]
        PROVE  IInv'
    <3>1. st'[h] = "release" /\ \A x \in Handles \ {h} : st'[x] = st[x]
      BY <2>2, <2>3, IInvParts DEF TypeOK
    <3> QED
      BY <1>6, <1>0, <2>2, <2>3, <3>1, StopsReading DEF Repost
  <2>4. ASSUME NEW g \in Free, NewHandle(g, sock[h], start[h] + off[h], 0),
               st' = [st EXCEPT ![h] = "release", ![g] = "posted"]
        PROVE  IInv'
    <3> DEFINE p == start[h] + off[h]
    <3>1. /\ p \in Nat
          /\ p + 0 = rcvd[sock[h]]
          /\ p = NextByte(handed[sock[h]])
          /\ p \in stream[sock[h]].boundaries
      BY <2>2 DEF ReaderInv, HoldsTheRest, ReaderOK
    <3>2. 0 <= BufferSize /\ 0 < PACKET_SIZE
      BY BufferAssumption, HeaderAssumption
    <3> QED
      BY <1>6, <1>0, <2>2, <2>4, <3>1, <3>2, PassesOn DEF Repost
  <2> QED
    BY <1>6, <1>0, <2>3, <2>4 DEF Repost
<1>7. CASE Release(t)
  <2>1. h \in Handles /\ st[h] = "release"
    BY <1>0, <1>7, AtHandle, IInvParts DEF Release
  <2>2. /\ st'[h] = "free" /\ shift'[h] = 0 /\ off'[h] = 0
        /\ UNCHANGED <<network, handed>>
        /\ \A x \in Handles \ {h} : SameReader(x)
    BY <1>7, <1>0, <2>1, IInvParts DEF Release, NewHandle, TypeOK, SameReader
  <2>3. \A x \in Handles : st'[x] \in Reading => x # h /\ st[x] \in Reading /\ SameReader(x)
    BY <2>1, <2>2 DEF SameReader, Reading
  <2>4. ASSUME NEW x \in Handles, st'[x] \in Reading PROVE ReaderInv(x)'
    <3>1. ReaderInv(x) /\ sock[x] \in Sockets
      BY <2>3, <2>4, IInvParts, UsedHandle DEF Reading, Unused
    <3> QED
      BY <2>2, <2>3, <2>4, <3>1, Untouched DEF SameSocket, network
  <2>5. SingleReader'
    BY <2>3, IInvParts, FewerReaders DEF SameReader
  <2>6. BufferBounds'
    <3>1. (shift[h] + Held(h) <= BufferSize)'
      BY <2>2, BufferAssumption DEF Held
    <3> QED
      BY <2>2, <3>1, IInvParts DEF BufferBounds, Held, SameReader
  <2>7. FreshSockets'
    BY <2>2, IInvParts DEF FreshSockets, network
  <2> QED
    BY <2>4, <2>5, <2>6, <2>7, IInvPartsNext
<1> QED
  BY <1>1, <1>2, <1>3, <1>4, <1>5, <1>6, <1>7 DEF Step

LEMMA IInvNext == IInv /\ [Next]_vars => IInv'
<1> SUFFICES ASSUME IInv, [Next]_vars PROVE IInv'
  OBVIOUS
<1>1. TypeOK'
  BY TypeNext
<1>2. CASE UNCHANGED vars
  <2>1. UNCHANGED <<network, fields, st, handed>> /\ \A x \in Handles : SameReader(x)
    BY <1>2 DEF vars, fields, SameReader
  <2>2. ASSUME NEW x \in Handles, st'[x] \in Reading PROVE ReaderInv(x)'
    <3>1. ReaderInv(x) /\ sock[x] \in Sockets
      BY <2>1, <2>2, IInvParts, UsedHandle DEF Reading, Unused
    <3> QED
      BY <2>1, <3>1, Untouched DEF SameSocket, network
  <2>3. SingleReader' /\ BufferBounds' /\ FreshSockets'
    BY <2>1, IInvParts DEF SingleReader, BufferBounds, Held, FreshSockets, network, fields
  <2> QED
    BY <1>1, <2>2, <2>3, IInvPartsNext
<1> QED
  BY <1>1, <1>2, OutsideStep, RunStep, CallbackStep DEF Next

(* The inductive invariant holds in every reachable state. *)
THEOREM Invariance == Spec => []IInv
BY IInvInit, IInvNext, PTL DEF Spec

(* Every variable keeps its type: no offset goes below 0, and a handle is  *)
(* in use exactly as long as it belongs to a socket. *)
THEOREM TypeCorrect == Spec => []TypeOK
BY Invariance, PTL DEF IInv

(* At most one receive of a socket is outstanding, on any number of io     *)
(* threads. *)
THEOREM OneReader == Spec => []SingleReader
BY Invariance, PTL DEF IInv

(* However the stream is cut into reads, no byte is lost or read twice. *)
THEOREM NothingLost == Spec => []NoByteLost
BY Invariance, PTL DEF IInv

(* Header fields are only read at packet boundaries. *)
THEOREM UnpacksAligned == Spec => []Aligned
BY Invariance, PTL DEF IInv

(* No receive, copy or header read leaves the buffer of a handle. *)
THEOREM StaysInBuffer == Spec => []BufferBounds
BY Invariance, PTL DEF IInv
-----------------------------------------------------------------------------
(* The refinement: ZeroRead is the abstract End, WholePacket and Batched   *)
(* are Deliver, and every other step leaves stream and handed alone.       *)
LEMMA DeliversPacket ==
  ASSUME IInv, NEW h \in Handles, st[h] = "scan", HeaderGood(h),
         WholeSize(h) # 0, WholeSize(h) <= off[h],
         NEW via \in AddPaths \cup {"batch"},
         HandOver(h, WholeSize(h), via, FALSE), stream' = stream
  PROVE  PS!PSNext
<1> DEFINE s == sock[h]
           w == stream[s].whole[start[h]]
<1>1. ReaderInv(h) /\ s \in Sockets
  BY IInvParts, UsedHandle DEF Reading, Unused
<1>2. /\ PS!NextByte(handed[s]) = start[h]
      /\ ~PS!Ended(handed[s])
  BY <1>1 DEF ReaderInv, HoldsTheRest, ReaderOK, NextByte, Ended, PS!NextByte, PS!Ended
<1>3. /\ start[h] + w <= stream[s].len
      /\ stream[s].header[start[h]] = PACKET_SIZE
      /\ w > 0
  <2>1. start[h] + off[h] <= stream[s].len /\ w \in Nat /\ w <= off[h] /\ w # 0
    BY ScannedSizes DEF WholeSize
  <2>2. start[h] \in Nat /\ off[h] \in Nat /\ stream[s].len \in Nat
    BY <1>1, IInvParts, UsedHandle DEF TypeOK, IsStream, Unused
  <2>3. stream[s].header[start[h]] = PACKET_SIZE
    BY DEF HeaderGood, HeaderSize
  <2> HIDE DEF w
  <2> QED
    BY <2>1, <2>2, <2>3
<1>4. via \in PS!AddPaths \cup {"batch"}
  BY DEF AddPaths, PS!AddPaths
<1>5. handed' = [handed EXCEPT ![s] =
        Append(@, [start |-> start[h], len |-> w, via |-> via, zero |-> FALSE])]
  BY DEF HandOver, WholeSize
<1>6. PS!Deliver(s)
  BY <1>2, <1>3, <1>4, <1>5 DEF PS!Deliver
<1> QED
  BY <1>1, <1>6 DEF PS!PSNext

LEMMA DeliversEnd ==
  ASSUME IInv, NEW t \in Threads, ZeroRead(t)
  PROVE  PS!PSNext
<1>1. PICK h : h = serving[t]
  OBVIOUS
<1> DEFINE s == sock[h]
<1>2. At(t, "eof")
  BY DEF ZeroRead
<1>3. /\ ReaderInv(h) /\ s \in Sockets /\ start[h] \in Nat /\ off[h] \in Nat
      /\ Held(h) = off[h] /\ st[h] = "eof" /\ IsStream(stream[s])
  BY <1>1, <1>2, Caller
<1>4. PS!NextByte(handed[s]) = start[h] /\ ~PS!Ended(handed[s])
  BY <1>3 DEF ReaderInv, HoldsTheRest, ReaderOK, NextByte, Ended, PS!NextByte, PS!Ended
<1>5. off[h] \in 0 .. stream[s].len - start[h]
  <2>1. start[h] + off[h] <= stream[s].len
    BY <1>3 DEF ReaderInv, HoldsTheRest, ReaderOK
  <2>2. stream[s].len \in Nat
    BY <1>3 DEF IsStream
  <2> QED
    BY <1>3, <2>1, <2>2
<1>6. \/ off[h] < PACKET_SIZE
      \/ stream[s].whole[start[h]] = 0
      \/ off[h] < stream[s].whole[start[h]]
  BY <1>3 DEF ReaderInv, ReaderOK, Unfinished, HeaderShort, WholeSize
<1>7. PICK via \in PS!AddPaths : handed' = [handed EXCEPT ![s] =
        Append(@, [start |-> start[h], len |-> off[h], via |-> via, zero |-> TRUE])]
  BY <1>1 DEF ZeroRead, HandOver, AddPaths, PS!AddPaths
<1>8. stream' = stream
  BY DEF ZeroRead, network
<1>9. PS!End(s)
  BY <1>4, <1>5, <1>6, <1>7, <1>8 DEF PS!End
<1> QED
  BY <1>3, <1>9 DEF PS!PSNext

LEMMA RefinesNext == IInv /\ [Next]_vars => [PS!PSNext]_(PS!psVars)
<1> SUFFICES ASSUME IInv, [Next]_vars, ~ UNCHANGED <<stream, handed>>
             PROVE  PS!PSNext
  BY DEF PS!psVars
<1>1. PICK t \in Threads : ZeroRead(t) \/ WholePacket(t) \/ Batched(t)
  BY DEF Next, Open, PeerCloses, ClosedHere, Arrive, CompleteEmpty, Run, Step,
         BadHeader, Incomplete, Repost, Release, vars, network
<1>2. PICK h : h = serving[t]
  OBVIOUS
<1>3. CASE ZeroRead(t)
  BY <1>3, DeliversEnd
<1>4. CASE WholePacket(t)
  <2>1. At(t, "scan") /\ stream' = stream
    BY <1>4 DEF WholePacket, network
  <2>2. h \in Handles /\ st[h] = "scan" /\ off[h] \in Nat
    BY <1>2, <2>1, Caller
  <2>3. HeaderGood(h) /\ WholeSize(h) = off[h] /\ off[h] # 0
    BY <1>2, <1>4, <2>2, ScannedSizes DEF WholePacket
  <2>4. PICK via \in AddPaths : HandOver(h, WholeSize(h), via, FALSE)
    BY <1>2, <1>4 DEF WholePacket
  <2>5. WholeSize(h) # 0 /\ WholeSize(h) <= off[h] /\ via \in AddPaths \cup {"batch"}
    BY <2>2, <2>3
  <2> QED
    BY <2>1, <2>2, <2>3, <2>4, <2>5, DeliversPacket
<1>5. CASE Batched(t)
  <2>1. At(t, "scan") /\ stream' = stream
    BY <1>5 DEF Batched, TakeFirst, network
  <2>2. h \in Handles /\ st[h] = "scan" /\ off[h] \in Nat
    BY <1>2, <2>1, Caller
  <2>3. /\ HeaderGood(h) /\ WholeSize(h) < off[h] /\ WholeSize(h) # 0
        /\ HandOver(h, WholeSize(h), "batch", FALSE)
    BY <1>2, <1>5 DEF Batched, TakeFirst
  <2>4. WholeSize(h) <= off[h] /\ "batch" \in AddPaths \cup {"batch"}
    BY <2>2, <2>3, ScannedSizes
  <2> QED
    BY <2>1, <2>2, <2>3, <2>4, DeliversPacket
<1> QED
  BY <1>1, <1>3, <1>4, <1>5

(* ReceiveManager implements PacketStream: on every connection the packets *)
(* are handed over whole, once and in the order sent, and at most once the *)
(* end of the connection, after which nothing follows. *)
THEOREM HandsOverThePackets == Spec => ImplementsPacketStream
<1>1. Init => PS!PSInit
  BY DEF Init, PS!PSInit
<1> QED
  BY <1>1, RefinesNext, Invariance, PTL DEF Spec, ImplementsPacketStream, PS!PSSpec

(* A connection loses its reader in four ways only.  Outside of Receive    *)
(* none does: a completed receive is taken, and other handles stay.        *)
LEMMA OutsideKeepsReaders ==
  ASSUME TypeOK, NEW h \in Handles, st[h] \in Reading,
         \/ \E s \in Sockets : Open(s) \/ PeerCloses(s) \/ ClosedHere(s)
         \/ \E g \in Handles : Arrive(g) \/ CompleteEmpty(g)
         \/ \E t \in Threads, g \in Handles : Run(t, g)
  PROVE  st'[h] \in Reading /\ sock'[h] = sock[h]
<1>1. ASSUME NEW s \in Sockets, Open(s) \/ PeerCloses(s) \/ ClosedHere(s)
      PROVE  st'[h] \in Reading /\ sock'[h] = sock[h]
  BY <1>1 DEF Open, PeerCloses, ClosedHere, NewHandle, Free, fields, Reading, TypeOK
<1>2. ASSUME NEW g \in Handles, Arrive(g) \/ CompleteEmpty(g)
      PROVE  st'[h] \in Reading /\ sock'[h] = sock[h]
  BY <1>2 DEF Arrive, CompleteEmpty, fields, Reading, TypeOK
<1>3. ASSUME NEW t \in Threads, NEW g \in Handles, Run(t, g)
      PROVE  st'[h] \in Reading /\ sock'[h] = sock[h]
  BY <1>3 DEF Run, Reading, TypeOK
<1> QED
  BY <1>1, <1>2, <1>3

(* In Receive, and after it, the reader of s ends without a successor.     *)
LEMMA CallbackStops ==
  ASSUME IInv, NEW t \in Threads, Step(t), NEW h \in Handles, st[h] \in Reading,
         NEW s \in Sockets, s = sock[h], ~HasReader(s)'
  PROVE  MayStop(s)
<1>0. TypeOK /\ ReaderInv(h)
  BY IInvParts
<1>1. \A g \in Handles : ~(sock'[g] = s /\ st'[g] \in Reading)
  BY DEF HasReader
<1>2. conn[s] # "open" => conn[s] = "closed"
  BY <1>0 DEF ReaderInv, ReaderOK, TypeOK
<1>3. CASE ZeroRead(t)
  <2>1. serving[t] = h /\ st[h] = "eof"
    BY <1>0, <1>1, <1>3, AtHandle DEF ZeroRead, fields, TypeOK
  <2>2. PICK via \in AddPaths : HandOver(h, off[h], via, TRUE)
    BY <1>3, <2>1 DEF ZeroRead
  <2> DEFINE e == [start |-> start[h], len |-> off[h], via |-> via, zero |-> TRUE]
  <2>3. e \in Entries /\ e.zero
    BY <1>0 DEF Entries, TypeOK
  <2>4. handed[s] \in Seq(Entries) /\ handed'[s] = Append(handed[s], e)
    BY <1>0, <2>2 DEF HandOver, TypeOK
  <2> HIDE DEF e
  <2>5. Ended(handed'[s])
    BY <2>3, <2>4, LogEnd
  <2> QED
    BY <2>5 DEF MayStop
<1>4. CASE BadHeader(t)
  <2>1. serving[t] = h /\ st[h] = "scan"
    BY <1>0, <1>1, <1>4, AtHandle DEF BadHeader, fields, TypeOK
  <2>2. NextByte(handed[s]) = start[h]
    BY <1>0, <2>1 DEF ReaderInv, HoldsTheRest
  <2> QED
    BY <1>4, <2>1, <2>2 DEF BadHeader, HeaderWrong, HeaderSize, MayStop
<1>5. CASE WholePacket(t)
  BY <1>0, <1>1, <1>5, AtHandle DEF WholePacket, fields, Reading, TypeOK
<1>6. CASE Batched(t)
  BY <1>1, <1>6 DEF Batched, TakeFirst
<1>7. ASSUME NEW g \in Free, NEW p, NEW k, serving[t] = h,
             NewHandle(g, sock[h], p, k),
             st' = [st EXCEPT ![h] = "release", ![g] = "posted"]
      PROVE  FALSE
  <2>1. g \in Handles /\ g # h /\ sock'[g] = s /\ st'[g] = "posted"
    BY <1>0, <1>7 DEF Free, NewHandle, Reading, TypeOK
  <2> QED
    BY <1>1, <2>1 DEF Reading
<1>8. CASE Incomplete(t)
  <2>1. serving[t] = h
    BY <1>0, <1>1, <1>8, AtHandle DEF Incomplete, NewHandle, fields, Free, Reading, TypeOK
  <2> QED
    BY <1>2, <1>7, <1>8, <2>1 DEF Incomplete, MayStop
<1>9. CASE Repost(t)
  <2>1. ASSUME serving[t] # h
        PROVE  FALSE
    <3>1. h \notin Free /\ serving[t] \in Handles
      BY <1>0, <1>9, AtHandle DEF Repost, Free, Reading
    <3>2. CASE UNCHANGED fields /\ st' = [st EXCEPT ![serving[t]] = "release"]
      BY <1>0, <1>1, <2>1, <3>2 DEF fields, TypeOK
    <3>3. ASSUME NEW g \in Free, NewHandle(g, sock[serving[t]], start[serving[t]] + off[serving[t]], 0),
                 st' = [st EXCEPT ![serving[t]] = "release", ![g] = "posted"]
          PROVE  FALSE
      BY <1>0, <1>1, <2>1, <3>1, <3>3 DEF NewHandle, TypeOK
    <3> QED
      BY <1>9, <3>2, <3>3 DEF Repost
  <2> QED
    BY <1>2, <1>7, <1>9, <2>1 DEF Repost, MayStop
<1>10. CASE Release(t)
  <2>1. serving[t] # h
    BY <1>0, <1>10, AtHandle DEF Release, Reading
  <2> QED
    BY <1>0, <1>1, <1>10, <2>1 DEF Release, NewHandle, TypeOK
<1> QED
  BY <1>3, <1>4, <1>5, <1>6, <1>8, <1>9, <1>10 DEF Step

LEMMA StopsForAReason ==
  IInv /\ [Next]_vars => [\A s \in Sockets : HasReader(s) /\ ~HasReader(s)' => MayStop(s)]_vars
<1> SUFFICES ASSUME IInv, Next, NEW s \in Sockets, HasReader(s), ~HasReader(s)'
             PROVE  MayStop(s)
  OBVIOUS
<1>1. PICK h \in Handles : sock[h] = s /\ st[h] \in Reading
  BY DEF HasReader
<1>2. CASE \E t \in Threads : Step(t)
  BY <1>1, <1>2, CallbackStops
<1>3. CASE ~\E t \in Threads : Step(t)
  <2>1. st'[h] \in Reading /\ sock'[h] = s
    BY <1>1, <1>3, OutsideKeepsReaders DEF Next, IInv
  <2> QED
    BY <2>1 DEF HasReader
<1> QED
  BY <1>2, <1>3

(* A connection stops being read only when its end or a wrong header was   *)
(* met, it was closed here, or no handle was left, with any number of them. *)
THEOREM StopsReadingForAReason == Spec => ReaderStops
BY StopsForAReason, Invariance, PTL DEF Spec, ReaderStops

-----------------------------------------------------------------------------
(* Part 2: Dispatching.                                                    *)

(* A thread in AsynReceive has a handle of its own, at a point of Receive. *)
InCallback == {"eof", "scan", "repost", "release"}

ServingOK ==
  /\ \A t \in Threads : serving[t] # None => st[serving[t]] \in InCallback
  /\ \A t, u \in Threads : serving[t] # None /\ serving[t] = serving[u] => t = u

(* While DoData runs on an io thread, its handle still reads the connection *)
(* the message came from, or the message was the end of that connection.   *)
CallOK(t) ==
  LET h == serving[t] IN
  /\ h # None
  /\ sock[h] = calling[t].sock
  /\ st[h] \in {"scan", "repost"} \/ (st[h] = "release" /\ Ended(handed[sock[h]]))

CallsOK ==
  /\ calling \in [Threads -> {NoMessage} \cup [sock : Sockets, n : Nat]]
  /\ \A t \in Threads : calling[t] # NoMessage => CallOK(t)

DInv == IInv /\ ServingOK /\ CallsOK /\ OneIoThread

-----------------------------------------------------------------------------
(* Every step of the composition is one of ReceiveManager, or none.        *)
LEMMA NetworkReceives == Network => Next
BY DEF Network, Next

LEMMA IoStepReceives == ASSUME NEW t \in Threads, IoStep(t) PROVE Next
BY DEF IoStep, Next

LEMMA OthersDoNot ==
  /\ \A t : DoDataReturns(t) => UNCHANGED vars
  /\ \A w : Work(w) => UNCHANGED vars
BY DEF DoDataReturns, Work

LEMMA Receives == [DNext]_dVars => [Next]_vars
<1>1. UNCHANGED dVars => UNCHANGED vars
  BY DEF dVars
<1> QED
  BY <1>1, NetworkReceives, IoStepReceives, OthersDoNot DEF DNext

(* Dispatching implements ReceiveManager: the queue and DoData hinder no   *)
(* receive, and the theorems about ReceiveManager hold of it.              *)
THEOREM ImplementsReceiving == DSpec => Spec
<1>1. DInit => Init
  BY DEF DInit
<1> QED
  BY <1>1, Receives, PTL DEF DSpec, Spec

-----------------------------------------------------------------------------
(* What a step of ReceiveManager outside of callbacks leaves alone.        *)
LEMMA NetworkKeeps ==
  ASSUME IInv, ServingOK, Network
  PROVE  /\ handed' = handed
         /\ \A t \in Threads : serving[t] # None =>
              /\ serving'[t] = serving[t]
              /\ st'[serving[t]] = st[serving[t]]
              /\ sock'[serving[t]] = sock[serving[t]]
         /\ ServingOK'
<1>0. TypeOK
  BY DEF IInv
<1>1. ASSUME NEW s \in Sockets, Open(s) \/ PeerCloses(s) \/ ClosedHere(s)
      PROVE  /\ handed' = handed /\ serving' = serving
             /\ \A h \in Handles : st[h] # "free" => st'[h] = st[h] /\ sock'[h] = sock[h]
  BY <1>0, <1>1 DEF Open, PeerCloses, ClosedHere, fields, NewHandle, Free, TypeOK
<1>2. ASSUME NEW g \in Handles, Arrive(g) \/ CompleteEmpty(g)
      PROVE  /\ handed' = handed /\ serving' = serving /\ sock' = sock
             /\ \A h \in Handles : st[h] # "posted" => st'[h] = st[h]
  BY <1>0, <1>2 DEF Arrive, CompleteEmpty, fields, TypeOK
<1>3. ASSUME NEW u \in Threads, NEW g \in Handles, Run(u, g)
      PROVE  /\ handed' = handed /\ sock' = sock
             /\ serving[u] = None /\ serving' = [serving EXCEPT ![u] = g]
             /\ st[g] = "completed" /\ st'[g] \in InCallback
             /\ \A h \in Handles : h # g => st'[h] = st[h]
  BY <1>0, <1>3 DEF Run, TypeOK, InCallback
<1>4. \A t \in Threads : serving[t] # None =>
        serving[t] \in Handles /\ st[serving[t]] \notin {"free", "posted", "completed"}
  BY <1>0 DEF ServingOK, InCallback, TypeOK
<1>5. CASE \E s \in Sockets : Open(s) \/ PeerCloses(s) \/ ClosedHere(s)
  BY <1>1, <1>4, <1>5 DEF ServingOK
<1>6. CASE \E h \in Handles : Arrive(h) \/ CompleteEmpty(h)
  BY <1>2, <1>4, <1>6 DEF ServingOK
<1>7. CASE \E t \in Threads, h \in Handles : Run(t, h)
  <2>1. PICK u \in Threads, g \in Handles : Run(u, g)
    BY <1>7
  <2>2. \A t \in Threads : serving[t] # None => t # u /\ serving[t] # g
    BY <1>3, <1>4, <2>1
  <2>3. \A t \in Threads : serving'[t] = IF t = u THEN g ELSE serving[t]
    BY <1>0, <1>3, <2>1 DEF TypeOK
  <2>4. g # None
    BY NoneAssumption
  <2>5. \A t \in Threads : serving[t] # None =>
          /\ serving'[t] = serving[t]
          /\ st'[serving[t]] = st[serving[t]]
          /\ sock'[serving[t]] = sock[serving[t]]
    BY <1>3, <1>4, <2>1, <2>2, <2>3
  <2>6. ServingOK'
    <3>1. ASSUME NEW t \in Threads, serving'[t] # None
          PROVE  st'[serving'[t]] \in InCallback
      BY <1>3, <2>1, <2>3, <2>5, <3>1 DEF ServingOK
    <3>2. ASSUME NEW t \in Threads, NEW v \in Threads,
                 serving'[t] # None, serving'[t] = serving'[v]
          PROVE  t = v
      BY <2>2, <2>3, <2>4, <3>2 DEF ServingOK
    <3> QED
      BY <3>1, <3>2 DEF ServingOK
  <2> QED
    BY <1>3, <2>1, <2>5, <2>6
<1> QED
  BY <1>5, <1>6, <1>7 DEF Network

(* What a step of thread u in AsynReceive does: its handle goes on or is   *)
(* released, other handles in use are left alone, and what is handed over  *)
(* comes from a handle that reads, of the connection it reads.             *)
Appends(h) ==
  /\ st[h] \in {"eof", "scan"}
  /\ \E e \in Entries :
       /\ handed' = [handed EXCEPT ![sock[h]] = Append(@, e)]
       /\ e.zero <=> st[h] = "eof"
  /\ st'[h] \in {"scan", "repost"} \/ (st[h] = "eof" /\ st'[h] = "release")

LEMMA StepDoes ==
  ASSUME IInv, NEW u \in Threads, Step(u), NEW h, h = serving[u]
  PROVE  /\ h \in Handles
         /\ \/ /\ serving' = serving /\ sock'[h] = sock[h]
               /\ st'[h] \in {"scan", "repost", "release"}
            \/ serving' = [serving EXCEPT ![u] = None] /\ handed' = handed
         /\ \A g \in Handles : g # h /\ st[g] # "free" => st'[g] = st[g] /\ sock'[g] = sock[g]
         /\ handed' = handed \/ Appends(h)
<1>0. TypeOK
  BY DEF IInv
<1>1. CASE ZeroRead(u)
  <2>1. h \in Handles /\ st[h] = "eof"
    BY <1>0, <1>1, AtHandle DEF ZeroRead
  <2>2. PICK via \in AddPaths : HandOver(h, off[h], via, TRUE)
    BY <1>1 DEF ZeroRead
  <2>3. st' = [st EXCEPT ![h] = "release"] /\ serving' = serving /\ sock' = sock
    BY <1>1 DEF ZeroRead, fields
  <2> DEFINE e == [start |-> start[h], len |-> off[h], via |-> via, zero |-> TRUE]
  <2>4. e \in Entries /\ e.zero = TRUE
    BY <1>0, <2>1 DEF Entries, TypeOK
  <2>5. handed' = [handed EXCEPT ![sock[h]] = Append(@, e)]
    BY <2>2 DEF HandOver
  <2> HIDE DEF e
  <2>6. Appends(h)
    BY <1>0, <2>1, <2>3, <2>4, <2>5 DEF Appends, TypeOK
  <2> QED
    BY <1>0, <2>1, <2>3, <2>6 DEF TypeOK
<1>2. CASE BadHeader(u)
  <2>1. h \in Handles
    BY <1>0, <1>2, AtHandle DEF BadHeader
  <2> QED
    BY <1>0, <1>2, <2>1 DEF BadHeader, fields, TypeOK
<1>3. CASE WholePacket(u)
  <2>1. h \in Handles /\ st[h] = "scan"
    BY <1>0, <1>3, AtHandle DEF WholePacket
  <2>2. PICK via \in AddPaths : HandOver(h, off[h], via, FALSE)
    BY <1>3 DEF WholePacket
  <2>3. st' = [st EXCEPT ![h] = "repost"] /\ serving' = serving /\ sock' = sock
    BY <1>3 DEF WholePacket, fields
  <2> DEFINE e == [start |-> start[h], len |-> off[h], via |-> via, zero |-> FALSE]
  <2>4. e \in Entries /\ e.zero = FALSE
    BY <1>0, <2>1 DEF Entries, TypeOK
  <2>5. handed' = [handed EXCEPT ![sock[h]] = Append(@, e)]
    BY <2>2 DEF HandOver
  <2> HIDE DEF e
  <2>6. Appends(h)
    BY <1>0, <2>1, <2>3, <2>4, <2>5 DEF Appends, TypeOK
  <2> QED
    BY <1>0, <2>1, <2>3, <2>6 DEF TypeOK
<1>4. CASE Incomplete(u)
  <2>1. h \in Handles /\ st[h] = "scan"
    BY <1>0, <1>4, AtHandle DEF Incomplete
  <2>2. serving' = serving /\ handed' = handed
    BY <1>4 DEF Incomplete
  <2>3. st'[h] = "release" /\ sock'[h] = sock[h]
    BY <1>0, <1>4, <2>1 DEF Incomplete, NewHandle, fields, Free, TypeOK
  <2>4. \A g \in Handles : g # h /\ st[g] # "free" => st'[g] = st[g] /\ sock'[g] = sock[g]
    BY <1>0, <1>4, <2>1 DEF Incomplete, NewHandle, fields, Free, TypeOK
  <2> QED
    BY <2>1, <2>2, <2>3, <2>4
<1>5. CASE Batched(u)
  <2>1. h \in Handles /\ st[h] = "scan"
    BY <1>0, <1>5, AtHandle DEF Batched
  <2>2. HandOver(h, WholeSize(h), "batch", FALSE)
    BY <1>5 DEF Batched, TakeFirst
  <2>3. st' = st /\ serving' = serving /\ sock' = sock
    BY <1>5 DEF Batched, TakeFirst
  <2>4. WholeSize(h) \in Nat
    BY <1>5, <2>1, ScannedSizes DEF Batched
  <2> DEFINE e == [start |-> start[h], len |-> WholeSize(h), via |-> "batch", zero |-> FALSE]
  <2>5. e \in Entries /\ e.zero = FALSE
    BY <1>0, <2>1, <2>4 DEF Entries, TypeOK
  <2>6. handed' = [handed EXCEPT ![sock[h]] = Append(@, e)]
    BY <2>2 DEF HandOver
  <2> HIDE DEF e
  <2>7. Appends(h)
    BY <1>0, <2>1, <2>3, <2>5, <2>6 DEF Appends, TypeOK
  <2> QED
    BY <2>1, <2>3, <2>7
<1>6. CASE Repost(u)
  <2>1. h \in Handles /\ st[h] = "repost"
    BY <1>0, <1>6, AtHandle DEF Repost
  <2>2. serving' = serving /\ handed' = handed
    BY <1>6 DEF Repost
  <2>3. st'[h] = "release" /\ sock'[h] = sock[h]
    BY <1>0, <1>6, <2>1 DEF Repost, NewHandle, fields, Free, TypeOK
  <2>4. \A g \in Handles : g # h /\ st[g] # "free" => st'[g] = st[g] /\ sock'[g] = sock[g]
    BY <1>0, <1>6, <2>1 DEF Repost, NewHandle, fields, Free, TypeOK
  <2> QED
    BY <2>1, <2>2, <2>3, <2>4
<1>7. CASE Release(u)
  <2>1. h \in Handles
    BY <1>0, <1>7, AtHandle DEF Release
  <2> QED
    BY <1>0, <1>7, <2>1 DEF Release, NewHandle, TypeOK
<1> QED
  BY <1>1, <1>2, <1>3, <1>4, <1>5, <1>6, <1>7 DEF Step

-----------------------------------------------------------------------------
(* A thread that goes on keeps its handle to itself, and the others theirs. *)
LEMMA StepServes ==
  ASSUME IInv, ServingOK, NEW u \in Threads, Step(u)
  PROVE  /\ ServingOK'
         /\ \A t \in Threads : t # u /\ serving[t] # None =>
              /\ serving'[t] = serving[t]
              /\ st'[serving[t]] = st[serving[t]]
              /\ sock'[serving[t]] = sock[serving[t]]
<1>0. TypeOK
  BY DEF IInv
<1>1. PICK h : h = serving[u]
  OBVIOUS
<1>2. /\ h \in Handles
      /\ \/ serving' = serving /\ st'[h] \in {"scan", "repost", "release"}
         \/ serving' = [serving EXCEPT ![u] = None]
      /\ \A g \in Handles : g # h /\ st[g] # "free" => st'[g] = st[g] /\ sock'[g] = sock[g]
  BY <1>1, StepDoes
<1>3. \A t \in Threads : t # u /\ serving[t] # None =>
        serving[t] \in Handles /\ serving[t] # h /\ st[serving[t]] # "free"
  BY <1>0, <1>1 DEF ServingOK, InCallback, TypeOK
<1>4. \A t \in Threads : t # u => serving'[t] = serving[t]
  BY <1>0, <1>2 DEF TypeOK
<1>5. serving'[u] = h \/ serving'[u] = None
  BY <1>0, <1>1, <1>2 DEF TypeOK
<1>6. \A t \in Threads : t # u /\ serving[t] # None =>
        /\ serving'[t] = serving[t]
        /\ st'[serving[t]] = st[serving[t]]
        /\ sock'[serving[t]] = sock[serving[t]]
  BY <1>2, <1>3, <1>4
<1>7. h # None
  BY <1>2, NoneAssumption
<1>8. ASSUME NEW t \in Threads, serving'[t] # None
      PROVE  st'[serving'[t]] \in InCallback
  <2>1. CASE t = u
    <3>1. serving'[u] = h /\ serving' = serving
      BY <1>0, <1>2, <1>5, <1>8, <2>1 DEF TypeOK
    <3>2. st'[h] \in {"scan", "repost", "release"}
      BY <1>0, <1>2, <1>7, <3>1 DEF TypeOK
    <3> QED
      BY <2>1, <3>1, <3>2 DEF InCallback
  <2>2. CASE t # u
    BY <1>4, <1>6, <1>8, <2>2 DEF ServingOK
  <2> QED
    BY <2>1, <2>2
<1>9. ASSUME NEW t \in Threads, NEW v \in Threads,
             serving'[t] # None, serving'[t] = serving'[v]
      PROVE  t = v
  BY <1>3, <1>4, <1>5, <1>9 DEF ServingOK
<1> QED
  BY <1>6, <1>8, <1>9 DEF ServingOK

(* What the route of a message is: it stays with the thread or not.        *)
LEMMA RouteCalls ==
  ASSUME CallsOK, NEW u \in Threads, NEW s \in Sockets,
         handed' \in [Sockets -> Seq(Entries)], Route(u, s)
  PROVE  \/ calling' = calling
         \/ /\ calling' = [calling EXCEPT ![u] = Newest(s)]
            /\ Newest(s) \in [sock : Sockets, n : Nat]
            /\ Newest(s).sock = s
<1>1. Len(handed'[s]) \in Nat
  OBVIOUS
<1>2. Newest(s) = [sock |-> s, n |-> Len(handed'[s])]
  BY DEF Newest, Message
<1> QED
  BY <1>1, <1>2 DEF Route

(* A connection is read by one handle, and not after its end.              *)
LEMMA ReaderOf ==
  ASSUME IInv, NEW h \in Handles, st[h] \in {"eof", "scan", "repost"}
  PROVE  /\ sock[h] \in Sockets
         /\ ~Ended(handed[sock[h]])
         /\ \A g \in Handles : st[g] \in Reading /\ sock[g] = sock[h] => g = h
<1>1. st[h] \in Reading /\ st[h] \notin Unused
  BY DEF Reading, Unused
<1>2. sock[h] \in Sockets
  BY <1>1, UsedHandle DEF IInv
<1> QED
  BY <1>1, <1>2 DEF IInv, ReaderOK, SingleReader

(* A thread whose DoData goes on while thread u takes a step.              *)
LEMMA OtherCalls ==
  ASSUME DInv, NEW u \in Threads, Step(u), NEW t \in Threads, t # u, CallOK(t)
  PROVE  /\ serving'[t] = serving[t]
         /\ st'[serving[t]] = st[serving[t]]
         /\ sock'[serving[t]] = sock[serving[t]]
         /\ Ended(handed[sock[serving[t]]]) => Ended(handed'[sock[serving[t]]])
<1>0. IInv /\ ServingOK /\ TypeOK
  BY DEF DInv, IInv
<1>1. PICK g : g = serving[t]
  OBVIOUS
<1>2. PICK h : h = serving[u]
  OBVIOUS
<1>3. /\ g # None
      /\ serving'[t] = g /\ st'[g] = st[g] /\ sock'[g] = sock[g]
  BY <1>0, <1>1, StepServes DEF CallOK
<1>4. h \in Handles /\ (handed' = handed \/ Appends(h))
  BY <1>0, <1>2, StepDoes
<1>5. ASSUME Appends(h), Ended(handed[sock[g]])
      PROVE  handed'[sock[g]] = handed[sock[g]]
  <2>1. ~Ended(handed[sock[h]])
    BY <1>0, <1>4, <1>5, ReaderOf DEF Appends
  <2>2. sock[g] # sock[h]
    BY <1>5, <2>1
  <2>3. g \in Handles /\ st[g] \in InCallback
    BY <1>0, <1>1, <1>3 DEF ServingOK, TypeOK
  <2>4. sock[g] \in Sockets
    BY <1>0, <2>3, UsedHandle DEF InCallback, Unused
  <2> QED
    BY <1>0, <1>5, <2>2, <2>4 DEF Appends, TypeOK
<1> QED
  BY <1>1, <1>3, <1>4, <1>5

LEMMA OtherCallsStay ==
  ASSUME DInv, NEW u \in Threads, Step(u), NEW t \in Threads, t # u,
         calling[t] # NoMessage, calling'[t] = calling[t]
  PROVE  CallOK(t)'
<1>1. CallOK(t)
  BY DEF DInv, CallsOK
<1>2. /\ serving'[t] = serving[t]
      /\ st'[serving[t]] = st[serving[t]]
      /\ sock'[serving[t]] = sock[serving[t]]
      /\ Ended(handed[sock[serving[t]]]) => Ended(handed'[sock[serving[t]]])
  BY <1>1, OtherCalls
<1>3. serving[t] # None /\ sock[serving[t]] = calling[t].sock
      /\ (st[serving[t]] \in {"scan", "repost"}
          \/ (st[serving[t]] = "release" /\ Ended(handed[sock[serving[t]]])))
  BY <1>1 DEF CallOK
<1> QED
  BY <1>2, <1>3 DEF CallOK, Ended

(* The message an io thread passes to DoData itself comes from a handle    *)
(* that reads its connection, and no other thread is in DoData for it.     *)
LEMMA IoStepCalls ==
  ASSUME DInv, NEW u \in Threads, IoStep(u), IInv'
  PROVE  CallsOK' /\ OneIoThread'
<1>0. IInv /\ ServingOK /\ CallsOK /\ OneIoThread /\ TypeOK /\ Step(u)
  BY DEF DInv, IInv, IoStep
<1>1. PICK h : h = serving[u]
  OBVIOUS
<1> DEFINE s == sock[h]
<1>2. h \in Handles /\ (handed' = handed \/ Appends(h)) /\ calling[u] = NoMessage
  BY <1>0, <1>1, StepDoes DEF IoStep
<1>3. CASE handed' = handed
  <2>1. calling' = calling
    BY <1>3 DEF IoStep
  <2>2. \A t \in Threads : calling'[t] # NoMessage => CallOK(t)'
    BY <1>0, <1>2, <2>1, OtherCallsStay
  <2> QED
    BY <1>0, <2>1, <2>2 DEF CallsOK, OneIoThread, IoInDoData
<1>4. CASE handed' # handed
  <2>1. Appends(h) /\ Route(u, s)
    BY <1>1, <1>2, <1>4 DEF IoStep
  <2>2. s \in Sockets /\ ~Ended(handed[s])
        /\ \A g \in Handles : st[g] \in Reading /\ sock[g] = s => g = h
    BY <1>0, <1>2, <2>1, ReaderOf DEF Appends
  <2>3. handed' \in [Sockets -> Seq(Entries)]
    BY DEF IInv, TypeOK
  <2>4. \/ calling' = calling
        \/ /\ calling' = [calling EXCEPT ![u] = Newest(s)]
           /\ Newest(s) \in [sock : Sockets, n : Nat]
           /\ Newest(s).sock = s
    BY <1>0, <2>1, <2>2, <2>3, RouteCalls
  <2>5. calling' \in [Threads -> {NoMessage} \cup [sock : Sockets, n : Nat]]
    BY <1>0, <2>4 DEF CallsOK
  <2>6. \A t \in Threads : t # u => calling'[t] = calling[t]
    BY <1>0, <2>4 DEF CallsOK
  <2>7. calling'[u] # NoMessage => calling'[u] = Newest(s) /\ Newest(s).sock = s
    BY <1>0, <1>2, <2>4 DEF CallsOK
  <2>8. serving'[u] = h /\ sock'[h] = s
    BY <1>0, <1>1, <1>4, StepDoes
  <2>9. st'[h] \in {"scan", "repost"} \/ (st'[h] = "release" /\ Ended(handed'[s]))
    <3>1. ASSUME st[h] = "eof"
          PROVE  Ended(handed'[s])
      <4>1. PICK e \in Entries : handed' = [handed EXCEPT ![s] = Append(@, e)] /\ e.zero
        BY <2>1, <3>1 DEF Appends
      <4>2. handed'[s] = Append(handed[s], e) /\ handed[s] \in Seq(Entries)
        BY <1>0, <2>2, <4>1 DEF TypeOK
      <4>3. handed'[s] # <<>> /\ handed'[s][Len(handed'[s])] = e
        BY <4>2
      <4> QED
        BY <4>1, <4>3 DEF Ended
    <3> QED
      BY <2>1, <3>1 DEF Appends
  <2>10. h # None
    BY <1>2, NoneAssumption
  <2>11. calling'[u] # NoMessage => CallOK(u)'
    BY <2>7, <2>8, <2>9, <2>10 DEF CallOK, Ended
  <2>12. \A t \in Threads : calling'[t] # NoMessage => CallOK(t)'
    BY <1>0, <2>6, <2>11, OtherCallsStay
  <2>13. ASSUME NEW t \in Threads, t # u, calling[t] # NoMessage
         PROVE  calling[t].sock # s
    <3>1. CallOK(t)
      BY <1>0, <2>13 DEF CallsOK
    <3>2. serving[t] \in Handles /\ serving[t] # h
      BY <1>0, <1>1, <2>13, <3>1 DEF CallOK, ServingOK, TypeOK
    <3>3. st[serving[t]] \in {"scan", "repost"} => sock[serving[t]] # s
      BY <2>2, <3>2 DEF Reading
    <3> QED
      BY <2>2, <3>1, <3>3 DEF CallOK
  <2>14. OneIoThread'
    BY <1>0, <2>6, <2>7, <2>13 DEF OneIoThread, IoInDoData
  <2> QED
    BY <2>5, <2>12, <2>14 DEF CallsOK
<1> QED
  BY <1>3, <1>4

-----------------------------------------------------------------------------
LEMMA DInvInit == DInit => DInv
<1> SUFFICES ASSUME DInit PROVE DInv
  OBVIOUS
<1>1. Init /\ calling = [t \in Threads |-> NoMessage]
  BY DEF DInit
<1>2. ServingOK
  BY <1>1 DEF Init, ServingOK
<1>3. CallsOK /\ OneIoThread
  BY <1>1 DEF CallsOK, OneIoThread, IoInDoData
<1> QED
  BY <1>1, <1>2, <1>3, IInvInit DEF DInv

LEMMA DInvNext == DInv /\ [DNext]_dVars => DInv'
<1> SUFFICES ASSUME DInv, [DNext]_dVars PROVE DInv'
  OBVIOUS
<1>0. IInv /\ ServingOK /\ CallsOK /\ OneIoThread
  BY DEF DInv
<1>1. IInv'
  BY <1>0, Receives, IInvNext
<1>2. CASE Network
  <2>1. calling' = calling
    BY <1>2 DEF Network
  <2>2. /\ handed' = handed /\ ServingOK'
        /\ \A t \in Threads : serving[t] # None =>
             /\ serving'[t] = serving[t]
             /\ st'[serving[t]] = st[serving[t]]
             /\ sock'[serving[t]] = sock[serving[t]]
    BY <1>0, <1>2, NetworkKeeps
  <2>3. \A t \in Threads : calling[t] # NoMessage => CallOK(t)'
    BY <1>0, <2>1, <2>2 DEF CallsOK, CallOK, Ended
  <2> QED
    BY <1>0, <1>1, <2>1, <2>2, <2>3 DEF DInv, CallsOK, OneIoThread, IoInDoData
<1>3. ASSUME NEW u \in Threads, IoStep(u)
      PROVE  DInv'
  <2>1. Step(u)
    BY <1>3 DEF IoStep
  <2> QED
    BY <1>0, <1>1, <1>3, <2>1, StepServes, IoStepCalls DEF DInv
<1>4. ASSUME NEW u \in Threads, DoDataReturns(u)
      PROVE  DInv'
  <2>1. UNCHANGED vars /\ calling' = [calling EXCEPT ![u] = NoMessage]
    BY <1>4 DEF DoDataReturns
  <2>2. ServingOK'
    BY <1>0, <2>1 DEF ServingOK, vars
  <2>3. \A t \in Threads : calling'[t] # NoMessage => calling'[t] = calling[t]
    BY <1>0, <2>1 DEF CallsOK
  <2>4. CallsOK'
    BY <1>0, <2>1, <2>3 DEF CallsOK, CallOK, Ended, vars, fields
  <2>5. OneIoThread'
    BY <1>0, <2>3 DEF OneIoThread, IoInDoData
  <2> QED
    BY <1>1, <2>2, <2>4, <2>5 DEF DInv
<1>5. CASE UNCHANGED <<vars, calling>>
  <2>1. ServingOK' /\ CallsOK' /\ OneIoThread'
    BY <1>0, <1>5
       DEF ServingOK, CallsOK, CallOK, OneIoThread, IoInDoData, Ended, vars, fields
  <2> QED
    BY <1>1, <2>1 DEF DInv
<1>6. (\E w \in Workers : Work(w)) => UNCHANGED <<vars, calling>>
  BY DEF Work
<1>7. UNCHANGED dVars => UNCHANGED <<vars, calling>>
  BY DEF dVars
<1> QED
  BY <1>2, <1>3, <1>4, <1>5, <1>6, <1>7 DEF DNext

(* DoData never runs on two io threads for one connection, however many    *)
(* threads, connections and handles there are and whatever the peers send. *)
THEOREM OneIoThreadAtATime == DSpec => []OneIoThread
<1>1. DInv => OneIoThread
  BY DEF DInv
<1> QED
  BY <1>1, DInvInit, DInvNext, PTL DEF DSpec

(* What the composition hands over is the stream of packets: the theorem   *)
(* about ReceiveManager, of a queue and workers that run beside it.        *)
THEOREM DispatchesThePackets == DSpec => ImplementsPacketStream
BY ImplementsReceiving, HandsOverThePackets

-----------------------------------------------------------------------------
(* Where a message that was handed over is, and in what order.  A message  *)
(* is real when its entry is there; it never becomes another entry.        *)
Messages == [sock : Sockets, n : Nat]

Real(m) == m \in Messages /\ m # NoMessage /\ m.n \in DOMAIN handed[m.sock]

Queued(m) == Real(m) /\ EntryOf(m).via = "queue"

QueueTypes ==
  /\ list \in Seq(Messages)
  /\ dispatched \in Seq(Messages)
  /\ inHand \in [Workers -> Messages \cup {NoMessage}]
  /\ begun \in [Workers -> BOOLEAN]
  /\ IsFiniteSet(Takers)

Contents ==
  /\ \A i \in DOMAIN list : Queued(list[i])
  /\ \A i \in DOMAIN dispatched : Real(dispatched[i])
  /\ \A w \in Workers : inHand[w] # NoMessage => Queued(inHand[w])

Once ==
  /\ \A i, j \in DOMAIN list : list[i] = list[j] => i = j
  /\ \A i, j \in DOMAIN dispatched : dispatched[i] = dispatched[j] => i = j
  /\ \A i \in DOMAIN list, j \in DOMAIN dispatched : list[i] # dispatched[j]
  /\ \A w \in Workers : inHand[w] # NoMessage =>
       /\ \A i \in DOMAIN list : list[i] # inHand[w]
       /\ ~begun[w] => \A i \in DOMAIN dispatched : dispatched[i] # inHand[w]
       /\ \A v \in Workers : inHand[v] = inHand[w] => v = w
  /\ \A w \in Workers : begun[w] => inHand[w] # NoMessage /\ Dispatched(inHand[w])

Found ==
  \A s \in Sockets : \A n \in DOMAIN handed[s] :
    Message(s, n) # NoMessage /\ Known(Message(s, n))

(* The messages of a connection in the list are in the order of their      *)
(* entries; while workers take turns, the one taken comes before them, and *)
(* after the queued ones that were dispatched.                             *)
Before(m, k) == m.sock = k.sock => m.n < k.n

InOrder ==
  /\ \A i, j \in DOMAIN list : i < j => Before(list[i], list[j])
  /\ ~overlapped =>
       /\ \A v, w \in Takers : v = w
       /\ \A w \in Takers : \A i \in DOMAIN list : Before(inHand[w], list[i])
       /\ \A j \in DOMAIN dispatched : Queued(dispatched[j]) =>
            /\ \A i \in DOMAIN list : Before(dispatched[j], list[i])
            /\ \A w \in Takers : ~begun[w] => Before(dispatched[j], inHand[w])
       /\ \A i, j \in DOMAIN dispatched :
            /\ i < j
            /\ dispatched[i].sock = dispatched[j].sock
            /\ dispatched[i].n > dispatched[j].n
            => ~Queued(dispatched[i]) /\ Queued(dispatched[j])

QueueInv == QueueTypes /\ Contents /\ Once /\ Found /\ InOrder

LEMMA SeqAppend ==
  ASSUME NEW S, NEW q \in Seq(S), NEW e \in S
  PROVE  /\ Append(q, e) \in Seq(S)
         /\ \A i \in DOMAIN q : i \in DOMAIN Append(q, e) /\ Append(q, e)[i] = q[i] /\ i < Len(q) + 1
         /\ \A i \in DOMAIN Append(q, e) : i \in Nat /\ (i \in DOMAIN q \/ i = Len(q) + 1)
         /\ Append(q, e)[Len(q) + 1] = e
         /\ Len(q) + 1 \in DOMAIN Append(q, e) /\ Len(q) + 1 \notin DOMAIN q
         /\ Len(Append(q, e)) = Len(q) + 1
OBVIOUS

LEMMA SeqTail ==
  ASSUME NEW S, NEW q \in Seq(S), q # <<>>
  PROVE  /\ Tail(q) \in Seq(S)
         /\ 1 \in DOMAIN q /\ Head(q) = q[1] /\ Head(q) \in S
         /\ \A i \in DOMAIN Tail(q) :
              i \in Nat /\ i + 1 \in DOMAIN q /\ 1 < i + 1 /\ Tail(q)[i] = q[i + 1]
         /\ \A i \in DOMAIN q : i \in Nat /\ (i # 1 => i - 1 \in DOMAIN Tail(q) /\ Tail(q)[i - 1] = q[i])
OBVIOUS

(* What a step that hands an entry over does to the messages.              *)
Grows(s, e) ==
  /\ s \in Sockets
  /\ e \in Entries
  /\ handed' = [handed EXCEPT ![s] = Append(@, e)]

LEMMA Growing ==
  ASSUME handed \in [Sockets -> Seq(Entries)], NEW s, NEW e, Grows(s, e), NEW m, m = Newest(s)
  PROVE  /\ m \in Messages /\ m.sock = s /\ m.n = Len(handed[s]) + 1
         /\ EntryOf(m)' = e
         /\ ~Real(m)
         /\ m # NoMessage => Real(m)'
         /\ \A k : Real(k) => /\ Real(k)' /\ EntryOf(k)' = EntryOf(k) /\ k # m
                              /\ Before(k, m)
         /\ \A k : Queued(k) => Queued(k)'
         /\ \A k : Real(k) => (Queued(k)' <=> Queued(k))
<1>1. handed[s] \in Seq(Entries) /\ s \in Sockets /\ e \in Entries
  BY DEF Grows
<1>2. handed'[s] = Append(handed[s], e) /\ \A r \in Sockets : r # s => handed'[r] = handed[r]
  BY DEF Grows
<1>3. /\ Len(handed'[s]) = Len(handed[s]) + 1 /\ Len(handed[s]) \in Nat
      /\ handed'[s][Len(handed[s]) + 1] = e
      /\ Len(handed[s]) + 1 \in DOMAIN handed'[s] /\ Len(handed[s]) + 1 \notin DOMAIN handed[s]
      /\ \A i \in DOMAIN handed[s] :
           i \in DOMAIN handed'[s] /\ handed'[s][i] = handed[s][i] /\ i < Len(handed[s]) + 1
  BY <1>1, <1>2, SeqAppend
<1>4. m = [sock |-> s, n |-> Len(handed[s]) + 1]
  BY <1>3 DEF Newest, Message
<1>5. m \in Messages /\ m.sock = s /\ m.n = Len(handed[s]) + 1
  BY <1>1, <1>3, <1>4 DEF Messages
<1>6. ~Real(m) /\ (m # NoMessage => Real(m)')
  BY <1>3, <1>5 DEF Real
<1>7. EntryOf(m)' = e
  BY <1>3, <1>5 DEF EntryOf
<1>8. ASSUME NEW k, Real(k)
      PROVE  /\ Real(k)' /\ EntryOf(k)' = EntryOf(k) /\ k # m /\ Before(k, m)
             /\ Queued(k)' <=> Queued(k)
  <2>1. k \in Messages /\ k.sock \in Sockets /\ k.n \in DOMAIN handed[k.sock]
    BY <1>8 DEF Real, Messages
  <2>2. k.n \in DOMAIN handed'[k.sock] /\ handed'[k.sock][k.n] = handed[k.sock][k.n]
    BY <1>2, <1>3, <2>1
  <2>3. Real(k)' /\ EntryOf(k)' = EntryOf(k)
    BY <1>8, <2>1, <2>2 DEF Real, EntryOf
  <2>4. k.sock = s => k.n < Len(handed[s]) + 1
    BY <1>3, <2>1
  <2> QED
    BY <1>5, <1>6, <1>8, <2>3, <2>4 DEF Before, Queued
<1> QED
  BY <1>5, <1>6, <1>7, <1>8 DEF Queued

(* A message is added to the queue, ...                                    *)
LEMMA PutKeeps ==
  ASSUME QueueInv, handed \in [Sockets -> Seq(Entries)],
         NEW s, NEW e, Grows(s, e), e.via = "queue",
         Put(Newest(s)), overlapped' = overlapped
  PROVE  QueueInv'
<1> PICK m : m = Newest(s)
  OBVIOUS
<1>0. QueueTypes /\ Contents /\ Once /\ Found /\ InOrder
  BY DEF QueueInv
<1>1. /\ m \in Messages /\ m.sock = s /\ m.n = Len(handed[s]) + 1
      /\ EntryOf(m)' = e /\ ~Real(m)
      /\ m # NoMessage => Real(m)'
      /\ \A k : Real(k) => /\ Real(k)' /\ EntryOf(k)' = EntryOf(k) /\ k # m
                           /\ Before(k, m)
      /\ \A k : Queued(k) => Queued(k)'
      /\ \A k : Real(k) => (Queued(k)' <=> Queued(k))
  BY Growing
<1>2. m # NoMessage /\ list' = Append(list, m) /\ UNCHANGED <<inHand, begun, dispatched>>
  BY DEF Put
<1>3. Queued(m)'
  BY <1>1, <1>2 DEF Queued
<1>4. /\ list' \in Seq(Messages)
      /\ \A i \in DOMAIN list : i \in DOMAIN list' /\ list'[i] = list[i] /\ i < Len(list) + 1
      /\ \A i \in DOMAIN list' : i \in Nat /\ (i \in DOMAIN list \/ i = Len(list) + 1)
      /\ list'[Len(list) + 1] = m
      /\ Len(list) + 1 \in DOMAIN list' /\ Len(list) + 1 \notin DOMAIN list
  BY <1>0, <1>1, <1>2, SeqAppend DEF QueueTypes
<1>5. /\ \A i \in DOMAIN list : Queued(list[i]) /\ Real(list[i])
      /\ \A i \in DOMAIN dispatched : Real(dispatched[i])
      /\ \A w \in Workers : inHand[w] # NoMessage => Queued(inHand[w]) /\ Real(inHand[w])
  BY <1>0 DEF Contents, Queued
<1>6. QueueTypes'
  BY <1>0, <1>2, <1>4 DEF QueueTypes, Takers
<1>7. Contents'
  BY <1>1, <1>2, <1>3, <1>4, <1>5 DEF Contents
<1>8. Once'
  <2>1. \A i, j \in DOMAIN list' : list'[i] = list'[j] => i = j
    BY <1>0, <1>1, <1>4, <1>5 DEF Once
  <2>2. \A i \in DOMAIN list', j \in DOMAIN dispatched : list'[i] # dispatched[j]
    BY <1>0, <1>1, <1>4, <1>5 DEF Once
  <2>3. \A w \in Workers : inHand[w] # NoMessage => \A i \in DOMAIN list' : list'[i] # inHand[w]
    BY <1>0, <1>1, <1>4, <1>5 DEF Once
  <2> QED
    BY <1>0, <1>2, <2>1, <2>2, <2>3 DEF Once, Dispatched
<1>9. Found'
  <2> SUFFICES ASSUME NEW r \in Sockets, NEW n \in DOMAIN handed'[r]
               PROVE  Message(r, n) # NoMessage /\ Known(Message(r, n))'
    BY DEF Found, Message
  <2>1. CASE n \in DOMAIN handed[r]
    <3>1. Message(r, n) # NoMessage /\ Known(Message(r, n))
      BY <1>0, <2>1 DEF Found
    <3> QED
      BY <1>2, <1>4, <3>1 DEF Known, InList, Dispatched, Takers
  <2>2. CASE n \notin DOMAIN handed[r]
    <3>1. r = s /\ n = Len(handed[s]) + 1
      BY <2>2, SeqAppend DEF Grows
    <3>2. Message(r, n) = m
      BY <1>1, <3>1 DEF Message, Messages
    <3> QED
      BY <1>2, <1>4, <3>2 DEF Known, InList
  <2> QED
    BY <2>1, <2>2
<1>10. InOrder'
  <2>1. \A i, j \in DOMAIN list' : i < j => Before(list'[i], list'[j])
    <3> SUFFICES ASSUME NEW i \in DOMAIN list', NEW j \in DOMAIN list', i < j
                 PROVE  Before(list'[i], list'[j])
      OBVIOUS
    <3>1. i \in DOMAIN list
      BY <1>4
    <3> QED
      BY <1>0, <1>1, <1>4, <1>5, <3>1 DEF InOrder
  <2>2. ASSUME ~overlapped
        PROVE  /\ \A v, w \in Takers : v = w
               /\ \A w \in Takers : \A i \in DOMAIN list' : Before(inHand[w], list'[i])
    BY <1>0, <1>1, <1>4, <1>5, <2>2 DEF InOrder, Takers
  <2>3. ASSUME ~overlapped, NEW j \in DOMAIN dispatched, Queued(dispatched[j])
        PROVE  /\ \A i \in DOMAIN list' : Before(dispatched[j], list'[i])
               /\ \A w \in Takers : ~begun[w] => Before(dispatched[j], inHand[w])
    BY <1>0, <1>1, <1>4, <1>5, <2>3 DEF InOrder
  <2>4. \A j \in DOMAIN dispatched : Queued(dispatched[j])' <=> Queued(dispatched[j])
    BY <1>1, <1>2, <1>5
  <2>5. Takers' = Takers
    BY <1>2 DEF Takers
  <2> QED
    BY <1>0, <1>2, <2>1, <2>2, <2>3, <2>4, <2>5 DEF InOrder
<1> QED
  BY <1>6, <1>7, <1>8, <1>9, <1>10 DEF QueueInv

(* ... or passed to DoData by the thread that has it, ...                  *)
LEMMA PassKeeps ==
  ASSUME QueueInv, handed \in [Sockets -> Seq(Entries)],
         NEW s, NEW e, Grows(s, e), e.via # "queue",
         Pass(Newest(s)), overlapped' = overlapped
  PROVE  QueueInv'
<1> PICK m : m = Newest(s)
  OBVIOUS
<1>0. QueueTypes /\ Contents /\ Once /\ Found /\ InOrder
  BY DEF QueueInv
<1>1. /\ m \in Messages /\ m.sock = s /\ m.n = Len(handed[s]) + 1
      /\ EntryOf(m)' = e /\ ~Real(m)
      /\ m # NoMessage => Real(m)'
      /\ \A k : Real(k) => /\ Real(k)' /\ EntryOf(k)' = EntryOf(k) /\ k # m
                           /\ Before(k, m)
      /\ \A k : Queued(k) => Queued(k)'
      /\ \A k : Real(k) => (Queued(k)' <=> Queued(k))
  BY Growing
<1>2. m # NoMessage /\ dispatched' = Append(dispatched, m) /\ UNCHANGED <<list, inHand, begun>>
  BY DEF Pass
<1>3. Real(m)' /\ ~Queued(m)'
  BY <1>1, <1>2 DEF Queued
<1>4. /\ dispatched' \in Seq(Messages)
      /\ \A i \in DOMAIN dispatched :
           i \in DOMAIN dispatched' /\ dispatched'[i] = dispatched[i] /\ i < Len(dispatched) + 1
      /\ \A i \in DOMAIN dispatched' : i \in Nat /\ (i \in DOMAIN dispatched \/ i = Len(dispatched) + 1)
      /\ dispatched'[Len(dispatched) + 1] = m
      /\ Len(dispatched) + 1 \in DOMAIN dispatched' /\ Len(dispatched) + 1 \notin DOMAIN dispatched
  BY <1>0, <1>1, <1>2, SeqAppend DEF QueueTypes
<1>5. /\ \A i \in DOMAIN list : Queued(list[i]) /\ Real(list[i])
      /\ \A i \in DOMAIN dispatched : Real(dispatched[i])
      /\ \A w \in Workers : inHand[w] # NoMessage => Queued(inHand[w]) /\ Real(inHand[w])
  BY <1>0 DEF Contents, Queued
<1>6. QueueTypes'
  BY <1>0, <1>2, <1>4 DEF QueueTypes, Takers
<1>7. Contents'
  BY <1>1, <1>2, <1>3, <1>4, <1>5 DEF Contents
<1>8. Once'
  <2>1. \A i, j \in DOMAIN dispatched' : dispatched'[i] = dispatched'[j] => i = j
    BY <1>0, <1>1, <1>4, <1>5 DEF Once
  <2>2. \A i \in DOMAIN list, j \in DOMAIN dispatched' : list[i] # dispatched'[j]
    BY <1>0, <1>1, <1>4, <1>5 DEF Once
  <2>3. \A w \in Workers : inHand[w] # NoMessage /\ ~begun[w] =>
          \A i \in DOMAIN dispatched' : dispatched'[i] # inHand[w]
    BY <1>0, <1>1, <1>4, <1>5 DEF Once
  <2>4. \A w \in Workers : begun[w] => inHand[w] # NoMessage /\ Dispatched(inHand[w])'
    BY <1>0, <1>2, <1>4 DEF Once, Dispatched
  <2> QED
    BY <1>0, <1>2, <2>1, <2>2, <2>3, <2>4 DEF Once, Dispatched
<1>9. Found'
  <2> SUFFICES ASSUME NEW r \in Sockets, NEW n \in DOMAIN handed'[r]
               PROVE  Message(r, n) # NoMessage /\ Known(Message(r, n))'
    BY DEF Found, Message
  <2>1. CASE n \in DOMAIN handed[r]
    <3>1. Message(r, n) # NoMessage /\ Known(Message(r, n))
      BY <1>0, <2>1 DEF Found
    <3> QED
      BY <1>2, <1>4, <3>1 DEF Known, InList, Dispatched, Takers
  <2>2. CASE n \notin DOMAIN handed[r]
    <3>1. r = s /\ n = Len(handed[s]) + 1
      BY <2>2, SeqAppend DEF Grows
    <3>2. Message(r, n) = m
      BY <1>1, <3>1 DEF Message, Messages
    <3> QED
      BY <1>2, <1>4, <3>2 DEF Known, Dispatched
  <2> QED
    BY <2>1, <2>2
<1>10. InOrder'
  <2>1. \A j \in DOMAIN dispatched' : Queued(dispatched[j])' =>
          j \in DOMAIN dispatched /\ dispatched'[j] = dispatched[j] /\ Queued(dispatched[j])
    BY <1>1, <1>3, <1>4, <1>5
  <2>2. ASSUME ~overlapped, NEW j \in DOMAIN dispatched', Queued(dispatched[j])'
        PROVE  /\ \A i \in DOMAIN list : Before(dispatched'[j], list[i])
               /\ \A w \in Takers : ~begun[w] => Before(dispatched'[j], inHand[w])
    BY <1>0, <2>1, <2>2 DEF InOrder
  <2>3. ASSUME ~overlapped, NEW i \in DOMAIN dispatched', NEW j \in DOMAIN dispatched', i < j,
               dispatched'[i].sock = dispatched'[j].sock, dispatched'[i].n > dispatched'[j].n
        PROVE  ~Queued(dispatched[i])' /\ Queued(dispatched[j])'
    <3>1. i \in DOMAIN dispatched /\ dispatched'[i] = dispatched[i] /\ Real(dispatched[i])
      BY <1>4, <1>5, <2>3
    <3>2. dispatched'[i].n \in Nat /\ m.n \in Nat
      BY <1>1, <3>1 DEF Real, Messages
    <3>3. dispatched'[j] # m
      BY <1>1, <2>3, <3>1, <3>2 DEF Before
    <3>4. j \in DOMAIN dispatched /\ dispatched'[j] = dispatched[j] /\ Real(dispatched[j])
      BY <1>4, <1>5, <3>3
    <3>5. ~Queued(dispatched[i]) /\ Queued(dispatched[j])
      BY <1>0, <2>3, <3>1, <3>4 DEF InOrder
    <3> QED
      BY <1>1, <3>1, <3>4, <3>5
  <2>4. Takers' = Takers /\ UNCHANGED <<list, inHand, begun, overlapped>>
    BY <1>2 DEF Takers
  <2>5. /\ \A i, j \in DOMAIN list' : i < j => Before(list'[i], list'[j])
        /\ ~overlapped' =>
             /\ \A v, w \in Takers' : v = w
             /\ \A w \in Takers' : \A i \in DOMAIN list' : Before(inHand'[w], list'[i])
    BY <1>0, <2>4 DEF InOrder
  <2> QED
    BY <2>2, <2>3, <2>4, <2>5 DEF InOrder
<1> QED
  BY <1>6, <1>7, <1>8, <1>9, <1>10 DEF QueueInv

(* ... or the workers go on: one takes the oldest, ...                     *)
LEMMA SoleMember ==
  ASSUME NEW S, IsFiniteSet(S), Cardinality(S) \leq 1
  PROVE  \A v, w \in S : v = w
<1>1. Cardinality(S) = 0 \/ Cardinality(S) = 1
  BY FS_CardinalityType
<1>2. Cardinality(S) = 0 => S = {}
  BY FS_EmptySet
<1>3. Cardinality(S) = 1 => \E x : S = {x}
  BY FS_Singleton
<1> QED
  BY <1>1, <1>2, <1>3

LEMMA TakeKeeps ==
  ASSUME QueueInv, NEW w \in Workers, Take(w), UNCHANGED handed,
         overlapped' = (overlapped \/ Cardinality(Takers') > 1)
  PROVE  QueueInv'
<1>0. QueueTypes /\ Contents /\ Once /\ Found /\ InOrder
  BY DEF QueueInv
<1>1. inHand[w] = NoMessage /\ list # <<>> /\ UNCHANGED <<begun, dispatched>>
  BY DEF Take
<1>2. /\ list' \in Seq(Messages)
      /\ 1 \in DOMAIN list /\ Head(list) = list[1] /\ Head(list) \in Messages
      /\ \A i \in DOMAIN list' :
           i \in Nat /\ i + 1 \in DOMAIN list /\ 1 < i + 1 /\ list'[i] = list[i + 1]
      /\ \A i \in DOMAIN list :
           i \in Nat /\ (i # 1 => i - 1 \in DOMAIN list' /\ list'[i - 1] = list[i])
  BY <1>0, <1>1, SeqTail DEF Take, QueueTypes
<1> PICK m : m = Head(list)
  OBVIOUS
<1>3. m \in Messages /\ m = list[1] /\ Queued(m) /\ m # NoMessage
  BY <1>0, <1>2 DEF Contents, Queued, Real
<1>4. /\ inHand'[w] = m
      /\ \A v \in Workers : v # w => inHand'[v] = inHand[v]
      /\ inHand' \in [Workers -> Messages \cup {NoMessage}]
  BY <1>0, <1>3 DEF Take, QueueTypes
<1>5. Takers' = Takers \cup {w}
  BY <1>3, <1>4 DEF Takers
<1>6. \A k : Real(k)' <=> Real(k)
  BY DEF Real
<1>7. \A k : Queued(k)' <=> Queued(k)
  BY <1>6 DEF Queued, EntryOf
<1>8. QueueTypes'
  <2>1. IsFiniteSet(Takers')
    BY <1>0, <1>5, FS_AddElement DEF QueueTypes
  <2> QED
    BY <1>0, <1>1, <1>2, <1>4, <2>1 DEF QueueTypes
<1>9. Contents'
  <2>1. \A i \in DOMAIN list' : Queued(list'[i])
    BY <1>0, <1>2 DEF Contents
  <2>2. \A v \in Workers : inHand'[v] # NoMessage => Queued(inHand'[v])
    BY <1>0, <1>3, <1>4 DEF Contents
  <2> QED
    BY <1>0, <1>1, <1>6, <1>7, <2>1, <2>2 DEF Contents
<1>10. ~begun[w]
  BY <1>0, <1>1 DEF Once
<1>11. Once'
  <2>1. \A i, j \in DOMAIN list' : list'[i] = list'[j] => i = j
    BY <1>0, <1>2 DEF Once
  <2>2. \A i \in DOMAIN list', j \in DOMAIN dispatched : list'[i] # dispatched[j]
    BY <1>0, <1>2 DEF Once
  <2>3. \A i \in DOMAIN list' : list'[i] # m
    BY <1>0, <1>2, <1>3 DEF Once
  <2>4. \A i \in DOMAIN dispatched : dispatched[i] # m
    BY <1>0, <1>2, <1>3 DEF Once
  <2>5. \A v \in Workers : inHand[v] # NoMessage => inHand[v] # m
    BY <1>0, <1>2, <1>3 DEF Once
  <2>6. ASSUME NEW v \in Workers, inHand'[v] # NoMessage
        PROVE  /\ \A i \in DOMAIN list' : list'[i] # inHand'[v]
               /\ ~begun[v] => \A i \in DOMAIN dispatched : dispatched[i] # inHand'[v]
               /\ \A u \in Workers : inHand'[u] = inHand'[v] => u = v
    <3>1. CASE v = w
      BY <1>3, <1>4, <2>3, <2>4, <2>5, <3>1
    <3>2. CASE v # w
      <4>1. inHand[v] # NoMessage /\ inHand'[v] = inHand[v]
        BY <1>4, <2>6, <3>2
      <4>2. \A i \in DOMAIN list' : list'[i] # inHand[v]
        BY <1>0, <1>2, <4>1 DEF Once
      <4>3. ~begun[v] => \A i \in DOMAIN dispatched : dispatched[i] # inHand[v]
        BY <1>0, <4>1 DEF Once
      <4>4. \A u \in Workers : inHand'[u] = inHand[v] => u = v
        BY <1>0, <1>4, <2>5, <4>1 DEF Once
      <4> QED
        BY <4>1, <4>2, <4>3, <4>4
    <3> QED
      BY <3>1, <3>2
  <2>7. \A v \in Workers : begun[v] => inHand'[v] # NoMessage /\ Dispatched(inHand'[v])
    BY <1>0, <1>4, <1>10 DEF Once
  <2> QED
    BY <1>0, <1>1, <2>1, <2>2, <2>6, <2>7 DEF Once, Dispatched
<1>12. Found'
  <2> SUFFICES ASSUME NEW r \in Sockets, NEW n \in DOMAIN handed[r]
               PROVE  Message(r, n) # NoMessage /\ Known(Message(r, n))'
    BY DEF Found, Message
  <2>1. Message(r, n) # NoMessage /\ Known(Message(r, n))
    BY <1>0 DEF Found
  <2>2. ASSUME InList(Message(r, n)) PROVE Known(Message(r, n))'
    <3>1. PICK i \in DOMAIN list : list[i] = Message(r, n)
      BY <2>2 DEF InList
    <3>2. CASE i = 1
      BY <1>3, <1>4, <1>5, <3>1, <3>2 DEF Known
    <3>3. CASE i # 1
      BY <1>2, <3>1, <3>3 DEF Known, InList
    <3> QED
      BY <3>2, <3>3
  <2>3. ASSUME NEW v \in Takers, inHand[v] = Message(r, n) PROVE Known(Message(r, n))'
    <3>1. v # w
      BY <1>1, <2>3 DEF Takers
    <3> QED
      BY <1>4, <1>5, <2>3, <3>1 DEF Known, Takers
  <2> QED
    BY <1>1, <2>1, <2>2, <2>3 DEF Known, Dispatched
<1>13. InOrder'
  <2>1. \A i, j \in DOMAIN list' : i < j => Before(list'[i], list'[j])
    BY <1>0, <1>2 DEF InOrder
  <2>2. ASSUME ~overlapped'
        PROVE  /\ ~overlapped
               /\ \A v, u \in Takers' : v = u
               /\ \A v \in Takers' : v = w
    <3>1. ~overlapped /\ ~(Cardinality(Takers') > 1)
      BY <2>2
    <3>2. IsFiniteSet(Takers')
      BY <1>8 DEF QueueTypes
    <3>3. Cardinality(Takers') \leq 1
      BY <3>1, <3>2, FS_CardinalityType
    <3>4. \A v, u \in Takers' : v = u
      BY <3>2, <3>3, SoleMember
    <3> QED
      BY <1>5, <3>1, <3>4
  <2>3. ASSUME ~overlapped'
        PROVE  /\ \A v \in Takers' : \A i \in DOMAIN list' : Before(inHand'[v], list'[i])
               /\ \A j \in DOMAIN dispatched : Queued(dispatched[j]) =>
                    /\ \A i \in DOMAIN list' : Before(dispatched[j], list'[i])
                    /\ \A v \in Takers' : Before(dispatched[j], inHand'[v])
    <3>1. \A i \in DOMAIN list' : Before(m, list'[i])
      BY <1>0, <1>2, <1>3 DEF InOrder
    <3>2. \A j \in DOMAIN dispatched : Queued(dispatched[j]) =>
            /\ \A i \in DOMAIN list' : Before(dispatched[j], list'[i])
            /\ Before(dispatched[j], m)
      BY <1>0, <1>2, <1>3, <2>2, <2>3 DEF InOrder
    <3> QED
      BY <1>4, <2>2, <2>3, <3>1, <3>2
  <2> QED
    BY <1>0, <1>1, <1>7, <2>1, <2>2, <2>3 DEF InOrder
<1> QED
  BY <1>8, <1>9, <1>11, <1>12, <1>13 DEF QueueInv

(* ... passes it to DoData, ...                                            *)
LEMMA BeginKeeps ==
  ASSUME QueueInv, NEW w \in Workers, Begin(w), UNCHANGED handed,
         overlapped => overlapped'
  PROVE  QueueInv'
<1>0. QueueTypes /\ Contents /\ Once /\ Found /\ InOrder
  BY DEF QueueInv
<1> PICK m : m = inHand[w]
  OBVIOUS
<1>1. /\ m # NoMessage /\ ~begun[w] /\ UNCHANGED <<list, inHand>>
      /\ begun' = [begun EXCEPT ![w] = TRUE] /\ dispatched' = Append(dispatched, m)
  BY DEF Begin
<1>2. m \in Messages /\ Queued(m) /\ Real(m) /\ w \in Takers
  BY <1>0, <1>1 DEF QueueTypes, Contents, Queued, Takers
<1>3. /\ dispatched' \in Seq(Messages)
      /\ \A i \in DOMAIN dispatched :
           i \in DOMAIN dispatched' /\ dispatched'[i] = dispatched[i] /\ i < Len(dispatched) + 1
      /\ \A i \in DOMAIN dispatched' : i \in Nat /\ (i \in DOMAIN dispatched \/ i = Len(dispatched) + 1)
      /\ dispatched'[Len(dispatched) + 1] = m
      /\ Len(dispatched) + 1 \in DOMAIN dispatched' /\ Len(dispatched) + 1 \notin DOMAIN dispatched
  BY <1>0, <1>1, <1>2, SeqAppend DEF QueueTypes
<1>4. /\ begun' \in [Workers -> BOOLEAN] /\ begun'[w]
      /\ \A v \in Workers : v # w => begun'[v] = begun[v]
  BY <1>0, <1>1 DEF QueueTypes
<1>5. (\A k : Real(k)' <=> Real(k)) /\ (\A k : Queued(k)' <=> Queued(k)) /\ Takers' = Takers
  BY <1>1 DEF Real, Queued, EntryOf, Takers
<1>6. QueueTypes'
  BY <1>0, <1>1, <1>3, <1>4, <1>5 DEF QueueTypes
<1>7. Contents'
  BY <1>0, <1>1, <1>2, <1>3, <1>5 DEF Contents
<1>8. Once'
  <2>1. \A i \in DOMAIN dispatched : dispatched[i] # m
    BY <1>0, <1>1 DEF Once
  <2>2. \A i, j \in DOMAIN dispatched' : dispatched'[i] = dispatched'[j] => i = j
    BY <1>0, <1>3, <2>1 DEF Once
  <2>3. \A i \in DOMAIN list, j \in DOMAIN dispatched' : list[i] # dispatched'[j]
    BY <1>0, <1>1, <1>3 DEF Once
  <2>4. \A v \in Workers : inHand[v] # NoMessage /\ ~begun'[v] =>
          \A i \in DOMAIN dispatched' : dispatched'[i] # inHand[v]
    BY <1>0, <1>1, <1>3, <1>4 DEF Once
  <2>5. \A v \in Workers : begun'[v] => inHand[v] # NoMessage /\ Dispatched(inHand[v])'
    BY <1>0, <1>1, <1>3, <1>4 DEF Once, Dispatched
  <2> QED
    BY <1>0, <1>1, <2>2, <2>3, <2>4, <2>5 DEF Once, Dispatched
<1>9. Found'
  <2> SUFFICES ASSUME NEW r \in Sockets, NEW n \in DOMAIN handed[r]
               PROVE  Message(r, n) # NoMessage /\ Known(Message(r, n))'
    BY DEF Found, Message
  <2>1. Message(r, n) # NoMessage /\ Known(Message(r, n))
    BY <1>0 DEF Found
  <2> QED
    BY <1>1, <1>3, <1>5, <2>1 DEF Known, InList, Dispatched
<1>10. InOrder'
  <2>1. ASSUME ~overlapped', NEW j \in DOMAIN dispatched', Queued(dispatched'[j])
        PROVE  /\ \A i \in DOMAIN list : Before(dispatched'[j], list[i])
               /\ \A v \in Takers : ~begun'[v] => Before(dispatched'[j], inHand[v])
    <3>1. \A v \in Takers : v = w
      BY <1>0, <1>2, <2>1 DEF InOrder
    <3>2. \A i \in DOMAIN list : Before(m, list[i])
      BY <1>0, <1>2, <2>1 DEF InOrder
    <3> QED
      BY <1>0, <1>3, <1>4, <2>1, <3>1, <3>2 DEF InOrder
  <2>2. ASSUME ~overlapped', NEW i \in DOMAIN dispatched', NEW j \in DOMAIN dispatched', i < j,
               dispatched'[i].sock = dispatched'[j].sock, dispatched'[i].n > dispatched'[j].n
        PROVE  ~Queued(dispatched'[i]) /\ Queued(dispatched'[j])
    <3>1. i \in DOMAIN dispatched /\ dispatched'[i] = dispatched[i] /\ Real(dispatched[i])
      BY <1>0, <1>3, <2>2 DEF Contents
    <3>2. dispatched'[i].n \in Nat /\ m.n \in Nat
      BY <1>2, <3>1 DEF Real, Messages
    <3>3. CASE j \in DOMAIN dispatched
      BY <1>0, <1>3, <2>2, <3>1, <3>3 DEF InOrder
    <3>4. CASE j \notin DOMAIN dispatched
      <4>1. dispatched'[j] = m
        BY <1>3, <3>4
      <4>2. Queued(dispatched[i]) => Before(dispatched[i], m)
        BY <1>0, <1>1, <1>2, <2>2, <3>1 DEF InOrder
      <4> QED
        BY <1>2, <2>2, <3>1, <3>2, <4>1, <4>2 DEF Before
    <3> QED
      BY <3>3, <3>4
  <2>3. ~overlapped' => ~overlapped
    OBVIOUS
  <2> QED
    BY <1>0, <1>1, <1>5, <2>1, <2>2, <2>3 DEF InOrder
<1> QED
  BY <1>6, <1>7, <1>8, <1>9, <1>10 DEF QueueInv

(* ... and gives its handle back.                                          *)
LEMMA GiveBackKeeps ==
  ASSUME QueueInv, NEW w \in Workers, GiveBack(w), UNCHANGED handed,
         overlapped => overlapped'
  PROVE  QueueInv'
<1>0. QueueTypes /\ Contents /\ Once /\ Found /\ InOrder
  BY DEF QueueInv
<1>1. /\ begun[w] /\ UNCHANGED <<list, dispatched>>
      /\ begun' = [begun EXCEPT ![w] = FALSE] /\ inHand' = [inHand EXCEPT ![w] = NoMessage]
  BY DEF GiveBack
<1>2. /\ begun' \in [Workers -> BOOLEAN] /\ inHand' \in [Workers -> Messages \cup {NoMessage}]
      /\ ~begun'[w] /\ inHand'[w] = NoMessage
      /\ \A v \in Workers : v # w => begun'[v] = begun[v] /\ inHand'[v] = inHand[v]
  BY <1>0, <1>1 DEF QueueTypes
<1>3. Dispatched(inHand[w]) /\ Takers' = Takers \ {w}
  BY <1>0, <1>1, <1>2 DEF Once, Takers
<1>4. (\A k : Real(k)' <=> Real(k)) /\ (\A k : Queued(k)' <=> Queued(k))
  BY DEF Real, Queued, EntryOf
<1>5. QueueTypes'
  <2>1. IsFiniteSet(Takers')
    BY <1>0, <1>3, FS_RemoveElement DEF QueueTypes
  <2> QED
    BY <1>0, <1>1, <1>2, <2>1 DEF QueueTypes
<1>6. Contents'
  BY <1>0, <1>1, <1>2, <1>4 DEF Contents
<1>7. Once'
  BY <1>0, <1>1, <1>2 DEF Once, Dispatched
<1>8. Found'
  <2> SUFFICES ASSUME NEW r \in Sockets, NEW n \in DOMAIN handed[r]
               PROVE  Message(r, n) # NoMessage /\ Known(Message(r, n))'
    BY DEF Found, Message
  <2>1. Message(r, n) # NoMessage /\ Known(Message(r, n))
    BY <1>0 DEF Found
  <2>2. ASSUME NEW v \in Takers, inHand[v] = Message(r, n) PROVE Known(Message(r, n))'
    <3>1. CASE v = w
      BY <1>1, <1>3, <2>2, <3>1 DEF Known, Dispatched
    <3>2. CASE v # w
      BY <1>2, <1>3, <2>2, <3>2 DEF Known, Takers
    <3> QED
      BY <3>1, <3>2
  <2> QED
    BY <1>1, <2>1, <2>2 DEF Known, InList, Dispatched
<1>9. InOrder'
  <2>1. ~overlapped' => ~overlapped
    OBVIOUS
  <2>2. \A v \in Takers' : v \in Takers /\ v # w /\ inHand'[v] = inHand[v] /\ begun'[v] = begun[v]
    BY <1>2, <1>3 DEF Takers
  <2> QED
    BY <1>0, <1>1, <1>4, <2>1, <2>2 DEF InOrder
<1> QED
  BY <1>5, <1>6, <1>7, <1>8, <1>9 DEF QueueInv

LEMMA OthersKeep ==
  ASSUME QueueInv, UNCHANGED <<handed, list, inHand, begun, dispatched, overlapped>>
  PROVE  QueueInv'
BY DEF QueueInv, QueueTypes, Contents, Once, Found, InOrder, Takers, Queued, Real, EntryOf,
       Known, InList, Dispatched, Before, Message

-----------------------------------------------------------------------------
(* The end of a connection is the last that is handed over for it, and an  *)
(* io thread is in DoData with a message that was not queued: with the end *)
(* itself when its handle is to be released.                               *)
EndLast ==
  \A s \in Sockets : \A n \in DOMAIN handed[s] : handed[s][n].zero => n = Len(handed[s])

CalledOK(t) ==
  /\ Real(calling[t]) /\ ~Queued(calling[t])
  /\ st[serving[t]] = "release" => EntryOf(calling[t]).zero

CalledDirect == \A t \in Threads : calling[t] # NoMessage => CalledOK(t)

FullInv == DInv /\ QueueInv /\ EndLast /\ CalledDirect

LEMMA QueueInvInit == DInit => QueueInv /\ EndLast /\ CalledDirect
<1> SUFFICES ASSUME DInit PROVE QueueInv /\ EndLast /\ CalledDirect
  OBVIOUS
<1>1. /\ list = <<>> /\ dispatched = <<>>
      /\ inHand = [w \in Workers |-> NoMessage] /\ begun = [w \in Workers |-> FALSE]
      /\ handed = [s \in Sockets |-> <<>>] /\ calling = [t \in Threads |-> NoMessage]
  BY DEF DInit, HQInit, Init
<1>2. Takers = {} /\ IsFiniteSet(Takers)
  BY <1>1, FS_EmptySet DEF Takers
<1>3. QueueTypes
  BY <1>1, <1>2 DEF QueueTypes
<1>4. Contents /\ Once /\ Found
  BY <1>1 DEF Contents, Once, Found
<1>5. InOrder
  BY <1>1, <1>2 DEF InOrder
<1>6. EndLast /\ CalledDirect
  BY <1>1 DEF EndLast, CalledDirect
<1> QED
  BY <1>3, <1>4, <1>5, <1>6 DEF QueueInv

(* A thread in AsynReceive hands an entry over, and its way is chosen.     *)
LEMMA IoStepKeeps ==
  ASSUME FullInv, NEW u \in Threads, IoStep(u)
  PROVE  QueueInv' /\ EndLast' /\ CalledDirect'
<1>0. DInv /\ QueueInv /\ EndLast /\ CalledDirect /\ IInv /\ ServingOK /\ CallsOK
  BY DEF FullInv, DInv
<1>1. handed \in [Sockets -> Seq(Entries)]
  BY <1>0 DEF IInv, TypeOK
<1>2. Step(u) /\ calling[u] = NoMessage /\ overlapped' = overlapped
  BY DEF IoStep
<1>3. PICK h : h = serving[u]
  OBVIOUS
<1>4. h \in Handles /\ (handed' = handed \/ Appends(h))
  BY <1>0, <1>2, <1>3, StepDoes
<1>5. ASSUME NEW t \in Threads, t # u, calling[t] # NoMessage
      PROVE  st'[serving'[t]] = st[serving[t]] /\ CalledOK(t)
  <2>1. CallOK(t)
    BY <1>0, <1>5 DEF CallsOK
  <2> QED
    BY <1>0, <1>2, <1>5, <2>1, OtherCalls DEF CalledDirect
<1>6. CASE handed' = handed
  <2>1. UNCHANGED <<hqVars, calling>>
    BY <1>6 DEF IoStep
  <2>2. QueueInv'
    BY <1>0, <1>2, <1>6, <2>1, OthersKeep DEF hqVars
  <2>3. EndLast'
    BY <1>0, <1>6 DEF EndLast
  <2>4. ASSUME NEW t \in Threads, calling'[t] # NoMessage PROVE CalledOK(t)'
    <3>1. t # u /\ calling'[t] = calling[t]
      BY <1>2, <2>1, <2>4
    <3> QED
      BY <1>5, <1>6, <2>1, <2>4, <3>1 DEF CalledOK, Real, Queued, EntryOf
  <2> QED
    BY <2>2, <2>3, <2>4 DEF CalledDirect
<1>7. CASE handed' # handed
  <2> DEFINE s == sock[h]
  <2>1. Appends(h) /\ Route(u, s)
    BY <1>3, <1>4, <1>7 DEF IoStep
  <2>2. s \in Sockets /\ ~Ended(handed[s])
    BY <1>0, <1>4, <2>1, ReaderOf DEF Appends
  <2>3. PICK e \in Entries : handed' = [handed EXCEPT ![s] = Append(@, e)] /\ (e.zero <=> st[h] = "eof")
    BY <2>1 DEF Appends
  <2>4. st'[h] = "release" => e.zero
    BY <2>1, <2>3 DEF Appends
  <2>5. serving'[u] = h
    BY <1>0, <1>2, <1>3, <1>7, StepDoes
  <2> HIDE DEF s
  <2>6. Grows(s, e)
    BY <2>2, <2>3 DEF Grows
  <2>7. /\ handed'[s] = Append(handed[s], e) /\ handed[s] \in Seq(Entries)
        /\ \A r \in Sockets : r # s => handed'[r] = handed[r]
    BY <1>1, <2>2, <2>3
  <2>8. /\ handed'[s][Len(handed'[s])] = e /\ Len(handed'[s]) = Len(handed[s]) + 1
        /\ \A n \in DOMAIN handed[s] : handed'[s][n] = handed[s][n]
        /\ \A n \in DOMAIN handed'[s] : n \in DOMAIN handed[s] \/ n = Len(handed[s]) + 1
    BY <2>7, SeqAppend
  <2>9. ViaOf(s) = e.via
    BY <2>8 DEF ViaOf
  <2>10. \/ e.via = "queue" /\ Put(Newest(s)) /\ calling' = calling
         \/ /\ e.via # "queue" /\ Pass(Newest(s))
            /\ calling' = [calling EXCEPT ![u] = Newest(s)]
    BY <2>1, <2>9 DEF Route
  <2>11. QueueInv'
    BY <1>0, <1>1, <1>2, <2>6, <2>10, PutKeeps, PassKeeps
  <2>12. EndLast'
    <3>1. ASSUME NEW n \in DOMAIN handed[s], handed[s][n].zero PROVE FALSE
      <4>1. n = Len(handed[s])
        BY <1>0, <2>2, <3>1 DEF EndLast
      <4>2. handed[s] # <<>>
        BY <3>1
      <4> QED
        BY <2>2, <3>1, <4>1, <4>2 DEF Ended
    <3>2. ASSUME NEW n \in DOMAIN handed'[s], handed'[s][n].zero
          PROVE  n = Len(handed'[s])
      BY <2>8, <3>1, <3>2
    <3> QED
      BY <1>0, <2>7, <3>2 DEF EndLast
  <2>13. ASSUME NEW t \in Threads, t # u, calling'[t] # NoMessage PROVE CalledOK(t)'
    <3>1. calling'[t] = calling[t]
      BY <1>0, <2>10, <2>13 DEF CallsOK
    <3>2. CalledOK(t) /\ st'[serving'[t]] = st[serving[t]]
      BY <1>5, <2>13, <3>1
    <3>3. Real(calling[t]) /\ ~Queued(calling[t])
      BY <3>2 DEF CalledOK
    <3> PICK k : k = calling[t]
      OBVIOUS
    <3>4. Real(k)' /\ EntryOf(k)' = EntryOf(k) /\ ~Queued(k)'
      BY <1>1, <2>6, <3>3, Growing
    <3> QED
      BY <3>1, <3>2, <3>4 DEF CalledOK, Real, Queued, EntryOf
  <2>14. ASSUME calling'[u] # NoMessage PROVE CalledOK(u)'
    <3> PICK k : k = Newest(s)
      OBVIOUS
    <3>1. calling'[u] = k /\ e.via # "queue" /\ Pass(k)
      BY <1>0, <1>2, <2>10, <2>14 DEF CallsOK
    <3>2. k # NoMessage
      BY <3>1 DEF Pass
    <3>3. Real(k)' /\ EntryOf(k)' = e
      BY <1>1, <2>6, <3>2, Growing
    <3> QED
      BY <2>4, <2>5, <3>1, <3>3 DEF CalledOK, Real, Queued, EntryOf
  <2> QED
    BY <2>11, <2>12, <2>13, <2>14 DEF CalledDirect
<1> QED
  BY <1>6, <1>7

LEMMA FullInvNext == FullInv /\ [DNext]_dVars => FullInv'
<1> SUFFICES ASSUME FullInv, [DNext]_dVars PROVE FullInv'
  OBVIOUS
<1>0. DInv /\ QueueInv /\ EndLast /\ CalledDirect /\ IInv /\ ServingOK /\ CallsOK
  BY DEF FullInv, DInv
<1>1. DInv'
  BY <1>0, DInvNext
<1>2. CASE Network
  <2>1. UNCHANGED <<queueVars, calling>>
    BY <1>2 DEF Network
  <2>2. /\ handed' = handed
        /\ \A t \in Threads : serving[t] # None =>
             serving'[t] = serving[t] /\ st'[serving[t]] = st[serving[t]]
    BY <1>0, <1>2, NetworkKeeps
  <2>3. QueueInv' /\ EndLast'
    BY <1>0, <2>1, <2>2, OthersKeep DEF queueVars, hqVars, EndLast
  <2>4. ASSUME NEW t \in Threads, calling'[t] # NoMessage PROVE CalledOK(t)'
    <3>1. calling'[t] = calling[t] /\ CallOK(t) /\ CalledOK(t)
      BY <1>0, <2>1, <2>4 DEF CallsOK, CalledDirect
    <3>2. st'[serving'[t]] = st[serving[t]]
      BY <2>2, <3>1 DEF CallOK
    <3> QED
      BY <2>2, <3>1, <3>2 DEF CalledOK, Real, Queued, EntryOf
  <2> QED
    BY <1>1, <2>3, <2>4 DEF FullInv, CalledDirect
<1>3. ASSUME NEW u \in Threads, IoStep(u) PROVE FullInv'
  BY <1>1, <1>3, IoStepKeeps DEF FullInv
<1>4. ASSUME NEW u \in Threads, DoDataReturns(u) PROVE FullInv'
  <2>1. UNCHANGED <<vars, queueVars>> /\ calling' = [calling EXCEPT ![u] = NoMessage]
    BY <1>4 DEF DoDataReturns
  <2>2. QueueInv' /\ EndLast'
    BY <1>0, <2>1, OthersKeep DEF vars, queueVars, hqVars, EndLast
  <2>3. ASSUME NEW t \in Threads, calling'[t] # NoMessage PROVE CalledOK(t)'
    <3>1. calling'[t] = calling[t] /\ CalledOK(t)
      BY <1>0, <2>1, <2>3 DEF CallsOK, CalledDirect
    <3> QED
      BY <2>1, <3>1 DEF CalledOK, Real, Queued, EntryOf, vars
  <2> QED
    BY <1>1, <2>2, <2>3 DEF FullInv, CalledDirect
<1>5. EndLast /\ CalledDirect /\ UNCHANGED <<vars, calling>> => EndLast' /\ CalledDirect'
  BY DEF EndLast, CalledDirect, CalledOK, Real, Queued, EntryOf, vars
<1>6. ASSUME NEW w \in Workers, Work(w) PROVE FullInv'
  <2>1. /\ UNCHANGED <<vars, calling>> /\ handed' = handed
        /\ overlapped' = (overlapped \/ Cardinality(Takers') > 1)
    BY <1>6 DEF Work, vars
  <2>2. overlapped => overlapped'
    BY <2>1
  <2>3. Take(w) \/ Begin(w) \/ GiveBack(w)
    BY <1>6 DEF Work, HQWorker
  <2>4. QueueInv'
    BY <1>0, <2>1, <2>2, <2>3, TakeKeeps, BeginKeeps, GiveBackKeeps
  <2> QED
    BY <1>0, <1>1, <1>5, <2>1, <2>4 DEF FullInv
<1>7. CASE UNCHANGED dVars
  <2>1. QueueInv'
    BY <1>0, <1>7, OthersKeep DEF dVars, vars, queueVars, hqVars
  <2> QED
    BY <1>0, <1>1, <1>5, <1>7, <2>1 DEF FullInv, dVars
<1> QED
  BY <1>2, <1>3, <1>4, <1>6, <1>7 DEF DNext

LEMMA FullInvariance == DSpec => []FullInv
<1>1. DInit => FullInv
  BY DInvInit, QueueInvInit DEF FullInv
<1> QED
  BY <1>1, FullInvNext, PTL DEF DSpec

-----------------------------------------------------------------------------
LEMMA OnePlace ==
  ASSUME QueueInv, NEW s \in Sockets, NEW n \in DOMAIN handed[s]
  PROVE  Cardinality(Places(Message(s, n))) = 1
<1>0. Once /\ Found
  BY DEF QueueInv
<1> PICK m : m = Message(s, n)
  OBVIOUS
<1>1. m # NoMessage /\ Known(m)
  BY <1>0 DEF Found
<1> DEFINE L == {j \in DOMAIN list : list[j] = m}
           W == {v \in Workers : inHand[v] = m /\ ~begun[v]}
           D == {j \in DOMAIN dispatched : dispatched[j] = m}
<1>2. CASE Dispatched(m)
  <2>1. PICK i \in DOMAIN dispatched : dispatched[i] = m
    BY <1>2 DEF Dispatched
  <2>2. D = {i}
    BY <1>0, <2>1 DEF Once
  <2>3. L = {}
    BY <1>0, <2>1 DEF Once
  <2>4. W = {}
    BY <1>0, <1>1, <2>1 DEF Once
  <2>5. Places(m) = {<<"dispatched", i>>}
    BY <2>2, <2>3, <2>4 DEF Places
  <2> QED
    BY <2>5, FS_Singleton
<1>3. CASE InList(m)
  <2>1. PICK i \in DOMAIN list : list[i] = m
    BY <1>3 DEF InList
  <2>2. L = {i}
    BY <1>0, <2>1 DEF Once
  <2>3. D = {}
    BY <1>0, <2>1 DEF Once
  <2>4. W = {}
    BY <1>0, <1>1, <2>1 DEF Once
  <2>5. Places(m) = {<<"list", i>>}
    BY <2>2, <2>3, <2>4 DEF Places
  <2> QED
    BY <2>5, FS_Singleton
<1>4. CASE ~Dispatched(m) /\ ~InList(m)
  <2>1. PICK w \in Takers : inHand[w] = m
    BY <1>1, <1>4 DEF Known
  <2>2. w \in Workers /\ ~begun[w]
    BY <1>0, <1>4, <2>1 DEF Once, Takers
  <2>3. W = {w}
    BY <1>0, <1>1, <2>1, <2>2 DEF Once
  <2>4. L = {} /\ D = {}
    BY <1>4 DEF InList, Dispatched
  <2>5. Places(m) = {<<"worker", w>>}
    BY <2>3, <2>4 DEF Places
  <2> QED
    BY <2>5, FS_Singleton
<1> QED
  BY <1>2, <1>3, <1>4

(* Every packet Receive hands over is in one place: in the queue's list,   *)
(* with a worker or dispatched, whatever the number of connections,        *)
(* threads, workers and handles.                                           *)
THEOREM EveryPacketInOnePlace == DSpec => []EachOnce
<1>1. FullInv => EachOnce
  BY OnePlace DEF FullInv, EachOnce
<1> QED
  BY <1>1, FullInvariance, PTL

(* While workers take turns, a packet is dispatched before an older one of *)
(* its connection only if an io thread dispatched it and the older one was *)
(* added to the queue.                                                     *)
THEOREM OvertakesOnlyQueued == DSpec => []OnlyQueuedOvertaken
<1>1. ASSUME FullInv PROVE OnlyQueuedOvertaken
  <2>1. /\ \A j \in DOMAIN dispatched : Real(dispatched[j])
        /\ ~overlapped => \A i, j \in DOMAIN dispatched :
             /\ i < j
             /\ dispatched[i].sock = dispatched[j].sock
             /\ dispatched[i].n > dispatched[j].n
             => ~Queued(dispatched[i]) /\ Queued(dispatched[j])
    BY <1>1 DEF FullInv, QueueInv, Contents, InOrder
  <2> QED
    BY <2>1 DEF OnlyQueuedOvertaken, Queued
<1> QED
  BY <1>1, FullInvariance, PTL

(* While workers take turns, a worker that tells of the end of a           *)
(* connection is the last to dispatch anything of it, and alone with it.   *)
THEOREM EndIsLast == DSpec => []EndIsQuiet
<1>1. ASSUME FullInv PROVE EndIsQuiet
  <2>0. DInv /\ IInv /\ CallsOK /\ QueueTypes /\ Contents /\ Once /\ Found /\ InOrder
        /\ EndLast /\ CalledDirect
    BY <1>1 DEF FullInv, DInv, QueueInv
  <2> SUFFICES ASSUME ~overlapped, NEW w \in Workers, begun[w], EntryOf(inHand[w]).zero,
                      NEW s, s = inHand[w].sock
               PROVE  /\ \A n \in DOMAIN handed[s] : Dispatched(Message(s, n))
                      /\ IoInDoData(s) = {}
    BY DEF EndIsQuiet
  <2> PICK m : m = inHand[w]
    OBVIOUS
  <2>1. m # NoMessage /\ Dispatched(m) /\ w \in Takers /\ Queued(m) /\ Real(m)
    BY <2>0 DEF Once, Takers, Contents, Queued
  <2>2. s \in Sockets /\ m.n \in DOMAIN handed[s] /\ m = Message(s, m.n) /\ handed[s][m.n].zero
    BY <2>1 DEF Real, Messages, Message, EntryOf
  <2>3. m.n = Len(handed[s])
    BY <2>0, <2>2 DEF EndLast
  <2>4. handed[s] \in Seq(Entries)
    BY <2>0, <2>2 DEF IInv, TypeOK
  <2>5. handed[s] # <<>> /\ Ended(handed[s])
    BY <2>2, <2>3, <2>4 DEF Ended
  <2>6. ASSUME NEW n \in DOMAIN handed[s], ~Dispatched(Message(s, n)) PROVE FALSE
    <3> PICK k : k = Message(s, n)
      OBVIOUS
    <3>1. Known(k) /\ ~Dispatched(k) /\ k.sock = s /\ k.n = n
      BY <2>0, <2>2, <2>6 DEF Found, Message
    <3>2. n \in Nat /\ Len(handed[s]) \in Nat /\ n \leq Len(handed[s])
      BY <2>4
    <3>3. CASE InList(k)
      <4>1. Before(m, k)
        BY <2>0, <2>1, <3>3 DEF InOrder, InList
      <4> QED
        BY <2>3, <3>1, <3>2, <4>1 DEF Before
    <3>4. CASE \E v \in Takers : inHand[v] = k
      <4>1. k = m
        BY <2>0, <2>1, <3>4 DEF InOrder
      <4> QED
        BY <2>1, <3>1, <4>1
    <3> QED
      BY <3>1, <3>3, <3>4 DEF Known
  <2>7. ASSUME NEW t \in IoInDoData(s) PROVE FALSE
    <3>1. t \in Threads /\ calling[t] # NoMessage /\ calling[t].sock = s
      BY <2>7 DEF IoInDoData
    <3>2. CallOK(t) /\ CalledOK(t)
      BY <2>0, <3>1 DEF CallsOK, CalledDirect
    <3> PICK g : g = serving[t]
      OBVIOUS
    <3>3. g # None /\ sock[g] = s
      BY <3>1, <3>2 DEF CallOK
    <3>4. g \in Handles
      BY <2>0, <3>1, <3>3 DEF IInv, TypeOK
    <3>5. st[g] \notin {"scan", "repost"}
      BY <2>0, <2>5, <3>3, <3>4, ReaderOf
    <3>6. EntryOf(calling[t]).zero /\ Real(calling[t]) /\ ~Queued(calling[t])
      BY <3>2, <3>5 DEF CallOK, CalledOK
    <3>7. calling[t] \in Messages /\ calling[t].n \in DOMAIN handed[s] /\ handed[s][calling[t].n].zero
      BY <3>1, <3>6 DEF Real, EntryOf
    <3>8. calling[t].n = Len(handed[s])
      BY <2>0, <2>2, <3>7 DEF EndLast
    <3>9. calling[t] = m
      BY <2>1, <2>3, <3>1, <3>7, <3>8 DEF Messages, Real
    <3> QED
      BY <2>1, <3>6, <3>9
  <2> QED
    BY <2>6, <2>7
<1> QED
  BY <1>1, FullInvariance, PTL
=============================================================================
