--------------------------- MODULE ReceiveManager ---------------------------
(***************************************************************************)
(* The receiving half of the network layer: ReceiveManager (net/Receive-   *)
(* Manager.h, .cpp) and the handle pool it inherits (SendOrRecvMngBase).   *)
(*                                                                         *)
(* Several io threads run the completion handler AsynReceive.  Each run    *)
(* owns one data handle, unpacks the bytes the handle holds, hands every   *)
(* packet over (to the message queue, or straight to DoData) and posts the *)
(* next receive.  st[h] is the point the callback of handle h has reached, *)
(* so interleavings of callbacks on several threads are interleavings of   *)
(* the actions below.                                                      *)
(*                                                                         *)
(* Bytes are positions in the stream the peer sends: a handle holds the    *)
(* bytes start .. start+off-1, and the values its header fields have when  *)
(* read at a position are constants of the stream.                         *)
(***************************************************************************)
EXTENDS ByteStream, FiniteSets

CONSTANTS
  Handles,      (* sPerHandleData objects memory allows                    *)
  Threads,      (* threads that run io_service::run                        *)
  None,         (* the NULL pointer                                        *)
  BufferSize    (* _buffer_size                                            *)

ASSUME BufferAssumption == BufferSize \in Nat \ {0}
ASSUME NoneAssumption == None \notin Handles /\ None \notin Sockets

VARIABLES
  stream,       (* stream[s]: what the peer of s sends                     *)
  conn,         (* conn[s]: socket not yet accepted, open, or closed here  *)
  peerClosed,   (* peerClosed[s]: the peer ended the connection            *)
  rcvd,         (* rcvd[s]: bytes completed reads have taken from s        *)
  st,           (* st[h]: the point of its life handle h is at             *)
  sock,         (* sock[h]: _socket                                        *)
  start,        (* start[h]: position in the stream of the byte at _buffer *)
  off,          (* off[h]: _offset                                         *)
  got,          (* got[h]: bytes_transferred of its completed receive      *)
  shift,        (* shift[h]: how far _buffer was moved from its block      *)
  serving,      (* serving[t]: the handle whose callback thread t runs     *)
  handed        (* handed[s]: what was handed over for s, oldest first     *)

network == <<stream, conn, peerClosed, rcvd>>
fields  == <<sock, start, off, got, shift>>
vars    == <<network, st, fields, serving, handed>>

-----------------------------------------------------------------------------

(* The points of a handle's life: a receive is posted on it, has completed *)
(* and waits for a thread, a thread is in Receive (eof, scan), about to    *)
(* post the next receive, or about to release it.                          *)
Reading == {"posted", "completed", "eof", "scan", "repost"}
Unused  == {"free", "leaked"}
Points  == Reading \cup Unused \cup {"release"}

Free == {h \in Handles : st[h] = "free"}

(* The header fields at the front of the bytes handle h holds.             *)
HeaderSize(h) == stream[sock[h]].header[start[h]]
WholeSize(h)  == stream[sock[h]].whole[start[h]]

(* GetData(s), with k bytes of the stream from position p on copied to the *)
(* front of the new handle's buffer.  Objects and buffers run out together *)
(* here: in the code a call that finds no object loses its buffer.         *)
NewHandle(g, s, p, k) ==
  /\ sock' = [sock EXCEPT ![g] = s]
  /\ start' = [start EXCEPT ![g] = p]
  /\ off' = [off EXCEPT ![g] = k]
  /\ got' = [got EXCEPT ![g] = 0]
  /\ shift' = [shift EXCEPT ![g] = 0]

(* Hand len bytes of h over.                                               *)
HandOver(h, len, via, zero) ==
  handed' = [handed EXCEPT ![sock[h]] =
    Append(@, [start |-> start[h], len |-> len, via |-> via, zero |-> zero])]

Init ==
  /\ stream \in [Sockets -> Streams]
  /\ conn = [s \in Sockets |-> "new"]
  /\ peerClosed = [s \in Sockets |-> FALSE]
  /\ rcvd = [s \in Sockets |-> 0]
  /\ st = [h \in Handles |-> "free"]
  /\ sock = [h \in Handles |-> None]
  /\ start = [h \in Handles |-> 0]
  /\ off = [h \in Handles |-> 0]
  /\ got = [h \in Handles |-> 0]
  /\ shift = [h \in Handles |-> 0]
  /\ serving = [t \in Threads |-> None]
  /\ handed = [s \in Sockets |-> <<>>]

-----------------------------------------------------------------------------
(* The outside: connections, the peers and the kernel.                     *)

(* A connection is accepted or made and PostRecvAndFirst posts its first   *)
(* receive; without a free handle it never gets one.                       *)
Open(s) ==
  /\ conn[s] = "new"
  /\ conn' = [conn EXCEPT ![s] = "open"]
  /\ \/ \E g \in Free :
          /\ NewHandle(g, s, 0, 0)
          /\ st' = [st EXCEPT ![g] = "posted"]
     \/ Free = {} /\ UNCHANGED <<st, fields>>
  /\ UNCHANGED <<stream, peerClosed, rcvd, serving, handed>>

(* The peer shuts its side down, at any point of its stream.               *)
PeerCloses(s) ==
  /\ conn[s] = "open"
  /\ ~peerClosed[s]
  /\ peerClosed' = [peerClosed EXCEPT ![s] = TRUE]
  /\ UNCHANGED <<stream, conn, rcvd, st, fields, serving, handed>>

(* SocketManager closes the socket (ClearAll, SocketErrorNotify).          *)
ClosedHere(s) ==
  /\ conn[s] = "open"
  /\ conn' = [conn EXCEPT ![s] = "closed"]
  /\ UNCHANGED <<stream, peerClosed, rcvd, st, fields, serving, handed>>

(* Bug: the length of a receive ignores the bytes already in the buffer.   *)
Room_WholeBuffer(h) == BufferSize

Room(h) == BufferSize - off[h]

(* A posted receive completes with 1 .. Room(h) bytes of the stream.       *)
Arrive(h) ==
  /\ st[h] = "posted"
  /\ conn[sock[h]] = "open"
  /\ \E n \in 1 .. Room(h) :
       /\ rcvd[sock[h]] + n <= stream[sock[h]].len
       /\ rcvd' = [rcvd EXCEPT ![sock[h]] = @ + n]
       /\ got' = [got EXCEPT ![h] = n]
  /\ st' = [st EXCEPT ![h] = "completed"]
  /\ UNCHANGED <<stream, conn, peerClosed, sock, start, off, shift, serving, handed>>

(* It completes with no byte: the peer closed, the socket was closed here, *)
(* or the buffer is full, for a receive into an empty buffer completes at  *)
(* once with 0 bytes and no error.                                         *)
CompleteEmpty(h) ==
  /\ st[h] = "posted"
  /\ peerClosed[sock[h]] \/ conn[sock[h]] = "closed" \/ Room(h) = 0
  /\ st' = [st EXCEPT ![h] = "completed"]
  /\ UNCHANGED <<network, fields, serving, handed>>

-----------------------------------------------------------------------------
(* AsynReceive, step by step.                                              *)

(* An idle io thread takes the completion: _offset += bytes_transferred,   *)
(* and Receive tests bytes_transferred first.                              *)
Run(t, h) ==
  /\ serving[t] = None
  /\ st[h] = "completed"
  /\ serving' = [serving EXCEPT ![t] = h]
  /\ off' = [off EXCEPT ![h] = @ + got[h]]
  /\ st' = [st EXCEPT ![h] = IF got[h] = 0 THEN "eof" ELSE "scan"]
  /\ UNCHANGED <<network, sock, start, got, shift, handed>>

At(t, point) == serving[t] # None /\ st[serving[t]] = point

(* bytes_transferred = 0: the handle is queued as it is, return false.     *)
ZeroRead(t) ==
  LET h == serving[t] IN
  /\ At(t, "eof")
  /\ \E via \in AddPaths : HandOver(h, off[h], via, TRUE)
  /\ st' = [st EXCEPT ![h] = "release"]
  /\ UNCHANGED <<network, fields, serving>>

HeaderShort(h) == off[h] < PACKET_SIZE

HeaderWrong(h) == ~HeaderShort(h) /\ HeaderSize(h) # PACKET_SIZE

(* Bug: the header size is not checked.                                    *)
HeaderGood_Unchecked(h) == ~HeaderShort(h)

HeaderGood(h) == ~HeaderShort(h) /\ HeaderSize(h) = PACKET_SIZE

(* A wrong header size: return false, and no receive is posted any more.   *)
BadHeader(t) ==
  /\ At(t, "scan")
  /\ HeaderWrong(serving[t])
  /\ st' = [st EXCEPT ![serving[t]] = "release"]
  /\ UNCHANGED <<network, fields, serving, handed>>

(* Bug: a whole packet is queued and false returned.                       *)
WholePacket_ReturnsFalse(t) ==
  LET h == serving[t] IN
  /\ At(t, "scan")
  /\ HeaderGood(h)
  /\ WholeSize(h) = off[h]
  /\ \E via \in AddPaths : HandOver(h, off[h], via, FALSE)
  /\ st' = [st EXCEPT ![h] = "release"]
  /\ UNCHANGED <<network, fields, serving>>

(* The bytes are exactly one packet: it is queued and true returned.       *)
WholePacket(t) ==
  LET h == serving[t] IN
  /\ At(t, "scan")
  /\ HeaderGood(h)
  /\ WholeSize(h) = off[h]
  /\ \E via \in AddPaths : HandOver(h, off[h], via, FALSE)
  /\ st' = [st EXCEPT ![h] = "repost"]
  /\ UNCHANGED <<network, fields, serving>>

(* Bug: <= where the code has <, a complete packet waits for more bytes.   *)
MustReadOn_AtMost(h) ==
  \/ HeaderShort(h)
  \/ HeaderGood(h) /\ (off[h] <= WholeSize(h) \/ WholeSize(h) = 0)

(* [2] and FALG_4: the bytes are less than a header or less than a packet, *)
(* or declare a size of 0.                                                 *)
MustReadOn(h) ==
  \/ HeaderShort(h)
  \/ HeaderGood(h) /\ (off[h] < WholeSize(h) \/ WholeSize(h) = 0)

(* Bug: the new handle's _offset is not set.                               *)
Incomplete_OffsetLost(t) ==
  LET h == serving[t] IN
  /\ At(t, "scan")
  /\ MustReadOn(h)
  /\ \E g \in Free :
       /\ NewHandle(g, sock[h], start[h], 0)
       /\ st' = [st EXCEPT ![h] = "release", ![g] = "posted"]
  /\ UNCHANGED <<network, serving, handed>>

(* Bug: Receive returns true after posting the receive itself.             *)
Incomplete_ReturnsTrue(t) ==
  LET h == serving[t] IN
  /\ At(t, "scan")
  /\ MustReadOn(h)
  /\ \E g \in Free :
       /\ NewHandle(g, sock[h], start[h], off[h])
       /\ st' = [st EXCEPT ![h] = "repost", ![g] = "posted"]
  /\ UNCHANGED <<network, serving, handed>>

(* They are copied to a new handle and a receive for the rest is posted on *)
(* it.  The new handle is lost if the socket is closed by now; without a   *)
(* free handle nothing more is posted.                                     *)
Incomplete(t) ==
  LET h == serving[t] IN
  /\ At(t, "scan")
  /\ MustReadOn(h)
  /\ \/ /\ conn[sock[h]] = "open"
        /\ \E g \in Free :
             /\ NewHandle(g, sock[h], start[h], off[h])
             /\ st' = [st EXCEPT ![h] = "release", ![g] = "posted"]
     \/ /\ conn[sock[h]] # "open"
        /\ \E g \in Free : st' = [st EXCEPT ![h] = "release", ![g] = "leaked"]
        /\ UNCHANGED fields
     \/ /\ Free = {}
        /\ st' = [st EXCEPT ![h] = "release"]
        /\ UNCHANGED fields
  /\ UNCHANGED <<network, serving, handed>>

(* A packet of w bytes goes to DoData and the buffer moves on.             *)
TakeFirst(t, w, moved) ==
  LET h == serving[t] IN
  /\ HandOver(h, w, "batch", FALSE)
  /\ start' = [start EXCEPT ![h] = @ + moved]
  /\ shift' = [shift EXCEPT ![h] = @ + moved]
  /\ off' = [off EXCEPT ![h] = @ - moved]
  /\ UNCHANGED <<network, st, sock, got, serving>>

(* Bug: the branch is taken whenever the sizes differ.                     *)
Batched_AnyOther(t) ==
  LET h == serving[t] IN
  /\ At(t, "scan")
  /\ HeaderGood(h)
  /\ off[h] # WholeSize(h)
  /\ TakeFirst(t, WholeSize(h), WholeSize(h))

(* Bug: _buffer moves past the header only.                                *)
Batched_PastHeader(t) ==
  LET h == serving[t] IN
  /\ At(t, "scan")
  /\ HeaderGood(h)
  /\ off[h] > WholeSize(h)
  /\ WholeSize(h) # 0
  /\ TakeFirst(t, WholeSize(h), PACKET_SIZE)

(* [3]: more bytes than the packet.  DoData handles it on this thread and  *)
(* _buffer and _offset move past it, for another turn of the loop.         *)
Batched(t) ==
  LET h == serving[t] IN
  /\ At(t, "scan")
  /\ HeaderGood(h)
  /\ off[h] > WholeSize(h)
  /\ WholeSize(h) # 0
  /\ TakeFirst(t, WholeSize(h), WholeSize(h))

(* Receive returned true: PostReceive(socket) posts the next receive on a  *)
(* new handle, unless the socket is closed or no handle is free.           *)
Repost(t) ==
  LET h == serving[t] IN
  /\ At(t, "repost")
  /\ \/ /\ conn[sock[h]] = "open"
        /\ \E g \in Free :
             /\ NewHandle(g, sock[h], start[h] + off[h], 0)
             /\ st' = [st EXCEPT ![h] = "release", ![g] = "posted"]
     \/ /\ conn[sock[h]] # "open" \/ Free = {}
        /\ st' = [st EXCEPT ![h] = "release"]
        /\ UNCHANGED fields
  /\ UNCHANGED <<network, serving, handed>>

(* _buffer is put back and ReleaseMemory returns the handle to the pool.   *)
(* Its call of CloseSocket does nothing: no _socket_manager is ever set.   *)
Release(t) ==
  LET h == serving[t] IN
  /\ At(t, "release")
  /\ st' = [st EXCEPT ![h] = "free"]
  /\ NewHandle(h, None, 0, 0)
  /\ serving' = [serving EXCEPT ![t] = None]
  /\ UNCHANGED <<network, handed>>

-----------------------------------------------------------------------------

Step(t) ==
  \/ ZeroRead(t)
  \/ BadHeader(t)
  \/ WholePacket(t)
  \/ Incomplete(t)
  \/ Batched(t)
  \/ Repost(t)
  \/ Release(t)

Next ==
  \/ \E s \in Sockets : Open(s) \/ PeerCloses(s) \/ ClosedHere(s)
  \/ \E h \in Handles : Arrive(h) \/ CompleteEmpty(h)
  \/ \E t \in Threads, h \in Handles : Run(t, h)
  \/ \E t \in Threads : Step(t)

Spec == Init /\ [][Next]_vars

(* The io threads run: a completed receive is taken by some thread, and a  *)
(* thread inside AsynReceive goes on.  Nothing is assumed of peers,        *)
(* sockets or the kernel.                                                  *)
Fairness ==
  /\ \A h \in Handles : WF_vars(\E t \in Threads : Run(t, h))
  /\ \A t \in Threads : WF_vars(Step(t))

FairSpec == Spec /\ Fairness

-----------------------------------------------------------------------------
TypeOK ==
  /\ stream \in [Sockets -> Streams]
  /\ conn \in [Sockets -> {"new", "open", "closed"}]
  /\ peerClosed \in [Sockets -> BOOLEAN]
  /\ rcvd \in [Sockets -> Nat]
  /\ st \in [Handles -> Points]
  /\ sock \in [Handles -> Sockets \cup {None}]
  /\ \A h \in Handles : sock[h] = None <=> st[h] \in Unused
  /\ start \in [Handles -> Nat]
  /\ off \in [Handles -> Nat]
  /\ got \in [Handles -> Nat]
  /\ shift \in [Handles -> Nat]
  /\ serving \in [Threads -> Handles \cup {None}]
  /\ handed \in [Sockets -> Seq(Entries)]

(* At most one receive of a socket is outstanding, counting the callbacks  *)
(* that may still post one: two would read interleaved pieces of a packet  *)
(* into different buffers.  (PostReceive is called from three places.)     *)
SingleReader ==
  \A g, h \in Handles :
    /\ st[g] \in Reading /\ st[h] \in Reading
    /\ sock[g] = sock[h]
    => g = h

(* No byte is lost or read twice between two receives: the bytes before    *)
(* those the reader holds were all handed over, and those it holds reach   *)
(* up to the last byte taken from the socket.                              *)
Held(h) == off[h] + (IF st[h] = "completed" THEN got[h] ELSE 0)

HoldsTheRest(h) ==
  /\ start[h] + Held(h) = rcvd[sock[h]]
  /\ NextByte(handed[sock[h]]) = IF st[h] = "repost" THEN rcvd[sock[h]] ELSE start[h]

NoByteLost == \A h \in Handles : st[h] \in Reading => HoldsTheRest(h)

(* The buffer a callback unpacks starts at a packet boundary: header       *)
(* fields are never read out of the middle of a packet.                    *)
Aligned ==
  \A h \in Handles : st[h] \in Reading \ {"repost"} =>
    start[h] \in stream[sock[h]].boundaries

(* The bytes a handle holds lie inside its buffer, even while _buffer is   *)
(* moved past the packets handled: no receive, memcpy or header read goes  *)
(* over the end.                                                           *)
BufferBounds == \A h \in Handles : shift[h] + Held(h) <= BufferSize

(* A connection stops being read only when a read returned no byte, its    *)
(* header is wrong, it was closed here, or the pool is exhausted.          *)
HasReader(s) == \E h \in Handles : sock[h] = s /\ st[h] \in Reading

MayStop(s) ==
  \/ Ended(handed'[s])
  \/ conn[s] = "closed"
  \/ stream[s].header[NextByte(handed[s])] # PACKET_SIZE
  \/ Free = {}

ReaderStops == [][\A s \in Sockets : HasReader(s) /\ ~HasReader(s)' => MayStop(s)]_vars

(* A packet whose last byte was taken from the socket is handed over, even *)
(* when the peer closes, the socket is closed or the pool runs dry: until  *)
(* the first wrong header, no received packet is stranded in a buffer.     *)
NextPacketReceived(s) ==
  LET p == NextByte(handed[s]) IN
  /\ p + PACKET_SIZE <= rcvd[s]
  /\ stream[s].header[p] = PACKET_SIZE
  /\ stream[s].whole[p] \in 1 .. rcvd[s] - p

Delivered == \A s \in Sockets : NextPacketReceived(s) ~> ~NextPacketReceived(s)

(* The strengthening that makes these invariants inductive: the reader of  *)
(* a socket belongs to an open connection whose end was not handed over,   *)
(* holds no complete packet before Receive unpacks it, and never reads     *)
(* beyond what the peer sent.                                              *)
Unfinished(h) ==
  \/ HeaderShort(h)
  \/ WholeSize(h) = 0
  \/ off[h] < WholeSize(h)

ReaderOK(h) ==
  /\ conn[sock[h]] # "new"
  /\ rcvd[sock[h]] <= stream[sock[h]].len
  /\ ~Ended(handed[sock[h]])
  /\ st[h] \in {"posted", "completed", "eof"} => Unfinished(h)
  /\ st[h] = "posted" => shift[h] = 0 /\ got[h] = 0
  /\ st[h] = "eof" => got[h] = 0
  /\ st[h] = "scan" => off[h] > 0
  /\ st[h] = "repost" => rcvd[sock[h]] \in stream[sock[h]].boundaries

IInv ==
  /\ TypeOK
  /\ SingleReader
  /\ NoByteLost
  /\ Aligned
  /\ BufferBounds
  /\ \A h \in Handles : st[h] \in Reading => ReaderOK(h)
  /\ \A s \in Sockets : conn[s] = "new" => rcvd[s] = 0 /\ handed[s] = <<>>

(* What is handed over is the stream of the packets, in order and once.    *)
PS == INSTANCE PacketStream WITH log <- handed
ImplementsPacketStream == PS!PSSpec
=============================================================================
