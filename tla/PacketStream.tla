---------------------------- MODULE PacketStream ----------------------------
(***************************************************************************)
(* What ReceiveManager promises to the class derived from it, whatever the *)
(* segmentation of the stream and the number of io threads: the packets of *)
(* a connection are handed over one by one, each whole, each once, in the  *)
(* order they were sent; the end of the connection is handed over at most  *)
(* once, after them, together with what was left of an unfinished packet.  *)
(***************************************************************************)
EXTENDS ByteStream

VARIABLES
  stream,       (* stream[s]: what the peer of s sends                     *)
  log           (* log[s]: what was handed over for s, oldest first        *)

psVars == <<stream, log>>

PSInit ==
  /\ stream \in [Sockets -> Streams]
  /\ log = [s \in Sockets |-> <<>>]

(* The next packet of s, complete and with a header of the right size.     *)
Deliver(s) ==
  LET p == NextByte(log[s])
      w == stream[s].whole[p]
  IN
  /\ ~Ended(log[s])
  /\ p + w <= stream[s].len
  /\ stream[s].header[p] = PACKET_SIZE
  /\ w > 0
  /\ \E via \in AddPaths \cup {"batch"} :
       log' = [log EXCEPT
         ![s] = Append(@, [start |-> p, len |-> w, via |-> via, zero |-> FALSE])]
  /\ UNCHANGED stream

(* The end of s, with the n bytes that do not make up a packet.            *)
End(s) ==
  LET p == NextByte(log[s]) IN
  /\ ~Ended(log[s])
  /\ \E n \in 0 .. stream[s].len - p, via \in AddPaths :
       /\ \/ n < PACKET_SIZE
          \/ stream[s].whole[p] = 0
          \/ n < stream[s].whole[p]
       /\ log' = [log EXCEPT
            ![s] = Append(@, [start |-> p, len |-> n, via |-> via, zero |-> TRUE])]
  /\ UNCHANGED stream

PSNext == \E s \in Sockets : Deliver(s) \/ End(s)

PSSpec == PSInit /\ [][PSNext]_psVars
=============================================================================
