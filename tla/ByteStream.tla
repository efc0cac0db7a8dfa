----------------------------- MODULE ByteStream -----------------------------
(***************************************************************************)
(* What a peer sends on a connection, and the record kept of what the      *)
(* receiver handed over of it.  The bytes themselves are left out: a byte  *)
(* is its position in the stream, and the only contents that matter are    *)
(* the two size fields a Packet header (msg/Packet.h) has when it is read  *)
(* at a position.                                                          *)
(***************************************************************************)
EXTENDS Integers, Sequences

CONSTANTS
  Sockets,      (* connections                                             *)
  PACKET_SIZE,  (* sizeof(Packet), the length of a header                  *)
  Streams       (* what a peer may send                                    *)

(* A stream has len bytes; header[p] and whole[p] are _the_packet_header_  *)
(* size and _the_whole_packet_size read at p, whatever bytes lie there;    *)
(* boundaries are the positions the peer's own sizes lead to from 0.       *)
IsStream(x) ==
  /\ x.len \in Nat
  /\ x.header \in [0 .. x.len -> Nat]
  /\ x.whole \in [0 .. x.len -> Nat]
  /\ x.boundaries \subseteq Nat
  /\ 0 \in x.boundaries
  /\ \A p \in x.boundaries : p < x.len => p + x.whole[p] \in x.boundaries

ASSUME StreamsAssumption == \A x \in Streams : IsStream(x)
ASSUME HeaderAssumption == PACKET_SIZE \in Nat \ {0}

(* A log entry: the bytes start .. start+len-1 were handed over.  via is   *)
(* the path they took, zero that a read without a byte was the occasion.   *)
(* MessageQueue::Add queues a copy ("queue") or, without memory, has its   *)
(* caller dispatch ("caller"); DoData on the io thread is "batch".         *)
AddPaths == {"queue", "caller"}
Entries  == [start : Nat, len : Nat, via : AddPaths \cup {"batch"}, zero : BOOLEAN]

(* Where the first byte not yet handed over is.                            *)
NextByte(log) == IF log = <<>> THEN 0 ELSE log[Len(log)].start + log[Len(log)].len

(* The log says that a read returned no byte: nothing may follow.          *)
Ended(log) == log # <<>> /\ log[Len(log)].zero
=============================================================================
