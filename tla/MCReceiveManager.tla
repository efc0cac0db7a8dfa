-------------------------- MODULE MCReceiveManager --------------------------
(***************************************************************************)
(* Small instances of ReceiveManager: headers of 2 bytes, a buffer of 5,   *)
(* and streams of at most 7 bytes, cut into reads in every possible way.   *)
(***************************************************************************)
EXTENDS ReceiveManager, TLC

(* A stream of len bytes with packets at the positions of pk, pk[p] being  *)
(* the <<header size, whole size>> read there.  Away from a packet's first *)
(* byte a header that looks right is read, so a misaligned reader goes on. *)
Mk(len, pk) ==
  [len        |-> len,
   header     |-> [p \in 0 .. len |-> IF p \in DOMAIN pk THEN pk[p][1] ELSE 2],
   whole      |-> [p \in 0 .. len |-> IF p \in DOMAIN pk THEN pk[p][2] ELSE 1],
   boundaries |-> DOMAIN pk \cup {p + pk[p][2] : p \in DOMAIN pk}]

TwoThenThree == Mk(5, 0 :> <<2, 2>> @@ 2 :> <<2, 3>>)
ThreePackets == Mk(7, 0 :> <<2, 2>> @@ 2 :> <<2, 3>> @@ 5 :> <<2, 2>>)
ZeroSize     == Mk(6, 0 :> <<2, 3>> @@ 3 :> <<2, 0>>)
WrongHeader  == Mk(4, 0 :> <<2, 2>> @@ 2 :> <<1, 2>>)
TooLong      == Mk(6, 0 :> <<2, 6>>)

AllStreams == {TwoThenThree, ThreePackets, ZeroSize, WrongHeader, TooLong}

(* Headers of 1 byte, for longer streams in a smaller buffer.              *)
Short(len, pk) == [Mk(len, pk) EXCEPT !.header = [p \in 0 .. len |->
                     IF p \in DOMAIN pk THEN pk[p][1] ELSE 1]]
=============================================================================
