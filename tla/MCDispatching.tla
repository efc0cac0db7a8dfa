---------------------------- MODULE MCDispatching ----------------------------
(* A small instance of Dispatching: headers of 1 byte, a buffer of 3 and   *)
(* three packets on one connection.                                        *)
EXTENDS Dispatching, MCReceiveManager

ThreeShort == {Short(4, 0 :> <<1, 1>> @@ 1 :> <<1, 1>> @@ 2 :> <<1, 2>>)}
=============================================================================
