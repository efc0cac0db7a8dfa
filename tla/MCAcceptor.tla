----------------------------- MODULE MCAcceptor -----------------------------
(* Small instances of Acceptor. *)
EXTENDS Acceptor
=============================================================================
