-------------------------- MODULE MCConnectionPool --------------------------
(* Small instances of ConnectionPool. *)
EXTENDS ConnectionPool
=============================================================================
