----------------------- MODULE MCInfoTransferStation -----------------------
(* Small instances of InfoTransferStation. *)
EXTENDS InfoTransferStation
=============================================================================
