--------------------------- MODULE MCServerConfig ---------------------------
(* A configuration file of up to three lines.                              *)
EXTENDS ServerConfig
=============================================================================
