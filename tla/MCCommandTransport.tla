------------------------- MODULE MCCommandTransport -------------------------
(* Two recording threads against the server thread, see the cfg files.       *)
EXTENDS CommandTransport
=============================================================================
