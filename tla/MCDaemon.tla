-------------------------------- MODULE MCDaemon --------------------------------
(* Two launches: a server and the next one, which may overlap it. *)
EXTENDS Daemon
=============================================================================
