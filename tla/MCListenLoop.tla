---------------------------- MODULE MCListenLoop ----------------------------
(***************************************************************************)
(* ListenLoop by itself, for TLC, with what the MQTT client does left out: *)
(* the runs that show the code at odds with its documentation.             *)
(***************************************************************************)
EXTENDS ListenLoop
=============================================================================
