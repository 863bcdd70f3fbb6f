---------------------------- MODULE MCMqttClient ----------------------------
(***************************************************************************)
(* MqttClient for TLC: an interval of three ticks, in which a connection   *)
(* can break and be noticed, and enough breaks to hit every step of a      *)
(* recovery that is already under way.                                     *)
(***************************************************************************)
EXTENDS MqttClient
=============================================================================
