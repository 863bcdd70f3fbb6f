----------------------------- MODULE MCGateway -----------------------------
(***************************************************************************)
(* Gateway for TLC.  Telegrams of 11 bytes lie on both size limits of the  *)
(* parser, one with an RSSI byte and one without; the RSSI byte is one     *)
(* whose sign and whose lost half dB both matter.  A torn frame can cost   *)
(* the answer to the GET or the telegram behind it.                        *)
(***************************************************************************)
EXTENDS Gateway
=============================================================================
