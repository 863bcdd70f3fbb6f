------------------------- MODULE MCTelegramListener -------------------------
(***************************************************************************)
(* TelegramListener for TLC: an interval of two ticks, in which a handler  *)
(* can come late and a port be lost while the broker is away.              *)
(***************************************************************************)
EXTENDS TelegramListener
=============================================================================
