---------------------------- MODULE MCActivation ----------------------------
(***************************************************************************)
(* Activation for TLC: with one fault more than there are attempts, all    *)
(* attempts at a command can fail and the next process still meets a fault.*)
(* MaxClaim = Attempts: one torn frame can cost a process all its attempts.*)
(* MaxInFlight leaves room for a command behind a repeated one.            *)
(***************************************************************************)
EXTENDS Activation
=============================================================================
