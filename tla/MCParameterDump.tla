-------------------------- MODULE MCParameterDump ---------------------------
(***************************************************************************)
(* ParameterDump for TLC: with four parameters and two late answers, an    *)
(* answer can come out two labels further on; a torn frame can cost two.   *)
(***************************************************************************)
EXTENDS ParameterDump
=============================================================================
