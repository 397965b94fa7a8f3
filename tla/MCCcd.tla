------------------------------- MODULE MCCcd -------------------------------
(***************************************************************************)
(* The camera adapter for TLC: the constants are given in the cfg files.   *)
(***************************************************************************)
EXTENDS CcdProperties
=============================================================================
