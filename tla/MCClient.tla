------------------------------ MODULE MCClient ------------------------------
(***************************************************************************)
(* Constants for the runs of the client.                                   *)
(***************************************************************************)
EXTENDS ClientProperties

MCStates == {"Ok", "Busy"}
MCWants  == {{"Ok"}}
=============================================================================
