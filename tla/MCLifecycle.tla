---------------------------- MODULE MCLifecycle ----------------------------
(***************************************************************************)
(* Constants for the run of a server's life.                               *)
(***************************************************************************)
EXTENDS LifecycleProperties

\* Two of the devices have the same name.
MCName == [mount |-> "A", camera |-> "B", twin |-> "B"]
MCDevice == DOMAIN MCName
=============================================================================
