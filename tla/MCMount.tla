------------------------------ MODULE MCMount ------------------------------
(***************************************************************************)
(* The mount adapter for TLC.                                              *)
(***************************************************************************)
EXTENDS MountProperties

\* Two positions that differ in both coordinates: a mix of them is neither.
Targets == {<<1, 1>>, <<2, 2>>}
=============================================================================
