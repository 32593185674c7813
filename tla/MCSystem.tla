------------------------------ MODULE MCSystem ------------------------------
(***************************************************************************)
(* An instance of System for TLC.                                          *)
(***************************************************************************)
EXTENDS System

EdgeReadings == {4094, 4095}
=============================================================================
