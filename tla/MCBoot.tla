------------------------------- MODULE MCBoot -------------------------------
(***************************************************************************)
(* An instance of Boot for TLC.                                            *)
(***************************************************************************)
EXTENDS Boot
=============================================================================
