---------------------------- MODULE MCUltrasonic ----------------------------
(***************************************************************************)
(* An instance of Ultrasonic for TLC.                                      *)
(***************************************************************************)
EXTENDS Ultrasonic

\* Invalid, the nearest, the last the limit lets through, and nothing there.
EdgeEchoes == {1, 2, 4, 6}
=============================================================================
