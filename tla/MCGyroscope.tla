---------------------------- MODULE MCGyroscope ----------------------------
(***************************************************************************)
(* Instances of Gyroscope for TLC.  The samples are those at which a rate  *)
(* put together from two of them, or from a failed transfer, differs most: *)
(* -1 and 0, -256 and 255, and a head turning just fast enough, or fast.   *)
(***************************************************************************)
EXTENDS Gyroscope

StillSamples == {<<-1, 255>>, <<0, 0>>, <<-1, 0>>, <<0, 255>>}
AllSamples   == StillSamples \cup {<<8, 255>>, <<-9, 0>>, <<127, 255>>}
=============================================================================
