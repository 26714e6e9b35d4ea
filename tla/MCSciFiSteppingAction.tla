----------------------- MODULE MCSciFiSteppingAction -----------------------
(* Instances of SciFiSteppingAction for TLC.                               *)
EXTENDS SciFiSteppingAction, TLC

CONSTANTS t1, t2

OneTrack == {t1}
TwoTracks == {t1, t2}
Symmetry == Permutations(Tracks)
Charged == {"charged"}
KilledOrNot == BOOLEAN
NotKilled == {FALSE}
NonEmpty == {"charged", "optical"}
=============================================================================
