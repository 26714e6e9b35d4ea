--------------------------- MODULE MCTPCSDAction ---------------------------
(* Instances of TPCSDAction for TLC.                                       *)
EXTENDS TPCSDAction, TLC

CONSTANTS t1, t2

TwoTracks == {t1, t2}
TwoRows == 0 .. 1
NoneOrOne == 0 .. 1
BeyondRows == 511
OnlyOn == {TRUE}
OnlyOff == {FALSE}
OnAndOff == {TRUE, FALSE}
Symmetry == Permutations(Tracks)
=============================================================================
