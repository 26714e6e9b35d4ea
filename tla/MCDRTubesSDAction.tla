------------------------- MODULE MCDRTubesSDAction -------------------------
(* Instances of DRTubesSDAction for TLC.                                   *)
EXTENDS DRTubesSDAction, TLC

CONSTANTS t1, t2

TwoTracks == {t1, t2}
Symmetry == Permutations(Tracks)

\* Two mirrored tubes of a backward barrel tower, and two of the left endcap
\* that only differ in what they are filled with.
MirroredFibres ==
  {[det |-> "barrel", stave |-> 3, tower |-> -1, col |-> 2, row |-> 1, cherenkov |-> 1],
   [det |-> "barrel", stave |-> 3, tower |-> -1, col |-> -2, row |-> 1, cherenkov |-> 1],
   [det |-> "endcap", stave |-> 2, tower |-> 1, col |-> 4095, row |-> 0, cherenkov |-> 1],
   [det |-> "endcap", stave |-> 2, tower |-> 1, col |-> 4095, row |-> 0, cherenkov |-> 0]}
TwoTimes == {1, 3}
=============================================================================
