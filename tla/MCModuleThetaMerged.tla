------------------------ MODULE MCModuleThetaMerged ------------------------
(* Instances of ModuleThetaMerged for TLC.                                 *)
EXTENDS ModuleThetaMerged, TLC

MCFirstTheta == 0 :> 4 @@ 1 :> 5 @@ 2 :> 5 @@ 3 :> 7
MCLastTheta == 0 :> 15 @@ 1 :> 15 @@ 2 :> 14 @@ 3 :> 12

ByLayer(a, b, c, d) == 0 :> a @@ 1 :> b @@ 2 :> c @@ 3 :> d

\* As in the two readouts of the ALLEGRO barrel, one with groups that are not
\* aligned from layer to layer, and one where the modules merged differ by more
\* than a factor of two.
MCReadouts == {
  [theta |-> ByLayer(4, 1, 4, 4), modules |-> ByLayer(2, 2, 2, 2)],
  [theta |-> ByLayer(2, 4, 2, 1), modules |-> ByLayer(2, 1, 1, 2)],
  [theta |-> ByLayer(3, 4, 3, 2), modules |-> ByLayer(2, 3, 4, 3)],
  [theta |-> ByLayer(2, 3, 1, 4), modules |-> ByLayer(4, 1, 3, 3)]}
=============================================================================
