----------------------------- MODULE YokePlates -----------------------------
(* The instrumented return yokes in detector/calorimeter: Yoke05_Barrel,   *)
(* Yoke05_Endcaps and Yoke06_Endcaps. Chambers, copies of one stack of     *)
(* slices, are put into the gaps between iron plates whose measures are    *)
(* written into the code: the first ten plates are as thick as iron, those *)
(* after them by extra (4.6 plates) thicker.                               *)
(*                                                                         *)
(* A compact description c has the slices and the number of the layers,    *)
(* nsides, the inner radius rin and the z the endcaps start at, and the    *)
(* measures: gap, iron, extra, the slack at the first chamber (0.5 mm), the*)
(* gap between barrel and endcap and the millimetre between plug and body. *)
EXTENDS Geometry

\* The slices have no ids: one of them is sensitive.
IsYokeFile(c) ==
  /\ IsStack(c.slices) /\ Cardinality(SensitiveOf(c.slices)) = 1
  /\ {c.nlayers, c.gap, c.iron, c.extra, c.slack, c.rin, c.zStart} \subseteq Nat

IsYokeBarrelFile(c) == IsYokeFile(c) /\ c.nsides \in Nat

\* The iron in front of the chamber with index i of the barrel and the endcap.
BarrelIron(c, i) == i * c.iron + (IF i >= 10 THEN (i - 10) * c.extra ELSE 0)
EndcapIron(c, i) == (i + 1) * c.iron + (IF i >= 10 THEN (i - 9) * c.extra ELSE 0)

Chamber(c) == Thickness(c.slices)
Middle(c, s) == Stacked(c.slices)[s].middle
TheSensitive(c) == Max(SensitiveOf(c.slices))

\* What is said to be in front of a chamber, the first one aside: gap and plate.
RadiatorThickness(c, i, first) ==
  IF i = 0 THEN first
  ELSE c.gap + c.iron + (IF i >= 10 THEN c.extra ELSE 0) - Chamber(c)

\* Of the last sensitive slice, doubled: what is in front of its middle in the
\* layer, and what is behind it.
Inner(c, radiator) ==
  2 * (radiator + Below(c.slices, TheSensitive(c))) + c.slices[TheSensitive(c)].thickness
Outer(c) == Chamber(c) - Middle(c, TheSensitive(c))

Record(c, distance, radiator, of) ==
  [of |-> of, distance |-> distance, inner |-> Inner(c, radiator), outer |-> Outer(c)]

\* Layer, stave, module and slice. The number of a layer has been counted up
\* before the volume is placed.
Number(i) == i + 2

YokeStack(c) == [half |-> Chamber(c), slices |-> Stacked(c.slices)]

-----------------------------------------------------------------------------
RadiusLow(c, i) == c.rin + c.slack + i * c.gap + BarrelIron(c, i)

YokeBarrelPlaces(c) ==
  {<<m, i, j, s>> : m \in 1..3, i \in 0..(c.nlayers - 1), j \in 0..(c.nsides - 1),
                    s \in SensitiveOf(c.slices)}

\* The barrel is in three modules of the same length.
YokeBarrelSensor(c, p) ==
  LET third == (2 * (c.zStart - c.barrelGap)) \div 3
      z == 2 * (p[1] - 2) * third
  IN [at |-> p,
      ids |-> [module |-> p[1], layer |-> Number(p[2]), stave |-> p[3] + 1, tower |-> 1],
      pos |-> 2 * RadiusLow(c, p[2]) + Chamber(c) + Middle(c, p[4]),
      lo |-> z - third + 2 * c.lateral, hi |-> z + third - 2 * c.lateral,
      thickness |-> c.slices[p[4]].thickness]

\* The module's volume is placed three times; each has DetElements of its own.
Yoke05_Barrel(c) ==
  LET places == YokeBarrelPlaces(c)
      of(i) == {p \in places : p[2] = i /\ p[4] = TheSensitive(c)}
      radiator(i) == RadiatorThickness(c, i, c.slack)
      rout == c.rin + c.gap + 10 * (c.iron + c.gap)
                + 3 * (c.iron + c.extra + c.gap) + 2 * c.slack
      zhalf == c.zStart - c.barrelGap
  IN [sensors |-> {YokeBarrelSensor(c, p) : p \in places},
      elements |-> {[name |-> <<m, j + 1, Number(i)>>, on |-> <<m, i, j>>] :
                      m \in 1..3, i \in 0..(c.nlayers - 1), j \in 0..(c.nsides - 1)},
      stacks |-> {YokeStack(c)}, neighbours |-> {},
      layers |-> [l \in 1..c.nlayers |->
                    Record(c, 2 * (RadiusLow(c, l - 1) - radiator(l - 1)),
                           radiator(l - 1), of(l - 1))]
                 \o <<[of |-> places, across |-> <<2 * c.rin, 2 * rout>>,
                       along |-> <<-2 * zhalf, 2 * zhalf>>]>>]

-----------------------------------------------------------------------------
\* The body on each side, and where the middle of a chamber is in it, doubled.
BodyThickness(c) == 10 * (c.iron + c.gap) + 2 * (c.iron + c.extra + c.gap) + c.gap

ShiftMiddle(c, i) ==
  -BodyThickness(c) + 2 * (c.slack + EndcapIron(c, i)) + (2 * i + 1) * c.gap

YokeEndcapPlaces(c) ==
  {<<m, i, s>> : m \in {0, 6}, i \in 0..(c.nlayers - 1), s \in SensitiveOf(c.slices)}

\* The body is a millimetre behind where the endcaps start.
YokeEndcapSensor(c, p) ==
  LET body == 2 * c.zStart + BodyThickness(c) + 2 * c.behindStart
  IN [at |-> p, ids |-> [module |-> p[1], layer |-> Number(p[2])],
      pos |-> (IF p[1] = 0 THEN -1 ELSE 1)
                * (body + ShiftMiddle(c, p[2]) + Middle(c, p[3])),
      lo |-> 2 * c.rmin, hi |-> 2 * c.rmax, thickness |-> c.slices[p[3]].thickness]

\* The body's volume is placed twice. The DetElements of its chambers are next
\* to those of the modules, one for both: they are in none of them.
YokeEndcaps(c) ==
  LET places == YokeEndcapPlaces(c)
      of(i) == {p \in places : p[2] = i /\ p[3] = TheSensitive(c)}
      radiator(i) ==
        RadiatorThickness(c, i, c.slack + (c.gap - Chamber(c)) \div 2 + c.iron)
      distance(i) == 2 * c.zStart + BodyThickness(c) + ShiftMiddle(c, i)
                       - Inner(c, radiator(i))
  IN [sensors |-> {YokeEndcapSensor(c, p) : p \in places},
      elements |-> {[name |-> <<m>>, on |-> <<m>>] : m \in {0, 6}}
                   \cup {[name |-> <<1, Number(i)>>, on |-> <<-1, i>>] :
                           i \in 0..(c.nlayers - 1)},
      stacks |-> {YokeStack(c)}, neighbours |-> {},
      layers |-> [l \in 1..c.nlayers |->
                    Record(c, distance(l - 1), radiator(l - 1), of(l - 1))]
                 \o <<[of |-> places,
                       across |-> <<2 * c.zStart, 2 * (c.zStart + BodyThickness(c))>>,
                       along |-> <<2 * c.rmin, 2 * c.rmax>>]>>]

Yoke05_Endcaps(c) == YokeEndcaps(c)

\* With a square hole.
Yoke06_Endcaps(c) == YokeEndcaps(c)
=============================================================================
