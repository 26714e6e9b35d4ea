------------------------- MODULE LayeredCalorimeters -------------------------
(* The constructors of sampling calorimeters and yokes that are boxes or   *)
(* polygons filled with layers, each a stack of slices (Generic, ECal,     *)
(* HCal, Yoke and SteppedMuon in detector/calorimeter).                    *)
(*                                                                         *)
(* A compact description c has the groups of layers, each with the slices  *)
(* of a layer and how often it is repeated. A layer has one sensitive      *)
(* slice, but in the yokes, which number them. A barrel has nsides staves  *)
(* from rmin on, half as long as zhalf; an endcap begins at zmin, from     *)
(* rmin to rmax. The variant v says                                        *)
(*   first     the numbers of the first stave and of the first layer       *)
(*   submodule whether the sensitive slices of a layer are numbered        *)
(*   distance  what LayeredCalorimeterData calls the distance of a layer   *)
(*   split     how the thickness of a layer is divided at its sensitive    *)
(*             slice, or "none"                                            *)
(* Of the layers data only the thicknesses are kept: the radiation and     *)
(* interaction lengths are added up in the same places.                    *)
EXTENDS Geometry

IsLayered(c) ==
  /\ IsList(c.groups)
  /\ \A g \in DOMAIN c.groups : c.groups[g].repeat \in Nat /\ IsStack(c.groups[g].slices)

\* Layers with two sensitive slices are for the constructors that number them.
OneSensitive(c) ==
  \A g \in DOMAIN c.groups : Cardinality(SensitiveOf(c.groups[g].slices)) = 1

LayersOf(c) ==
  FlattenSeq([g \in DOMAIN c.groups |->
                [j \in 1..c.groups[g].repeat |-> c.groups[g].slices]])

\* What is in front of layer l.
Depth(c, l) == Sum(l - 1, LAMBDA i : Thickness(LayersOf(c)[i]))
TotalThickness(c) == Depth(c, Len(LayersOf(c)) + 1)

\* The slices in their layers, and these where they are in a stave or an endcap.
GroupStacks(c) ==
  {[half |-> Thickness(c.groups[g].slices),
    slices |-> Stacked(c.groups[g].slices)] : g \in DOMAIN c.groups}

LayerStacks(c) ==
  {[half |-> TotalThickness(c),
    slices |-> Stacked([l \in DOMAIN LayersOf(c) |->
                          Slice(Thickness(LayersOf(c)[l]), FALSE)])]}
  \cup GroupStacks(c)

\* Layer and slice of the sensitive volumes in a stave or an endcap.
Layers(c) ==
  UNION {{<<l, s>> : s \in SensitiveOf(LayersOf(c)[l])} : l \in DOMAIN LayersOf(c)}

\* The middle of a sensitive slice behind the front of the stack, doubled.
MiddleOf(c, l, s) ==
  LET slices == LayersOf(c)[l]
  IN 2 * Depth(c, l) + Thickness(slices) + Stacked(slices)[s].middle

\* A layer divided at the middle of its last sensitive slice: a half of each
\* slice is added before it is looked at and a half thereafter, and the sum is
\* taken anew at a sensitive one. Doubled.
HalvesAdded(slices) ==
  FoldLeft(LAMBDA a, s :
             LET sum == a.outer + s.thickness
             IN IF s.sensitive THEN [inner |-> sum, outer |-> s.thickness]
                ELSE [inner |-> a.inner, outer |-> sum + s.thickness],
           [inner |-> 0, outer |-> 0], slices)

\* The same where slices go to th_i before the sensitive one, to th_o after it.
ThicknessSplit(slices) ==
  LET before == [inner |-> 0, outer |-> -1]
  IN FoldLeft(LAMBDA a, s :
                IF s.sensitive
                THEN [inner |-> a.inner + s.thickness, outer |-> s.thickness]
                ELSE IF a.outer < 0
                THEN [a EXCEPT !.inner = a.inner + 2 * s.thickness]
                ELSE [a EXCEPT !.outer = a.outer + 2 * s.thickness],
              before, slices)

\* What the distance of layer l is, from the front of the first layer. Doubled.
DistanceOf(c, v, l) ==
  LET s == CHOOSE i \in SensitiveOf(LayersOf(c)[l]) :
             \A j \in SensitiveOf(LayersOf(c)[l]) : j <= i
      slices == LayersOf(c)[l]
  IN CASE v.distance = "front of the layer" -> 2 * Depth(c, l)
       [] v.distance = "middle of the layer" -> 2 * Depth(c, l) + Thickness(slices)
       [] v.distance = "sensitive slice" -> MiddleOf(c, l, s)
       [] v.distance = "five slices on" ->
            2 * (Depth(c, l) + Below(slices, s) + 5 * slices[s].thickness)

\* The reconstruction data of layer l: of the sensors there, where it is, from
\* the front at front, and how thick before and behind the sensitive middle.
CaloLayer(c, v, front, l, there) ==
  LET slices == LayersOf(c)[l]
      halves == IF v.split = "halves" THEN HalvesAdded(slices)
                ELSE ThicknessSplit(slices)
      where == [of |-> there, distance |-> 2 * front + DistanceOf(c, v, l)]
  IN IF v.split = "none" THEN where
     ELSE Joined(where, [inner |-> halves.inner, outer |-> halves.outer])

\* The extent of the whole, across the layers and along them.
CaloExtent(all, across, along) == [of |-> all, across |-> across, along |-> along]

CaloVariant(stave, layer, submodule, distance, split) ==
  [first |-> [stave |-> stave, layer |-> layer], submodule |-> submodule,
   distance |-> distance, split |-> split]

Submodule(c, v, l, s) ==
  IF v.submodule
  THEN [submodule |-> SensitiveNumber(LayersOf(c)[l], s) - 1] ELSE <<>>

-----------------------------------------------------------------------------
(* Barrels of staves, made once and placed around the beam.                *)

IsStaveFile(c) ==
  /\ IsLayered(c) /\ {"rmin", "groups"} \subseteq DOMAIN c
  /\ {c.rmin, c.rmax, c.zhalf, c.nsides} \subseteq Nat

\* Stave (as numbered), layer and slice.
StavePlaces(c, v) ==
  {<<m>> \o ls : m \in v.first.stave..(v.first.stave + c.nsides - 1), ls \in Layers(c)}

LayerNumber(v, l) == v.first.layer + l - 1

\* placeStaves puts the middle of a stave half its thickness behind rmin.
StaveSensor(c, v, p, length) ==
  [at |-> p,
   ids |-> Joined([module |-> p[1], layer |-> LayerNumber(v, p[2])],
                  Submodule(c, v, p[2], p[3])),
   pos |-> 2 * c.rmin + MiddleOf(c, p[2], p[3]),
   lo |-> -2 * length, hi |-> 2 * length,
   thickness |-> LayersOf(c)[p[2]][p[3]].thickness]

StaveBarrel(c, v) ==
  LET places == StavePlaces(c, v)
  IN [sensors |-> {StaveSensor(c, v, p, c.zhalf) : p \in places},
      elements |-> {[name |-> <<p[1], LayerNumber(v, p[2]), p[3]>>, on |-> p] :
                      p \in places},
      stacks |-> LayerStacks(c), neighbours |-> {},
      layers |-> [l \in DOMAIN LayersOf(c) |->
                    CaloLayer(c, v, c.rmin, l, {p \in places : p[2] = l})]
                 \o <<CaloExtent(places, <<2 * c.rmin, 2 * (c.rmin + TotalThickness(c))>>,
                                 <<-2 * c.zhalf, 2 * c.zhalf>>)>>]

GenericCalBarrel_o1_v01(c) ==
  StaveBarrel(c, CaloVariant(0, 0, FALSE, "front of the layer", "halves"))

HCalBarrel_o1_v01(c) ==
  StaveBarrel(c, CaloVariant(1, 1, FALSE, "sensitive slice", "split"))

ECalBarrel_o2_v01(c) ==
  StaveBarrel(c, CaloVariant(1, 1, FALSE, "middle of the layer", "split"))

YokeBarrel_o1_v01(c) ==
  StaveBarrel(c, CaloVariant(1, 1, TRUE, "middle of the layer", "none"))

\* Each layer is placed around the beam by itself, longer by its thickness
\* than the layer two before; rmin is what the layers leave of rmax. The
\* DetElements of the layers in all but the first module are not added to the
\* detector. The extent is taken from the last group.
SteppedMuonBarrel_o2_v02(c) ==
  LET v == CaloVariant(0, 0, TRUE, "front of the layer", "halves")
      d == [c EXCEPT !.rmin = c.rmax - TotalThickness(c)]
      places == StavePlaces(c, v)
      before(g) == Sum(g - 1, LAMBDA i : c.groups[i].repeat)
      group(l) == CHOOSE g \in DOMAIN c.groups : before(g) < l /\ l <= before(g + 1)
      steps(j) == (j + 1) \div 2
      length(l) == c.zhalf + steps(l - before(group(l)) - 1) * Thickness(LayersOf(c)[l])
      last == c.groups[Len(c.groups)]
      reach == 2 * c.zhalf + (2 * (last.repeat \div 2) * TotalThickness(c)) \div last.repeat
  IN [sensors |-> {StaveSensor(d, v, p, length(p[2])) : p \in places},
      elements |-> {[name |-> <<p[1], p[2], p[3]>>, on |-> p] :
                      p \in {q \in places : q[1] = 0}},
      stacks |-> LayerStacks(c), neighbours |-> {},
      layers |-> [l \in DOMAIN LayersOf(c) |->
                    CaloLayer(d, v, d.rmin, l, {p \in places : p[2] = l})]
                 \o <<CaloExtent(places, <<2 * d.rmin, 2 * c.rmax>>, <<-reach, reach>>)>>]

-----------------------------------------------------------------------------
(* Barrels whose staves are rows of towers, each a row of stacks. A stack  *)
(* is half as long as stackHalf; between stacks there are walls of         *)
(* thickness face, between towers a gap of air. Everything is smaller by a *)
(* tolerance; ry is half the thickness of the support rails.               *)

IsTowerFile(c) ==
  /\ IsLayered(c) /\ OneSensitive(c)
  /\ {c.nsides, c.ntowers, c.nstacks, c.rmin, c.tolerance, c.ry} \subseteq Nat

\* The middle of part i of n, of length each: an integer division is half of
\* what is before the middle only if n is odd.
InRow(i, n, length) == (i - (n - 1) \div 2) * length

TowerHalf(c) == c.nstacks * c.stackHalf + (c.nstacks - 1) * c.face
StaveHalf(c) ==
  (c.ntowers * 2 * (TowerHalf(c) + c.tolerance) + (c.ntowers - 1) * c.gap) \div 2

\* Stave, tower, stack, layer and slice.
TowerPlaces(c) ==
  {<<i, t, m, ls[1], ls[2]>> : i \in 0..(c.nsides - 1), t \in 0..(c.ntowers - 1),
                              m \in 0..(c.nstacks - 1), ls \in Layers(c)}

TowerIds(v, p) ==
  IF v.numbering = "staves"
  THEN [side |-> 0, stave |-> p[1], module |-> p[2], submodule |-> p[3],
        layer |-> LayerNumber(v, p[4])]
  ELSE [module |-> p[1], layer |-> LayerNumber(v, p[4])]

\* The middle of the towers is trd_z behind inner_r and the tolerance.
TowerSensor(c, v, p) ==
  LET z == InRow(p[2], c.ntowers, 2 * TowerHalf(c) + c.gap)
             + InRow(p[3], c.nstacks, 2 * c.stackHalf + c.face)
      half == c.stackHalf - 2 * c.face - c.tolerance
  IN [at |-> p, ids |-> TowerIds(v, p),
      pos |-> 2 * (c.rmin + c.tolerance) + MiddleOf(c, p[4], p[5]),
      lo |-> 2 * (z - half), hi |-> 2 * (z + half),
      thickness |-> LayersOf(c)[p[4]][p[5]].thickness]

\* Tower and rail in the stave, which is thicker by the rail.
TowerStack(c) ==
  [half |-> TotalThickness(c) + 2 * c.ry,
   slices |-> <<Placed(-2 * c.ry, Slice(TotalThickness(c), FALSE)),
                Placed(TotalThickness(c), Slice(2 * c.ry, FALSE))>>]

\* The layers data are filled again for each stack of each tower.
TowerLayers(c, v) ==
  FlattenSeq([n \in 1..(c.ntowers * c.nstacks) |->
    [l \in DOMAIN LayersOf(c) |->
       CaloLayer(c, v, c.rmin + c.tolerance, l,
                 {p \in TowerPlaces(c) : /\ p[2] * c.nstacks + p[3] = n - 1
                                         /\ p[4] = l})]])

TowerBarrel(c, v) ==
  [sensors |-> {TowerSensor(c, v, p) : p \in TowerPlaces(c)},
   elements |-> {[name |-> p, on |-> p] : p \in TowerPlaces(c)},
   stacks |-> LayerStacks(c) \cup {TowerStack(c)}, neighbours |-> {},
   layers |-> TowerLayers(c, v)
              \o <<CaloExtent(TowerPlaces(c), <<>>, <<-2 * StaveHalf(c), 2 * StaveHalf(c)>>)>>]

TowerVariant(layer, numbering, split) ==
  Joined([numbering |-> numbering], CaloVariant(0, layer, FALSE, "five slices on", split))

ECalBarrel_o1_v01(c) == TowerBarrel(c, TowerVariant(1, "staves", "split"))
ECalBarrel_o1_v02(c) == TowerBarrel(c, TowerVariant(1, "staves", "halves"))
ECalBarrel_o1_v03(c) == TowerBarrel(c, TowerVariant(0, "modules", "halves"))

\* These differ from the one before in how wide the first layer is, and where.
ECalBarrel_o2_v03(c) == ECalBarrel_o1_v03(c)
ECalBarrel_o2_v04(c) == ECalBarrel_o1_v03(c)

-----------------------------------------------------------------------------
(* Endcaps.                                                                *)

IsPolygonFile(c) == IsLayered(c) /\ {c.zmin, c.rmin, c.rmax} \subseteq Nat

\* What the volume on the other side is turned to, and its id.
Other(other) == [side \in {1, other} |-> IF side = 1 THEN 1 ELSE -1]

\* Side (as numbered), layer and slice.
PolygonPlaces(c, other) == {<<side>> \o ls : side \in {1, other}, ls \in Layers(c)}

PolygonSensor(c, v, other, p) ==
  [at |-> p,
   ids |-> Joined([side |-> p[1], layer |-> LayerNumber(v, p[2])],
                  Submodule(c, v, p[2], p[3])),
   pos |-> Other(other)[p[1]] * (2 * c.zmin + MiddleOf(c, p[2], p[3])),
   lo |-> 2 * c.rmin, hi |-> 2 * c.rmax,
   thickness |-> LayersOf(c)[p[2]][p[3]].thickness]

\* A group that is not repeated at all is refused.
PolygonEndcap(c, v, other, inTree) ==
  LET places == PolygonPlaces(c, other)
  IN IF \E g \in DOMAIN c.groups : c.groups[g].repeat <= 0 THEN Thrown
     ELSE [sensors |-> {PolygonSensor(c, v, other, p) : p \in places},
           elements |-> {[name |-> <<p[1], LayerNumber(v, p[2]), p[3]>>, on |-> p] :
                           p \in {q \in places : q[1] \in inTree}},
           stacks |-> LayerStacks(c), neighbours |-> {},
           layers |-> [l \in DOMAIN LayersOf(c) |->
                         CaloLayer(c, v, c.zmin, l, {p \in places : p[2] = l})]
                      \o <<CaloExtent(places, <<2 * c.zmin, 2 * (c.zmin + TotalThickness(c))>>,
                                      <<2 * c.rmin, 2 * c.rmax>>)>>]

GenericCalEndcap_o1_v01(c) ==
  PolygonEndcap(c, CaloVariant(0, 0, FALSE, "front of the layer", "halves"), 2, {1, 2})

HCalEndcap_o1_v01(c) ==
  PolygonEndcap(c, CaloVariant(0, 1, FALSE, "sensitive slice", "split"), 2, {1, 2})

ECalEndcap_o2_v01(c) ==
  PolygonEndcap(c, CaloVariant(0, 1, FALSE, "middle of the layer", "split"), 2, {1, 2})

YokeEndcap_o1_v01(c) ==
  PolygonEndcap(c, CaloVariant(0, 1, TRUE, "middle of the layer", "none"), 2, {1, 2})

\* The clones for the other side are not added to the detector. The outer
\* radius of the first five layers, which is smaller, is left out.
SteppedMuonEndcap_o2_v02(c) ==
  PolygonEndcap(c, CaloVariant(0, 0, TRUE, "front of the layer", "halves"), -1, {1})

\* The name of a panel has one digit for the sector; the drivers are for four.
IsPanelFile(c) ==
  /\ IsLayered(c) /\ {c.insides, c.zmin, c.zmax, c.rmin, c.rmax, c.tolerance} \subseteq Nat
  /\ c.insides <= 10

\* Side, sector, panel, layer and slice of an endcap of insides sectors, each
\* of two panels between zmin and zmax.
PanelPlaces(c) ==
  {<<j, i, m, ls[1], ls[2]>> : j \in {-1, 1}, i \in 0..(c.insides - 1), m \in {1, 2},
                              ls \in Layers(c)}

\* The stack of a panel begins a tolerance behind its end; the panel is in the
\* middle of the envelope. caloData gets no layer.
PanelDepth(c) == TotalThickness(c) + 2 * c.tolerance

PanelSensor(c, p) ==
  [at |-> p,
   ids |-> [barrel |-> p[1], sector |-> p[2], panel |-> p[3],
            layer |-> 100 * p[3] + p[4], slice |-> p[5]],
   pos |-> p[1] * (c.zmax + c.zmin - PanelDepth(c) + 2 * c.tolerance
                     + MiddleOf(c, p[4], p[5])),
   lo |-> 2 * c.rmin, hi |-> 2 * c.rmax,
   thickness |-> LayersOf(c)[p[4]][p[5]].thickness]

PanelEndcap(c) ==
  LET depth == PanelDepth(c)
      panelName(p) == 50 * (3 + p[1]) + 10 * p[2] + p[3]
  IN IF c.zmax - c.zmin < depth THEN Thrown
     ELSE [sensors |-> {PanelSensor(c, p) : p \in PanelPlaces(c)},
           elements |-> {[name |-> <<panelName(p), 100 * p[3] + p[4], p[5]>>, on |-> p] :
                           p \in PanelPlaces(c)},
           stacks |-> LayerStacks(c), neighbours |-> {},
           layers |-> <<CaloExtent(PanelPlaces(c), <<2 * c.zmin, 2 * (c.zmin + depth)>>,
                                   <<2 * c.rmin, 2 * c.rmax>>)>>]

\* Of the two symmetries one is enough for this one.
ECalEndcap_o1_v01(c) ==
  IF c.outsides # 12 /\ c.insides # 4 THEN Thrown ELSE PanelEndcap(c)

SECalEndcap_o1_v01(c) ==
  IF c.insides # 4 \/ c.outsides % 4 # 0 THEN Thrown ELSE PanelEndcap(c)
=============================================================================
