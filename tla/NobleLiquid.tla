----------------------------- MODULE NobleLiquid -----------------------------
(* Calorimeters of plates in a bath of noble liquid: the barrel with       *)
(* inclined plates (ECalBarrel_NobleLiquid_InclinedTrapezoids_o1_v01 to    *)
(* v03) and the endcap of upright discs (CaloDiscs_o1_v01), in             *)
(* detector/calorimeter.                                                   *)
(*                                                                         *)
(* A compact description c of the barrel has the radii the plates lie      *)
(* between, half their length dz, their number, the layers in radius, each *)
(* to be repeated, the thickness of what a passive plate is made of, the   *)
(* parts that are sensitive besides the gaps, by how much gap and plate    *)
(* overlap (percent), the numbers of layers and of plates the readout is   *)
(* given (0 if none), whether that has merged cells, the radii of bath,    *)
(* cryostat and envelope, and which of the cryostat's walls are sensitive. *)
(* The inclination of the plates is left out: a plate points to the axis.  *)
(* The variant v says                                                      *)
(*   counts    whether the numbers the readout is given are compared       *)
(*   strict    whether overlap, length of the layers and readout are, and  *)
(*             the first layer of the absorber is sensitive for itself     *)
(*   bath      whether the bath has radii of its own                       *)
(*   face      the face of a layer its distance is to, "inner" or "outer"  *)
(*   grown     whether the absorber is thicker in each layer than before   *)
EXTENDS Geometry

\* The layers given to be repeated, one by one.
Repeated(layers) ==
  FlattenSeq([i \in DOMAIN layers |->
                [j \in 1..layers[i].repeat |-> layers[i].thickness]])

PlaneLength(c) == c.rmax - c.rmin

\* Where the absorber is thicker further out, the layers are extents in radius, which
\* together are as long as the plate; lengths are in units that divide its thickness.
AreExtents(c) ==
  /\ Total(Repeated(c.layers)) = PlaneLength(c)
  /\ \A i \in DOMAIN Repeated(c.layers) :
       ((c.innerMax - c.inner) * Sums(Repeated(c.layers))[i]) % PlaneLength(c) = 0

IsPlateFile(c) ==
  /\ IsList(c.layers)
  /\ \A i \in DOMAIN c.layers :
       c.layers[i].repeat \in Nat /\ c.layers[i].thickness \in Nat
  /\ Total(Repeated(c.layers)) > 0
  /\ {c.rmin, c.rmax, c.dz, c.planes, c.inner, c.innerMax, c.glue, c.outer} \subseteq Nat
  /\ c.rmin < c.rmax
  /\ c.sensitive \subseteq {"readout", "first", "inner", "outer", "glue"}
  /\ c.cryoSensitive \subseteq {"front", "side", "back"}
  /\ c.innerMax # c.inner => AreExtents(c)

\* Along the plate the layers are stretched to its length.
LayerHeights(c) ==
  LET heights == Repeated(c.layers)
  IN [i \in DOMAIN heights |-> (heights[i] * PlaneLength(c)) \div Total(heights)]

LayerFirstOffset(c) == LayerHeights(c)[1] - PlaneLength(c)

\* From the middle of one layer to that of another: doubled.
Onwards(heights, from, to) ==
  Sum(to - from, LAMBDA k : heights[from + k - 1] + heights[from + k])

LayerOffset(c, i) == LayerFirstOffset(c) + Onwards(LayerHeights(c), 1, i)

\* The inner part of a passive plate is in two: the first layer, and the others
\* in a volume that is shorter by it.
InPassiveInner(c, i) ==
  LET heights == LayerHeights(c)
  IN LayerFirstOffset(c) + heights[2] + Onwards(heights, 2, i)

\* What can be sensitive: its type, the subtypes of its pieces, and its layers.
Part(type, subtypes, layers) == [type |-> type, subtypes |-> subtypes, layers |-> layers]

GapParts(n) == [gap |-> Part(0, {0}, 1..n)]

ReadoutParts(n) == [readout |-> Part(2, {0}, 1..n)]

AbsorberParts(n) ==
  [first |-> Part(1, {0}, {1}), inner |-> Part(1, {0}, 2..n),
   outer |-> Part(1, {1, 2}, 1..n), glue |-> Part(1, {3, 4}, 1..n)]

Parts(c) ==
  LET n == Len(LayerHeights(c))
  IN Joined(Joined(GapParts(n), ReadoutParts(n)), AbsorberParts(n))

SensitiveParts(c, v) ==
  {"gap"} \cup (IF v.strict THEN c.sensitive
                ELSE (c.sensitive \ {"first"})
                       \cup (IF "inner" \in c.sensitive THEN {"first"} ELSE {}))

\* In the absorber the first layer is as long as half the others are moved out by.
InThePlate(c, p, i) ==
  IF p = "inner" THEN LayerHeights(c)[1] + InPassiveInner(c, i) ELSE LayerOffset(c, i)

PlateSensor(c, p, m, i, sub) ==
  LET type == Parts(c)[p].type
  IN [at |-> <<type, m, i - 1, sub>>,
      ids |-> [cryo |-> 0, type |-> type, subtype |-> sub, module |-> m, layer |-> i - 1],
      pos |-> c.rmin + c.rmax + InThePlate(c, p, i),
      lo |-> -2 * c.dz, hi |-> 2 * c.dz, thickness |-> LayerHeights(c)[i]]

PlateSensors(c, v) ==
  UNION {{PlateSensor(c, p, m, i, sub) :
            m \in 0..(c.planes - 1), i \in Parts(c)[p].layers, sub \in Parts(c)[p].subtypes} :
         p \in SensitiveParts(c, v)}

Bath(c, v) == IF v.bath THEN c.bath ELSE <<c.rmin, c.rmax>>

\* From inside out: front wall (type 1), the liquid behind it (4), the bath, the
\* liquid before the back wall (5), and that wall (2). The side (3) is at the ends.
Walls(c, v) ==
  [front |-> <<c.walls[1], c.walls[2]>>, inFront |-> <<c.walls[2], Bath(c, v)[1]>>,
   bath |-> Bath(c, v), behind |-> <<Bath(c, v)[2], c.walls[3]>>,
   back |-> <<c.walls[3], c.walls[4]>>, side |-> <<c.walls[2], c.walls[3]>>]

\* The liquid next to a wall is sensitive with it.
WithTheWall ==
  [front |-> {"front", "inFront"}, back |-> {"back", "behind"}, side |-> {"side"}]

WallType == [front |-> 1, back |-> 2, side |-> 3, inFront |-> 4, behind |-> 5]

CryostatSensor(c, v, w) ==
  LET edges == Walls(c, v)[w]
  IN [at |-> <<3, WallType[w]>>,
      ids |-> [cryo |-> 1, type |-> WallType[w], subtype |-> 0, module |-> 0, layer |-> 0],
      pos |-> edges[1] + edges[2], lo |-> -2 * c.dz, hi |-> 2 * c.dz,
      thickness |-> edges[2] - edges[1]]

\* A cryostat without a front wall is not built.
CryostatSensors(c, v) ==
  {CryostatSensor(c, v, w) :
     w \in UNION {WithTheWall[s] : s \in IF c.walls[2] > c.walls[1]
                                    THEN c.cryoSensitive ELSE {}}}

\* Doubled middle and thickness of what lies between two radii of a tube.
Between(edges, tube) ==
  [middle |-> edges[1] + edges[2] - tube[1] - tube[2], thickness |-> edges[2] - edges[1]]

\* Inner absorber, glue and outer absorber of a passive plate, across it.
Sandwich(inner, glue, outer) ==
  LET at(middle, t) == [middle |-> middle, thickness |-> t]
  IN [half |-> inner + glue + outer,
      slices |-> <<at(0, inner),
                   at(inner + glue \div 2, glue \div 2),
                   at(-(inner + glue \div 2), glue \div 2),
                   at(inner + glue + outer \div 2, outer \div 2),
                   at(-(inner + glue + outer \div 2), outer \div 2)>>]

PlateStacks(c, v) ==
  LET heights == LayerHeights(c)
      n == Len(heights)
      length == PlaneLength(c)
      walls == Walls(c, v)
      of(Offset(_), from) ==
        [i \in 1..(n - from + 1) |->
           [middle |-> Offset(from + i - 1), thickness |-> heights[from + i - 1]]]
  IN {[half |-> length, slices |-> of(LAMBDA i : LayerOffset(c, i), 1)],
      [half |-> length - heights[1], slices |-> of(LAMBDA i : InPassiveInner(c, i), 2)],
      [half |-> length,
       slices |-> <<[middle |-> LayerFirstOffset(c), thickness |-> heights[1]],
                    [middle |-> heights[1], thickness |-> length - heights[1]]>>],
      [half |-> Bath(c, v)[2] - Bath(c, v)[1],
       slices |-> <<Between(<<c.rmin, c.rmax>>, Bath(c, v))>>],
      [half |-> c.envelope[2] - c.envelope[1],
       slices |-> IF c.walls[2] = c.walls[1] THEN <<Between(walls.bath, c.envelope)>>
                  ELSE <<Between(walls.front, c.envelope), Between(walls.inFront, c.envelope),
                         Between(walls.bath, c.envelope), Between(walls.behind, c.envelope),
                         Between(walls.back, c.envelope)>>],
      Sandwich(c.inner, c.glue, c.outer)}

\* As a bug would have it: the layer itself is not yet in the height.
ThicknessBeforeLayer(c, v, i) ==
  c.inner + ((c.innerMax - c.inner) * Sums(Repeated(c.layers))[i - 1])
              \div PlaneLength(c)

\* How thick the inner absorber is behind the first i layers. The height they reach
\* is no longer summed up in the last version, which has it from none of them.
PassiveInnerThickness(c, v, i) ==
  LET runningHeight == IF v.grown THEN Sums(Repeated(c.layers))[i] ELSE 0
  IN c.inner + ((c.innerMax - c.inner) * runningHeight) \div PlaneLength(c)

\* The inner absorber: the first layer, all others together and, when they are
\* sensitive, each of them; from where to where along the plate, and how thick at
\* either end.
Wedge(c, v) ==
  LET heights == LayerHeights(c)
      n == Len(heights)
      reach(i) == Sums(heights)[i]
      thick(i) == PassiveInnerThickness(c, v, i)
      piece(i, j, near, far) ==
        [from |-> reach(i), to |-> reach(j), near |-> near, far |-> far]
  IN [length |-> PlaneLength(c), near |-> c.inner, far |-> c.innerMax,
      pieces |-> {piece(0, 1, c.inner, thick(1)), piece(1, n, thick(1), c.innerMax)}
                 \cup {piece(i - 1, i, thick(i - 1), thick(i)) :
                         i \in IF "inner" \in c.sensitive THEN 2..n ELSE {}}]

\* Plates are named for their type and number, the layers of a gap below it.
PlateElements(c) ==
  {[name |-> <<type, m>>, on |-> <<type, m>>] :
     type \in 0..2, m \in 0..(c.planes - 1)}

GapLayerElements(c) ==
  {[name |-> <<0, m, i - 1>>, on |-> <<0, m, i - 1>>] :
     m \in 0..(c.planes - 1), i \in DOMAIN LayerHeights(c)}

\* The radius a layer begins at, doubled.
RadFirst(c, i) == 2 * c.rmin + 2 * Sums(LayerHeights(c))[i - 1]

\* In the first versions the radius has moved on when it is entered.
Distance(c, v, i) == RadFirst(c, IF v.face = "outer" THEN i + 1 ELSE i)

LayerRecord(c, v, i) ==
  [of |-> {<<0, m, i - 1, 0>> : m \in 0..(c.planes - 1)},
   distance |-> Distance(c, v, i),
   inner |-> LayerHeights(c)[i], outer |-> LayerHeights(c)[i]]

PlateExtent(c) ==
  [of |-> {<<0, m, i - 1, 0>> : m \in 0..(c.planes - 1), i \in DOMAIN LayerHeights(c)},
   across |-> <<2 * c.rmin, 2 * c.rmax>>, along |-> <<-2 * c.dz, 2 * c.dz>>]

Refused(c, v) ==
  \/ v.counts /\ c.numLayers \notin {0, Len(LayerHeights(c))}
  \/ v.counts /\ c.numPlanes \notin {0, c.planes}
  \/ v.strict /\ (c.overlap \notin 0..50 \/ Total(Repeated(c.layers)) # PlaneLength(c))
  \/ v.strict /\ ~c.merged

ECalBarrelInclined(c, v) ==
  IF Refused(c, v) THEN Thrown
  ELSE [sensors |-> PlateSensors(c, v) \cup CryostatSensors(c, v),
        elements |-> PlateElements(c) \cup GapLayerElements(c),
        stacks |-> PlateStacks(c, v), neighbours |-> {}, wedge |-> Wedge(c, v),
        layers |-> [i \in DOMAIN LayerHeights(c) |-> LayerRecord(c, v, i)]
                   \o <<PlateExtent(c)>>]

ECalBarrel_NobleLiquid_InclinedTrapezoids_o1_v01(c) ==
  ECalBarrelInclined(c,
    [counts |-> FALSE, strict |-> FALSE, bath |-> FALSE, face |-> "outer", grown |-> TRUE])

ECalBarrel_NobleLiquid_InclinedTrapezoids_o1_v02(c) ==
  ECalBarrelInclined(c,
    [counts |-> TRUE, strict |-> FALSE, bath |-> TRUE, face |-> "outer", grown |-> TRUE])

ECalBarrel_NobleLiquid_InclinedTrapezoids_o1_v03(c) ==
  ECalBarrelInclined(c,
    [counts |-> TRUE, strict |-> TRUE, bath |-> TRUE, face |-> "inner", grown |-> FALSE])

-----------------------------------------------------------------------------
(* CaloDiscs. A description has the length of a side and its middle z, the *)
(* radii, the thickness of a gap (active), of a readout disc and of the    *)
(* parts of an absorber disc, how many discs a layer has, and which discs  *)
(* are sensitive besides the gaps. The cone the discs follow is left out.  *)

Passive(c) == c.inner + c.glue + c.outer

Unit(c) == c.active + c.readout + Passive(c)

WithoutFirst(c) == c.length - c.readout - c.active \div 2 - Passive(c)

NumDiscs(c) == WithoutFirst(c) \div Unit(c) + 1

\* A layer has discs, and there is one for every disc.
IsUprightDiscFile(c) ==
  /\ IsList(c.layers) /\ c.layers # <<>>
  /\ \A k \in DOMAIN c.layers : c.layers[k] \in Nat /\ c.layers[k] > 0
  /\ {c.length, c.z, c.active, c.readout, c.inner, c.glue, c.outer} \subseteq Nat
  /\ c.active > 0 /\ NumDiscs(c) <= Total(c.layers)

\* Before the first readout disc and behind the last absorber.
MarginOutside(c) == (WithoutFirst(c) % Unit(c)) \div 2

LayerThickness(c, k) ==
  (IF k = 0 THEN MarginOutside(c) + c.readout + c.active \div 2 + (c.layers[1] - 1) * Unit(c)
   ELSE c.layers[k + 1] * Unit(c))
  + (IF k = Len(c.layers) - 1 THEN Passive(c) + MarginOutside(c) ELSE 0)

\* The layer disc d is placed in: its layers have as many discs as they should.
IPlaceHere(c, d) ==
  Cardinality({k \in DOMAIN c.layers : Sums(c.layers)[k] <= d})

\* Where the absorber in front of disc d is in layer k: doubled.
PassiveOffset(c, k, d) ==
  (IF k = 0 THEN 2 * (MarginOutside(c) + c.readout + (d - 1) * Unit(c)) + c.active
   ELSE 2 * (d - Sums(c.layers)[k]) * Unit(c))
  + Passive(c) - LayerThickness(c, k)

ReadoutOffset(c, k, d) ==
  IF d = 0 THEN 2 * MarginOutside(c) + c.readout - LayerThickness(c, 0)
  ELSE PassiveOffset(c, k, d) + Passive(c) + c.active + c.readout

\* The gap goes around its readout disc; the first one is half a gap behind it.
ActiveOffset(c, k, d) ==
  ReadoutOffset(c, k, d) + (IF d = 0 THEN c.readout + c.active \div 2 ELSE 0)

ActiveThickness(c, d) == IF d = 0 THEN c.active \div 2 ELSE c.active + c.readout

\* Gaps (type 0), absorbers (1), of which the last one is behind the last disc,
\* and readout discs (2): layer, number and where they are.
Discs(c) ==
  LET n == NumDiscs(c)
      disc(t, k, d, offset, thickness) ==
        [type |-> t, layer |-> k, sublayer |-> d, middle |-> offset, thickness |-> thickness]
      here(d) == IPlaceHere(c, d)
  IN {disc(0, here(d), d + 1, ActiveOffset(c, here(d), d), ActiveThickness(c, d)) : d \in 0..(n - 1)}
     \cup {disc(1, here(d), d, PassiveOffset(c, here(d), d), Passive(c)) : d \in 1..(n - 1)}
     \cup {disc(1, Len(c.layers) - 1, n, PassiveOffset(c, here(n - 1), n), Passive(c))}
     \cup {disc(2, here(d), d + 1, ReadoutOffset(c, here(d), d), c.readout) : d \in 0..(n - 1)}

\* An absorber of several parts has no sensitive volume but those of the parts.
Pieces(c, type) ==
  IF type = 1 /\ c.inner < Passive(c)
  THEN {[subtype |-> <<0, 4, 3, 1, 2>>[i],
         piece |-> Sandwich(c.inner, c.glue, c.outer).slices[i]] : i \in 1..5}
  ELSE {[subtype |-> 0, piece |-> [middle |-> 0, thickness |-> 0]]}

\* Where a layer begins, from the middle of the side: doubled.
EnvelopeOffset(c, k) ==
  2 * Sum(k, LAMBDA j : LayerThickness(c, j - 1)) + LayerThickness(c, k) - c.length

DiscSensor(c, d, p, sign) ==
  LET whole == p.piece.thickness = 0
      local == d.middle + (IF whole THEN 0 ELSE sign * p.piece.middle)
  IN [at |-> <<sign, d.layer, d.type, d.sublayer - 1, p.subtype>>,
      ids |-> [subsystem |-> IF sign = 1 THEN 0 ELSE 1, layer |-> d.layer,
               sublayer |-> d.sublayer, type |-> d.type, subtype |-> p.subtype],
      pos |-> sign * (2 * c.z + EnvelopeOffset(c, d.layer) + local),
      lo |-> 2 * c.rmin, hi |-> 2 * c.rmax,
      thickness |-> IF whole THEN d.thickness ELSE p.piece.thickness]

\* The sensors on both sides, gaps with their DetElements.
DiscSensors(c) ==
  UNION {{DiscSensor(c, d, p, sign) : p \in Pieces(c, d.type)} :
         d \in {e \in Discs(c) : e.type = 0 \/ e.type \in c.sensitive}, sign \in {-1, 1}}

DiscElements(c) ==
  {[name |-> <<sign, d.layer, d.sublayer - 1>>,
    on |-> <<sign, d.layer, 0, d.sublayer - 1>>] :
     d \in {e \in Discs(c) : e.type = 0}, sign \in {-1, 1}}

\* What is in a layer, the layers, and what is in an absorber.
DiscStacks(c) ==
  LET stack(half, ds) == [half |-> half, slices |-> FoldSet(LAMBDA d, seq : Append(seq, d), <<>>, ds)]
      ks == 0..(Len(c.layers) - 1)
      in(k) == {d \in Discs(c) : d.layer = k /\ (d.type # 2 \/ d.sublayer = 1)}
  IN {stack(LayerThickness(c, k), in(k)) : k \in ks}
     \cup {stack(c.length, {[middle |-> EnvelopeOffset(c, k),
                             thickness |-> LayerThickness(c, k)] : k \in ks}),
           Sandwich(c.inner, c.glue, c.outer)}

CaloDiscs_o1_v01(c) ==
  [sensors |-> DiscSensors(c), elements |-> DiscElements(c), stacks |-> DiscStacks(c),
   neighbours |-> {}, layers |-> <<>>]
=============================================================================
