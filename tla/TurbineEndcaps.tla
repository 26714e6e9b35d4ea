--------------------------- MODULE TurbineEndcaps ---------------------------
(* The endcaps of inclined blades in noble liquid, one wheel of blades     *)
(* within the other: ECalEndcap_Turbine_o1_v01 to v03 in                   *)
(* detector/calorimeter.                                                   *)
(*                                                                         *)
(* A compact description c has the wheels, from inside out, each with its  *)
(* number of unit cells, of layers in radius and along the blade, and      *)
(* whether its blades are steep enough to be built; the radii that part    *)
(* the wheels, each the last one times the same ratio; the thickness of    *)
(* the tubes between them; which parts of the blades, whether the tubes and*)
(* which walls of the cryostat are sensitive; half the depth of the bath,  *)
(* the liquid left free in front and behind, the walls in front and behind,*)
(* the radii of the cryostat and, where it is given, half its depth, and   *)
(* the envelope. The angles of the blades and the thickness of the gaps are*)
(* left out. The variant v says                                            *)
(*   subtypes  what is entered for cladding, glue and absorber, each in the*)
(*             one before                                                  *)
(*   readout   the type entered for the electrode in its gap               *)
(*   own       whether the wheels have layers of their own                 *)
(*   wheels    whether there may be any number of wheels, or three         *)
(*   modules   how far apart the numbers of two modules are                *)
(*   tubeRoom  whether the bath has room for the outermost tube            *)
(*   shifted   whether the glue is moved in its cladding                   *)
(*   free      whether the cryostat has walls in front and behind, and     *)
(*             liquid left free                                            *)
(*   centred   whether blades, tubes and walls are moved with what there is*)
(*             in front and behind                                         *)
(*   tree      whether the layers have DetElements                         *)
EXTENDS Geometry

\* The parts of the blades: type of the blade and part of it.
Gap == <<0, 0>>
Electrode == <<0, 1>>
Cladding == <<1, 1>>
Glue == <<1, 2>>
Absorber == <<1, 3>>

NonActive == {Electrode, Cladding, Glue, Absorber}

IsTurbineFile(c) ==
  /\ IsList(c.wheels) /\ c.sensitive \subseteq {Gap} \cup NonActive
  /\ c.tubeSensitive \in BOOLEAN
  /\ c.cryoSensitive \subseteq {"front", "back", "side", "inner", "outer"}
  /\ {c.nlayers, c.leastCommonMultiple} \subseteq Nat
  /\ {c.z, c.bathHalf, c.cryoHalf, c.supportGap, c.freeFront, c.freeBack,
      c.wallFront, c.wallBack} \subseteq Nat
  /\ \A w \in DOMAIN c.wheels :
       /\ {c.wheels[w].ncells, c.wheels[w].nrho, c.wheels[w].nz} \subseteq Nat
       /\ c.wheels[w].ncells > 0 =>
            /\ c.leastCommonMultiple > 0
            /\ c.leastCommonMultiple % c.wheels[w].ncells = 0

Wheels(c) == 0..(Len(c.wheels) - 1)
Wheel(c, w) == c.wheels[w + 1]

\* The blades of a wheel without an angle, or one too small, are left out.
Standing(c, v, w) == Wheel(c, w).steep /\ (v.wheels # "any" => w < 3)

NRho(c, v, w) == IF v.own THEN Wheel(c, w).nrho ELSE c.nlayers
NZ(c, v, w) == IF v.own THEN Wheel(c, w).nz ELSE 1
NLayers(c, v, w) == NRho(c, v, w) * NZ(c, v, w)

\* The passive blade has layers only if everything in the wheel is sensitive. That
\* some of it is and some is not is reported, and the blade is one piece.
AllNonActiveSensitive(c) == NonActive \subseteq c.sensitive

NumNonActiveRho(c, v, w) == IF AllNonActiveSensitive(c) THEN NRho(c, v, w) ELSE 1
NumNonActive(c, v, w) == IF AllNonActiveSensitive(c) THEN NLayers(c, v, w) ELSE 1

\* The layers of a wheel are numbered on from those of the wheels within.
LayerIndexBaseline(c, v, w) == Sum(w, LAMBDA u : NLayers(c, v, u - 1))

\* The cells are built from below the middle; the module counts from it.
ModIndex(n, iUnitCell) ==
  LET m == iUnitCell - n \div 2 IN IF m < 0 THEN m + n ELSE m

\* Numbers of a field that several volumes of a path have are or'ed, two bits.
Or(a, b) == IF a = 0 \/ a = b THEN b ELSE IF b = 0 THEN a ELSE 3

\* So are those of a layer, twelve bits.
OrLayers(a, b) ==
  LET bit(x, i) == (x \div 2^(i - 1)) % 2
  IN Sum(12, LAMBDA i : IF bit(a, i) + bit(b, i) > 0 THEN 2^(i - 1) ELSE 0)

Subtype(v, part) ==
  LET in == v.subtypes
  IN CASE part = 1 -> in[1]
       [] part = 2 -> Or(in[1], in[2])
       [] part = 3 -> Or(Or(in[1], in[2]), in[3])

\* What there is in layer k of unit cell i: the gap and the electrode in it of
\* the active blade (type 0); cladding, glue and absorber of the passive one.
TurbinePlaces(c, v) ==
  UNION {{<<w, i, type, k, part, side>> :
            i \in 0..(Wheel(c, w).ncells - 1), type \in {0, 1},
            k \in 0..(NLayers(c, v, w) - 1), part \in 0..3, side \in {-1, 1}} :
         w \in {u \in Wheels(c) : Standing(c, v, u)}}

IsSensitive(c, v, p) ==
  /\ <<p[3], p[5]>> \in c.sensitive
  /\ p[3] = 1 => p[4] < NumNonActive(c, v, p[1])

\* The number of a layer of the passive blade, which in the first versions the
\* electrode has too, within a gap that has its own.
NonActiveLayer(c, v, p) ==
  p[4] + (IF v.own THEN LayerIndexBaseline(c, v, p[1])
          ELSE p[1] * NumNonActive(c, v, p[1]))

BladeLayer(c, v, p) ==
  LET layer == LayerIndexBaseline(c, v, p[1]) + p[4]
  IN CASE p[3] = 1 -> NonActiveLayer(c, v, p)
       [] p[3] = 0 /\ p[5] = 1 /\ ~v.own -> OrLayers(layer, NonActiveLayer(c, v, p))
       [] OTHER -> layer

CellIds(c, v, p) ==
  LET n == Wheel(c, p[1]).ncells
      module == ModIndex(n, p[2])
  IN [cryo |-> 0, wheel |-> p[1], side |-> p[6],
      module |-> IF v.modules = "least common multiple"
                 THEN (module * c.leastCommonMultiple) \div n ELSE module,
      layer |-> BladeLayer(c, v, p),
      type |-> IF p[3] = 0 /\ p[5] = 1 THEN Or(0, v.readout) ELSE p[3],
      subtype |-> IF p[3] = 0 THEN 0 ELSE Subtype(v, p[5])]

\* Where the blades of wheel w begin and end, outside the tube within.
BladeSpan(c, w) == <<c.radii[w + 1] + c.tube, c.radii[w + 2]>>

\* Doubled, one of n layers.
LayerLength(c, w, n) == (2 * (BladeSpan(c, w)[2] - BladeSpan(c, w)[1])) \div n

\* Where the middle of the bath is in the envelope, doubled.
BathMiddle(c, v) == IF v.free THEN c.wallFront - c.wallBack ELSE 0

\* How deep the blades are, and where their middle is in the envelope, doubled.
BladeDepth(c, v) == 2 * c.bathHalf - (IF v.free THEN c.freeFront + c.freeBack ELSE 0)
MiddleZ(c, v) ==
  BathMiddle(c, v) + (IF v.centred THEN c.freeFront - c.freeBack ELSE 0)

Sensor(c, v, p) ==
  LET w == p[1]
      length == LayerLength(c, w, IF p[3] = 1 THEN NumNonActiveRho(c, v, w)
                                  ELSE NRho(c, v, w))
      lo == 2 * BladeSpan(c, w)[1] + (p[4] \div NZ(c, v, w)) * length
  IN [at |-> p, ids |-> CellIds(c, v, p),
      pos |-> p[6] * (2 * c.z + MiddleZ(c, v)),
      lo |-> lo, hi |-> lo + length, thickness |-> BladeDepth(c, v)]

\* What holds the liquid has the other fields of its ids at zero, and it is
\* mirrored with the endcap: from lo to hi across, where it is in z doubled.
Support(c, at, side, wheel, type, z) ==
  [at |-> at,
   ids |-> [cryo |-> 1, wheel |-> wheel, side |-> side, module |-> 0, layer |-> 0,
            type |-> type, subtype |-> 0],
   pos |-> side * (2 * c.z + z.middle), lo |-> 2 * z.lo, hi |-> 2 * z.hi,
   thickness |-> z.thickness]

\* The tube around wheel w. In the last version it ends where the rings begin.
SupportTube(c, v, w) ==
  LET short == IF v.centred THEN c.freeBack - c.supportGap ELSE 0
  IN [middle |-> BathMiddle(c, v) - short, thickness |-> 2 * c.bathHalf - short,
      lo |-> c.radii[w + 2], hi |-> c.radii[w + 2] + c.tube]

TubeSensors(c, v) ==
  {Support(c, <<w, side>>, side, w, 0, SupportTube(c, v, w)) :
     w \in IF c.tubeSensitive THEN Wheels(c) ELSE {}, side \in {-1, 1}}

\* Where the bath ends outside.
BathEnd(c, v) == c.radii[Len(c.wheels) + 1] + (IF v.tubeRoom THEN c.tube ELSE 0)

\* The walls of the cryostat. In the first version they are tubes as long as the
\* cryostat, and the side what is left between them at the ends; in the others
\* those in front and behind are discs, at first in the ends of the bath.
TurbineWalls(c, v) ==
  LET wall(middle, thickness, lo, hi) ==
        [middle |-> middle, thickness |-> thickness, lo |-> lo, hi |-> hi]
      depth == 2 * c.cryoHalf
      middle == IF v.centred THEN BathMiddle(c, v) ELSE 0
      out(t) == 2 * c.bathHalf + (IF v.centred THEN t ELSE 0)
  IN IF v.free
     THEN [front |-> wall(middle - out(c.wallFront), c.wallFront, c.cryo[1], c.cryo[4]),
           back |-> wall(middle + out(c.wallBack), c.wallBack,
                         IF v.centred THEN c.cryo[1] ELSE c.radii[1], c.cryo[4]),
           inner |-> wall(middle, 2 * c.bathHalf, c.cryo[1], c.radii[1]),
           outer |-> wall(middle, 2 * c.bathHalf, BathEnd(c, v), c.cryo[4])]
     ELSE [front |-> wall(0, depth, c.cryo[1], c.cryo[2]),
           back |-> wall(0, depth, c.cryo[3], c.cryo[4]),
           side |-> wall(0, depth, c.cryo[2], c.cryo[3])]

SideType == [front |-> 1, back |-> 2, side |-> 3, inner |-> 3, outer |-> 4]

\* A cryostat without a front wall is not built. Three bits of the type are left.
WallSensors(c, v) ==
  LET built == IF v.free THEN c.wallFront > 0 ELSE c.cryo[2] > c.cryo[1]
  IN {Support(c, <<SideType[w], 0, side>>, side, 0, (4 + SideType[w]) % 8,
              TurbineWalls(c, v)[w]) :
        w \in IF built THEN c.cryoSensitive \cap DOMAIN TurbineWalls(c, v) ELSE {},
        side \in {-1, 1}}

\* The bath with the wheels and, outside of each, its tube, across.
InTheBath(c, v) ==
  LET n == Len(c.wheels)
      out == BathEnd(c, v)
      span(from, to) == [middle |-> from + to - c.radii[1] - out, thickness |-> to - from]
  IN [half |-> out - c.radii[1],
      slices |-> [w \in 1..n |-> span(BladeSpan(c, w - 1)[1], BladeSpan(c, w - 1)[2])]
                 \o [w \in 1..n |-> span(c.radii[w + 1], c.radii[w + 1] + c.tube)]]

\* The glue of a layer in its cladding, which is as long. In one version it is
\* placed in the layer as the layer is in the blade.
InTheCladding(c, v) ==
  UNION {LET n == NumNonActiveRho(c, v, w)
             length == LayerLength(c, w, n)
         IN {[half |-> length,
              slices |-> <<[middle |-> IF v.shifted THEN (2 * k + 1 - n) * length ELSE 0,
                            thickness |-> length]>>] : k \in 0..(n - 1)} :
         w \in Wheels(c)}

\* Rings and spokes behind the wheels, from the inner to the outer ring. The
\* radii the wheels part at are reckoned up to the outside of the bath here.
MechanicalSupport(c, v) ==
  LET n == Len(c.wheels)
      middle(w) == 2 * c.supportRadii[w] + c.tube - c.midRing
      \* doubled
      ring(w) == IF w = 0 THEN <<2 * c.innerRing[1], 2 * c.innerRing[2]>>
                 ELSE IF w = n THEN <<2 * c.outerRing[1], 2 * c.outerRing[2]>>
                 ELSE <<middle(w), middle(w) + 2 * c.midRing>>
      out == 2 * (c.radii[n + 1] + c.tube)
      span(from, to) == [middle |-> (from + to - 2 * c.radii[1] - out) \div 2,
                         thickness |-> (to - from) \div 2]
  IN [half |-> (out - 2 * c.radii[1]) \div 2,
      slices |-> [w \in 1..(n + 1) |-> span(ring(w - 1)[1], ring(w - 1)[2])]
                 \o [w \in 1..n |-> span(ring(w - 1)[2], ring(w)[1])]]

TurbineExtent(c, places) ==
  [of |-> places, across |-> <<2 * (c.z - c.dz), 2 * (c.z + c.dz)>>,
   along |-> <<2 * c.rmin1, 2 * c.rmax1>>]

\* The DetElements of a layer are one for both sides.
Turbine(c, v, stacks) ==
  LET gaps == {p \in TurbinePlaces(c, v) : <<p[3], p[5]>> = Gap}
      sensors == {Sensor(c, v, p) : p \in {q \in TurbinePlaces(c, v) : IsSensitive(c, v, q)}}
                   \cup TubeSensors(c, v) \cup WallSensors(c, v)
  IN [sensors |-> sensors,
      elements |-> IF v.tree
                   THEN {[name |-> <<p[1], p[2], p[4]>>, on |-> SubSeq(p, 1, 4)] : p \in gaps}
                   ELSE {},
      stacks |-> {InTheBath(c, v)} \cup InTheCladding(c, v) \cup stacks,
      neighbours |-> {}, layers |-> <<TurbineExtent(c, {s.at : s \in sensors})>>]

ECalEndcap_Turbine_o1_v01(c) ==
  Turbine(c, [subtypes |-> <<2, 1, 0>>, readout |-> 0, own |-> FALSE, wheels |-> "any",
              modules |-> "least common multiple", tubeRoom |-> FALSE, shifted |-> TRUE,
              free |-> FALSE, centred |-> FALSE, tree |-> FALSE], {})

ECalEndcap_Turbine_o1_v02(c) ==
  Turbine(c, [subtypes |-> <<3, 2, 1>>, readout |-> 2, own |-> FALSE, wheels |-> "three",
              modules |-> "one", tubeRoom |-> FALSE, shifted |-> FALSE,
              free |-> TRUE, centred |-> FALSE, tree |-> TRUE], {})

ECalEndcap_Turbine_o1_v03(c) ==
  LET v == [subtypes |-> <<0, 2, 1>>, readout |-> 2, own |-> TRUE, wheels |-> "three",
            modules |-> "one", tubeRoom |-> TRUE, shifted |-> FALSE,
            free |-> TRUE, centred |-> TRUE, tree |-> TRUE]
  IN Turbine(c, v, {MechanicalSupport(c, v)})
=============================================================================
