---------------------------- MODULE HcalChambers ----------------------------
(* The constructors of hadron calorimeters of equal chambers between       *)
(* plates: SHcalSc04_* and the semi-digital Hcal_*_SD_* of                 *)
(* detector/calorimeter.                                                   *)
(*                                                                         *)
(* A compact description c has one layer, with its slices, that is used    *)
(* for all chambers: nlayers of them, of thickness chamber, with a         *)
(* radiator of the material of the stave in front of each where it is not  *)
(* one of the slices. With several sensitive slices, recorded is the one   *)
(* (from 1) whose segmentation the reconstruction uses, or 0. The variant  *)
(* v says                                                                  *)
(*   period   from one chamber to the next                                 *)
(*   lead     what is in front of the first chamber in its period          *)
(*   halves   the towers ids of the halves of a layer left and right of    *)
(*            the middle of a stave                                        *)
(*   sliceIds whether a slice has its number as id                         *)
(* An id that is the same for all sensors is left out, and so are the      *)
(* DetElements that are never added to that of the detector.               *)
EXTENDS Geometry

IsChamberFile(c) ==
  /\ {"slices", "chamber"} \subseteq DOMAIN c
  /\ IsStack(c.slices) /\ SensitiveOf(c.slices) # {}
  /\ c.recorded \in {0} \cup SensitiveOf(c.slices)
  /\ {c.nlayers, c.chamber, c.radiator, c.backPlate} \subseteq Nat /\ c.chamber > 0

IsChamberBarrelFile(c) == IsChamberFile(c) /\ c.nsides \in Nat

\* The room in an endcap is divided by the thickness of its chambers.
IsChamberEndcapFile(c) == IsChamberFile(c) /\ {c.zmin, c.zmax} \subseteq Nat

Reach(c, v) == c.nlayers * v.period

\* The front of the chamber of a layer behind the front of the first period.
ChamberFront(v, l) == (l - 1) * v.period + v.lead

\* The slice the layer data are about; the last sensitive one if none is chosen.
Recorded(c) ==
  IF c.recorded # 0 THEN c.recorded
  ELSE CHOOSE s \in SensitiveOf(c.slices) : \A t \in SensitiveOf(c.slices) : t <= s

\* The middle of slice s behind the front of the chamber, doubled.
SliceMiddle(c, s) == 2 * Below(c.slices, s) + c.slices[s].thickness

\* The chamber with its slices placed from its front on.
ChamberStack(c) ==
  [half |-> c.chamber,
   slices |-> [s \in DOMAIN c.slices |->
                 Placed(SliceMiddle(c, s) - c.chamber, c.slices[s])]]

\* The thickness is summed up from the radiator, that is taken whole, to the
\* middle of the recorded slice, and from there to the end. Doubled.
ThicknessIn(c, radiator) == 2 * radiator + SliceMiddle(c, Recorded(c))
ThicknessOut(c) == 2 * Thickness(c.slices) - SliceMiddle(c, Recorded(c))

ChamberRecord(c, distance, radiator, there) ==
  [of |-> there, distance |-> distance,
   inner |-> ThicknessIn(c, radiator), outer |-> ThicknessOut(c)]

Extent(there, across, along) == [of |-> there, across |-> across, along |-> along]

SliceId(v, s) == IF v.sliceIds THEN [slice |-> s - 1] ELSE <<>>

-----------------------------------------------------------------------------
(* Barrels: staves around the beam, modules along it.                      *)

\* A layer that is too narrow for a chamber is passed over by some.
ChamberBarrelPlaces(c, v, layers) ==
  {<<i, m, h, l, s>> : i \in 1..c.nsides, m \in 1..v.nmodules, h \in v.halves,
                       l \in layers, s \in SensitiveOf(c.slices)}

\* Chambers are placed from the upper end of the module down; the module is
\* turned so that its upper end is at the inner radius. Its middle is as far out
\* as half of the layers and the back plate.
ModuleRadius(c, v) == 2 * c.rin + Reach(c, v) + v.backPlate
ChamberOffset(c, v, l) ==
  Reach(c, v) + v.backPlate - 2 * ChamberFront(v, l) - c.chamber

ChamberBarrelSensor(c, v, p, z) ==
  [at |-> p,
   ids |-> Joined(Joined([stave |-> p[1], module |-> p[2], layer |-> p[4]],
                         IF v.halves = {0} THEN <<>> ELSE [tower |-> p[3]]),
                  SliceId(v, p[5])),
   pos |-> ModuleRadius(c, v) - ChamberOffset(c, v, p[4])
             + SliceMiddle(c, p[5]) - c.chamber,
   lo |-> z.middle - z.length, hi |-> z.middle + z.length,
   thickness |-> c.slices[p[5]].thickness]

\* Module z tells where the modules are along the beam: doubled middle, length.
ChamberBarrel(c, v, layers, Z(_), Distance(_), radiator) ==
  LET places == ChamberBarrelPlaces(c, v, layers)
      record(l) == ChamberRecord(c, Distance(l), radiator,
                                 {p \in places : p[4] = l /\ p[5] = Recorded(c)})
  IN [sensors |-> {ChamberBarrelSensor(c, v, p, Z(p)) : p \in places},
      elements |-> {},
      stacks |-> {ChamberStack(c)}, neighbours |-> {},
      layers |-> FlattenSeq([l \in 1..c.nlayers |->
                               IF l \in layers THEN <<record(l)>> ELSE <<>>])
                 \o <<Extent(places, <<2 * c.rin, 2 * c.rout>>,
                             <<-2 * c.zhalf, 2 * c.zhalf>>)>>]

\* Two modules with a gap between them, each with a lateral plate on its side.
NormalLength(c) == c.zhalf - c.gap \div 2
TwoModules(c, p) ==
  LET z == NormalLength(c) + c.gap + c.lateral
  IN [middle |-> IF p[2] = 1 THEN -z ELSE z, length |-> NormalLength(c) - c.lateral]

AHcalVariant(c, sliceIds) ==
  [period |-> c.radiator + c.chamber, lead |-> c.radiator, nmodules |-> 2,
   halves |-> {-1, 1}, sliceIds |-> sliceIds, backPlate |-> c.backPlate]

\* The distance of a layer is the middle of its chamber without what is in
\* front of the sensitive slice, which is added again by its user.
InFrontOfChamber(c, v, l) ==
  ModuleRadius(c, v) - ChamberOffset(c, v, l) - ThicknessIn(c, c.radiator)

\* Validates the number of layers; space is what the outer radius leaves
\* along a stave. The modules of all staves are elements, named by a counter.
ValidatedBarrel(c, v) ==
  LET b == ChamberBarrel(c, v, 1..c.nlayers, LAMBDA p : TwoModules(c, p),
                         LAMBDA l : InFrontOfChamber(c, v, l), c.radiator)
  IN IF Reach(c, v) > c.space THEN Thrown
     ELSE [b EXCEPT !.elements = {[name |-> <<(p[1] - 1) * 2 + p[2] - 1>>, on |-> p] :
                                    p \in (1..c.nsides) \X (1..2)}]

SHcalSc04_Barrel_v01(c) == ValidatedBarrel(c, AHcalVariant(c, FALSE))

\* With a slice id for several segmentations in one chamber.
SHcalSc04_Barrel_v04(c) == ValidatedBarrel(c, AHcalVariant(c, TRUE))

\* The layer is the volume that holds its slices, the radiator one of them. A half
\* of each slice is missing in the sums, and the distance is the mirror image.
SHcalSc04_Barrel_v02(c) ==
  LET v == [AHcalVariant(c, FALSE) EXCEPT !.halves = {-1}, !.lead = 0]
      d == [c EXCEPT !.chamber = v.period]
      b == ChamberBarrel(d, v, c.fits, LAMBDA p : TwoModules(c, p),
                         LAMBDA l : ModuleRadius(d, v) + ChamberOffset(d, v, l), 0)
      before == 2 * Below(c.slices, Recorded(c))
      halved(r) == IF "inner" \notin DOMAIN r THEN r
                   ELSE [r EXCEPT !.inner = before \div 2,
                                  !.outer = Thickness(c.slices) - before \div 2]
  IN [b EXCEPT !.layers = [i \in DOMAIN b.layers |-> halved(b.layers[i])]]

\* Three stairs: the module on the left is longer by a stair at the inner third
\* of the layers and shorter at the outer third, the one on the right the
\* other way round. What it is moved outwards is not in the distance.
SHcalSc04_Barrel_v03(c) ==
  LET v == AHcalVariant(c, FALSE)
      third(l) == IF l <= c.nlayers \div 3 THEN 1
                  ELSE IF l > (c.nlayers \div 3) * 2 THEN -1 ELSE 0
      z(p) == LET two == TwoModules(c, p)
                  stair == third(p[4]) * c.stair
              IN [middle |-> two.middle + stair,
                  length |-> two.length + (IF p[2] = 1 THEN stair ELSE -stair)]
      stairUp == 2 * ((Reach(c, v) + c.backPlate) \div 3)
  IN ChamberBarrel(c, v, 1..c.nlayers, z,
                   LAMBDA l : InFrontOfChamber(c, v, l) - stairUp, c.radiator)

\* The modules of the semi-digital barrel divide it evenly, between two walls.
SDModules(c, p) ==
  LET length == (2 * c.zhalf) \div c.nmodules
  IN [middle |-> -2 * c.zhalf + length + 2 * (p[2] - 1) * length,
      length |-> length - 2 * c.wall]

SDBarrel(c, v, layers) ==
  ChamberBarrel(c, v, layers, LAMBDA p : SDModules(c, p),
                LAMBDA l : ModuleRadius(c, v) + ChamberOffset(c, v, l), 0)

SDVariant(c, halves, sliceIds) ==
  [period |-> c.chamber, lead |-> 0, nmodules |-> c.nmodules, halves |-> halves,
   sliceIds |-> sliceIds, backPlate |-> 0]

\* Layers without room for HcalSD_MinNumCellsInTransvPlane cells are left out.
Hcal_Barrel_SD_v01(c) == SDBarrel(c, SDVariant(c, {0}, FALSE), c.fits)
Hcal_Barrel_SD_v02(c) == SDBarrel(c, SDVariant(c, {0, 1}, TRUE), 1..c.nlayers)

\* Nothing but the envelope.
Hcal_BarrelSD_v00(c) == Thrown

-----------------------------------------------------------------------------
(* Endcaps and rings: a body on each side with the chambers in it.         *)

\* The module is the side.
SideOf(module) == IF module = 0 THEN -1 ELSE 1

\* Tower, stave, module, layer and slice.
ChamberEndcapPlaces(c, ntowers, staves, n) ==
  {<<t, i, m, l, s>> : t \in 0..(ntowers - 1), i \in staves, m \in {0, 6},
                       l \in 1..n, s \in SensitiveOf(c.slices)}

\* The layers of the body are counted from its side towards the interaction
\* point, which is at front.
ChamberEndcapSensor(c, v, front, r, p) ==
  [at |-> p,
   ids |-> Joined([tower |-> p[1], stave |-> p[2], module |-> p[3], layer |-> p[4]],
                  SliceId(v, p[5])),
   pos |-> SideOf(p[3]) * (2 * (front + ChamberFront(v, p[4])) + SliceMiddle(c, p[5])),
   lo |-> 2 * r[1], hi |-> 2 * r[2], thickness |-> c.slices[p[5]].thickness]

ChamberEndcap(c, v, places, n, front, R(_), Distance(_), radiator, extent) ==
  [sensors |-> {ChamberEndcapSensor(c, v, front, R(p), p) : p \in places},
   elements |-> {},
   stacks |-> {ChamberStack(c)}, neighbours |-> {},
   layers |-> [l \in 1..n |-> ChamberRecord(c, Distance(l), radiator,
                                            {p \in places : p[4] = l /\ p[5] = Recorded(c)})]
              \o <<Extent(places, extent.across, extent.along)>>]

EndcapVariant(c, lead, sliceIds) ==
  [period |-> lead + c.chamber, lead |-> lead, sliceIds |-> sliceIds]

\* Bodies that are boxes, side by side in towers; their depth is given with them,
\* and their middle is half of it behind zmin.
BoxEndcap(c, v, staves, n, radiator) ==
  LET places == ChamberEndcapPlaces(c, Len(c.boxes), staves, n)
  IN ChamberEndcap(c, v, places, n, c.zmin,
                   LAMBDA p : c.boxes[p[1] + 1],
                   LAMBDA l : 2 * (c.zmin + ChamberFront(v, l)) + c.chamber
                                - ThicknessIn(c, radiator),
                   radiator,
                   [across |-> <<2 * c.zmin, 2 * c.zmax>>,
                    along |-> <<2 * c.rmin, 2 * c.rmax>>])

SHcalSc04_Endcaps(c) ==
  BoxEndcap(c, EndcapVariant(c, c.radiator, FALSE), {0, 1}, c.nlayers, c.radiator)

SHcalSc04_Endcaps_v01(c) ==
  BoxEndcap(c, EndcapVariant(c, c.radiator, TRUE), {0, 1}, c.nlayers, c.radiator)

\* As many chambers as there is room for.
RoomFor(c, v) == (c.zmax - c.zmin - c.backPlate) \div v.period
AtMost(n, room) == IF room < n THEN room ELSE n

Hcal_Endcaps_SD_v02(c) ==
  LET v == EndcapVariant(c, 0, FALSE)
  IN BoxEndcap(c, v, 0..3, AtMost(c.nlayers, RoomFor(c, v)), 0)

\* Bodies that are polygons in four staves.
PolygonBody(c, v, staves, n, front, z, distanceFrom, radiator) ==
  ChamberEndcap(c, v, ChamberEndcapPlaces(c, 1, staves, n), n, front,
                LAMBDA p : <<c.rmin, c.rmax>>,
                LAMBDA l : 2 * (distanceFrom + (l - 1) * v.period), radiator,
                [across |-> <<2 * z[1], 2 * z[2]>>, along |-> <<2 * c.rmin, 2 * c.rmax>>])

\* The ring is as long as the chambers there is room for, and ends at zmax; its
\* records begin at zmin.
EndcapRing(c, v) ==
  LET length == RoomFor(c, v) * v.period + c.backPlate
      n == AtMost(c.nlayers, length \div v.period)
  IN PolygonBody(c, v, 1..4, n, c.zmax - length, <<c.zmin, c.zmin + length>>,
                 c.zmin, c.radiator)

SHcalSc04_EndcapRing(c) == EndcapRing(c, EndcapVariant(c, c.radiator, FALSE))
SHcalSc04_EndcapRing_v01(c) == EndcapRing(c, EndcapVariant(c, c.radiator, TRUE))

\* What is left over of the room is in front of the ring.
Hcal_EndcapRing_SD_v01(c) ==
  LET v == EndcapVariant(c, 0, FALSE)
      free == (c.zmax - c.zmin - c.backPlate) % v.period
  IN PolygonBody(c, v, 0..3, AtMost(c.nlayers, RoomFor(c, v)), c.zmin + free,
                 <<c.zmin + free, c.zmax>>, c.zmin + free, 0)

\* What is left over is behind the chambers.
Hcal_Endcaps_SD_v01(c) ==
  LET v == EndcapVariant(c, 0, FALSE)
  IN PolygonBody(c, v, 0..3, AtMost(c.nlayers, RoomFor(c, v)), c.zmin,
                 <<c.zmin, c.zmax>>, c.zmin, 0)
=============================================================================
