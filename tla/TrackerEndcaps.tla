--------------------------- MODULE TrackerEndcaps ---------------------------
(* The constructors of silicon endcaps made of rings of modules            *)
(* (TrackerEndcap, SiTrackerEndcap and VertexEndcap in detector/tracker).  *)
(* They are copies of each other; what they differ in is the record handed *)
(* to Endcap.                                                              *)
(*                                                                         *)
(* A compact description c has the modules, each a stack of slices (the    *)
(* first in the file is placed lowest) and half its radial length, the     *)
(* layers, each with the rings of that disk, and whether the disks are     *)
(* reflected to the other side. The variant v says                         *)
(*   side      the ids a volume gets for its side                          *)
(*   numbering how modules are numbered                                    *)
(*   up        on each side, whether the upper end of a module looks to    *)
(*             positive or to negative z                                   *)
(*   stagger   how the modules of a ring are shifted in z                  *)
(*   centre    where in r the middle of a module is                        *)
(*   record    what goes to ZDiskPetalsData, and                           *)
(*   extent    from which half length its radial extent is computed        *)
(*   most      the number of sensitive slices beyond which it throws       *)
(*   neighbours  whether NeighbourSurfacesData is filled                   *)
EXTENDS Geometry

\* Every module has a sensitive slice, and the angle between the modules of a ring is
\* the full circle divided by their number.
IsEndcapFile(c) ==
  /\ c.reflect \in BOOLEAN
  /\ \A m \in DOMAIN c.modules :
       /\ IsStack(c.modules[m].slices) /\ SensitiveOf(c.modules[m].slices) # {}
       /\ c.modules[m].halfLength \in Int
  /\ IsList(c.layers) /\ DistinctIds(c.layers)
  /\ \A l \in DOMAIN c.layers :
       /\ IsList(c.layers[l].rings)
       /\ \A i \in DOMAIN c.layers[l].rings :
            LET ring == c.layers[l].rings[i]
            IN /\ ring.nmodules \in Nat /\ ring.nmodules > 0
               /\ ring.module \in DOMAIN c.modules
               /\ ring.r \in Int /\ ring.zstart \in Int /\ ring.dz \in Int

Sides(c) == IF c.reflect THEN {1, -1} ELSE {1}

Ring(c, l, i) == c.layers[l].rings[i]
RingModule(c, l, i) == c.modules[Ring(c, l, i).module]
RingsOf(c) ==
  UNION {{<<l, i>> : i \in DOMAIN c.layers[l].rings} : l \in DOMAIN c.layers}

\* Side, layer, ring, place in the ring and slice of each sensitive volume.
EndcapPlaces(c) ==
  UNION {{<<side, li[1], li[2], k, s>> :
            side \in Sides(c),
            k \in 0..(Ring(c, li[1], li[2]).nmodules - 1),
            s \in SensitiveOf(RingModule(c, li[1], li[2]).slices)} :
         li \in RingsOf(c)}

\* As a bug would have it: mod_num begins anew in every ring.
RestartedInEachRing(c, l, i, k) == 1 + k

\* mod_num, where it goes on through the rings of a layer.
ModuleNumber(c, l, i, k) == 1 + Sum(i - 1, LAMBDA j : Ring(c, l, j).nmodules) + k

\* mod_count of a ring: the modules of that ring in the layers before.
ModuleCount(c, l, i) ==
  Sum(l - 1, LAMBDA m : IF i \in DOMAIN c.layers[m].rings
                        THEN Ring(c, m, i).nmodules ELSE 0)

\* The ids of the volumes around a sensitive slice, taken together.
EndcapIds(c, v, side, l, i, k, s) ==
  LET nr == SensitiveNumber(RingModule(c, l, i).slices, s)
      n == Ring(c, l, i).nmodules
      last == IF v.stagger = "spiral back" /\ side = -1 THEN n - 1 - k ELSE k
  IN Joined(v.side[side],
     CASE v.numbering = "modules" ->
            [layer |-> c.layers[l].id, module |-> ModuleNumber(c, l, i, k),
             sensor |-> nr]
       [] v.numbering = "rings" ->
            [layer |-> c.layers[l].id, module |-> i - 1, sensor |-> last]
       [] v.numbering = "rings and slices" ->
            [layer |-> c.layers[l].id, module |-> i - 1, sensor |-> last,
             slice |-> nr]
       [] v.numbering = "modules of all layers" ->
            [layer |-> i - 1, module |-> ModuleCount(c, l, i) + k,
             sensor |-> nr])

\* The names of the DetElements of the module and of the slice.
EndcapName(c, v, side, l, i, k, s) ==
  <<c.layers[l].id>> \o
  (IF v.numbering = "modules" THEN <<ModuleNumber(c, l, i, k)>>
   ELSE <<i - 1, k>>) \o <<side, s>>

\* How far from zstart a module is: dz changes its sign with each module, or
\* a disk is a spiral, on the other side one in the opposite sense.
Shift(v, side, ring, k) ==
  CASE v.stagger = "alternating" -> IF k % 2 = 0 THEN ring.dz ELSE -ring.dz
    [] v.stagger = "spiral" -> ring.dz * k
    [] v.stagger = "spiral back" ->
         ring.dz * (IF side = 1 THEN k ELSE ring.nmodules - 1 - k)

\* The middle of a module in r, doubled, of a ring at r: r is the middle, or
\* the inner edge, or half the thickness is taken for half the length.
RadialCentre(v, ring, module) ==
  2 * ring.r + CASE v.centre = "r" -> 0
                 [] v.centre = "inner edge" -> 2 * module.halfLength
                 [] v.centre = "half thickness" -> Thickness(module.slices)

EndcapSensor(c, v, side, l, i, k, s) ==
  LET ring == Ring(c, l, i)
      module == RingModule(c, l, i)
      r == RadialCentre(v, ring, module)
  IN [at |-> <<side, l, i, k, s>>,
      ids |-> EndcapIds(c, v, side, l, i, k, s),
      pos |-> side * 2 * (ring.zstart + Shift(v, side, ring, k))
                + v.up[side] * Stacked(module.slices)[s].middle,
      lo |-> r - 2 * module.halfLength, hi |-> r + 2 * module.halfLength,
      thickness |-> module.slices[s].thickness]

\* The radial extent of a ring as innerR and outerR are computed.
RecordedExtent(v, ring, module) ==
  CASE v.extent = "half length" ->
         <<2 * ring.r - 2 * module.halfLength, 2 * ring.r + 2 * module.halfLength>>
    [] v.extent = "half thickness" ->
         <<2 * ring.r - Thickness(module.slices),
           2 * ring.r + Thickness(module.slices)>>
    [] v.extent = "length" -> <<2 * ring.r, 2 * ring.r + 4 * module.halfLength>>

\* As a bug would have it: a layer of several rings recorded by the first of them.
RecordedByTheFirst(c, v, l, i, j) ==
  LET extent == RecordedExtent(v, Ring(c, l, i), RingModule(c, l, i))
  IN [of |-> {p \in EndcapPlaces(c) : p[2] = l /\ p[3] \in i..j},
      lo |-> extent[1], hi |-> extent[2]]

\* The layer of ZDiskPetalsData for the rings from i to j of layer l.
DiskLayer(c, v, l, i, j) ==
  LET extent(m) == RecordedExtent(v, Ring(c, l, m), RingModule(c, l, m))
  IN [of |-> {p \in EndcapPlaces(c) : p[2] = l /\ p[3] \in i..j},
      lo |-> Min({extent(m)[1] : m \in i..j}),
      hi |-> Max({extent(m)[2] : m \in i..j})]

DiskLayers(c, v) ==
  LET rings(l) == Len(c.layers[l].rings)
      ofLayer(l) == CASE v.record = "none" -> <<>>
                      [] v.record \in {"ring", "the only ring"} ->
                           [i \in 1..rings(l) |-> DiskLayer(c, v, l, i, i)]
                      [] v.record = "disk" -> <<DiskLayer(c, v, l, 1, rings(l))>>
  IN FlattenSeq([l \in DOMAIN c.layers |-> ofLayer(l)])

EncodedId(side, layer, module, sensor) ==
  [side |-> side, layer |-> layer, module |-> module, sensor |-> sensor]

\* The steps to the next rings and sensors, in the order of the two loops.
NeighbourSteps ==
  <<<<-1, -1>>, <<-1, 0>>, <<-1, 1>>, <<0, -1>>, <<0, 1>>, <<1, -1>>,
    <<1, 0>>, <<1, 1>>>>

\* The neighbours entered for sensor k of ring i: the encoder keeps the side of
\* the last id made with it, and once the first neighbour has been entered on
\* both sides that is the side of the reflected disk.
EndcapNeighbours(c, l, i, k) ==
  LET layer == c.layers[l].id
      n == Ring(c, l, i).nmodules
      inDisk(step) == i - 1 + step[1] \in 0..(Len(c.layers[l].rings) - 1)
      steps == SelectSeq(NeighbourSteps, inDisk)
      id(side, step) ==
        EncodedId(side, layer, i - 1 + step[1], (k + step[2]) % n)
      kept(j) == IF c.reflect /\ j > 1 THEN -1 ELSE 1
  IN {<<EncodedId(1, layer, i - 1, k), id(kept(j), steps[j])>> :
        j \in DOMAIN steps}
     \cup
     {<<EncodedId(-1, layer, i - 1, k), id(-1, steps[j])>> :
        j \in {m \in DOMAIN steps : c.reflect}}

\* The elements of the layers, where there are any: that of the other side is
\* made whether the disks are reflected or not, and then sits on nothing.
LayerElements(c, v) ==
  {[name |-> <<c.layers[l].id, side>>,
    on |-> IF side \in Sides(c) THEN <<side, l>> ELSE <<>>] :
     l \in {m \in DOMAIN c.layers : v.layerElements}, side \in {1, -1}}

Endcap(c, v) ==
  IF \/ \E m \in DOMAIN c.modules :
          Cardinality(SensitiveOf(c.modules[m].slices)) > v.most
     \/ v.record = "the only ring"
        /\ \E l \in DOMAIN c.layers : Len(c.layers[l].rings) > 1
  THEN Thrown
  ELSE
  [sensors |-> {EndcapSensor(c, v, p[1], p[2], p[3], p[4], p[5]) :
                  p \in EndcapPlaces(c)},
   elements |-> {[name |-> EndcapName(c, v, p[1], p[2], p[3], p[4], p[5]),
                  on |-> p] : p \in EndcapPlaces(c)} \cup LayerElements(c, v),
   stacks |-> {[half |-> Thickness(c.modules[m].slices),
                slices |-> Stacked(c.modules[m].slices)] : m \in DOMAIN c.modules},
   neighbours |->
     IF v.neighbours
     THEN UNION {UNION {EndcapNeighbours(c, li[1], li[2], k) :
                          k \in 0..(Ring(c, li[1], li[2]).nmodules - 1)} :
                 li \in RingsOf(c)}
     ELSE {},
   layers |-> DiskLayers(c, v)]

\* The ids of the two sides, and how the modules are turned: in most the upper
\* end of the stack is the outer one, or the inner one, on both sides.
BarrelId == [side \in {1, -1} |-> [barrel |-> IF side = 1 THEN 1 ELSE 2]]
BarrelAndSide ==
  [side \in {1, -1} |-> IF side = 1 THEN [barrel |-> 1, side |-> 0]
                        ELSE [barrel |-> 2, side |-> 1]]
SideId == [side \in {1, -1} |-> [side |-> side]]
UpperEndOut == [side \in {1, -1} |-> side]
UpperEndIn == [side \in {1, -1} |-> -side]
NotMirrored == [side \in {1, -1} |-> -1]

\* No limit on the sensitive slices of a module.
NoLimit == 100

Variant(side, numbering, up, record) ==
  [side |-> side, numbering |-> numbering, up |-> up, record |-> record,
   stagger |-> "alternating", centre |-> "r", extent |-> "half length",
   most |-> NoLimit, neighbours |-> FALSE, layerElements |-> FALSE]

TrackerEndcap_o1_v01(c) ==
  Endcap(c, [Variant(BarrelId, "modules", UpperEndIn, "ring") EXCEPT !.most = 2])

TrackerEndcap_o1_v02(c) ==
  Endcap(c, Variant(BarrelAndSide, "rings", UpperEndIn, "ring"))

TrackerEndcap_o1_v03(c) ==
  Endcap(c, Variant(BarrelAndSide, "rings", UpperEndOut, "ring"))

TrackerEndcap_o1_v04(c) ==
  Endcap(c, Variant(BarrelAndSide, "rings", UpperEndOut, "disk"))

TrackerEndcap_o1_v05(c) ==
  Endcap(c, [Variant(SideId, "rings", UpperEndOut, "disk")
               EXCEPT !.neighbours = TRUE])

\* From here on the modules are boxes, and r is their inner edge.
TrackerEndcap_o2_v04(c) ==
  Endcap(c, [Variant(BarrelAndSide, "rings", UpperEndOut, "disk")
               EXCEPT !.centre = "inner edge", !.extent = "half thickness"])

TrackerEndcap_o2_v05(c) ==
  Endcap(c, [Variant(SideId, "rings", UpperEndOut, "disk")
               EXCEPT !.centre = "inner edge", !.extent = "half thickness",
                      !.neighbours = TRUE])

TrackerEndcap_o2_v06(c) ==
  Endcap(c, [Variant(SideId, "rings", UpperEndOut, "disk")
               EXCEPT !.centre = "inner edge", !.extent = "length",
                      !.neighbours = TRUE])

TrackerEndcap_o2_v07(c) ==
  Endcap(c, [Variant(SideId, "rings", UpperEndOut, "disk")
               EXCEPT !.centre = "inner edge", !.extent = "length",
                      !.neighbours = TRUE, !.layerElements = TRUE])

SiTrackerEndcap_o2_v01(c) ==
  Endcap(c, [Variant(SideId, "modules", UpperEndIn, "none") EXCEPT !.most = 2])

SiTrackerEndcap_o2_v01ext(c) ==
  Endcap(c, [Variant(SideId, "rings", UpperEndIn, "disk")
               EXCEPT !.centre = "half thickness"])

SiTrackerEndcap_o2_v02(c) ==
  Endcap(c, [Variant(SideId, "rings and slices", NotMirrored, "none")
               EXCEPT !.most = 2])

SiTrackerEndcap_o2_v02ext(c) ==
  Endcap(c, [Variant(SideId, "rings", UpperEndIn, "disk")
               EXCEPT !.centre = "half thickness", !.neighbours = TRUE])

SiTrackerEndcap_o2_v03(c) ==
  Endcap(c, [Variant(SideId, "modules of all layers", NotMirrored, "none")
               EXCEPT !.most = 2])

VertexEndcap_o1_v01(c) ==
  Endcap(c, [Variant(BarrelId, "modules", UpperEndIn, "none")
               EXCEPT !.stagger = "spiral", !.most = 2])

VertexEndcap_o1_v02(c) ==
  Endcap(c, [Variant(BarrelAndSide, "rings", UpperEndIn, "none")
               EXCEPT !.stagger = "spiral", !.most = 1])

VertexEndcap_o1_v03(c) ==
  Endcap(c, [Variant(BarrelAndSide, "rings", UpperEndOut, "none")
               EXCEPT !.stagger = "spiral", !.most = 1])

VertexEndcap_o1_v04(c) ==
  Endcap(c, [Variant(BarrelAndSide, "rings", UpperEndOut, "the only ring")
               EXCEPT !.stagger = "spiral", !.most = 1])

VertexEndcap_o1_v05(c) ==
  Endcap(c, [Variant(SideId, "rings", UpperEndOut, "the only ring")
               EXCEPT !.stagger = "spiral", !.most = 1, !.neighbours = TRUE])

\* The disk of the other side is numbered backwards.
VertexEndcap_o1_v06(c) ==
  Endcap(c, [Variant(SideId, "rings", UpperEndOut, "the only ring")
               EXCEPT !.stagger = "spiral back", !.most = 1])

VertexEndcap_o1_v07(c) ==
  Endcap(c, [Variant(SideId, "rings", UpperEndOut, "the only ring")
               EXCEPT !.stagger = "spiral back", !.most = 1,
                      !.layerElements = TRUE])
=============================================================================
