--------------------------- MODULE TrackerBarrels ---------------------------
(* The constructors of silicon barrels and of the straw tube tracker in    *)
(* detector/tracker.                                                       *)
(*                                                                         *)
(* A compact description c of the barrels of modules has the modules, each *)
(* a stack of slices, and the layers: nphi staves (modules of the readout) *)
(* around the beam, every other one dr further out, in each nz sensors from*)
(* -z0 to z0, every other one zdr further out. The variant v says          *)
(*   stacking  where the slices are in a module                            *)
(*   numbering how sensors are numbered                                    *)
(*   record    how far ZPlanarData says the sensors reach in z             *)
(*   neighbours  whether NeighbourSurfacesData is filled                   *)
(* What is placed at a radius r in a stave looks outwards with its local z.*)
EXTENDS Geometry

\* The sensors of a stave are whole units of length apart, and one that is alone is in
\* the middle.
IsBarrelFile(c) ==
  /\ \A m \in DOMAIN c.modules :
       IsStack(c.modules[m].slices) /\ c.modules[m].halfLength \in Int
  /\ IsList(c.layers) /\ DistinctIds(c.layers)
  /\ \A l \in DOMAIN c.layers :
       /\ c.layers[l].module \in DOMAIN c.modules
       /\ c.layers[l].nphi \in Nat /\ c.layers[l].nphi > 1
       /\ c.layers[l].nz \in Nat /\ c.layers[l].nz > 0
       /\ c.layers[l].rc \in Int /\ c.layers[l].z0 \in Nat
       /\ IF c.layers[l].nz = 1 THEN c.layers[l].z0 = 0
          ELSE (2 * c.layers[l].z0) % (c.layers[l].nz - 1) = 0

Layer(c, l) == c.layers[l]
LayerModule(c, l) == c.modules[Layer(c, l).module]

\* Layer, stave, place in the stave and component of each sensitive volume.
BarrelPlaces(c) ==
  UNION {{<<l, ii, j, s>> : ii \in 0..(Layer(c, l).nphi - 1),
                            j \in 0..(Layer(c, l).nz - 1),
                            s \in SensitiveOf(LayerModule(c, l).slices)} :
         l \in DOMAIN c.layers}

\* The slices of a module where they are: the first one innermost, or
\* outermost, or each where the compact description says.
ModuleStack(v, module) ==
  CASE v.stacking = "first innermost" -> Stacked(module.slices)
    [] v.stacking = "first outermost" ->
         [i \in DOMAIN module.slices |->
            Placed(-Stacked(module.slices)[i].middle, module.slices[i])]
    [] v.stacking = "given" ->
         [i \in DOMAIN module.slices |->
            Placed(module.slices[i].middle, module.slices[i])]

\* The thickness of a module, given only where the slices' places are.
Room(v, module) ==
  IF v.stacking = "given" THEN module.thickness ELSE Thickness(module.slices)

ZIncrement(layer) == IF layer.nz > 1 THEN (2 * layer.z0) \div (layer.nz - 1) ELSE 0

\* The number of a sensor in the layer, where the staves are not counted.
BarrelIds(c, v, l, ii, j, s) ==
  CASE v.numbering = "modules" ->
         [layer |-> Layer(c, l).id, module |-> 1 + ii * Layer(c, l).nz + j,
          sensor |-> SensitiveNumber(LayerModule(c, l).slices, s)]
    [] v.numbering = "staves" ->
         [layer |-> Layer(c, l).id, module |-> ii, sensor |-> j]

BarrelName(c, v, l, ii, j, s) ==
  <<Layer(c, l).id>> \o
  (IF v.numbering = "modules" THEN <<1 + ii * Layer(c, l).nz + j>> ELSE <<ii, j>>)
  \o <<s>>

\* The radius of a stave's middle; dr changes its sign after each stave.
StaveRadius(layer, ii) == layer.rc + (IF ii % 2 = 0 THEN 0 ELSE layer.dr)

BarrelSensor(c, v, l, ii, j, s) ==
  LET layer == Layer(c, l)
      module == LayerModule(c, l)
      z == -layer.z0 + j * ZIncrement(layer)
  IN [at |-> <<l, ii, j, s>>,
      ids |-> BarrelIds(c, v, l, ii, j, s),
      pos |-> 2 * (StaveRadius(layer, ii) + (IF j % 2 = 0 THEN 0 ELSE layer.zdr))
                + ModuleStack(v, module)[s].middle,
      lo |-> 2 * (z - module.halfLength), hi |-> 2 * (z + module.halfLength),
      thickness |-> module.slices[s].thickness]

\* What ZPlanarData is told of a layer, of its first sensitive slice at the
\* first place in the first stave.
PlanarLayer(c, v, l) ==
  LET layer == Layer(c, l)
      module == LayerModule(c, l)
      s == Min(SensitiveOf(module.slices))
      zHalf == module.halfLength + (IF v.record = "sensor" THEN 0 ELSE layer.z0)
  IN [of |-> {p \in BarrelPlaces(c) : p[1] = l},
      middle |-> 2 * layer.rc + ModuleStack(v, module)[s].middle,
      thickness |-> module.slices[s].thickness,
      lo |-> -2 * zHalf, hi |-> 2 * zHalf]

\* A cell id as the encoder of a barrel makes it.
BarrelCell(layer, module, sensor) ==
  [layer |-> layer, module |-> module, sensor |-> sensor]

\* As a bug would have it: the first stave has none before it.
NeighboursNotAround(layer, ii, j) ==
  {<<BarrelCell(layer.id, ii, j), BarrelCell(layer.id, ii + d[1], j + d[2])>> :
     d \in {e \in ((-1..1) \X (-1..1)) \ {<<0, 0>>} :
              j + e[2] \in 0..(layer.nz - 1) /\ ii + e[1] \in 0..(layer.nphi - 1)}}

\* The neighbours entered for sensor j of stave ii. Staves are counted around
\* the beam; there is nothing beyond the ends of one.
BarrelNeighbours(layer, ii, j) ==
  LET module(n) == IF n < 0 THEN layer.nphi + n
                   ELSE IF n >= layer.nphi THEN n - layer.nphi ELSE n
  IN {<<BarrelCell(layer.id, ii, j), BarrelCell(layer.id, module(ii + d[1]), j + d[2])>> :
        d \in {e \in ((-1..1) \X (-1..1)) \ {<<0, 0>>} :
                 j + e[2] \in 0..(layer.nz - 1)}}

Barrel(c, v) ==
  [sensors |-> {BarrelSensor(c, v, p[1], p[2], p[3], p[4]) : p \in BarrelPlaces(c)},
   elements |-> {[name |-> BarrelName(c, v, p[1], p[2], p[3], p[4]), on |-> p] :
                   p \in BarrelPlaces(c)},
   stacks |-> {[half |-> Room(v, c.modules[m]),
                slices |-> ModuleStack(v, c.modules[m])] : m \in DOMAIN c.modules},
   neighbours |->
     IF v.neighbours
     THEN UNION {UNION {BarrelNeighbours(Layer(c, l), ii, j) :
                          ii \in 0..(Layer(c, l).nphi - 1),
                          j \in 0..(Layer(c, l).nz - 1)} : l \in DOMAIN c.layers}
     ELSE {},
   layers |-> [l \in DOMAIN c.layers |-> PlanarLayer(c, v, l)]]

BarrelVariant(stacking, numbering, record, neighbours) ==
  [stacking |-> stacking, numbering |-> numbering, record |-> record,
   neighbours |-> neighbours]

VertexBarrel_o1_v01(c) ==
  Barrel(c, BarrelVariant("given", "modules", "sensor", FALSE))

TrackerBarrel_o1_v01(c) ==
  Barrel(c, BarrelVariant("given", "staves", "stave", FALSE))

TrackerBarrel_o1_v02(c) ==
  Barrel(c, BarrelVariant("first outermost", "staves", "stave", FALSE))

TrackerBarrel_o1_v03(c) ==
  Barrel(c, BarrelVariant("first innermost", "staves", "stave", TRUE))

TrackerBarrel_o1_v04(c) ==
  Barrel(c, BarrelVariant("first innermost", "staves", "stave", TRUE))

TrackerBarrel_o1_v05(c) ==
  Barrel(c, BarrelVariant("first innermost", "staves", "stave", TRUE))

\* The staves of a layer are copies of one stave, in which the sensors are
\* placed from z0 to -z0 along what becomes -z when the stave is turned.
TrackerBarrel_o1_v06(c) ==
  Barrel(c, BarrelVariant("first innermost", "staves", "stave", FALSE))

-----------------------------------------------------------------------------
(* ZPlanarTracker and ZSegmentedPlanarTracker: ladders with a row of flat  *)
(* sensors. A layer has the id, nphi ladders, and of the sensitive part of *)
(* a ladder the distance, thickness and zhalf; nz sensors share it.        *)

\* The sensors of a ladder are whole units of length long.
IsLadderFile(c) ==
  /\ IsList(c.layers) /\ DistinctIds(c.layers)
  /\ \A l \in DOMAIN c.layers :
       /\ c.layers[l].nphi \in Nat /\ c.layers[l].nphi > 0
       /\ c.layers[l].nz \in Nat /\ c.layers[l].nz > 0
       /\ c.layers[l].sensitive.zhalf \in Nat
       /\ (4 * c.layers[l].sensitive.zhalf) % c.layers[l].nz = 0

LadderPlaces(c, nz) ==
  UNION {{<<l, j, s>> : j \in 0..(Layer(c, l).nphi - 1),
                        s \in 0..(nz[l] - 1)} : l \in DOMAIN c.layers}

LadderSensor(c, nz, l, j, s) ==
  LET layer == Layer(c, l)
      length == (4 * layer.sensitive.zhalf) \div nz[l]
      lo == -2 * layer.sensitive.zhalf + length * s
  IN [at |-> <<l, j, s>>,
      ids |-> BarrelCell(layer.id, j, s),
      pos |-> 2 * layer.sensitive.distance + layer.sensitive.thickness,
      lo |-> lo, hi |-> lo + length,
      thickness |-> layer.sensitive.thickness]

LadderLayer(c, nz, l) ==
  LET sensitive == Layer(c, l).sensitive
  IN [of |-> {p \in LadderPlaces(c, nz) : p[1] = l},
      middle |-> 2 * sensitive.distance + sensitive.thickness,
      thickness |-> sensitive.thickness,
      lo |-> -2 * sensitive.zhalf, hi |-> 2 * sensitive.zhalf]

Ladders(c, nz, neighbours) ==
  [sensors |-> {LadderSensor(c, nz, p[1], p[2], p[3]) : p \in LadderPlaces(c, nz)},
   elements |-> {[name |-> <<c.layers[p[1]].id, p[2], p[3]>>, on |-> p] :
                   p \in LadderPlaces(c, nz)},
   stacks |-> {}, neighbours |-> neighbours,
   layers |-> [l \in DOMAIN c.layers |-> LadderLayer(c, nz, l)]]

\* Every ladder is entered under the number of ladders, which none has.
LadderNeighbours(layer) ==
  {<<BarrelCell(layer.id, layer.nphi, 0), BarrelCell(layer.id, n, 0)>> :
     n \in {layer.nphi - 1, 1}}

ZPlanarTracker(c) ==
  Ladders(c, [l \in DOMAIN c.layers |-> 1],
          UNION {LadderNeighbours(Layer(c, l)) : l \in DOMAIN c.layers})

ZSegmentedPlanarTracker(c) ==
  Ladders(c, [l \in DOMAIN c.layers |-> Layer(c, l).nz], {})

-----------------------------------------------------------------------------
(* TkLayoutTrackerBarrel and TkLayoutTrackerEndcap, from the layout of     *)
(* tkLayout. A layer of the barrel has nphi, the lists of the modules of   *)
(* its rods (each [r, z]), placed for every other of the nphi steps, the   *)
(* components of a module and half its length. A disc of the endcap has    *)
(* its rings [nmodules, zEven, zOdd, slices], or none if it repeats the    *)
(* last one.                                                               *)

IsRodFile(c) ==
  /\ IsList(c.layers)
  /\ \A l \in DOMAIN c.layers :
       /\ IsStack(c.layers[l].slices) /\ c.layers[l].nphi \in Nat
       /\ IsList(c.layers[l].rods)
       /\ \A rod \in DOMAIN c.layers[l].rods : IsList(c.layers[l].rods[rod])

\* Component, step, rod list and module in the list.
RodPlaces(layer) ==
  UNION {{<<s, phi, rod, m>> : s \in DOMAIN layer.slices,
                               phi \in {k \in 0..(layer.nphi - 1) : k % 2 = 0},
                               m \in DOMAIN layer.rods[rod]} :
         rod \in DOMAIN layer.rods}

\* Whether place p comes before q in the order of the loops.
Before(p, q) ==
  \E i \in DOMAIN p : p[i] < q[i] /\ \A j \in 1..(i - 1) : p[j] = q[j]

\* The number of a module counts the sensitive placements so far in the layer.
RodModule(layer, p) ==
  Cardinality({q \in RodPlaces(layer) : layer.slices[q[1]].sensitive /\ Before(q, p)})

\* The layer, and where in it a sensitive component is.
SensitiveRodPlaces(c) ==
  UNION {{<<l, p[1], p[2], p[3], p[4]>> :
            p \in {q \in RodPlaces(Layer(c, l)) : Layer(c, l).slices[q[1]].sensitive}} :
         l \in DOMAIN c.layers}

RodNumber(c, p) == RodModule(Layer(c, p[1]), <<p[2], p[3], p[4], p[5]>>)

\* The first component of a module is the outermost one.
RodSensor(c, p) ==
  LET module == Layer(c, p[1]).rods[p[4]][p[5]]
  IN [at |-> p, ids |-> [layer |-> p[1] - 1, module |-> RodNumber(c, p)],
      pos |-> 2 * module.r - Stacked(Layer(c, p[1]).slices)[p[2]].middle,
      lo |-> 2 * (module.z - Layer(c, p[1]).halfLength),
      hi |-> 2 * (module.z + Layer(c, p[1]).halfLength),
      thickness |-> Layer(c, p[1]).slices[p[2]].thickness]

TkLayoutTrackerBarrel_o1_v01(c) ==
  [sensors |-> {RodSensor(c, p) : p \in SensitiveRodPlaces(c)},
   elements |-> {[name |-> <<p[1] - 1, RodNumber(c, p)>>, on |-> p] :
                   p \in SensitiveRodPlaces(c)},
   stacks |-> {[half |-> Thickness(Layer(c, l).slices),
                slices |-> Stacked(Layer(c, l).slices)] : l \in DOMAIN c.layers},
   neighbours |-> {}, layers |-> <<>>]

\* There is a disc to be repeated.
IsDiscFile(c) ==
  /\ IsList(c.discs) /\ c.discs # <<>> /\ c.discs[1].rings # <<>>
  /\ \A d \in DOMAIN c.discs :
       /\ c.discs[d].z \in Int /\ IsList(c.discs[d].rings)
       /\ \A i \in DOMAIN c.discs[d].rings :
            /\ IsStack(c.discs[d].rings[i].slices)
            /\ c.discs[d].rings[i].nmodules \in Nat
            /\ {c.discs[d].rings[i].zEven, c.discs[d].rings[i].zOdd} \subseteq Int

\* The disc whose volume is placed as disc d.
DiscVolume(c, d) == Max({e \in 1..d : c.discs[e].rings # <<>>})

\* Ring, component and step of the placements in the volume of a disc.
RingPlaces(disc) ==
  UNION {{<<i, s, k>> : s \in SensitiveOf(disc.rings[i].slices),
                        k \in 0..(disc.rings[i].nmodules - 1)} :
         i \in DOMAIN disc.rings}

\* compCounter goes on through all discs.
Component(c, d, p) ==
  Sum(d - 1, LAMBDA e : Cardinality(RingPlaces(c.discs[e])))
    + Cardinality({q \in RingPlaces(c.discs[d]) : Before(q, p)})

\* The side, the disc, and where in it a sensitive component is.
DiscPlaces(c) ==
  UNION {{<<side, d, p[1], p[2], p[3]>> :
            side \in {0, 1}, p \in RingPlaces(c.discs[DiscVolume(c, d)])} :
         d \in DOMAIN c.discs}

DiscNumber(c, p) == Component(c, DiscVolume(c, p[2]), <<p[3], p[4], p[5]>>)

ComponentSensor(c, p) ==
  LET ring == c.discs[DiscVolume(c, p[2])].rings[p[3]]
      z == c.discs[p[2]].z + (IF p[5] % 2 = 0 THEN ring.zEven ELSE ring.zOdd)
  IN [at |-> p,
      ids |-> [posneg |-> p[1], disc |-> p[2] - 1, component |-> DiscNumber(c, p)],
      pos |-> (IF p[1] = 0 THEN 1 ELSE -1) * (2 * z + Stacked(ring.slices)[p[4]].middle),
      lo |-> 2 * (ring.r - ring.halfLength), hi |-> 2 * (ring.r + ring.halfLength),
      thickness |-> ring.slices[p[4]].thickness]

TkLayoutTrackerEndcap_o1_v01(c) ==
  [sensors |-> {ComponentSensor(c, p) : p \in DiscPlaces(c)},
   elements |-> {[name |-> <<p[1], p[2] - 1, DiscNumber(c, p)>>, on |-> p] :
                   p \in DiscPlaces(c)},
   stacks |-> UNION {{[half |-> Thickness(c.discs[d].rings[i].slices),
                       slices |-> Stacked(c.discs[d].rings[i].slices)] :
                        i \in DOMAIN c.discs[d].rings} : d \in DOMAIN c.discs},
   neighbours |-> {}, layers |-> <<>>]
=============================================================================
