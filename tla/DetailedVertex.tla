--------------------------- MODULE DetailedVertex ---------------------------
(* The constructors of vertex detectors described in detail, in            *)
(* detector/tracker: VertexBarrel_detailed and VertexEndcap_detailed (the  *)
(* first one declared as VertexDisks_detailed).                            *)
(*                                                                         *)
(* A sensor kind lists the components of a module: each is sensitive or    *)
(* not, flat or bent out of nsegments flat ones, has insensitive material  *)
(* of thickness below and above, and all of them are placed nx times. For  *)
(* few bits in the cell ids, grouping modules share a module id, and their *)
(* sensors are numbered one module after the other.                        *)
(* What is the same for all sensors of a detector (system, and in a barrel *)
(* side) is left out of the ids; components that are supports, where       *)
(* around the beam and along a ladder something is, and layers and staves  *)
(* marked to be ignored are left out.                                      *)
EXTENDS TrackerBarrels, TrackerEndcaps

\* Where the sensitive volumes of a module are: copy, component and segment.
SensorPlaces(kind) ==
  UNION {{<<x, i, g>> : x \in 0..(kind.nx - 1),
                        g \in 0..(kind.components[i].nsegments - 1)} :
         i \in SensitiveOf(kind.components)}

\* How many sensors are placed in the module before the one at q.
SensorsBefore(kind, q) == Cardinality({r \in SensorPlaces(kind) : Before(r, q)})

\* nSensitivePerModule: a component counts once however often it is placed.
SensitivePerModule(kind) == Cardinality(SensitiveOf(kind.components))

IsKind(kind) ==
  /\ kind.grouping \in Nat /\ kind.grouping > 0 /\ kind.nx \in Nat
  /\ IsStack(kind.components)
  /\ \A i \in DOMAIN kind.components :
       /\ kind.components[i].nsegments \in Nat /\ kind.components[i].thickness > 0
       /\ {kind.components[i].below, kind.components[i].above} \subseteq Nat

\* As they come in one piece, once.
IsPlain(kind) ==
  /\ kind.nx = 1 /\ kind.grouping = 1
  /\ \A i \in DOMAIN kind.components :
       /\ kind.components[i].nsegments = 1
       /\ {kind.components[i].below, kind.components[i].above} = {0}

\* Modules in one group have ids for all sensors of each of them.
Alike(kinds) ==
  \A a, b \in kinds :
    /\ a.grouping = b.grouping
    /\ a.grouping > 1 =>
         /\ SensitivePerModule(a) = SensitivePerModule(b)
         /\ SensitivePerModule(a) = Cardinality(SensorPlaces(a))

\* The ids of module number n and its sensor s: of the group, and in it.
GroupIds(kind, n, s) ==
  [module |-> n \div kind.grouping,
   sensor |-> (n % kind.grouping) * SensitivePerModule(kind) + s]

\* The parts of a component, one behind the other: below, sensor, above.
SplitSensor(component) ==
  LET parts == <<Slice(component.below, FALSE),
                 Slice(component.thickness, component.sensitive),
                 Slice(component.above, FALSE)>>
  IN [half |-> Thickness(parts), slices |-> Stacked(parts)]

SplitSensors(kinds) ==
  UNION {{SplitSensor(kind.components[i]) : i \in DOMAIN kind.components} : kind \in kinds}

-----------------------------------------------------------------------------
(* The barrels. A layer has nladders ladders of one stave, which has       *)
(* nmodules modules for each of the stave's sensor kinds.                  *)

IsDetailedBarrelFile(c) ==
  /\ \A m \in DOMAIN c.staves :
       /\ IsList(c.staves[m].sensors)
       /\ \A k \in DOMAIN c.staves[m].sensors : IsKind(c.staves[m].sensors[k])
  /\ IsList(c.layers)
  /\ \A l \in DOMAIN c.layers :
       /\ c.layers[l].stave \in DOMAIN c.staves
       /\ c.layers[l].nladders \in Nat /\ c.layers[l].nmodules \in Nat

StaveKinds(c, l) == c.staves[c.layers[l].stave].sensors

\* Ladder, sensor kind and place along the ladder of each module of a layer.
ModulePlaces(c, l) ==
  {<<s, k, m>> : s \in 0..(c.layers[l].nladders - 1), k \in DOMAIN StaveKinds(c, l),
                 m \in 0..(c.layers[l].nmodules - 1)}

KindAt(c, p) == StaveKinds(c, p[1])[p[2][2]]

\* Layer, module in it, and sensor in the module.
LadderSensorPlaces(c) ==
  UNION {UNION {{<<l, w, q>> : q \in SensorPlaces(StaveKinds(c, l)[w[2]])} :
                w \in ModulePlaces(c, l)} : l \in DOMAIN c.layers}

\* iModuleTot_map for one layer id: each layer adds the number its last module
\* has come to, which begins with what had been added before.
AddedUp(c, id) ==
  LET added[l \in 0..Len(c.layers)] ==
        IF l = 0 THEN 0
        ELSE IF c.layers[l].id = id
             THEN added[l - 1] + (added[l - 1] + Cardinality(ModulePlaces(c, l)))
             ELSE added[l - 1]
  IN added

\* The number of a layer's first module: counted on through the detector, or
\* through the layers with its id.
FirstModule(c, v, l) ==
  IF v = "detector" THEN Sum(l - 1, LAMBDA e : Cardinality(ModulePlaces(c, e)))
  ELSE AddedUp(c, c.layers[l].id)[l - 1]

LadderModule(c, v, p) ==
  FirstModule(c, v, p[1]) + Cardinality({w \in ModulePlaces(c, p[1]) : Before(w, p[2])})

LadderIds(c, v, p) ==
  LET sensor == SensorsBefore(KindAt(c, p), p[3])
  IN Joined([layer |-> c.layers[p[1]].id],
            CASE v = "ladder" -> [stave |-> p[2][1], module |-> p[2][3], sensor |-> sensor]
              [] v = "detector" -> [module |-> LadderModule(c, v, p), sensor |-> sensor]
              [] v = "group" -> GroupIds(KindAt(c, p), LadderModule(c, v, p), sensor))

\* Layers with the same id have DetElements told apart by the side, or counted.
LayerCopy(c, l) == Cardinality({m \in 1..l : c.layers[m].id = c.layers[l].id})

LadderName(c, v, p) ==
  LET id == c.layers[p[1]].id
      sensor == LadderIds(c, v, p).sensor
  IN CASE v = "ladder" -> <<id, p[2][1], p[2][3], sensor>>
       [] v = "detector" -> <<id, c.layers[p[1]].side, p[2][1], p[2][3], sensor>>
       [] v = "group" ->
            <<id, LayerCopy(c, p[1]), p[2][1], LadderModule(c, v, p), sensor>>

DetailedBarrel(c, v) ==
  [sensors |-> {[at |-> p, ids |-> LadderIds(c, v, p)] : p \in LadderSensorPlaces(c)},
   elements |-> {[name |-> LadderName(c, v, p), on |-> p] : p \in LadderSensorPlaces(c)},
   stacks |-> UNION {SplitSensors(Range(c.staves[m].sensors)) : m \in DOMAIN c.staves},
   neighbours |-> {}, layers |-> <<>>]

VertexBarrel_detailed_o1_v01(c) == DetailedBarrel(c, "ladder")
VertexBarrel_detailed_o1_v02(c) == DetailedBarrel(c, "detector")
VertexBarrel_detailed_o1_v03(c) == DetailedBarrel(c, "group")

-----------------------------------------------------------------------------
(* The endcaps. A layer is a disk of nphi petals, or of rings: a stave     *)
(* with nphi of its own goes around the beam alone. Every other petal or   *)
(* copy is dz, every other module of a stave the stave's dz further out.   *)

IsDetailedEndcapFile(c) ==
  /\ c.reflect \in BOOLEAN
  /\ \A m \in DOMAIN c.modules :
       /\ IsKind(c.modules[m]) /\ c.modules[m].nx = 1 /\ c.modules[m].z \in Int
       /\ \A i \in DOMAIN c.modules[m].components :
            /\ c.modules[m].components[i].z \in Int
            /\ c.modules[m].components[i].nsegments = 1
  /\ IsList(c.layers) /\ DistinctIds(c.layers)
  /\ \A l \in DOMAIN c.layers :
       /\ {c.layers[l].z, c.layers[l].dz} \subseteq Int
       /\ {c.layers[l].nphi, c.layers[l].motherVolThickness} \subseteq Nat
       /\ IsList(c.layers[l].staves)
       /\ \A k \in DOMAIN c.layers[l].staves :
            /\ c.layers[l].staves[k].module \in DOMAIN c.modules
            /\ {c.layers[l].staves[k].nphi, c.layers[l].staves[k].nmodules} \subseteq Nat
            /\ c.layers[l].staves[k].nphi = 1 \/ c.layers[l].nphi = 1
            /\ {c.layers[l].staves[k].z, c.layers[l].staves[k].dz} \subseteq Int

DiskKind(c, l, k) == c.modules[c.layers[l].staves[k].module]

\* Petal, stave, copy of the stave and place along it of each module of a disk.
DiskModules(layer) ==
  UNION {{<<petal, k, j, m>> : petal \in 0..(layer.nphi - 1),
                               j \in 0..(layer.staves[k].nphi - 1),
                               m \in 0..(layer.staves[k].nmodules - 1)} :
         k \in DOMAIN layer.staves}

\* Side, disk, module on it, and sensor in the module.
DiskSensorPlaces(c) ==
  UNION {UNION {{<<side, l, w, q>> : side \in Sides(c),
                                     q \in SensorPlaces(DiskKind(c, l, w[2]))} :
                w \in DiskModules(c.layers[l])} : l \in DOMAIN c.layers}

DiskModule(c, p) ==
  Cardinality({w \in DiskModules(c.layers[p[2]]) : Before(w, p[3])})

DiskIds(c, v, p) ==
  LET kind == DiskKind(c, p[2], p[3][2])
      sensor == SensorsBefore(kind, p[4])
  IN Joined([side |-> p[1], layer |-> c.layers[p[2]].id],
            CASE v = "petal" -> [petal |-> p[3][1], stave |-> p[3][2] - 1,
                                 module |-> p[3][4], sensor |-> sensor]
              [] v = "disk" -> [module |-> DiskModule(c, p), sensor |-> sensor]
              [] v = "group" -> GroupIds(kind, DiskModule(c, p), sensor))

DiskSensorName(c, v, p) ==
  <<p[1], c.layers[p[2]].id, p[3][1], p[3][2],
    IF v = "group" THEN DiskModule(c, p) ELSE p[3][4],
    DiskIds(c, v, p).sensor>>

\* How far from the middle of the detector a sensor is, doubled: the second version
\* leaves the petals in the middle of the disk's volume.
SensorDepth(c, v, p) ==
  LET layer == c.layers[p[2]]
      stave == layer.staves[p[3][2]]
      kind == DiskKind(c, p[2], p[3][2])
      component == kind.components[p[4][2]]
  IN 2 * (layer.z + (IF (p[3][1] + p[3][3]) % 2 = 0 THEN 0 ELSE layer.dz)
            + stave.z + (IF p[3][4] % 2 = 0 THEN 0 ELSE stave.dz)
            + kind.z + component.z + component.below)
       + component.thickness + (IF v = "disk" THEN layer.motherVolThickness ELSE 0)

DetailedEndcap(c, v) ==
  [sensors |-> {[at |-> p, ids |-> DiskIds(c, v, p), pos |-> p[1] * SensorDepth(c, v, p)] :
                  p \in DiskSensorPlaces(c)},
   elements |-> {[name |-> DiskSensorName(c, v, p), on |-> p] : p \in DiskSensorPlaces(c)},
   stacks |-> SplitSensors({c.modules[m] : m \in DOMAIN c.modules}),
   neighbours |-> {}, layers |-> <<>>]

VertexDisks_detailed_o1_v01(c) == DetailedEndcap(c, "petal")
VertexEndcap_detailed_o1_v02(c) == DetailedEndcap(c, "disk")
VertexEndcap_detailed_o1_v03(c) == DetailedEndcap(c, "group")
=============================================================================
