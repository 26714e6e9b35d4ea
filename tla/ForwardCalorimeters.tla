------------------------- MODULE ForwardCalorimeters -------------------------
(* The constructors of the calorimeters around the beam pipe (LumiCal,     *)
(* BeamCal and LHCal in detector/fcal) and of the prototypes that have     *)
(* been in a test beam (detector/CaloTB): layers of slices, one after the  *)
(* other along the beam.                                                   *)
EXTENDS LayeredCalorimeters

(* The two halves of a forward calorimeter begin at zmin, each along its   *)
(* own axis; the halves are turned by the crossing angle, which is left    *)
(* out. A layer has one sensitive slice ("Avoid dummy layers without       *)
(* sensitive element", as the compact files say): without one, what is in  *)
(* front of its middle would never be recorded. The sensors of the third   *)
(* LumiCal are smaller than its layers: sensorRmin and sensorRmax stand    *)
(* for the radii the code computes by trigonometry. The holes for the      *)
(* incoming beam are left out.                                             *)

IsForwardFile(c) ==
  /\ IsPolygonFile(c) /\ OneSensitive(c)
  /\ {c.sensorRmin, c.sensorRmax} \subseteq Nat

\* Where the sensors reach, the first layer, whether slices have ids, and the halves
\* that are DetElements.
ForwardVariant(reach, layer, sliceIds, halves) ==
  [number |-> CaloVariant(0, layer, FALSE, "front of the layer", "halves"),
   reach |-> reach, sliceIds |-> sliceIds, halves |-> halves]

SliceNumber(v, s, first) == IF v.sliceIds THEN [slice |-> first + s - 1] ELSE <<>>

\* The first half is the one at positive z; the second is turned around.
ForwardSensor(c, v, p) ==
  [at |-> p,
   ids |-> Joined([barrel |-> p[1], layer |-> LayerNumber(v.number, p[2])],
                  SliceNumber(v, p[3], 1)),
   pos |-> Other(2)[p[1]] * (2 * c.zmin + MiddleOf(c, p[2], p[3])),
   lo |-> 2 * v.reach[1], hi |-> 2 * v.reach[2],
   thickness |-> LayersOf(c)[p[2]][p[3]].thickness]

\* Half, layer and slice. The sums of a layer are begun anew for each repetition.
ForwardCalorimeter(c, v) ==
  LET places == PolygonPlaces(c, 2)
  IN [sensors |-> {ForwardSensor(c, v, p) : p \in places},
      elements |-> {[name |-> <<half>>, on |-> <<half>>] : half \in v.halves},
      stacks |-> LayerStacks(c), neighbours |-> {},
      layers |-> [l \in DOMAIN LayersOf(c) |->
                    CaloLayer(c, v.number, c.zmin, l, {p \in places : p[2] = l})]
                 \o <<CaloExtent(places, <<2 * c.zmin, 2 * (c.zmin + TotalThickness(c))>>,
                                 <<2 * v.reach[1], 2 * v.reach[2]>>)>>]

LumiCal_o1_v01(c) ==
  ForwardCalorimeter(c, ForwardVariant(<<c.rmin, c.rmax>>, 0, FALSE, {1, 2}))

\* Every second layer is turned around the axis, which changes neither z nor radius.
LumiCal_o1_v03(c) ==
  ForwardCalorimeter(c, ForwardVariant(<<c.sensorRmin, c.sensorRmax>>, 0, FALSE, {1, 2}))

BeamCal_o1_v01(c) ==
  ForwardCalorimeter(c, ForwardVariant(<<c.rmin, c.rmax>>, 1, TRUE, {1, 2}))

\* This differs from the one before in that layers are assemblies.
BeamCal_o1_v02(c) == BeamCal_o1_v01(c)

\* A box with a hole; rmax is LHCal_outer_radius, half of its width in the compact files.
LHCal(c) == ForwardCalorimeter(c, ForwardVariant(<<c.rmin, c.rmax>>, 1, TRUE, {}))
LHCal_v01(c) == LHCal(c)

-----------------------------------------------------------------------------
(* Prototypes: boxes half as long as zhalf and half as wide as xhalf. The  *)
(* sensors in the first groups of the hadronic one are narrower, as wide   *)
(* as narrow, namely in the groups that begin within the first ssf layers. *)

\* A group's thickness is that of its first layer in Layering: a group without layers
\* would take the next one's.
IsPrototypeFile(c) ==
  /\ IsLayered(c) /\ OneSensitive(c)
  /\ {c.zhalf, c.xhalf, c.narrow, c.ssf} \subseteq Nat
  /\ \A g \in DOMAIN c.groups : c.groups[g].repeat > 0

SSFLayers(c) ==
  LET before(g) == Sum(g - 1, LAMBDA i : c.groups[i].repeat)
  IN {l \in DOMAIN LayersOf(c) :
        \E g \in DOMAIN c.groups : before(g) < c.ssf /\ l <= before(g + 1)}

\* Layers are numbered from 0, whatever the readout calls them, and so are slices.
PrototypeSensor(c, v, p) ==
  LET half == IF p[1] \in v.narrow THEN c.narrow ELSE c.xhalf
  IN [at |-> p,
      ids |-> Joined([layer |-> p[1] - 1], SliceNumber(v, p[2], 0)),
      pos |-> MiddleOf(c, p[1], p[2]) - 2 * c.zhalf,
      lo |-> -2 * half, hi |-> 2 * half,
      thickness |-> LayersOf(c)[p[1]][p[2]].thickness]

\* The layers in the box.
PrototypeStack(c) ==
  [half |-> 2 * c.zhalf,
   slices |-> [l \in DOMAIN LayersOf(c) |->
                 Placed(2 * Depth(c, l) + Thickness(LayersOf(c)[l]) - 2 * c.zhalf,
                        Slice(Thickness(LayersOf(c)[l]), FALSE))]]

\* Layer and slice. No DetElement is added to the detector; there are no layer data.
Prototype(c, v) ==
  LET places == {p \in Layers(c) : p[2] = 1 => p[1] \notin v.absorbersFirst}
  IN [sensors |-> {PrototypeSensor(c, v, p) : p \in places},
      elements |-> {}, stacks |-> GroupStacks(c) \cup {PrototypeStack(c)},
      neighbours |-> {}, layers |-> <<>>]

CaloPrototype_v01(c) ==
  Prototype(c, [sliceIds |-> TRUE, narrow |-> {}, absorbersFirst |-> {}])

\* These differ from the one before in where the name of the layer's id is from.
CaloPrototype_v02(c) == CaloPrototype_v01(c)
CaloPrototype_v03(c) == CaloPrototype_v01(c)

\* The first slice is the absorber, and never made sensitive.
TBecal4d(c) ==
  Prototype(c, [sliceIds |-> FALSE, narrow |-> {}, absorbersFirst |-> DOMAIN LayersOf(c)])

TBhcal4d(c) ==
  Prototype(c, [sliceIds |-> FALSE, narrow |-> SSFLayers(c), absorbersFirst |-> SSFLayers(c)])
=============================================================================
