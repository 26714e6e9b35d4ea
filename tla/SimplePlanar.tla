---------------------------- MODULE SimplePlanar ----------------------------
(* The ladders around the vertex detector and the TPC: SIT_Simple_Pixel,   *)
(* SIT_Simple_Planar and SET_Simple_Planar in detector/tracker.            *)
(*                                                                         *)
(* A compact description c has the layers, each with its id, n ladders     *)
(* around the beam, whether the sensors face the interaction point, their  *)
(* radius (for the SET the distance from the TPC); how long a sensor is,   *)
(* and the thicknesses of the sensors and of the support behind them.      *)
EXTENDS Geometry

\* A ladder has sensors, those of the SET too: what they are to cover is as long as one
\* of them.
IsAroundTPCFile(c) ==
  /\ IsList(c.layers) /\ DistinctIds(c.layers)
  /\ c.thickness \in Nat /\ c.support \in Nat
  /\ c.sensorLength \in Nat /\ c.sensorLength > 0 /\ c.tpcRadius \in Nat
  /\ \A l \in DOMAIN c.layers :
       /\ c.layers[l].facesIP \in BOOLEAN
       /\ {c.layers[l].nladders, c.layers[l].nsensors,
           c.layers[l].distance, c.layers[l].covered} \subseteq Nat
       /\ c.layers[l].nladders > 0 /\ c.layers[l].nsensors > 0
       /\ c.layers[l].covered >= c.sensorLength

\* A layer as it is built, from the radius of its sensors and how many there
\* are in a ladder.
Built(c, l, radius, nsensors) ==
  [id |-> c.layers[l].id, nladders |-> c.layers[l].nladders,
   outwards |-> IF c.layers[l].facesIP THEN 1 ELSE -1,
   radius |-> radius, nsensors |-> nsensors,
   zlength |-> nsensors * c.sensorLength]

\* The ladder's box: the sensors, and the support on the side of its local x.
LadderStack(c) == Stacked(<<Slice(c.thickness, TRUE), Slice(c.support, FALSE)>>)

\* A ladder is placed so that its sensors are where they are said to be, turned
\* when the support is inside.
Ladder(c, layer) ==
  2 * layer.radius + layer.outwards * (c.thickness + c.support - c.thickness)

PlanarSensor(c, layer, p) ==
  [at |-> p,
   ids |-> [layer |-> layer.id, module |-> p[2], sensor |-> p[3]],
   pos |-> Ladder(c, layer) + layer.outwards * LadderStack(c)[1].middle,
   lo |-> -layer.zlength + 2 * p[3] * c.sensorLength,
   hi |-> -layer.zlength + 2 * (p[3] + 1) * c.sensorLength,
   thickness |-> c.thickness]

PlanarPlaces(layers) ==
  UNION {{<<l, i, s>> : i \in 0..(layers[l].nladders - 1),
                        s \in 0..(layers[l].nsensors - 1)} : l \in DOMAIN layers}

\* ZPlanarData has the inner face of the sensors.
LadderRecord(c, layer, of) ==
  LET distanceSensitive == 2 * layer.radius - c.thickness
  IN [of |-> of, middle |-> distanceSensitive + c.thickness,
      thickness |-> c.thickness, lo |-> -layer.zlength, hi |-> layer.zlength]

SimplePlanar(c, layers) ==
  LET places == PlanarPlaces(layers)
  IN [sensors |-> {PlanarSensor(c, layers[p[1]], p) : p \in places},
      elements |-> {[name |-> <<layers[p[1]].id, p[2], p[3]>>, on |-> p] : p \in places},
      stacks |-> {[half |-> c.thickness + c.support, slices |-> LadderStack(c)]},
      neighbours |-> {},
      layers |-> [l \in DOMAIN layers |->
                    LadderRecord(c, layers[l], {p \in places : p[1] = l})]]

SIT_Simple_Pixel(c) ==
  SimplePlanar(c, [l \in DOMAIN c.layers |->
                     Built(c, l, c.layers[l].distance, c.layers[l].nsensors)])

SIT_Simple_Planar(c) ==
  SimplePlanar(c, [l \in DOMAIN c.layers |->
                     Built(c, l, c.layers[l].distance, c.layers[l].nsensors)])

\* As many sensors on either side of the middle as the part of the TPC to be
\* covered has room for.
SET_Simple_Planar(c) ==
  SimplePlanar(c, [l \in DOMAIN c.layers |->
                     Built(c, l, c.tpcRadius + c.layers[l].distance,
                           2 * (c.layers[l].covered \div c.sensorLength))])
=============================================================================
