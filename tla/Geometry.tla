------------------------------ MODULE Geometry ------------------------------
(* What the constructors of all detectors take from DD4hep: stacks of      *)
(* slices, volumes placed with ids, DetElements with names and placements. *)
(*                                                                         *)
(* A constructor is an operator from its compact description to a record   *)
(*   sensors     the sensitive volumes of the finished geometry. Each has  *)
(*               the place it is at (the choices of the loops that placed  *)
(*               the volumes around it), the ids of those volumes together,*)
(*               the position pos of its middle across it (a radius or a   *)
(*               z), where it begins and ends along it (lo and hi, a z or  *)
(*               a radius), and its thickness                              *)
(*   elements    the DetElements of those volumes: name and the place of   *)
(*               the volume they have been given as placement              *)
(*   stacks      the boxes filled with slices: half the room there is, and *)
(*               the slices as placed                                      *)
(*   neighbours  the pairs of cell ids in NeighbourSurfacesData            *)
(*   layers      the layers of the reconstruction data: the places they    *)
(*               are of, and what is said of the sensors there             *)
(* Lengths are integers; all positions are doubled, so that the middle of  *)
(* a slice is one too.                                                     *)
EXTENDS Integers, FiniteSets, SequencesExt

\* A slice of a stack: its thickness, and whether it is sensitive.
Slice(t, s) == [thickness |-> t, sensitive |-> s]

\* What a compact description lists, in its order; and layers that are told apart by
\* their ids.
IsList(s) == s \in Seq(Range(s))

DistinctIds(layers) ==
  \A l, m \in DOMAIN layers : layers[l].id = layers[m].id => l = m

\* The slices of a stack as they are in a compact description.
IsStack(slices) ==
  /\ IsList(slices)
  /\ \A i \in DOMAIN slices :
       slices[i].thickness \in Nat /\ slices[i].sensitive \in BOOLEAN

\* What the first i of the terms are together.
Sums(terms) ==
  LET sum[i \in 0..Len(terms)] == IF i = 0 THEN 0 ELSE sum[i - 1] + terms[i]
  IN sum

Total(terms) == Sums(terms)[Len(terms)]

\* The fields of two records together.
Joined(r, s) ==
  [f \in DOMAIN r \cup DOMAIN s |-> IF f \in DOMAIN r THEN r[f] ELSE s[f]]

Sum(n, Term(_)) == Total([i \in 1..n |-> Term(i)])

Thicknesses(slices) == [i \in DOMAIN slices |-> slices[i].thickness]

Thickness(slices) == Total(Thicknesses(slices))

\* What lies below slice i of a stack that is built from its lower end.
Below(slices, i) == Sums(Thicknesses(slices))[i - 1]

SensitiveOf(slices) == {i \in DOMAIN slices : slices[i].sensitive}

\* The number of slice i among the sensitive ones, from 1.
SensitiveNumber(slices, i) ==
  Cardinality({j \in SensitiveOf(slices) : j <= i})

\* A slice where it has been placed: doubled middle, thickness.
Placed(middle, slice) == [middle |-> middle, thickness |-> slice.thickness]

\* The slices of a stack, one after the other, in a volume as thick as they
\* are together: doubled, from the middle of the volume.
Stacked(slices) ==
  [i \in DOMAIN slices |->
     Placed(2 * Below(slices, i) + slices[i].thickness - Thickness(slices),
            slices[i])]

\* A constructor that throws leaves nothing behind.
Thrown ==
  [sensors |-> {}, elements |-> {}, stacks |-> {}, neighbours |-> {},
   layers |-> <<>>]
=============================================================================
