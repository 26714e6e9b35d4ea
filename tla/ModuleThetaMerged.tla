------------------------- MODULE ModuleThetaMerged -------------------------
(***************************************************************************)
(* The cells of a calorimeter barrel whose modules and theta bins are      *)
(* merged in numbers that differ from layer to layer, and the two searches *)
(* for the neighbours of a cell.                                           *)
(*   FCCSWGridModuleThetaMerged_k4geo.cpp: cellID                          *)
(*   DetUtils_k4geo.cpp: cyclicNeighbour, neighbours_ModuleThetaMerged     *)
(*   xtalk_neighbors_moduleThetaMergedSegmentation.cpp:                    *)
(*     getNeighboursModuleThetaMerged                                      *)
(* The state is a readout and a cell of it, reached from another one by    *)
(* going from neighbour to neighbour as a clustering does.                 *)
(***************************************************************************)
EXTENDS Integers

CONSTANTS
  LastLayer,      \* layers are 0 .. LastLayer
  NumModules,     \* "nModules": modules around the axis
  FirstTheta,     \* layer -> first theta bin of its volume, unmerged
  LastTheta,      \* layer -> last theta bin
  Readouts        \* [theta, modules]: layer -> merged bins, layer -> merged modules

Layers == 0 .. LastLayer

(***************************************************************************)
(* The groups of modules divide the circle, and no cell starts at theta    *)
(* bin 0, below which the decoder has no bin to look for neighbours in.    *)
(***************************************************************************)
ASSUME ReadoutsAssumption ==
  /\ LastLayer \in Nat /\ NumModules \in Nat \ {0}
  /\ FirstTheta \in [Layers -> Nat] /\ LastTheta \in [Layers -> Nat]
  /\ \A r \in Readouts :
       /\ r.theta \in [Layers -> Nat \ {0}] /\ r.modules \in [Layers -> Nat \ {0}]
       /\ \A l \in Layers : FirstTheta[l] >= r.theta[l] /\ NumModules % r.modules[l] = 0

VARIABLES readout, diagonal, cell

walkVars == <<readout, diagonal, cell>>

-----------------------------------------------------------------------------
(***************************************************************************)
(* Cell identifiers.                                                       *)
(***************************************************************************)

\* The remainder of C++, which has the sign of the dividend.
Remainder(a, n) == IF a >= 0 THEN a % n ELSE - ((- a) % n)

\* The first of the group of n that x is in.
GroupOf(x, n) == x - Remainder(x, n)

CellID(r, layer, module, theta) ==
  [layer |-> layer, module |-> GroupOf(module, r.modules[layer]),
   theta |-> GroupOf(theta, r.theta[layer])]

\* Extremes of the theta field in a layer: those of its cells.
ThetaExtremes(r, l) ==
  GroupOf(FirstTheta[l], r.theta[l]) .. GroupOf(LastTheta[l], r.theta[l])

\* The cells there are: the first modules and bins of the groups.
CellsOf(r) ==
  UNION {{[layer |-> l, module |-> m, theta |-> t] :
            m \in {n \in 0 .. NumModules - 1 : n % r.modules[l] = 0},
            t \in {u \in ThetaExtremes(r, l) : u % r.theta[l] = 0}} : l \in Layers}

-----------------------------------------------------------------------------
(***************************************************************************)
(* neighbours_ModuleThetaMerged.                                           *)
(***************************************************************************)
cyclicNeighbour(id, first, last) ==
  CASE id < first -> last + 1 - Remainder(first - id, last - first + 1)
    [] id > last  -> Remainder(id - first, last - first + 1) + first
    [] OTHER      -> id

Cyclic(module) == cyclicNeighbour(module, 0, NumModules - 1)

\* How the group of n from y on lies to the group of m from x on: beside it,
\* or touching it with an end, or neither.
Beside(x, m, y, n) == x - n < y /\ y < x + m
Ends(x, m, y, n) == y = x + m \/ y = x - n

\* Mutant: only one merged bin beside the group is looked at.
GroupsWithin(x, m, n) == {GroupOf(x + i, n) : i \in 0 .. m - 1}

\* Groups of n that hold something from before to behind the m from x on.
GroupsAround(x, m, n) == {GroupOf(x + i, n) : i \in -1 .. m}

AcrossLayers(r, c, diag, l) ==
  LET mt == r.theta[c.layer]  nt == r.theta[l]
      mm == r.modules[c.layer]  nm == r.modules[l]
      Meets(theta, module) ==
        \/ Beside(c.theta, mt, theta, nt) /\ Beside(c.module, mm, module, nm)
        \/ /\ diag
           /\ Beside(c.theta, mt, theta, nt) \/ Ends(c.theta, mt, theta, nt)
           /\ Beside(c.module, mm, module, nm) \/ Ends(c.module, mm, module, nm)
  IN {[layer |-> l, module |-> Cyclic(p[1]), theta |-> p[2]] :
        p \in {q \in GroupsAround(c.module, mm, nm) \X GroupsAround(c.theta, mt, nt) :
                 Meets(q[2], q[1])}}

SameLayer(r, c, diag) ==
  LET thetas == {c.theta + i * r.theta[c.layer] : i \in -1 .. 1}
                  \cap ThetaExtremes(r, c.layer)
      Module(j) == GroupOf(Cyclic(c.module + j * r.modules[c.layer]), r.modules[c.layer])
  IN {[layer |-> c.layer, module |-> Module(p[1]), theta |-> p[2]] :
        p \in {q \in (-1 .. 1) \X thetas :
                 /\ q # <<0, c.theta>>
                 /\ q[1] = 0 \/ q[2] = c.theta \/ diag}}

Adjacent(l) == {l - 1, l + 1} \cap Layers

neighbours(r, c, diag) ==
  SameLayer(r, c, diag) \cup UNION {AcrossLayers(r, c, diag, l) : l \in Adjacent(c.layer)}

-----------------------------------------------------------------------------
(***************************************************************************)
(* getNeighboursModuleThetaMerged: neighbours with the kind of crosstalk,  *)
(* which stands for its coefficient.  The module is left as it is.         *)
(***************************************************************************)
\* Mutant: the tower takes the cells that only touch it.
TowerWithEnds(r, c, l, t) ==
  IF \/ Beside(c.theta, r.theta[c.layer], t, r.theta[l])
     \/ Ends(c.theta, r.theta[c.layer], t, r.theta[l]) THEN "tower" ELSE "none"

Tower(r, c, l, t) ==
  IF Beside(c.theta, r.theta[c.layer], t, r.theta[l]) THEN "tower" ELSE "none"

RadialOrDiagonal(r, c, l, t) ==
  CASE Beside(c.theta, r.theta[c.layer], t, r.theta[l]) -> "radial"
    [] Ends(c.theta, r.theta[c.layer], t, r.theta[l]) -> "diagonal"
    [] OTHER -> "none"

Kind(r, c, l, t) ==
  IF l \in Adjacent(c.layer) THEN RadialOrDiagonal(r, c, l, t) ELSE Tower(r, c, l, t)

InOtherLayer(r, c, l) ==
  {[cell |-> [c EXCEPT !.layer = l, !.theta = t], kind |-> Kind(r, c, l, t)] :
     t \in {u \in GroupsAround(c.theta, r.theta[c.layer], r.theta[l]) :
              Kind(r, c, l, u) # "none" /\ u \in ThetaExtremes(r, l)}}

InThisLayer(r, c) ==
  {[cell |-> [c EXCEPT !.theta = t], kind |-> "theta"] :
     t \in {c.theta - r.theta[c.layer], c.theta + r.theta[c.layer]}
             \cap ThetaExtremes(r, c.layer)}

xtalkNeighbours(r, c) ==
  InThisLayer(r, c) \cup UNION {InOtherLayer(r, c, l) : l \in Layers \ {c.layer}}

-----------------------------------------------------------------------------
\* Any cell, with or without diagonal neighbours.
AnyCell ==
  /\ readout \in Readouts /\ diagonal \in BOOLEAN
  /\ \E l \in Layers, m \in 0 .. NumModules - 1 : \E t \in FirstTheta[l] .. LastTheta[l] :
       cell = CellID(readout, l, m, t)

\* On to a neighbour that exists: in another layer there may be none behind
\* the last theta bin, as the code says itself.
Walk ==
  /\ cell' \in neighbours(readout, cell, diagonal) \cap CellsOf(readout)
  /\ UNCHANGED <<readout, diagonal>>

WalkSpec == AnyCell /\ [][Walk]_walkVars

-----------------------------------------------------------------------------
(***************************************************************************)
(* Properties.  Where cells lie is told by the modules and bins they merge.*)
(***************************************************************************)
ThetaBins(r, c) == c.theta .. c.theta + r.theta[c.layer] - 1
Modules(r, c) == c.module .. c.module + r.modules[c.layer] - 1

\* Next to each other, the modules around a circle.
NextBins(S, T) == S \cap T = {} /\ \E s \in S : s - 1 \in T \/ s + 1 \in T
NextModules(S, T) ==
  /\ S \cap T = {}
  /\ \E s \in S : (s - 1) % NumModules \in T \/ (s + 1) % NumModules \in T

\* c and d have a part of a surface in common.
Faces(r, c, d) ==
  LET bins == ThetaBins(r, c) \cap ThetaBins(r, d) # {}
      modules == Modules(r, c) \cap Modules(r, d) # {}
  IN IF c.layer = d.layer
     THEN \/ bins /\ NextModules(Modules(r, c), Modules(r, d))
          \/ modules /\ NextBins(ThetaBins(r, c), ThetaBins(r, d))
     ELSE bins /\ modules

\* c and d have at least a part of an edge or a vertex in common.
Meet(r, c, d) ==
  /\ c # d
  /\ \/ ThetaBins(r, c) \cap ThetaBins(r, d) # {}
     \/ NextBins(ThetaBins(r, c), ThetaBins(r, d))
  /\ \/ Modules(r, c) \cap Modules(r, d) # {}
     \/ NextModules(Modules(r, c), Modules(r, d))

Touching(r, c, diag) ==
  {d \in CellsOf(r) :
     /\ d.layer \in c.layer - 1 .. c.layer + 1
     /\ IF diag THEN Meet(r, c, d) ELSE Faces(r, c, d)}

\* The first module, whose diagonal neighbours in other layers are modules
\* with a negative number before they are cyclic.
OnSeam == diagonal /\ cell.module = 0

(***************************************************************************)
(* Whatever the layers merge, the neighbours of a cell are exactly the     *)
(* cells that have a surface, or with diagonals an edge or a vertex, in    *)
(* common with it, around the circle as well, and none is missed or added  *)
(* where groups are not aligned.  The seam is left to the next property.   *)
(***************************************************************************)
NeighboursAreTheTouchingCells ==
  LET found == neighbours(readout, cell, diagonal)
      touching == Touching(readout, cell, diagonal)
  IN /\ found \cap CellsOf(readout) \subseteq touching
     /\ ~ OnSeam => touching \subseteq found
     /\ {d \in found : d.layer = cell.layer} \subseteq touching

\* With diagonals all cells that have an edge or a vertex in common with the
\* cell are found, from the first module too.
DiagonalNeighboursAreFound ==
  diagonal => Touching(readout, cell, TRUE) \subseteq neighbours(readout, cell, TRUE)

(***************************************************************************)
(* Where all layers merge the same number of modules, crosstalk is with    *)
(* the cells of the same modules alone: radial where they overlap in theta *)
(* one layer off, diagonal where they are next to each other there, tower  *)
(* further off, theta in the same layer.                                   *)
(***************************************************************************)
Crosstalk(r, c, d) ==
  LET overlap == ThetaBins(r, c) \cap ThetaBins(r, d) # {}
      beside == NextBins(ThetaBins(r, c), ThetaBins(r, d))
  IN CASE d.layer = c.layer /\ beside -> "theta"
       [] d.layer \in Adjacent(c.layer) /\ overlap -> "radial"
       [] d.layer \in Adjacent(c.layer) /\ beside -> "diagonal"
       [] d.layer \notin Adjacent(c.layer) \cup {c.layer} /\ overlap -> "tower"
       [] OTHER -> "none"

CrosstalkIsByPosition ==
  (\A l \in Layers : readout.modules[l] = readout.modules[0]) =>
    xtalkNeighbours(readout, cell) =
      {[cell |-> d, kind |-> Crosstalk(readout, cell, d)] :
         d \in {e \in CellsOf(readout) : /\ e.module = cell.module
                                         /\ Crosstalk(readout, cell, e) # "none"}}
=============================================================================
