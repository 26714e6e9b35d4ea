------------------------------ MODULE HcalTiles ------------------------------
(* Hadron calorimeters of scintillating tiles between steel plates, in     *)
(* detector/calorimeter: the barrel (HCalTileBarrel_o1_v01, _v02), the     *)
(* barrel prolonged in two parts (HCalTileExtBarrel_o1_v01), and the       *)
(* endcaps of three parts (HCalThreePartsEndcap_o1_v01, _v02).             *)
(*                                                                         *)
(* The tiles of a layer in radius stand one behind the other in z: a row   *)
(* is a sequence of plates and a tile, and layers take turns with two      *)
(* sequences. A compact description c has both sequences and the length of *)
(* each, the sizes of layers, the thickness of end plate, face plate and   *)
(* support, the space left beside plates, and the readout; the barrel has  *)
(* radii, half length dz, rows, and how often each size is repeated; the   *)
(* others have these for each of their parts, and where it is (offset).    *)
(* Materials, the phi bins and the length of the face plates are left out. *)
EXTENDS Geometry

Side == {-1, 1}

\* What a compact description lists: two sequences of plates and tiles, and as many
\* repetitions as there are sizes of layers.
IsTileFile(c) ==
  /\ IsList(c.sequences) /\ Len(c.sequences) = 2
  /\ \A i \in DOMAIN c.sequences : IsStack(c.sequences[i])
  /\ {c.dzSequence, c.endPlate, c.facePlate, c.space} \subseteq Nat /\ c.dzSequence > 0

AreSizes(sizes, repeat) ==
  {sizes, repeat} \subseteq Seq(Nat) /\ Len(sizes) = Len(repeat)

IsTileBarrelFile(c) ==
  /\ IsTileFile(c) /\ AreSizes(c.sizes, c.repeat)
  /\ {c.rmin, c.rmax, c.dz, c.rows, c.support} \subseteq Nat

IsTilePartsFile(c) ==
  /\ IsTileFile(c) /\ IsList(c.parts) /\ c.rmax \in Nat
  /\ \A p \in DOMAIN c.parts :
       /\ AreSizes(c.sizes, c.parts[p].repeat)
       /\ {c.parts[p].rmin, c.parts[p].offset, c.parts[p].half, c.parts[p].rows} \subseteq Nat

\* The depths of the layers, one by one.
LayerDepths(sizes, repeat) ==
  FlattenSeq([i \in DOMAIN sizes |-> [j \in 1..repeat[i] |-> sizes[i]]])

\* A ring is the part of a calorimeter on one side: where in z it is, the layers
\* before it, the radius the tiles begin at, the depths of its layers, the
\* sequence of the first, half its length and where the rows begin (from its
\* middle, doubled), and whether the tiles in a row, and the numbers of the rows,
\* are turned.
InnerRadius(r, i) == r.rmin + Sums(r.depths)[i - 1]

SequenceIdx(r, i) == (i - 1 + r.sequence) % 2

Sequence(c, r, i) == c.sequences[1 + SequenceIdx(r, i)]

Turned(r) == r.turned /\ r.side = -1

\* The components of a sequence from its lower end, which is half of the given
\* length from its middle.
TileOffsets(c, r, i) ==
  LET seq == Sequence(c, r, i)
      middle(k) == 2 * Below(seq, k) + seq[k].thickness - c.dzSequence
  IN [k \in DOMAIN seq |-> Placed(IF Turned(r) THEN -middle(k) ELSE middle(k), seq[k])]

\* As bugs would have them: the first row in the middle of where the rows begin,
\* and rows numbered upwards on both sides.
RowOffsetWithoutHalf(c, r, n) == r.start + 2 * n * c.dzSequence
NumberedUpwards(r, n) == n

RowOffset(c, r, n) == r.start + (2 * n + 1) * c.dzSequence

RowId(r, n) == IF Turned(r) THEN r.rows - n - 1 ELSE n

Tiles(c, r, i) == SensitiveOf(Sequence(c, r, i))

RowSensor(c, r, i, n, k) ==
  LET tile == TileOffsets(c, r, i)[k]
      z == r.z + RowOffset(c, r, n) + tile.middle
      layer == r.first + i - 1
      ids == [layer |-> layer, row |-> RowId(r, n)]
  IN [at |-> <<r.side, layer, n, layer, k>>,
      ids |-> IF r.type = <<>> THEN ids ELSE Joined(ids, [type |-> r.type[1]]),
      pos |-> 2 * InnerRadius(r, i) + r.depths[i], thickness |-> r.depths[i],
      lo |-> z - tile.thickness, hi |-> z + tile.thickness]

Sensors(c, r) ==
  UNION {{RowSensor(c, r, i, n, k) : n \in 0..(r.rows - 1), k \in Tiles(c, r, i)} :
           i \in DOMAIN r.depths}

\* The sensitive tiles of a layer in the order of its sequence.
TilesOf(c, r, i, layer) ==
  FlattenSeq([k \in DOMAIN Sequence(c, r, i) |->
    IF k \in Tiles(c, r, i) THEN <<<<layer, k>>>> ELSE <<>>])

\* As a bug would have them: the layers of each part counted from its own first.
TilesNumberedByPart(c, rings) ==
  FlattenSeq([p \in DOMAIN rings |->
    FlattenSeq([i \in DOMAIN rings[p].depths |-> TilesOf(c, rings[p], i, i - 1)])])

\* All sensitive tiles of one side, in the order their layers are made.
TilesPerLayer(c, rings) ==
  FlattenSeq([p \in DOMAIN rings |->
    FlattenSeq([i \in DOMAIN rings[p].depths |->
      TilesOf(c, rings[p], i, rings[p].first + i - 1)])])

\* The element of a row has that of its tile in it: the tile of the layer is found
\* by the layer's number, as if each had one.
RowElements(c, rings) ==
  LET tiles == TilesPerLayer(c, rings)
      of(r) == {[name |-> <<r.side * (layer + 1), n>>,
                 on |-> <<r.side, layer, n>> \o tiles[layer + 1]] :
                  layer \in r.first..(r.first + Len(r.depths) - 1), n \in 0..(r.rows - 1)}
  IN UNION {of(rings[p]) : p \in DOMAIN rings}

InTheRoom(lo, hi, room) == [middle |-> lo + hi - room[1] - room[2], thickness |-> hi - lo]

\* The sequences, the rows of a layer and, from inside out, the face plate, the
\* layers and what is behind them.
RingStacks(c, r, room, behind) ==
  LET n == Len(r.depths)
      edge(i) == InnerRadius(r, i)
  IN {[half |-> c.dzSequence, slices |-> TileOffsets(c, r, i)] : i \in DOMAIN r.depths}
     \cup {[half |-> r.half,
            slices |-> [k \in 1..r.rows |->
                          [middle |-> RowOffset(c, r, k - 1), thickness |-> c.dzSequence]]],
           [half |-> room[2] - room[1],
            slices |-> <<InTheRoom(room[1], room[1] + c.facePlate, room)>>
                       \o [i \in 1..n |-> InTheRoom(edge(i), edge(i) + r.depths[i], room)]
                       \o <<InTheRoom(edge(n + 1), edge(n + 1) + behind, room)>>]}

SensitiveRmin(c, rmin) == rmin + c.facePlate + c.space

\* The layer begins at the distance; what is before and behind its middle are halves.
RadialRecord(r, i, of) ==
  [of |-> of, distance |-> 2 * InnerRadius(r, i),
   inner |-> r.depths[i], outer |-> r.depths[i], part |-> r.first]

TilePlaces(c, r, layers, rows) ==
  {s.at : s \in {t \in Sensors(c, r) : t.at[2] \in layers /\ t.at[3] \in rows}}

AllPlaces(c, r) == {s.at : s \in Sensors(c, r)}

-----------------------------------------------------------------------------
(* The barrel. The variant v says whether the rows are counted from the    *)
(* room there is (in the other they are given, and sequences and readout   *)
(* have to be right), and whether they begin behind the end plate.         *)

NumSequencesZ(c, v) ==
  IF v.counted THEN (2 * c.dz - 2 * c.endPlate - 2 * c.space) \div c.dzSequence ELSE c.rows

\* Half the length with the end plates, doubled.
BarrelDz(c, v) == NumSequencesZ(c, v) * c.dzSequence + 2 * (c.endPlate + c.space)

BarrelRing(c, v) ==
  [side |-> 1, type |-> <<>>, z |-> 0, first |-> 0, turned |-> FALSE, sequence |-> 0,
   rmin |-> SensitiveRmin(c, c.rmin), depths |-> LayerDepths(c.sizes, c.repeat),
   rows |-> NumSequencesZ(c, v), half |-> BarrelDz(c, v) - 2 * (c.endPlate + c.space),
   start |-> -BarrelDz(c, v) + (IF v.behindPlate THEN 2 * (c.endPlate + c.space) ELSE 0)]

\* The end plates and the layers between them.
BarrelAlong(c, v) ==
  LET dz == BarrelDz(c, v)
  IN [half |-> 2 * c.dz, endPlates |-> 2,
      slices |-> <<[middle |-> -(dz - c.endPlate), thickness |-> c.endPlate],
                   [middle |-> 0, thickness |-> BarrelRing(c, v).half],
                   [middle |-> dz - c.endPlate, thickness |-> c.endPlate]>>]

BarrelRecords(c, v) ==
  LET r == BarrelRing(c, v)
  IN [i \in DOMAIN r.depths |-> RadialRecord(r, i, TilePlaces(c, r, {i - 1}, 0..r.rows))]
     \o <<[of |-> AllPlaces(c, r), along |-> <<-BarrelDz(c, v), BarrelDz(c, v)>>,
           across |-> <<2 * r.rmin, 2 * (r.rmin + Total(r.depths))>>]>>

TileBarrel(c, v) ==
  LET r == BarrelRing(c, v)
  IN IF ~v.counted /\ (c.uneven \/ c.readout \notin {"HCalPhiTheta", "HCalPhiRow"})
     THEN Thrown
     ELSE [sensors |-> Sensors(c, r), elements |-> RowElements(c, <<r>>),
           stacks |-> RingStacks(c, r, <<c.rmin, c.rmax>>, c.support)
                      \cup {BarrelAlong(c, v)},
           neighbours |-> {}, layers |-> IF v.counted THEN <<>> ELSE BarrelRecords(c, v)]

HCalTileBarrel_o1_v01(c) == TileBarrel(c, [counted |-> TRUE, behindPlate |-> FALSE])

HCalTileBarrel_o1_v02(c) == TileBarrel(c, [counted |-> FALSE, behindPlate |-> TRUE])

-----------------------------------------------------------------------------
(* Calorimeters of several parts on both sides. The variant v says which   *)
(* parts are longer by the end plates (plated), whether the rows are       *)
(* counted (otherwise they are given), and whether the sides are mirrored: *)
(* rows in the middle, turned and numbered the other way on the other side.*)

PartRows(c, v, p) ==
  IF v.mirrored THEN c.parts[p].rows
  ELSE (2 * c.parts[p].half - c.endPlate - c.space) \div c.dzSequence

ForPlates(c, v, p) == IF p \in v.plated THEN 2 * (c.endPlate + c.space) ELSE 0

PartDz(c, v, p) == PartRows(c, v, p) * c.dzSequence + ForPlates(c, v, p)

PartDepths(c, p) == LayerDepths(c.sizes, c.parts[p].repeat)

\* Layers are numbered on from part to part, types on from side to side.
PartRing(c, v, p, sign) ==
  LET before(q) == Len(PartDepths(c, q))
  IN [side |-> sign, type |-> <<p - 1 + (IF sign < 0 THEN Len(c.parts) ELSE 0)>>,
      z |-> 2 * sign * c.parts[p].offset, first |-> Sum(p - 1, before),
      turned |-> v.mirrored, sequence |-> 1,
      rmin |-> SensitiveRmin(c, c.parts[p].rmin), depths |-> PartDepths(c, p),
      rows |-> PartRows(c, v, p), half |-> PartDz(c, v, p),
      start |-> -PartDz(c, v, p) + (IF v.mirrored THEN ForPlates(c, v, p) ELSE 0)]

Rings(c, v, sign) == [p \in DOMAIN c.parts |-> PartRing(c, v, p, sign)]

\* One end plate before the first part and one behind the last, which in the last
\* version is no longer a part of its length.
PartsAlong(c, v) ==
  LET n == Len(c.parts)
      offset(p) == 2 * c.parts[p].offset
      room == <<c.parts[1].offset - c.parts[1].half, c.parts[n].offset + c.parts[n].half>>
      at(middle, half) == [middle |-> middle - room[1] - room[2], thickness |-> half]
      back == IF n \in v.plated THEN -c.endPlate ELSE c.endPlate + 2 * c.space
  IN [half |-> room[2] - room[1], endPlates |-> 2,
      slices |-> [p \in 1..n |-> at(offset(p), PartDz(c, v, p))]
                 \o <<at(offset(n) + PartDz(c, v, n) + back, c.endPlate),
                      at(offset(1) - PartDz(c, v, 1) + c.endPlate, c.endPlate)>>]

TileParts(c, v, records) ==
  [sensors |-> UNION {Sensors(c, PartRing(c, v, p, sign)) : p \in DOMAIN c.parts, sign \in Side},
   elements |-> UNION {RowElements(c, Rings(c, v, sign)) : sign \in Side},
   stacks |-> {PartsAlong(c, v)}
              \cup UNION {RingStacks(c, PartRing(c, v, p, sign), <<c.parts[p].rmin, c.rmax>>, 0) :
                            p \in DOMAIN c.parts, sign \in Side},
   neighbours |-> {}, layers |-> records]

HCalTileExtBarrel_o1_v01(c) ==
  TileParts(c, [plated |-> {1, 2}, mirrored |-> FALSE], <<>>)

HCalThreePartsEndcap_o1_v01(c) ==
  TileParts(c, [plated |-> {1, 3}, mirrored |-> FALSE], <<>>)

-----------------------------------------------------------------------------
(* What the last version enters for reconstruction depends on the readout: *)
(* the layers in radius, or pseudo-layers of rows in z.                    *)

Mirrored == [plated |-> {1}, mirrored |-> TRUE]

EndcapRecords(c) ==
  FlattenSeq([p \in DOMAIN c.parts |->
    LET r == PartRing(c, Mirrored, p, 1)
    IN [i \in DOMAIN r.depths |->
          RadialRecord(r, i, TilePlaces(c, r, {r.first + i - 1}, 0..r.rows))]])

\* The rows that are grouped, for this part.
Groups(c, p) ==
  LET n == Len(c.groupedRows) \div Len(c.parts)
  IN SubSeq(c.groupedRows, (p - 1) * n + 1, p * n)

\* As a bug would have it: a row behind the last of a group is in that group too.
CellOneRowLate(c, p, row) ==
  LET groups == Groups(c, p)
      reaching == {k \in DOMAIN groups : row <= Sums(groups)[k]}
  IN IF reaching = {} THEN [idx |-> row \div c.gridSize[p] + 1, rows |-> c.gridSize[p]]
     ELSE [idx |-> Min(reaching), rows |-> groups[Min(reaching)]]

\* The number of the cell a row is in and its rows: the first group that reaches
\* beyond the row, or cells of equal size.
CellOfRow(c, p, row) ==
  LET groups == Groups(c, p)
      reaching == {k \in DOMAIN groups : row < Sums(groups)[k]}
  IN IF reaching = {} THEN [idx |-> row \div c.gridSize[p] + 1, rows |-> c.gridSize[p]]
     ELSE [idx |-> Min(reaching), rows |-> groups[Min(reaching)]]

\* What the segmentation calls the position of a cell: the middle of the cell as
\* seen from the tile of the first of its rows, doubled.
PositionInRow(c, p, cell) ==
  LET r == PartRing(c, Mirrored, p, 1)
      tile == CHOOSE k \in Tiles(c, r, 1) : TRUE
      volOffset == c.dzSequence + TileOffsets(c, r, 1)[tile].middle
  IN cell.rows * c.dzSequence - volOffset

PseudoLayer(c, p, cell, rows) ==
  LET r == PartRing(c, Mirrored, p, 1)
  IN [of |-> TilePlaces(c, r, r.first..(r.first + Len(r.depths) - 1), rows), rows |-> rows,
      distance |-> PositionInRow(c, p, cell),
      inner |-> cell.rows * c.dzSequence, outer |-> cell.rows * c.dzSequence]

\* A cell is entered when its number is not that of the row before.
PseudoLayers(c) ==
  LET last(p) == c.parts[p].rows - 1
      idx(p, row) == CellOfRow(c, p, row).idx
      begins(p, row) == row = 0 \/ idx(p, row) # idx(p, row - 1)
      rowsOf(p, row) == {n \in 0..last(p) : idx(p, n) = idx(p, row)}
      entered(p, row) ==
        IF begins(p, row)
        THEN <<PseudoLayer(c, p, CellOfRow(c, p, row), rowsOf(p, row))>> ELSE <<>>
  IN FlattenSeq([p \in DOMAIN c.parts |->
       FlattenSeq([k \in 1..(last(p) + 1) |-> entered(p, k - 1)])])

EndcapExtent(c) ==
  LET n == Len(c.parts)
      r == PartRing(c, Mirrored, n, 1)
  IN [of |-> UNION {AllPlaces(c, PartRing(c, Mirrored, p, 1)) : p \in 1..n},
      across |-> <<2 * r.rmin, 2 * (r.rmin + Total(r.depths))>>,
      along |-> <<2 * c.parts[1].offset - PartDz(c, Mirrored, 1),
                  2 * c.parts[n].offset + PartDz(c, Mirrored, n)>>]

ByTheta == {"GridPhiTheta", "HCalPhiTheta"}

HCalThreePartsEndcap_o1_v02(c) ==
  IF \/ c.uneven
     \/ c.readout \notin ByTheta \cup {"HCalPhiRow"}
     \/ c.readout = "HCalPhiRow" /\ Len(c.groupedRows) % Len(c.parts) # 0
  THEN Thrown
  ELSE TileParts(c, Mirrored,
         (IF c.readout \in ByTheta THEN EndcapRecords(c) ELSE PseudoLayers(c))
         \o <<EndcapExtent(c)>>)
=============================================================================
