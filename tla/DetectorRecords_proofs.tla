----------------------- MODULE DetectorRecords_proofs -----------------------
(* Proofs about what the constructors leave for those who read a detector:   *)
(* the records for reconstruction are so of the sensors they are about, and  *)
(* DetElements have names of their own, with each sensor in the volume of    *)
(* one. What the constructors make, and the induction that says that nothing *)
(* else stands, are in DetectorConstruction_proofs.                          *)
EXTENDS DetectorConstruction_proofs

-----------------------------------------------------------------------------
(* Records that say nothing of where sensors are.                          *)

Measures == {"lo", "hi", "thickness", "middle"}

IsUnmeasured(r) == Measures \cap DOMAIN r = {}

Unmeasured(layers) ==
  layers \in Seq(Range(layers)) /\ \A r \in Range(layers) : IsUnmeasured(r)

LEMMA UnmeasuredIn ==
  ASSUME NEW S, NEW layers \in Seq(S), \A r \in S : IsUnmeasured(r)
  PROVE  Unmeasured(layers)
<1>1. /\ Len(layers) \in Nat /\ DOMAIN layers = 1..Len(layers)
      /\ \A i \in 1..Len(layers) : layers[i] \in S
      /\ layers = [i \in 1..Len(layers) |-> layers[i]]
  OBVIOUS
<1>2. Range(layers) = {layers[i] : i \in 1..Len(layers)}
  BY <1>1 DEF Range
<1>3. layers \in [1..Len(layers) -> Range(layers)]
  BY <1>1, <1>2
<1>4. layers \in Seq(Range(layers))
  BY <1>1, <1>3, RowsOf
<1> QED
  BY <1>1, <1>2, <1>4 DEF Unmeasured

LEMMA UnmeasuredNone ==
  Unmeasured(<<>>)
<1> DEFINE S == {}
           row == <<>>
<1>1. row \in Seq(S) /\ \A r \in S : IsUnmeasured(r)
  OBVIOUS
<1> HIDE DEF S
<1>2. Unmeasured(row)
  <2> HIDE DEF row
  <2> QED
    BY <1>1, UnmeasuredIn
<1> QED
  BY <1>2

LEMMA UnmeasuredOne ==
  ASSUME NEW r, IsUnmeasured(r)
  PROVE  Unmeasured(<<r>>)
<1> DEFINE S == {r}
           row == <<r>>
<1>1. row \in Seq(S) /\ \A x \in S : IsUnmeasured(x)
  OBVIOUS
<1> HIDE DEF S
<1>2. Unmeasured(row)
  <2> HIDE DEF row
  <2> QED
    BY <1>1, UnmeasuredIn
<1> QED
  BY <1>2

LEMMA UnmeasuredRow ==
  ASSUME NEW n \in Int, NEW row, row = [i \in 1..n |-> row[i]],
         \A i \in 1..n : IsUnmeasured(row[i])
  PROVE  Unmeasured(row)
<1> DEFINE S == {row[i] : i \in 1..n}
<1>1. row \in [1..n -> S]
  OBVIOUS
<1>2. PICK m \in Nat : 1..n = 1..m
  <2>1. CASE n \in Nat
    BY <2>1
  <2>2. CASE n < 0
    <3>1. 1..n = 1..0
      BY <2>2
    <3> QED
      BY <3>1
  <2> QED
    BY <2>1, <2>2
<1>4. row \in Seq(S)
  <2> HIDE DEF S
  <2> QED
    BY <1>1, <1>2, RowsOf
<1>3. \A r \in S : IsUnmeasured(r)
  OBVIOUS
<1> HIDE DEF S
<1> QED
  BY <1>3, <1>4, UnmeasuredIn

LEMMA UnmeasuredTogether ==
  ASSUME NEW s, NEW t, Unmeasured(s), Unmeasured(t)
  PROVE  Unmeasured(s \o t)
<1> DEFINE S == Range(s) \cup Range(t)
<1>1. s \in Seq(Range(s)) /\ t \in Seq(Range(t)) /\ \A r \in S : IsUnmeasured(r)
  BY DEF Unmeasured
<1>2. \A A, B : \A q \in Seq(A) : A \subseteq B => q \in Seq(B)
  OBVIOUS
<1>3. s \in Seq(S) /\ t \in Seq(S)
  BY <1>1, <1>2
<1>4. s \o t \in Seq(S)
  <2> HIDE DEF S
  <2> QED
    BY <1>3
<1> HIDE DEF S
<1> QED
  BY <1>1, <1>4, UnmeasuredIn, Zenon

LEMMA UnmeasuredRows ==
  ASSUME NEW n \in Nat, NEW rows, rows = [i \in 1..n |-> rows[i]],
         \A i \in 1..n : Unmeasured(rows[i])
  PROVE  Unmeasured(FlattenSeq(rows))
<1> DEFINE S == UNION {Range(rows[i]) : i \in 1..n}
<1>1. \A A, B : \A q \in Seq(A) : A \subseteq B => q \in Seq(B)
  OBVIOUS
<1>2. \A i \in 1..n : rows[i] \in Seq(S)
  <2> TAKE i \in 1..n
  <2>1. rows[i] \in Seq(Range(rows[i])) /\ Range(rows[i]) \subseteq S
    BY DEF Unmeasured
  <2> QED
    BY <1>1, <2>1
<1>3. \A r \in S : IsUnmeasured(r)
  BY DEF Unmeasured
<1> HIDE DEF S
<1>4. rows \in [1..n -> Seq(S)]
  BY <1>2
<1>5. rows \in Seq(Seq(S))
  BY <1>4, RowsOf
<1>6. FlattenSeq(rows) \in Seq(S)
  BY <1>5, Flattened
<1> QED
  BY <1>3, <1>6, UnmeasuredIn

\* Then there is nothing to be wrong.
LEMMA NothingMeasured ==
  ASSUME Unmeasured(detector.layers)
  PROVE  RecordsDescribeTheSensors
<1>1. \A i \in DOMAIN detector.layers : IsUnmeasured(detector.layers[i])
  BY DEF Unmeasured, Range
<1>2. \A i \in DOMAIN detector.layers :
        /\ "lo" \notin DOMAIN detector.layers[i] /\ "hi" \notin DOMAIN detector.layers[i]
        /\ "thickness" \notin DOMAIN detector.layers[i]
        /\ "middle" \notin DOMAIN detector.layers[i]
  BY <1>1 DEF IsUnmeasured, Measures
<1> QED
  BY <1>2 DEF RecordsDescribeTheSensors

LEMMA CaloRecords ==
  /\ \A c, v, front, l, there : IsUnmeasured(CaloLayer(c, v, front, l, there))
  /\ \A there, across, along : IsUnmeasured(CaloExtent(there, across, along))
<1>1. ASSUME NEW c, NEW v, NEW front, NEW l, NEW there
      PROVE  IsUnmeasured(CaloLayer(c, v, front, l, there))
  <2> DEFINE halves == IF v.split = "halves" THEN HalvesAdded(LayersOf(c)[l])
                       ELSE ThicknessSplit(LayersOf(c)[l])
             where == [of |-> there, distance |-> 2 * front + DistanceOf(c, v, l)]
             more == [inner |-> halves.inner, outer |-> halves.outer]
  <2>1. DOMAIN where = {"of", "distance"} /\ DOMAIN more = {"inner", "outer"}
    OBVIOUS
  <2>2. CaloLayer(c, v, front, l, there) = IF v.split = "none" THEN where ELSE Joined(where, more)
    BY DEF CaloLayer
  <2> HIDE DEF where, more, halves
  <2>4. DOMAIN Joined(where, more) = DOMAIN where \cup DOMAIN more
    BY JoinedFields, Zenon
  <2>3. DOMAIN CaloLayer(c, v, front, l, there) \subseteq {"of", "distance", "inner", "outer"}
    BY <2>1, <2>2, <2>4
  <2> QED
    BY <2>3 DEF IsUnmeasured, Measures
<1>2. ASSUME NEW there, NEW across, NEW along
      PROVE  IsUnmeasured(CaloExtent(there, across, along))
  BY DEF CaloExtent, IsUnmeasured, Measures
<1> QED
  BY <1>1, <1>2

\* A row of layers and what is entered behind it.
LEMMA RowAndExtent ==
  ASSUME NEW n \in Int, NEW row, row = [i \in 1..n |-> row[i]],
         \A i \in 1..n : IsUnmeasured(row[i]), NEW last, IsUnmeasured(last)
  PROVE  Unmeasured(row \o <<last>>)
<1>1. Unmeasured(row)
  BY UnmeasuredRow
<1> DEFINE behind == <<last>>
<1>2. Unmeasured(behind)
  BY UnmeasuredOne
<1> HIDE DEF behind
<1>3. Unmeasured(row \o behind)
  BY <1>1, <1>2, UnmeasuredTogether
<1> QED
  BY <1>3 DEF behind

LEMMA StavesUnmeasured ==
  ASSUME StavesMade
  PROVE  RecordsDescribeTheSensors
<1>1. PICK c \in StaveFiles : \E v : detector = StaveBarrel(c, v)
  BY DEF StavesMade
<1>2. PICK v : detector = StaveBarrel(c, v)
  BY <1>1
<1> DEFINE n == Len(LayersOf(c))
           there(l) == {p \in StavePlaces(c, v) : p[2] = l}
           row == [l \in 1..n |-> CaloLayer(c, v, c.rmin, l, there(l))]
           last == CaloExtent(StavePlaces(c, v), <<2 * c.rmin, 2 * (c.rmin + TotalThickness(c))>>,
                              <<-2 * c.zhalf, 2 * c.zhalf>>)
<1>3. n \in Nat /\ DOMAIN LayersOf(c) = 1..n
  BY StaveFilesAssumption, LayersAre DEF IsStaveFile
<1>4. detector.layers = row \o <<last>>
  BY <1>2, <1>3 DEF StaveBarrel
<1>5. row = [i \in 1..n |-> row[i]] /\ \A i \in 1..n : IsUnmeasured(row[i])
  <2> HIDE DEF there, n
  <2> QED
    BY CaloRecords
<1>6. IsUnmeasured(last)
  BY CaloRecords
<1> HIDE DEF n, row, last
<1> QED
  BY <1>3, <1>4, <1>5, <1>6, RowAndExtent, NothingMeasured

LEMMA SteppedUnmeasured ==
  ASSUME SteppedMade
  PROVE  RecordsDescribeTheSensors
<1>1. PICK c \in StaveFiles : detector = SteppedMuonBarrel_o2_v02(c)
  BY DEF SteppedMade
<1> DEFINE n == Len(LayersOf(c))
           v == CaloVariant(0, 0, TRUE, "front of the layer", "halves")
           d == [c EXCEPT !.rmin = c.rmax - TotalThickness(c)]
           there(l) == {p \in StavePlaces(c, v) : p[2] = l}
           row == [l \in 1..n |-> CaloLayer(d, v, d.rmin, l, there(l))]
           group == c.groups[Len(c.groups)]
           reach == 2 * c.zhalf + (2 * (group.repeat \div 2) * TotalThickness(c)) \div group.repeat
           last == CaloExtent(StavePlaces(c, v), <<2 * d.rmin, 2 * c.rmax>>, <<-reach, reach>>)
<1>3. n \in Nat /\ DOMAIN LayersOf(c) = 1..n
  BY StaveFilesAssumption, LayersAre DEF IsStaveFile
<1>4. detector.layers = row \o <<last>>
  BY <1>1, <1>3 DEF SteppedMuonBarrel_o2_v02
<1>5. row = [i \in 1..n |-> row[i]] /\ \A i \in 1..n : IsUnmeasured(row[i])
  <2> HIDE DEF there, n, v, d
  <2> QED
    BY CaloRecords
<1>6. IsUnmeasured(last)
  BY CaloRecords
<1> HIDE DEF n, row, last
<1> QED
  BY <1>3, <1>4, <1>5, <1>6, RowAndExtent, NothingMeasured

LEMMA TowersUnmeasured ==
  ASSUME TowersMade
  PROVE  RecordsDescribeTheSensors
<1>1. PICK c \in TowerFiles : \E v : detector = TowerBarrel(c, v)
  BY DEF TowersMade
<1>2. PICK v : detector = TowerBarrel(c, v)
  BY <1>1
<1> DEFINE n == Len(LayersOf(c))
           k == c.ntowers * c.nstacks
           there(i, l) == {p \in TowerPlaces(c) : p[2] * c.nstacks + p[3] = i - 1 /\ p[4] = l}
           row(i) == [l \in 1..n |-> CaloLayer(c, v, c.rmin + c.tolerance, l, there(i, l))]
           rows == [i \in 1..k |-> row(i)]
           last == CaloExtent(TowerPlaces(c), <<>>, <<-2 * StaveHalf(c), 2 * StaveHalf(c)>>)
<1>3. n \in Nat /\ DOMAIN LayersOf(c) = 1..n
  BY TowerFilesAssumption, LayersAre DEF IsTowerFile
<1>4. k \in Nat
  <2>1. c.ntowers \in Nat /\ c.nstacks \in Nat
    BY TowerFilesAssumption DEF IsTowerFile
  <2> QED
    BY <2>1
<1>5. detector.layers = FlattenSeq(rows) \o <<last>>
  BY <1>2, <1>3 DEF TowerBarrel, TowerLayers
<1>6. \A i \in 1..k : Unmeasured(row(i))
  <2> TAKE i \in 1..k
  <2>1. row(i) = [l \in 1..n |-> row(i)[l]] /\ \A l \in 1..n : IsUnmeasured(row(i)[l])
    <3> HIDE DEF there, n, k
    <3> QED
      BY CaloRecords
  <2> HIDE DEF row, n, k
  <2> QED
    BY <1>3, <2>1, UnmeasuredRow
<1> DEFINE behind == <<last>>
<1>7. Unmeasured(behind)
  <2>1. IsUnmeasured(last)
    BY CaloRecords
  <2> HIDE DEF last
  <2> QED
    BY <2>1, UnmeasuredOne
<1>8. rows = [i \in 1..k |-> rows[i]] /\ \A i \in 1..k : rows[i] = row(i)
  <2> HIDE DEF row, k
  <2> QED
    OBVIOUS
<1> HIDE DEF rows, row, k, behind
<1>9. Unmeasured(FlattenSeq(rows))
  BY <1>4, <1>6, <1>8, UnmeasuredRows
<1>10. Unmeasured(FlattenSeq(rows) \o behind)
  BY <1>7, <1>9, UnmeasuredTogether
<1> QED
  BY <1>5, <1>10, NothingMeasured DEF behind

LEMMA PolygonsUnmeasured ==
  ASSUME PolygonsMade, detector # Thrown
  PROVE  RecordsDescribeTheSensors
<1>1. PICK c \in PolygonFiles : \E v, other, inTree : detector = PolygonEndcap(c, v, other, inTree)
  BY DEF PolygonsMade
<1>2. PICK v, other, inTree : detector = PolygonEndcap(c, v, other, inTree)
  BY <1>1
<1> DEFINE n == Len(LayersOf(c))
           places == PolygonPlaces(c, other)
           there(l) == {p \in places : p[2] = l}
           row == [l \in 1..n |-> CaloLayer(c, v, c.zmin, l, there(l))]
           last == CaloExtent(places, <<2 * c.zmin, 2 * (c.zmin + TotalThickness(c))>>,
                              <<2 * c.rmin, 2 * c.rmax>>)
<1>3. n \in Nat /\ DOMAIN LayersOf(c) = 1..n
  BY PolygonFilesAssumption, LayersAre DEF IsPolygonFile
<1>4. detector.layers = row \o <<last>>
  BY <1>2, <1>3 DEF PolygonEndcap
<1>5. row = [i \in 1..n |-> row[i]] /\ \A i \in 1..n : IsUnmeasured(row[i])
  <2> HIDE DEF there, n
  <2> QED
    BY CaloRecords
<1>6. IsUnmeasured(last)
  BY CaloRecords
<1> HIDE DEF n, row, last
<1> QED
  BY <1>3, <1>4, <1>5, <1>6, RowAndExtent, NothingMeasured

LEMMA ForwardsUnmeasured ==
  ASSUME ForwardMade
  PROVE  RecordsDescribeTheSensors
<1>1. PICK c \in ForwardFiles : \E v : detector = ForwardCalorimeter(c, v)
  BY DEF ForwardMade
<1>2. PICK v : detector = ForwardCalorimeter(c, v)
  BY <1>1
<1> DEFINE n == Len(LayersOf(c))
           places == PolygonPlaces(c, 2)
           there(l) == {p \in places : p[2] = l}
           row == [l \in 1..n |-> CaloLayer(c, v.number, c.zmin, l, there(l))]
           last == CaloExtent(places, <<2 * c.zmin, 2 * (c.zmin + TotalThickness(c))>>,
                              <<2 * v.reach[1], 2 * v.reach[2]>>)
<1>3. n \in Nat /\ DOMAIN LayersOf(c) = 1..n
  BY ForwardFilesAssumption, LayersAre DEF IsForwardFile, IsPolygonFile
<1>4. detector.layers = row \o <<last>>
  BY <1>2, <1>3 DEF ForwardCalorimeter
<1>5. row = [i \in 1..n |-> row[i]] /\ \A i \in 1..n : IsUnmeasured(row[i])
  <2> HIDE DEF there, n
  <2> QED
    BY CaloRecords
<1>6. IsUnmeasured(last)
  BY CaloRecords
<1> HIDE DEF n, row, last
<1> QED
  BY <1>3, <1>4, <1>5, <1>6, RowAndExtent, NothingMeasured

LEMMA PanelsUnmeasured ==
  ASSUME PanelsMade, detector # Thrown
  PROVE  RecordsDescribeTheSensors
<1>1. PICK c \in PanelFiles : detector = PanelEndcap(c)
  BY DEF PanelsMade
<1> DEFINE last == CaloExtent(PanelPlaces(c), <<2 * c.zmin, 2 * (c.zmin + PanelDepth(c))>>,
                              <<2 * c.rmin, 2 * c.rmax>>)
<1>2. detector.layers = <<last>>
  BY <1>1 DEF PanelEndcap
<1>3. IsUnmeasured(last)
  BY CaloRecords
<1> HIDE DEF last
<1> QED
  BY <1>2, <1>3, UnmeasuredOne, NothingMeasured

LEMMA NoRecords ==
  ASSUME detector.layers = <<>>
  PROVE  RecordsDescribeTheSensors
BY UnmeasuredNone, NothingMeasured

LEMMA PrototypesUnmeasured ==
  ASSUME PrototypesMade
  PROVE  RecordsDescribeTheSensors
<1>1. PICK c \in PrototypeFiles : \E v : detector = Prototype(c, v)
  BY DEF PrototypesMade
<1>2. detector.layers = <<>>
  BY <1>1 DEF Prototype
<1> QED
  BY <1>2, NoRecords

LEMMA DetailedUnmeasured ==
  ASSUME DetailedBarrelMade \/ DetailedEndcapMade
  PROVE  RecordsDescribeTheSensors
<1>1. CASE DetailedBarrelMade
  <2>1. \E c, v : detector = DetailedBarrel(c, v)
    BY <1>1 DEF DetailedBarrelMade
  <2>2. detector.layers = <<>>
    BY <2>1 DEF DetailedBarrel
  <2> QED
    BY <2>2, NoRecords
<1>2. CASE DetailedEndcapMade
  <2>1. \E c, v : detector = DetailedEndcap(c, v)
    BY <1>2 DEF DetailedEndcapMade
  <2>2. detector.layers = <<>>
    BY <2>1 DEF DetailedEndcap
  <2> QED
    BY <2>2, NoRecords
<1> QED
  BY <1>1, <1>2

LEMMA TurbinesUnmeasured ==
  ASSUME TurbineMade
  PROVE  RecordsDescribeTheSensors
<1>1. PICK c \in TurbineFiles : \E v, stacks : detector = Turbine(c, v, stacks)
  BY DEF TurbineMade
<1>2. PICK v, stacks : detector = Turbine(c, v, stacks)
  BY <1>1
<1> DEFINE last == TurbineExtent(c, {s.at : s \in detector.sensors})
<1>3. detector.layers = <<last>>
  BY <1>2 DEF Turbine
<1>4. IsUnmeasured(last)
  BY DEF TurbineExtent, IsUnmeasured, Measures
<1> HIDE DEF last
<1> QED
  BY <1>3, <1>4, UnmeasuredOne, NothingMeasured

LEMMA PlatesUnmeasured ==
  ASSUME PlatesMade, detector # Thrown
  PROVE  RecordsDescribeTheSensors
<1>1. PICK c \in PlateFiles : \E v : detector = ECalBarrelInclined(c, v)
  BY DEF PlatesMade
<1>2. PICK v : detector = ECalBarrelInclined(c, v)
  BY <1>1
<1> DEFINE n == Len(Repeated(c.layers))
           row == [i \in 1..n |-> LayerRecord(c, v, i)]
           last == PlateExtent(c)
<1>3. n \in Nat /\ DOMAIN LayerHeights(c) = 1..n
  <2>1. Repeated(c.layers) \in Seq(Nat)
    BY RepeatedLayers
  <2> QED
    BY <2>1, HeightsAre
<1>4. detector.layers = row \o <<last>>
  BY <1>2, <1>3 DEF ECalBarrelInclined
<1>5. row = [i \in 1..n |-> row[i]] /\ \A i \in 1..n : IsUnmeasured(row[i])
  <2>1. \A i : IsUnmeasured(LayerRecord(c, v, i))
    BY DEF LayerRecord, IsUnmeasured, Measures
  <2> HIDE DEF n
  <2> QED
    BY <2>1
<1>6. IsUnmeasured(last)
  BY DEF PlateExtent, IsUnmeasured, Measures
<1> HIDE DEF n, row, last
<1> QED
  BY <1>3, <1>4, <1>5, <1>6, RowAndExtent, NothingMeasured

LEMMA YokeBarrelUnmeasured ==
  ASSUME YokeBarrelMade
  PROVE  RecordsDescribeTheSensors
<1>1. PICK c \in YokeBarrelFiles : detector = Yoke05_Barrel(c)
  BY DEF YokeBarrelMade
<1> DEFINE n == c.nlayers
           places == YokeBarrelPlaces(c)
           there(i) == {p \in places : p[2] = i /\ p[4] = TheSensitive(c)}
           radiator(i) == RadiatorThickness(c, i, c.slack)
           row == [l \in 1..n |->
                     Record(c, 2 * (RadiusLow(c, l - 1) - radiator(l - 1)),
                            radiator(l - 1), there(l - 1))]
           rout == c.rin + c.gap + 10 * (c.iron + c.gap)
                     + 3 * (c.iron + c.extra + c.gap) + 2 * c.slack
           zhalf == c.zStart - c.barrelGap
           last == [of |-> places, across |-> <<2 * c.rin, 2 * rout>>,
                    along |-> <<-2 * zhalf, 2 * zhalf>>]
<1>2. n \in Nat
  BY YokeBarrelFilesAssumption DEF IsYokeBarrelFile, IsYokeFile
<1>3. detector.layers = row \o <<last>>
  <2> DEFINE sensors == {YokeBarrelSensor(c, p) : p \in places}
             elements == {[name |-> <<m, j + 1, Number(i)>>, on |-> <<m, i, j>>] :
                            m \in 1..3, i \in 0..(c.nlayers - 1), j \in 0..(c.nsides - 1)}
             layers == row \o <<last>>
  <2>1. Yoke05_Barrel(c) = [sensors |-> sensors, elements |-> elements,
                            stacks |-> {YokeStack(c)}, neighbours |-> {}, layers |-> layers]
    BY DEF Yoke05_Barrel
  <2> HIDE DEF sensors, elements, layers
  <2>2. detector.layers = layers
    BY <1>1, <2>1
  <2> QED
    BY <2>2 DEF layers
<1>4. row = [i \in 1..n |-> row[i]] /\ \A i \in 1..n : IsUnmeasured(row[i])
  <2>1. \A distance, r, of : IsUnmeasured(Record(c, distance, r, of))
    BY DEF Record, IsUnmeasured, Measures
  <2> HIDE DEF there, radiator, n
  <2> QED
    BY <2>1
<1>5. IsUnmeasured(last)
  BY DEF IsUnmeasured, Measures
<1> HIDE DEF n, row, last
<1>6. Unmeasured(row \o <<last>>)
  BY <1>2, <1>4, <1>5, RowAndExtent
<1> QED
  BY <1>3, <1>6, NothingMeasured

LEMMA YokeEndcapsUnmeasured ==
  ASSUME YokeEndcapsMade
  PROVE  RecordsDescribeTheSensors
<1>1. PICK c \in YokeEndcapFiles : detector = YokeEndcaps(c)
  BY DEF YokeEndcapsMade
<1> DEFINE n == c.nlayers
           places == YokeEndcapPlaces(c)
           there(i) == {p \in places : p[2] = i /\ p[3] = TheSensitive(c)}
           radiator(i) ==
             RadiatorThickness(c, i, c.slack + (c.gap - Chamber(c)) \div 2 + c.iron)
           distance(i) == 2 * c.zStart + BodyThickness(c) + ShiftMiddle(c, i)
                            - Inner(c, radiator(i))
           row == [l \in 1..n |->
                     Record(c, distance(l - 1), radiator(l - 1), there(l - 1))]
           last == [of |-> places,
                    across |-> <<2 * c.zStart, 2 * (c.zStart + BodyThickness(c))>>,
                    along |-> <<2 * c.rmin, 2 * c.rmax>>]
<1>2. n \in Nat
  BY YokeEndcapFilesAssumption DEF IsYokeFile
<1>3. detector.layers = row \o <<last>>
  BY <1>1, Zenon DEF YokeEndcaps
<1>4. row = [i \in 1..n |-> row[i]] /\ \A i \in 1..n : IsUnmeasured(row[i])
  <2>1. \A d, r, of : IsUnmeasured(Record(c, d, r, of))
    BY DEF Record, IsUnmeasured, Measures
  <2> HIDE DEF there, radiator, distance, n
  <2> QED
    BY <2>1
<1>5. IsUnmeasured(last)
  BY DEF IsUnmeasured, Measures
<1> HIDE DEF n, row, last
<1>6. Unmeasured(row \o <<last>>)
  BY <1>2, <1>4, <1>5, RowAndExtent
<1> QED
  BY <1>3, <1>6, NothingMeasured

LEMMA ChamberRecords ==
  /\ \A c, distance, radiator, there : IsUnmeasured(ChamberRecord(c, distance, radiator, there))
  /\ \A there, across, along : IsUnmeasured(Extent(there, across, along))
BY DEF ChamberRecord, Extent, IsUnmeasured, Measures

\* Layers that are entered one by one, or not.
LEMMA EnteredUnmeasured ==
  ASSUME NEW n \in Nat, NEW rows, rows = [i \in 1..n |-> rows[i]],
         \A i \in 1..n : rows[i] = <<>> \/ \E r : IsUnmeasured(r) /\ rows[i] = <<r>>
  PROVE  Unmeasured(FlattenSeq(rows))
<1>1. \A i \in 1..n : Unmeasured(rows[i])
  <2> TAKE i \in 1..n
  <2>1. CASE rows[i] = <<>>
    BY <2>1, UnmeasuredNone
  <2>2. CASE \E r : IsUnmeasured(r) /\ rows[i] = <<r>>
    <3>1. PICK r : IsUnmeasured(r) /\ rows[i] = <<r>>
      BY <2>2
    <3>2. Unmeasured(<<r>>)
      BY <3>1, UnmeasuredOne
    <3> QED
      BY <3>1, <3>2
  <2> QED
    BY <2>1, <2>2
<1> QED
  BY <1>1, UnmeasuredRows

LEMMA EnteredAndExtent ==
  ASSUME NEW n \in Nat, NEW rows, rows = [i \in 1..n |-> rows[i]],
         \A i \in 1..n : rows[i] = <<>> \/ \E r : IsUnmeasured(r) /\ rows[i] = <<r>>,
         NEW last, IsUnmeasured(last)
  PROVE  Unmeasured(FlattenSeq(rows) \o <<last>>)
<1>1. Unmeasured(FlattenSeq(rows))
  BY EnteredUnmeasured
<1> DEFINE behind == <<last>>
<1>2. Unmeasured(behind)
  BY UnmeasuredOne
<1> HIDE DEF behind
<1>3. Unmeasured(FlattenSeq(rows) \o behind)
  BY <1>1, <1>2, UnmeasuredTogether
<1> QED
  BY <1>3 DEF behind

LEMMA SDBarrelUnmeasured ==
  ASSUME NEW c \in ChamberBarrelFiles, NEW v, NEW recorded
  PROVE  Unmeasured(SDBarrel(c, v, recorded).layers)
<1> DEFINE n == c.nlayers
           places == ChamberBarrelPlaces(c, v, recorded)
           distance(l) == ModuleRadius(c, v) + ChamberOffset(c, v, l)
           record(l) == ChamberRecord(c, distance(l), 0,
                                      {p \in places : p[4] = l /\ p[5] = Recorded(c)})
           rows == [l \in 1..n |-> IF l \in recorded THEN <<record(l)>> ELSE <<>>]
           last == Extent(places, <<2 * c.rin, 2 * c.rout>>, <<-2 * c.zhalf, 2 * c.zhalf>>)
<1>1. n \in Nat
  BY ChamberBarrelFilesAssumption DEF IsChamberBarrelFile, IsChamberFile
<1>2. SDBarrel(c, v, recorded).layers = FlattenSeq(rows) \o <<last>>
  BY DEF SDBarrel, ChamberBarrel
<1>3. /\ \A l \in 1..n : IsUnmeasured(record(l))
      /\ IsUnmeasured(last)
  BY ChamberRecords
<1>4. /\ rows = [l \in 1..n |-> rows[l]]
      /\ \A l \in 1..n : rows[l] = <<>> \/ \E r : IsUnmeasured(r) /\ rows[l] = <<r>>
  <2> HIDE DEF record, n
  <2> QED
    BY <1>3
<1> HIDE DEF n, rows, last
<1> QED
  BY <1>1, <1>2, <1>3, <1>4, EnteredAndExtent, Zenon

LEMMA ValidatedUnmeasured ==
  ASSUME NEW c \in ChamberBarrelFiles, NEW v, ValidatedBarrel(c, v) # Thrown
  PROVE  Unmeasured(ValidatedBarrel(c, v).layers)
<1> DEFINE n == c.nlayers
           places == ChamberBarrelPlaces(c, v, 1..n)
           record(l) == ChamberRecord(c, InFrontOfChamber(c, v, l), c.radiator,
                                      {p \in places : p[4] = l /\ p[5] = Recorded(c)})
           rows == [l \in 1..n |-> IF l \in 1..n THEN <<record(l)>> ELSE <<>>]
           last == Extent(places, <<2 * c.rin, 2 * c.rout>>, <<-2 * c.zhalf, 2 * c.zhalf>>)
<1>1. n \in Nat
  BY ChamberBarrelFilesAssumption DEF IsChamberBarrelFile, IsChamberFile
<1>2. ValidatedBarrel(c, v).layers = FlattenSeq(rows) \o <<last>>
  BY DEF ValidatedBarrel, ChamberBarrel
<1>3. /\ \A l \in 1..n : IsUnmeasured(record(l))
      /\ IsUnmeasured(last)
  BY ChamberRecords
<1>4. /\ rows = [l \in 1..n |-> rows[l]]
      /\ \A l \in 1..n : rows[l] = <<>> \/ \E r : IsUnmeasured(r) /\ rows[l] = <<r>>
  <2> HIDE DEF record, n
  <2> QED
    BY <1>3
<1> HIDE DEF n, rows, last
<1> QED
  BY <1>1, <1>2, <1>3, <1>4, EnteredAndExtent, Zenon

LEMMA StairsUnmeasured ==
  ASSUME NEW c \in ChamberBarrelFiles
  PROVE  Unmeasured(SHcalSc04_Barrel_v03(c).layers)
<1> DEFINE n == c.nlayers
           v == AHcalVariant(c, FALSE)
           places == ChamberBarrelPlaces(c, v, 1..n)
           stairUp == 2 * ((Reach(c, v) + c.backPlate) \div 3)
           record(l) == ChamberRecord(c, InFrontOfChamber(c, v, l) - stairUp, c.radiator,
                                      {p \in places : p[4] = l /\ p[5] = Recorded(c)})
           rows == [l \in 1..n |-> IF l \in 1..n THEN <<record(l)>> ELSE <<>>]
           last == Extent(places, <<2 * c.rin, 2 * c.rout>>, <<-2 * c.zhalf, 2 * c.zhalf>>)
<1>1. n \in Nat
  BY ChamberBarrelFilesAssumption DEF IsChamberBarrelFile, IsChamberFile
<1>2. SHcalSc04_Barrel_v03(c).layers = FlattenSeq(rows) \o <<last>>
  BY Zenon DEF SHcalSc04_Barrel_v03, ChamberBarrel
<1>3. /\ \A l \in 1..n : IsUnmeasured(record(l))
      /\ IsUnmeasured(last)
  BY ChamberRecords, Zenon
<1>4. /\ rows = [l \in 1..n |-> rows[l]]
      /\ \A l \in 1..n : rows[l] = <<>> \/ \E r : IsUnmeasured(r) /\ rows[l] = <<r>>
  <2> HIDE DEF record, n
  <2> QED
    BY <1>3, Zenon
<1> HIDE DEF n, rows, last
<1> QED
  BY <1>1, <1>2, <1>3, <1>4, EnteredAndExtent, Zenon

\* Records that have been changed where they say how thick a layer is.
LEMMA HalvedUnmeasured ==
  ASSUME NEW c \in ChamberBarrelFiles
  PROVE  Unmeasured(SHcalSc04_Barrel_v02(c).layers)
<1> DEFINE v == [AHcalVariant(c, FALSE) EXCEPT !.halves = {-1}, !.lead = 0]
           d == [c EXCEPT !.chamber = v.period]
           n == d.nlayers
           places == ChamberBarrelPlaces(d, v, c.fits)
           distance(l) == ModuleRadius(d, v) + ChamberOffset(d, v, l)
           record(l) == ChamberRecord(d, distance(l), 0,
                                      {p \in places : p[4] = l /\ p[5] = Recorded(d)})
           rows == [l \in 1..n |-> IF l \in c.fits THEN <<record(l)>> ELSE <<>>]
           last == Extent(places, <<2 * d.rin, 2 * d.rout>>, <<-2 * d.zhalf, 2 * d.zhalf>>)
           all == FlattenSeq(rows) \o <<last>>
           before == 2 * Below(c.slices, Recorded(c))
           halved(r) == IF "inner" \notin DOMAIN r THEN r
                        ELSE [r EXCEPT !.inner = before \div 2,
                                       !.outer = Thickness(c.slices) - before \div 2]
           layers == [i \in DOMAIN all |-> halved(all[i])]
<1>1. n \in Nat
  <2>1. c.nlayers \in Nat /\ n = c.nlayers
    BY ChamberBarrelFilesAssumption DEF IsChamberBarrelFile, IsChamberFile
  <2> QED
    BY <2>1
<1>2. SHcalSc04_Barrel_v02(c).layers = layers
  <2> DEFINE b == ChamberBarrel(d, v, c.fits, LAMBDA p : TwoModules(c, p),
                                LAMBDA l : ModuleRadius(d, v) + ChamberOffset(d, v, l), 0)
             changed == [i \in DOMAIN b.layers |-> halved(b.layers[i])]
  <2>1. b.layers = all /\ "layers" \in DOMAIN b
    BY Zenon DEF ChamberBarrel
  <2>2. SHcalSc04_Barrel_v02(c) = [b EXCEPT !.layers = changed]
    BY DEF SHcalSc04_Barrel_v02
  <2>3. changed = layers
    <3> HIDE DEF b, all, halved
    <3> QED
      BY <2>1
  <2> HIDE DEF b, changed, layers
  <2> QED
    BY <2>1, <2>2, <2>3, Zenon
<1>3. /\ \A l \in 1..n : IsUnmeasured(record(l))
      /\ IsUnmeasured(last)
  BY ChamberRecords, Zenon
<1>4. /\ rows = [l \in 1..n |-> rows[l]]
      /\ \A l \in 1..n : rows[l] = <<>> \/ \E r : IsUnmeasured(r) /\ rows[l] = <<r>>
  <2> HIDE DEF record, n
  <2> QED
    BY <1>3, Zenon
<1>5. Unmeasured(all)
  <2> HIDE DEF n, rows, last
  <2> QED
    BY <1>1, <1>3, <1>4, EnteredAndExtent, Zenon
<1>6. \A r : IsUnmeasured(r) => IsUnmeasured(halved(r))
  BY DEF IsUnmeasured
<1> HIDE DEF all, halved
<1>7. DOMAIN all = 1..Len(all) /\ Len(all) \in Nat /\ \A i \in DOMAIN all : IsUnmeasured(all[i])
  BY <1>5 DEF Unmeasured, Range
<1>8. layers = [i \in 1..Len(all) |-> layers[i]] /\ \A i \in 1..Len(all) : IsUnmeasured(layers[i])
  BY <1>6, <1>7
<1> HIDE DEF layers
<1> QED
  BY <1>2, <1>7, <1>8, UnmeasuredRow

LEMMA ChamberBarrelsUnmeasured ==
  ASSUME ChamberBarrelMade, detector # Thrown
  PROVE  RecordsDescribeTheSensors
<1>1. PICK c \in ChamberBarrelFiles :
        \/ detector \in {SHcalSc04_Barrel_v01(c), SHcalSc04_Barrel_v04(c)}
        \/ detector \in {SHcalSc04_Barrel_v02(c), SHcalSc04_Barrel_v03(c)}
        \/ detector \in {Hcal_Barrel_SD_v01(c), Hcal_Barrel_SD_v02(c)}
  BY DEF ChamberBarrelMade
<1>2. CASE detector \in {SHcalSc04_Barrel_v01(c), SHcalSc04_Barrel_v04(c)}
  BY <1>2, ValidatedUnmeasured, NothingMeasured, Zenon DEF SHcalSc04_Barrel_v01, SHcalSc04_Barrel_v04
<1>3. CASE detector \in {SHcalSc04_Barrel_v02(c), SHcalSc04_Barrel_v03(c)}
  BY <1>3, HalvedUnmeasured, StairsUnmeasured, NothingMeasured
<1>4. CASE detector \in {Hcal_Barrel_SD_v01(c), Hcal_Barrel_SD_v02(c)}
  BY <1>4, SDBarrelUnmeasured, NothingMeasured, Zenon DEF Hcal_Barrel_SD_v01, Hcal_Barrel_SD_v02
<1> QED
  BY <1>1, <1>2, <1>3, <1>4

LEMMA RoomIs ==
  ASSUME NEW c \in ChamberEndcapFiles, NEW v, v.period \in Nat, v.period > 0
  PROVE  /\ RoomFor(c, v) \in Int
         /\ AtMost(c.nlayers, RoomFor(c, v)) \in Int
         /\ AtMost(c.nlayers, (RoomFor(c, v) * v.period + c.backPlate) \div v.period) \in Int
<1>1. /\ {c.zmin, c.zmax, c.backPlate, c.nlayers} \subseteq Nat
  BY ChamberEndcapFilesAssumption DEF IsChamberEndcapFile, IsChamberFile
<1>2. RoomFor(c, v) \in Int
  <2>1. c.zmax - c.zmin - c.backPlate \in Int
    BY <1>1
  <2> QED
    BY <2>1 DEF RoomFor
<1> DEFINE m == RoomFor(c, v) * v.period + c.backPlate
           k == m \div v.period
<1>3. k \in Int
  <2>1. m \in Int
    BY <1>1, <1>2
  <2> HIDE DEF m
  <2> QED
    BY <2>1
<1> HIDE DEF k
<1>4. AtMost(c.nlayers, k) \in Int /\ AtMost(c.nlayers, RoomFor(c, v)) \in Int
  BY <1>1, <1>2, <1>3 DEF AtMost
<1> QED
  BY <1>2, <1>4 DEF k

LEMMA BoxEndcapUnmeasured ==
  ASSUME NEW c \in ChamberEndcapFiles, NEW v, NEW staves, NEW n \in Int, NEW radiator
  PROVE  Unmeasured(BoxEndcap(c, v, staves, n, radiator).layers)
<1> DEFINE places == ChamberEndcapPlaces(c, Len(c.boxes), staves, n)
           distance(l) == 2 * (c.zmin + ChamberFront(v, l)) + c.chamber - ThicknessIn(c, radiator)
           row == [l \in 1..n |-> ChamberRecord(c, distance(l), radiator,
                                    {p \in places : p[4] = l /\ p[5] = Recorded(c)})]
           last == Extent(places, <<2 * c.zmin, 2 * c.zmax>>, <<2 * c.rmin, 2 * c.rmax>>)
<1>1. BoxEndcap(c, v, staves, n, radiator).layers = row \o <<last>>
  BY Zenon DEF BoxEndcap, ChamberEndcap
<1>2. row = [i \in 1..n |-> row[i]] /\ \A i \in 1..n : IsUnmeasured(row[i])
  <2> HIDE DEF distance, places
  <2> QED
    BY ChamberRecords
<1>3. IsUnmeasured(last)
  BY ChamberRecords
<1> HIDE DEF row, last
<1> QED
  BY <1>1, <1>2, <1>3, RowAndExtent

LEMMA PolygonBodyUnmeasured ==
  ASSUME NEW c \in ChamberEndcapFiles, NEW v, NEW staves, NEW n \in Int, NEW front, NEW z,
         NEW from, NEW radiator
  PROVE  Unmeasured(PolygonBody(c, v, staves, n, front, z, from, radiator).layers)
<1> DEFINE places == ChamberEndcapPlaces(c, 1, staves, n)
           distance(l) == 2 * (from + (l - 1) * v.period)
           row == [l \in 1..n |-> ChamberRecord(c, distance(l), radiator,
                                    {p \in places : p[4] = l /\ p[5] = Recorded(c)})]
           last == Extent(places, <<2 * z[1], 2 * z[2]>>, <<2 * c.rmin, 2 * c.rmax>>)
<1>1. PolygonBody(c, v, staves, n, front, z, from, radiator).layers = row \o <<last>>
  BY Zenon DEF PolygonBody, ChamberEndcap
<1>2. row = [i \in 1..n |-> row[i]] /\ \A i \in 1..n : IsUnmeasured(row[i])
  <2> HIDE DEF distance, places
  <2> QED
    BY ChamberRecords
<1>3. IsUnmeasured(last)
  BY ChamberRecords
<1> HIDE DEF row, last
<1> QED
  BY <1>1, <1>2, <1>3, RowAndExtent

LEMMA ChamberEndcapsUnmeasured ==
  ASSUME ChamberEndcapMade
  PROVE  RecordsDescribeTheSensors
<1>1. PICK c \in ChamberEndcapFiles :
        \/ detector \in {SHcalSc04_Endcaps(c), SHcalSc04_Endcaps_v01(c), Hcal_Endcaps_SD_v02(c)}
        \/ detector \in {SHcalSc04_EndcapRing(c), SHcalSc04_EndcapRing_v01(c)}
        \/ detector \in {Hcal_Endcaps_SD_v01(c), Hcal_EndcapRing_SD_v01(c)}
  BY DEF ChamberEndcapMade
<1>2. c.nlayers \in Nat /\ c.radiator \in Nat /\ c.chamber \in Nat /\ c.chamber > 0
  BY ChamberEndcapFilesAssumption DEF IsChamberEndcapFile, IsChamberFile
<1>3. \A lead \in {0, c.radiator} : \A ids :
        EndcapVariant(c, lead, ids).period \in Nat /\ EndcapVariant(c, lead, ids).period > 0
  BY <1>2 DEF EndcapVariant
<1>4. \A lead \in {0, c.radiator} : \A ids :
        LET v == EndcapVariant(c, lead, ids)
        IN /\ AtMost(c.nlayers, RoomFor(c, v)) \in Int
           /\ AtMost(c.nlayers, (RoomFor(c, v) * v.period + c.backPlate) \div v.period) \in Int
  BY <1>3, RoomIs
<1>5. CASE detector \in {SHcalSc04_Endcaps(c), SHcalSc04_Endcaps_v01(c), Hcal_Endcaps_SD_v02(c)}
  <2>1. Unmeasured(SHcalSc04_Endcaps(c).layers)
    <3> DEFINE v == EndcapVariant(c, c.radiator, FALSE)
               n == c.nlayers
    <3>1. n \in Int
      BY <1>2
    <3>2. SHcalSc04_Endcaps(c) = BoxEndcap(c, v, {0, 1}, n, c.radiator)
      BY DEF SHcalSc04_Endcaps
    <3> HIDE DEF v, n
    <3> QED
      BY <3>1, <3>2, BoxEndcapUnmeasured
  <2>2. Unmeasured(SHcalSc04_Endcaps_v01(c).layers)
    <3> DEFINE v == EndcapVariant(c, c.radiator, TRUE)
               n == c.nlayers
    <3>1. n \in Int
      BY <1>2
    <3>2. SHcalSc04_Endcaps_v01(c) = BoxEndcap(c, v, {0, 1}, n, c.radiator)
      BY DEF SHcalSc04_Endcaps_v01
    <3> HIDE DEF v, n
    <3> QED
      BY <3>1, <3>2, BoxEndcapUnmeasured
  <2>3. Unmeasured(Hcal_Endcaps_SD_v02(c).layers)
    BY <1>4, BoxEndcapUnmeasured, Zenon DEF Hcal_Endcaps_SD_v02
  <2> QED
    BY <1>5, <2>1, <2>2, <2>3, NothingMeasured
<1>6. CASE detector \in {SHcalSc04_EndcapRing(c), SHcalSc04_EndcapRing_v01(c)}
  <2>1. ASSUME NEW ids PROVE Unmeasured(EndcapRing(c, EndcapVariant(c, c.radiator, ids)).layers)
    <3> DEFINE v == EndcapVariant(c, c.radiator, ids)
    <3>1. AtMost(c.nlayers, (RoomFor(c, v) * v.period + c.backPlate) \div v.period) \in Int
      BY <1>4
    <3> HIDE DEF v
    <3>2. Unmeasured(EndcapRing(c, v).layers)
      BY <3>1, PolygonBodyUnmeasured DEF EndcapRing
    <3> QED
      BY <3>2 DEF v
  <2> QED
    BY <1>6, <2>1, NothingMeasured, Zenon DEF SHcalSc04_EndcapRing, SHcalSc04_EndcapRing_v01
<1>7. CASE detector \in {Hcal_Endcaps_SD_v01(c), Hcal_EndcapRing_SD_v01(c)}
  <2>1. Unmeasured(Hcal_Endcaps_SD_v01(c).layers)
    BY <1>4, PolygonBodyUnmeasured, Zenon DEF Hcal_Endcaps_SD_v01
  <2>2. Unmeasured(Hcal_EndcapRing_SD_v01(c).layers)
    BY <1>4, PolygonBodyUnmeasured, Zenon DEF Hcal_EndcapRing_SD_v01
  <2> QED
    BY <1>7, <2>1, <2>2, NothingMeasured
<1> QED
  BY <1>1, <1>5, <1>6, <1>7

LEMMA TileBarrelsUnmeasured ==
  ASSUME TileBarrelMade, detector # Thrown
  PROVE  RecordsDescribeTheSensors
<1>1. PICK c \in TileBarrelFiles : \E v : OneTile(c) /\ detector = TileBarrel(c, v)
  BY DEF TileBarrelMade
<1>2. PICK v : OneTile(c) /\ detector = TileBarrel(c, v)
  BY <1>1
<1>3. CASE v.counted
  <2>1. detector.layers = <<>>
    BY <1>2, <1>3 DEF TileBarrel
  <2> QED
    BY <2>1, NoRecords
<1>4. CASE ~v.counted
  <2>1. detector.layers = BarrelRecords(c, v)
    BY <1>2, <1>4 DEF TileBarrel
  <2> DEFINE r == BarrelRing(c, v)
             n == Len(r.depths)
             row == [i \in 1..n |-> RadialRecord(r, i, TilePlaces(c, r, {i - 1}, 0..r.rows))]
             last == [of |-> AllPlaces(c, r), along |-> <<-BarrelDz(c, v), BarrelDz(c, v)>>,
                      across |-> <<2 * r.rmin, 2 * (r.rmin + Total(r.depths))>>]
  <2>2. n \in Nat /\ DOMAIN r.depths = 1..n
    <3>1. r.depths \in Seq(Nat)
      BY <1>2, BarrelRingIs DEF IsRing
    <3> HIDE DEF r
    <3> QED
      BY <3>1
  <2> HIDE DEF r
  <2>3. BarrelRecords(c, v) = row \o <<last>>
    BY <2>2 DEF BarrelRecords, r
  <2>4. row = [i \in 1..n |-> row[i]] /\ \A i \in 1..n : IsUnmeasured(row[i])
    <3>1. \A i, of : IsUnmeasured(RadialRecord(r, i, of))
      BY DEF RadialRecord, IsUnmeasured, Measures
    <3> HIDE DEF n
    <3> QED
      BY <3>1
  <2>5. IsUnmeasured(last)
    BY DEF IsUnmeasured, Measures
  <2> HIDE DEF n, row, last
  <2>6. Unmeasured(row \o <<last>>)
    BY <2>2, <2>4, <2>5, RowAndExtent
  <2> QED
    BY <2>1, <2>3, <2>6, NothingMeasured
<1> QED
  BY <1>3, <1>4

LEMMA EndcapRecordsUnmeasured ==
  ASSUME NEW c \in TilePartsFiles, OneTile(c)
  PROVE  Unmeasured(EndcapRecords(c))
<1> DEFINE n == Len(c.parts)
           r(p) == PartRing(c, Mirrored, p, 1)
           k(p) == Len(r(p).depths)
           of(p, i) == TilePlaces(c, r(p), {r(p).first + i - 1}, 0..r(p).rows)
           row(p) == [i \in 1..k(p) |-> RadialRecord(r(p), i, of(p, i))]
           rows == [p \in 1..n |-> row(p)]
<1>1. n \in Nat /\ DOMAIN c.parts = 1..n
  BY TilePartsFilesAssumption, Lists DEF IsTilePartsFile
<1>2. \A p \in 1..n : k(p) \in Nat /\ DOMAIN r(p).depths = 1..k(p)
  <2> TAKE p \in 1..n
  <2>1. r(p).depths \in Seq(Nat)
    BY <1>1, PartsAreRings DEF IsRing
  <2> HIDE DEF r
  <2> QED
    BY <2>1
<1>3. EndcapRecords(c) = FlattenSeq(rows)
  <2>1. rows = [p \in DOMAIN c.parts |->
                 [i \in DOMAIN r(p).depths |-> RadialRecord(r(p), i, of(p, i))]]
    <3> HIDE DEF r, of, k, n
    <3> QED
      BY <1>1, <1>2
  <2> HIDE DEF rows
  <2> QED
    BY <2>1 DEF EndcapRecords
<1>4. \A p \in 1..n : Unmeasured(row(p))
  <2> TAKE p \in 1..n
  <2>1. row(p) = [i \in 1..k(p) |-> row(p)[i]] /\ \A i \in 1..k(p) : IsUnmeasured(row(p)[i])
    <3>1. \A i, there : IsUnmeasured(RadialRecord(r(p), i, there))
      BY DEF RadialRecord, IsUnmeasured, Measures
    <3> HIDE DEF k, of, r
    <3> QED
      BY <3>1
  <2> DEFINE m == k(p)
             s == row(p)
  <2>2. m \in Nat
    BY <1>2
  <2> HIDE DEF row, k, r
  <2>3. s = [i \in 1..m |-> s[i]] /\ \A i \in 1..m : IsUnmeasured(s[i])
    BY <2>1
  <2> HIDE DEF m, s
  <2>4. Unmeasured(s)
    BY <2>2, <2>3, UnmeasuredRow
  <2> QED
    BY <2>4 DEF s
<1>5. rows = [p \in 1..n |-> rows[p]] /\ \A p \in 1..n : rows[p] = row(p)
  <2> HIDE DEF row, n
  <2> QED
    OBVIOUS
<1> HIDE DEF rows, row, n
<1> QED
  BY <1>1, <1>3, <1>4, <1>5, UnmeasuredRows

LEMMA PseudoLayersUnmeasured ==
  ASSUME NEW c \in TilePartsFiles, OneTile(c)
  PROVE  Unmeasured(PseudoLayers(c))
<1> DEFINE n == Len(c.parts)
           last(p) == c.parts[p].rows - 1
           idx(p, row) == CellOfRow(c, p, row).idx
           begins(p, row) == row = 0 \/ idx(p, row) # idx(p, row - 1)
           rowsOf(p, row) == {m \in 0..last(p) : idx(p, m) = idx(p, row)}
           layer(p, row) == PseudoLayer(c, p, CellOfRow(c, p, row), rowsOf(p, row))
           entered(p, row) == IF begins(p, row) THEN <<layer(p, row)>> ELSE <<>>
           ofPart(p) == [k \in 1..(last(p) + 1) |-> entered(p, k - 1)]
           rows == [p \in 1..n |-> FlattenSeq(ofPart(p))]
<1>1. n \in Nat /\ DOMAIN c.parts = 1..n
  BY TilePartsFilesAssumption, Lists DEF IsTilePartsFile
<1>2. \A p \in 1..n : last(p) + 1 \in Nat
  <2> TAKE p \in 1..n
  <2>1. c.parts[p].rows \in Nat
    BY <1>1, TilePartsFilesAssumption DEF IsTilePartsFile
  <2>2. \A m \in Nat : m - 1 + 1 = m
    OBVIOUS
  <2> QED
    BY <2>1, <2>2
<1>3. PseudoLayers(c) = FlattenSeq(rows)
  <2>1. PseudoLayers(c) = FlattenSeq([p \in DOMAIN c.parts |-> FlattenSeq(ofPart(p))])
    BY DEF PseudoLayers
  <2> HIDE DEF ofPart, n
  <2> QED
    BY <1>1, <2>1
<1>4. \A p, row : IsUnmeasured(layer(p, row))
  BY DEF PseudoLayer, IsUnmeasured, Measures
<1>5. \A p, row : entered(p, row) = <<>> \/ \E r : IsUnmeasured(r) /\ entered(p, row) = <<r>>
  <2> TAKE p, row
  <2>1. IsUnmeasured(layer(p, row))
    BY <1>4
  <2>2. entered(p, row) = <<>> \/ entered(p, row) = <<layer(p, row)>>
    <3> HIDE DEF begins, layer
    <3> QED
      OBVIOUS
  <2> HIDE DEF entered, layer
  <2> QED
    BY <2>1, <2>2
<1>6. \A p \in 1..n : Unmeasured(FlattenSeq(ofPart(p)))
  <2> TAKE p \in 1..n
  <2> DEFINE m == last(p) + 1
             s == ofPart(p)
  <2>1. m \in Nat
    BY <1>2
  <2>2. s = [k \in 1..m |-> s[k]]
       /\ \A k \in 1..m : s[k] = <<>> \/ \E r : IsUnmeasured(r) /\ s[k] = <<r>>
    <3>1. s = [k \in 1..m |-> entered(p, k - 1)]
      BY DEF m
    <3> HIDE DEF s, entered, m
    <3> QED
      BY <1>5, <3>1
  <2> HIDE DEF m, s
  <2>3. Unmeasured(FlattenSeq(s))
    BY <2>1, <2>2, EnteredUnmeasured
  <2> QED
    BY <2>3 DEF s
<1>7. rows = [p \in 1..n |-> rows[p]] /\ \A p \in 1..n : rows[p] = FlattenSeq(ofPart(p))
  <2> HIDE DEF ofPart, n
  <2> QED
    OBVIOUS
<1> HIDE DEF rows, ofPart, n
<1> QED
  BY <1>1, <1>3, <1>6, <1>7, UnmeasuredRows

LEMMA TilePartsUnmeasured ==
  ASSUME TilePartsMade
  PROVE  RecordsDescribeTheSensors
<1>1. PICK c \in TilePartsFiles : \E v :
        /\ OneTile(c) /\ TilePartsMakes(built, c, v)
        /\ detector = TileParts(c, v, TilePartsRecords(built, c))
  BY DEF TilePartsMade
<1>2. PICK v : OneTile(c) /\ detector = TileParts(c, v, TilePartsRecords(built, c))
  BY <1>1
<1> DEFINE records == IF c.readout \in ByTheta THEN EndcapRecords(c) ELSE PseudoLayers(c)
           extent == EndcapExtent(c)
           behind == <<extent>>
<1>3. detector.layers = records \o behind \/ detector.layers = <<>>
  <2>1. detector.layers = TilePartsRecords(built, c)
    BY <1>2 DEF TileParts
  <2>2. TilePartsRecords(built, c) = records \o behind \/ TilePartsRecords(built, c) = <<>>
    BY DEF TilePartsRecords
  <2> HIDE DEF records, behind
  <2> QED
    BY <2>1, <2>2
<1>4. Unmeasured(records)
  BY <1>2, EndcapRecordsUnmeasured, PseudoLayersUnmeasured
<1>5. IsUnmeasured(extent)
  BY DEF EndcapExtent, IsUnmeasured, Measures
<1> HIDE DEF records, extent
<1>6. Unmeasured(behind)
  BY <1>5, UnmeasuredOne
<1> HIDE DEF behind
<1>7. Unmeasured(records \o behind)
  BY <1>4, <1>6, UnmeasuredTogether
<1> QED
  BY <1>3, <1>7, NoRecords, NothingMeasured, Zenon

LEMMA NothingEntered ==
  ASSUME RodsMade \/ DiscsMade \/ UprightDiscsMade \/ detector = Thrown
  PROVE  RecordsDescribeTheSensors
<1>1. CASE RodsMade
  <2>1. detector.layers = <<>>
    BY <1>1 DEF RodsMade, TkLayoutTrackerBarrel_o1_v01
  <2> QED
    BY <2>1, NoRecords
<1>2. CASE DiscsMade
  <2>1. PICK c \in DiscFiles : detector = TkLayoutTrackerEndcap_o1_v01(c)
    BY <1>2 DEF DiscsMade
  <2>2. TkLayoutTrackerEndcap_o1_v01(c).layers = <<>>
    BY DEF TkLayoutTrackerEndcap_o1_v01
  <2> QED
    BY <2>1, <2>2, NoRecords
<1>3. CASE UprightDiscsMade
  <2>1. detector.layers = <<>>
    BY <1>3 DEF UprightDiscsMade, CaloDiscs_o1_v01
  <2> QED
    BY <2>1, NoRecords
<1>4. CASE detector = Thrown
  <2>1. detector.layers = <<>>
    BY <1>4 DEF Thrown
  <2> QED
    BY <2>1, NoRecords
<1> QED
  BY <1>1, <1>2, <1>3, <1>4

-----------------------------------------------------------------------------
(* Records of sensors of trackers.                                         *)

SensorsIn(r) == {s \in detector.sensors : s.at \in r.of}

\* What is said of the sensors in a record is so.
Describes(r) ==
  /\ "lo" \in DOMAIN r => r.lo = Min({s.lo : s \in SensorsIn(r)})
  /\ "hi" \in DOMAIN r => r.hi = Max({s.hi : s \in SensorsIn(r)})
  /\ "thickness" \in DOMAIN r => \A s \in SensorsIn(r) : s.thickness = r.thickness
  /\ "middle" \in DOMAIN r => \E s \in SensorsIn(r) : s.pos = r.middle

LEMMA EachDescribes ==
  ASSUME built \notin WrongRecords =>
           \A i \in DOMAIN detector.layers : Describes(detector.layers[i])
  PROVE  RecordsDescribeTheSensors
BY Zenon DEF RecordsDescribeTheSensors, Describes, SensorsIn

LEMMA LeastIs ==
  ASSUME NEW S, S \subseteq Int, NEW m \in S, \A y \in S : m <= y
  PROVE  Min(S) = m
<1>1. \A x \in S : (\A y \in S : x <= y) <=> x = m
  OBVIOUS
<1>2. Min(S) = CHOOSE x \in S : \A y \in S : x <= y
  BY DEF Min
<1>3. Min(S) \in S /\ \A y \in S : Min(S) <= y
  BY <1>2, Zenon
<1> QED
  BY <1>1, <1>3, Zenon

\* A record of sensors between the ends of the first and of the last of them.
LEMMA Spanned ==
  ASSUME NEW r, NEW first \in SensorsIn(r), NEW last \in SensorsIn(r), NEW here \in SensorsIn(r),
         \A s \in SensorsIn(r) : /\ s.lo \in Int /\ first.lo <= s.lo
                                 /\ s.hi \in Int /\ s.hi <= last.hi
                                 /\ s.thickness = r.thickness,
         r.lo = first.lo, r.hi = last.hi, r.middle = here.pos
  PROVE  Describes(r)
<1> DEFINE los == {s.lo : s \in SensorsIn(r)}
           his == {s.hi : s \in SensorsIn(r)}
<1>1. los \subseteq Int /\ first.lo \in los /\ \A y \in los : first.lo <= y
  OBVIOUS
<1>2. his \subseteq Int /\ last.hi \in his /\ \A y \in his : y <= last.hi
  OBVIOUS
<1> HIDE DEF los, his
<1>3. Min(los) = first.lo /\ Max(his) = last.hi
  BY <1>1, <1>2, LeastIs, GreatestIs, Zenon
<1> QED
  BY <1>3 DEF Describes, los, his

\* n sensors in a row, each as long as the others.
LEMMA InARow ==
  ASSUME NEW n \in Nat, NEW length \in Nat, NEW k \in 0..(n - 1)
  PROVE  0 <= length * k /\ length * k + length <= length * n
<1>1. k \in Nat /\ k + 1 <= n
  OBVIOUS
<1>2. length * k >= 0
  BY <1>1
<1>3. PICK d \in Nat : n = k + 1 + d
  <2>1. n - (k + 1) \in Nat /\ n = k + 1 + (n - (k + 1))
    BY <1>1
  <2> QED
    BY <2>1
<1>4. length * n = length * k + length + length * d
  BY <1>1, <1>3
<1>5. length * d >= 0 /\ length * d \in Int /\ length * k \in Int
  BY <1>1
<1> QED
  BY <1>2, <1>4, <1>5

LEMMA LaddersDescribed ==
  ASSUME LaddersMade
  PROVE  RecordsDescribeTheSensors
<1>1. PICK c \in LadderFiles :
        \E nz, neighbours : LaddersMakes(built, c, nz) /\ detector = Ladders(c, nz, neighbours)
  BY DEF LaddersMade
<1>2. PICK nz, neighbours :
        LaddersMakes(built, c, nz) /\ detector = Ladders(c, nz, neighbours)
  BY <1>1
<1> SUFFICES ASSUME NEW l \in DOMAIN c.layers
             PROVE  Describes(LadderLayer(c, nz, l))
  <2>1. detector.layers = [l \in DOMAIN c.layers |-> LadderLayer(c, nz, l)]
    BY <1>2 DEF Ladders
  <2> QED
    BY <2>1, EachDescribes
<1> DEFINE r == LadderLayer(c, nz, l)
           layer == c.layers[l]
           n == nz[l]
           z == layer.sensitive.zhalf
           length == (4 * z) \div n
           at(j, s) == LadderSensor(c, nz, l, j, s)
<1>3. /\ layer.nphi \in Nat /\ layer.nphi > 0 /\ z \in Nat
      /\ n \in Nat /\ n > 0 /\ (4 * z) % n = 0
  BY <1>2, LadderFilesAssumption DEF IsLadderFile, LaddersMakes
<1>4. length \in Nat /\ length * n = 4 * z
  <2> DEFINE q == (4 * z) \div n
             m == 4 * z
  <2>1. m \in Nat /\ m % n = 0
    BY <1>3
  <2>2. q \in Nat /\ m = (n * q) + (m % n)
    <3>1. \A a, b \in Nat : b > 0 => a \div b \in Nat /\ a = (b * (a \div b)) + (a % b)
      OBVIOUS
    <3> HIDE DEF m, n
    <3> QED
      BY <1>3, <2>1, <3>1, Zenon DEF m
  <2> HIDE DEF q, n, m
  <2>3. q * n = m
    BY <1>3, <2>1, <2>2
  <2> QED
    BY <2>2, <2>3 DEF q, m
<1>5. SensorsIn(r) = {at(j, s) : j \in 0..(layer.nphi - 1), s \in 0..(n - 1)}
  <2>1. detector.sensors = {LadderSensor(c, nz, p[1], p[2], p[3]) : p \in LadderPlaces(c, nz)}
    BY <1>2 DEF Ladders
  <2>2. r.of = {p \in LadderPlaces(c, nz) : p[1] = l}
    BY DEF LadderLayer
  <2>3. \A p \in LadderPlaces(c, nz) :
          /\ p = <<p[1], p[2], p[3]>>
          /\ p[1] = l => p[2] \in 0..(layer.nphi - 1) /\ p[3] \in 0..(n - 1)
    BY DEF LadderPlaces, Layer
  <2>4. \A j \in 0..(layer.nphi - 1), s \in 0..(n - 1) : <<l, j, s>> \in LadderPlaces(c, nz)
    BY DEF LadderPlaces, Layer
  <2>5. \A p : LadderSensor(c, nz, p[1], p[2], p[3]).at = <<p[1], p[2], p[3]>>
    BY DEF LadderSensor
  <2> HIDE DEF r, layer, n
  <2>6. ASSUME NEW x \in SensorsIn(r)
        PROVE  x \in {at(j, s) : j \in 0..(layer.nphi - 1), s \in 0..(n - 1)}
    <3>1. x \in detector.sensors /\ x.at \in r.of
      BY DEF SensorsIn
    <3>2. PICK p \in LadderPlaces(c, nz) : x = LadderSensor(c, nz, p[1], p[2], p[3])
      BY <2>1, <3>1
    <3>3. x.at = p
      BY <2>3, <2>5, <3>2, Zenon
    <3>4. p[1] = l /\ p[2] \in 0..(layer.nphi - 1) /\ p[3] \in 0..(n - 1)
      BY <2>2, <2>3, <3>1, <3>3
    <3> QED
      BY <3>2, <3>4
  <2>7. ASSUME NEW j \in 0..(layer.nphi - 1), NEW s \in 0..(n - 1)
        PROVE  at(j, s) \in SensorsIn(r)
    <3> DEFINE p == <<l, j, s>>
    <3>1. p \in LadderPlaces(c, nz) /\ p[1] = l /\ p[2] = j /\ p[3] = s
      BY <2>4
    <3>2. at(j, s) \in detector.sensors
      BY <2>1, <3>1
    <3>3. at(j, s).at = p
      BY DEF LadderSensor
    <3>4. p \in r.of
      BY <2>2, <3>1
    <3> QED
      BY <3>2, <3>3, <3>4 DEF SensorsIn
  <2> QED
    BY <2>6, <2>7
<1>6. \A j, s : /\ at(j, s).lo = -2 * z + length * s /\ at(j, s).hi = -2 * z + length * s + length
                /\ at(j, s).thickness = layer.sensitive.thickness
                /\ at(j, s).pos = 2 * layer.sensitive.distance + layer.sensitive.thickness
  BY DEF LadderSensor, Layer
<1>7. /\ r.lo = -2 * z /\ r.hi = 2 * z /\ r.thickness = layer.sensitive.thickness
      /\ r.middle = 2 * layer.sensitive.distance + layer.sensitive.thickness
  BY DEF LadderLayer, Layer
<1> HIDE DEF r, length, z, n, at, layer
<1>8. at(0, 0) \in SensorsIn(r) /\ at(0, n - 1) \in SensorsIn(r)
  <2>1. 0 \in 0..(layer.nphi - 1) /\ 0 \in 0..(n - 1) /\ n - 1 \in 0..(n - 1)
    BY <1>3
  <2> QED
    BY <1>5, <2>1
<1>9. at(0, 0).lo = r.lo /\ at(0, n - 1).hi = r.hi
  <2>1. length * (n - 1) + length = 4 * z
    BY <1>3, <1>4
  <2>2. length * 0 = 0 /\ length * (n - 1) \in Int
    BY <1>3, <1>4
  <2> QED
    BY <1>3, <1>4, <1>6, <1>7, <2>1, <2>2
<1>10. ASSUME NEW x \in SensorsIn(r)
       PROVE  /\ x.lo \in Int /\ at(0, 0).lo <= x.lo
              /\ x.hi \in Int /\ x.hi <= at(0, n - 1).hi
              /\ x.thickness = r.thickness
  <2>1. PICK j \in 0..(layer.nphi - 1), s \in 0..(n - 1) : x = at(j, s)
    BY <1>5
  <2>2. 0 <= length * s /\ length * s + length <= length * n /\ length * s \in Int
    <3>1. s \in Int
      BY <1>3
    <3> QED
      BY <1>3, <1>4, <3>1, InARow
  <2>3. x.lo = -2 * z + length * s /\ x.hi = -2 * z + length * s + length
    BY <1>6, <2>1
  <2> QED
    BY <1>3, <1>4, <1>6, <1>7, <1>9, <2>1, <2>2, <2>3
<1>11. at(0, 0).pos = r.middle
  BY <1>6, <1>7
<1>12. Describes(r)
  BY <1>8, <1>9, <1>10, <1>11, Spanned
<1> QED
  BY <1>12 DEF r

LEMMA LadderFacesSensors ==
  ASSUME NEW c \in AroundTPCFiles
  PROVE  /\ c.thickness \in Nat /\ c.support \in Nat
         /\ LadderStack(c)[1].middle = 0 - c.support
<1>1. c.thickness \in Nat /\ c.support \in Nat
  BY AroundTPCFilesAssumption DEF IsAroundTPCFile
<1> DEFINE t == <<c.thickness, c.support>>
           slices == <<Slice(c.thickness, TRUE), Slice(c.support, FALSE)>>
<1>2. t \in Seq(Nat) /\ Len(t) = 2 /\ t[1] = c.thickness /\ t[2] = c.support
  BY <1>1
<1>3. Thicknesses(slices) = t
  BY DEF Thicknesses, Slice
<1> HIDE DEF t
<1>4. Sums(t)[0] = 0 /\ Sums(t)[1] = Sums(t)[0] + t[1] /\ Sums(t)[2] = Sums(t)[1] + t[2]
  BY <1>2, SumsAre
<1>5. 1 \in DOMAIN slices /\ slices[1].thickness = c.thickness
  BY DEF Slice
<1> HIDE DEF slices
<1>6. Below(slices, 1) = 0 /\ Thickness(slices) = c.thickness + c.support
  <2>1. Below(slices, 1) = Sums(t)[0]
    <3>1. 1 - 1 = 0
      OBVIOUS
    <3> QED
      BY <1>3, <3>1 DEF Below
  <2>2. Thickness(slices) = Sums(t)[2]
    BY <1>2, <1>3, Zenon DEF Thickness, Total
  <2> QED
    BY <1>1, <1>2, <1>4, <2>1, <2>2
<1>7. LadderStack(c)[1].middle = 2 * Below(slices, 1) + slices[1].thickness - Thickness(slices)
  BY <1>5, Zenon DEF LadderStack, Stacked, Placed, slices
<1> QED
  BY <1>1, <1>5, <1>6, <1>7

LEMMA PlanarsDescribed ==
  ASSUME PlanarMade
  PROVE  RecordsDescribeTheSensors
<1>1. PICK c \in AroundTPCFiles :
        \E layers : PlanarMakes(built, c, layers) /\ detector = SimplePlanar(c, layers)
  BY DEF PlanarMade
<1>2. PICK layers : PlanarMakes(built, c, layers) /\ detector = SimplePlanar(c, layers)
  BY <1>1
<1> DEFINE of(l) == {p \in PlanarPlaces(layers) : p[1] = l}
<1> SUFFICES ASSUME NEW l \in DOMAIN layers
             PROVE  Describes(LadderRecord(c, layers[l], of(l)))
  <2>1. detector.layers = [l \in DOMAIN layers |-> LadderRecord(c, layers[l], of(l))]
    BY <1>2 DEF SimplePlanar
  <2> HIDE DEF of
  <2> QED
    BY <2>1, EachDescribes
<1> DEFINE layer == layers[l]
           r == LadderRecord(c, layer, of(l))
           at(j, s) == PlanarSensor(c, layer, <<l, j, s>>)
           m == layer.nladders
<1>3. PICK radius, n : n \in Nat /\ n > 0 /\ radius \in Int /\ layer = Built(c, l, radius, n)
  BY <1>2 DEF PlanarMakes
<1> DEFINE d == c.sensorLength
<1>4. /\ m \in Nat /\ m > 0 /\ layer.nsensors = n /\ layer.radius = radius
      /\ layer.zlength = n * d /\ layer.outwards \in {1, -1} /\ d \in Nat /\ d > 0
  <2>1. l \in DOMAIN c.layers
    BY <1>2 DEF PlanarMakes
  <2> QED
    BY <1>3, <2>1, AroundTPCFilesAssumption DEF IsAroundTPCFile, Built
<1>5. SensorsIn(r) = {at(j, s) : j \in 0..(m - 1), s \in 0..(n - 1)}
  <2>1. detector.sensors = {PlanarSensor(c, layers[p[1]], p) : p \in PlanarPlaces(layers)}
    BY <1>2 DEF SimplePlanar
  <2>2. r.of = of(l)
    BY DEF LadderRecord
  <2>3. \A p \in PlanarPlaces(layers) :
          p[1] = l => p = <<l, p[2], p[3]>> /\ p[2] \in 0..(m - 1) /\ p[3] \in 0..(n - 1)
    BY <1>4 DEF PlanarPlaces
  <2>4. \A j \in 0..(m - 1), s \in 0..(n - 1) : <<l, j, s>> \in PlanarPlaces(layers)
    BY <1>4 DEF PlanarPlaces
  <2>5. \A x, p : PlanarSensor(c, x, p).at = p
    BY DEF PlanarSensor
  <2> HIDE DEF r, m
  <2>6. ASSUME NEW x \in SensorsIn(r)
        PROVE  x \in {at(j, s) : j \in 0..(m - 1), s \in 0..(n - 1)}
    <3>1. x \in detector.sensors /\ x.at \in of(l)
      BY <2>2 DEF SensorsIn
    <3>2. PICK p \in PlanarPlaces(layers) : x = PlanarSensor(c, layers[p[1]], p)
      BY <2>1, <3>1
    <3>3. p[1] = l
      BY <2>5, <3>1, <3>2
    <3>4. p = <<l, p[2], p[3]>> /\ p[2] \in 0..(m - 1) /\ p[3] \in 0..(n - 1)
      BY <2>3, <3>3
    <3>5. x = at(p[2], p[3])
      BY <3>2, <3>3, <3>4
    <3> HIDE DEF at
    <3> QED
      BY <3>4, <3>5
  <2>7. ASSUME NEW j \in 0..(m - 1), NEW s \in 0..(n - 1)
        PROVE  at(j, s) \in SensorsIn(r)
    <3> DEFINE p == <<l, j, s>>
    <3>1. p \in PlanarPlaces(layers) /\ p[1] = l
      BY <2>4
    <3> HIDE DEF p
    <3>2. PlanarSensor(c, layers[p[1]], p) \in detector.sensors
      BY <2>1, <3>1
    <3>3. PlanarSensor(c, layer, p) \in SensorsIn(r)
      BY <2>2, <2>5, <3>1, <3>2 DEF SensorsIn
    <3> QED
      BY <3>3 DEF p
  <2> HIDE DEF at
  <2> QED
    BY <2>6, <2>7
<1>6. \A j, s : /\ at(j, s).lo = -layer.zlength + 2 * s * d
                /\ at(j, s).hi = -layer.zlength + 2 * (s + 1) * d
                /\ at(j, s).thickness = c.thickness
                /\ at(j, s).pos = Ladder(c, layer) + layer.outwards * LadderStack(c)[1].middle
  BY DEF PlanarSensor
<1>7. /\ r.lo = -layer.zlength /\ r.hi = layer.zlength /\ r.thickness = c.thickness
      /\ r.middle = 2 * radius - c.thickness + c.thickness
  BY <1>4 DEF LadderRecord
<1>8. \A j, s : at(j, s).pos = 2 * radius
  <2>1. Ladder(c, layer) = 2 * radius + layer.outwards * (c.thickness + c.support - c.thickness)
    BY <1>4 DEF Ladder
  <2>2. c.thickness \in Nat /\ c.support \in Nat /\ LadderStack(c)[1].middle = 0 - c.support
    BY LadderFacesSensors
  <2>3. layer.outwards * (c.thickness + c.support - c.thickness)
          = 0 - layer.outwards * (0 - c.support)
    BY <1>4, <2>2
  <2>4. PICK w \in Int : w = layer.outwards * (0 - c.support)
    BY <1>4, <2>2
  <2>5. Ladder(c, layer) + layer.outwards * LadderStack(c)[1].middle = 2 * radius
    BY <1>3, <2>1, <2>2, <2>3, <2>4
  <2> QED
    BY <1>6, <2>5
<1> HIDE DEF r, d, at, layer, m
<1>9. at(0, 0) \in SensorsIn(r) /\ at(0, n - 1) \in SensorsIn(r)
  <2>1. 0 \in 0..(m - 1) /\ 0 \in 0..(n - 1) /\ n - 1 \in 0..(n - 1)
    BY <1>3, <1>4
  <2> QED
    BY <1>5, <2>1
<1> DEFINE z == n * d
<1>10. \A j : \A s \in 0..(n - 1) : /\ z \in Int /\ -z <= at(j, s).lo /\ at(j, s).lo \in Int
                                    /\ at(j, s).hi <= z /\ at(j, s).hi \in Int
  <2> TAKE j
  <2> TAKE s \in 0..(n - 1)
  <2>1. 0 <= d * s /\ d * s + d <= d * n
    BY <1>3, <1>4, InARow
  <2>2. s \in Int /\ d * s \in Int /\ 2 * s * d = 2 * (d * s) /\ 2 * (s + 1) * d = 2 * (d * s) + 2 * d
        /\ z = d * n /\ d * n \in Int
    BY <1>3, <1>4
  <2>3. at(j, s).lo = -(d * n) + 2 * (d * s) /\ at(j, s).hi = -(d * n) + (2 * (d * s) + 2 * d)
    BY <1>4, <1>6, <2>2
  <2> QED
    BY <1>4, <2>1, <2>2, <2>3
<1>11. at(0, 0).lo = r.lo /\ at(0, n - 1).hi = r.hi
  <2>1. 2 * 0 * d = 0 /\ 2 * (n - 1 + 1) * d = 2 * (n * d) /\ n * d \in Int
    BY <1>3, <1>4
  <2> QED
    BY <1>4, <1>6, <1>7, <2>1
<1>12. ASSUME NEW x \in SensorsIn(r)
       PROVE  /\ x.lo \in Int /\ at(0, 0).lo <= x.lo
              /\ x.hi \in Int /\ x.hi <= at(0, n - 1).hi
              /\ x.thickness = r.thickness
  <2>1. PICK j \in 0..(m - 1), s \in 0..(n - 1) : x = at(j, s)
    BY <1>5
  <2> QED
    BY <1>4, <1>6, <1>7, <1>10, <1>11, <2>1
<1>13. at(0, 0).pos = r.middle
  <2>1. c.thickness \in Nat
    BY LadderFacesSensors
  <2>2. 2 * radius - c.thickness + c.thickness = 2 * radius
    BY <1>3, <2>1
  <2> QED
    BY <1>7, <1>8, <2>2
<1>14. Describes(r)
  BY <1>9, <1>11, <1>12, <1>13, Spanned
<1> QED
  BY <1>14 DEF r, layer

\* The places in a stave divide it evenly.
LEMMA PlacesInStave ==
  ASSUME NEW c \in BarrelFiles, NEW l \in DOMAIN c.layers
  PROVE  LET layer == c.layers[l]
         IN /\ layer.nz \in Nat /\ layer.nz > 0 /\ layer.z0 \in Nat
            /\ ZIncrement(layer) \in Nat
            /\ ZIncrement(layer) * (layer.nz - 1) = 2 * layer.z0
            /\ \A j \in 0..(layer.nz - 1) : ZIncrement(layer) * j \in 0..(2 * layer.z0)
<1> DEFINE layer == c.layers[l]
           n == layer.nz
           z == layer.z0
           d == ZIncrement(layer)
<1>1. /\ n \in Nat /\ n > 0 /\ z \in Nat
      /\ IF n = 1 THEN z = 0 ELSE (2 * z) % (n - 1) = 0
  BY BarrelFilesAssumption DEF IsBarrelFile
<1>2. d = IF n > 1 THEN (2 * z) \div (n - 1) ELSE 0
  BY DEF ZIncrement
<1> HIDE DEF d, z, n, layer
<1>3. d \in Nat /\ d * (n - 1) = 2 * z
  <2>1. CASE n = 1
    BY <1>1, <1>2, <2>1
  <2>2. CASE n # 1
    <3> DEFINE m == n - 1
               a == 2 * z
               q == a \div m
               k == a % m
    <3>1. m \in Nat /\ m > 0 /\ a \in Nat /\ k = 0 /\ d = q
      BY <1>1, <1>2, <2>2
    <3>2. q \in Nat /\ a = (m * q) + k
      <4>1. \A x, y \in Nat : y > 0 => x \div y \in Nat /\ x = (y * (x \div y)) + (x % y)
        OBVIOUS
      <4> HIDE DEF m, a
      <4> QED
        BY <3>1, <4>1
    <3> HIDE DEF m, a, q, k
    <3>3. d * m = a
      BY <3>1, <3>2
    <3> QED
      BY <3>1, <3>2, <3>3 DEF m, a
  <2> QED
    BY <2>1, <2>2
<1>4. ASSUME NEW j \in 0..(n - 1) PROVE d * j \in 0..(2 * z)
  <2>1. PICK k \in Nat : n - 1 = j + k
    <3>1. n - 1 - j \in Nat /\ n - 1 = j + (n - 1 - j)
      BY <1>1
    <3> QED
      BY <3>1
  <2>2. j \in Nat /\ d * (n - 1) = d * j + d * k
    BY <1>1, <1>3, <2>1
  <2>3. d * j \in Nat /\ d * k \in Nat
    BY <1>3, <2>1, <2>2
  <2> QED
    BY <1>1, <1>3, <2>2, <2>3
<1> QED
  BY <1>1, <1>3, <1>4 DEF d, z, n, layer

LEMMA BarrelsDescribed ==
  ASSUME BarrelMade
  PROVE  RecordsDescribeTheSensors
<1>1. PICK c \in BarrelFiles : \E v : BarrelMakes(built, c, v) /\ detector = Barrel(c, v)
  BY DEF BarrelMade
<1>2. PICK v : BarrelMakes(built, c, v) /\ detector = Barrel(c, v)
  BY <1>1
<1> SUFFICES ASSUME built \notin WrongRecords, NEW l \in DOMAIN c.layers
             PROVE  Describes(PlanarLayer(c, v, l))
  <2>1. detector.layers = [l \in DOMAIN c.layers |-> PlanarLayer(c, v, l)]
    BY <1>2 DEF Barrel
  <2> QED
    BY <2>1, EachDescribes
<1> DEFINE r == PlanarLayer(c, v, l)
           layer == c.layers[l]
           module == c.modules[layer.module]
           slices == module.slices
           n == layer.nz
           z == layer.z0
           h == module.halfLength
           d == ZIncrement(layer)
           s == Min(SensitiveOf(slices))
           at(ii, j) == BarrelSensor(c, v, l, ii, j, s)
<1>3. v.record = "stave" /\ OneInEachModule(c)
  BY <1>2 DEF BarrelMakes
<1>4. /\ layer.module \in DOMAIN c.modules /\ IsStack(slices) /\ h \in Int
      /\ layer.nphi \in Nat /\ layer.nphi > 1 /\ layer.rc \in Int
  BY BarrelFilesAssumption DEF IsBarrelFile
<1>5. SensitiveOf(slices) = {s}
  <2>1. Cardinality(SensitiveOf(slices)) = 1
    BY <1>3, <1>4 DEF OneInEachModule
  <2>2. IsStack(slices)
    BY <1>4
  <2> HIDE DEF slices
  <2>3. SensitiveOf(slices) # {}
    BY <2>1, FS_EmptySet
  <2>4. Cardinality(SensitiveOf(slices)) <= 1
    BY <2>1
  <2>5. PICK i : i \in SensitiveOf(slices)
    BY <2>3
  <2>6. SensitiveOf(slices) = {i}
    BY <2>2, <2>4, <2>5, TheSensitiveSlice
  <2>7. i \in Nat
    <3>1. DOMAIN slices = 1..Len(slices) /\ Len(slices) \in Nat
      BY <2>2, Stacks
    <3> QED
      BY <2>5, <3>1 DEF SensitiveOf
  <2> DEFINE S == SensitiveOf(slices)
  <2>8. S \subseteq Int /\ i \in S /\ \A y \in S : i <= y
    BY <2>6, <2>7
  <2> HIDE DEF S
  <2>9. Min(S) = i
    BY <2>8, LeastIs, Zenon
  <2> QED
    BY <2>6, <2>9 DEF S
<1>6. /\ n \in Nat /\ n > 0 /\ z \in Nat /\ d \in Nat /\ d * (n - 1) = 2 * z
      /\ \A j \in 0..(n - 1) : d * j \in 0..(2 * z)
  BY PlacesInStave
<1>7. \A ii, j :
        /\ at(ii, j).at = <<l, ii, j, s>>
        /\ at(ii, j).lo = 2 * ((-z + j * d) - h) /\ at(ii, j).hi = 2 * ((-z + j * d) + h)
        /\ at(ii, j).thickness = slices[s].thickness
        /\ at(ii, j).pos = 2 * (StaveRadius(layer, ii) + (IF j % 2 = 0 THEN 0 ELSE layer.zdr))
                             + ModuleStack(v, module)[s].middle
  <2> DEFINE place(ii, j) == <<l, ii, j, s>>
             lo(j) == 2 * ((-z + j * d) - h)
             hi(j) == 2 * ((-z + j * d) + h)
             pos(ii, j) == 2 * (StaveRadius(layer, ii) + (IF j % 2 = 0 THEN 0 ELSE layer.zdr))
                             + ModuleStack(v, module)[s].middle
             ids(ii, j) == BarrelIds(c, v, l, ii, j, s)
             t == slices[s].thickness
  <2> TAKE ii, j
  <2>1. at(ii, j) = [at |-> place(ii, j), ids |-> ids(ii, j), pos |-> pos(ii, j),
                     lo |-> lo(j), hi |-> hi(j), thickness |-> t]
    BY DEF BarrelSensor, Layer, LayerModule
  <2> HIDE DEF place, lo, hi, pos, ids, t, at
  <2>2. /\ at(ii, j).at = place(ii, j) /\ at(ii, j).pos = pos(ii, j) /\ at(ii, j).lo = lo(j)
        /\ at(ii, j).hi = hi(j) /\ at(ii, j).thickness = t
    BY <2>1
  <2> QED
    BY <2>2 DEF place, lo, hi, pos, t
<1>8. /\ r.of = {p \in BarrelPlaces(c) : p[1] = l}
      /\ r.lo = -2 * (h + z) /\ r.hi = 2 * (h + z) /\ r.thickness = slices[s].thickness
      /\ r.middle = 2 * layer.rc + ModuleStack(v, module)[s].middle
  BY <1>3 DEF PlanarLayer, Layer, LayerModule
<1>9. \A ii \in 0..(layer.nphi - 1), j \in 0..(n - 1) : <<l, ii, j, s>> \in BarrelPlaces(c)
  <2>1. s \in SensitiveOf(slices)
    BY <1>5
  <2> HIDE DEF s
  <2> QED
    BY <2>1 DEF BarrelPlaces, Layer, LayerModule
<1>10. detector.sensors = {BarrelSensor(c, v, p[1], p[2], p[3], p[4]) : p \in BarrelPlaces(c)}
  BY <1>2 DEF Barrel
<1>11. SensorsIn(r) = {at(ii, j) : ii \in 0..(layer.nphi - 1), j \in 0..(n - 1)}
  <2>1. ASSUME NEW x \in SensorsIn(r)
        PROVE  x \in {at(ii, j) : ii \in 0..(layer.nphi - 1), j \in 0..(n - 1)}
    <3>1. x \in detector.sensors /\ x.at \in r.of
      BY DEF SensorsIn
    <3>2. PICK p \in BarrelPlaces(c) : x = BarrelSensor(c, v, p[1], p[2], p[3], p[4])
      BY <1>10, <3>1
    <3>3. x.at = <<p[1], p[2], p[3], p[4]>>
      BY <3>2 DEF BarrelSensor
    <3>4. x.at[1] = l
      BY <1>8, <3>1
    <3>5. p[1] = l
      BY <3>3, <3>4
    <3>6. p[2] \in 0..(layer.nphi - 1) /\ p[3] \in 0..(n - 1) /\ p[4] \in SensitiveOf(slices)
      BY <3>5, BarrelPlacesAre
    <3>7. p[4] = s
      BY <1>5, <3>6
    <3>8. x = at(p[2], p[3])
      BY <3>2, <3>5, <3>7
    <3> HIDE DEF at, layer, n
    <3> QED
      BY <3>6, <3>8
  <2>2. ASSUME NEW ii \in 0..(layer.nphi - 1), NEW j \in 0..(n - 1)
        PROVE  at(ii, j) \in SensorsIn(r)
    <3> DEFINE p == <<l, ii, j, s>>
    <3>1. p \in BarrelPlaces(c) /\ p[1] = l
      BY <1>9
    <3>2. at(ii, j) = BarrelSensor(c, v, p[1], p[2], p[3], p[4])
      OBVIOUS
    <3>3. at(ii, j).at = p
      BY <1>7
    <3> HIDE DEF p, at, r
    <3> QED
      BY <1>8, <1>10, <3>1, <3>2, <3>3 DEF SensorsIn
  <2> HIDE DEF at, r
  <2> QED
    BY <2>1, <2>2
<1>12. at(0, 0).pos = r.middle
  <2>1. StaveRadius(layer, 0) = layer.rc
    <3>1. 0 % 2 = 0
      OBVIOUS
    <3> QED
      BY <1>4, <3>1 DEF StaveRadius
  <2>2. 2 * (StaveRadius(layer, 0) + (IF 0 % 2 = 0 THEN 0 ELSE layer.zdr)) = 2 * layer.rc
    <3>1. 0 % 2 = 0
      OBVIOUS
    <3> HIDE DEF layer
    <3> QED
      BY <1>4, <2>1, <3>1
  <2> HIDE DEF at, r, layer, module
  <2> DEFINE shift(j) == IF j % 2 = 0 THEN 0 ELSE layer.zdr
             middle == ModuleStack(v, module)[s].middle
  <2>3. at(0, 0).pos = 2 * (StaveRadius(layer, 0) + shift(0)) + middle
    BY <1>7
  <2>4. r.middle = 2 * layer.rc + middle
    BY <1>8
  <2>5. 2 * (StaveRadius(layer, 0) + shift(0)) = 2 * layer.rc
    BY <2>2
  <2> HIDE DEF shift, middle
  <2> QED
    BY <2>3, <2>4, <2>5
<1> HIDE DEF r, at, s, d, h, z, n, slices, module, layer
<1>13. at(0, 0) \in SensorsIn(r) /\ at(0, n - 1) \in SensorsIn(r)
  <2>1. 0 \in 0..(layer.nphi - 1) /\ 0 \in 0..(n - 1) /\ n - 1 \in 0..(n - 1)
    BY <1>4, <1>6
  <2> QED
    BY <1>11, <2>1
<1>14. at(0, 0).lo = r.lo /\ at(0, n - 1).hi = r.hi
  <2>1. 0 * d = 0 /\ (n - 1) * d = 2 * z
    BY <1>6
  <2>2. at(0, 0).lo = 2 * (-z - h) /\ at(0, n - 1).hi = 2 * (z + h)
    BY <1>4, <1>6, <1>7, <2>1
  <2> QED
    BY <1>4, <1>6, <1>8, <2>2
<1>15. ASSUME NEW x \in SensorsIn(r)
       PROVE  /\ x.lo \in Int /\ at(0, 0).lo <= x.lo
              /\ x.hi \in Int /\ x.hi <= at(0, n - 1).hi
              /\ x.thickness = r.thickness
  <2>1. PICK ii \in 0..(layer.nphi - 1), j \in 0..(n - 1) : x = at(ii, j)
    BY <1>11
  <2>2. j \in Int /\ j * d = d * j /\ d * j \in 0..(2 * z)
    BY <1>6
  <2>3. PICK w \in 0..(2 * z) : w = j * d
    BY <2>2
  <2>4. x.lo = 2 * ((-z + w) - h) /\ x.hi = 2 * ((-z + w) + h) /\ x.thickness = r.thickness
    BY <1>7, <1>8, <2>1, <2>3
  <2>5. at(0, 0).lo = -2 * (h + z) /\ at(0, n - 1).hi = 2 * (h + z)
    BY <1>8, <1>14
  <2> QED
    BY <1>4, <1>6, <2>3, <2>4, <2>5
<1>16. Describes(r)
  BY <1>12, <1>13, <1>14, <1>15, Spanned
<1> QED
  BY <1>16 DEF r

\* A record of a disk is of some rings of one layer.
DiskRecords(c, v) ==
  {DiskLayer(c, v, x[1], x[2], x[3]) :
     x \in {y \in (DOMAIN c.layers) \X Nat \X Nat :
              y[2] > 0 /\ y[3] <= Len(c.layers[y[1]].rings)}}

IsRecorded(v) == v.record \in {"none", "ring", "the only ring", "disk"}

LEMMA DiskRecordsAre ==
  ASSUME NEW c \in EndcapFiles, NEW v, IsRecorded(v)
  PROVE  DiskLayers(c, v) \in Seq(DiskRecords(c, v))
<1> DEFINE S == DiskRecords(c, v)
           n == Len(c.layers)
           rings(l) == Len(c.layers[l].rings)
           all(l) == [i \in 1..rings(l) |-> DiskLayer(c, v, l, i, i)]
           one(l) == <<DiskLayer(c, v, l, 1, rings(l))>>
           ofLayer(l) == CASE v.record = "none" -> <<>>
                           [] v.record \in {"ring", "the only ring"} -> all(l)
                           [] v.record = "disk" -> one(l)
           rows == [l \in DOMAIN c.layers |-> ofLayer(l)]
<1>1. n \in Nat /\ DOMAIN c.layers = 1..n
  BY EndcapFilesAssumption, Lists DEF IsEndcapFile
<1>2. \A l \in DOMAIN c.layers : rings(l) \in Nat
  BY EndcapFilesAssumption, Lists DEF IsEndcapFile
<1>3. DiskLayers(c, v) = FlattenSeq(rows)
  BY DEF DiskLayers
<1>4. \A l \in DOMAIN c.layers : \A i, j \in Nat :
        i > 0 /\ j <= rings(l) => DiskLayer(c, v, l, i, j) \in S
  <2> TAKE l \in DOMAIN c.layers
  <2> TAKE i, j \in Nat
  <2> DEFINE x == <<l, i, j>>
  <2> HAVE i > 0 /\ j <= rings(l)
  <2>1. /\ x \in (DOMAIN c.layers) \X Nat \X Nat /\ x[2] > 0
        /\ x[3] <= Len(c.layers[x[1]].rings)
    OBVIOUS
  <2>2. DiskLayer(c, v, l, i, j) = DiskLayer(c, v, x[1], x[2], x[3])
    OBVIOUS
  <2> HIDE DEF x
  <2> QED
    BY <2>1, <2>2 DEF DiskRecords
<1> HIDE DEF S
<1>5. \A l \in DOMAIN c.layers : all(l) \in Seq(S) /\ one(l) \in Seq(S)
  <2> TAKE l \in DOMAIN c.layers
  <2> DEFINE m == rings(l)
             record(i, j) == DiskLayer(c, v, l, i, j)
             row == [i \in 1..m |-> record(i, i)]
             whole == record(1, m)
  <2>1. m \in Nat
    BY <1>2
  <2>2. \A i, j \in Nat : i > 0 /\ j <= m => record(i, j) \in S
    BY <1>4
  <2> HIDE DEF m, record
  <2>3. whole \in S /\ \A i \in 1..m : record(i, i) \in S
    BY <2>1, <2>2
  <2>4. row \in [1..m -> S]
    BY <2>3
  <2> HIDE DEF row, whole
  <2>5. row \in Seq(S)
    BY <2>1, <2>4, RowsOf
  <2>6. <<whole>> \in Seq(S)
    BY <2>3
  <2> QED
    BY <2>5, <2>6 DEF row, whole, m, record
<1> HIDE DEF all, one
<1>6. \A l \in DOMAIN c.layers : ofLayer(l) \in Seq(S)
  <2> TAKE l \in DOMAIN c.layers
  <2>1. ofLayer(l) \in {<<>>, all(l), one(l)}
    BY DEF IsRecorded
  <2>2. <<>> \in Seq(S)
    OBVIOUS
  <2> HIDE DEF ofLayer
  <2> QED
    BY <1>5, <2>1, <2>2, Zenon
<1> HIDE DEF ofLayer
<1>7. rows \in [1..n -> Seq(S)]
  BY <1>1, <1>6
<1> HIDE DEF rows, n
<1>8. rows \in Seq(Seq(S))
  BY <1>1, <1>7, RowsOf
<1> QED
  BY <1>3, <1>8, Flattened DEF S

\* A ring is recorded from where its sensors begin to where they end.
LEMMA RingsAreRecorded ==
  ASSUME NEW type, type \notin WrongRecords, NEW c \in EndcapFiles, NEW v, EndcapMakes(type, c, v),
         NEW l \in DOMAIN c.layers, NEW i \in DOMAIN c.layers[l].rings, NEW side, NEW k, NEW s
  PROVE  LET extent == RecordedExtent(v, Ring(c, l, i), RingModule(c, l, i))
             sensor == EndcapSensor(c, v, side, l, i, k, s)
         IN sensor.lo = extent[1] /\ sensor.hi = extent[2]
<1> DEFINE ring == Ring(c, l, i)
           module == RingModule(c, l, i)
           r == RadialCentre(v, ring, module)
           h == module.halfLength
           extent == RecordedExtent(v, ring, module)
           sensor == EndcapSensor(c, v, side, l, i, k, s)
<1>1. ring.r \in Int /\ h \in Int
  BY EndcapFilesAssumption DEF IsEndcapFile, Ring, RingModule
<1>2. sensor.lo = r - 2 * h /\ sensor.hi = r + 2 * h
  BY DEF EndcapSensor
<1> HIDE DEF ring, module
<1>3. ASSUME v.centre = "r", v.extent = "half length"
      PROVE  extent[1] = sensor.lo /\ extent[2] = sensor.hi
  <2>1. r = 2 * ring.r + 0
    BY <1>3 DEF RadialCentre
  <2>2. extent = <<2 * ring.r - 2 * h, 2 * ring.r + 2 * h>>
    BY <1>3 DEF RecordedExtent
  <2> HIDE DEF r, extent, sensor, h
  <2> QED
    BY <1>1, <1>2, <2>1, <2>2
<1>4. ASSUME v.centre = "inner edge", v.extent = "length"
      PROVE  extent[1] = sensor.lo /\ extent[2] = sensor.hi
  <2>1. r = 2 * ring.r + 2 * h
    BY <1>4 DEF RadialCentre
  <2>2. extent = <<2 * ring.r, 2 * ring.r + 4 * h>>
    BY <1>4 DEF RecordedExtent
  <2> HIDE DEF r, extent, sensor, h
  <2>3. /\ (2 * ring.r + 2 * h) - 2 * h = 2 * ring.r
        /\ (2 * ring.r + 2 * h) + 2 * h = 2 * ring.r + 4 * h
    BY <1>1
  <2> QED
    BY <1>1, <1>2, <2>1, <2>2, <2>3
<1>5. extent[1] = sensor.lo /\ extent[2] = sensor.hi
  <2>1. \/ v.centre = "r" /\ v.extent = "half length"
        \/ v.centre = "inner edge" /\ v.extent = "length"
    BY DEF EndcapMakes
  <2> HIDE DEF extent, sensor
  <2> QED
    BY <1>3, <1>4, <2>1
<1> QED
  BY <1>5 DEF ring, module

LEMMA EndcapsDescribed ==
  ASSUME EndcapMade
  PROVE  RecordsDescribeTheSensors
<1>1. PICK c \in EndcapFiles : \E v : EndcapMakes(built, c, v) /\ detector = Endcap(c, v)
  BY DEF EndcapMade
<1>2. PICK v : EndcapMakes(built, c, v) /\ detector = Endcap(c, v)
  BY <1>1
<1>3. CASE detector = Thrown
  BY <1>3, NothingEntered
<1>4. CASE detector # Thrown
  <2>1. /\ detector.sensors = {EndcapSensor(c, v, p[1], p[2], p[3], p[4], p[5]) : p \in EndcapPlaces(c)}
        /\ detector.layers = DiskLayers(c, v)
    BY <1>2, <1>4 DEF Endcap
  <2>2. detector.layers \in Seq(DiskRecords(c, v))
    <3>1. IsRecorded(v)
      BY <1>2 DEF EndcapMakes, IsRecorded
    <3>2. DiskLayers(c, v) \in Seq(DiskRecords(c, v))
      BY <3>1, DiskRecordsAre
    <3> QED
      BY <2>1, <3>2
  <2>3. \A m \in DOMAIN detector.layers : detector.layers[m] \in DiskRecords(c, v)
    BY <2>2
  <2> SUFFICES ASSUME built \notin WrongRecords,
                      NEW l \in DOMAIN c.layers, NEW i \in Nat, NEW j \in Nat,
                      i > 0, j <= Len(c.layers[l].rings)
               PROVE  Describes(DiskLayer(c, v, l, i, j))
    <3> SUFFICES ASSUME built \notin WrongRecords, NEW m \in DOMAIN detector.layers
                 PROVE  Describes(detector.layers[m])
      BY EachDescribes
    <3>1. PICK x \in (DOMAIN c.layers) \X Nat \X Nat :
            /\ x[2] > 0 /\ x[3] <= Len(c.layers[x[1]].rings)
            /\ detector.layers[m] = DiskLayer(c, v, x[1], x[2], x[3])
      BY <2>3 DEF DiskRecords
    <3>2. x[1] \in DOMAIN c.layers /\ x[2] \in Nat /\ x[3] \in Nat
      OBVIOUS
    <3> QED
      BY <3>1, <3>2
  <2> DEFINE r == DiskLayer(c, v, l, i, j)
             extent(m) == RecordedExtent(v, Ring(c, l, m), RingModule(c, l, m))
             at(side, m, k, s) == EndcapSensor(c, v, side, l, m, k, s)
             los == {s.lo : s \in SensorsIn(r)}
             his == {s.hi : s \in SensorsIn(r)}
  <2>4. i..j \subseteq DOMAIN c.layers[l].rings
    <3>1. DOMAIN c.layers[l].rings = 1..Len(c.layers[l].rings) /\ Len(c.layers[l].rings) \in Nat
      BY EndcapFilesAssumption, Lists DEF IsEndcapFile
    <3> QED
      BY <3>1
  <2>5. \A m \in i..j : \A side, k, s : /\ at(side, m, k, s).lo = extent(m)[1]
                                        /\ at(side, m, k, s).hi = extent(m)[2]
    BY <1>2, <2>4, RingsAreRecorded
  <2>6. r.of = {p \in EndcapPlaces(c) : p[2] = l /\ p[3] \in i..j}
    BY DEF DiskLayer
  <2>7. ASSUME NEW x \in SensorsIn(r)
        PROVE  \E m \in i..j : x.lo = extent(m)[1] /\ x.hi = extent(m)[2]
    <3>1. x \in detector.sensors /\ x.at \in r.of
      BY DEF SensorsIn
    <3>2. PICK p \in EndcapPlaces(c) : x = EndcapSensor(c, v, p[1], p[2], p[3], p[4], p[5])
      BY <2>1, <3>1
    <3>3. x.at = <<p[1], p[2], p[3], p[4], p[5]>>
      BY <3>2 DEF EndcapSensor
    <3>4. x.at[2] = l /\ x.at[3] \in i..j
      BY <2>6, <3>1
    <3>5. p[2] = l /\ p[3] \in i..j
      BY <3>3, <3>4
    <3>6. x = at(p[1], p[3], p[4], p[5])
      BY <3>2, <3>5
    <3> HIDE DEF at, extent
    <3> QED
      BY <2>5, <3>5, <3>6
  <2>8. ASSUME NEW m \in i..j
        PROVE  \E x \in SensorsIn(r) : x.lo = extent(m)[1] /\ x.hi = extent(m)[2]
    <3> DEFINE ring == c.layers[l].rings[m]
               slices == c.modules[ring.module].slices
    <3>1. ring.module \in DOMAIN c.modules /\ ring.nmodules \in Nat /\ ring.nmodules > 0
      BY <2>4, EndcapFilesAssumption DEF IsEndcapFile
    <3>2. SensitiveOf(slices) # {}
      BY <3>1, EndcapFilesAssumption, Zenon DEF IsEndcapFile
    <3>3. PICK s : s \in SensitiveOf(slices)
      BY <3>2
    <3> DEFINE p == <<1, l, m, 0, s>>
               li == <<l, m>>
    <3>4. p \in EndcapPlaces(c)
      <4>1. li \in RingsOf(c)
        BY <2>4 DEF RingsOf
      <4>2. 1 \in Sides(c) /\ 0 \in 0..(Ring(c, li[1], li[2]).nmodules - 1)
            /\ s \in SensitiveOf(RingModule(c, li[1], li[2]).slices)
            /\ p = <<1, li[1], li[2], 0, s>>
        BY <3>1, <3>3 DEF Sides, Ring, RingModule
      <4> HIDE DEF li, p
      <4> QED
        BY <4>1, <4>2 DEF EndcapPlaces
    <3>5. at(1, m, 0, s) \in detector.sensors
      <4>1. at(1, m, 0, s) = EndcapSensor(c, v, p[1], p[2], p[3], p[4], p[5])
        OBVIOUS
      <4> HIDE DEF p, at
      <4> QED
        BY <2>1, <3>4, <4>1
    <3>6. at(1, m, 0, s).at = p
      BY DEF EndcapSensor
    <3>7. p \in r.of
      BY <2>6, <3>4
    <3>8. at(1, m, 0, s) \in SensorsIn(r)
      <4> HIDE DEF r, at, p
      <4> QED
        BY <3>5, <3>6, <3>7 DEF SensorsIn
    <3> HIDE DEF at, r, extent
    <3> QED
      BY <2>5, <3>8
  <2>9. los = {extent(m)[1] : m \in i..j} /\ his = {extent(m)[2] : m \in i..j}
    <3> DEFINE S == SensorsIn(r)
               lo(m) == extent(m)[1]
               hi(m) == extent(m)[2]
    <3>1. \A x \in S : \E m \in i..j : x.lo = lo(m) /\ x.hi = hi(m)
      BY <2>7
    <3>2. \A m \in i..j : \E x \in S : x.lo = lo(m) /\ x.hi = hi(m)
      BY <2>8
    <3> HIDE DEF S, lo, hi
    <3>3. {x.lo : x \in S} = {lo(m) : m \in i..j} /\ {x.hi : x \in S} = {hi(m) : m \in i..j}
      BY <3>1, <3>2, Zenon
    <3> QED
      BY <3>3, Zenon DEF S, lo, hi
  <2>10. r = [of |-> {p \in EndcapPlaces(c) : p[2] = l /\ p[3] \in i..j},
              lo |-> Min({extent(m)[1] : m \in i..j}), hi |-> Max({extent(m)[2] : m \in i..j})]
    BY DEF DiskLayer
  <2> HIDE DEF extent, los, his
  <2>11. r.lo = Min(los) /\ r.hi = Max(his) /\ DOMAIN r = {"of", "lo", "hi"}
    BY <2>9, <2>10
  <2> HIDE DEF r
  <2>12. Describes(r)
    BY <2>11 DEF Describes, los, his
  <2> QED
    BY <2>12 DEF r
<1> QED
  BY <1>3, <1>4

-----------------------------------------------------------------------------
(* Records, of all that can be there.                                      *)

LEMMA RecordsAre ==
  ASSUME Constructed
  PROVE  RecordsDescribeTheSensors
<1>1. CASE detector = Thrown
  BY <1>1, NothingEntered
<1>2. CASE detector # Thrown
  BY <1>2, EndcapsDescribed, BarrelsDescribed, LaddersDescribed, PlanarsDescribed,
     NothingEntered, StavesUnmeasured, SteppedUnmeasured, TowersUnmeasured,
     PolygonsUnmeasured, PanelsUnmeasured, TurbinesUnmeasured, PlatesUnmeasured,
     YokeBarrelUnmeasured, YokeEndcapsUnmeasured, ChamberBarrelsUnmeasured,
     ChamberEndcapsUnmeasured, TileBarrelsUnmeasured, TilePartsUnmeasured,
     ForwardsUnmeasured, PrototypesUnmeasured, DetailedUnmeasured DEF Constructed
<1> QED
  BY <1>1, <1>2

\* Whatever description a constructor is given, what it enters for reconstruction of a
\* layer of silicon is so of the sensors that have been placed there: where they begin
\* and end, how thick they are and where one of them is; except in the five whose data
\* are known to be of something else.
THEOREM RecordsAreOfTheSensors ==
  Spec => []RecordsDescribeTheSensors
<1>1. Constructed => RecordsDescribeTheSensors
  BY RecordsAre
<1> QED
  BY <1>1, ConstructorsMakeWhatThereIs, PTL

-----------------------------------------------------------------------------
(* DetElements and the sensors they sit on. There is one for each place of *)
(* some loops; that there are finitely many of these is for their number   *)
(* to be that of their names.                                              *)

\* Where names tell DetElements apart there are as many of these as of those.
LEMMA AsManyNames ==
  ASSUME NEW E, IsFiniteSet(E), \A e, f \in E : e.name = f.name => e = f
  PROVE  Cardinality({e.name : e \in E}) = Cardinality(E)
<1> DEFINE T == {e.name : e \in E}
           n == [e \in E |-> e.name]
<1>1. n \in [E -> T]
  OBVIOUS
<1>2. \A t \in T : \E e \in E : n[e] = t
  OBVIOUS
<1>3. \A e, f \in E : n[e] = n[f] => e = f
  OBVIOUS
<1> HIDE DEF n, T
<1>4. n \in Injection(E, T)
  BY <1>1, <1>3 DEF Injection, IsInjective
<1>5. n \in Surjection(E, T)
  BY <1>1, <1>2 DEF Surjection
<1>6. Cardinality(T) = Cardinality(E)
  BY <1>4, <1>5, FS_Surjection
<1> QED
  BY <1>6 DEF T

\* The elements of the lowest level, those with the longest places, that a sensor is in.
SitsAt(level, e, s) == Len(e.on) = level /\ IsPrefix(e.on, s.at)

LEMMA SitOnTheirSensors ==
  ASSUME IsFiniteSet(detector.elements),
         \A e, f \in detector.elements : e.name = f.name => e = f,
         NEW level \in Nat,
         \A e \in detector.elements : Len(e.on) \in 0..level,
         detector.elements # {} => \E e \in detector.elements : Len(e.on) = level,
         \A s \in detector.sensors : ~ForCalibration(s) /\ detector.elements # {} =>
           \E e \in detector.elements :
             /\ SitsAt(level, e, s)
             /\ \A f \in detector.elements : SitsAt(level, f, s) => f = e
  PROVE  ElementsSitOnTheirSensors
<1> SUFFICES ASSUME detector.elements # {}
             PROVE  /\ Cardinality({e.name : e \in detector.elements})
                         = Cardinality(detector.elements)
                    /\ \A s \in detector.sensors :
                         ~ForCalibration(s) =>
                           Cardinality({e \in detector.elements :
                              Len(e.on) = Max({Len(g.on) : g \in detector.elements})
                              /\ IsPrefix(e.on, s.at)}) = 1
  BY DEF ElementsSitOnTheirSensors
<1>1. Max({Len(g.on) : g \in detector.elements}) = level
  <2> DEFINE S == {Len(g.on) : g \in detector.elements}
  <2>1. S \subseteq Int /\ level \in S /\ \A y \in S : y <= level
    OBVIOUS
  <2> HIDE DEF S
  <2>2. Max(S) = level
    BY <2>1, GreatestIs, Zenon
  <2> QED
    BY <2>2 DEF S
<1>2. Cardinality({e.name : e \in detector.elements}) = Cardinality(detector.elements)
  BY AsManyNames
<1>3. ASSUME NEW s \in detector.sensors, ~ForCalibration(s)
      PROVE  Cardinality({e \in detector.elements : Len(e.on) = level /\ IsPrefix(e.on, s.at)}) = 1
  <2>1. PICK e \in detector.elements :
          SitsAt(level, e, s) /\ \A f \in detector.elements : SitsAt(level, f, s) => f = e
    BY <1>3
  <2>2. {f \in detector.elements : Len(f.on) = level /\ IsPrefix(f.on, s.at)} = {e}
    BY <2>1 DEF SitsAt
  <2> QED
    BY <2>2, FS_Singleton, Zenon
<1> QED
  BY <1>1, <1>2, <1>3

\* Two places that a third one begins with are the same if they are as long.
LEMMA OneBeginning ==
  ASSUME NEW n \in Nat, NEW p, NEW q, NEW at, IsChoice(p, n), IsChoice(q, n),
         IsPrefix(p, at), IsPrefix(q, at)
  PROVE  p = q
<1>1. SubSeq(p, 1, n) = SubSeq(at, 1, n) /\ SubSeq(q, 1, n) = SubSeq(at, 1, n)
  BY DEF IsPrefix, IsChoice
<1>2. SubSeq(p, 1, n) = p /\ SubSeq(q, 1, n) = q
  BY DEF IsChoice
<1> QED
  BY <1>1, <1>2

LEMMA ItsOwnBeginning ==
  ASSUME NEW n \in Nat, NEW p, IsChoice(p, n)
  PROVE  IsPrefix(p, p)
BY DEF IsPrefix, IsChoice

\* One DetElement for each of the places P of n loops.
LEMMA OneForEachPlace ==
  ASSUME NEW n \in Nat, NEW P, IsFiniteSet(P), \A p \in P : IsChoice(p, n),
         NEW N, \A p, q \in P : N[p] = N[q] => p = q,
         detector.elements = {[name |-> N[p], on |-> p] : p \in P},
         \A s \in detector.sensors : ~ForCalibration(s) => \E p \in P : IsPrefix(p, s.at)
  PROVE  ElementsSitOnTheirSensors
<1> DEFINE E == {[name |-> N[p], on |-> p] : p \in P}
           f == [p \in P |-> [name |-> N[p], on |-> p]]
<1>1. IsFiniteSet(E)
  <2>1. f \in [P -> E] /\ \A e \in E : \E p \in P : f[p] = e
    OBVIOUS
  <2> HIDE DEF E, f
  <2>2. f \in Surjection(P, E)
    BY <2>1 DEF Surjection
  <2> QED
    BY <2>2, FS_Surjection
<1>2. \A e \in detector.elements : e.on \in P /\ e = [name |-> N[e.on], on |-> e.on] /\ e.name = N[e.on]
  OBVIOUS
<1>3. ASSUME NEW p \in P
      PROVE  \E e \in detector.elements : e.on = p
  <2>1. [name |-> N[p], on |-> p] \in detector.elements
    OBVIOUS
  <2> QED
    BY <2>1
<1>4. \A p \in P : Len(p) = n
  BY DEF IsChoice
<1>5. ASSUME NEW s \in detector.sensors, ~ForCalibration(s)
      PROVE  \E e \in detector.elements :
               SitsAt(n, e, s) /\ \A g \in detector.elements : SitsAt(n, g, s) => g = e
  <2>1. PICK p \in P : IsPrefix(p, s.at)
    BY <1>5
  <2>2. PICK e \in detector.elements : e.on = p
    BY <1>3
  <2>3. SitsAt(n, e, s)
    BY <1>4, <2>1, <2>2 DEF SitsAt
  <2>4. ASSUME NEW g \in detector.elements, SitsAt(n, g, s)
        PROVE  g = e
    <3>1. g.on \in P /\ IsPrefix(g.on, s.at)
      BY <1>2, <2>4 DEF SitsAt
    <3>2. g.on = p
      BY <2>1, <3>1, OneBeginning
    <3> QED
      BY <1>2, <2>2, <3>2
  <2> QED
    BY <2>3, <2>4
<1>6. detector.elements # {} => \E e \in detector.elements : Len(e.on) = n
  BY <1>2, <1>4
<1>7. \A e \in detector.elements : Len(e.on) \in 0..n
  BY <1>2, <1>4
<1>8. \A e, g \in detector.elements : e.name = g.name => e = g
  BY <1>2
<1>9. IsFiniteSet(detector.elements)
  BY <1>1
<1> HIDE DEF E, f
<1> QED
  BY <1>5, <1>6, <1>7, <1>8, <1>9, SitOnTheirSensors

\* A DetElement is on the sensor at its place.
LEMMA OneForEachSensor ==
  ASSUME NEW n \in Nat, NEW P, IsFiniteSet(P), \A p \in P : IsChoice(p, n),
         NEW N, \A p, q \in P : N[p] = N[q] => p = q,
         detector.elements = {[name |-> N[p], on |-> p] : p \in P},
         \A s \in detector.sensors : s.at \in P
  PROVE  ElementsSitOnTheirSensors
<1>1. \A s \in detector.sensors : \E p \in P : IsPrefix(p, s.at)
  BY ItsOwnBeginning
<1> QED
  BY <1>1, OneForEachPlace

\* Loops in a loop are finite if each of them is.
LEMMA LoopsInALoop ==
  ASSUME NEW L, IsFiniteSet(L), NEW S, \A p \in S : p[1] \in L,
         \A l \in L : IsFiniteSet({p \in S : p[1] = l})
  PROVE  IsFiniteSet(S)
<1> DEFINE F == [l \in L |-> {p \in S : p[1] = l}]
           U == UNION {F[l] : l \in L}
<1>1. \A l \in L : IsFiniteSet(F[l])
  OBVIOUS
<1>2. U = S
  <2>1. ASSUME NEW p \in S
        PROVE  p \in U
    <3>1. p[1] \in L /\ p \in F[p[1]]
      OBVIOUS
    <3> QED
      BY <3>1
  <2>2. U \subseteq S
    OBVIOUS
  <2> QED
    BY <2>1, <2>2
<1>3. IsFiniteSet(U)
  <2> HIDE DEF F
  <2> QED
    BY <1>1, FinitelyManyOfEach
<1> QED
  BY <1>2, <1>3, Zenon

\* Three loops, of which the inner ones go as far as the outermost says.
LEMMA LoopsOfThree ==
  ASSUME NEW L, IsFiniteSet(L), NEW m, NEW n, \A l \in L : m[l] \in Nat /\ n[l] \in Nat,
         NEW S,
         \A p \in S : /\ IsChoice(p, 3) /\ p[1] \in L
                      /\ p[2] \in 0..(m[p[1]] - 1) /\ p[3] \in 0..(n[p[1]] - 1)
  PROVE  IsFiniteSet(S)
<1>1. ASSUME NEW l \in L
      PROVE  IsFiniteSet({p \in S : p[1] = l})
  <2> DEFINE A == {l}
             B == 0..(m[l] - 1)
             C == 0..(n[l] - 1)
             T == {p \in S : p[1] = l}
  <2>1. IsFiniteSet(A) /\ IsFiniteSet(B) /\ IsFiniteSet(C)
    <3>1. m[l] \in Int /\ n[l] \in Int
      OBVIOUS
    <3> QED
      BY <3>1, CountedUpTo, FS_Singleton, Zenon
  <2>2. \A p \in T : IsChoice(p, 3) /\ p[1] \in A /\ p[2] \in B /\ p[3] \in C
    OBVIOUS
  <2>3. IsFiniteSet(T)
    <3> HIDE DEF A, B, C, T
    <3> QED
      BY <2>1, <2>2, ThreeOfFinite
  <2> QED
    BY <2>3
<1> QED
  BY <1>1, LoopsInALoop

LEMMA LadderElements ==
  ASSUME LaddersMade
  PROVE  ElementsSitOnTheirSensors
<1>1. PICK c \in LadderFiles :
        \E nz, neighbours : LaddersMakes(built, c, nz) /\ detector = Ladders(c, nz, neighbours)
  BY DEF LaddersMade
<1>2. PICK nz, neighbours :
        LaddersMakes(built, c, nz) /\ detector = Ladders(c, nz, neighbours)
  BY <1>1
<1> DEFINE P == LadderPlaces(c, nz)
           N == [p \in P |-> <<c.layers[p[1]].id, p[2], p[3]>>]
           L == DOMAIN c.layers
           nphi == [l \in L |-> c.layers[l].nphi]
<1>3. IsLadderFile(c)
  BY LadderFilesAssumption
<1>4. IsFiniteSet(P)
  <2>1. IsFiniteSet(L)
    BY <1>3, ListIsFinite DEF IsLadderFile
  <2>2. \A l \in L : nphi[l] \in Nat /\ nz[l] \in Nat
    BY <1>2, <1>3 DEF LaddersMakes, IsLadderFile
  <2>3. \A p \in P : /\ IsChoice(p, 3) /\ p[1] \in L
                     /\ p[2] \in 0..(nphi[p[1]] - 1) /\ p[3] \in 0..(nz[p[1]] - 1)
    BY ThreeChoices DEF LadderPlaces, Layer
  <2> HIDE DEF L, nphi, P
  <2> QED
    BY <2>1, <2>2, <2>3, LoopsOfThree
<1>5. \A p \in P : IsChoice(p, 3) /\ p = <<p[1], p[2], p[3]>> /\ p[1] \in L
  BY ThreeChoices DEF LadderPlaces
<1>6. \A p, q \in P : N[p] = N[q] => p = q
  <2>1. \A k, l \in L : c.layers[k].id = c.layers[l].id => k = l
    BY <1>3 DEF IsLadderFile, DistinctIds
  <2> SUFFICES ASSUME NEW p \in P, NEW q \in P, N[p] = N[q] PROVE p = q
    OBVIOUS
  <2>2. c.layers[p[1]].id = c.layers[q[1]].id /\ p[2] = q[2] /\ p[3] = q[3]
    OBVIOUS
  <2> HIDE DEF N, P, L
  <2>3. p[1] = q[1]
    BY <1>5, <2>1, <2>2
  <2> QED
    BY <1>5, <2>2, <2>3
<1>7. detector.elements = {[name |-> N[p], on |-> p] : p \in P}
  BY <1>2 DEF Ladders
<1>8. \A s \in detector.sensors : s.at \in P
  <2> SUFFICES ASSUME NEW p \in P PROVE LadderSensor(c, nz, p[1], p[2], p[3]).at = p
    BY <1>2 DEF Ladders
  <2> QED
    BY <1>5 DEF LadderSensor
<1> HIDE DEF P, N
<1> QED
  BY <1>4, <1>5, <1>6, <1>7, <1>8, OneForEachSensor

LEMMA PlanarElements ==
  ASSUME PlanarMade
  PROVE  ElementsSitOnTheirSensors
<1>1. PICK c \in AroundTPCFiles :
        \E layers : PlanarMakes(built, c, layers) /\ detector = SimplePlanar(c, layers)
  BY DEF PlanarMade
<1>2. PICK layers : PlanarMakes(built, c, layers) /\ detector = SimplePlanar(c, layers)
  BY <1>1
<1> DEFINE P == PlanarPlaces(layers)
           N == [p \in P |-> <<layers[p[1]].id, p[2], p[3]>>]
           L == DOMAIN c.layers
           m == [l \in L |-> layers[l].nladders]
           n == [l \in L |-> layers[l].nsensors]
<1>3. IsAroundTPCFile(c)
  BY AroundTPCFilesAssumption
<1>0. ASSUME NEW l \in L
      PROVE  layers[l].id = c.layers[l].id /\ m[l] \in Nat /\ n[l] \in Nat
  <2>1. PICK radius, k : k \in Nat /\ layers[l] = Built(c, l, radius, k)
    BY <1>2 DEF PlanarMakes
  <2>2. c.layers[l].nladders \in Nat
    BY <1>3 DEF IsAroundTPCFile
  <2> QED
    BY <2>1, <2>2 DEF Built
<1>4. IsFiniteSet(P)
  <2>1. IsFiniteSet(L)
    BY <1>3, ListIsFinite DEF IsAroundTPCFile
  <2>3. \A p \in P : /\ IsChoice(p, 3) /\ p[1] \in L
                     /\ p[2] \in 0..(m[p[1]] - 1) /\ p[3] \in 0..(n[p[1]] - 1)
    BY <1>2, ThreeChoices DEF PlanarPlaces, PlanarMakes
  <2> HIDE DEF L, m, n, P
  <2> QED
    BY <1>0, <2>1, <2>3, LoopsOfThree
<1>5. \A p \in P : IsChoice(p, 3) /\ p = <<p[1], p[2], p[3]>> /\ p[1] \in L
  BY <1>2, ThreeChoices DEF PlanarPlaces, PlanarMakes
<1>6. \A p, q \in P : N[p] = N[q] => p = q
  <2>1. \A k, l \in L : layers[k].id = layers[l].id => k = l
    BY <1>0, <1>3, Zenon DEF IsAroundTPCFile, DistinctIds
  <2> SUFFICES ASSUME NEW p \in P, NEW q \in P, N[p] = N[q] PROVE p = q
    OBVIOUS
  <2>2. layers[p[1]].id = layers[q[1]].id /\ p[2] = q[2] /\ p[3] = q[3]
    OBVIOUS
  <2> HIDE DEF N, P, L
  <2>3. p[1] = q[1]
    BY <1>5, <2>1, <2>2
  <2> QED
    BY <1>5, <2>2, <2>3
<1>7. detector.elements = {[name |-> N[p], on |-> p] : p \in P}
  BY <1>2 DEF SimplePlanar
<1>8. \A s \in detector.sensors : s.at \in P
  BY <1>2 DEF SimplePlanar, PlanarSensor
<1> HIDE DEF P, N
<1> QED
  BY <1>4, <1>5, <1>6, <1>7, <1>8, OneForEachSensor

LEMMA BarrelElements ==
  ASSUME BarrelMade
  PROVE  ElementsSitOnTheirSensors
<1>1. PICK c \in BarrelFiles : \E v : BarrelMakes(built, c, v) /\ detector = Barrel(c, v)
  BY DEF BarrelMade
<1>2. PICK v : BarrelMakes(built, c, v) /\ detector = Barrel(c, v)
  BY <1>1
<1> DEFINE P == BarrelPlaces(c)
           N == [p \in P |-> BarrelName(c, v, p[1], p[2], p[3], p[4])]
           L == DOMAIN c.layers
<1>3. IsBarrelFile(c)
  BY BarrelFilesAssumption
<1>4. \A p \in P : IsChoice(p, 4) /\ p = <<p[1], p[2], p[3], p[4]>> /\ p[1] \in L
  BY BarrelPlacesAre, FourChoices
<1>5. IsFiniteSet(P)
  <2>1. IsFiniteSet(L)
    BY <1>3, ListIsFinite DEF IsBarrelFile
  <2>2. ASSUME NEW l \in L
        PROVE  IsFiniteSet({p \in P : p[1] = l})
    <3> DEFINE S == {p \in P : p[1] = l}
               A == {l}
               B == 0..(c.layers[l].nphi - 1)
               C == 0..(c.layers[l].nz - 1)
               D == SensitiveOf(c.modules[c.layers[l].module].slices)
    <3>1. \A p \in S : /\ IsChoice(p, 4) /\ p[1] \in A /\ p[2] \in B /\ p[3] \in C
                       /\ p[4] \in D
      BY <1>4, BarrelPlacesAre
    <3>2. IsFiniteSet(A) /\ IsFiniteSet(B) /\ IsFiniteSet(C) /\ IsFiniteSet(D)
      <4>1. c.layers[l].nphi \in Int /\ c.layers[l].nz \in Int /\ c.layers[l].module \in DOMAIN c.modules
        BY <1>3 DEF IsBarrelFile
      <4>2. IsStack(c.modules[c.layers[l].module].slices)
        BY <1>3, <4>1 DEF IsBarrelFile
      <4> QED
        BY <4>1, <4>2, CountedUpTo, FS_Singleton, Stacks, Zenon
    <3> HIDE DEF A, B, C, D, P
    <3>3. IsFiniteSet(S)
      <4> HIDE DEF S
      <4> QED
        BY <3>1, <3>2, FourOfFinite
    <3> QED
      BY <3>3
  <2> HIDE DEF P, L
  <2> QED
    BY <1>4, <2>1, <2>2, LoopsInALoop
<1>6. ASSUME NEW p \in P, NEW q \in P, N[p] = N[q]
      PROVE  p = q
  <2>1. BarrelName(c, v, p[1], p[2], p[3], p[4]) = BarrelName(c, v, q[1], q[2], q[3], q[4])
    BY <1>6
  <2> DEFINE n == c.layers[p[1]].nz
  <2>2. /\ c.layers[p[1]].id = c.layers[q[1]].id /\ p[4] = q[4]
        /\ \/ v.numbering # "modules" /\ p[2] = q[2] /\ p[3] = q[3]
           \/ 1 + p[2] * n + p[3] = 1 + q[2] * c.layers[q[1]].nz + q[3]
    BY <2>1 DEF BarrelName, Layer
  <2>3. p[1] = q[1]
    BY <1>3, <1>4, <2>2 DEF IsBarrelFile, DistinctIds
  <2>4. /\ n \in Nat /\ p[2] \in Nat /\ p[3] \in 0..(n - 1)
        /\ q[2] \in Nat /\ q[3] \in 0..(n - 1)
    BY <2>3, BarrelPlacesAre
  <2>5. ASSUME 1 + p[2] * n + p[3] = 1 + q[2] * n + q[3]
        PROVE  p[2] = q[2] /\ p[3] = q[3]
    <3> DEFINE i == p[2]
               k == q[2]
               j == p[3]
               m == q[3]
               a == i * n
               b == k * n
    <3>1. n \in Nat /\ i \in Nat /\ k \in Nat /\ j \in 0..(n - 1) /\ m \in 0..(n - 1)
      BY <2>4
    <3>2. (1 + a) + j = (1 + b) + m
      BY <2>5
    <3> HIDE DEF n, i, k, j, m
    <3>3. a \in Nat /\ b \in Nat /\ j \in Nat /\ m \in Nat
      BY <3>1
    <3>4. a + j = b + m
      <4> HIDE DEF a, b
      <4> QED
        BY <3>2, <3>3
    <3>5. i = k /\ j = m
      BY <3>1, <3>4, InRowsOf
    <3> QED
      BY <3>5 DEF i, k, j, m
  <2>6. p[2] = q[2] /\ p[3] = q[3]
    BY <2>2, <2>3, <2>5
  <2> HIDE DEF P, N
  <2> QED
    BY <1>4, <2>2, <2>3, <2>6
<1>7. detector.elements = {[name |-> N[p], on |-> p] : p \in P}
  BY <1>2 DEF Barrel
<1>8. \A s \in detector.sensors : s.at \in P
  <2> SUFFICES ASSUME NEW p \in P PROVE BarrelSensor(c, v, p[1], p[2], p[3], p[4]).at = p
    BY <1>2 DEF Barrel
  <2> QED
    BY <1>4 DEF BarrelSensor
<1> HIDE DEF P, N
<1> QED
  BY <1>4, <1>5, <1>6, <1>7, <1>8, OneForEachSensor

\* The layers and the slices in them.
LEMMA SlicesOfLayers ==
  ASSUME NEW c, IsLayered(c)
  PROVE  \E K : /\ IsFiniteSet(DOMAIN LayersOf(c)) /\ IsFiniteSet(K)
                /\ \A l \in DOMAIN LayersOf(c) : SensitiveOf(LayersOf(c)[l]) \subseteq K
<1> DEFINE D == DOMAIN LayersOf(c)
           F == [l \in D |-> SensitiveOf(LayersOf(c)[l])]
           K == UNION {F[l] : l \in D}
<1>1. IsFiniteSet(D)
  <2>1. D = 1..Len(LayersOf(c)) /\ Len(LayersOf(c)) \in Int
    BY LayersAre
  <2> QED
    BY <2>1, CountedUpTo
<1>2. \A l \in D : IsFiniteSet(F[l])
  BY LayersAre, Stacks, Zenon
<1>3. IsFiniteSet(K)
  <2> HIDE DEF D, F
  <2> QED
    BY <1>1, <1>2, FinitelyManyOfEach
<1>4. \A l \in D : F[l] \subseteq K
  OBVIOUS
<1> QED
  BY <1>1, <1>3, <1>4

LEMMA StaveElements ==
  ASSUME StavesMade
  PROVE  ElementsSitOnTheirSensors
<1>1. PICK c \in StaveFiles : \E v : StavesMakes(built, c, v) /\ detector = StaveBarrel(c, v)
  BY DEF StavesMade
<1>2. PICK v : StavesMakes(built, c, v) /\ detector = StaveBarrel(c, v)
  BY <1>1
<1> DEFINE P == StavePlaces(c, v)
           N == [p \in P |-> <<p[1], LayerNumber(v, p[2]), p[3]>>]
<1>3. IsLayered(c) /\ c.nsides \in Nat /\ v.first.stave \in Nat /\ v.first.layer \in Nat
  BY <1>2, StaveFilesAssumption DEF IsStaveFile, StavesMakes
<1>4. \A p \in P : IsChoice(p, 3) /\ p = <<p[1], p[2], p[3]>> /\ p[2] \in Nat
  BY <1>3, StavePlacesAre, ThreeChoices
<1>5. IsFiniteSet(P)
  <2> DEFINE A == v.first.stave..(v.first.stave + c.nsides - 1)
             B == DOMAIN LayersOf(c)
  <2>1. PICK K : /\ IsFiniteSet(B) /\ IsFiniteSet(K)
                 /\ \A l \in B : SensitiveOf(LayersOf(c)[l]) \subseteq K
    BY <1>3, SlicesOfLayers
  <2>2. IsFiniteSet(A)
    <3>1. v.first.stave \in Int /\ v.first.stave + c.nsides - 1 \in Int
      BY <1>3
    <3> QED
      BY <3>1, FS_Interval
  <2>3. \A p \in P : p[1] \in A
    <3> SUFFICES ASSUME NEW p \in P PROVE p[1] \in A
      OBVIOUS
    <3>1. PICK m \in A, ls \in Layers(c) : p = <<m>> \o ls
      <4> DEFINE j(m, ls) == <<m>> \o ls
      <4>1. P = {j(m, ls) : m \in A, ls \in Layers(c)}
        BY DEF StavePlaces
      <4> HIDE DEF A, P, j
      <4>2. \E m \in A, ls \in Layers(c) : p = j(m, ls)
        BY <4>1
      <4> QED
        BY <4>2 DEF j
    <3>2. ls = <<ls[1], ls[2]>>
      BY <1>3, LayerPlacesAre
    <3>3. p = <<m, ls[1], ls[2]>>
      BY <3>1, <3>2, OneThenTwo, Zenon
    <3> QED
      BY <3>3
  <2>4. \A p \in P : IsChoice(p, 3) /\ p[1] \in A /\ p[2] \in B /\ p[3] \in K
    BY <1>3, <1>4, <2>1, <2>3, StavePlacesAre
  <2> HIDE DEF A, B, P
  <2> QED
    BY <2>1, <2>2, <2>4, ThreeOfFinite
<1>6. \A p, q \in P : N[p] = N[q] => p = q
  <2> SUFFICES ASSUME NEW p \in P, NEW q \in P, N[p] = N[q] PROVE p = q
    OBVIOUS
  <2>1. p[1] = q[1] /\ v.first.layer + p[2] - 1 = v.first.layer + q[2] - 1 /\ p[3] = q[3]
    BY DEF LayerNumber
  <2> HIDE DEF P, N
  <2>2. p[2] = q[2]
    BY <1>3, <1>4, <2>1
  <2> QED
    BY <1>4, <2>1, <2>2
<1>7. detector.elements = {[name |-> N[p], on |-> p] : p \in P}
  BY <1>2 DEF StaveBarrel
<1>8. \A s \in detector.sensors : s.at \in P
  <2>1. detector.sensors = {StaveSensor(c, v, p, c.zhalf) : p \in P}
    BY <1>2 DEF StaveBarrel
  <2>2. \A p : StaveSensor(c, v, p, c.zhalf).at = p
    BY DEF StaveSensor
  <2> QED
    BY <2>1, <2>2
<1> HIDE DEF P, N
<1> QED
  BY <1>4, <1>5, <1>6, <1>7, <1>8, OneForEachSensor

LEMMA TowerElements ==
  ASSUME TowersMade
  PROVE  ElementsSitOnTheirSensors
<1>1. PICK c \in TowerFiles : \E v : TowersMakes(built, c, v) /\ detector = TowerBarrel(c, v)
  BY DEF TowersMade
<1>2. PICK v : TowersMakes(built, c, v) /\ detector = TowerBarrel(c, v)
  BY <1>1
<1> DEFINE P == TowerPlaces(c)
           N == [p \in P |-> p]
<1>3. IsLayered(c) /\ {c.nsides, c.ntowers, c.nstacks} \subseteq Nat
  BY TowerFilesAssumption DEF IsTowerFile
<1>4. \A p \in P : IsChoice(p, 5)
  BY <1>3, TowerPlacesAre, FiveChoices
<1>5. IsFiniteSet(P)
  <2> DEFINE A == 0..(c.nsides - 1)
             B == 0..(c.ntowers - 1)
             C == 0..(c.nstacks - 1)
             D == DOMAIN LayersOf(c)
  <2>1. PICK K : /\ IsFiniteSet(D) /\ IsFiniteSet(K)
                 /\ \A l \in D : SensitiveOf(LayersOf(c)[l]) \subseteq K
    BY <1>3, SlicesOfLayers
  <2>2. IsFiniteSet(A) /\ IsFiniteSet(B) /\ IsFiniteSet(C)
    <3>1. c.nsides \in Int /\ c.ntowers \in Int /\ c.nstacks \in Int
      BY <1>3
    <3> QED
      BY <3>1, CountedUpTo, Zenon
  <2>3. \A p \in P : p[1] \in A
    BY DEF TowerPlaces
  <2>4. \A p \in P : /\ IsChoice(p, 5) /\ p[1] \in A /\ p[2] \in B /\ p[3] \in C
                     /\ p[4] \in D /\ p[5] \in K
    BY <1>3, <1>4, <2>1, <2>3, TowerPlacesAre
  <2> HIDE DEF A, B, C, D, P
  <2> QED
    BY <2>1, <2>2, <2>4, FiveOfFinite
<1>6. \A p, q \in P : N[p] = N[q] => p = q
  OBVIOUS
<1>7. detector.elements = {[name |-> N[p], on |-> p] : p \in P}
  BY <1>2 DEF TowerBarrel
<1>8. \A s \in detector.sensors : s.at \in P
  <2>1. detector.sensors = {TowerSensor(c, v, p) : p \in P}
    BY <1>2 DEF TowerBarrel
  <2>2. \A p : TowerSensor(c, v, p).at = p
    BY DEF TowerSensor
  <2> QED
    BY <2>1, <2>2
<1> HIDE DEF P, N
<1> QED
  BY <1>4, <1>5, <1>6, <1>7, <1>8, OneForEachSensor

LEMMA PolygonElements ==
  ASSUME PolygonsMade, detector # Thrown
  PROVE  ElementsSitOnTheirSensors
<1> SUFFICES ASSUME built \notin NotInTheTree PROVE ElementsSitOnTheirSensors
  BY Zenon DEF ElementsSitOnTheirSensors
<1>1. PICK c \in PolygonFiles : \E v, other, inTree :
        PolygonsMakes(built, c, v, other) /\ inTree = {1, other}
        /\ detector = PolygonEndcap(c, v, other, inTree)
  BY DEF PolygonsMade
<1>2. PICK v, other :
        PolygonsMakes(built, c, v, other) /\ detector = PolygonEndcap(c, v, other, {1, other})
  BY <1>1
<1> DEFINE P == PolygonPlaces(c, other)
           N == [p \in P |-> <<p[1], LayerNumber(v, p[2]), p[3]>>]
<1>3. IsLayered(c) /\ v.first.layer \in Nat
  BY <1>2, PolygonFilesAssumption DEF IsPolygonFile, PolygonsMakes
<1>4. \A p \in P : IsChoice(p, 3) /\ p = <<p[1], p[2], p[3]>> /\ p[1] \in {1, other} /\ p[2] \in Nat
  BY <1>3, PolygonPlacesAre, ThreeChoices
<1>5. IsFiniteSet(P)
  <2> DEFINE A == {1, other}
             B == DOMAIN LayersOf(c)
  <2>1. PICK K : /\ IsFiniteSet(B) /\ IsFiniteSet(K)
                 /\ \A l \in B : SensitiveOf(LayersOf(c)[l]) \subseteq K
    BY <1>3, SlicesOfLayers
  <2>2. IsFiniteSet(A)
    <3>1. IsFiniteSet({1}) /\ IsFiniteSet({other}) /\ A = {1} \cup {other}
      BY FS_Singleton, Zenon
    <3> QED
      BY <3>1, FS_Union, Zenon
  <2>3. \A p \in P : IsChoice(p, 3) /\ p[1] \in A /\ p[2] \in B /\ p[3] \in K
    BY <1>3, <1>4, <2>1, PolygonPlacesAre
  <2> HIDE DEF A, B, P
  <2> QED
    BY <2>1, <2>2, <2>3, ThreeOfFinite
<1>6. \A p, q \in P : N[p] = N[q] => p = q
  <2> SUFFICES ASSUME NEW p \in P, NEW q \in P, N[p] = N[q] PROVE p = q
    OBVIOUS
  <2>1. p[1] = q[1] /\ v.first.layer + p[2] - 1 = v.first.layer + q[2] - 1 /\ p[3] = q[3]
    BY DEF LayerNumber
  <2> HIDE DEF P, N
  <2>2. p[2] = q[2]
    BY <1>3, <1>4, <2>1
  <2> QED
    BY <1>4, <2>1, <2>2
<1>7. detector.elements = {[name |-> N[p], on |-> p] : p \in P}
  <2>1. {q \in P : q[1] \in {1, other}} = P
    BY <1>4
  <2>2. detector.elements = {[name |-> N[p], on |-> p] : p \in {q \in P : q[1] \in {1, other}}}
    BY <1>2 DEF PolygonEndcap
  <2> QED
    BY <2>1, <2>2
<1>8. \A s \in detector.sensors : s.at \in P
  <2>1. detector.sensors = {PolygonSensor(c, v, other, p) : p \in P}
    BY <1>2 DEF PolygonEndcap
  <2>2. \A p : PolygonSensor(c, v, other, p).at = p
    BY DEF PolygonSensor
  <2> QED
    BY <2>1, <2>2
<1> HIDE DEF P, N
<1> QED
  BY <1>4, <1>5, <1>6, <1>7, <1>8, OneForEachSensor

LEMMA PanelElements ==
  ASSUME PanelsMade, detector # Thrown
  PROVE  ElementsSitOnTheirSensors
<1>1. PICK c \in PanelFiles : detector = PanelEndcap(c)
  BY DEF PanelsMade
<1> DEFINE P == PanelPlaces(c)
           panelName(p) == 50 * (3 + p[1]) + 10 * p[2] + p[3]
           N == [p \in P |-> <<panelName(p), 100 * p[3] + p[4], p[5]>>]
<1>3. IsLayered(c) /\ c.insides \in Nat /\ c.insides <= 10
  BY PanelFilesAssumption DEF IsPanelFile
<1>4. \A p \in P : /\ IsChoice(p, 5) /\ p = <<p[1], p[2], p[3], p[4], p[5]>>
                   /\ p[1] \in {-1, 1} /\ p[3] \in {1, 2} /\ p[4] \in Nat
  BY <1>3, PanelPlacesAre, FiveChoices
<1>9. \A p \in P : p[2] \in 0..(c.insides - 1)
  BY DEF PanelPlaces
<1>5. IsFiniteSet(P)
  <2> DEFINE A == (-1)..1
             B == 0..(c.insides - 1)
             C == 1..2
             D == DOMAIN LayersOf(c)
  <2>1. PICK K : /\ IsFiniteSet(D) /\ IsFiniteSet(K)
                 /\ \A l \in D : SensitiveOf(LayersOf(c)[l]) \subseteq K
    BY <1>3, SlicesOfLayers
  <2>2. IsFiniteSet(A) /\ IsFiniteSet(B) /\ IsFiniteSet(C)
    <3>1. c.insides \in Int /\ -1 \in Int /\ 1 \in Int /\ 2 \in Int
      BY <1>3
    <3> QED
      BY <3>1, CountedUpTo, FS_Interval, Zenon
  <2>3. \A p \in P : p[1] \in A /\ p[2] \in B /\ p[3] \in C
    <3> HIDE DEF P
    <3> QED
      BY <1>4, <1>9
  <2>4. \A p \in P : /\ IsChoice(p, 5) /\ p[1] \in A /\ p[2] \in B /\ p[3] \in C
                     /\ p[4] \in D /\ p[5] \in K
    BY <1>3, <1>4, <2>1, <2>3, PanelPlacesAre
  <2> HIDE DEF A, B, C, D, P
  <2> QED
    BY <2>1, <2>2, <2>4, FiveOfFinite
<1>6. ASSUME NEW p \in P, NEW q \in P, N[p] = N[q]
      PROVE  p = q
  <2>1. /\ 50 * (3 + p[1]) + 10 * p[2] + p[3] = 50 * (3 + q[1]) + 10 * q[2] + q[3]
        /\ 100 * p[3] + p[4] = 100 * q[3] + q[4] /\ p[5] = q[5]
    BY <1>6
  <2>2. /\ p[2] \in 0..9 /\ q[2] \in 0..9
    BY <1>3, <1>9
  <2> HIDE DEF P, N
  <2>3. p[1] = q[1] /\ p[2] = q[2] /\ p[3] = q[3] /\ p[4] = q[4]
    BY <1>4, <2>1, <2>2
  <2> QED
    BY <1>4, <2>1, <2>3
<1>7. detector.elements = {[name |-> N[p], on |-> p] : p \in P}
  BY <1>1 DEF PanelEndcap
<1>8. \A s \in detector.sensors : s.at \in P
  <2>1. detector.sensors = {PanelSensor(c, p) : p \in P}
    BY <1>1 DEF PanelEndcap
  <2>2. \A p : PanelSensor(c, p).at = p
    BY DEF PanelSensor
  <2> QED
    BY <2>1, <2>2
<1> HIDE DEF P, N
<1> QED
  BY <1>4, <1>5, <1>6, <1>7, <1>8, OneForEachSensor, Zenon

LEMMA ImageIsFinite ==
  ASSUME NEW X, IsFiniteSet(X), NEW f
  PROVE  IsFiniteSet({f[x] : x \in X})
<1> DEFINE T == {f[x] : x \in X}
           g == [x \in X |-> f[x]]
<1>1. g \in [X -> T] /\ \A t \in T : \E x \in X : g[x] = t
  OBVIOUS
<1> HIDE DEF T, g
<1>2. g \in Surjection(X, T)
  BY <1>1 DEF Surjection
<1>3. IsFiniteSet(T)
  BY <1>2, FS_Surjection
<1> QED
  BY <1>3 DEF T

\* What finitely many places have at one loop.
LEMMA ChoicesAreFinite ==
  ASSUME NEW R, IsFiniteSet(R), NEW i
  PROVE  IsFiniteSet({x[i] : x \in R})
<1> DEFINE f == [x \in R |-> x[i]]
<1>1. {f[x] : x \in R} = {x[i] : x \in R}
  OBVIOUS
<1>2. IsFiniteSet({f[x] : x \in R})
  <2> HIDE DEF f
  <2> QED
    BY ImageIsFinite
<1> QED
  BY <1>1, <1>2, Zenon

LEMMA RodElements ==
  ASSUME RodsMade
  PROVE  ElementsSitOnTheirSensors
<1>1. PICK c \in RodFiles : detector = TkLayoutTrackerBarrel_o1_v01(c)
  BY DEF RodsMade
<1> DEFINE P == SensitiveRodPlaces(c)
           N == [p \in P |-> <<p[1] - 1, RodNumber(c, p)>>]
           L == DOMAIN c.layers
<1>2. ASSUME NEW p \in P
      PROVE  IsChoice(p, 5) /\ p[1] \in L /\ <<p[2], p[3], p[4], p[5]>> \in RodPlaces(Layer(c, p[1]))
  <2>1. /\ p = <<p[1], p[2], p[3], p[4], p[5]>> /\ p[1] \in L
        /\ <<p[2], p[3], p[4], p[5]>> \in RodPlaces(Layer(c, p[1]))
    BY SensitiveRodPlacesAre
  <2>2. IsChoice(<<p[1], p[2], p[3], p[4], p[5]>>, 5)
    BY FiveChoices
  <2> QED
    BY <2>1, <2>2
<1>3. IsFiniteSet(P)
  <2> DEFINE F == [l \in L |-> RodPlaces(Layer(c, l))]
             R == UNION {F[l] : l \in L}
             A(i) == {x[i] : x \in R}
  <2>1. IsFiniteSet(L)
    BY RodFilesAssumption, ListIsFinite DEF IsRodFile
  <2>2. \A l \in L : IsFiniteSet(F[l])
    BY RodPlacesFinite
  <2>3. IsFiniteSet(R)
    <3> HIDE DEF F, L
    <3> QED
      BY <2>1, <2>2, FinitelyManyOfEach
  <2>4. \A p \in P : <<p[2], p[3], p[4], p[5]>> \in R
    BY <1>2
  <2> HIDE DEF R
  <2>5. IsFiniteSet(A(1)) /\ IsFiniteSet(A(2)) /\ IsFiniteSet(A(3)) /\ IsFiniteSet(A(4))
    BY <2>3, ChoicesAreFinite, Zenon
  <2>6. ASSUME NEW p \in P
        PROVE  p[2] \in A(1) /\ p[3] \in A(2) /\ p[4] \in A(3) /\ p[5] \in A(4)
    <3> DEFINE x == <<p[2], p[3], p[4], p[5]>>
    <3>1. x \in R
      BY <2>4
    <3>2. x[1] = p[2] /\ x[2] = p[3] /\ x[3] = p[4] /\ x[4] = p[5]
      OBVIOUS
    <3> HIDE DEF x
    <3> QED
      BY <3>1, <3>2
  <2>7. \A p \in P : /\ IsChoice(p, 5) /\ p[1] \in L /\ p[2] \in A(1) /\ p[3] \in A(2)
                     /\ p[4] \in A(3) /\ p[5] \in A(4)
    <3> HIDE DEF A, P, L
    <3> QED
      BY <1>2, <2>6, Zenon
  <2> HIDE DEF A, P, L
  <2> QED
    BY <2>1, <2>5, <2>7, FiveOfFinite
<1>4. \A p, q \in P : N[p] = N[q] => p = q
  BY RodNumbersDiffer
<1>5. detector.elements = {[name |-> N[p], on |-> p] : p \in P}
  BY <1>1 DEF TkLayoutTrackerBarrel_o1_v01
<1>6. \A s \in detector.sensors : s.at \in P
  <2>1. detector.sensors = {RodSensor(c, p) : p \in P}
    BY <1>1 DEF TkLayoutTrackerBarrel_o1_v01
  <2>2. \A p : RodSensor(c, p).at = p
    BY DEF RodSensor
  <2> QED
    BY <2>1, <2>2
<1> HIDE DEF P, N
<1> QED
  BY <1>2, <1>3, <1>4, <1>5, <1>6, OneForEachSensor, Zenon

\* The name of a DetElement tells the ids of its sensor.
LEMMA LadderNamesTell ==
  ASSUME NEW c \in DetailedBarrelFiles, NEW v, NEW type, DetailedBarrelMakes(type, c, v),
         NEW p \in LadderSensorPlaces(c), NEW q \in LadderSensorPlaces(c),
         LadderName(c, v, p) = LadderName(c, v, q)
  PROVE  p = q
<1> DEFINE i(x) == c.layers[x[1]].id
           s(x) == LadderIds(c, v, x).sensor
<1>1. p[1] \in DOMAIN c.layers /\ q[1] \in DOMAIN c.layers
      /\ p[2] \in ModulePlaces(c, p[1]) /\ q[2] \in ModulePlaces(c, q[1])
      /\ p[2][2] \in DOMAIN StaveKinds(c, p[1]) /\ q[2][2] \in DOMAIN StaveKinds(c, q[1])
  BY LadderSensorPlacesAre
<1>2. ASSUME v = "ladder"
      PROVE  LadderIds(c, v, p) = LadderIds(c, v, q)
  <2>1. \A x : LadderName(c, v, x) = <<i(x), x[2][1], x[2][3], s(x)>>
    BY <1>2 DEF LadderName
  <2>2. <<i(p), p[2][1], p[2][3], s(p)>> = <<i(q), q[2][1], q[2][3], s(q)>>
    BY <2>1, Zenon
  <2>3. i(p) = i(q) /\ p[2][1] = q[2][1] /\ p[2][3] = q[2][3] /\ s(p) = s(q)
    <3> HIDE DEF i, s
    <3> QED
      BY <2>2
  <2>4. \A x : LadderIds(c, v, x)
               = Joined([layer |-> i(x)],
                        [stave |-> x[2][1], module |-> x[2][3], sensor |-> s(x)])
    <3>1. \A x : LadderIds(c, v, x)
                 = Joined([layer |-> i(x)], [stave |-> x[2][1], module |-> x[2][3],
                                             sensor |-> LadderSensorNumber(c, x)])
      BY <1>2 DEF LadderIds, LadderSensorNumber
    <3>2. \A x : s(x) = LadderSensorNumber(c, x)
      BY <1>2, LadderIdsAre
    <3> HIDE DEF i, s
    <3> QED
      BY <3>1, <3>2, Zenon
  <2> HIDE DEF i, s
  <2> QED
    BY <2>3, <2>4, Zenon
<1>3. ASSUME v = "detector"
      PROVE  LadderIds(c, v, p) = LadderIds(c, v, q)
  <2> DEFINE e(x) == c.layers[x[1]].side
  <2>1. \A x : LadderName(c, v, x) = <<i(x), e(x), x[2][1], x[2][3], s(x)>>
    BY <1>3 DEF LadderName
  <2>2. <<i(p), e(p), p[2][1], p[2][3], s(p)>> = <<i(q), e(q), q[2][1], q[2][3], s(q)>>
    BY <2>1, Zenon
  <2>3. i(p) = i(q) /\ e(p) = e(q) /\ p[2][1] = q[2][1] /\ p[2][3] = q[2][3] /\ s(p) = s(q)
    <3> HIDE DEF i, e, s
    <3> QED
      BY <2>2
  <2>4. p[1] = q[1]
    BY <1>1, <1>3, <2>3 DEF DetailedBarrelMakes, DistinctOnEachSide
  <2>5. p[2] = q[2]
    <3>1. p[2][2] = 1 /\ q[2][2] = 1
      BY <1>1, <1>3, OneKindOfStave DEF DetailedBarrelMakes
    <3>2. \A l \in DOMAIN c.layers : \A w \in ModulePlaces(c, l) : w = <<w[1], w[2], w[3]>>
      BY ModulePlacesAre, Zenon
    <3>3. /\ p[2] = <<p[2][1], p[2][2], p[2][3]>> /\ q[2] = <<q[2][1], q[2][2], q[2][3]>>
          /\ <<p[2][1], p[2][2], p[2][3]>> = <<q[2][1], q[2][2], q[2][3]>>
      BY <1>1, <2>3, <3>1, <3>2, Zenon
    <3> QED
      BY <3>3, Zenon
  <2>6. LadderModule(c, v, p) = LadderModule(c, v, q)
    BY <2>4, <2>5 DEF LadderModule
  <2>7. \A x : LadderIds(c, v, x)
               = Joined([layer |-> i(x)],
                        [module |-> LadderModule(c, v, x), sensor |-> s(x)])
    <3>1. \A x : LadderIds(c, v, x)
                 = Joined([layer |-> i(x)], [module |-> LadderModule(c, v, x),
                                             sensor |-> LadderSensorNumber(c, x)])
      BY <1>3 DEF LadderIds, LadderSensorNumber
    <3>2. \A x : s(x) = LadderSensorNumber(c, x)
      BY <1>3, LadderIdsAre
    <3> HIDE DEF i, s
    <3> QED
      BY <3>1, <3>2, Zenon
  <2> HIDE DEF i, s
  <2> QED
    BY <2>3, <2>6, <2>7, Zenon
<1>4. ASSUME v = "group"
      PROVE  LadderIds(c, v, p) = LadderIds(c, v, q)
  <2> DEFINE n(x) == LadderModule(c, v, x)
             e(x) == LayerCopy(c, x[1])
  <2>1. \A x : LadderName(c, v, x) = <<i(x), e(x), x[2][1], n(x), s(x)>>
    BY <1>4 DEF LadderName
  <2>2. <<i(p), e(p), p[2][1], n(p), s(p)>> = <<i(q), e(q), q[2][1], n(q), s(q)>>
    BY <2>1, Zenon
  <2>3. i(p) = i(q) /\ n(p) = n(q) /\ s(p) = s(q)
    <3> HIDE DEF i, e, n, s
    <3> QED
      BY <2>2
  <2>4. p[1] = q[1] /\ p[2] = q[2]
    <3>1. \A u \in {"detector", "group"} :
            /\ u # "group" \/ c.layers[p[1]].id = c.layers[q[1]].id
            /\ LadderModule(c, u, p) = LadderModule(c, u, q)
            => p[1] = q[1] /\ p[2] = q[2]
      BY LadderModuleTells
    <3> QED
      BY <1>4, <2>3, <3>1
  <2>5. KindAt(c, p) = KindAt(c, q)
    BY <2>4 DEF KindAt
  <2>6. \A x : LadderIds(c, v, x)
               = Joined([layer |-> i(x)],
                        [module |-> n(x) \div KindAt(c, x).grouping, sensor |-> s(x)])
    <3>1. \A x : LadderIds(c, v, x)
                 = Joined([layer |-> i(x)],
                          GroupIds(KindAt(c, x), n(x), LadderSensorNumber(c, x)))
      BY <1>4 DEF LadderIds, LadderSensorNumber
    <3>2. \A x : s(x) = GroupIds(KindAt(c, x), n(x), LadderSensorNumber(c, x)).sensor
      BY <1>4, LadderIdsAre
    <3>3. \A x : GroupIds(KindAt(c, x), n(x), LadderSensorNumber(c, x))
                 = [module |-> n(x) \div KindAt(c, x).grouping, sensor |-> s(x)]
      <4> HIDE DEF n, s
      <4> QED
        BY <3>2 DEF GroupIds
    <3> HIDE DEF i, n, s
    <3> QED
      BY <3>1, <3>3, Zenon
  <2> HIDE DEF i, n, s
  <2> QED
    BY <2>3, <2>5, <2>6, Zenon
<1>5. LadderIds(c, v, p) = LadderIds(c, v, q)
  BY <1>2, <1>3, <1>4 DEF DetailedBarrelMakes
<1> QED
  BY <1>5, LadderIdsTell

LEMMA LadderSensorPlacesFinite ==
  ASSUME NEW c \in DetailedBarrelFiles
  PROVE  IsFiniteSet(LadderSensorPlaces(c))
<1> DEFINE L == DOMAIN c.layers
           W(l) == ModulePlaces(c, l)
           Q(l, w) == {<<l, w, q>> : q \in SensorPlaces(StaveKinds(c, l)[w[2]])}
           G(l) == [w \in W(l) |-> Q(l, w)]
           F == [l \in L |-> UNION {G(l)[w] : w \in W(l)}]
<1>1. IsFiniteSet(L)
  BY DetailedBarrelFilesAssumption, ListIsFinite DEF IsDetailedBarrelFile
<1>2. ASSUME NEW l \in L, NEW w \in W(l)
      PROVE  IsFiniteSet(Q(l, w))
  <2> DEFINE S == SensorPlaces(StaveKinds(c, l)[w[2]])
             f == [q \in S |-> <<l, w, q>>]
  <2>1. IsFiniteSet(S)
    BY <1>2, ModulePlacesAre, KindsOfStaves, SensorPlacesFinite
  <2>2. Q(l, w) = {f[q] : q \in S}
    OBVIOUS
  <2>3. IsFiniteSet({f[q] : q \in S})
    <3> HIDE DEF S, f
    <3> QED
      BY <2>1, ImageIsFinite
  <2> QED
    BY <2>2, <2>3, Zenon
<1>3. ASSUME NEW l \in L
      PROVE  IsFiniteSet(F[l])
  <2>1. IsFiniteSet(W(l))
    BY ModulePlacesFinite
  <2>2. \A w \in W(l) : IsFiniteSet(G(l)[w])
    BY <1>2
  <2> DEFINE g == G(l)
             D == W(l)
  <2>3. IsFiniteSet(UNION {g[w] : w \in D})
    <3> HIDE DEF g, D
    <3>1. IsFiniteSet(D) /\ \A w \in D : IsFiniteSet(g[w])
      BY <2>1, <2>2 DEF g, D
    <3> QED
      BY <3>1, FinitelyManyOfEach
  <2> QED
    BY <2>3
<1>4. LadderSensorPlaces(c) = UNION {F[l] : l \in L}
  <2>1. ASSUME NEW l \in L
        PROVE  F[l] = UNION {Q(l, w) : w \in W(l)}
    <3>1. {G(l)[w] : w \in W(l)} = {Q(l, w) : w \in W(l)}
      OBVIOUS
    <3> QED
      BY <3>1
  <2>2. {F[l] : l \in L} = {UNION {Q(l, w) : w \in W(l)} : l \in L}
    <3> HIDE DEF F, Q, W
    <3> QED
      BY <2>1
  <2>3. LadderSensorPlaces(c) = UNION {UNION {Q(l, w) : w \in W(l)} : l \in L}
    BY Zenon DEF LadderSensorPlaces
  <2> HIDE DEF F, Q, W
  <2> QED
    BY <2>2, <2>3, Zenon
<1> HIDE DEF F, L
<1>5. IsFiniteSet(UNION {F[l] : l \in L})
  BY <1>1, <1>3, FinitelyManyOfEach
<1> QED
  BY <1>4, <1>5

LEMMA DetailedBarrelElements ==
  ASSUME DetailedBarrelMade
  PROVE  ElementsSitOnTheirSensors
<1>1. PICK c \in DetailedBarrelFiles :
        \E v : DetailedBarrelMakes(built, c, v) /\ detector = DetailedBarrel(c, v)
  BY DEF DetailedBarrelMade
<1>2. PICK v : DetailedBarrelMakes(built, c, v) /\ detector = DetailedBarrel(c, v)
  BY <1>1
<1> DEFINE P == LadderSensorPlaces(c)
           N == [p \in P |-> LadderName(c, v, p)]
<1>3. \A p \in P : IsChoice(p, 3)
  <2> SUFFICES ASSUME NEW p \in P PROVE IsChoice(p, 3)
    OBVIOUS
  <2>1. p = <<p[1], p[2], p[3]>>
    BY LadderSensorPlacesAre
  <2>2. IsChoice(<<p[1], p[2], p[3]>>, 3)
    BY ThreeChoices
  <2> QED
    BY <2>1, <2>2
<1>4. IsFiniteSet(P)
  BY LadderSensorPlacesFinite
<1>5. \A p, q \in P : N[p] = N[q] => p = q
  BY <1>2, LadderNamesTell
<1>6. detector.elements = {[name |-> N[p], on |-> p] : p \in P}
  BY <1>2 DEF DetailedBarrel
<1>7. \A s \in detector.sensors : s.at \in P
  BY <1>2 DEF DetailedBarrel
<1> HIDE DEF P, N
<1>8. 3 \in Nat
  OBVIOUS
<1> QED
  BY <1>3, <1>4, <1>5, <1>6, <1>7, <1>8, OneForEachSensor, Zenon

LEMMA DiskNamesTell ==
  ASSUME NEW c \in DetailedEndcapFiles, NEW v, NEW type, DetailedEndcapMakes(type, c, v),
         NEW p \in DiskSensorPlaces(c), NEW q \in DiskSensorPlaces(c),
         DiskSensorName(c, v, p) = DiskSensorName(c, v, q)
  PROVE  p = q
<1> DEFINE s(x) == DiskIds(c, v, x).sensor
           m(x) == IF v = "group" THEN DiskModule(c, x) ELSE x[3][4]
<1>1. /\ p = <<p[1], p[2], p[3], p[4]>> /\ q = <<q[1], q[2], q[3], q[4]>>
      /\ p[2] \in DOMAIN c.layers /\ q[2] \in DOMAIN c.layers
      /\ p[3] \in DiskModules(c.layers[p[2]]) /\ q[3] \in DiskModules(c.layers[q[2]])
      /\ p[3][2] \in DOMAIN c.layers[p[2]].staves
  BY DiskSensorPlacesAre
<1>2. /\ p[1] = q[1] /\ c.layers[p[2]].id = c.layers[q[2]].id
      /\ p[3][1] = q[3][1] /\ p[3][2] = q[3][2] /\ m(p) = m(q) /\ s(p) = s(q)
  <2>1. <<p[1], c.layers[p[2]].id, p[3][1], p[3][2], m(p), s(p)>>
        = <<q[1], c.layers[q[2]].id, q[3][1], q[3][2], m(q), s(q)>>
    BY DEF DiskSensorName
  <2> HIDE DEF m, s
  <2> QED
    BY <2>1
<1>3. p[2] = q[2]
  <2>1. DistinctIds(c.layers)
    BY DetailedEndcapFilesAssumption DEF IsDetailedEndcapFile
  <2> QED
    BY <1>1, <1>2, <2>1 DEF DistinctIds
<1>4. p[3] = q[3]
  <2>1. CASE v = "group"
    BY <1>2, <1>3, <2>1, DiskModulesCounted
  <2>2. CASE v \in {"petal", "disk"}
    <3>1. p[3][4] = q[3][4]
      BY <1>2, <2>2
    <3>2. c.layers[p[2]].staves[p[3][2]].nphi = 1
      BY <1>1, <2>2 DEF DetailedEndcapMakes, PlainDisks
    <3>3. p[3][3] \in 0..(1 - 1) /\ q[3][3] \in 0..(1 - 1)
      BY <1>1, <1>2, <1>3, <3>2, DiskModulesAre
    <3>4. p[3][3] = q[3][3]
      BY <3>3
    <3>5. \A l \in DOMAIN c.layers : \A w \in DiskModules(c.layers[l]) :
            w = <<w[1], w[2], w[3], w[4]>>
      BY DiskModulesAre, Zenon
    <3>6. /\ p[3] = <<p[3][1], p[3][2], p[3][3], p[3][4]>>
          /\ q[3] = <<q[3][1], q[3][2], q[3][3], q[3][4]>>
          /\ <<p[3][1], p[3][2], p[3][3], p[3][4]>> = <<q[3][1], q[3][2], q[3][3], q[3][4]>>
      BY <1>1, <1>2, <3>1, <3>4, <3>5, Zenon
    <3> QED
      BY <3>6, Zenon
  <2> QED
    BY <2>1, <2>2 DEF DetailedEndcapMakes
<1>5. \A f \in DetailedEndcapFields(v) \ {"side"} : DiskIds(c, v, p)[f] = DiskIds(c, v, q)[f]
  <2>1. DiskModule(c, p) = DiskModule(c, q)
    BY <1>3, <1>4 DEF DiskModule
  <2>2. DiskKind(c, p[2], p[3][2]) = DiskKind(c, q[2], q[3][2])
    BY <1>3, <1>4
  <2>3. v \in {"petal", "disk", "group"}
    BY DEF DetailedEndcapMakes
  <2>4. /\ DiskIds(c, v, p).sensor = DiskIds(c, v, q).sensor
        /\ DiskIds(c, v, p).layer = DiskIds(c, v, q).layer
    BY <1>2, <2>3, DiskIdsAre
  <2>5. DiskIds(c, v, p).module = DiskIds(c, v, q).module
    <3>1. v = "group" => /\ DiskIds(c, v, p).module
                              = DiskModule(c, p) \div DiskKind(c, p[2], p[3][2]).grouping
                         /\ DiskIds(c, v, q).module
                              = DiskModule(c, q) \div DiskKind(c, q[2], q[3][2]).grouping
      BY DiskIdsAre DEF GroupIds
    <3>2. v = "disk" => /\ DiskIds(c, v, p).module = DiskModule(c, p)
                        /\ DiskIds(c, v, q).module = DiskModule(c, q)
      BY DiskIdsAre
    <3>3. v = "petal" => /\ DiskIds(c, v, p).module = p[3][4]
                         /\ DiskIds(c, v, q).module = q[3][4]
      BY DiskIdsAre
    <3> QED
      BY <1>4, <2>1, <2>2, <2>3, <3>1, <3>2, <3>3
  <2>6. v = "petal" => /\ DiskIds(c, v, p).petal = DiskIds(c, v, q).petal
                       /\ DiskIds(c, v, p).stave = DiskIds(c, v, q).stave
    BY <1>2, DiskIdsAre
  <2> QED
    BY <2>4, <2>5, <2>6 DEF DetailedEndcapFields
<1>6. p[4] = q[4]
  BY <1>5, DiskIdsTell
<1> QED
  BY <1>1, <1>2, <1>3, <1>4, <1>6

LEMMA DiskSensorPlacesFinite ==
  ASSUME NEW c \in DetailedEndcapFiles
  PROVE  IsFiniteSet(DiskSensorPlaces(c))
<1> DEFINE L == DOMAIN c.layers
           W(l) == DiskModules(c.layers[l])
           Q(l, w) == {<<side, l, w, q>> : side \in Sides(c),
                                           q \in SensorPlaces(DiskKind(c, l, w[2]))}
           G(l) == [w \in W(l) |-> Q(l, w)]
           F == [l \in L |-> UNION {G(l)[w] : w \in W(l)}]
<1>1. IsFiniteSet(L)
  BY DetailedEndcapFilesAssumption, ListIsFinite DEF IsDetailedEndcapFile
<1>2. ASSUME NEW l \in L, NEW w \in W(l)
      PROVE  IsFiniteSet(Q(l, w))
  <2> DEFINE S == SensorPlaces(DiskKind(c, l, w[2]))
             A == (-1)..1
             B == {l}
             C == {w}
  <2>1. IsFiniteSet(S)
    BY <1>2, DiskModulesAre, DiskFilesAre, SensorPlacesFinite
  <2>2. IsFiniteSet(A) /\ IsFiniteSet(B) /\ IsFiniteSet(C)
    <3>1. -1 \in Int /\ 1 \in Int
      OBVIOUS
    <3> QED
      BY <3>1, FS_Singleton, FS_Interval, Zenon
  <2>3. \A p \in Q(l, w) : IsChoice(p, 4) /\ p[1] \in A /\ p[2] \in B /\ p[3] \in C /\ p[4] \in S
    <3> SUFFICES ASSUME NEW side \in Sides(c), NEW q \in S, NEW p, p = <<side, l, w, q>>
                 PROVE  IsChoice(p, 4) /\ p[1] \in A /\ p[2] \in B /\ p[3] \in C /\ p[4] \in S
      OBVIOUS
    <3>1. side \in A
      BY DEF Sides
    <3> HIDE DEF S, A
    <3> QED
      BY <3>1, FourChoices
  <2> DEFINE T == Q(l, w)
  <2>4. \A p \in T : IsChoice(p, 4) /\ p[1] \in A /\ p[2] \in B /\ p[3] \in C /\ p[4] \in S
    BY <2>3
  <2> HIDE DEF S, A, B, C, T
  <2>5. IsFiniteSet(T)
    BY <2>1, <2>2, <2>4, FourOfFinite, Zenon
  <2> QED
    BY <2>5 DEF T
<1>3. ASSUME NEW l \in L
      PROVE  IsFiniteSet(F[l])
  <2>1. IsFiniteSet(W(l))
    BY DiskModulesFinite
  <2>2. \A w \in W(l) : IsFiniteSet(G(l)[w])
    BY <1>2
  <2> DEFINE g == G(l)
             D == W(l)
  <2>3. IsFiniteSet(UNION {g[w] : w \in D})
    <3> HIDE DEF g, D
    <3>1. IsFiniteSet(D) /\ \A w \in D : IsFiniteSet(g[w])
      BY <2>1, <2>2 DEF g, D
    <3> QED
      BY <3>1, FinitelyManyOfEach
  <2> QED
    BY <2>3
<1>4. DiskSensorPlaces(c) = UNION {F[l] : l \in L}
  <2>1. ASSUME NEW l \in L
        PROVE  F[l] = UNION {Q(l, w) : w \in W(l)}
    <3>1. {G(l)[w] : w \in W(l)} = {Q(l, w) : w \in W(l)}
      OBVIOUS
    <3> QED
      BY <3>1
  <2>2. {F[l] : l \in L} = {UNION {Q(l, w) : w \in W(l)} : l \in L}
    <3> HIDE DEF F, Q, W
    <3> QED
      BY <2>1
  <2>3. DiskSensorPlaces(c) = UNION {UNION {Q(l, w) : w \in W(l)} : l \in L}
    BY DEF DiskSensorPlaces
  <2> HIDE DEF F, Q, W
  <2> QED
    BY <2>2, <2>3, Zenon
<1> HIDE DEF F, L
<1>5. IsFiniteSet(UNION {F[l] : l \in L})
  BY <1>1, <1>3, FinitelyManyOfEach
<1> QED
  BY <1>4, <1>5

LEMMA DetailedEndcapElements ==
  ASSUME DetailedEndcapMade
  PROVE  ElementsSitOnTheirSensors
<1>1. PICK c \in DetailedEndcapFiles :
        \E v : DetailedEndcapMakes(built, c, v) /\ detector = DetailedEndcap(c, v)
  BY DEF DetailedEndcapMade
<1>2. PICK v : DetailedEndcapMakes(built, c, v) /\ detector = DetailedEndcap(c, v)
  BY <1>1
<1> DEFINE P == DiskSensorPlaces(c)
           N == [p \in P |-> DiskSensorName(c, v, p)]
<1>3. \A p \in P : IsChoice(p, 4)
  <2> SUFFICES ASSUME NEW p \in P PROVE IsChoice(p, 4)
    OBVIOUS
  <2>1. p = <<p[1], p[2], p[3], p[4]>>
    BY DiskSensorPlacesAre
  <2>2. IsChoice(<<p[1], p[2], p[3], p[4]>>, 4)
    BY FourChoices
  <2> QED
    BY <2>1, <2>2
<1>4. IsFiniteSet(P)
  BY DiskSensorPlacesFinite
<1>5. \A p, q \in P : N[p] = N[q] => p = q
  BY <1>2, DiskNamesTell
<1>6. detector.elements = {[name |-> N[p], on |-> p] : p \in P}
  BY <1>2 DEF DetailedEndcap
<1>7. \A s \in detector.sensors : s.at \in P
  BY <1>2 DEF DetailedEndcap
<1> HIDE DEF P, N
<1>8. 4 \in Nat
  OBVIOUS
<1> QED
  BY <1>3, <1>4, <1>5, <1>6, <1>7, <1>8, OneForEachSensor, Zenon

LEMMA DiscElementsOfTkLayout ==
  ASSUME DiscsMade
  PROVE  ElementsSitOnTheirSensors
<1>1. PICK c \in DiscFiles : detector = TkLayoutTrackerEndcap_o1_v01(c)
  BY DEF DiscsMade
<1> DEFINE P == DiscPlaces(c)
           N == [p \in P |-> <<p[1], p[2] - 1, DiscNumber(c, p)>>]
           D == DOMAIN c.discs
<1>2. \A p \in P : /\ IsChoice(p, 5) /\ p = <<p[1], p[2], p[3], p[4], p[5]>>
                   /\ p[1] \in {0, 1} /\ p[2] \in D
  <2> SUFFICES ASSUME NEW p \in P
               PROVE  /\ IsChoice(p, 5) /\ p = <<p[1], p[2], p[3], p[4], p[5]>>
                      /\ p[1] \in {0, 1} /\ p[2] \in D
    OBVIOUS
  <2>1. p = <<p[1], p[2], p[3], p[4], p[5]>> /\ p[1] \in {0, 1} /\ p[2] \in D
    BY DiscPlacesAre, Zenon
  <2>2. IsChoice(<<p[1], p[2], p[3], p[4], p[5]>>, 5)
    BY FiveChoices
  <2> QED
    BY <2>1, <2>2
<1>3. IsFiniteSet(P)
  <2> DEFINE F == [d \in D |-> RingPlaces(c.discs[d])]
             R == UNION {F[d] : d \in D}
             A(i) == {x[i] : x \in R}
             B == 0..1
  <2>1. IsFiniteSet(D)
    BY DiscFilesAssumption, ListIsFinite DEF IsDiscFile
  <2>2. \A d \in D : IsFiniteSet(F[d])
    BY RingPlacesFinite
  <2>3. IsFiniteSet(R)
    <3> HIDE DEF F, D
    <3> QED
      BY <2>1, <2>2, FinitelyManyOfEach
  <2>4. \A p \in P : <<p[3], p[4], p[5]>> \in R
    <3> SUFFICES ASSUME NEW p \in P PROVE <<p[3], p[4], p[5]>> \in R
      OBVIOUS
    <3> DEFINE d == DiscVolume(c, p[2])
    <3>1. d \in D /\ <<p[3], p[4], p[5]>> \in RingPlaces(c.discs[d])
      BY DiscPlacesAre, VolumesAre
    <3> HIDE DEF d
    <3> QED
      BY <3>1
  <2> HIDE DEF R
  <2>5. IsFiniteSet(A(1)) /\ IsFiniteSet(A(2)) /\ IsFiniteSet(A(3))
    BY <2>3, ChoicesAreFinite, Zenon
  <2>6. ASSUME NEW p \in P
        PROVE  p[1] \in B /\ p[3] \in A(1) /\ p[4] \in A(2) /\ p[5] \in A(3)
    <3> DEFINE x == <<p[3], p[4], p[5]>>
    <3>1. x \in R
      BY <2>4
    <3>2. x[1] = p[3] /\ x[2] = p[4] /\ x[3] = p[5]
      OBVIOUS
    <3>3. p[1] \in B
      <4>1. p[1] \in {0, 1}
        BY <1>2
      <4> QED
        BY <4>1
    <3> HIDE DEF x
    <3> QED
      BY <3>1, <3>2, <3>3
  <2>7. IsFiniteSet(B)
    <3>1. 0 \in Int /\ 1 \in Int
      OBVIOUS
    <3> QED
      BY <3>1, FS_Interval, Zenon
  <2> HIDE DEF A, B, P, D
  <2> QED
    BY <1>2, <2>1, <2>5, <2>6, <2>7, FiveOfFinite
<1>4. ASSUME NEW p \in P, NEW q \in P, N[p] = N[q]
      PROVE  p = q
  <2>1. p[1] = q[1] /\ p[2] - 1 = q[2] - 1 /\ DiscNumber(c, p) = DiscNumber(c, q)
    BY <1>4
  <2>2. p[2] = q[2] /\ p[3] = q[3] /\ p[4] = q[4] /\ p[5] = q[5]
    BY <2>1, DiscNumbersDiffer
  <2> HIDE DEF P
  <2> QED
    BY <1>2, <2>1, <2>2
<1>5. detector.elements = {[name |-> N[p], on |-> p] : p \in P}
  BY <1>1 DEF TkLayoutTrackerEndcap_o1_v01
<1>6. \A s \in detector.sensors : s.at \in P
  <2>1. detector.sensors = {ComponentSensor(c, p) : p \in P}
    BY <1>1 DEF TkLayoutTrackerEndcap_o1_v01
  <2>2. \A p : ComponentSensor(c, p).at = p
    BY DEF ComponentSensor
  <2> QED
    BY <2>1, <2>2
<1> HIDE DEF P, N
<1> QED
  BY <1>2, <1>3, <1>4, <1>5, <1>6, OneForEachSensor

LEMMA NoElements ==
  ASSUME detector.elements = {}
  PROVE  ElementsSitOnTheirSensors
BY DEF ElementsSitOnTheirSensors

LEMMA BeginningOfFive ==
  ASSUME NEW a, NEW b, NEW c, NEW d, NEW e
  PROVE  IsPrefix(<<a, b>>, <<a, b, c, d, e>>)
BY DEF IsPrefix

LEMMA BeginningOfFour ==
  ASSUME NEW a, NEW b, NEW c, NEW d
  PROVE  IsPrefix(<<a, b, c>>, <<a, b, c, d>>)
BY DEF IsPrefix

LEMMA BeginningOfThree ==
  ASSUME NEW a, NEW b, NEW c
  PROVE  IsPrefix(<<a>>, <<a, b, c>>)
BY DEF IsPrefix

\* A DetElement for each half, if there are any.
LEMMA ForwardElements ==
  ASSUME ForwardMade
  PROVE  ElementsSitOnTheirSensors
<1>1. PICK c \in ForwardFiles : \E v :
        v.halves \in {{}, {1, 2}} /\ detector = ForwardCalorimeter(c, v)
  BY DEF ForwardMade, ForwardMakes
<1>2. PICK v : v.halves \in {{}, {1, 2}} /\ detector = ForwardCalorimeter(c, v)
  BY <1>1
<1>3. detector.elements = {[name |-> <<half>>, on |-> <<half>>] : half \in v.halves}
  BY <1>2 DEF ForwardCalorimeter
<1>4. CASE v.halves = {}
  BY <1>3, <1>4, NoElements
<1>5. CASE v.halves = {1, 2}
  <2> DEFINE P == {<<1>>, <<2>>}
             N == [p \in P |-> p]
  <2>1. IsFiniteSet(P)
    <3>1. IsFiniteSet({<<1>>}) /\ IsFiniteSet({<<2>>}) /\ P = {<<1>>} \cup {<<2>>}
      BY FS_Singleton, Zenon
    <3> QED
      BY <3>1, FS_Union, Zenon
  <2>2. \A p \in P : IsChoice(p, 1)
    BY DEF IsChoice
  <2>3. \A p, q \in P : N[p] = N[q] => p = q
    OBVIOUS
  <2>4. detector.elements = {[name |-> N[p], on |-> p] : p \in P}
    BY <1>3, <1>5
  <2>5. ASSUME NEW s \in detector.sensors
        PROVE  \E p \in P : IsPrefix(p, s.at)
    <3>1. PICK p \in PolygonPlaces(c, 2) : s = ForwardSensor(c, v, p)
      BY <1>2 DEF ForwardCalorimeter
    <3>2. s.at = p
      BY <3>1 DEF ForwardSensor
    <3>3. IsLayered(c)
      BY ForwardFilesAssumption DEF IsForwardFile, IsPolygonFile
    <3>4. p = <<p[1], p[2], p[3]>> /\ p[1] \in {1, 2}
      BY <3>3, PolygonPlacesAre
    <3>5. IsPrefix(<<p[1]>>, p)
      BY <3>4, BeginningOfThree
    <3>6. <<p[1]>> \in P
      BY <3>4
    <3> QED
      BY <3>2, <3>5, <3>6
  <2> HIDE DEF P, N
  <2> QED
    BY <2>1, <2>2, <2>3, <2>4, <2>5, OneForEachPlace
<1> QED
  BY <1>2, <1>4, <1>5

LEMMA PrototypeElements ==
  ASSUME PrototypesMade
  PROVE  ElementsSitOnTheirSensors
<1>1. PICK c \in PrototypeFiles : \E v : detector = Prototype(c, v)
  BY DEF PrototypesMade
<1>2. detector.elements = {}
  BY <1>1 DEF Prototype
<1> QED
  BY <1>2, NoElements

\* The number of a module counts the modules of the staves before.
LEMMA ValidatedElements ==
  ASSUME NEW c \in ChamberBarrelFiles, NEW sliceIds \in BOOLEAN,
         detector = ValidatedBarrel(c, AHcalVariant(c, sliceIds))
  PROVE  ElementsSitOnTheirSensors
<1> DEFINE v == AHcalVariant(c, sliceIds)
           P == (1..c.nsides) \X (1..2)
           N == [p \in P |-> <<(p[1] - 1) * 2 + p[2] - 1>>]
           places == ChamberBarrelPlaces(c, v, 1..c.nlayers)
<1>1. CASE detector = Thrown
  BY <1>1, NoElements DEF Thrown
<1>2. CASE detector # Thrown
  <2>1. v.nmodules = 2
    BY DEF AHcalVariant
  <2> HIDE DEF v
  <2>2. /\ detector.elements = {[name |-> N[p], on |-> p] : p \in P}
        /\ detector.sensors = {ChamberBarrelSensor(c, v, p, TwoModules(c, p)) : p \in places}
    BY <1>2, Zenon DEF ValidatedBarrel, ChamberBarrel, v
  <2>3. c.nsides \in Int
    BY ChamberBarrelFilesAssumption DEF IsChamberBarrelFile
  <2>4. \A p \in P : IsChoice(p, 2) /\ p[1] \in 1..c.nsides /\ p[2] \in 1..2
    <3> SUFFICES ASSUME NEW p \in P
                 PROVE  IsChoice(p, 2) /\ p[1] \in 1..c.nsides /\ p[2] \in 1..2
      OBVIOUS
    <3>1. p = <<p[1], p[2]>> /\ p[1] \in 1..c.nsides /\ p[2] \in 1..2
      OBVIOUS
    <3>2. IsChoice(<<p[1], p[2]>>, 2)
      BY TwoChoices
    <3> QED
      BY <3>1, <3>2
  <2>5. IsFiniteSet(P)
    <3>1. IsFiniteSet(1..c.nsides) /\ IsFiniteSet(1..2)
      <4>1. 2 \in Int
        OBVIOUS
      <4> QED
        BY <2>3, <4>1, CountedUpTo, Zenon
    <3> QED
      BY <3>1, FS_Product, Zenon
  <2>6. \A p, q \in P : N[p] = N[q] => p = q
    <3> SUFFICES ASSUME NEW p \in P, NEW q \in P, N[p] = N[q]
                 PROVE  p = q
      BY Zenon
    <3>1. (p[1] - 1) * 2 + p[2] - 1 = (q[1] - 1) * 2 + q[2] - 1
      OBVIOUS
    <3>2. p[1] \in Int /\ q[1] \in Int /\ p[2] \in 1..2 /\ q[2] \in 1..2
      OBVIOUS
    <3>3. p = <<p[1], p[2]>> /\ q = <<q[1], q[2]>>
      OBVIOUS
    <3> HIDE DEF P, N
    <3>4. p[1] = q[1] /\ p[2] = q[2]
      BY <3>1, <3>2
    <3> QED
      BY <3>3, <3>4
  <2>7. \A s \in detector.sensors : \E p \in P : IsPrefix(p, s.at)
    <3> SUFFICES ASSUME NEW s \in detector.sensors
                 PROVE  \E p \in P : IsPrefix(p, s.at)
      OBVIOUS
    <3>1. PICK q \in places : s = ChamberBarrelSensor(c, v, q, TwoModules(c, q))
      BY <2>2
    <3>2. s.at = q
      BY <3>1 DEF ChamberBarrelSensor
    <3>3. q = <<q[1], q[2], q[3], q[4], q[5]>> /\ q[1] \in 1..c.nsides /\ q[2] \in 1..2
      BY <2>1 DEF ChamberBarrelPlaces
    <3>4. <<q[1], q[2]>> \in P
      BY <3>3
    <3>5. IsPrefix(<<q[1], q[2]>>, q)
      BY <3>3, BeginningOfFive
    <3> QED
      BY <3>2, <3>4, <3>5
  <2> HIDE DEF P, N, places
  <2>8. \A p \in P : IsChoice(p, 2)
    BY <2>4
  <2> QED
    BY <2>2, <2>5, <2>6, <2>7, <2>8, OneForEachPlace
<1> QED
  BY <1>1, <1>2

LEMMA ChamberBarrelElements ==
  ASSUME ChamberBarrelMade
  PROVE  ElementsSitOnTheirSensors
<1>1. PICK c \in ChamberBarrelFiles :
        \/ detector = SHcalSc04_Barrel_v01(c) \/ detector = SHcalSc04_Barrel_v04(c)
        \/ detector = SHcalSc04_Barrel_v02(c) \/ detector = SHcalSc04_Barrel_v03(c)
        \/ detector = Hcal_Barrel_SD_v01(c) \/ detector = Hcal_Barrel_SD_v02(c)
  BY DEF ChamberBarrelMade
<1>2. CASE detector = SHcalSc04_Barrel_v01(c)
  BY <1>2, ValidatedElements, Zenon DEF SHcalSc04_Barrel_v01
<1>3. CASE detector = SHcalSc04_Barrel_v04(c)
  BY <1>3, ValidatedElements, Zenon DEF SHcalSc04_Barrel_v04
<1>4. CASE detector = SHcalSc04_Barrel_v02(c)
  BY <1>4, NoElements DEF SHcalSc04_Barrel_v02, ChamberBarrel
<1>5. CASE detector = SHcalSc04_Barrel_v03(c)
  BY <1>5, NoElements, Zenon DEF SHcalSc04_Barrel_v03, ChamberBarrel
<1>6. CASE detector = Hcal_Barrel_SD_v01(c)
  BY <1>6, NoElements, Zenon DEF Hcal_Barrel_SD_v01, SDBarrel, ChamberBarrel
<1>7. CASE detector = Hcal_Barrel_SD_v02(c)
  BY <1>7, NoElements, Zenon DEF Hcal_Barrel_SD_v02, SDBarrel, ChamberBarrel
<1> QED
  BY <1>1, <1>2, <1>3, <1>4, <1>5, <1>6, <1>7

LEMMA BoxesWithoutElements ==
  ASSUME NEW c, NEW v, NEW staves, NEW n, NEW radiator
  PROVE  BoxEndcap(c, v, staves, n, radiator).elements = {}
BY DEF BoxEndcap, ChamberEndcap

LEMMA PolygonsWithoutElements ==
  ASSUME NEW c, NEW v, NEW staves, NEW n, NEW front, NEW z, NEW distanceFrom, NEW radiator
  PROVE  PolygonBody(c, v, staves, n, front, z, distanceFrom, radiator).elements = {}
BY DEF PolygonBody, ChamberEndcap

LEMMA ChamberEndcapElements ==
  ASSUME ChamberEndcapMade
  PROVE  ElementsSitOnTheirSensors
<1>1. PICK c \in ChamberEndcapFiles :
        \/ detector = SHcalSc04_Endcaps(c) \/ detector = SHcalSc04_Endcaps_v01(c)
        \/ detector = SHcalSc04_EndcapRing(c) \/ detector = SHcalSc04_EndcapRing_v01(c)
        \/ detector = Hcal_Endcaps_SD_v01(c) \/ detector = Hcal_Endcaps_SD_v02(c)
        \/ detector = Hcal_EndcapRing_SD_v01(c)
  BY DEF ChamberEndcapMade
<1>2. /\ SHcalSc04_Endcaps(c).elements = {} /\ SHcalSc04_Endcaps_v01(c).elements = {}
      /\ Hcal_Endcaps_SD_v02(c).elements = {}
  BY BoxesWithoutElements, Zenon
     DEF SHcalSc04_Endcaps, SHcalSc04_Endcaps_v01, Hcal_Endcaps_SD_v02
<1>3. SHcalSc04_EndcapRing(c).elements = {} /\ SHcalSc04_EndcapRing_v01(c).elements = {}
  BY PolygonsWithoutElements, Zenon
     DEF SHcalSc04_EndcapRing, SHcalSc04_EndcapRing_v01, EndcapRing
<1>4. Hcal_Endcaps_SD_v01(c).elements = {} /\ Hcal_EndcapRing_SD_v01(c).elements = {}
  BY PolygonsWithoutElements, Zenon DEF Hcal_Endcaps_SD_v01, Hcal_EndcapRing_SD_v01
<1>5. detector.elements = {}
  BY <1>1, <1>2, <1>3, <1>4, Zenon
<1> QED
  BY <1>5, NoElements

LEMMA YokeBarrelElements ==
  ASSUME YokeBarrelMade
  PROVE  ElementsSitOnTheirSensors
<1>1. PICK c \in YokeBarrelFiles : detector = Yoke05_Barrel(c)
  BY DEF YokeBarrelMade
<1> DEFINE A == 1..3
           B == 0..(c.nlayers - 1)
           C == 0..(c.nsides - 1)
           P == {<<m, i, j>> : m \in A, i \in B, j \in C}
           N == [p \in P |-> <<p[1], p[3] + 1, Number(p[2])>>]
<1>2. detector.sensors = {YokeBarrelSensor(c, p) : p \in YokeBarrelPlaces(c)}
  BY <1>1 DEF Yoke05_Barrel
<1>3. \A p \in P : /\ IsChoice(p, 3) /\ p[1] \in A /\ p[2] \in B /\ p[3] \in C
                   /\ p = <<p[1], p[2], p[3]>>
  BY ThreeChoices
<1>4. detector.elements = {[name |-> N[p], on |-> p] : p \in P}
  <2> DEFINE E == {[name |-> <<m, j + 1, Number(i)>>, on |-> <<m, i, j>>] :
                     m \in A, i \in B, j \in C}
             F == {[name |-> N[p], on |-> p] : p \in P}
  <2>1. detector.elements = E
    BY <1>1 DEF Yoke05_Barrel
  <2>2. ASSUME NEW e \in E
        PROVE  e \in F
    <3>1. PICK m \in A, i \in B, j \in C : e = [name |-> <<m, j + 1, Number(i)>>, on |-> <<m, i, j>>]
      OBVIOUS
    <3>2. <<m, i, j>> \in P /\ N[<<m, i, j>>] = <<m, j + 1, Number(i)>>
      OBVIOUS
    <3> HIDE DEF P, N
    <3> QED
      BY <3>1, <3>2
  <2>3. ASSUME NEW p \in P
        PROVE  [name |-> N[p], on |-> p] \in E
    <3>1. p[1] \in A /\ p[2] \in B /\ p[3] \in C /\ p = <<p[1], p[2], p[3]>>
      BY <1>3
    <3>2. N[p] = <<p[1], p[3] + 1, Number(p[2])>>
      OBVIOUS
    <3> HIDE DEF P, N, A, B, C
    <3> QED
      BY <3>1, <3>2
  <2> HIDE DEF E, N, P
  <2> QED
    BY <2>1, <2>2, <2>3
<1>5. IsFiniteSet(P)
  <2>1. c.nlayers \in Int /\ c.nsides \in Int /\ 3 \in Int
    BY YokeBarrelFilesAssumption DEF IsYokeBarrelFile, IsYokeFile
  <2>2. IsFiniteSet(A) /\ IsFiniteSet(B) /\ IsFiniteSet(C)
    BY <2>1, CountedUpTo, Zenon
  <2> HIDE DEF A, B, C, P
  <2> QED
    BY <1>3, <2>2, ThreeOfFinite
<1>6. ASSUME NEW p \in P, NEW q \in P, N[p] = N[q]
      PROVE  p = q
  <2>1. p[1] = q[1] /\ p[3] + 1 = q[3] + 1 /\ p[2] + 2 = q[2] + 2
    BY <1>6 DEF Number
  <2>2. /\ p[2] \in Int /\ q[2] \in Int /\ p[3] \in Int /\ q[3] \in Int
        /\ p = <<p[1], p[2], p[3]>> /\ q = <<q[1], q[2], q[3]>>
    BY <1>3
  <2> HIDE DEF P, N
  <2>3. p[2] = q[2] /\ p[3] = q[3]
    BY <2>1, <2>2
  <2> QED
    BY <2>1, <2>2, <2>3
<1>7. \A s \in detector.sensors : \E p \in P : IsPrefix(p, s.at)
  <2> SUFFICES ASSUME NEW s \in detector.sensors
               PROVE  \E p \in P : IsPrefix(p, s.at)
    OBVIOUS
  <2>1. PICK q \in YokeBarrelPlaces(c) : s = YokeBarrelSensor(c, q)
    BY <1>2
  <2>2. s.at = q
    BY <2>1 DEF YokeBarrelSensor
  <2>3. q = <<q[1], q[2], q[3], q[4]>> /\ q[1] \in A /\ q[2] \in B /\ q[3] \in C
    BY DEF YokeBarrelPlaces
  <2>4. IsPrefix(<<q[1], q[2], q[3]>>, q)
    BY <2>3, BeginningOfFour
  <2>5. <<q[1], q[2], q[3]>> \in P
    BY <2>3
  <2> QED
    BY <2>2, <2>4, <2>5
<1> HIDE DEF P, N
<1>8. \A p \in P : IsChoice(p, 3)
  BY <1>3
<1> QED
  BY <1>4, <1>5, <1>6, <1>7, <1>8, OneForEachPlace

\* Places that lead to DetElements further down, with elements on the way.
LEMMA ElementsAbove ==
  ASSUME NEW n \in Nat, NEW m \in Nat, m < n,
         NEW P, IsFiniteSet(P), P # {}, \A p \in P : IsChoice(p, n),
         NEW N, \A p, q \in P : N[p] = N[q] => p = q,
         NEW Q, IsFiniteSet(Q), \A p \in Q : IsChoice(p, m),
         NEW M, \A p, q \in Q : M[p] = M[q] => p = q,
         \A p \in P : \A q \in Q : N[p] # M[q],
         detector.elements = {[name |-> N[p], on |-> p] : p \in P}
                             \cup {[name |-> M[p], on |-> p] : p \in Q},
         \A s \in detector.sensors : ~ForCalibration(s) => \E p \in P : IsPrefix(p, s.at)
  PROVE  ElementsSitOnTheirSensors
<1> DEFINE f == [p \in P |-> [name |-> N[p], on |-> p]]
           g == [p \in Q |-> [name |-> M[p], on |-> p]]
           E == {f[p] : p \in P}
           G == {g[p] : p \in Q}
<1>1. \A p \in P : f[p].name = N[p] /\ f[p].on = p /\ Len(p) = n
  BY DEF IsChoice
<1>2. \A p \in Q : g[p].name = M[p] /\ g[p].on = p /\ Len(p) = m
  BY DEF IsChoice
<1>3. detector.elements = E \cup G
  OBVIOUS
<1> HIDE DEF f, g
<1>4. IsFiniteSet(E) /\ IsFiniteSet(G)
  BY ImageIsFinite
<1>5. IsFiniteSet(detector.elements)
  <2> HIDE DEF E, G
  <2>1. IsFiniteSet(E \cup G)
    BY <1>4, FS_Union, Zenon
  <2> QED
    BY <1>3, <2>1, Zenon
<1>6. \A e, h \in detector.elements : e.name = h.name => e = h
  BY <1>1, <1>2, <1>3
<1>7. \A e \in detector.elements : Len(e.on) \in 0..n
  BY <1>1, <1>2, <1>3
<1>8. \E e \in detector.elements : Len(e.on) = n
  BY <1>1, <1>3
<1>9. ASSUME NEW s \in detector.sensors, ~ForCalibration(s)
      PROVE  \E e \in detector.elements :
               SitsAt(n, e, s) /\ \A h \in detector.elements : SitsAt(n, h, s) => h = e
  <2>1. PICK p \in P : IsPrefix(p, s.at)
    BY <1>9
  <2>2. f[p] \in detector.elements /\ SitsAt(n, f[p], s)
    BY <1>1, <1>3, <2>1 DEF SitsAt
  <2>3. ASSUME NEW h \in detector.elements, SitsAt(n, h, s)
        PROVE  h = f[p]
    <3>1. h \in E
      <4>1. h \notin G
        BY <1>2, <2>3 DEF SitsAt
      <4> QED
        BY <1>3, <4>1
    <3>2. PICK q \in P : h = f[q]
      BY <3>1
    <3>3. IsPrefix(q, s.at)
      BY <1>1, <2>3, <3>2 DEF SitsAt
    <3>4. p = q
      BY <2>1, <3>3, OneBeginning
    <3> QED
      BY <3>2, <3>4
  <2> QED
    BY <2>2, <2>3
<1> HIDE DEF E, G
<1> QED
  BY <1>5, <1>6, <1>7, <1>8, <1>9, SitOnTheirSensors

LEMMA BeginningOfFourToFive ==
  ASSUME NEW a, NEW b, NEW c, NEW d, NEW e
  PROVE  IsPrefix(<<a, b, c, d>>, <<a, b, c, d, e>>)
BY DEF IsPrefix

LEMMA UprightDiscElements ==
  ASSUME UprightDiscsMade
  PROVE  ElementsSitOnTheirSensors
<1>1. PICK c \in UprightDiscFiles : detector = CaloDiscs_o1_v01(c)
  BY DEF UprightDiscsMade
<1> DEFINE D == {e \in Discs(c) : e.type = 0}
           A == {-1, 1}
           B == {d.layer : d \in D}
           Z == {0}
           C == {d.sublayer - 1 : d \in D}
           on(d, sign) == <<sign, d.layer, 0, d.sublayer - 1>>
           P == {on(d, sign) : d \in D, sign \in A}
           N == [p \in P |-> <<p[1], p[2], p[4]>>]
<1>2. detector.sensors = DiscSensors(c) /\ detector.elements = DiscElements(c)
  BY <1>1 DEF CaloDiscs_o1_v01
<1>3. \A p \in P : /\ IsChoice(p, 4) /\ p[1] \in A /\ p[2] \in B /\ p[3] \in Z /\ p[4] \in C
                   /\ p = <<p[1], p[2], 0, p[4]>>
  <2> SUFFICES ASSUME NEW p \in P
               PROVE  /\ IsChoice(p, 4) /\ p[1] \in A /\ p[2] \in B /\ p[3] \in Z /\ p[4] \in C
                      /\ p = <<p[1], p[2], 0, p[4]>>
    OBVIOUS
  <2>1. PICK d \in D, sign \in A : p = on(d, sign)
    OBVIOUS
  <2>2. IsChoice(on(d, sign), 4)
    BY FourChoices
  <2>3. on(d, sign)[1] = sign /\ on(d, sign)[2] = d.layer /\ on(d, sign)[3] = 0
        /\ on(d, sign)[4] = d.sublayer - 1
    OBVIOUS
  <2>4. d.layer \in B /\ d.sublayer - 1 \in C /\ 0 \in Z
    OBVIOUS
  <2> QED
    BY <2>1, <2>2, <2>3, <2>4
<1>4. IsFiniteSet(D)
  <2> DEFINE K == 0..(NumDiscs(c) - 1)
             f == [d \in K |-> UprightDisc(0, IPlaceHere(c, d), d + 1,
                                 ActiveOffset(c, IPlaceHere(c, d), d), ActiveThickness(c, d))]
  <2>1. IsFiniteSet(K)
    BY UprightSizes, CountedUpTo
  <2>2. Gaps(c) = {f[d] : d \in K}
    BY DEF Gaps
  <2>3. IsFiniteSet({f[d] : d \in K})
    <3> HIDE DEF f, K
    <3> QED
      BY <2>1, ImageIsFinite
  <2>4. D \subseteq Gaps(c)
    <3>1. LastAbsorber(c).type = 1 /\ (\A x \in Absorbers(c) : x.type = 1)
          /\ (\A x \in Readouts(c) : x.type = 2)
      BY DiscFields DEF Absorbers, LastAbsorber, Readouts
    <3> QED
      BY <3>1, DiscsAre
  <2> HIDE DEF D, f, K
  <2> QED
    BY <2>2, <2>3, <2>4, FS_Subset
<1>5. IsFiniteSet(P)
  <2> DEFINE l == [d \in D |-> d.layer]
             k == [d \in D |-> d.sublayer - 1]
  <2>1. B = {l[d] : d \in D} /\ C = {k[d] : d \in D}
    BY Zenon
  <2>2. IsFiniteSet({l[d] : d \in D}) /\ IsFiniteSet({k[d] : d \in D})
    <3> HIDE DEF l, k, D
    <3> QED
      BY <1>4, ImageIsFinite
  <2>3. IsFiniteSet(A) /\ IsFiniteSet(Z)
    <3>1. IsFiniteSet({-1}) /\ IsFiniteSet({0})
      BY FS_Singleton, Zenon
    <3>2. IsFiniteSet({-1} \cup {1})
      BY <3>1, FS_AddElement
    <3>3. A = {-1} \cup {1}
      OBVIOUS
    <3> QED
      BY <3>1, <3>2, <3>3
  <2> HIDE DEF A, B, C, D, Z, P, l, k
  <2> QED
    BY <1>3, <2>1, <2>2, <2>3, FourOfFinite, Zenon
<1>6. ASSUME NEW p \in P, NEW q \in P, N[p] = N[q]
      PROVE  p = q
  <2>1. p[1] = q[1] /\ p[2] = q[2] /\ p[4] = q[4]
    BY <1>6
  <2> HIDE DEF P, N
  <2> QED
    BY <1>3, <2>1
<1>7. detector.elements = {[name |-> N[p], on |-> p] : p \in P}
  <2> DEFINE element(d, sign) == [name |-> <<sign, d.layer, d.sublayer - 1>>, on |-> on(d, sign)]
  <2>1. detector.elements = {element(d, sign) : d \in D, sign \in A}
    BY <1>2 DEF DiscElements
  <2>2. \A d \in D, sign \in A : on(d, sign) \in P
    OBVIOUS
  <2>3. \A d \in D, sign \in A : element(d, sign) = [name |-> N[on(d, sign)], on |-> on(d, sign)]
    OBVIOUS
  <2>4. \A p \in P : \E d \in D, sign \in A : p = on(d, sign)
    OBVIOUS
  <2> HIDE DEF P, N, D, A, on, element
  <2> QED
    BY <2>1, <2>2, <2>3, <2>4
<1>8. ASSUME NEW s \in detector.sensors, ~ForCalibration(s)
      PROVE  \E p \in P : IsPrefix(p, s.at)
  <2>1. PICK d, p, sign : UprightIsOf(s, c, d, p, sign)
    BY <1>2, DiscSensorsAre
  <2>2. UprightIdsSay(s.ids, d, p, sign)
    BY <2>1, UprightIds
  <2>3. d.type = 0
    <3>1. "type" \in DOMAIN s.ids /\ "row" \notin DOMAIN s.ids /\ s.ids.type = d.type
      BY <2>2 DEF UprightIdsSay
    <3> QED
      BY <1>8, <3>1 DEF ForCalibration
  <2>4. d \in D /\ sign \in A
    BY <2>1, <2>3 DEF UprightIsOf
  <2>5. s.at = <<sign, d.layer, 0, d.sublayer - 1, p.subtype>>
    BY <2>1, <2>3 DEF UprightIsOf, DiscSensor
  <2>6. IsPrefix(on(d, sign), s.at)
    BY <2>5, BeginningOfFourToFive
  <2>7. on(d, sign) \in P
    BY <2>4
  <2> QED
    BY <2>6, <2>7
<1> HIDE DEF P, N
<1>9. \A p \in P : IsChoice(p, 4)
  BY <1>3
<1> QED
  BY <1>5, <1>6, <1>7, <1>8, <1>9, OneForEachPlace

\* The layers of a gap are below the element of the gap; plates of the other
\* types are for calibration, and so is the cryostat.
LEMMA PlateElementsAreOnSensors ==
  ASSUME PlatesMade, detector # Thrown
  PROVE  ElementsSitOnTheirSensors
<1>1. PICK c \in PlateFiles : \E v : detector = ECalBarrelInclined(c, v)
  BY DEF PlatesMade
<1>2. PICK v : detector = ECalBarrelInclined(c, v)
  BY <1>1
<1> DEFINE n == Len(LayerHeights(c))
           T == 0..2
           Z == {0}
           A == 0..(c.planes - 1)
           B == {i - 1 : i \in 1..n}
           P == {<<0, m, i - 1>> : m \in A, i \in 1..n}
           Q == {<<type, m>> : type \in T, m \in A}
           N == [p \in P |-> p]
           M == [p \in Q |-> p]
<1>3. n \in Nat /\ n > 0 /\ DOMAIN LayerHeights(c) = 1..n
  BY HeightsAre, ThereAreLayers
<1>4. c.planes \in Nat
  BY PlateFilesAssumption DEF IsPlateFile
<1>5. /\ detector.sensors = PlateSensors(c, v) \cup CryostatSensors(c, v)
      /\ detector.elements = PlateElements(c) \cup GapLayerElements(c)
  BY <1>2 DEF ECalBarrelInclined
<1>6. \A p \in P : IsChoice(p, 3) /\ p[1] \in Z /\ p[2] \in A /\ p[3] \in B
  BY ThreeChoices
<1>7. \A p \in Q : IsChoice(p, 2) /\ p[1] \in T /\ p[2] \in A
  BY TwoChoices
<1>8. IsFiniteSet(P) /\ IsFiniteSet(Q)
  <2>1. IsFiniteSet(1..n) /\ IsFiniteSet(A)
    <3>1. n \in Int /\ c.planes \in Int
      BY <1>3, <1>4
    <3> HIDE DEF n
    <3> QED
      BY <3>1, CountedUpTo, Zenon
  <2>2. IsFiniteSet(T) /\ IsFiniteSet(Z)
    <3>1. 0 \in Int /\ 2 \in Int
      OBVIOUS
    <3> QED
      BY <3>1, FS_Interval, FS_Singleton, Zenon
  <2>3. IsFiniteSet(B)
    <3> DEFINE f == [i \in 1..n |-> i - 1]
    <3>1. B = {f[i] : i \in 1..n}
      OBVIOUS
    <3> HIDE DEF n, f, B
    <3> QED
      BY <2>1, <3>1, ImageIsFinite, Zenon
  <2>4. IsFiniteSet(P)
    <3> HIDE DEF n, A, B, Z, P
    <3> QED
      BY <1>6, <2>1, <2>2, <2>3, ThreeOfFinite
  <2>5. IsFiniteSet(Q)
    <3>1. Q = T \X A
      OBVIOUS
    <3> HIDE DEF A, T, Q
    <3> QED
      BY <2>1, <2>2, <3>1, FS_Product
  <2> QED
    BY <2>4, <2>5
<1>9. detector.elements = {[name |-> N[p], on |-> p] : p \in P}
                          \cup {[name |-> M[p], on |-> p] : p \in Q}
  <2>1. PlateElements(c) = {[name |-> M[p], on |-> p] : p \in Q}
    <3>1. \A type \in T, m \in A : <<type, m>> \in Q /\ M[<<type, m>>] = <<type, m>>
      OBVIOUS
    <3>2. PlateElements(c) = {[name |-> <<type, m>>, on |-> <<type, m>>] : type \in T, m \in A}
      BY DEF PlateElements
    <3>3. \A p \in Q : \E type \in T, m \in A : p = <<type, m>>
      OBVIOUS
    <3> HIDE DEF Q, M, T, A
    <3> QED
      BY <3>1, <3>2, <3>3
  <2>2. GapLayerElements(c) = {[name |-> N[p], on |-> p] : p \in P}
    <3> DEFINE I == 1..n
    <3>1. \A m \in A, i \in I : <<0, m, i - 1>> \in P /\ N[<<0, m, i - 1>>] = <<0, m, i - 1>>
      OBVIOUS
    <3>2. GapLayerElements(c)
            = {[name |-> <<0, m, i - 1>>, on |-> <<0, m, i - 1>>] : m \in A, i \in I}
      BY <1>3 DEF GapLayerElements
    <3>3. \A p \in P : \E m \in A, i \in I : p = <<0, m, i - 1>>
      OBVIOUS
    <3> HIDE DEF P, N, A, I
    <3> QED
      BY <3>1, <3>2, <3>3
  <2> HIDE DEF P, Q, N, M
  <2> QED
    BY <1>5, <2>1, <2>2
<1>10. CASE detector.elements = {}
  BY <1>10, NoElements
<1>11. CASE detector.elements # {}
  <2>1. P # {}
    <3>1. \E m : m \in A
      <4>1. P # {} \/ Q # {}
        <5> HIDE DEF P, Q, N, M
        <5> QED
          BY <1>9, <1>11
      <4> HIDE DEF P, Q, A
      <4> QED
        BY <1>6, <1>7, <4>1
    <3>2. PICK m : m \in A
      BY <3>1
    <3>3. 1 \in 1..n
      <4> HIDE DEF n
      <4> QED
        BY <1>3
    <3>4. <<0, m, 1 - 1>> \in P
      BY <3>2, <3>3
    <3> HIDE DEF P
    <3> QED
      BY <3>4
  <2>2. \A p \in P : \A q \in Q : N[p] # M[q]
    <3>1. \A p \in P : N[p] = p /\ Len(p) = 3
      OBVIOUS
    <3>2. \A p \in Q : M[p] = p /\ Len(p) = 2
      OBVIOUS
    <3> HIDE DEF P, Q, N, M
    <3> QED
      BY <3>1, <3>2
  <2>3. ASSUME NEW s \in detector.sensors, ~ForCalibration(s)
        PROVE  \E p \in P : IsPrefix(p, s.at)
    <3>1. s \in PlateSensors(c, v)
      <4>1. SUFFICES ASSUME s \in CryostatSensors(c, v) PROVE FALSE
        BY <1>5
      <4>2. PICK w \in UNION {WithTheWall[x] : x \in {"front", "side", "back"}} :
              s = CryostatSensor(c, v, w)
        <5>1. c.cryoSensitive \subseteq {"front", "side", "back"}
          BY PlateFilesAssumption DEF IsPlateFile
        <5> QED
          BY <4>1, <5>1 DEF CryostatSensors
      <4>3. WallType[w] # 0
        BY <4>2 DEF WithTheWall, WallType
      <4>4. "type" \in DOMAIN s.ids /\ "row" \notin DOMAIN s.ids /\ s.ids.type = WallType[w]
        BY <4>2 DEF CryostatSensor
      <4> QED
        BY <2>3, <4>3, <4>4 DEF ForCalibration
    <3>2. PICK p \in SensitiveParts(c, v) :
            s \in {PlateSensor(c, p, m, i, sub) :
                     m \in A, i \in Parts(c)[p].layers, sub \in Parts(c)[p].subtypes}
      BY <3>1 DEF PlateSensors
    <3>3. PICK m \in A, i \in Parts(c)[p].layers, sub \in Parts(c)[p].subtypes :
            s = PlateSensor(c, p, m, i, sub)
      BY <3>2
    <3>4. p \in PartNames
      BY PlateFilesAssumption DEF IsPlateFile, SensitiveParts, PartNames
    <3>5. Parts(c)[p].type = 0
      <4>1. /\ "type" \in DOMAIN s.ids /\ "row" \notin DOMAIN s.ids
            /\ s.ids.type = Parts(c)[p].type
        BY <3>3 DEF PlateSensor
      <4> QED
        BY <2>3, <4>1 DEF ForCalibration
    <3>6. i \in 1..n
      <4>1. /\ Parts(c)["readout"].type = 2 /\ Parts(c)["first"].type = 1
            /\ Parts(c)["inner"].type = 1 /\ Parts(c)["outer"].type = 1
            /\ Parts(c)["glue"].type = 1 /\ Parts(c)["gap"].layers = 1..n
        BY PartsAre, PartIs
      <4>2. p = "gap"
        BY <3>4, <3>5, <4>1 DEF PartNames
      <4> QED
        BY <3>3, <4>1, <4>2
    <3>7. s.at = <<0, m, i - 1, sub>>
      BY <3>3, <3>5 DEF PlateSensor
    <3>8. IsPrefix(<<0, m, i - 1>>, s.at)
      BY <3>7, BeginningOfFour
    <3>9. <<0, m, i - 1>> \in P
      BY <3>3, <3>6
    <3> QED
      BY <3>8, <3>9
  <2>4. (\A p, q \in P : N[p] = N[q] => p = q) /\ (\A p, q \in Q : M[p] = M[q] => p = q)
    <3>1. (\A p \in P : N[p] = p) /\ (\A p \in Q : M[p] = p)
      OBVIOUS
    <3> HIDE DEF P, Q, N, M
    <3> QED
      BY <3>1
  <2>5. 3 \in Nat /\ 2 \in Nat /\ 2 < 3
    OBVIOUS
  <2>6. (\A p \in P : IsChoice(p, 3)) /\ (\A p \in Q : IsChoice(p, 2))
    BY <1>6, <1>7
  <2> HIDE DEF P, Q, N, M
  <2> QED
    BY <1>8, <1>9, <2>1, <2>2, <2>3, <2>4, <2>5, <2>6, ElementsAbove
<1> QED
  BY <1>10, <1>11

LEMMA BeginningOfSix ==
  ASSUME NEW a, NEW b, NEW c, NEW d, NEW e, NEW f
  PROVE  /\ SubSeq(<<a, b, c, d, e, f>>, 1, 4) = <<a, b, c, d>>
         /\ IsPrefix(<<a, b, c, d>>, <<a, b, c, d, e, f>>)
<1> DEFINE p == <<a, b, c, d, e, f>>
           q == <<a, b, c, d>>
<1>1. /\ SubSeq(p, 1, 4) = [i \in 1..4 |-> p[i]]
      /\ q = [i \in 1..4 |-> q[i]] /\ Len(q) = 4
  OBVIOUS
<1>2. \A i \in 1..4 : p[i] = q[i]
  OBVIOUS
<1>3. SubSeq(p, 1, 4) = q /\ SubSeq(q, 1, 4) = q
  <2> HIDE DEF p, q
  <2> QED
    BY <1>1, <1>2
<1>4. Len(p) = 6 /\ Len(q) = 4
  OBVIOUS
<1>5. IsPrefix(q, p)
  <2> HIDE DEF p, q
  <2> QED
    BY <1>3, <1>4 DEF IsPrefix
<1> QED
  BY <1>3, <1>5

LEMMA SizesOfWheels ==
  ASSUME NEW c \in TurbineFiles, NEW v, v.own \in BOOLEAN, NEW w \in Wheels(c)
  PROVE  NLayers(c, v, w) \in Nat /\ Wheel(c, w).ncells \in Nat
<1>1. w + 1 \in DOMAIN c.wheels
  BY TurbineFilesAssumption, Lists DEF IsTurbineFile, Wheels
<1>2. /\ {Wheel(c, w).ncells, Wheel(c, w).nrho, Wheel(c, w).nz} \subseteq Nat
      /\ c.nlayers \in Nat
  BY <1>1, TurbineFilesAssumption DEF IsTurbineFile, Wheel
<1>3. NRho(c, v, w) \in Nat /\ NZ(c, v, w) \in Nat
  BY <1>2 DEF NRho, NZ
<1> QED
  BY <1>2, <1>3 DEF NLayers

\* The gaps on both sides share their DetElement.
LEMMA TurbineElements ==
  ASSUME TurbineMade
  PROVE  ElementsSitOnTheirSensors
<1>1. PICK c \in TurbineFiles : \E v, stacks :
        TurbineMakes(built, c, v) /\ detector = Turbine(c, v, stacks)
  BY DEF TurbineMade
<1>2. PICK v, stacks : TurbineMakes(built, c, v) /\ detector = Turbine(c, v, stacks)
  BY <1>1
<1> DEFINE places == {p \in TurbinePlaces(c, v) : IsSensitive(c, v, p)}
           gaps == {p \in TurbinePlaces(c, v) : <<p[3], p[5]>> = Gap}
           on(p) == SubSeq(p, 1, 4)
           P == {on(p) : p \in gaps}
           N == [q \in P |-> <<q[1], q[2], q[4]>>]
           W == Wheels(c)
<1>3. detector.sensors = {Sensor(c, v, p) : p \in places} \cup TubeSensors(c, v)
                           \cup WallSensors(c, v)
  BY <1>2, Zenon DEF Turbine
<1>4. CASE built \in NotInTheTree
  BY <1>4 DEF ElementsSitOnTheirSensors
<1>5. CASE detector.elements = {}
  BY <1>5, NoElements
<1>6. CASE built \notin NotInTheTree /\ detector.elements # {}
  <2>1. v.readout = 2 /\ v.own \in BOOLEAN
    <3>1. built # "ECalEndcap_Turbine_o1_v01"
      BY <1>6 DEF NotInTheTree
    <3> QED
      BY <1>2, <3>1 DEF TurbineMakes
  <2>2. \A p \in gaps : /\ p = <<p[1], p[2], 0, p[4], 0, p[6]>> /\ p[1] \in W
                        /\ p[2] \in 0..(Wheel(c, p[1]).ncells - 1)
                        /\ p[4] \in 0..(NLayers(c, v, p[1]) - 1)
                        /\ on(p) = <<p[1], p[2], 0, p[4]>> /\ IsPrefix(on(p), p)
    <3> SUFFICES ASSUME NEW p \in gaps
                 PROVE  /\ p = <<p[1], p[2], 0, p[4], 0, p[6]>> /\ p[1] \in W
                        /\ p[2] \in 0..(Wheel(c, p[1]).ncells - 1)
                        /\ p[4] \in 0..(NLayers(c, v, p[1]) - 1)
                        /\ on(p) = <<p[1], p[2], 0, p[4]>> /\ IsPrefix(on(p), p)
      OBVIOUS
    <3>1. p = <<p[1], p[2], 0, p[4], 0, p[6]>>
      <4>1. p[3] = 0 /\ p[5] = 0
        BY DEF Gap
      <4> QED
        BY <4>1, TurbinePlacesAre
    <3>2. on(p) = <<p[1], p[2], 0, p[4]>> /\ IsPrefix(on(p), p)
      <4> DEFINE r == <<p[1], p[2], 0, p[4], 0, p[6]>>
      <4>1. SubSeq(r, 1, 4) = <<p[1], p[2], 0, p[4]>> /\ IsPrefix(<<p[1], p[2], 0, p[4]>>, r)
        BY BeginningOfSix
      <4>2. p = r
        BY <3>1
      <4> HIDE DEF r
      <4> QED
        BY <4>1, <4>2, Zenon
    <3> QED
      BY <3>1, <3>2, TurbinePlacesAre
  <2>3. ASSUME NEW q \in P
        PROVE  /\ IsChoice(q, 4) /\ q = <<q[1], q[2], 0, q[4]>> /\ q[1] \in W
               /\ q[2] \in 0..(Wheel(c, q[1]).ncells - 1)
               /\ q[4] \in 0..(NLayers(c, v, q[1]) - 1)
    <3>1. PICK p \in gaps : q = on(p)
      OBVIOUS
    <3> DEFINE r == <<p[1], p[2], 0, p[4]>>
    <3>2. q = r
      BY <2>2, <3>1
    <3>3. IsChoice(r, 4)
      BY FourChoices
    <3>4. r[1] = p[1] /\ r[2] = p[2] /\ r[4] = p[4]
      OBVIOUS
    <3> HIDE DEF r
    <3>5. q[1] = p[1] /\ q[2] = p[2] /\ q[4] = p[4]
      BY <3>2, <3>4
    <3>6. q = <<q[1], q[2], 0, q[4]>>
      BY <3>2, <3>5 DEF r
    <3> HIDE DEF P, on, gaps, W
    <3> QED
      BY <2>2, <3>2, <3>3, <3>5, <3>6
  <2>4. IsFiniteSet(P)
    <3>1. IsFiniteSet(W)
      <4>1. Len(c.wheels) \in Int
        BY TurbineFilesAssumption, Lists DEF IsTurbineFile
      <4> QED
        BY <4>1, CountedUpTo, Zenon DEF Wheels
    <3>2. ASSUME NEW w \in W
          PROVE  IsFiniteSet({q \in P : q[1] = w})
      <4> DEFINE S == {q \in P : q[1] = w}
                 A == {w}
                 B == 0..(Wheel(c, w).ncells - 1)
                 C == {0}
                 D == 0..(NLayers(c, v, w) - 1)
      <4>1. IsFiniteSet(A) /\ IsFiniteSet(B) /\ IsFiniteSet(C) /\ IsFiniteSet(D)
        <5>1. Wheel(c, w).ncells \in Int /\ NLayers(c, v, w) \in Int
          <6>1. NLayers(c, v, w) \in Nat /\ Wheel(c, w).ncells \in Nat
            BY <2>1, SizesOfWheels
          <6> QED
            BY <6>1
        <5> QED
          BY <5>1, CountedUpTo, FS_Singleton, Zenon
      <4>2. \A q \in S : IsChoice(q, 4) /\ q[1] \in A /\ q[2] \in B /\ q[3] \in C /\ q[4] \in D
        <5> HIDE DEF P
        <5>1. \A q \in P : q[3] = 0
          BY <2>3
        <5> QED
          BY <2>3, <5>1
      <4> HIDE DEF A, B, C, D
      <4>3. IsFiniteSet(S)
        <5> HIDE DEF S
        <5> QED
          BY <4>1, <4>2, FourOfFinite
      <4> QED
        BY <4>3
    <3>3. \A q \in P : q[1] \in W
      BY <2>3
    <3> HIDE DEF P, W
    <3> QED
      BY <3>1, <3>2, <3>3, LoopsInALoop
  <2>5. ASSUME NEW p \in P, NEW q \in P, N[p] = N[q]
        PROVE  p = q
    <3>1. p[1] = q[1] /\ p[2] = q[2] /\ p[4] = q[4]
      BY <2>5
    <3> HIDE DEF P, N
    <3> QED
      BY <2>3, <3>1
  <2>6. detector.elements = {[name |-> N[q], on |-> q] : q \in P}
    <3> DEFINE E == {[name |-> <<p[1], p[2], p[4]>>, on |-> SubSeq(p, 1, 4)] : p \in gaps}
    <3>1. detector.elements = E
      BY <1>2, <1>6, Zenon DEF Turbine
    <3>2. \A p \in gaps : on(p) \in P /\ N[on(p)] = <<p[1], p[2], p[4]>>
      <4> SUFFICES ASSUME NEW p \in gaps
                   PROVE  on(p) \in P /\ N[on(p)] = <<p[1], p[2], p[4]>>
        OBVIOUS
      <4>1. on(p) \in P
        OBVIOUS
      <4>2. on(p)[1] = p[1] /\ on(p)[2] = p[2] /\ on(p)[4] = p[4]
        BY <2>2
      <4>3. N[on(p)] = <<on(p)[1], on(p)[2], on(p)[4]>>
        BY <4>1, Zenon
      <4> HIDE DEF on, P, N
      <4> QED
        BY <4>1, <4>2, <4>3
    <3> DEFINE e(q) == [name |-> N[q], on |-> q]
               d(p) == [name |-> <<p[1], p[2], p[4]>>, on |-> SubSeq(p, 1, 4)]
    <3>3. \A p \in gaps : d(p) = e(on(p))
      <4> SUFFICES ASSUME NEW p \in gaps PROVE d(p) = e(on(p))
        OBVIOUS
      <4>1. N[on(p)] = <<p[1], p[2], p[4]>>
        BY <3>2, Zenon
      <4> HIDE DEF gaps, N
      <4> QED
        BY <4>1
    <3>4. P = {on(p) : p \in gaps} /\ E = {d(p) : p \in gaps}
      OBVIOUS
    <3> HIDE DEF E, P, gaps, on, d, e
    <3>5. E = {e(q) : q \in P}
      BY <3>3, <3>4, Zenon
    <3> QED
      BY <3>1, <3>5 DEF e
  <2>7. ASSUME NEW s \in detector.sensors, ~ForCalibration(s)
        PROVE  \E q \in P : IsPrefix(q, s.at)
    <3>1. PICK p \in places : s = Sensor(c, v, p)
      <4>1. ASSUME s \in TubeSensors(c, v) \cup WallSensors(c, v)
            PROVE  FALSE
        <5>1. /\ s.ids.cryo = 1 /\ "row" \notin DOMAIN s.ids
              /\ "cryo" \in DOMAIN s.ids /\ "type" \in DOMAIN s.ids
          BY <4>1, TubesAre, TubeIs, TurbineWallsAre, WallIs
        <5> QED
          BY <2>7, <5>1 DEF ForCalibration
      <4> QED
        BY <1>3, <4>1
    <3>2. s.at = p /\ s.ids = CellIds(c, v, p)
      BY <3>1 DEF Sensor
    <3>3. "type" \in DOMAIN s.ids /\ "row" \notin DOMAIN s.ids
      BY <3>2 DEF CellIds
    <3>4. s.ids.type = 0
      BY <2>7, <3>3 DEF ForCalibration
    <3>5. s.ids.type = IF p[3] = 0 /\ p[5] = 1 THEN 2 ELSE p[3]
      <4>1. Or(0, v.readout) = 2
        BY <2>1 DEF Or
      <4>2. CellIds(c, v, p).type = IF p[3] = 0 /\ p[5] = 1 THEN Or(0, v.readout) ELSE p[3]
        BY DEF CellIds
      <4> HIDE DEF places
      <4> QED
        BY <3>2, <4>1, <4>2
    <3>6. p[3] = 0 /\ p[5] # 1
      BY <3>4, <3>5
    <3>7. <<p[3], p[5]>> = Gap
      <4>1. <<p[3], p[5]>> \in {Gap} \cup NonActive
        BY TurbineFilesAssumption DEF IsSensitive, IsTurbineFile
      <4> QED
        BY <3>6, <4>1 DEF Gap, NonActive, Electrode, Cladding, Glue, Absorber
    <3>8. p \in gaps
      BY <3>7
    <3>9. on(p) \in P
      BY <3>8
    <3> HIDE DEF P, on, gaps
    <3> QED
      BY <2>2, <3>2, <3>8, <3>9
  <2> HIDE DEF P, N
  <2>8. \A q \in P : IsChoice(q, 4)
    BY <2>3
  <2> QED
    BY <2>4, <2>5, <2>6, <2>7, <2>8, OneForEachPlace
<1> QED
  BY <1>4, <1>5, <1>6

\* DetElements of which none has to have a sensor: their names tell them apart.
LEMMA ElementsWithoutSensors ==
  ASSUME IsFiniteSet(detector.elements), detector.sensors = {},
         \A e, f \in detector.elements : e.name = f.name => e = f
  PROVE  ElementsSitOnTheirSensors
<1>1. Cardinality({e.name : e \in detector.elements}) = Cardinality(detector.elements)
  BY AsManyNames
<1> QED
  BY <1>1 DEF ElementsSitOnTheirSensors

LEMMA FinitelyManyEndcapPlaces ==
  ASSUME NEW c \in EndcapFiles
  PROVE  IsFiniteSet(DOMAIN c.layers) /\ IsFiniteSet(EndcapPlaces(c))
<1> DEFINE L == DOMAIN c.layers
           I == [l \in L |-> DOMAIN c.layers[l].rings]
           rings == UNION {I[l] : l \in L}
           R == RingsOf(c)
           K == [li \in R |-> 0..(Ring(c, li[1], li[2]).nmodules - 1)]
           S == [li \in R |-> SensitiveOf(RingModule(c, li[1], li[2]).slices)]
           modules == UNION {K[li] : li \in R}
           slices == UNION {S[li] : li \in R}
           A == {1, -1}
           P == EndcapPlaces(c)
<1>1. IsEndcapFile(c)
  BY EndcapFilesAssumption
<1>2. IsFiniteSet(L)
  <2>1. Len(c.layers) \in Int /\ L = 1..Len(c.layers)
    BY <1>1, Lists DEF IsEndcapFile
  <2> HIDE DEF L
  <2> QED
    BY <2>1, CountedUpTo
<1>3. \A l \in L : IsFiniteSet(I[l])
  <2> SUFFICES ASSUME NEW l \in L PROVE IsFiniteSet(I[l])
    BY Zenon
  <2>1. Len(c.layers[l].rings) \in Int /\ I[l] = 1..Len(c.layers[l].rings)
    BY <1>1, Lists DEF IsEndcapFile
  <2> HIDE DEF I
  <2> QED
    BY <2>1, CountedUpTo
<1>4. \A li \in R : li = <<li[1], li[2]>> /\ li[1] \in L /\ li[2] \in rings
                    /\ li[2] \in DOMAIN c.layers[li[1]].rings
  BY DEF RingsOf
<1>5. \A li \in R : IsFiniteSet(K[li]) /\ IsFiniteSet(S[li])
  <2> SUFFICES ASSUME NEW li \in R PROVE IsFiniteSet(K[li]) /\ IsFiniteSet(S[li])
    OBVIOUS
  <2> DEFINE m == Ring(c, li[1], li[2]).nmodules
             stack == RingModule(c, li[1], li[2]).slices
  <2>1. m \in Int /\ IsStack(stack)
    BY <1>1, <1>4 DEF IsEndcapFile, Ring, RingModule
  <2>2. K[li] = 0..(m - 1) /\ S[li] = SensitiveOf(stack)
    OBVIOUS
  <2> HIDE DEF m, stack, K, S
  <2> QED
    BY <2>1, <2>2, CountedUpTo, Stacks, Zenon
<1>6. IsFiniteSet(rings)
  <2> HIDE DEF I, L
  <2> QED
    BY <1>2, <1>3, FinitelyManyOfEach
<1>7. IsFiniteSet(R)
  <2>1. R \subseteq L \X rings
    <3> HIDE DEF R, L, rings
    <3> QED
      BY <1>4
  <2> HIDE DEF R, L, rings
  <2> QED
    BY <1>2, <1>6, <2>1, FS_Product, FS_Subset, Zenon
<1>8. IsFiniteSet(modules) /\ IsFiniteSet(slices)
  <2> HIDE DEF R, K, S
  <2> QED
    BY <1>5, <1>7, FinitelyManyOfEach
<1>9. IsFiniteSet(A)
  <2>1. IsFiniteSet({1})
    BY FS_Singleton, Zenon
  <2>2. IsFiniteSet({1} \cup {-1})
    BY <2>1, FS_AddElement
  <2>3. A = {1} \cup {-1}
    OBVIOUS
  <2> QED
    BY <2>2, <2>3
<1>10. \A p \in P : /\ IsChoice(p, 5) /\ p[1] \in A /\ p[2] \in L /\ p[3] \in rings
                    /\ p[4] \in modules /\ p[5] \in slices
  <2> SUFFICES ASSUME NEW p \in P
               PROVE  /\ IsChoice(p, 5) /\ p[1] \in A /\ p[2] \in L /\ p[3] \in rings
                      /\ p[4] \in modules /\ p[5] \in slices
    OBVIOUS
  <2>1. PICK li \in R : \E side \in Sides(c), k \in K[li], s \in S[li] :
                          p = <<side, li[1], li[2], k, s>>
    BY DEF EndcapPlaces
  <2>2. PICK side \in Sides(c), k \in K[li], s \in S[li] : p = <<side, li[1], li[2], k, s>>
    BY <2>1
  <2>3. p[1] = side /\ p[2] = li[1] /\ p[3] = li[2] /\ p[4] = k /\ p[5] = s
    BY <2>2
  <2>4. IsChoice(<<side, li[1], li[2], k, s>>, 5)
    BY FiveChoices
  <2>5. side \in A /\ k \in modules /\ s \in slices
    BY DEF Sides
  <2> HIDE DEF A, L, R, K, S, rings, modules, slices
  <2> QED
    BY <1>4, <2>2, <2>3, <2>4, <2>5
<1> HIDE DEF A, L, R, K, S, rings, modules, slices, P
<1>11. IsFiniteSet(P)
  BY <1>2, <1>6, <1>8, <1>9, <1>10, FiveOfFinite
<1> QED
  BY <1>2, <1>11 DEF L, P

\* The name of a module or slice begins with the id of its layer and ends with side and slice.
EndcapNameOf(c, v, p) == EndcapName(c, v, p[1], p[2], p[3], p[4], p[5])

LEMMA NameOfFour ==
  ASSUME NEW a, NEW b, NEW d, NEW e, NEW x, x = <<a>> \o <<b>> \o <<d, e>>
  PROVE  x[1] = a /\ x[2] = b /\ x[3] = d /\ x[4] = e
OBVIOUS

LEMMA NameOfFive ==
  ASSUME NEW a, NEW b, NEW c, NEW d, NEW e, NEW x, x = <<a>> \o <<b, c>> \o <<d, e>>
  PROVE  x[1] = a /\ x[2] = b /\ x[3] = c /\ x[4] = d /\ x[5] = e
<1>1. <<a>> \o <<b, c>> = <<a, b, c>>
  BY OneThenTwo
<1>2. <<a, b, c>> \o <<d, e>> = <<a, b, c, d, e>>
  BY ThreeThenTwo
<1>3. x = <<a, b, c, d, e>>
  BY <1>1, <1>2, Zenon
<1> QED
  BY <1>3

LEMMA EndcapNamesDiffer ==
  ASSUME NEW c \in EndcapFiles, NEW v, NEW p \in EndcapPlaces(c), NEW q \in EndcapPlaces(c),
         EndcapNameOf(c, v, p) = EndcapNameOf(c, v, q)
  PROVE  p = q
<1> DEFINE id(x) == c.layers[x[2]].id
           nr(x) == ModuleNumber(c, x[2], x[3], x[4])
<1>1. IsEndcapFile(c)
  BY EndcapFilesAssumption
<1>2. \A l, m \in DOMAIN c.layers : c.layers[l].id = c.layers[m].id => l = m
  BY <1>1 DEF IsEndcapFile, DistinctIds
<1>3. /\ p = <<p[1], p[2], p[3], p[4], p[5]>> /\ q = <<q[1], q[2], q[3], q[4], q[5]>>
      /\ p[2] \in DOMAIN c.layers /\ q[2] \in DOMAIN c.layers
      /\ p[3] \in DOMAIN c.layers[p[2]].rings /\ q[3] \in DOMAIN c.layers[q[2]].rings
      /\ p[4] \in 0..(c.layers[p[2]].rings[p[3]].nmodules - 1)
      /\ q[4] \in 0..(c.layers[q[2]].rings[q[3]].nmodules - 1)
  BY EndcapPlacesAre
<1>4. CASE v.numbering = "modules"
  <2>1. \A x : EndcapNameOf(c, v, x) = <<id(x)>> \o <<nr(x)>> \o <<x[1], x[5]>>
    BY <1>4 DEF EndcapNameOf, EndcapName
  <2>2. id(p) = id(q) /\ nr(p) = nr(q) /\ p[1] = q[1] /\ p[5] = q[5]
    <3> DEFINE x == EndcapNameOf(c, v, p)
               y == EndcapNameOf(c, v, q)
    <3>1. x = <<id(p)>> \o <<nr(p)>> \o <<p[1], p[5]>>
      BY <2>1
    <3>2. y = <<id(q)>> \o <<nr(q)>> \o <<q[1], q[5]>>
      BY <2>1
    <3> HIDE DEF id, nr, x, y
    <3>3. x[1] = id(p) /\ x[2] = nr(p) /\ x[3] = p[1] /\ x[4] = p[5]
      BY <3>1, NameOfFour
    <3>4. y[1] = id(q) /\ y[2] = nr(q) /\ y[3] = q[1] /\ y[4] = q[5]
      BY <3>2, NameOfFour
    <3> QED
      BY <3>3, <3>4 DEF x, y
  <2>3. p[2] = q[2]
    BY <1>2, <1>3, <2>2
  <2>4. p[3] = q[3] /\ p[4] = q[4]
    BY <1>3, <2>2, <2>3, ModulesNumberedOn
  <2> QED
    BY <1>3, <2>2, <2>3, <2>4
<1>5. CASE v.numbering # "modules"
  <2>1. \A x : EndcapNameOf(c, v, x) = <<id(x)>> \o <<x[3] - 1, x[4]>> \o <<x[1], x[5]>>
    BY <1>5 DEF EndcapNameOf, EndcapName
  <2>2. id(p) = id(q) /\ p[3] - 1 = q[3] - 1 /\ p[4] = q[4] /\ p[1] = q[1] /\ p[5] = q[5]
    <3> DEFINE x == EndcapNameOf(c, v, p)
               y == EndcapNameOf(c, v, q)
    <3>1. x = <<id(p)>> \o <<p[3] - 1, p[4]>> \o <<p[1], p[5]>>
      BY <2>1
    <3>2. y = <<id(q)>> \o <<q[3] - 1, q[4]>> \o <<q[1], q[5]>>
      BY <2>1
    <3> HIDE DEF id, x, y
    <3>3. x[1] = id(p) /\ x[2] = p[3] - 1 /\ x[3] = p[4] /\ x[4] = p[1] /\ x[5] = p[5]
      BY <3>1, NameOfFive
    <3>4. y[1] = id(q) /\ y[2] = q[3] - 1 /\ y[3] = q[4] /\ y[4] = q[1] /\ y[5] = q[5]
      BY <3>2, NameOfFive
    <3> QED
      BY <3>3, <3>4 DEF x, y
  <2>3. p[2] = q[2]
    BY <1>2, <1>3, <2>2
  <2>4. p[3] \in Int /\ q[3] \in Int
    <3>1. /\ DOMAIN c.layers[p[2]].rings = 1..Len(c.layers[p[2]].rings)
          /\ DOMAIN c.layers[q[2]].rings = 1..Len(c.layers[q[2]].rings)
          /\ Len(c.layers[p[2]].rings) \in Nat /\ Len(c.layers[q[2]].rings) \in Nat
      BY EndcapPlacesAre
    <3> QED
      BY <1>3, <3>1
  <2>5. p[3] = q[3]
    BY <2>2, <2>4
  <2> QED
    BY <1>3, <2>2, <2>3, <2>5
<1> QED
  BY <1>4, <1>5

LEMMA EndcapNamesAreLong ==
  ASSUME NEW c \in EndcapFiles, NEW v, NEW p \in EndcapPlaces(c), NEW a, NEW b
  PROVE  EndcapNameOf(c, v, p) # <<a, b>>
<1> DEFINE m == IF v.numbering = "modules" THEN <<ModuleNumber(c, p[2], p[3], p[4])>>
                ELSE <<p[3] - 1, p[4]>>
           id == c.layers[p[2]].id
<1>1. EndcapNameOf(c, v, p) = <<id>> \o m \o <<p[1], p[5]>>
  BY DEF EndcapNameOf, EndcapName
<1>2. \A x, y, z, w : Len(<<x>> \o <<y>> \o <<z, w>>) = 4
  OBVIOUS
<1>3. \A x, y, u, z, w : Len(<<x>> \o <<y, u>> \o <<z, w>>) = 5
  OBVIOUS
<1>4. Len(<<id>> \o m \o <<p[1], p[5]>>) # 2
  <2>1. \/ m = <<ModuleNumber(c, p[2], p[3], p[4])>>
        \/ m = <<p[3] - 1, p[4]>>
    OBVIOUS
  <2> HIDE DEF m, id
  <2> QED
    BY <1>2, <1>3, <2>1
<1>5. Len(<<a, b>>) = 2
  OBVIOUS
<1> HIDE DEF m, id
<1> QED
  BY <1>1, <1>4, <1>5

\* Each slice of an endcap has an element of its own; the layers have one on either side.
LEMMA EndcapElements ==
  ASSUME EndcapMade, detector # Thrown
  PROVE  ElementsSitOnTheirSensors
<1>1. PICK c \in EndcapFiles : \E v : EndcapMakes(built, c, v) /\ detector = Endcap(c, v)
  BY DEF EndcapMade
<1>2. PICK v : EndcapMakes(built, c, v) /\ detector = Endcap(c, v)
  BY <1>1
<1> DEFINE P == EndcapPlaces(c)
           N == [p \in P |-> EndcapNameOf(c, v, p)]
           L == {m \in DOMAIN c.layers : v.layerElements}
           Q == L \X {1, -1}
           at == [x \in Q |-> IF x[2] \in Sides(c) THEN <<x[2], x[1]>> ELSE <<>>]
           M == [x \in Q |-> <<c.layers[x[1]].id, x[2]>>]
           f == [p \in P |-> [name |-> N[p], on |-> p]]
           g == [x \in Q |-> [name |-> M[x], on |-> at[x]]]
           E == {f[p] : p \in P}
           G == {g[x] : x \in Q}
<1>3. /\ detector.sensors = {EndcapSensor(c, v, p[1], p[2], p[3], p[4], p[5]) : p \in P}
      /\ detector.elements = {[name |-> EndcapNameOf(c, v, p), on |-> p] : p \in P} \cup LayerElements(c, v)
  BY <1>2 DEF Endcap, EndcapNameOf
<1>4. LayerElements(c, v) = G
  <2> DEFINE e(l, side) == [name |-> <<c.layers[l].id, side>>,
                            on |-> IF side \in Sides(c) THEN <<side, l>> ELSE <<>>]
             S == {1, -1}
  <2>1. LayerElements(c, v) = {e(l, side) : l \in L, side \in S}
    BY DEF LayerElements
  <2>2. \A l \in L, side \in S : <<l, side>> \in Q /\ g[<<l, side>>] = e(l, side)
    BY Zenon
  <2>3. \A x \in Q : \E l \in L, side \in S : x = <<l, side>>
    OBVIOUS
  <2> HIDE DEF e, L, Q, g, M, at, S
  <2>4. ASSUME NEW x \in G
        PROVE  x \in {e(l, side) : l \in L, side \in S}
    BY <2>2, <2>3
  <2>5. ASSUME NEW x \in {e(l, side) : l \in L, side \in S}
        PROVE  x \in G
    <3>1. PICK l \in L, side \in S : x = e(l, side)
      OBVIOUS
    <3>2. <<l, side>> \in Q /\ x = g[<<l, side>>]
      BY <2>2, <3>1
    <3> QED
      BY <3>2
  <2> HIDE DEF G
  <2> QED
    BY <2>1, <2>4, <2>5
<1>5. {[name |-> EndcapNameOf(c, v, p), on |-> p] : p \in P} = E
  <2> HIDE DEF P
  <2> QED
    OBVIOUS
<1>6. detector.elements = E \cup G
  <2> HIDE DEF E, G
  <2> QED
    BY <1>3, <1>4, <1>5
<1>7. \A p \in P : f[p].name = N[p] /\ f[p].on = p /\ IsChoice(p, 5) /\ Len(p) = 5
  <2> SUFFICES ASSUME NEW p \in P
               PROVE  f[p].name = N[p] /\ f[p].on = p /\ IsChoice(p, 5) /\ Len(p) = 5
    OBVIOUS
  <2>1. p = <<p[1], p[2], p[3], p[4], p[5]>>
    BY EndcapPlacesAre
  <2>2. IsChoice(<<p[1], p[2], p[3], p[4], p[5]>>, 5)
    BY FiveChoices
  <2>3. IsChoice(p, 5)
    BY <2>1, <2>2
  <2> QED
    BY <2>3 DEF IsChoice
<1>8. \A x \in Q : g[x].name = M[x] /\ Len(g[x].on) \in {0, 2}
  OBVIOUS
<1>9. IsFiniteSet(E) /\ IsFiniteSet(G) /\ IsFiniteSet(P)
  <2>1. IsFiniteSet(P) /\ IsFiniteSet(DOMAIN c.layers)
    BY FinitelyManyEndcapPlaces
  <2>2. L \subseteq DOMAIN c.layers
    OBVIOUS
  <2>3. IsFiniteSet({1, -1})
    <3>1. IsFiniteSet({1})
      BY FS_Singleton, Zenon
    <3>2. IsFiniteSet({1} \cup {-1})
      BY <3>1, FS_AddElement
    <3>3. {1, -1} = {1} \cup {-1}
      OBVIOUS
    <3> QED
      BY <3>2, <3>3
  <2>4. IsFiniteSet(Q)
    <3> HIDE DEF L
    <3> QED
      BY <2>1, <2>2, <2>3, FS_Subset, FS_Product, Zenon
  <2> HIDE DEF f, g, P, Q
  <2> QED
    BY <2>1, <2>4, ImageIsFinite
<1>10. IsFiniteSet(detector.elements)
  <2> HIDE DEF E, G
  <2>1. IsFiniteSet(E \cup G)
    BY <1>9, FS_Union, Zenon
  <2> QED
    BY <1>6, <2>1
<1>11. \A e, h \in detector.elements : e.name = h.name => e = h
  <2>1. \A p, q \in P : N[p] = N[q] => p = q
    BY EndcapNamesDiffer
  <2>2. \A x, y \in Q : M[x] = M[y] => x = y
    <3> SUFFICES ASSUME NEW x \in Q, NEW y \in Q, M[x] = M[y] PROVE x = y
      BY Zenon
    <3>1. c.layers[x[1]].id = c.layers[y[1]].id /\ x[2] = y[2]
      OBVIOUS
    <3>2. \A l, m \in DOMAIN c.layers : c.layers[l].id = c.layers[m].id => l = m
      BY EndcapFilesAssumption DEF IsEndcapFile, DistinctIds
    <3>3. x = <<x[1], x[2]>> /\ y = <<y[1], y[2]>> /\ x[1] \in DOMAIN c.layers /\ y[1] \in DOMAIN c.layers
      OBVIOUS
    <3> HIDE DEF Q, M
    <3> QED
      BY <3>1, <3>2, <3>3
  <2>3. \A p \in P, x \in Q : N[p] # M[x]
    BY EndcapNamesAreLong
  <2> HIDE DEF P, Q, N, M, f, g
  <2> QED
    BY <1>6, <1>7, <1>8, <2>1, <2>2, <2>3
<1> HIDE DEF P, Q, N, M, f, g, at
<1>12. \A e \in detector.elements : Len(e.on) \in 0..5
  <2>1. \A i \in {0, 2, 5} : i \in 0..5
    OBVIOUS
  <2> QED
    BY <1>6, <1>7, <1>8, <2>1
<1>13. CASE P = {}
  <2>1. detector.sensors = {}
    BY <1>3, <1>13
  <2> HIDE DEF E, G
  <2> QED
    BY <1>10, <1>11, <2>1, ElementsWithoutSensors
<1>14. CASE P # {}
  <2>1. \E e \in detector.elements : Len(e.on) = 5
    BY <1>6, <1>7, <1>14
  <2>2. ASSUME NEW s \in detector.sensors
        PROVE  \E e \in detector.elements :
                 SitsAt(5, e, s) /\ \A h \in detector.elements : SitsAt(5, h, s) => h = e
    <3>1. PICK p \in P : s = EndcapSensor(c, v, p[1], p[2], p[3], p[4], p[5])
      BY <1>3
    <3>2. s.at = p
      <4>1. s.at = <<p[1], p[2], p[3], p[4], p[5]>>
        BY <3>1 DEF EndcapSensor
      <4>2. p = <<p[1], p[2], p[3], p[4], p[5]>>
        BY <3>1, EndcapPlacesAre DEF P
      <4> QED
        BY <4>1, <4>2
    <3>3. IsPrefix(p, s.at)
      <4>1. 5 \in Nat
        OBVIOUS
      <4> QED
        BY <1>7, <3>2, <4>1, ItsOwnBeginning
    <3>4. f[p] \in detector.elements /\ SitsAt(5, f[p], s)
      BY <1>6, <1>7, <3>3 DEF SitsAt
    <3>5. ASSUME NEW h \in detector.elements, SitsAt(5, h, s)
          PROVE  h = f[p]
      <4>1. Len(h.on) = 5 /\ IsPrefix(h.on, s.at)
        BY <3>5 DEF SitsAt
      <4>2. PICK q \in P : h = f[q]
        <5>1. ASSUME NEW x \in Q, h = g[x]
              PROVE  FALSE
          <6>1. Len(h.on) \in {0, 2}
            BY <1>8, <5>1, Zenon
          <6> QED
            BY <4>1, <6>1
        <5> QED
          BY <1>6, <5>1
      <4>3. IsPrefix(q, s.at)
        BY <1>7, <4>1, <4>2
      <4>4. 5 \in Nat /\ IsChoice(p, 5) /\ IsChoice(q, 5)
        BY <1>7
      <4>5. p = q
        BY <3>3, <4>3, <4>4, OneBeginning
      <4> QED
        BY <4>2, <4>5
    <3> QED
      BY <3>4, <3>5
  <2>3. 5 \in Nat
    OBVIOUS
  <2> HIDE DEF E, G
  <2> QED
    BY <1>10, <1>11, <1>12, <2>1, <2>2, <2>3, SitOnTheirSensors, Zenon
<1> QED
  BY <1>13, <1>14

-----------------------------------------------------------------------------
(* The tiles of one side in the order their layers are made.               *)

LEMMA PutBehind ==
  ASSUME NEW S, NEW a \in Seq(S), NEW b \in Seq(S)
  PROVE  /\ a \o b \in Seq(S) /\ Len(a \o b) = Len(a) + Len(b)
         /\ \A j \in 1..Len(a) : (a \o b)[j] = a[j]
         /\ \A i \in 1..Len(b) : (a \o b)[Len(a) + i] = b[i]
OBVIOUS

\* What is in a row comes after all of the rows before.
AreLengths(t, rows) == Len(t) = Len(rows) /\ \A p \in 1..Len(rows) : t[p] = Len(rows[p])

OneAfterTheOther(rows, t) ==
  /\ Len(FlattenSeq(rows)) = Total(t)
  /\ \A p \in 1..Len(rows) : \A i \in 1..t[p] :
       FlattenSeq(rows)[Sums(t)[p - 1] + i] = rows[p][i]

LEMMA FlattenedAt ==
  ASSUME NEW S, NEW rows \in Seq(Seq(S)), NEW t, AreLengths(t, rows)
  PROVE  OneAfterTheOther(rows, t)
<1> DEFINE n == Len(rows)
<1>1. n \in Nat /\ Len(t) = n
  BY DEF AreLengths
<1>2. \A i \in 1..n : rows[i] \in Seq(S) /\ t[i] = Len(rows[i]) /\ t[i] \in Nat
  BY DEF AreLengths
<1>3. /\ Sums(t)[0] = 0
      /\ \A i \in 1..n : Sums(t)[i] = Sums(t)[i - 1] + t[i]
      /\ \A i \in 0..n : Sums(t)[i] \in Nat
      /\ \A i, j \in 1..n : i < j => Sums(t)[i - 1] + t[i] <= Sums(t)[j - 1]
  <2> HIDE DEF n
  <2> QED
    BY <1>1, <1>2, SumsAre, SumsGrow, Zenon
<1>4. CASE n = 0
  <2>1. rows = <<>>
    BY <1>4
  <2>2. FlattenSeq(rows) = <<>>
    BY <1>4, <2>1 DEF FlattenSeq
  <2> QED
    BY <1>1, <1>3, <1>4, <2>2 DEF Total, OneAfterTheOther
<1>5. CASE n # 0
  <2>1. PICK f : /\ FlattenSeq(rows) = f[n]
                 /\ \A i \in 1..n : f[i] = IF i = 1 THEN rows[i] ELSE f[i - 1] \o rows[i]
    BY <1>5, FlattenedOneByOne
  <2> DEFINE Good(m) == /\ f[m] \in Seq(S) /\ Len(f[m]) = Sums(t)[m]
                        /\ \A p \in 1..m : \A i \in 1..t[p] : f[m][Sums(t)[p - 1] + i] = rows[p][i]
             T == {m \in 0..n : m = 0 \/ Good(m)}
  <2> HIDE DEF n
  <2>2. 0 \in T
    BY <1>1
  <2>3. ASSUME NEW m \in 1..n, m - 1 \in T
        PROVE  m \in T
    <3>1. CASE m = 1
      <4>1. f[1] = rows[1] /\ rows[1] \in Seq(S) /\ Len(rows[1]) = t[1] /\ t[1] \in Nat
        BY <1>2, <2>1, <3>1
      <4>2. Sums(t)[1] = t[1] /\ Sums(t)[1 - 1] = 0
        BY <1>2, <1>3, <3>1
      <4>3. Good(1)
        <5>1. \A p \in 1..1 : p = 1
          OBVIOUS
        <5>2. \A i \in 1..t[1] : 0 + i = i
          BY <4>1
        <5> QED
          BY <4>1, <4>2, <5>1, <5>2
      <4> QED
        BY <3>1, <4>3
    <3>2. CASE m # 1
      <4>1. m - 1 \in 1..n /\ m - 1 \in 0..n /\ m - 1 # 0 /\ m \in Nat
        BY <1>1, <3>2
      <4>2. Good(m - 1)
        BY <2>3, <4>1
      <4> DEFINE a == f[m - 1]
                 b == rows[m]
                 k == Sums(t)[m - 1]
      <4>3. a \in Seq(S) /\ b \in Seq(S) /\ Len(a) = k /\ Len(b) = t[m] /\ k \in Nat /\ t[m] \in Nat
        BY <1>2, <1>3, <4>1, <4>2
      <4>4. f[m] = a \o b
        BY <2>1, <3>2, Zenon
      <4>5. Sums(t)[m] = k + t[m]
        BY <1>3
      <4>6. \A p \in 1..(m - 1) : \A i \in 1..t[p] : a[Sums(t)[p - 1] + i] = rows[p][i]
        BY <4>2
      <4>7. \A p \in 1..(m - 1) : \A i \in 1..t[p] : Sums(t)[p - 1] + i \in 1..k
        <5> SUFFICES ASSUME NEW p \in 1..(m - 1), NEW i \in 1..t[p] PROVE Sums(t)[p - 1] + i \in 1..k
          OBVIOUS
        <5>1. p \in 1..n /\ p < m /\ p - 1 \in 0..n
          BY <1>1, <4>1
        <5> DEFINE h == Sums(t)[p - 1]
                   x == t[p]
        <5>2. h + x <= k /\ h \in Nat /\ x \in Nat /\ i \in 1..x
          BY <1>2, <1>3, <5>1
        <5>3. k \in Nat
          BY <4>3
        <5> HIDE DEF h, x, k
        <5>4. h + i \in 1..k
          BY <5>2, <5>3
        <5> QED
          BY <5>4 DEF h
      <4> HIDE DEF a, b, k
      <4>8. /\ a \o b \in Seq(S) /\ Len(a \o b) = k + t[m]
            /\ \A j \in 1..k : (a \o b)[j] = a[j]
            /\ \A i \in 1..t[m] : (a \o b)[k + i] = b[i]
        <5>1. a \in Seq(S) /\ b \in Seq(S)
          BY <4>3
        <5>2. /\ a \o b \in Seq(S) /\ Len(a \o b) = Len(a) + Len(b)
              /\ \A j \in 1..Len(a) : (a \o b)[j] = a[j]
              /\ \A i \in 1..Len(b) : (a \o b)[Len(a) + i] = b[i]
          BY <5>1, PutBehind
        <5>3. Len(a) = k /\ Len(b) = t[m]
          BY <4>3
        <5> QED
          BY <5>2, <5>3, Zenon
      <4>9. ASSUME NEW p \in 1..m, NEW i \in 1..t[p]
            PROVE  (a \o b)[Sums(t)[p - 1] + i] = rows[p][i]
        <5>1. CASE p = m
          BY <4>8, <5>1, Zenon DEF b, k
        <5>2. CASE p # m
          <6>1. p \in 1..(m - 1)
            BY <4>1, <5>2
          <6>2. Sums(t)[p - 1] + i \in 1..k
            BY <4>7, <6>1
          <6> QED
            BY <4>6, <4>8, <6>1, <6>2, Zenon
        <5> QED
          BY <5>1, <5>2, Zenon
      <4>10. Good(m)
        BY <4>4, <4>5, <4>8, <4>9, Zenon
      <4>11. m \in 0..n
        BY <1>1
      <4> HIDE DEF Good
      <4> QED
        BY <4>10, <4>11
    <3> QED
      BY <3>1, <3>2
  <2>4. n \in T
    <3>1. n \in 0..n
      BY <1>1
    <3> HIDE DEF T
    <3> QED
      BY <1>1, <2>2, <2>3, <3>1, UpTo, Zenon
  <2>5. Good(n)
    BY <1>5, <2>4, Zenon
  <2> QED
    BY <1>1, <2>1, <2>5 DEF Total, OneAfterTheOther, n
<1> QED
  BY <1>4, <1>5

\* Of one thing in every row the first is in the first place, and so on.
LEMMA SumsOfOnes ==
  ASSUME NEW t, Len(t) \in Nat, \A i \in 1..Len(t) : t[i] = 1
  PROVE  \A i \in 0..Len(t) : Sums(t)[i] = i
<1> DEFINE n == Len(t)
           T == {i \in 0..n : Sums(t)[i] = i}
<1>1. /\ Sums(t)[0] = 0 /\ n \in Nat
      /\ \A i \in 1..n : Sums(t)[i] = Sums(t)[i - 1] + t[i]
  BY SumsAre
<1>2. 0 \in T
  BY <1>1
<1>3. ASSUME NEW i \in 1..n, i - 1 \in T
      PROVE  i \in T
  <2>1. Sums(t)[i] = i - 1 + 1
    BY <1>1, <1>3
  <2> QED
    BY <1>1, <2>1
<1> HIDE DEF T, n
<1>4. \A i \in 0..n : i \in T
  BY <1>1, <1>2, <1>3, UpTo, Zenon
<1> QED
  BY <1>4 DEF T, n

\* Of the rows but one nothing is in the sum before that one.
LEMMA SumsOfOne ==
  ASSUME NEW t, Len(t) \in Nat, NEW k \in 1..Len(t),
         \A i \in 1..Len(t) : t[i] = IF i = k THEN 1 ELSE 0
  PROVE  Sums(t)[k - 1] = 0 /\ Total(t) = 1
<1> DEFINE n == Len(t)
           T == {i \in 0..n : Sums(t)[i] = IF i < k THEN 0 ELSE 1}
<1>1. /\ Sums(t)[0] = 0 /\ n \in Nat
      /\ \A i \in 1..n : Sums(t)[i] = Sums(t)[i - 1] + t[i]
  BY SumsAre
<1>2. 0 \in T
  BY <1>1
<1>3. ASSUME NEW i \in 1..n, i - 1 \in T
      PROVE  i \in T
  <2>1. Sums(t)[i] = (IF i - 1 < k THEN 0 ELSE 1) + (IF i = k THEN 1 ELSE 0)
    BY <1>1, <1>3
  <2> QED
    BY <1>1, <2>1
<1>4. k - 1 \in 0..n /\ n \in 0..n /\ k - 1 < k /\ ~(n < k)
  BY <1>1
<1> HIDE DEF T, n
<1>5. \A i \in 0..n : i \in T
  BY <1>1, <1>2, <1>3, UpTo, Zenon
<1> QED
  BY <1>4, <1>5 DEF T, n, Total

LEMMA TilesOfALayer ==
  ASSUME NEW c, NEW r, IsRing(c, r), NEW i \in DOMAIN r.depths, NEW layer \in Nat
  PROVE  /\ TilesOf(c, r, i, layer) \in Seq(Nat \X Nat) /\ Len(TilesOf(c, r, i, layer)) = 1
         /\ \E k \in Tiles(c, r, i) : TilesOf(c, r, i, layer)[1] = <<layer, k>>
<1> DEFINE seq == Sequence(c, r, i)
           n == Len(seq)
           S == Nat \X Nat
           rows == [j \in 1..n |-> IF j \in Tiles(c, r, i) THEN <<<<layer, j>>>> ELSE <<>>]
<1>1. /\ IsStack(seq) /\ Cardinality(SensitiveOf(seq)) = 1
  BY SequenceIs
<1>2. n \in Nat /\ DOMAIN seq = 1..n /\ SensitiveOf(seq) \subseteq 1..n
  <2> HIDE DEF seq
  <2> QED
    BY <1>1, Stacks
<1>3. PICK k : k \in Tiles(c, r, i)
  <2>1. SensitiveOf(seq) # {}
    <3> HIDE DEF seq
    <3> QED
      BY <1>1, FS_EmptySet
  <2> QED
    BY <2>1 DEF Tiles
<1>4. \A j : j \in Tiles(c, r, i) => j = k
  BY <1>3, TheTile
<1>5. TilesOf(c, r, i, layer) = FlattenSeq(rows)
  BY <1>2 DEF TilesOf
<1>6. k \in 1..n
  BY <1>2, <1>3 DEF Tiles
<1> DEFINE t == [j \in 1..n |-> IF j = k THEN 1 ELSE 0]
<1> HIDE DEF seq, n
<1>7. \A j \in 1..n : /\ rows[j] \in Seq(S) /\ Len(rows[j]) = t[j]
                      /\ j = k => rows[j][1] = <<layer, j>>
  <2> SUFFICES ASSUME NEW j \in 1..n
               PROVE  /\ rows[j] \in Seq(S) /\ Len(rows[j]) = t[j]
                      /\ j = k => rows[j][1] = <<layer, j>>
    BY Zenon
  <2>1. j \in Nat
    BY <1>2
  <2>2. CASE j = k
    <3>1. rows[j] = <<<<layer, j>>>> /\ t[j] = 1
      BY <1>3, <2>2
    <3>2. <<layer, j>> \in S
      BY <2>1
    <3> HIDE DEF rows, t, S
    <3> QED
      BY <3>1, <3>2
  <2>3. CASE j # k
    <3>1. rows[j] = <<>> /\ t[j] = 0
      BY <1>4, <2>3
    <3> HIDE DEF rows, t, S
    <3> QED
      BY <2>3, <3>1
  <2> QED
    BY <2>2, <2>3
<1>8. Len(t) = n
  BY <1>2
<1>9. \A j \in 1..n : t[j] = IF j = k THEN 1 ELSE 0
  OBVIOUS
<1>10. rows = [j \in 1..n |-> rows[j]]
  OBVIOUS
<1> HIDE DEF rows, t
<1>11. rows \in [1..n -> Seq(S)]
  <2> HIDE DEF S
  <2> QED
    BY <1>7, <1>10
<1>12. rows \in Seq(Seq(S)) /\ Len(rows) = n
  <2> HIDE DEF S
  <2>1. rows \in Seq(Seq(S))
    BY <1>2, <1>11, RowsOf
  <2> QED
    BY <1>2, <1>10, <2>1
<1>13. Sums(t)[k - 1] = 0 /\ Total(t) = 1 /\ t[k] = 1
  BY <1>2, <1>6, <1>8, <1>9, SumsOfOne, Zenon
<1>14. FlattenSeq(rows) \in Seq(S)
  BY <1>12, Flattened
<1>15. /\ Len(FlattenSeq(rows)) = Total(t)
       /\ \A p \in 1..n : \A j \in 1..t[p] : FlattenSeq(rows)[Sums(t)[p - 1] + j] = rows[p][j]
  <2>1. AreLengths(t, rows)
    BY <1>7, <1>8, <1>12 DEF AreLengths
  <2> HIDE DEF S
  <2>2. OneAfterTheOther(rows, t)
    BY <1>12, <2>1, FlattenedAt
  <2> QED
    BY <1>12, <2>2 DEF OneAfterTheOther
<1>16. FlattenSeq(rows)[0 + 1] = rows[k][1]
  BY <1>6, <1>13, <1>15
<1>17. FlattenSeq(rows)[1] = <<layer, k>>
  BY <1>6, <1>7, <1>16
<1> QED
  BY <1>3, <1>5, <1>13, <1>14, <1>15, <1>17 DEF S

\* The layers of the rings are numbered on, and each has one tile.
AreRings(c, rings, t) ==
  /\ Len(t) \in Nat /\ DOMAIN rings = 1..Len(t)
  /\ \A p \in 1..Len(t) :
       /\ t[p] \in Nat /\ IsRing(c, rings[p]) /\ DOMAIN rings[p].depths = 1..t[p]
       /\ rings[p].first = Sums(t)[p - 1]

RingTiles(c, r, n) == FlattenSeq([i \in 1..n |-> TilesOf(c, r, i, r.first + i - 1)])

OneTilePerLayer(c, r, n, tiles) ==
  /\ tiles \in Seq(Nat \X Nat) /\ Len(tiles) = n
  /\ \A i \in 1..n : \E k \in Tiles(c, r, i) : tiles[i] = <<r.first + i - 1, k>>

LEMMA TilesOfARing ==
  ASSUME NEW c, NEW r, IsRing(c, r), NEW n \in Nat, DOMAIN r.depths = 1..n
  PROVE  OneTilePerLayer(c, r, n, RingTiles(c, r, n))
<1> DEFINE S == Nat \X Nat
           tiles(i) == TilesOf(c, r, i, r.first + i - 1)
           rows == [i \in 1..n |-> tiles(i)]
           t == [i \in 1..n |-> 1]
<1>1. r.first \in Nat
  BY DEF IsRing
<1>2. \A i \in 1..n : /\ tiles(i) \in Seq(S) /\ Len(tiles(i)) = 1
                      /\ \E k \in Tiles(c, r, i) : tiles(i)[1] = <<r.first + i - 1, k>>
  <2> SUFFICES ASSUME NEW i \in 1..n
               PROVE  /\ tiles(i) \in Seq(S) /\ Len(tiles(i)) = 1
                      /\ \E k \in Tiles(c, r, i) : tiles(i)[1] = <<r.first + i - 1, k>>
    OBVIOUS
  <2>1. r.first + i - 1 \in Nat
    BY <1>1
  <2> QED
    BY <2>1, TilesOfALayer, Zenon
<1>3. Len(t) = n /\ \A i \in 1..n : t[i] = 1
  OBVIOUS
<1>4. rows = [i \in 1..n |-> rows[i]] /\ \A i \in 1..n : rows[i] = tiles(i)
  OBVIOUS
<1> HIDE DEF tiles, S, t, rows
<1>5. rows \in [1..n -> Seq(S)]
  BY <1>2, <1>4
<1>6. rows \in Seq(Seq(S)) /\ Len(rows) = n
  <2>1. rows \in Seq(Seq(S))
    BY <1>5, RowsOf, Zenon
  <2> QED
    BY <1>4, <2>1
<1>7. AreLengths(t, rows)
  BY <1>2, <1>3, <1>4, <1>6, Zenon DEF AreLengths
<1>8. /\ Len(FlattenSeq(rows)) = Total(t)
      /\ \A p \in 1..n : \A j \in 1..t[p] : FlattenSeq(rows)[Sums(t)[p - 1] + j] = rows[p][j]
  <2>1. OneAfterTheOther(rows, t)
    BY <1>6, <1>7, FlattenedAt
  <2> QED
    BY <1>6, <2>1 DEF OneAfterTheOther
<1>9. \A i \in 0..n : Sums(t)[i] = i
  BY <1>3, SumsOfOnes
<1>10. Total(t) = n
  BY <1>3, <1>9 DEF Total
<1>11. \A i \in 1..n : FlattenSeq(rows)[i] = tiles(i)[1]
  <2> SUFFICES ASSUME NEW i \in 1..n PROVE FlattenSeq(rows)[i] = tiles(i)[1]
    OBVIOUS
  <2>1. FlattenSeq(rows)[Sums(t)[i - 1] + 1] = rows[i][1]
    BY <1>3, <1>8
  <2>2. Sums(t)[i - 1] + 1 = i
    BY <1>9
  <2> QED
    BY <1>4, <2>1, <2>2
<1>12. FlattenSeq(rows) \in Seq(S)
  BY <1>6, Flattened
<1>13. /\ FlattenSeq(rows) \in Seq(S) /\ Len(FlattenSeq(rows)) = n
       /\ \A i \in 1..n : \E k \in Tiles(c, r, i) : FlattenSeq(rows)[i] = <<r.first + i - 1, k>>
  BY <1>2, <1>8, <1>10, <1>11, <1>12
<1> QED
  BY <1>13, Zenon DEF OneTilePerLayer, RingTiles, rows, tiles, S

LEMMA TilesOfTheRings ==
  ASSUME NEW c, NEW rings, NEW t, AreRings(c, rings, t), NEW p \in 1..Len(t), NEW i \in 1..t[p]
  PROVE  \E k \in Tiles(c, rings[p], i) :
           TilesPerLayer(c, rings)[rings[p].first + i] = <<rings[p].first + i - 1, k>>
<1> DEFINE S == Nat \X Nat
           n == Len(t)
           row(q) == RingTiles(c, rings[q], t[q])
           rows == [q \in 1..n |-> row(q)]
<1>1. /\ n \in Nat /\ DOMAIN rings = 1..n
      /\ \A q \in 1..n :
           /\ t[q] \in Nat /\ IsRing(c, rings[q]) /\ DOMAIN rings[q].depths = 1..t[q]
           /\ rings[q].first = Sums(t)[q - 1]
  BY Zenon DEF AreRings
<1>2. TilesPerLayer(c, rings) = FlattenSeq(rows)
  BY <1>1, Zenon DEF TilesPerLayer, RingTiles
<1>3. \A q \in 1..n :
        /\ row(q) \in Seq(S) /\ Len(row(q)) = t[q]
        /\ \A j \in 1..t[q] : \E k \in Tiles(c, rings[q], j) :
             row(q)[j] = <<rings[q].first + j - 1, k>>
  <2> SUFFICES ASSUME NEW q \in 1..n
               PROVE  /\ row(q) \in Seq(S) /\ Len(row(q)) = t[q]
                      /\ \A j \in 1..t[q] : \E k \in Tiles(c, rings[q], j) :
                           row(q)[j] = <<rings[q].first + j - 1, k>>
    BY Zenon
  <2> DEFINE r == rings[q]
             m == t[q]
  <2>1. IsRing(c, r) /\ m \in Nat /\ DOMAIN r.depths = 1..m
    BY <1>1
  <2> HIDE DEF r, m, n
  <2>2. OneTilePerLayer(c, r, m, RingTiles(c, r, m))
    BY <2>1, TilesOfARing
  <2> QED
    BY <2>2, Zenon DEF OneTilePerLayer, r, m
<1>4. rows = [q \in 1..n |-> rows[q]] /\ \A q \in 1..n : rows[q] = row(q)
  OBVIOUS
<1> HIDE DEF S, n, row, rows
<1>5. rows \in [1..n -> Seq(S)]
  BY <1>3, <1>4
<1>6. rows \in Seq(Seq(S)) /\ Len(rows) = n
  <2>1. rows \in Seq(Seq(S))
    BY <1>1, <1>5, RowsOf, Zenon
  <2> QED
    BY <1>1, <1>4, <2>1
<1>7. AreLengths(t, rows)
  BY <1>3, <1>4, <1>6 DEF AreLengths, n
<1>8. \A q \in 1..n : \A j \in 1..t[q] : FlattenSeq(rows)[Sums(t)[q - 1] + j] = rows[q][j]
  <2>1. OneAfterTheOther(rows, t)
    BY <1>6, <1>7, FlattenedAt
  <2> QED
    BY <1>6, <2>1 DEF OneAfterTheOther
<1>9. p \in 1..n
  BY DEF n
<1>10. FlattenSeq(rows)[rings[p].first + i] = row(p)[i]
  BY <1>1, <1>4, <1>8, <1>9, Zenon
<1> QED
  BY <1>2, <1>3, <1>9, <1>10

\* The rows of the layers of one side; the same layers are on all sides there are.
RingRows(r) ==
  {<<r.side, l, n>> : l \in r.first..(r.first + Len(r.depths) - 1), n \in 0..(r.rows - 1)}

RowsOnSides(D, R, t) == UNION {UNION {RingRows(R[d][p]) : p \in 1..Len(t)} : d \in D}

RingsOnSides(c, D, R, t) ==
  /\ D \subseteq {-1, 1}
  /\ \A d \in D : AreRings(c, R[d], t) /\ \A p \in 1..Len(t) : R[d][p].side = d

\* The tile that is found for a layer, and where the element of a row is.
TileFound(c, R, d, l) == TilesPerLayer(c, R[d])[l + 1][2]

RowPlace(c, R, q) == <<q[1], q[2], q[3], q[2], TileFound(c, R, q[1], q[2])>>

RowIsIn(c, R, t, d, p, q) ==
  /\ q = <<d, q[2], q[3]>> /\ q[1] = d /\ q[2] \in Nat
  /\ q[2] \in R[d][p].first..(R[d][p].first + Len(R[d][p].depths) - 1)
  /\ q[2] \in 0..(Total(t) - 1) /\ q[3] \in 0..(R[d][p].rows - 1)
  /\ Len(R[d][p].depths) = t[p]
  /\ <<d, q[2], q[3]>> \o TilesPerLayer(c, R[d])[q[2] + 1] = RowPlace(c, R, q)
  /\ \E k \in Tiles(c, R[d][p], (q[2] - R[d][p].first) + 1) :
       RowPlace(c, R, q) = <<d, q[2], q[3], q[2], k>>

LEMMA RowsAre ==
  ASSUME NEW c, NEW D, NEW R, NEW t, RingsOnSides(c, D, R, t), NEW d \in D, NEW p \in 1..Len(t),
         NEW q \in RingRows(R[d][p])
  PROVE  RowIsIn(c, R, t, d, p, q)
<1> DEFINE r == R[d][p]
           l == q[2]
           first == r.first
           m == t[p]
<1>1. /\ d \in {-1, 1} /\ AreRings(c, R[d], t) /\ r.side = d /\ r.first = Sums(t)[p - 1]
      /\ Len(t) \in Nat /\ m \in Nat /\ DOMAIN r.depths = 1..m /\ IsRing(c, r)
      /\ \A i \in 1..Len(t) : t[i] \in Nat
  BY Zenon DEF RingsOnSides, AreRings
<1>2. r.depths \in Seq(Nat) /\ r.first \in Nat
  BY <1>1 DEF IsRing
<1>3. Len(r.depths) = m
  <2> DEFINE s == r.depths
  <2>1. s \in Seq(Nat) /\ DOMAIN s = 1..m /\ m \in Nat
    BY <1>1, <1>2
  <2> HIDE DEF s, m
  <2> QED
    BY <2>1 DEF s
<1>4. PICK x \in first..(first + Len(r.depths) - 1), n \in 0..(r.rows - 1) : q = <<r.side, x, n>>
  BY DEF RingRows
<1>5. /\ q = <<d, q[2], q[3]>> /\ q[1] = d /\ l = x /\ q[3] = n
  BY <1>1, <1>4
<1>6. first \in Nat /\ m \in Nat /\ l \in first..(first + m - 1) /\ q[3] \in 0..(r.rows - 1)
  BY <1>1, <1>2, <1>3, <1>4, <1>5
<1>7. first + m <= Total(t) /\ Total(t) \in Nat
  <2>1. /\ Sums(t)[p] = Sums(t)[p - 1] + t[p]
        /\ \A i \in 0..Len(t) : Sums(t)[i] \in Nat
        /\ \A i, j \in 0..Len(t) : i <= j => Sums(t)[i] <= Sums(t)[j]
    BY <1>1, SumsAre, SumsGrow, Zenon
  <2>2. p \in 0..Len(t) /\ Len(t) \in 0..Len(t) /\ p <= Len(t)
    BY <1>1
  <2> QED
    BY <1>1, <2>1, <2>2, Zenon DEF Total
<1> DEFINE i == (l - first) + 1
           T == Total(t)
<1>8. i \in 1..m /\ first + i = l + 1 /\ first + i - 1 = l /\ l \in Nat /\ l \in 0..(Total(t) - 1)
  <2>1. first \in Nat /\ m \in Nat /\ l \in first..(first + m - 1) /\ first + m <= T /\ T \in Nat
    BY <1>6, <1>7
  <2> HIDE DEF first, m, l, T
  <2>2. l \in Nat /\ first <= l /\ l <= (first + m) - 1
    BY <2>1
  <2>3. i \in 1..m /\ first + i = l + 1 /\ (first + i) - 1 = l
    BY <2>1, <2>2
  <2>4. l \in 0..(T - 1)
    BY <2>1, <2>2
  <2>5. first + i - 1 = l
    BY <2>1, <2>2
  <2> QED
    BY <2>2, <2>3, <2>4, <2>5 DEF T
<1>9. PICK k \in Tiles(c, r, i) : TilesPerLayer(c, R[d])[l + 1] = <<l, k>>
  <2> DEFINE rings == R[d]
  <2>1. i \in 1..t[p] /\ AreRings(c, rings, t)
    BY <1>1, <1>8
  <2>2. \E k \in Tiles(c, R[d][p], i) :
          TilesPerLayer(c, R[d])[R[d][p].first + i] = <<R[d][p].first + i - 1, k>>
    <3> HIDE DEF i, rings
    <3>1. \E k \in Tiles(c, rings[p], i) :
            TilesPerLayer(c, rings)[rings[p].first + i] = <<rings[p].first + i - 1, k>>
      BY <2>1, TilesOfTheRings
    <3> QED
      BY <3>1 DEF rings
  <2>3. R[d][p].first + i = l + 1 /\ R[d][p].first + i - 1 = l
    BY <1>8
  <2> HIDE DEF i, l
  <2> QED
    BY <2>2, <2>3
<1>10. TileFound(c, R, d, l) = k
  BY <1>9 DEF TileFound
<1>11. <<d, l, q[3]>> \o <<l, k>> = <<d, l, q[3], l, k>>
  BY ThreeThenTwo
<1>12. RowPlace(c, R, q) = <<d, l, q[3], l, k>>
  BY <1>5, <1>10 DEF RowPlace
<1> HIDE DEF i
<1> QED
  BY <1>3, <1>5, <1>6, <1>8, <1>9, <1>11, <1>12 DEF i, RowIsIn

LEMMA FinitelyManyRows ==
  ASSUME NEW c, NEW D, NEW R, NEW t, RingsOnSides(c, D, R, t)
  PROVE  IsFiniteSet(RowsOnSides(D, R, t))
<1> DEFINE Q == RowsOnSides(D, R, t)
           B == 0..(Total(t) - 1)
           I == 1..Len(t)
           X == D \X I
           F == [x \in X |-> 0..(R[x[1]][x[2]].rows - 1)]
           C == UNION {F[x] : x \in X}
<1>1. CASE D = {}
  BY <1>1, FS_EmptySet DEF RowsOnSides
<1>2. CASE D # {}
  <2>1. /\ D \subseteq {-1, 1} /\ Len(t) \in Int /\ Len(t) \in Nat
        /\ \A i \in 1..Len(t) : t[i] \in Nat
        /\ \A d \in D, p \in I : IsRing(c, R[d][p])
    <3>1. D \subseteq {-1, 1} /\ \A d \in D : AreRings(c, R[d], t)
      BY DEF RingsOnSides
    <3>2. PICK d \in D : TRUE
      BY <1>2
    <3>3. Len(t) \in Nat /\ \A i \in 1..Len(t) : t[i] \in Nat
      BY <3>1, <3>2 DEF AreRings
    <3>4. \A e \in D, p \in I : IsRing(c, R[e][p])
      <4> SUFFICES ASSUME NEW e \in D, NEW p \in I PROVE IsRing(c, R[e][p])
        OBVIOUS
      <4>1. AreRings(c, R[e], t)
        BY <3>1
      <4> QED
        BY <4>1 DEF AreRings
    <3>5. Len(t) \in Int
      BY <3>3
    <3> HIDE DEF I
    <3> QED
      BY <3>1, <3>3, <3>4, <3>5
  <2>2. IsFiniteSet(D)
    <3>1. IsFiniteSet({-1})
      BY FS_Singleton
    <3>2. IsFiniteSet({-1} \cup {1})
      BY <3>1, FS_AddElement
    <3>3. D \subseteq {-1} \cup {1}
      BY <2>1
    <3> QED
      BY <3>2, <3>3, FS_Subset, Zenon
  <2>3. IsFiniteSet(B) /\ IsFiniteSet(I)
    <3>1. Len(t) \in 0..Len(t)
      BY <2>1
    <3>2. Total(t) \in Nat
      BY <2>1, <3>1, SumsGrow DEF Total
    <3>3. Total(t) \in Int
      BY <3>2
    <3> QED
      BY <2>1, <3>3, CountedUpTo
  <2>4. IsFiniteSet(X)
    <3> HIDE DEF I
    <3> QED
      BY <2>2, <2>3, FS_Product
  <2>5. \A x \in X : IsFiniteSet(F[x])
    <3> SUFFICES ASSUME NEW x \in X PROVE IsFiniteSet(F[x])
      OBVIOUS
    <3>1. R[x[1]][x[2]].rows \in Int
      BY <2>1, Zenon DEF IsRing
    <3>2. F[x] = 0..(R[x[1]][x[2]].rows - 1)
      OBVIOUS
    <3> HIDE DEF F
    <3> QED
      BY <3>1, <3>2, CountedUpTo, Zenon
  <2>6. IsFiniteSet(C)
    <3> HIDE DEF F, X
    <3> QED
      BY <2>4, <2>5, FinitelyManyOfEach
  <2>7. \A q \in Q : IsChoice(q, 3) /\ q[1] \in D /\ q[2] \in B /\ q[3] \in C
    <3> SUFFICES ASSUME NEW q \in Q PROVE IsChoice(q, 3) /\ q[1] \in D /\ q[2] \in B /\ q[3] \in C
      OBVIOUS
    <3>1. PICK d \in D, p \in I : q \in RingRows(R[d][p])
      BY DEF RowsOnSides
    <3>2. q = <<d, q[2], q[3]>> /\ q[1] = d /\ q[2] \in B /\ q[3] \in 0..(R[d][p].rows - 1)
      <4>1. RowIsIn(c, R, t, d, p, q)
        BY <3>1, RowsAre
      <4> QED
        BY <4>1 DEF RowIsIn
    <3>3. IsChoice(<<d, q[2], q[3]>>, 3)
      BY ThreeChoices
    <3>4. <<d, p>> \in X /\ F[<<d, p>>] = 0..(R[d][p].rows - 1)
      OBVIOUS
    <3> HIDE DEF B, F, X, I
    <3> QED
      BY <3>1, <3>2, <3>3, <3>4, Zenon
  <2> HIDE DEF Q, B, C
  <2>8. IsFiniteSet(Q)
    BY <2>2, <2>3, <2>6, <2>7, ThreeOfFinite
  <2> QED
    BY <2>8 DEF Q
<1> QED
  BY <1>1, <1>2

\* Each row of a layer has an element, and that of its tile in it.
LEMMA ElementsOfRows ==
  ASSUME NEW c, NEW D, NEW R, NEW t, RingsOnSides(c, D, R, t), NEW d \in D
  PROVE  RowElements(c, R[d])
           = {[name |-> <<d * (q[2] + 1), q[3]>>, on |-> RowPlace(c, R, q)] :
                q \in UNION {RingRows(R[d][p]) : p \in 1..Len(t)}}
<1> DEFINE rings == R[d]
           tiles == TilesPerLayer(c, rings)
           L(r) == r.first..(r.first + Len(r.depths) - 1)
           M(r) == 0..(r.rows - 1)
           element(s, l, n) == [name |-> <<s * (l + 1), n>>, on |-> <<s, l, n>> \o tiles[l + 1]]
           e(l, n) == element(d, l, n)
           h(q) == [name |-> <<d * (q[2] + 1), q[3]>>, on |-> RowPlace(c, R, q)]
           I == 1..Len(t)
           of(r) == {element(r.side, l, n) : l \in L(r), n \in M(r)}
<1>1. AreRings(c, rings, t) /\ \A p \in I : rings[p].side = d
  BY DEF RingsOnSides
<1>2. DOMAIN rings = I
  BY <1>1 DEF AreRings
<1>3. RowElements(c, R[d]) = UNION {of(rings[p]) : p \in I}
  BY <1>2 DEF RowElements
<1>4. \A p \in I : \A l \in L(rings[p]), n \in M(rings[p]) :
        <<d, l, n>> \in RingRows(rings[p])
  BY <1>1 DEF RingRows
<1>5. \A p \in I : \A q \in RingRows(rings[p]) :
        /\ q[2] \in L(rings[p]) /\ q[3] \in M(rings[p])
        /\ h(q) = e(q[2], q[3])
  <2> SUFFICES ASSUME NEW p \in I, NEW q \in RingRows(rings[p])
               PROVE  /\ q[2] \in L(rings[p]) /\ q[3] \in M(rings[p])
                      /\ h(q) = e(q[2], q[3])
    BY Zenon
  <2>1. RowIsIn(c, R, t, d, p, q)
    BY RowsAre
  <2> QED
    BY <2>1, Zenon DEF RowIsIn
<1>6. \A p \in I : \A x : x \in of(rings[p]) <=> \E l \in L(rings[p]), n \in M(rings[p]) : x = e(l, n)
  <2> HIDE DEF element, L, M, rings, tiles, I
  <2> SUFFICES ASSUME NEW p \in I, NEW x
               PROVE  x \in of(rings[p]) <=> \E l \in L(rings[p]), n \in M(rings[p]) : x = e(l, n)
    OBVIOUS
  <2>1. rings[p].side = d
    BY <1>1
  <2> QED
    BY <2>1
<1>7. \A l, n : h(<<d, l, n>>) = [name |-> <<d * (l + 1), n>>, on |-> RowPlace(c, R, <<d, l, n>>)]
  OBVIOUS
<1>8. \A p \in I : \A l \in L(rings[p]), n \in M(rings[p]) : e(l, n) = h(<<d, l, n>>)
  <2> SUFFICES ASSUME NEW p \in I, NEW l \in L(rings[p]), NEW n \in M(rings[p])
               PROVE  e(l, n) = h(<<d, l, n>>)
    BY Zenon
  <2> DEFINE q == <<d, l, n>>
  <2>1. q \in RingRows(rings[p])
    BY <1>4
  <2>2. q[2] = l /\ q[3] = n
    OBVIOUS
  <2> HIDE DEF q
  <2>3. h(q) = e(q[2], q[3])
    BY <1>5, <2>1, Zenon
  <2> HIDE DEF h, element
  <2> QED
    BY <2>2, <2>3 DEF q
<1> HIDE DEF rings, tiles, L, M, element, e, h, I, of
<1>9. ASSUME NEW x \in UNION {of(rings[p]) : p \in I}
      PROVE  x \in {h(q) : q \in UNION {RingRows(rings[p]) : p \in I}}
  <2>1. PICK p \in I : x \in of(rings[p])
    OBVIOUS
  <2>2. PICK l \in L(rings[p]), n \in M(rings[p]) : x = e(l, n)
    BY <1>6, <2>1, Zenon
  <2> QED
    BY <1>4, <1>8, <2>2, Zenon
<1>10. ASSUME NEW x \in {h(q) : q \in UNION {RingRows(rings[p]) : p \in I}}
       PROVE  x \in UNION {of(rings[p]) : p \in I}
  <2>1. PICK p \in I : \E q \in RingRows(rings[p]) : x = h(q)
    OBVIOUS
  <2>2. PICK q \in RingRows(rings[p]) : x = h(q)
    BY <2>1
  <2>3. x \in of(rings[p])
    BY <1>5, <1>6, <2>2
  <2> QED
    BY <2>3
<1>11. UNION {of(rings[p]) : p \in I} = {h(q) : q \in UNION {RingRows(rings[p]) : p \in I}}
  BY <1>9, <1>10
<1> QED
  BY <1>3, <1>11, Zenon DEF h, I, rings

\* The places of the rows of all sides tell these apart, and their names do.
LEMMA TileElements ==
  ASSUME NEW c, NEW D, NEW R, NEW t, RingsOnSides(c, D, R, t),
         detector.elements = UNION {RowElements(c, R[d]) : d \in D},
         \A s \in detector.sensors : \E d \in D : \E p \in 1..Len(t) : \E i, n, k :
           RowIsOf(s, c, R[d][p], i, n, k)
  PROVE  ElementsSitOnTheirSensors
<1> DEFINE Q == RowsOnSides(D, R, t)
           g == [q \in Q |-> RowPlace(c, R, q)]
           P == {g[q] : q \in Q}
           N == [x \in P |-> <<x[1] * (x[2] + 1), x[3]>>]
           I == 1..Len(t)
           rows(d) == UNION {RingRows(R[d][p]) : p \in I}
           h(q) == [name |-> <<q[1] * (q[2] + 1), q[3]>>, on |-> RowPlace(c, R, q)]
<1>1. \A q \in Q : \E d \in D, p \in I : q \in RingRows(R[d][p])
  BY DEF RowsOnSides
<1>2. \A d \in D, p \in I : \A q \in RingRows(R[d][p]) : q \in Q /\ q \in rows(d)
  BY DEF RowsOnSides
<1>3. \A q \in Q : /\ q = <<q[1], q[2], q[3]>> /\ q[1] \in {-1, 1} /\ q[2] \in Nat
                   /\ q \in rows(q[1]) /\ q[1] \in D
  <2> SUFFICES ASSUME NEW q \in Q
               PROVE  /\ q = <<q[1], q[2], q[3]>> /\ q[1] \in {-1, 1} /\ q[2] \in Nat
                      /\ q \in rows(q[1]) /\ q[1] \in D
    OBVIOUS
  <2>1. PICK d \in D, p \in I : q \in RingRows(R[d][p])
    BY <1>1
  <2>2. RowIsIn(c, R, t, d, p, q)
    BY <2>1, RowsAre
  <2>3. q = <<d, q[2], q[3]>> /\ q[1] = d /\ q[2] \in Nat
    BY <2>2 DEF RowIsIn
  <2>4. d \in {-1, 1}
    BY Zenon DEF RingsOnSides
  <2> HIDE DEF Q, rows, I
  <2> QED
    BY <1>2, <2>1, <2>3, <2>4
<1>4. \A d \in D : \A q \in rows(d) : q \in Q /\ q[1] = d
  <2> SUFFICES ASSUME NEW d \in D, NEW q \in rows(d) PROVE q \in Q /\ q[1] = d
    OBVIOUS
  <2>1. PICK p \in I : q \in RingRows(R[d][p])
    OBVIOUS
  <2>2. RowIsIn(c, R, t, d, p, q)
    BY <2>1, RowsAre
  <2>3. q[1] = d
    BY <2>2 DEF RowIsIn
  <2> HIDE DEF Q, rows, I
  <2> QED
    BY <1>2, <2>1, <2>3
<1>5. \A q \in Q : /\ g[q] = <<q[1], q[2], q[3], q[2], TileFound(c, R, q[1], q[2])>>
                   /\ N[g[q]] = <<q[1] * (q[2] + 1), q[3]>> /\ g[q] = RowPlace(c, R, q)
  BY DEF RowPlace
<1> HIDE DEF Q, g, rows
<1>6. IsFiniteSet(P)
  <2>1. IsFiniteSet(Q)
    BY FinitelyManyRows DEF Q
  <2> QED
    BY <2>1, ImageIsFinite
<1>7. \A x \in P : IsChoice(x, 5)
  <2> SUFFICES ASSUME NEW x \in P PROVE IsChoice(x, 5)
    OBVIOUS
  <2>1. PICK q \in Q : x = g[q]
    OBVIOUS
  <2>2. x = <<q[1], q[2], q[3], q[2], TileFound(c, R, q[1], q[2])>>
    BY <1>5, <2>1, Zenon
  <2>3. IsChoice(<<q[1], q[2], q[3], q[2], TileFound(c, R, q[1], q[2])>>, 5)
    BY FiveChoices
  <2> QED
    BY <2>2, <2>3
<1> HIDE DEF N
<1>8. ASSUME NEW x \in P, NEW y \in P, N[x] = N[y]
      PROVE  x = y
  <2>1. PICK q \in Q : x = g[q]
    OBVIOUS
  <2>2. PICK u \in Q : y = g[u]
    OBVIOUS
  <2>3. q[1] * (q[2] + 1) = u[1] * (u[2] + 1) /\ q[3] = u[3]
    BY <1>5, <1>8, <2>1, <2>2
  <2>4. q[1] \in {-1, 1} /\ u[1] \in {-1, 1} /\ q[2] \in Nat /\ u[2] \in Nat
    BY <1>3
  <2>5. q[1] = u[1] /\ q[2] = u[2]
    <3> DEFINE a == q[2]
               b == u[2]
    <3>1. a \in Nat /\ b \in Nat /\ q[1] * (a + 1) = u[1] * (b + 1)
      BY <2>3, <2>4
    <3> HIDE DEF a, b
    <3>2. 1 * (a + 1) = a + 1 /\ (-1) * (a + 1) = 0 - (a + 1)
      BY <3>1
    <3>3. 1 * (b + 1) = b + 1 /\ (-1) * (b + 1) = 0 - (b + 1)
      BY <3>1
    <3>4. CASE q[1] = 1 /\ u[1] = 1
      BY <3>1, <3>2, <3>3, <3>4 DEF a, b
    <3>5. CASE q[1] = 1 /\ u[1] = -1
      BY <3>1, <3>2, <3>3, <3>5
    <3>6. CASE q[1] = -1 /\ u[1] = 1
      BY <3>1, <3>2, <3>3, <3>6
    <3>7. CASE q[1] = -1 /\ u[1] = -1
      BY <3>1, <3>2, <3>3, <3>7 DEF a, b
    <3> QED
      BY <2>4, <3>4, <3>5, <3>6, <3>7
  <2>6. q = u
    BY <1>3, <2>3, <2>5
  <2> QED
    BY <2>1, <2>2, <2>6
<1>9. detector.elements = {[name |-> N[x], on |-> x] : x \in P}
  <2>1. \A d \in D : RowElements(c, R[d]) = {[name |-> <<d * (q[2] + 1), q[3]>>, on |-> RowPlace(c, R, q)] : q \in rows(d)}
    BY ElementsOfRows DEF rows
  <2>2. \A q \in Q : h(q) = [name |-> N[g[q]], on |-> g[q]]
    BY <1>5, Zenon
  <2>3. \A d \in D : RowElements(c, R[d]) = {h(q) : q \in rows(d)}
    BY <1>4, <2>1
  <2> HIDE DEF h
  <2>4. detector.elements = {h(q) : q \in Q}
    <3>1. ASSUME NEW x \in detector.elements
          PROVE  x \in {h(q) : q \in Q}
      <4>1. PICK d \in D : x \in RowElements(c, R[d])
        OBVIOUS
      <4> QED
        BY <1>4, <2>3, <4>1
    <3>2. ASSUME NEW q \in Q
          PROVE  h(q) \in detector.elements
      <4>1. q[1] \in D /\ q \in rows(q[1])
        BY <1>3
      <4>2. h(q) \in RowElements(c, R[q[1]])
        BY <2>3, <4>1
      <4> QED
        BY <4>1, <4>2
    <3> QED
      BY <3>1, <3>2, Zenon
  <2> QED
    BY <2>2, <2>4
<1>10. ASSUME NEW s \in detector.sensors
       PROVE  \E x \in P : IsPrefix(x, s.at)
  <2>1. PICK d \in D : \E p \in I : \E i, n, k : RowIsOf(s, c, R[d][p], i, n, k)
    BY Zenon
  <2>2. PICK p \in I : \E i, n, k : RowIsOf(s, c, R[d][p], i, n, k)
    BY <2>1, Zenon
  <2>3. PICK i, n, k : RowIsOf(s, c, R[d][p], i, n, k)
    BY <2>2
  <2> DEFINE r == R[d][p]
             l == r.first + i - 1
             q == <<d, l, n>>
  <2>4. /\ i \in DOMAIN r.depths /\ n \in 0..(r.rows - 1) /\ k \in Tiles(c, r, i)
        /\ s.at = <<r.side, l, n, l, k>>
    BY <2>3 DEF RowIsOf, RowSensor
  <2>5. /\ r.side = d /\ IsRing(c, r) /\ t[p] \in Nat /\ DOMAIN r.depths = 1..t[p]
    BY DEF RingsOnSides, AreRings
  <2>6. r.first \in Nat /\ r.depths \in Seq(Nat)
    BY <2>5 DEF IsRing
  <2>7. i \in 1..Len(r.depths) /\ Len(r.depths) \in Nat
    <3> DEFINE x == r.depths
    <3>1. x \in Seq(Nat) /\ i \in DOMAIN x
      BY <2>4, <2>6
    <3> HIDE DEF x
    <3>2. i \in 1..Len(x) /\ Len(x) \in Nat
      BY <3>1
    <3> QED
      BY <3>2 DEF x
  <2>8. l \in r.first..(r.first + Len(r.depths) - 1) /\ (l - r.first) + 1 = i
    <3> DEFINE m == Len(r.depths)
               first == r.first
    <3>1. i \in 1..m /\ m \in Nat /\ first \in Nat
      BY <2>6, <2>7
    <3> HIDE DEF m, first
    <3>2. first + i - 1 \in first..(first + m - 1) /\ ((first + i - 1) - first) + 1 = i
      BY <3>1
    <3> QED
      BY <3>2 DEF m, first
  <2>9. q \in RingRows(r)
    <3> HIDE DEF r, l
    <3> QED
      BY <2>4, <2>5, <2>8 DEF RingRows
  <2>10. RowIsIn(c, R, t, d, p, q)
    BY <2>9, RowsAre
  <2>11. q[2] = l /\ q[3] = n
    OBVIOUS
  <2> HIDE DEF q, l
  <2>12. \E m \in Tiles(c, R[d][p], (q[2] - R[d][p].first) + 1) :
           RowPlace(c, R, q) = <<d, q[2], q[3], q[2], m>>
    BY <2>10 DEF RowIsIn
  <2>13. PICK m \in Tiles(c, r, i) : RowPlace(c, R, q) = <<d, l, n, l, m>>
    BY <2>8, <2>11, <2>12
  <2>14. m = k
    BY <2>4, <2>5, <2>13, TheTile, Zenon
  <2>15. q \in Q
    BY <1>2, <2>9
  <2>16. g[q] = s.at /\ g[q] \in P
    BY <1>5, <2>4, <2>5, <2>13, <2>14, <2>15
  <2> HIDE DEF P
  <2>17. IsPrefix(g[q], g[q])
    <3>1. 5 \in Nat
      OBVIOUS
    <3> QED
      BY <1>7, <2>16, <3>1, ItsOwnBeginning, Zenon
  <2> QED
    BY <2>16, <2>17
<1>11. 5 \in Nat
  OBVIOUS
<1> HIDE DEF P
<1> QED
  BY <1>6, <1>7, <1>8, <1>9, <1>10, <1>11, OneForEachPlace

LEMMA BarrelTileElements ==
  ASSUME TileBarrelMade, detector # Thrown
  PROVE  ElementsSitOnTheirSensors
<1>1. PICK c \in TileBarrelFiles : \E v :
        OneTile(c) /\ TileBarrelMakes(built, v) /\ detector = TileBarrel(c, v)
  BY DEF TileBarrelMade
<1>2. PICK v : OneTile(c) /\ detector = TileBarrel(c, v)
  BY <1>1
<1> DEFINE r == BarrelRing(c, v)
           D == {1}
           R == [d \in D |-> <<r>>]
           t == <<Len(r.depths)>>
<1>3. detector.sensors = Sensors(c, r) /\ detector.elements = RowElements(c, <<r>>)
  BY <1>2 DEF TileBarrel
<1>4. IsRing(c, r) /\ r.side = 1 /\ r.first = 0
  BY <1>2, BarrelRingIs DEF BarrelRing
<1> HIDE DEF r
<1>5. /\ Len(t) = 1 /\ t[1] = Len(r.depths) /\ t[1] \in Nat /\ DOMAIN r.depths = 1..t[1]
      /\ R[1] = <<r>> /\ R[1][1] = r /\ DOMAIN R[1] = 1..1
  BY <1>4 DEF IsRing
<1>6. Sums(t)[0] = 0
  <2>1. Len(t) \in Nat
    BY <1>5
  <2> HIDE DEF t
  <2> QED
    BY <2>1, SumsAre
<1>7. RingsOnSides(c, D, R, t)
  <2>1. \A p \in 1..Len(t) : p = 1
    BY <1>5
  <2>2. AreRings(c, R[1], t)
    <3>1. 1 - 1 = 0 /\ Len(t) \in Nat /\ DOMAIN R[1] = 1..Len(t)
      BY <1>5
    <3> HIDE DEF R, t
    <3> QED
      BY <1>4, <1>5, <1>6, <2>1, <3>1 DEF AreRings
  <2>3. D \subseteq {-1, 1} /\ \A d \in D : d = 1
    OBVIOUS
  <2> HIDE DEF D, R, t
  <2> QED
    BY <1>4, <1>5, <2>1, <2>2, <2>3 DEF RingsOnSides
<1>8. detector.elements = UNION {RowElements(c, R[d]) : d \in D}
  BY <1>3
<1>9. ASSUME NEW s \in detector.sensors
      PROVE  \E d \in D : \E p \in 1..Len(t) : \E i, n, k : RowIsOf(s, c, R[d][p], i, n, k)
  <2>1. \E i, n, k : RowIsOf(s, c, r, i, n, k)
    BY <1>3, RowSensorsAre
  <2>2. 1 \in D /\ 1 \in 1..Len(t)
    BY <1>5
  <2> HIDE DEF D, R, t
  <2> QED
    BY <1>5, <2>1, <2>2
<1> HIDE DEF D, R, t
<1> QED
  BY <1>7, <1>8, <1>9, TileElements, Zenon

LEMMA PartTileElements ==
  ASSUME TilePartsMade
  PROVE  ElementsSitOnTheirSensors
<1>1. PICK c \in TilePartsFiles : \E v :
        /\ OneTile(c) /\ TilePartsMakes(built, c, v)
        /\ detector = TileParts(c, v, TilePartsRecords(built, c))
  BY DEF TilePartsMade
<1>2. PICK v : OneTile(c) /\ detector = TileParts(c, v, TilePartsRecords(built, c))
  BY <1>1
<1> DEFINE D == {-1, 1}
           R == [d \in D |-> Rings(c, v, d)]
           t == PartSizes(c)
<1>3. detector.elements = UNION {RowElements(c, R[d]) : d \in D}
  BY <1>2 DEF TileParts, Side
<1>4. IsList(c.parts)
  BY TilePartsFilesAssumption DEF IsTilePartsFile
<1>5. Len(c.parts) \in Nat /\ DOMAIN c.parts = 1..Len(c.parts)
  BY <1>4, Lists
<1>6. Len(t) = Len(c.parts)
  BY <1>5 DEF PartSizes
<1>7. \A d \in D : DOMAIN R[d] = 1..Len(t) /\ \A p \in 1..Len(t) : R[d][p] = PartRing(c, v, p, d)
  BY <1>5, <1>6 DEF Rings
<1>8. \A d \in D, p \in 1..Len(t) :
        /\ IsRing(c, PartRing(c, v, p, d)) /\ PartRing(c, v, p, d).first = Sums(t)[p - 1]
        /\ t[p] \in Nat /\ DOMAIN PartRing(c, v, p, d).depths = 1..t[p]
  BY <1>2, <1>5, <1>6, PartsAreRings
<1>9. \A d \in D, p \in 1..Len(t) : PartRing(c, v, p, d).side = d
  BY DEF PartRing
<1>10. RingsOnSides(c, D, R, t)
  <2>1. Len(t) \in Nat
    BY <1>5, <1>6
  <2>2. D \subseteq {-1, 1}
    OBVIOUS
  <2> HIDE DEF D, R, t
  <2>3. \A d \in D : AreRings(c, R[d], t)
    BY <1>7, <1>8, <2>1 DEF AreRings
  <2> QED
    BY <1>7, <1>9, <2>2, <2>3 DEF RingsOnSides
<1>11. ASSUME NEW s \in detector.sensors
       PROVE  \E d \in D : \E p \in 1..Len(t) : \E i, n, k : RowIsOf(s, c, R[d][p], i, n, k)
  <2>1. PICK p, d : TileIsOf(s, c, v, p, d)
    BY <1>2, TilesAre
  <2>2. d \in D /\ p \in 1..Len(t) /\ s \in Sensors(c, PartRing(c, v, p, d))
    BY <1>5, <1>6, <2>1 DEF TileIsOf, Side
  <2> HIDE DEF D, R, t
  <2> QED
    BY <1>7, <2>2, RowSensorsAre
<1> HIDE DEF D, R, t
<1> QED
  BY <1>3, <1>10, <1>11, TileElements, Zenon

LEMMA NoneInTheTree ==
  ASSUME SteppedMade \/ YokeEndcapsMade
  PROVE  ElementsSitOnTheirSensors
<1>1. built \in NotInTheTree
  BY DEF SteppedMade, YokeEndcapsMade, NotInTheTree
<1> QED
  BY <1>1 DEF ElementsSitOnTheirSensors

LEMMA ElementsAre ==
  ASSUME Constructed
  PROVE  ElementsSitOnTheirSensors
<1>1. CASE detector = Thrown
  BY <1>1, NoElements DEF Thrown
<1>2. CASE detector # Thrown
  BY <1>2, EndcapElements, BarrelElements, LadderElements, PlanarElements, RodElements,
     DiscElementsOfTkLayout, StaveElements, TowerElements, PolygonElements, PanelElements,
     ChamberBarrelElements, ChamberEndcapElements, YokeBarrelElements, NoneInTheTree,
     TurbineElements, PlateElementsAreOnSensors, UprightDiscElements, BarrelTileElements,
     PartTileElements, ForwardElements, PrototypeElements, DetailedBarrelElements,
     DetailedEndcapElements DEF Constructed
<1> QED
  BY <1>1, <1>2

\* Whatever description a constructor is given, its DetElements have names of their
\* own, and each sensor (but those that are there for calibration) is in the volume of
\* exactly one element of the lowest level: the placements the loops keep for elements
\* are those of the volumes these are of. Five constructors hang theirs, or the volumes,
\* elsewhere: they are left out (NotInTheTree).
THEOREM ElementsAreOnTheirSensors ==
  Spec => []ElementsSitOnTheirSensors
<1>1. Constructed => ElementsSitOnTheirSensors
  BY ElementsAre
<1> QED
  BY <1>1, ConstructorsMakeWhatThereIs, PTL

=============================================================================
