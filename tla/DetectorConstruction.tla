------------------------ MODULE DetectorConstruction ------------------------
(* A detector made by one of the constructors from one of the compact      *)
(* descriptions it accepts, and what must hold of every one of them: that  *)
(* simulation and reconstruction mean the same volume by a cell id, that   *)
(* the DetElements sit on what they stand for, that slices stay within     *)
(* their volumes, and that the reconstruction data describe what has been  *)
(* placed.                                                                 *)
EXTENDS TrackerEndcaps, TrackerBarrels, DetailedVertex, LayeredCalorimeters,
        ForwardCalorimeters, HcalChambers, SimplePlanar, YokePlates, TurbineEndcaps, NobleLiquid, HcalTiles

CONSTANTS EndcapFiles, BarrelFiles, LadderFiles, RodFiles, DiscFiles,
          DetailedBarrelFiles, DetailedEndcapFiles,
          StaveFiles, TowerFiles, PolygonFiles, PanelFiles, ForwardFiles, PrototypeFiles,
          ChamberBarrelFiles, ChamberEndcapFiles,
          AroundTPCFiles, YokeBarrelFiles, YokeEndcapFiles, TurbineFiles,
          PlateFiles, UprightDiscFiles, TileBarrelFiles, TilePartsFiles

\* What the constructors take compact descriptions to be.
ASSUME EndcapFilesAssumption == \A c \in EndcapFiles : IsEndcapFile(c)
ASSUME BarrelFilesAssumption == \A c \in BarrelFiles : IsBarrelFile(c)
ASSUME LadderFilesAssumption == \A c \in LadderFiles : IsLadderFile(c)
ASSUME RodFilesAssumption == \A c \in RodFiles : IsRodFile(c)
ASSUME DiscFilesAssumption == \A c \in DiscFiles : IsDiscFile(c)
ASSUME DetailedBarrelFilesAssumption ==
  \A c \in DetailedBarrelFiles : IsDetailedBarrelFile(c)
ASSUME DetailedEndcapFilesAssumption ==
  \A c \in DetailedEndcapFiles : IsDetailedEndcapFile(c)
ASSUME StaveFilesAssumption == \A c \in StaveFiles : IsStaveFile(c)
ASSUME TowerFilesAssumption == \A c \in TowerFiles : IsTowerFile(c)
ASSUME PolygonFilesAssumption == \A c \in PolygonFiles : IsPolygonFile(c)
ASSUME PanelFilesAssumption == \A c \in PanelFiles : IsPanelFile(c)
ASSUME ForwardFilesAssumption == \A c \in ForwardFiles : IsForwardFile(c)
ASSUME PrototypeFilesAssumption == \A c \in PrototypeFiles : IsPrototypeFile(c)
ASSUME ChamberBarrelFilesAssumption == \A c \in ChamberBarrelFiles : IsChamberBarrelFile(c)
ASSUME ChamberEndcapFilesAssumption == \A c \in ChamberEndcapFiles : IsChamberEndcapFile(c)
ASSUME YokeBarrelFilesAssumption == \A c \in YokeBarrelFiles : IsYokeBarrelFile(c)
ASSUME YokeEndcapFilesAssumption == \A c \in YokeEndcapFiles : IsYokeFile(c)
ASSUME AroundTPCFilesAssumption == \A c \in AroundTPCFiles : IsAroundTPCFile(c)
ASSUME TurbineFilesAssumption == \A c \in TurbineFiles : IsTurbineFile(c)
ASSUME PlateFilesAssumption == \A c \in PlateFiles : IsPlateFile(c)
ASSUME UprightDiscFilesAssumption == \A c \in UprightDiscFiles : IsUprightDiscFile(c)
ASSUME TileBarrelFilesAssumption == \A c \in TileBarrelFiles : IsTileBarrelFile(c)
ASSUME TilePartsFilesAssumption == \A c \in TilePartsFiles : IsTilePartsFile(c)

VARIABLES detector, built

vars == <<detector, built>>

Init == detector = Thrown /\ built = "nothing"

Build(type, d) ==
  built = "nothing" /\ built' = type /\ detector' = d

\* Modules with two sensitive slices are for the constructors that number them, or
\* throw.
OneInEachModule(c) ==
  \A m \in DOMAIN c.modules : Cardinality(SensitiveOf(c.modules[m].slices)) = 1

BuildTrackerEndcap ==
  \E c \in EndcapFiles :
    \/ Build("TrackerEndcap_o1_v01", TrackerEndcap_o1_v01(c))
    \/ /\ OneInEachModule(c)
       /\ \/ Build("TrackerEndcap_o1_v02", TrackerEndcap_o1_v02(c))
          \/ Build("TrackerEndcap_o1_v03", TrackerEndcap_o1_v03(c))
          \/ Build("TrackerEndcap_o1_v04", TrackerEndcap_o1_v04(c))
          \/ Build("TrackerEndcap_o1_v05", TrackerEndcap_o1_v05(c))
          \/ Build("TrackerEndcap_o2_v04", TrackerEndcap_o2_v04(c))
          \/ Build("TrackerEndcap_o2_v05", TrackerEndcap_o2_v05(c))
          \/ Build("TrackerEndcap_o2_v06", TrackerEndcap_o2_v06(c))
          \/ Build("TrackerEndcap_o2_v07", TrackerEndcap_o2_v07(c))

BuildSiTrackerEndcap ==
  \E c \in EndcapFiles :
    \/ Build("SiTrackerEndcap_o2_v01", SiTrackerEndcap_o2_v01(c))
    \/ Build("SiTrackerEndcap_o2_v02", SiTrackerEndcap_o2_v02(c))
    \/ Build("SiTrackerEndcap_o2_v03", SiTrackerEndcap_o2_v03(c))
    \/ /\ OneInEachModule(c)
       /\ \/ Build("SiTrackerEndcap_o2_v01ext", SiTrackerEndcap_o2_v01ext(c))
          \/ Build("SiTrackerEndcap_o2_v02ext", SiTrackerEndcap_o2_v02ext(c))

BuildVertexEndcap ==
  \E c \in EndcapFiles :
    \/ Build("VertexEndcap_o1_v01", VertexEndcap_o1_v01(c))
    \/ Build("VertexEndcap_o1_v02", VertexEndcap_o1_v02(c))
    \/ Build("VertexEndcap_o1_v03", VertexEndcap_o1_v03(c))
    \/ Build("VertexEndcap_o1_v04", VertexEndcap_o1_v04(c))
    \/ Build("VertexEndcap_o1_v05", VertexEndcap_o1_v05(c))
    \/ Build("VertexEndcap_o1_v06", VertexEndcap_o1_v06(c))
    \/ Build("VertexEndcap_o1_v07", VertexEndcap_o1_v07(c))

BuildTrackerBarrel ==
  \E c \in BarrelFiles :
    \/ Build("VertexBarrel_o1_v01", VertexBarrel_o1_v01(c))
    \/ /\ OneInEachModule(c)
       /\ \/ Build("TrackerBarrel_o1_v01", TrackerBarrel_o1_v01(c))
          \/ Build("TrackerBarrel_o1_v02", TrackerBarrel_o1_v02(c))
          \/ Build("TrackerBarrel_o1_v03", TrackerBarrel_o1_v03(c))
          \/ Build("TrackerBarrel_o1_v04", TrackerBarrel_o1_v04(c))
          \/ Build("TrackerBarrel_o1_v05", TrackerBarrel_o1_v05(c))
          \/ Build("TrackerBarrel_o1_v06", TrackerBarrel_o1_v06(c))

BuildLadders ==
  \E c \in LadderFiles :
    \/ Build("ZPlanarTracker", ZPlanarTracker(c))
    \/ Build("ZSegmentedPlanarTracker", ZSegmentedPlanarTracker(c))

BuildTkLayout ==
  \/ \E c \in RodFiles :
       Build("TkLayoutTrackerBarrel_o1_v01", TkLayoutTrackerBarrel_o1_v01(c))
  \/ \E c \in DiscFiles :
       Build("TkLayoutTrackerEndcap_o1_v01", TkLayoutTrackerEndcap_o1_v01(c))

\* The first versions have one sensor kind in a stave, and no groups; a layer id, with
\* the side, is given once. In the last version layers may share an id, if the
\* modules in one group have the same number of sensors.
PlainStaves(c) ==
  \A m \in DOMAIN c.staves : Len(c.staves[m].sensors) = 1 /\ IsPlain(c.staves[m].sensors[1])

DistinctOnEachSide(layers) ==
  \A l, m \in DOMAIN layers :
    layers[l].id = layers[m].id /\ layers[l].side = layers[m].side => l = m

LayersAlike(c) ==
  \A l, m \in DOMAIN c.layers :
    c.layers[l].id = c.layers[m].id =>
      Alike(Range(StaveKinds(c, l)) \cup Range(StaveKinds(c, m)))

PlainDisks(c) ==
  /\ \A m \in DOMAIN c.modules : IsPlain(c.modules[m])
  /\ \A l \in DOMAIN c.layers : \A k \in DOMAIN c.layers[l].staves :
       c.layers[l].staves[k].nphi = 1

DisksAlike(c) ==
  \A l \in DOMAIN c.layers : Alike({DiskKind(c, l, k) : k \in DOMAIN c.layers[l].staves})

BuildDetailedVertex ==
  \/ \E c \in DetailedBarrelFiles :
       \/ /\ PlainStaves(c) /\ DistinctIds(c.layers)
          /\ Build("VertexBarrel_detailed_o1_v01", VertexBarrel_detailed_o1_v01(c))
       \/ /\ PlainStaves(c) /\ DistinctOnEachSide(c.layers)
          /\ Build("VertexBarrel_detailed_o1_v02", VertexBarrel_detailed_o1_v02(c))
       \/ /\ LayersAlike(c)
          /\ Build("VertexBarrel_detailed_o1_v03", VertexBarrel_detailed_o1_v03(c))
  \/ \E c \in DetailedEndcapFiles :
       \/ /\ PlainDisks(c)
          /\ \/ Build("VertexDisks_detailed_o1_v01", VertexDisks_detailed_o1_v01(c))
             \/ Build("VertexEndcap_detailed_o1_v02", VertexEndcap_detailed_o1_v02(c))
       \/ /\ DisksAlike(c)
          /\ Build("VertexEndcap_detailed_o1_v03", VertexEndcap_detailed_o1_v03(c))

BuildCalorimeterBarrel ==
  \/ \E c \in StaveFiles :
       \/ /\ OneSensitive(c)
          /\ \/ Build("GenericCalBarrel_o1_v01", GenericCalBarrel_o1_v01(c))
             \/ Build("HCalBarrel_o1_v01", HCalBarrel_o1_v01(c))
             \/ Build("ECalBarrel_o2_v01", ECalBarrel_o2_v01(c))
       \/ Build("YokeBarrel_o1_v01", YokeBarrel_o1_v01(c))
       \/ /\ OneSensitive(c) /\ Len(c.groups) = 1
          /\ Build("SteppedMuonBarrel_o2_v02", SteppedMuonBarrel_o2_v02(c))
  \/ \E c \in TowerFiles :
       \/ Build("ECalBarrel_o1_v01", ECalBarrel_o1_v01(c))
       \/ Build("ECalBarrel_o1_v02", ECalBarrel_o1_v02(c))
       \/ /\ c.ntowers = 1 /\ c.nstacks = 1
          /\ \/ Build("ECalBarrel_o1_v03", ECalBarrel_o1_v03(c))
             \/ Build("ECalBarrel_o2_v03", ECalBarrel_o2_v03(c))
             \/ Build("ECalBarrel_o2_v04", ECalBarrel_o2_v04(c))

BuildCalorimeterEndcap ==
  \/ \E c \in PolygonFiles :
       \/ /\ OneSensitive(c)
          /\ \/ Build("GenericCalEndcap_o1_v01", GenericCalEndcap_o1_v01(c))
             \/ Build("HCalEndcap_o1_v01", HCalEndcap_o1_v01(c))
             \/ Build("ECalEndcap_o2_v01", ECalEndcap_o2_v01(c))
             \/ Build("SteppedMuonEndcap_o2_v02", SteppedMuonEndcap_o2_v02(c))
       \/ Build("YokeEndcap_o1_v01", YokeEndcap_o1_v01(c))
  \/ \E c \in PanelFiles :
       \/ Build("ECalEndcap_o1_v01", ECalEndcap_o1_v01(c))
       \/ Build("SECalEndcap_o1_v01", SECalEndcap_o1_v01(c))

BuildForward ==
  \E c \in ForwardFiles :
    \/ Build("LumiCal_o1_v01", LumiCal_o1_v01(c))
    \/ Build("LumiCal_o1_v03", LumiCal_o1_v03(c))
    \/ Build("BeamCal_o1_v01", BeamCal_o1_v01(c))
    \/ Build("BeamCal_o1_v02", BeamCal_o1_v02(c))
    \/ Build("LHCal", LHCal(c))
    \/ Build("LHCal_v01", LHCal_v01(c))

BuildPrototype ==
  \E c \in PrototypeFiles :
    \/ Build("CaloPrototype_v01", CaloPrototype_v01(c))
    \/ Build("CaloPrototype_v02", CaloPrototype_v02(c))
    \/ Build("CaloPrototype_v03", CaloPrototype_v03(c))
    \/ Build("TBecal4d", TBecal4d(c))
    \/ Build("TBhcal4d", TBhcal4d(c))

Sensitive(c) == {s \in DOMAIN c.slices : c.slices[s].sensitive}

\* Several sensitive slices are for the constructors with ids for them and a
\* choice of the one to record. That one is not behind the middle of the chamber,
\* which is where the distance is measured to.
OneOf(c) == Cardinality(Sensitive(c)) = 1
InThe(c, thickness) == Thickness(c.slices) = thickness

BuildChamberBarrel ==
  \E c \in ChamberBarrelFiles :
    \/ /\ OneOf(c) /\ InThe(c, c.chamber)
       /\ \/ Build("SHcalSc04_Barrel_v01", SHcalSc04_Barrel_v01(c))
          \/ Build("SHcalSc04_Barrel_v03", SHcalSc04_Barrel_v03(c))
          \/ Build("Hcal_Barrel_SD_v01", Hcal_Barrel_SD_v01(c))
          \/ Build("Hcal_Barrel_SD_v02", Hcal_Barrel_SD_v02(c))
          \/ Build("Hcal_BarrelSD_v00", Hcal_BarrelSD_v00(c))
    \/ /\ InThe(c, c.chamber)
       /\ Build("SHcalSc04_Barrel_v04", SHcalSc04_Barrel_v04(c))
    \/ /\ OneOf(c) /\ InThe(c, c.radiator + c.chamber)
       /\ Build("SHcalSc04_Barrel_v02", SHcalSc04_Barrel_v02(c))

BuildChamberEndcap ==
  \E c \in ChamberEndcapFiles :
    \/ /\ OneOf(c)
       /\ \/ Build("SHcalSc04_Endcaps", SHcalSc04_Endcaps(c))
          \/ Build("SHcalSc04_EndcapRing", SHcalSc04_EndcapRing(c))
          \/ Build("Hcal_Endcaps_SD_v01", Hcal_Endcaps_SD_v01(c))
          \/ Build("Hcal_Endcaps_SD_v02", Hcal_Endcaps_SD_v02(c))
          \/ Build("Hcal_EndcapRing_SD_v01", Hcal_EndcapRing_SD_v01(c))
    \/ Build("SHcalSc04_Endcaps_v01", SHcalSc04_Endcaps_v01(c))
    \/ Build("SHcalSc04_EndcapRing_v01", SHcalSc04_EndcapRing_v01(c))

BuildSimplePlanar ==
  \E c \in AroundTPCFiles :
    \/ Build("SIT_Simple_Pixel", SIT_Simple_Pixel(c))
    \/ Build("SIT_Simple_Planar", SIT_Simple_Planar(c))
    \/ Build("SET_Simple_Planar", SET_Simple_Planar(c))

BuildYoke ==
  \/ \E c \in YokeBarrelFiles :
       Build("Yoke05_Barrel", Yoke05_Barrel(c))
  \/ \E c \in YokeEndcapFiles :
       \/ Build("Yoke05_Endcaps", Yoke05_Endcaps(c))
       \/ Build("Yoke06_Endcaps", Yoke06_Endcaps(c))

BuildTurbine ==
  \E c \in TurbineFiles :
    \/ Build("ECalEndcap_Turbine_o1_v01", ECalEndcap_Turbine_o1_v01(c))
    \/ Build("ECalEndcap_Turbine_o1_v02", ECalEndcap_Turbine_o1_v02(c))
    \/ Build("ECalEndcap_Turbine_o1_v03", ECalEndcap_Turbine_o1_v03(c))

BuildNobleLiquid ==
  \/ \E c \in PlateFiles :
       \/ Build("ECalBarrel_NobleLiquid_InclinedTrapezoids_o1_v01",
                ECalBarrel_NobleLiquid_InclinedTrapezoids_o1_v01(c))
       \/ Build("ECalBarrel_NobleLiquid_InclinedTrapezoids_o1_v02",
                ECalBarrel_NobleLiquid_InclinedTrapezoids_o1_v02(c))
       \/ Build("ECalBarrel_NobleLiquid_InclinedTrapezoids_o1_v03",
                ECalBarrel_NobleLiquid_InclinedTrapezoids_o1_v03(c))
  \/ \E c \in UprightDiscFiles :
       Build("CaloDiscs_o1_v01", CaloDiscs_o1_v01(c))

\* A row has one tile, and the endcaps have three parts.
OneTile(c) == \A i \in DOMAIN c.sequences : Cardinality(SensitiveOf(c.sequences[i])) = 1

BuildTiles ==
  \/ \E c \in {f \in TileBarrelFiles : OneTile(f)} :
       \/ Build("HCalTileBarrel_o1_v01", HCalTileBarrel_o1_v01(c))
       \/ Build("HCalTileBarrel_o1_v02", HCalTileBarrel_o1_v02(c))
  \/ \E c \in {f \in TilePartsFiles : OneTile(f)} :
       \/ /\ Len(c.parts) = 2
          /\ Build("HCalTileExtBarrel_o1_v01", HCalTileExtBarrel_o1_v01(c))
       \/ /\ Len(c.parts) = 3
          /\ \/ Build("CaloThreePartsEndcap_o1_v01", HCalThreePartsEndcap_o1_v01(c))
             \/ Build("CaloThreePartsEndcap_o1_v02", HCalThreePartsEndcap_o1_v02(c))

Next ==
  \/ BuildNobleLiquid \/ BuildTiles \/ BuildForward \/ BuildPrototype
  \/ BuildTurbine \/ BuildSimplePlanar \/ BuildYoke
  \/ BuildChamberBarrel \/ BuildChamberEndcap
  \/ BuildCalorimeterBarrel \/ BuildCalorimeterEndcap
  \/ BuildTrackerEndcap \/ BuildSiTrackerEndcap \/ BuildVertexEndcap
  \/ BuildTrackerBarrel \/ BuildLadders \/ BuildTkLayout \/ BuildDetailedVertex

Spec == Init /\ [][Next]_vars

-----------------------------------------------------------------------------
(* Properties.                                                             *)

\* Absorbers, readout, walls and tubes are sensitive for calibration only. Their layers
\* have no DetElements. (In tile calorimeters, which have rows, the type is the part.)
ForCalibration(s) ==
  /\ "type" \in DOMAIN s.ids /\ "row" \notin DOMAIN s.ids
  /\ s.ids.type # 0 \/ ("cryo" \in DOMAIN s.ids /\ s.ids.cryo = 1)

\* The first versions of the turbine, changed in the third: volumes that are in
\* one another have the same ids when more than the gaps are sensitive, and the
\* outermost tube is outside the bath.
FirstTurbines == {"ECalEndcap_Turbine_o1_v01", "ECalEndcap_Turbine_o1_v02"}

MoreThanTheGaps ==
  /\ built \in FirstTurbines
  /\ \E s \in detector.sensors : s.ids.cryo = 0 /\ s.at[5] # 0

\* The outer wall of the turbine's cryostat is given type 8, of which three bits
\* leave 0: with the first tube it shares its ids.
OuterWallIsATube ==
  /\ built \in {"ECalEndcap_Turbine_o1_v02", "ECalEndcap_Turbine_o1_v03"}
  /\ \E s, t \in detector.sensors :
       {s.ids.cryo, t.ids.cryo} = {1} /\ s.ids.type = 0 /\ Len(s.at) = 3 /\ Len(t.at) = 2

\* A cell id names one sensitive volume. The ids of a volume come from counters
\* of loops at several levels, restarted here and continued there; two volumes
\* with the same ids are one for digitization and reconstruction.
CellIdsNameOneSensor ==
  (~MoreThanTheGaps /\ ~OuterWallIsATube) =>
    \A s, t \in detector.sensors : s.ids = t.ids => s = t

\* Constructors that leave DetElements out of the tree, or hang them beside those
\* of the volumes they are in.
NotInTheTree ==
  {"SteppedMuonBarrel_o2_v02", "SteppedMuonEndcap_o2_v02",
   "Yoke05_Endcaps", "Yoke06_Endcaps",
   "ECalEndcap_Turbine_o1_v01"}

\* No two DetElements have the same path, and every sensitive volume has just one
\* on it or, where there are none so far down, on the module it is in.
ElementsSitOnTheirSensors ==
  (built \notin NotInTheTree /\ detector.elements # {}) =>
  LET level == Max({Len(e.on) : e \in detector.elements})
      sitting(s) == {e \in detector.elements : Len(e.on) = level /\ IsPrefix(e.on, s.at)}
  IN /\ Cardinality({e.name : e \in detector.elements})
          = Cardinality(detector.elements)
     /\ \A s \in detector.sensors :
          ~ForCalibration(s) => Cardinality(sitting(s)) = 1

\* The rows of the first barrel of tiles begin at the end plate's outer face, though
\* the layer they are in begins behind it; in the calorimeters of several parts
\* the layers next to the end plates are long enough to hold them.
RowsUnderThePlate == {"HCalTileBarrel_o1_v01"}
PlatesInTheLayers ==
  {"HCalTileExtBarrel_o1_v01", "CaloThreePartsEndcap_o1_v01", "CaloThreePartsEndcap_o1_v02"}

\* The slices of a stack do not overlap and are inside the volume they are
\* placed in.
SlicesFitTheirStack ==
  built \notin FirstTurbines \cup RowsUnderThePlate =>
  \A st \in {stack \in detector.stacks :
              "endPlates" \in DOMAIN stack => built \notin PlatesInTheLayers} :
    LET lo(i) == st.slices[i].middle - st.slices[i].thickness
        hi(i) == st.slices[i].middle + st.slices[i].thickness
    IN /\ \A i \in DOMAIN st.slices : -st.half <= lo(i) /\ hi(i) <= st.half
       /\ \A i, j \in DOMAIN st.slices :
            i # j => hi(i) <= lo(j) \/ hi(j) <= lo(i)

\* Constructors whose reconstruction data are known not to be the geometry.
WrongRecords ==
  {"TrackerEndcap_o2_v04", "TrackerEndcap_o2_v05", "SiTrackerEndcap_o2_v01ext",
   "SiTrackerEndcap_o2_v02ext", "VertexBarrel_o1_v01"}

\* What the reconstruction data say of a layer is so of the sensors in it: where
\* they begin and end, how thick they are, and where one of them is.
RecordsDescribeTheSensors ==
  built \notin WrongRecords =>
    \A i \in DOMAIN detector.layers :
      LET r == detector.layers[i]
          sensors == {s \in detector.sensors : s.at \in r.of}
      IN /\ "lo" \in DOMAIN r => r.lo = Min({s.lo : s \in sensors})
         /\ "hi" \in DOMAIN r => r.hi = Max({s.hi : s \in sensors})
         /\ "thickness" \in DOMAIN r => \A s \in sensors : s.thickness = r.thickness
         /\ "middle" \in DOMAIN r => \E s \in sensors : s.pos = r.middle

Abs(x) == IF x < 0 THEN -x ELSE x

\* Calorimeters whose layer data are known not to be the geometry: the sensitive
\* thickness is divided by .2 for its half, layers are entered once for each
\* stack, or not at all; the distance is the mirror image, misses the stairs the
\* module is moved out by, what was left of the room in front of the ring, or the
\* millimetre the yoke is moved back.
WrongLayerData ==
  {"ECalBarrel_o1_v01", "ECalBarrel_o1_v02", "ECalBarrel_o1_v03",
   "ECalBarrel_o2_v03", "ECalBarrel_o2_v04",
   "ECalEndcap_o1_v01", "SECalEndcap_o1_v01",
   "SHcalSc04_Barrel_v02", "Hcal_Barrel_SD_v01", "Hcal_Barrel_SD_v02",
   "SHcalSc04_Barrel_v03", "SHcalSc04_EndcapRing", "SHcalSc04_EndcapRing_v01",
   "Yoke05_Endcaps", "Yoke06_Endcaps"}

\* The iron plate in front of the eleventh chamber of the yoke is taken for one of
\* the thick ones.
WrongPlate ==
  built = "Yoke05_Barrel" /\ \E s \in detector.sensors : s.ids.layer > 11

\* A layer of rows in z, made for reconstruction only.
InRows(r) == "rows" \in DOMAIN r

CaloLayers == SelectSeq(detector.layers, LAMBDA r : "distance" \in DOMAIN r)
Extents == {r \in Range(detector.layers) : "across" \in DOMAIN r}
SensorsOf(r) == {s \in detector.sensors : s.at \in r.of}

\* Whether layer i is followed by one behind it.
GoesOn(i) ==
  /\ i < Len(CaloLayers)
  /\ "part" \in DOMAIN CaloLayers[i] => CaloLayers[i + 1].part = CaloLayers[i].part

\* Layer i, where sensor s is, is from inner_thickness in front of the sensor's
\* middle to outer_thickness behind it, and the next one begins there.
LayerIsAround(i, s) ==
  LET r == CaloLayers[i]
  IN /\ Abs(s.pos) - r.inner <= r.distance
     /\ r.distance <= Abs(s.pos) + r.outer
     /\ GoesOn(i) =>
          \A t \in SensorsOf(CaloLayers[i + 1]) :
            Abs(s.pos) + r.outer = Abs(t.pos) - CaloLayers[i + 1].inner

\* The tiles of a layer of rows have room in it.
HoldsItsRows(r, s) ==
  \A t \in SensorsOf(r) :
    s.ids.type = t.ids.type => Abs(s.hi - t.lo) <= r.inner + r.outer

Within(span, lo, hi) == span = <<>> \/ (span[1] <= lo /\ hi <= span[2])

LayersWith(s) == {i \in DOMAIN CaloLayers : s.at \in CaloLayers[i].of}

\* The extent reaches around all sensors; none of them is in two layers, none is
\* in no layer of rows, and there are as many other layers as in the cell ids.
ExtentHoldsItsLayers(r) ==
  /\ (CaloLayers # <<>> /\ ~InRows(CaloLayers[1])) =>
       Len(CaloLayers) = Cardinality({s.ids.layer : s \in SensorsOf(r)})
  /\ \A s \in SensorsOf(r) :
       /\ Cardinality(LayersWith(s)) <= 1
       /\ (CaloLayers # <<>> /\ InRows(CaloLayers[1])) => LayersWith(s) # {}
       /\ Within(r.across, Abs(s.pos) - s.thickness, Abs(s.pos) + s.thickness)
       /\ Within(r.along, s.lo, s.hi)

\* The layers of LayeredCalorimeterData, if any, are those of the cell ids, are
\* where their sensors are, follow one another without a gap, and with the extent
\* hold all of them. What is between two layers, and all that reconstruction
\* reckons from their distance, would otherwise be wrong without a notice.
LayerDataDescribeTheLayers ==
  (built \notin WrongLayerData /\ ~WrongPlate) =>
    /\ \A i \in DOMAIN CaloLayers : \A s \in SensorsOf(CaloLayers[i]) :
         IF InRows(CaloLayers[i]) THEN HoldsItsRows(CaloLayers[i], s)
         ELSE "inner" \in DOMAIN CaloLayers[i] => LayerIsAround(i, s)
    /\ \A r \in Extents : ExtentHoldsItsLayers(r)

\* Constructors that know the neighbours of a surface of a barrel.
BarrelsWithNeighbours ==
  {"TrackerBarrel_o1_v03", "TrackerBarrel_o1_v04", "TrackerBarrel_o1_v05"}

\* In a barrel the neighbours of a surface are other surfaces of its layer in
\* this or the next stave that touch it along the stave, and it is theirs.
NeighboursAreNextToEachOther ==
  built \in BarrelsWithNeighbours =>
    LET next(a, b) ==
          /\ a.at[1] = b.at[1]
          /\ LET n == 1 + Max({s.at[2] : s \in {t \in detector.sensors :
                                                  t.at[1] = a.at[1]}})
             IN (a.at[2] - b.at[2] + n) % n \in {0, 1, n - 1}
          /\ a.at[3] - b.at[3] \in -1..1
    IN detector.neighbours =
         {<<p[1].ids, p[2].ids>> :
            p \in {q \in detector.sensors \X detector.sensors :
                     q[1] # q[2] /\ next(q[1], q[2])}}

\* Constructors that do not turn what they place on the other side.
NotTurned ==
  {"SiTrackerEndcap_o2_v02", "SiTrackerEndcap_o2_v03",
   "HCalTileExtBarrel_o1_v01", "CaloThreePartsEndcap_o1_v01"}

\* What is in an absorber disc is numbered towards +z on both sides.
InADisc(s) == built = "CaloDiscs_o1_v01" /\ s.ids.subtype # 0

\* Sensors that differ in nothing but the side in their cell ids lie at opposite z.
OtherSideIsMirrored ==
  LET side == {"side", "barrel", "posneg", "subsystem"}
                \cup (IF built = "CaloThreePartsEndcap_o1_v02" THEN {"type"} ELSE {})
      sameButSide(s, t) ==
        \A f \in DOMAIN s.ids : f \in side <=> s.ids[f] # t.ids[f]
      opposite(s, t) ==
        IF "type" \in side THEN t.lo = -s.hi /\ t.hi = -s.lo ELSE t.pos = -s.pos
  IN (built \notin NotTurned /\ ~OuterWallIsATube) =>
       \A s, t \in detector.sensors :
         (DOMAIN s.ids \cap side # {} /\ sameButSide(s, t) /\ ~InADisc(s)) => opposite(s, t)

\* The height the wedge has grown over is no longer summed up in the last version
\* of the barrel of inclined plates.
HeightNotSummed == {"ECalBarrel_NobleLiquid_InclinedTrapezoids_o1_v03"}

\* An absorber in the shape of a wedge is as thick, at each end of its pieces, as it
\* has to be there if it grows evenly from one end to the other.
AbsorberGrowsEvenly ==
  ("wedge" \in DOMAIN detector /\ built \notin HeightNotSummed) =>
    LET w == detector.wedge
        isThickness(t, x) == (t - w.near) * w.length = (w.far - w.near) * x
    IN \A p \in w.pieces : isThickness(p.near, p.from) /\ isThickness(p.far, p.to)
=============================================================================
