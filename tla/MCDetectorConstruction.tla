----------------------- MODULE MCDetectorConstruction -----------------------
(* Small compact descriptions: two layers of different make, asymmetric    *)
(* stacks, two rings of different sizes, odd and even numbers of modules.  *)
EXTENDS DetectorConstruction, TLC

Dead(t) == [thickness |-> t, sensitive |-> FALSE]
Live(t) == [thickness |-> t, sensitive |-> TRUE]

MCEndcapFiles ==
  LET modules(first) ==
                 [inner |-> [slices |-> <<first, Dead(2), Live(1)>>, halfLength |-> 4],
                  outer |-> [slices |-> <<Dead(1), Live(1), Dead(4)>>,
                             halfLength |-> 5]]
      ring(r, z, n, m) == [r |-> r, zstart |-> z, dz |-> 1, nmodules |-> n,
                           module |-> m]
  IN {[reflect |-> reflect, modules |-> modules(first), layers |-> layers] :
        reflect \in BOOLEAN, first \in {Dead(3), Live(3)},
        layers \in {<<[id |-> 0, rings |-> <<ring(10, 30, 3, "inner")>>],
                      [id |-> 1, rings |-> <<ring(12, 40, 4, "outer")>>]>>,
                    <<[id |-> 2, rings |-> <<ring(10, 30, 2, "inner"),
                                             ring(20, 32, 4, "outer")>>],
                      [id |-> 5, rings |-> <<ring(11, 50, 3, "outer"),
                                             ring(21, 52, 3, "outer")>>]>>}}

MCBarrelFiles ==
  LET at(slice, middle) ==
        [thickness |-> slice.thickness, sensitive |-> slice.sensitive,
         middle |-> middle]
      modules(last) ==
                 [a |-> [slices |-> <<at(Live(1), -2), at(last, 1)>>,
                         thickness |-> 3, halfLength |-> 2],
                  b |-> [slices |-> <<at(Dead(1), 4), at(Live(2), 1), at(Dead(2), -3)>>,
                         thickness |-> 5, halfLength |-> 3]]
      layer(id, m, nphi, nz, rc, z0) ==
        [id |-> id, module |-> m, nphi |-> nphi, nz |-> nz, rc |-> rc, dr |-> 1,
         z0 |-> z0, zdr |-> 1]
  IN {[modules |-> modules(last),
       layers |-> <<layer(1, "a", n, nz, 10, IF nz = 1 THEN 0 ELSE 6), layer(2, "b", n + 1, 2, 20, 4)>>] :
        n \in {3, 4}, nz \in {1, 3}, last \in {Dead(2), Live(2)}}

MCLadderFiles ==
  LET layer(id, nphi, d, nz) ==
        [id |-> id, nphi |-> nphi, nz |-> nz,
         sensitive |-> [distance |-> d, thickness |-> 1, zhalf |-> 6]]
  IN {[layers |-> <<layer(0, n, 5, nz), layer(1, n + 2, 7, nz)>>] :
        n \in {3, 4}, nz \in {1, 2, 3}}

MCRodFiles ==
  LET rod(r) == <<[r |-> r, z |-> -6], [r |-> r, z |-> 6]>>
      layer(n, r, slices, rods) ==
        [nphi |-> n, halfLength |-> 5, slices |-> slices, rods |-> rods]
  IN {[layers |-> <<layer(n, 10, slices, <<rod(10), rod(12)>>),
                    layer(4, 20, <<Live(1)>>, <<rod(20), rod(22), rod(21), rod(23)>>)>>] :
        n \in {2, 4}, slices \in {<<Live(1), Dead(2)>>, <<Dead(1), Live(1), Dead(3)>>,
                                  <<Live(1), Dead(2), Live(1)>>}}

MCDiscFiles ==
  LET ring(r, n, slices) ==
        [r |-> r, halfLength |-> 3, nmodules |-> n, slices |-> slices,
         zEven |-> -2, zOdd |-> 2]
      rings(n) == <<ring(10, n, <<Live(1), Dead(2)>>), ring(20, 4, <<Dead(1), Live(1)>>)>>
  IN {[discs |-> <<[z |-> 30, rings |-> rings(2)], [z |-> 40, rings |-> second],
                   [z |-> 50, rings |-> <<>>]>>] :
        second \in {<<>>, rings(4)}}

\* Modules of one or two sensors, alone or in groups; a component in two segments.
ModulePiece(t, s, n) ==
  [thickness |-> t, sensitive |-> s, nsegments |-> n, below |-> 0, above |-> 0, z |-> 0]

SensorKind(grouping, nx, components) ==
  [grouping |-> grouping, nx |-> nx, z |-> 1, components |-> components]

PlainKind == SensorKind(1, 1, <<ModulePiece(1, TRUE, 1), ModulePiece(2, FALSE, 1)>>)
TwoInOne == SensorKind(1, 1, <<ModulePiece(1, TRUE, 1), ModulePiece(1, TRUE, 1)>>)
Bent == SensorKind(1, 2, <<ModulePiece(1, TRUE, 2), ModulePiece(2, FALSE, 1), ModulePiece(1, TRUE, 1)>>)
InGroups ==
  LET split == [ModulePiece(2, TRUE, 1) EXCEPT !.below = 1, !.above = 3, !.z = 1]
  IN SensorKind(3, 1, <<split, ModulePiece(1, TRUE, 1)>>)

MCDetailedBarrelFiles ==
  LET layer(id, side, stave, n, m) ==
        [id |-> id, side |-> side, stave |-> stave, nladders |-> n, nmodules |-> m]
  IN {[staves |-> [a |-> [sensors |-> first], b |-> [sensors |-> <<second>>]],
       layers |-> <<layer(1, 1, "a", 2, n), layer(id, -1, "a", 3, 1), layer(2, 1, "b", 2, 2)>>] :
        first \in {<<PlainKind>>, <<TwoInOne>>, <<PlainKind, Bent>>, <<InGroups, InGroups>>},
        second \in {PlainKind, InGroups}, n \in {1, 2}, id \in {0, 1}}

MCDetailedEndcapFiles ==
  LET stave(module, n, m, z) ==
        [module |-> module, nphi |-> n, nmodules |-> m, z |-> z, dz |-> 1]
      layer(id, n, z, volume, staves) ==
        [id |-> id, nphi |-> n, z |-> z, dz |-> 2, motherVolThickness |-> volume,
         staves |-> staves]
  IN {[reflect |-> reflect, modules |-> [a |-> first, b |-> second],
       layers |-> <<layer(1, 3, 30, 4, <<stave("a", 1, 2, 0), stave("a", 1, 1, 3)>>),
                    layer(2, 1, 40, 0, <<stave("b", n, 2, 1), stave("b", n, 1, 2)>>)>>] :
        reflect \in BOOLEAN, n \in {1, 3},
        first \in {PlainKind, InGroups}, second \in {TwoInOne, InGroups}}

\* LayerGroups of layers with one sensitive slice each.
LayerGroups ==
  {<<[repeat |-> 2, slices |-> <<Dead(3), Live(1), Dead(1)>>],
     [repeat |-> 1, slices |-> <<Dead(1), Dead(4), Live(2)>>]>>,
   <<[repeat |-> 3, slices |-> <<Live(1), Dead(2)>>]>>}

TwoSensitive ==
  <<[repeat |-> 2, slices |-> <<Live(1), Dead(3), Live(2)>>]>>

MCStaveFiles ==
  {[nsides |-> n, rmin |-> 20, rmax |-> 50, zhalf |-> 30, groups |-> groups] :
     n \in {3, 4}, groups \in LayerGroups \cup {TwoSensitive}}

MCTowerFiles ==
  {[nsides |-> 2, rmin |-> 20, ntowers |-> n[1], nstacks |-> n[2], stackHalf |-> 10,
    face |-> 1, gap |-> 2, tolerance |-> 1, ry |-> 2, groups |-> groups] :
     n \in {<<1, 1>>, <<3, 3>>, <<3, 1>>}, groups \in LayerGroups}

MCPolygonFiles ==
  {[zmin |-> 100, rmin |-> 10, rmax |-> 40, groups |-> groups] :
     groups \in LayerGroups \cup {TwoSensitive, <<[repeat |-> 0, slices |-> <<Live(1)>>]>>}}

MCForwardFiles ==
  {[zmin |-> 100, rmin |-> 10, rmax |-> 40, sensorRmin |-> 12, sensorRmax |-> 37,
    groups |-> groups] : groups \in LayerGroups}

\* The first layers are in a group that goes on behind them.
MCPrototypeFiles ==
  {[zhalf |-> 9, xhalf |-> 8, narrow |-> 5, ssf |-> ssf, groups |-> groups] :
     ssf \in {0, 1, 3}, groups \in LayerGroups}

MCPanelFiles ==
  {[insides |-> n[1], outsides |-> n[2], zmin |-> 100, zmax |-> z, rmin |-> 10,
    rmax |-> 40, tolerance |-> 1, groups |-> groups] :
     n \in {<<4, 12>>, <<4, 8>>, <<3, 8>>}, z \in {114, 130}, groups \in LayerGroups}

\* Three chambers; the slices leave the sensitive one in front of the middle.
ChamberSlices == {<<Dead(1), Live(1), Dead(4)>>, <<Live(2), Dead(4)>>}

MCChamberBarrelFiles ==
  LET file(slices, recorded, space, fits) ==
        [nlayers |-> 3, nsides |-> 2, rin |-> 20, rout |-> 60, zhalf |-> 30,
         gap |-> 2, lateral |-> 1, radiator |-> 3, chamber |-> 6, backPlate |-> 3,
         stair |-> 2, nmodules |-> 3, wall |-> 1, space |-> space, fits |-> fits,
         slices |-> slices, recorded |-> recorded]
  IN {file(slices, 0, space, fits) :
        slices \in ChamberSlices \cup {<<Dead(3), Dead(1), Live(1), Dead(4)>>},
        space \in {26, 27}, fits \in {{1, 2, 3}, {1, 3}}}
     \cup {file(<<Dead(1), Live(1), Live(1), Dead(3)>>, recorded, 27, 1..3) :
             recorded \in {2, 3}}

MCChamberEndcapFiles ==
  LET file(slices, recorded, n, zmax) ==
        [nlayers |-> n, zmin |-> 100, zmax |-> zmax, rmin |-> 10, rmax |-> 30,
         boxes |-> <<<<10, 30>>, <<14, 26>>>>, radiator |-> 3, chamber |-> 6,
         backPlate |-> 2, slices |-> slices, recorded |-> recorded]
  IN {file(slices, 0, n, zmax) : slices \in ChamberSlices, n \in {2, 3},
                                 zmax \in {129, 131}}
     \cup {file(<<Dead(1), Live(1), Live(1), Dead(3)>>, recorded, 3, 131) :
             recorded \in {2, 3}}

MCAroundTPCFiles ==
  {[thickness |-> 1, support |-> support, sensorLength |-> 4, tpcRadius |-> 20,
    layers |-> <<[id |-> 0, nladders |-> 2, facesIP |-> faces, distance |-> 5,
                  nsensors |-> n, covered |-> 10],
                 [id |-> 1, nladders |-> 3, facesIP |-> TRUE, distance |-> 8,
                  nsensors |-> 2, covered |-> 4]>>] :
     support \in {1, 2}, faces \in BOOLEAN, n \in {2, 3}}

\* In units of half a millimetre, with few sides; up to the chambers between the
\* plates that are thicker.
Yoke(n, slices) ==
  [slices |-> slices, nlayers |-> n, nsides |-> 2, rin |-> 9600, zStart |-> 8200,
   gap |-> 80, iron |-> 200, extra |-> 920, slack |-> 1, barrelGap |-> 50,
   lateral |-> 1, behindStart |-> 2, rmin |-> 600, rmax |-> 16000]

YokeSlices == {<<Dead(30), Live(20), Dead(30)>>, <<Dead(10), Live(20), Dead(20)>>}

MCYokeBarrelFiles == {Yoke(n, slices) : n \in {10, 13}, slices \in YokeSlices}
MCYokeEndcapFiles == {Yoke(n, slices) : n \in {10, 12}, slices \in YokeSlices}

MCTurbineFiles ==
  LET wheel(n, nrho, nz, steep) ==
        [ncells |-> n, nrho |-> nrho, nz |-> nz, steep |-> steep]
  IN {[wheels |-> <<wheel(2, 1, 2, TRUE), wheel(3, 2, 1, steep), wheel(3, 2, 2, TRUE)>>,
       radii |-> <<8, 16, 32, 64>>, supportRadii |-> <<16, 32>>, tube |-> 4,
       innerRing |-> <<8, 12>>, outerRing |-> <<62, 68>>, midRing |-> 2,
       nlayers |-> 2, leastCommonMultiple |-> 6, sensitive |-> s[1],
       tubeSensitive |-> s[2], cryoSensitive |-> s[3], cryo |-> <<6, 8, 68, 70>>,
       cryoHalf |-> 24, supportGap |-> 2,
       z |-> 100, dz |-> 30, bathHalf |-> 20, freeFront |-> 4, freeBack |-> 10,
       wallFront |-> 4, wallBack |-> 8, rmin1 |-> 6, rmax1 |-> 70] :
        steep \in BOOLEAN,
        s \in {<<{Gap}, FALSE, {}>>, <<{Gap}, TRUE, {"front", "back", "side", "inner"}>>,
               <<{Gap} \cup NonActive, FALSE, {"front", "outer"}>>,
               <<{Gap, Cladding, Absorber}, TRUE, {"outer"}>>,
               <<{Electrode, Glue}, TRUE, {}>>}}

MCPlateFiles ==
  LET layers == <<[repeat |-> 1, thickness |-> 2], [repeat |-> 2, thickness |-> 4]>>
  IN {[rmin |-> 40, rmax |-> 40 + size[1], dz |-> 50, planes |-> 3, layers |-> layers,
       inner |-> 2, innerMax |-> 2 + size[2], glue |-> 2, outer |-> 4,
       sensitive |-> sensitive, overlap |-> overlap,
       numLayers |-> given, numPlanes |-> 3, merged |-> TRUE, bath |-> <<38, 64>>,
       walls |-> walls, envelope |-> <<30, 74>>, cryoSensitive |-> {"front", "side", "back"}] :
        size \in {<<10, 0>>, <<10, 10>>, <<20, 0>>}, overlap \in {50, 60}, given \in {0, 3, 4},
        walls \in {<<32, 36, 68, 72>>, <<36, 36, 68, 68>>},
        sensitive \in {{}, {"readout", "inner", "outer", "glue"}, {"first", "inner"}}}

MCUprightDiscFiles ==
  {[length |-> 74, z |-> 200, rmin |-> 20, rmax |-> 60, active |-> 8, readout |-> 2,
    inner |-> 6 - glue, glue |-> glue \div 2, outer |-> glue \div 2, layers |-> layers,
    sensitive |-> sensitive] :
     glue \in {0, 4}, layers \in {<<1, 2, 1>>, <<2, 2>>, <<4>>},
     sensitive \in {{}, {1, 2}}}

\* Sequences of the same length with the tile at different places in them.
TileSequences == <<<<Dead(2), Live(1), Dead(3)>>, <<Dead(1), Live(2), Dead(3)>>>>

MCTileBarrelFiles ==
  {[rmin |-> 20, rmax |-> 33, dz |-> dz, sizes |-> <<2, 3>>, repeat |-> <<1, 2>>,
    rows |-> 3, sequences |-> TileSequences, dzSequence |-> 6, uneven |-> uneven,
    endPlate |-> 2, facePlate |-> 2, space |-> 1, support |-> 2, readout |-> readout] :
     dz \in {12, 13}, uneven \in BOOLEAN, readout \in {"HCalPhiTheta", "HCalPhiRow", "other"}}

MCTilePartsFiles ==
  LET part(rmin, repeat, offset, half, rows) ==
        [rmin |-> rmin, repeat |-> repeat, offset |-> offset, half |-> half, rows |-> rows]
      two == <<part(28, <<0, 1>>, 100, 9, 2), part(26, <<1, 1>>, 118, 9, 2)>>
      three == <<part(28, <<0, 1>>, 100, 9, 2), part(26, <<1, 1>>, 115, 6, 1),
                 part(23, <<1, 2>>, 133, 12, 3)>>
  IN {[rmax |-> 34, sizes |-> <<2, 3>>, parts |-> parts, sequences |-> TileSequences,
       dzSequence |-> 6, uneven |-> FALSE, endPlate |-> 2, facePlate |-> 2, space |-> 1,
       readout |-> readout, gridSize |-> <<1, 1, 1>>, groupedRows |-> groups] :
        parts \in {two, three}, readout \in {"GridPhiTheta", "HCalPhiRow", "other"},
        groups \in {<<>>, <<2, 0, 1, 0, 1, 2>>, <<2, 1>>}}
=============================================================================
