# k4geo: models, checks and proofs

k4geo describes particle detectors: constructors turn compact files into DD4hep
geometries, and plugins run inside the simulation (DDG4, Geant4) and turn what Geant4
does into hits and files. This directory holds TLA+ modules for the parts of it that
keep state from one call to the next and for the constructors of trackers and
calorimeters, the TLC configurations that check them on small instances, and theorems
that TLAPS proves for every value of the constants.

Paths below are relative to `src/`. `PROJECT.json` lists components, runs, hazards,
theorems, findings, one mutation for every checked property that makes it fail, and
for each definition the source lines it is translated from.

    tlc -workers 2 -config SciFiOneRun.cfg MCSciFiSteppingAction.tla
    tlapm SciFiSteppingAction_proofs.tla

## 1. The system

### 1.1 Who calls whom

Geant4 processes runs, in a run events, in an event tracks one after the other, and of
a track its steps. It is the caller of everything in `plugins/`:

- a **sensitive detector** (`process(step)`) for each step in a sensitive volume, with
  `begin`/`end` for each event; it fills hit collections, which belong to the event;
- a **stepping action** for every step, after the sensitive detector;
- a **fast simulation** before a step, which may take the photon over;
- the **output action** at the beginning and end of runs and events.

None of them calls another. They meet in what Geant4 keeps: the track's status (a
sensitive detector that kills a photon changes what the stepping action sees of the same
step), the last status of the boundary process, the interaction lengths left, the hit
collections, and in the output file. Members of a plugin outlive steps, tracks, events
and runs; hit collections only outlive steps. Most of what can go wrong is there: state
of one track, event or run read by another.

The segmentations and `detectorCommon` are called from simulation, digitisation and
reconstruction, with `const` methods that may run in several threads at once. Some of
them cache what they compute.

The **constructors** under `detector/` run before all of this, one for each detector of a
compact file, and are not called again. What they leave behind is read by everybody
else: volumes with ids, from which a cell id is put together; DetElements, by which a
cell id is turned back into a placement; neighbours of surfaces; and the extensions
(`ZPlanarData`, `ZDiskPetalsData`, `LayeredCalorimeterData`) from which reconstruction
takes radii, thicknesses and distances without looking at the volumes. Each is filled by
counters and sums of its own in nested loops, some restarted and some continued, and
nothing compares them.

### 1.2 Components

| Component | State | Operations | What is hard | Correct when |
|---|---|---|---|---|
| **SciFi stepping action** `plugins/SciFiSteppingAction.cpp` | counters of the event and of the run (all, WLS and primary photons), sets of photons seen, detected, escaped; data per event id; the event it thinks it is in | a step of an optical photon or of the primary; end of run: fold, merge into the output file, histograms | no begin-of-event call: the first step of an event notices it, the last event is folded by `endRun`; the merge pairs frames and events by index; photons are classified by a chain of tests at their death | every photon is counted once, in its event, under what happened to it; totals, frames and histograms agree with it |
| **SciFi sensitive detector** `plugins/Geant4SciFiOpticalTrackerAction.cpp` | its collection | a step in a pixel: kill, draw against the PDE, hit | kills before the stepping action sees the step | a hit is a detected photon |
| **TPC sensitive detector** `plugins/TPCSDAction.cpp` | energy of the pad row, crossing and entrance, path of low-pt steps, previous step, known radii | high-pt and low-pt steps, end of event | two accumulations that outlive tracks and are emptied by the steps of others | each hit holds energy of one track in one row (or of one connected path), all of it, once |
| **Dual-readout tubes sensitive detector** `plugins/DRTubesSDAction.cpp`, `DRTubesSglHpr.hh` | its collections | scintillation and Cherenkov steps in cores and claddings | cell identifiers rebuilt from copy numbers, negative ones packed in 32 bits; time bins matched with a tolerance; a photon goes on after its draw; the boundary status may be stale | each fibre's light is in its own hit, in its time bins; no photon is drawn twice |
| **Dual-readout fibre calorimeter** `plugins/FiberDRCaloSDAction.*`, `DRCaloFastSimModel.*` | `DRCFiberModel`: the last two reflections, hop, number of hops, kill and transported flags; the hits | a step in a fibre or wafer; trigger and `modelShower` of the fast simulation | heuristics over a history of reflections, of one photon after another; absorption is decided before transport and again after it | a photon is moved or counted once, at the right time, and not if it would be absorbed |
| **EDM4hep output (DRC)** `plugins/Geant4Output2EDM4hep_DRC.cpp` | open file, frame, collections being filled, cell-id encodings, run number | begin/end of run, begin/save/commit of an event, save of a collection | exceptions in the middle of an event, events given up while the run goes on, several runs into one name | a frame holds one event, all of it; files are complete; run numbers agree |
| **Lazy layer information** of `detectorSegmentations/src/FCCSW{HCalPhiTheta,HCalPhiRow,GridModuleThetaMerged,EndcapTurbine}_k4geo.cpp` | an atomic pointer to a table | a query: load, make, compare-and-exchange, delete the loser, look up | threads race to make it, making it may throw, references are kept while others go on | whole tables only, one for all, nothing leaked or freed under a reader, no query waits for another |
| **Module-theta merged segmentation** `FCCSWGridModuleThetaMerged_k4geo.cpp`, `detectorCommon/src/DetUtils_k4geo.cpp`, `.../xtalk_neighbors_moduleThetaMergedSegmentation.cpp` | none | cell ids, neighbours, crosstalk neighbours | layers merge different numbers of bins and modules, on a circle, with the remainder of C++ | neighbours found by arithmetic are the cells that touch |
| Dual-readout fibre grid `GridDRcalo_k4geo.cpp`, `DRparam*` | parameters of a tower, one object for all cells | `setParamBarrel/Endcap`, cell ids, neighbours, positions | the object holds the tower asked for last; not safe for threads | every answer is from the parameters of its own cell |
| SCEPCal sensitive detectors `SCEPCal_{Main,Timing}SDAction.cpp` and segmentations | their collections | a step: energy, scintillation and Cherenkov counts | a Cherenkov photon is drawn in its first step only | counts are in the crystal's hits, a photon once |
| Calorimeter with preshower `CaloPreShowerSDAction.cpp` | two collections | a step: hit in the collection of its layer | none beyond the layer test | energy is in the right collection |
| SciFi WLS setup `Geant4SciFiWLSSetup.cpp` | none | adds a process to the optical photon, once | - | - |
| Linear sorting policy `LinearSortingPolicy.cpp` | parameters attached to detector elements | one pass over the surfaces | first match wins; elements with several surfaces are written again | - |
| FCCSW grids, `WireTracker_info.h`, other counts and searches of `DetUtils` | none, or tables filled at start | positions to bins and back | floating point | a position is in the cell found for it |
| **Constructors of trackers** `detector/tracker/`: discs (`TrackerEndcap`, `SiTrackerEndcap`, `VertexEndcap`), barrels, ladders (`ZPlanarTracker`, `SIT`, `SET`), TkLayout, vertex detectors in detail (`VertexBarrel_detailed`, `VertexEndcap_detailed`) | the geometry they build | one call | dozens of near copies that differ in numbering, stacking, mirroring and what they record | see below |
| **Constructors of calorimeters and yokes** `detector/calorimeter/`: layered ones, chambers, iron yokes, turbines, noble liquid, tiles | the geometry they build | one call | layers are numbered, summed up and recorded in loops of their own; volumes in one another with the same ids; the other side | a cell id names one sensitive volume and a DetElement sits on it; slices stay in their volumes; neighbours are next to each other; the other side is the mirror image; extensions describe what was placed |
| **Calorimeters around the beam pipe and prototypes in test beams** `detector/fcal/`, `detector/CaloTB/` | the geometry they build | one call | two turned halves from one volume with slices that do or do not have ids; groups of layers measured by the index of their first layer | as above |
| Other constructors under `detector/` | the geometry | run once, at start | shapes, meshes and trigonometry | - |
| Compact files, field maps, meshes, scripts, examples, tests, `InstallArea` | data and drivers | - | - | - |

Those in bold are modelled. Which of their details are left out is said with each
module below; section 7 says why the others are not modelled.

## 2. The modules

| Module | Models | Used by |
|---|---|---|
| `SciFiSteppingAction` | stepping action and SciFi sensitive detector, composed step by step | `MCSciFiSteppingAction`, `SciFiSteppingAction_proofs` |
| `TPCSDAction` | TPC sensitive detector | `MCTPCSDAction`, `TPCSDAction_proofs` |
| `DRTubesSDAction` | dual-readout tubes sensitive detector, copy numbers of the constructors | `MCDRTubesSDAction`, `DRTubesSDAction_proofs` |
| `DRCFiberModel` | the class of that name, as operators on its members | `FiberDRCalo` |
| `FiberDRCalo` | both users of the fibre model, Geant4's photon in a fibre | `MCFiberDRCalo`, `FiberDRCalo_proofs` |
| `Geant4Output2EDM4hep` | output action and the files | `MCGeant4Output2EDM4hep`, `Geant4Output2EDM4hep_proofs` |
| `OnceValue` | abstract: a value chosen once | `LazyLayerInfo` implements it |
| `LazyLayerInfo` | the lazily made table, its threads and its memory | `MCLazyLayerInfo`, `Segmentations_proofs` |
| `ModuleThetaMerged` | cells, neighbours and crosstalk of the merged readout | `MCModuleThetaMerged`, `Segmentations_proofs` |
| `Geometry` | what constructors use of DD4hep, and the record of what they leave | the eleven modules below |
| `TrackerEndcaps` | 21 constructors of silicon discs | `DetectorConstruction` |
| `TrackerBarrels` | 9 of silicon barrels and ladders, 2 of TkLayout | `DetectorConstruction` |
| `DetailedVertex` | three each of `VertexBarrel_detailed` and `VertexEndcap_detailed` | `DetectorConstruction` |
| `SimplePlanar` | `SIT_Simple_Pixel`, `SIT_Simple_Planar`, `SET_Simple_Planar` | `DetectorConstruction` |
| `LayeredCalorimeters` | 17 of staves, towers, polygons and panels of layers | `DetectorConstruction` |
| `HcalChambers` | 14 of the `SHcalSc04` and semi-digital families | `DetectorConstruction` |
| `YokePlates` | `Yoke05_Barrel`, `Yoke05_Endcaps`, `Yoke06_Endcaps` | `DetectorConstruction` |
| `TurbineEndcaps` | `ECalEndcap_Turbine_o1_v01` to `v03` | `DetectorConstruction` |
| `NobleLiquid` | three barrels of inclined plates, `CaloDiscs_o1_v01` | `DetectorConstruction` |
| `HcalTiles` | five calorimeters of tiles | `DetectorConstruction` |
| `ForwardCalorimeters` | two each of LumiCal, BeamCal and LHCal; five prototypes | `DetectorConstruction` |
| `DetectorConstruction` | a compact description and the constructor named in it; the properties of all | `MCDetectorConstruction`, `DetectorConstruction_proofs`, `DetectorRecords_proofs` |

In each module the members of the C++ class are variables of the same name, without
`m_` where the module has nothing else of that name; an operation is an action and its
helpers are operators named as in the code. Geant4, DD4hep and podio are outside the
repository: they are modelled from how the code uses them. Variables marked "history"
record what happened and are read by properties only; no guard depends on them.
Definitions marked "Mutant" are wrong on purpose: each shows that a property notices a
plausible slip in the code; nothing but that uses them.

### 2.1 SciFiSteppingAction

`StartRun`, `StartEvent`, `Emit`, `EndEvent` and `EndRun` are Geant4: runs number their
events from 0, and one photon at a time lives. A photon's step is one of `Outcomes`:
any crossing, reflection, absorption, scattering or exit the SciFi geometry
(`detector/tracker/SciFiTracker_o1_v01.cpp`, variable `Surfaces`) allows.
`processOpticalPhoton` is the whole handler: the sensitive detector's kill and hit,
`beginEvent` if the event is new, first-step counters, fibre exit, escape, kill by the
action, and the classification of the loss. `processPrimary` is a step of the primary.
`EndRun` folds the last event, merges data into frames and writes histograms, which may
fail when the file cannot be opened again.

Left out: per-track path lengths and reflection counts, which nothing reads; contents of
histograms other than counters; failures of the file system (l.588: the output is
removed before the new file is renamed, and neither result is looked at); the exception for
a pixel without cell id (`Geant4SciFiOpticalTrackerAction.cpp:66`), since every pixel has one.

### 2.2 TPCSDAction

`process` splits on transverse momentum as the code does (l.161): `HighPtStep`
accumulates the pad row and deposits when the row is left or the particle stops,
`LowPtStep` deposits what is left of a row, continues or breaks the path and ends it at
rest or after `MaxSeparation`; with `TPCLowPtStepLimit` off the step is ignored. A step
is described by where it ends (centre surface of the row, another row, outside,
inside), its energy, momentum and fate. `Enter` is Geant4's next track or a return of
the same one; `j` says that it starts where the last one ended, which is all the code's
distance test sees. `endEvent` is the handler of that name. Positions are reduced to
what decides whether a hit is made: was the centre crossed, and does the crossing look
like the unset vector (`corner`, l.321), and is the row's radius known.

### 2.3 DRTubesSDAction

Fibres are records of the numbers the constructors give them, `CopyNumber` is what the
constructors place and `VolID`, `Collection` what `process` makes of it. `OtherStep` is a
step of a particle other than a photon, `EmitPhoton`/`PhotonStep` follow one photon;
`StatusAfter` has the boundary status stay what it was when the photon is absorbed
before the boundary. Signals and arrival times are chosen from sets: Birks' law, the
smearing and the attenuation are abstracted to the number they yield.

### 2.4 DRCFiberModel and FiberDRCalo

`DRCFiberModel` has one operator per method: `checkTotalInternalReflection`,
`checkAbsorption`, `checkNILL`, `check_trigger`, `reset`. `FiberDRCalo` composes it with
a photon that Geant4 moves in hops along the axis (reflected at the core or cladding,
turned at an end, refracted out, absorbed) and with its two clients, chosen in `Init`:
`FiberStep` is `DRCaloSDAction::process` with `skipScint`, asking after each step;
`FastSimStep` is the trigger of `DRCaloFastSimModel`, `modelShower` or Geant4's step, and
the wafer's action. `ScintStep` is a scintillation step. Assumed of Geant4: interaction
lengths are drawn anew after a fast simulation step; hops of a photon are equal. Left
out: mirrors, the wavelength spectrum (counted as the times are), `fSwitch`, `verbose`
and the choice of the cell by the segmentation.

The history of a run is kept as sets: photons counted, killed and moved, with the place
each was at. `Way` is what a photon went along the axis, with any number of turns; the
properties compare counts, times and lengths left with it. `wasted` would hold a photon
that the fast simulation moved and Geant4 then absorbed before it turned: `checkNILL` is
asked before each step, so that no photon gets there.

### 2.5 Geant4Output2EDM4hep

`beginRun`, `endRun`, `begin`, `saveEvent`, `saveCollection` and `commit` are the calls
DDG4 makes; `Failed` is what it does when one throws. Files are functions of their
names, with a section of frames, of run headers and of metadata. All contents carry
the event they came from. Left out: attributes of particles and hits, event and run
parameters other than the run number. In the phase `crashed` the end of a run has written
through a file that is not there (section 6).

### 2.6 LazyLayerInfo and OnceValue

One thread's query is `Start`, `Load`, `New`, `InitLayer` for each layer, `Made` or
`InitThrows`, `Exchange`, `Delete`, `At`, `LookUpNext`, `Return`. Memory is a set of
blocks that are used again once freed, so that a table freed too early would be seen.
Actions are as large as the atomic operations of the code, sequentially consistent as
`std::atomic`'s defaults are. `Destroy` is the destructor, which callers run when no query is
under way. `OnceValue` is the promise to callers, in ten lines.

### 2.7 ModuleThetaMerged

Operators for `cellID`, `cyclicNeighbour`, `neighbours_ModuleThetaMerged` and
`getNeighboursModuleThetaMerged`; integer division and remainder are those of C++. The
state is a readout and a cell, and the step goes to a neighbour, as clustering does.
Extremes of the module field are taken as `0 .. NumModules - 1`, those of theta as the
layer's first and last cell.

### 2.8 DetectorConstruction and the constructors

A constructor is an operator with the name of its file. It takes a compact description,
a record of the attributes the loops use, and yields a record of what is left behind
(`Geometry`): the sensitive volumes, each with its place (the choices of the loops that
placed it), its ids taken together, and where it is; the DetElements with their names and
the place they are put on; the boxes with the slices placed in them; the neighbours; the
layers and extents of the reconstruction data. A check of the code that throws leaves
`Thrown`, nothing. `DetectorConstruction` has an action for each family, and its state is
the constructor called and what it left.

Constructors of a family are copies of one another, changed a little at a time. The
module has the common loops once (`Endcap`, `Barrel`, `TileBarrel`, ...), with a record
`v` that says in what a version differs, so that each version is a line or two and the
differences can be read off. A mapping entry names the lines of its version.

All lengths are integers and doubled, so that middles are integers too. Positions are in
the one direction the loops add up in (radius or z) and along it; the angle a module is
turned to is its number. Left out: materials, radiation lengths (added up where the
thicknesses are), the trigonometry of sides and inclinations, shapes across the stack,
visual attributes, and passive supports unless something is measured from them. A yoke is
described by one `layer` element, as in every compact file: with several, `layering.layer(i)`
would take thicknesses of the one that the i-th layer is in.

Which parts of a turbine are sensitive is up to its compact file: any of the walls of the
cryostat, the support tubes, the absorbers, the glue and cladding, the electrodes and the
gaps may be, alone or with others; each version gives them ids of its own.

A forward calorimeter is built once, along an axis of its own, and placed twice, the second
time turned around: the sides differ in the field `barrel` of the id. The crossing angle
between the axes, the holes for the incoming beam, the radii of single slices of a BeamCal and
the gaps and supports of a LumiCal are left out. The prototypes in test beams stand in one box, add nothing to
the detector's DetElements and record no layers; what is checked of them is that no two
sensitive slices have the same id and that slices fit their layers and these the box.

A vertex detector in detail lists the components of a module: each is sensitive or not, has
material below and above, may be bent out of flat segments, and all may be placed several
times. A sensor is counted in the order it is placed in. The first versions number ladders and
modules, or modules through the whole detector; the last one gives modules of a group one id
and numbers their sensors on, and goes on with the number of a layer id in the next layer
that has it. Supports, and layers and staves marked to be ignored, are left out. The files of
the first versions have one sensor kind in a stave and no groups (`PlainStaves`,
`PlainDisks`), a layer id is given once, with the side (`DistinctOnEachSide`), and modules in
groups have as many sensors as components (`LayersAlike`, `DisksAlike`; section 6).

Compact descriptions are those a constructor accepts: `OneSensitive`, `OneOf`, `InThe` and
`OneTile` say which need one sensitive slice or slices as thick as their chamber. For each
family a predicate (`IsDiscFile`, `IsStaveFile`, ...) says what any compact file of it is
taken to be, and an assumption of the same name that the files of a run are such
(`DiscFilesAssumption`, ...): the theorems are about every file of which the predicate holds,
of any size. Section 4 lists what they ask for beyond types.

The properties name the constructors of which they do not hold (`NotTurned`,
`WrongRecords`, `WrongLayerData`, ...), each with what is different in it; section 6 lists
them with lines. They are old versions, kept beside their corrected successors, or
differences of convention that the reconstruction of that detector expects.

## 3. What is checked

| Run | States | Bounds | Shows |
|---|---|---|---|
| `SciFiOneRun` | 128 192 | 2 track ids, 2 photons in all, 3 steps each, 2 events, 1 run, escaped photons killed or not | every death is counted once, in its event; totals, histograms and frames agree with the deaths and crossings; detected means crossed into the readout; hits are detected; killed photons are never "non-captured" |
| `SciFiFoldTwice` | violated | 1 track, 2 photons, 2 steps, 2 runs | finding 1 |
| `TPC` | 385 924 | 2 tracks, 2 rows, 2 events of 3 steps, energy 0 or 1, low-pt steps treated or not | nothing is counted twice, and no energy is lost or attributed to another event, track, row or path |
| `TPCStopped` | violated | 2 tracks, 2 rows, 1 event, default setting | finding 2 |
| `DRTubes` | 6 849 | mirrored barrel fibres, endcap fibres with equal numbers, 2 tracks, 2 bins, 2 deposits | light is in the right hit and bin, drawn once, and in the barrel only from reflections |
| `FiberDRCalo` | 519 946 | fibre of 5 hops, safety of 1, 2 photons, 1 or 2 events, a turn, a change of surface, 4 interaction lengths | counts, times, absorption and transport agree with following every hop |
| `FiberDRCaloNextEvent` | violated | the same id in two events | finding 3 |
| `DRCOutput` | 929 551 | 3 events in up to 2 runs, one collection of each kind, 5 configurations | frames hold one event, hits have their particle, committed events stay, finished files are complete |
| `LazyLayerInfo` | 156 320 | 2 threads, 3 blocks, 2 layers and one that is not there, 3 cells, one without a table | memory safety, no leak, a query returns, refinement of `OnceValue` |
| `ModuleThetaMerged` | 1 000 | 4 readouts of 4 layers and 12 modules, every cell | neighbours and crosstalk are what position says |
| `ModuleThetaSeam` | violated | the same | finding 4 |
| `Construction` | 506 | 2 to 3 layers, asymmetric stacks, even and odd numbers of modules, every constructor | ids, DetElements, slices, neighbours, the other side and reconstruction data agree with what was placed |

Why these bounds are enough to be worth something:

- *SciFi*: two photons in one event or in two, so that one can disturb the other and an
  event can find what the one before it left; three steps take a photon through a
  crossing, a reflection with its zero-length return (which does not count) and its
  death; an event may have no photon, or only an optical primary.
- *TPC*: three steps fill a row or path, hand it to a second track and end it; with two
  events something left over is found by the next.
- *DRTubes*: column numbers with either sign and at the limits of their fields, fibres
  that differ in one number only, and two tracks in two bins in either order.
- *FiberDRCalo*: the fibre is just long enough for three reflections (the model needs
  three), one hop to spare and the safety margin; interaction lengths end the photon in
  the next hop, in the margin, before the end and never. Stray states of the boundary
  process are those other photons leave.
- *Output*: two events in one run and one in another, so that a failed event is followed
  by one in the same and in the next run.
- *LazyLayerInfo*: with two threads every race of one exchange occurs; a third block lets
  freed memory be used again. The theorems cover any number.
- *Construction*: counters that should go on or start anew differ from the second layer, ring
  or group on, so there are two or three of each, of different sizes; stacks are not
  symmetric, so that a turned one is seen; modules around the beam are even and odd in
  number and at least three, so that the seam is a case of its own; yokes reach beyond the
  eleventh chamber, where the plates change. Each constructor is one step, hence few
  states.
- *ModuleThetaMerged*: two readouts have the merging of the ALLEGRO barrel's, on a smaller
  circle; the others have groups that do not align and differ by a factor of three.

Deadlock is checked where a system cannot stop (`ModuleThetaMerged`). Elsewhere it ends:
a job ends with its last run and a segmentation with its destructor, and bounds end the rest.

**Fairness.** Only `LazyLayerInfo` claims that something happens. `MCSpec` assumes that
one thread, `Runner`, is scheduled again and again (weak fairness of its own steps) and
nothing of the others, which may stop anywhere, in the middle of making a table too. The
code has no lock, so this is all it needs. Sensitive detectors and actions are called
by Geant4 and never wait; the properties about them are safety properties.

## 4. What is proved

The theorems hold for every value of the constants that satisfies the modules'
assumptions; 20 258 obligations. An invariant of a run is seldom inductive: the argument
names what had to be added to it.

| Theorem | Says | Argument |
|---|---|---|
| `SciFiSteppingAction_proofs` `TypeCorrectness` | counters are natural numbers, sets are of tracks, in every job | `StateOK` is inductive, one lemma per action; the photon's place needs `OutcomeTypes`: every outcome of Geant4 ends in a volume or kills |
| `BreakdownsAgree` | all = WLS + primary, in event and run totals | inductive relative to `StateOK`; it rests on a photon's creator not changing between its first step and its death |
| `FramesHoldTheirEvents` | a frame of the merged file holds its own event's crossings, in every job | `AnyJob`: until a run ends the crossings are in `m_allEvents`, then in its frames (`RecordedOK`); entries count nothing before they are made (`RecordsOK`), and the frames of a run are those of its ended events, in order (`FrameOfEachEvent`) |
| `DetectionIsExact` | in a job of one run detected means crossed into the readout, and hits are detected | `ExitsOK`: the exits the next step will find are the crossings of its own event, cleared or not; `DetectedOK` relates them to photons dead and hits made; `OneRunOK`: in one run the event counter never runs ahead |
| `DeathsAreCountedOnce` | in a job of one run each loss counter is the number of photons with that fate | `CountedOK` states it for the counters the next step will find, as a cardinality of the history |
| `KilledPhotonsAreDead` | in a job of one run with `KillEscapedPhotons` no killed photon is absorbed later | `KilledOK`: the escaped tracks the next step will find are dead, and no counter of photons absorbed after escaping has moved |
| `RunTotalsAreComplete` | in a job of one run whose events all have a primary, totals and histograms are those of all events | until the last fold the deaths are the run's totals and the current event's (`TotalsOK`); no event is passed over (`FoldsOK`); histograms are written once, at the end (`HistogramsOK`) |
| `TPCSDAction_proofs` `EnergyNotInvented` | hits and accumulations hold at most what was deposited | inductive with the types of the energies; `EndPathEnergy`: a path is deposited at most once though two tests look at it |
| `DepositsAreAttributed` | the two accumulations are never in use together; deposits always find a valid step of the right track | `OneAccumulation` alone is not inductive: that ending a path clears it needs the previous step to be valid whenever there is a path, hence `PathInv` |
| `LowPtHitsConnected` | a low-pt hit is one connected path of its track | the same invariant |
| `TypeCorrectness` | members, energies and what Geant4 is at keep their types; a step is of a track that has not ended, in a row | inductive; every step's source is an event, track and row because of the part about Geant4 |
| `HitsAreTheirOwn` | without decays in flight a hit holds energy of its event, and with low-pt steps of its track and row | `Owned`: nothing accumulated outlives its event (`AccumulationsOfTheEvent`), and where every step counts a filled pad is of the previous step's track and row (`PadIsOfTheStep`) |
| `EnergyIsNotLost` | without a threshold, low-pt steps treated and no decay in flight, energy is in a hit, accumulated or ignored because the radius of its row is unknown | inductive relative to `Owned`; `EveryStepCounts` is the case of the settings it is about |
| `DRTubesSDAction_proofs` `FibresKeepTheirLight` | each fibre that gave light has one hit, under its own identifier, with all its light | `CopyNumbersSuffice`: unpacking copy numbers gives back the fibre's numbers, negative columns included; `CellsAreDistinct`; then hit by hit |
| `PhotonsDrawnOnce` | no photon's signal is drawn twice, and none going backward is drawn | inductive once strengthened: a photon in a core has not been drawn yet, because the cladding it would have come from kills |
| `BarrelLightReflected` | in the barrel only reflected photons give light | `LightOfPhoton`: light needs the status of a reflection; the status is stale only where a photon is absorbed first, which needs an absorption length, and only the endcap's cores have one |
| `ContributionsAreTheBins` | a hit has one contribution for each bin with light, with all of it and the first track | `TruthInv`: the contributions of a fibre's hit tell the light and the first track of each bin, a bin without one has no light; `BinsApart`: bin middles differ by more than the tolerance, so a search never finds another bin |
| `Geant4Output2EDM4hep_proofs` `TypeCorrect`, `FramesAreOfOneEvent` | a written frame is of one event, has all collections and the particle of every hit, however many events fail half way | `IInv`: `FilesOK` file by file, and what the members hold between `begin` and `commit` is of the current event (`WriterOK`), which fails events leave behind and `begin` clears |
| `CommittedIsKept`, `FinishedIsComplete` | events of a file are in order and stay; a finished file has its run header and metadata, complete | `OrderOK`, `CommittedOK`: only `beginRun` opens a file, and opening is what may replace one |
| `Segmentations_proofs` (`LazyLayerInfo`) `TypeCorrectness`, `MemorySafety`, `NoTableIsLost` | nothing is read but whole tables that are not freed, one for all; memory in use is published or one thread's | `Inv` adds ownership: a table being made is its thread's alone and not the published one; `liv` is the published one wherever it will be used |
| `TableIsChosenOnce` | `LazyLayerInfo` implements `OnceValue` | under `Inv` a successful exchange is `Decide`, `At` is `Get`, returning is `Drop`, all else stutters |
| `Segmentations_proofs` (`ModuleThetaMerged`) `CrosstalkIsThatOfThePlace` | crosstalk neighbours are exactly the cells of the same modules that overlap or are next in theta, with the kind of their place | the step is trivial (`WalkOK`), the state is not: `GroupHolds`, `OneGroup`: rounding finds the only multiple whose group holds a bin; `BesideMeansOverlap`, `EndsMeansNext`: the comparisons of the code are overlap and adjacency of intervals; then inclusion both ways |
| `NeighboursTouch` | neighbours are exactly the cells that touch, around the circle, but for the seam | `ModulesAround` (where rounding of the module before 0 goes), `CyclicIs`, `NextModulesMeansAround`: adjacency around the circle is one of four equations; `FoundModulesTouch` and `TouchingModulesAreFound` are the two directions |
| `FiberDRCalo_proofs` `PhotonsKilledWouldBeAbsorbed`, `HitTimesAreSafe` | a photon killed could not reach the end; the time of one counted is early by the margin and less than a hop | `IInv`: what the model holds of the photon lies on its straight way and was drawn before the same lengths (`Straight`, `SameDraw`), so that a repetition measures a hop and an answer is a `Trip`: hops that fit to the end. It has a form for each client, since one asks after a step (`FibreOK`, `FibreAsked`) and the other before (`WaferOK`, `WaferAsked`); `HopsFit` is the one about division |
| `PhotonsAreInTime` | a moved photon has the time of its way, turns included | inductive relative to `IInv`: `WayGoesOn`, `WayMoved` |
| `PhotonsAreMovedOnce` | between two turns a photon is moved once, safely, and not absorbed after it | `MovedOK`: a photon that was moved is the model's, transported, until it turns; `HopsOK`: two reflections are a hop apart, `TransportedOK` keeps that hop, and `NotAbsorbed`: what `checkNILL` lets pass is longer than a hop |
| `HitsAreOfTheirPhotons` | a hit is the photons counted in its fibre, each once and in its time bin | `CountedOK`: who is counted is not followed any more; `TimeBinIsTheRange`: the bin that is searched is the only one around the time |
| `ModelIsReset` | the model is reset for each photon it is asked about | `ResetOK`: what is the photon's in the model came after its reset |
| `DetectorConstruction_proofs` `ConstructorsMakeWhatThereIs` | what stands is nothing yet, or what one of the constructors makes of a file it takes | `Constructed` is inductive, one step per family; a lemma `..._Makes` for each constructor says which sensors, DetElements and records it leaves, so that what is below can be shown of a family (`EndcapMade`, `StavesMade`, ...) and not of each |
| `CellIdsAreDistinct` | no two sensors have the same cell id, for every compact file (but `MoreThanTheGaps` and `OuterWallIsATube` of the turbines) | per family the ids give back the place: `EndcapCellIds`, `TowersDiffer`, `RowsDiffer`, ...; where a number is counted on through rings, rods or layers, it is a sum (`UpTo`) that grows with what is before it; a number that is the count of places before, in an order, gives back the place (`RankTells`), and with it the group and the place in the group |
| `OtherSideIsAtOppositeZ` | sensors with the same ids but for the side are at opposite z (but for `NotTurned` and `OuterWallIsATube`) | per family a sensor is at its side times something that does not depend on the side |
| `NeighboursAreEntered` | in a barrel the neighbours entered for a surface are the others of its layer that touch it | `StaveSensors`: the sensors of a stave with their places, of whatever number; `NextStaves` is the seam of the barrel; `NeighboursEntered` and `BarrelNeighboursTouch` are the two sides |
| `AbsorbersGrowEvenly` | in a barrel of inclined plates the absorber is as thick at both ends of a piece as one that grows evenly (but for `HeightNotSummed`) | the running height is the sum of the layers before (`UpTo`), `ThicknessBehind` and `WedgeGrows` compare it with the wedge as products, without a division |
| `DetectorRecords_proofs` `RecordsAreOfTheSensors` | what is entered for a layer is so of the sensors placed there (but for `WrongRecords`) | records that say nothing of where sensors are (`Unmeasured`) are true by type; those of trackers are measured against the extent of the sensors of the layer (`Describes`), nearest and farthest named as witnesses |
| `ElementsAreOnTheirSensors` | no two DetElements have the same name, and each sensor (but those for calibration) is in the volume of just one of the lowest level (but for `NotInTheTree`) | the elements of a family are one for each choice of its loops, a finite set whose names give back the choice, so that names are as many as elements; a sensor's place begins with exactly one of the places of the lowest level. Tiles are found by their layer's number: each layer has just one tile of each row, though rows are appended while layers are counted |

Assumptions on constants, all evaluated by TLC in a passing run: bounds are natural
numbers, the sets of tracks are finite, merged groups divide what they merge, fibres have
numbers within the ranges the constructors check (`FibresAssumption`), a block is not the
null pointer; names of collections of different kinds differ (`CollsAssumption`), particles
and hits are sequences of track numbers (`HitsAssumption`), runs and configurations have
their types (`RunsAssumption`); the layer a TPC step outside of all pad rows decodes to is
no row (`OutsideAssumption`: the volume id -1 has 511 in the nine bits of `layer`, and there
are 222 rows); interaction lengths that are drawn are less than `DBL_MAX`, which stands for a
process that is not there (`PhotonsAssumption`).

What the theorems about constructors ask of a compact file beyond types: layers of a tracker
have ids of their own; every disc, ring and ladder that is described has modules, by whose
number the full turn is divided, and the first disc of a TkLayout has rings for the others to
repeat; the sensors of a stave or ladder are whole units apart, and one that is alone is not
shifted (as in every compact file with `nz="1"`); a SET ladder has to cover at least one sensor; a stack has
the sensitive slices its constructor looks for; a chamber, a unit of tiles and the layers of plates are thicker
than nothing, because room is divided by them; the blades of a turbine are a whole
fraction of the least common multiple; chamber and yoke barrels have a natural number of sides, and an
endcap of panels at most ten sectors, since their names have one digit for it (section 6);
of a vertex endcap in detail either the petals or the copies of a stave go around the beam (asserted at `VertexEndcap_detailed_o1_v03` 405), and groups are not empty; upright discs are not more than
their layers name; a group of layers in a prototype is not empty.

Sums and counts over loops are folds in the model. The theorem of the library that would
give induction over them takes an operator, which no installed prover can instantiate; the
proofs take the least number at which a statement fails instead (`LeastNumber`, from the
well-foundedness of the natural numbers), for one partial sum (`UpTo`) after the other.

Hypotheses of single theorems, each needed:

- `MaxRuns = 1` for four theorems of SciFi: with two runs `SciFiFoldTwice` shows them to
  fail (finding 1). `FramesHoldTheirEvents`, `TypeCorrectness` and `BreakdownsAgree` hold for
  any number.
- no "empty" events in `RunTotalsAreComplete`: an event without a step is not noticed (section 6).
- `~ DecaysInFlight` in `HitsAreTheirOwn`: a track that ends in a pad row with momentum left
  hands its energy on. `NoEnergyLost` has that condition in its statement; `EnergyNotInvented` has none.
- `SeveralGroups` in `NeighboursTouch`: where a layer merges all its modules, a cell is its
  own neighbour on either side of the circle and the search returns it. No readout does so.
- `IdsOfEventsDiffer` in the theorems of `FiberDRCalo`: no two events give photons the same
  id. In one event it always holds; over several it is what Geant4 does not grant, and
  `FiberDRCaloNextEvent` shows the reset to fail with equal ids (finding 3). Nothing else is
  assumed of the photons.

Only model-checked:

- liveness (`RunnersQueryReturns`): fairness is outside the prover's reach;
- two properties of `DetectorConstruction`: `SlicesFitTheirStack` and
  `LayerDataDescribeTheLayers`, in which each of some sixty layers' loops adds up the thicknesses
  in its own order, so that a proof is one argument about sums per constructor and not per
  family.

## 5. Findings

Four runs end with a violation: the code does not do what a comment in it says.

1. `SciFiFoldTwice` / `EachEventFoldedOnce`. `plugins/SciFiSteppingAction.cpp:435-438`: each
   event is folded by `beginEvent` "(every event but the first)" or by `endRun` "(the last
   event, which no later beginEvent() catches)". `endRun` does not reset
   `m_currentEventID`; in a job with two runs the first event of the second catches the
   last one of the first again. Where that first event has the same id, it is not noticed
   as new at all. Jobs of one run are not affected: `SciFiOneRun`.
2. `TPCStopped` / `HitsOfOneTrack`. `plugins/TPCSDAction.cpp:208` ends the pad row when a
   "particle stopped in padring", but a stopped particle has no transverse momentum and
   its step is taken for a low-pt one at l.161. With the default
   `TPCLowPtStepLimit = false` that step is ignored, and the energy of the row goes into
   the hit of a later track.
3. `FiberDRCaloNextEvent` / `ResetForEachTrack`. `plugins/FiberDRCaloSDAction.cpp:200` and
   `DRCaloFastSimModel.cpp:63`: "reset when moving to the next track". Track ids start anew
   in each event and nothing resets the model in between, so a photon with the id of the
   last one of the event before inherits its reflections and flags.
4. `ModuleThetaSeam` / `DiagonalNeighboursAreFound`. `detectorCommon/src/DetUtils_k4geo.cpp:207`
   promises diagonal neighbours; for module 0 the remainder at l.264 is that of a negative
   number, which C++ rounds to zero, so that the cells of the last group of a layer that
   merges more modules are missing, although they have this cell as a neighbour. Without
   diagonals, and away from module 0, the search is exact: `ModuleThetaMerged`.

## 6. Observations

Met while modelling; no run is about them.

- SciFi: events without a step leave no entry; `nTotal` of "all photons" does not count WLS
  photons (l.240) although the title at l.552 does not say so; a photon reflected at the
  cladding is marked as escaped (l.280-283); a second run whose first event has the id
  of the last one keeps its set of escaped photons.
- TPC: a crossing of the row's centre with three coordinates below 0.1 is taken for unset
  (l.321), negative ones too; the entrance of a row survives when the row is left without
  a high-pt deposit (l.175). Deposits whose position must be estimated are ignored until
  some track has crossed that row (l.322): early events differ from later ones. `NoEnergyLost` counts these.
- Output: with no output name `commit` throws for each event and the end of the run uses the
  file that is not there (l.329); runs without `FilesByRun` overwrite each other's file;
  the encoding of a DR collection is stored under its own name while its collections are
  written with the suffixes `SimHit`, `TimeStruct` and `WaveLen`; a particle is looked up with
  its id as the index (l.546).
- Lazy tables: where parameters are missing a table of empty layers is kept for good, and
  `neighbours` reads the first element of an empty vector.
- Crosstalk: the search sets layer and theta and leaves the module as it is, so that it names
  cells that do not exist where layers merge different numbers of modules
  (`CrosstalkIsByPosition` claims equal numbers only). Diagonal search below theta bin 0
  is refused by the decoder (`ReadoutsAssumption` excludes it); theta is not limited in
  adjacent layers, as a comment admits.

Constructors, under `detector/`; the set of `DetectorConstruction` that leaves them out of
its property is given. Line numbers are of the file named.

- *Silicon discs* (`WrongRecords`, `NotTurned`): `TrackerEndcap_o2_v04`, `_v05` take a half
  thickness for the half length in the recorded extent (corrected in `_v06`,
  `doc/ReleaseNotes.md:690`), `SiTrackerEndcap_o2_v01ext`, `_v02ext` shift by it.
  `SiTrackerEndcap_o2_v02`, `_v03` do not turn the modules of the other side. With `reflect`
  the encoder is set forward once, before the loop over the neighbours, and backward inside
  it, so that every neighbour of a forward surface after the first is a backward one
  (`TrackerEndcap_o1_v05` 228, 267 and its copies): the neighbours of discs are modelled, the
  property is about barrels.
- *Silicon barrels* (`WrongRecords`): `VertexBarrel_o1_v01` forgets z0 in the half length.
  `ZPlanarTracker` 247 encodes a surface with the number of ladders, which no ladder has,
  as the one whose neighbours are listed, and `ZSegmentedPlanarTracker` lists none;
  `TkLayoutTrackerBarrel_o1_v01` offsets components along y whatever phi. `SET_Simple_Planar`
  297 adds the support outwards even where it is inside.
- *Vertex detectors in detail* (`LayersAlike`): `VertexBarrel_detailed_o1_v03` 346 counts a
  sensitive component once, though it is placed for each of `nx` copies and `nsegments`
  segments, and 631 numbers the sensors of grouped modules on by that count: two of them
  would get one id. No compact file groups modules of such sensors. 749 adds the number a
  layer has come to, which began with the one kept, to the one kept: numbers of a third layer
  with one id begin further on than needed, and are no less distinct.
- *Layered calorimeters* (`WrongLayerData`, `NotInTheTree`): `s_thick / .2` for `/ 2.` in
  `ECalBarrel_o1_v01` 236, `_v02`, `_v03`, `ECalBarrel_o2_v03`, `_v04`; `ECalBarrel_o1_v01`, `_v02`
  enter the layers once for each tower and stack and centre stacks with `(n - 1) / 2`;
  `ECalEndcap_o1_v01`, `SECalEndcap_o1_v01` never enter any, and name a panel by `100 * (3 + j) / 2 + 10 * i + m` (307 and 317), the "unique
  composed panel ID", which two panels share from eleven sectors on (the drivers are for
  four, but the check of `ECalEndcap_o1_v01` 98 refuses a file only if outer and inner
  symmetry are both wrong); clones of the SteppedMuon
  drivers are not in the tree. What `distance` is differs from driver to driver
  (`doc/ReleaseNotes.md:1365`).
- *Chambers* (`WrongLayerData`): `Hcal_Barrel_SD_v01` 338, `_v02` 425 and
  `SHcalSc04_Barrel_v02` 301 record the mirror image of the distance; `SHcalSc04_Barrel_v03`
  514 leaves out the stair; `SHcalSc04_EndcapRing` ends at `max_z` (381) and the records begin at
  `min_z`.
- *Yokes* (`WrongPlate`, `WrongLayerData`, `NotInTheTree`): `Yoke05_Barrel` 287 takes the plate
  before the eleventh chamber for a thick one, 46 cm; the body of the endcaps is placed
  1 mm behind where the layers are said to begin (351 and 314); chambers hang beside their
  modules.
- *Turbines* (`FirstTurbines`, `MoreThanTheGaps`, `OuterWallIsATube`): in `_v01`, `_v02` volumes
  in one another have the same ids when more than the gaps are sensitive, and the outermost
  tube is outside the bath: corrected in `_v03` (`doc/ReleaseNotes.md:320-326`). In `_v02` 597
  and `_v03` 737 the outer wall of the cryostat has type 8, which the three bits of the
  readouts' `type` make 0: when it and the first support tube are sensitive they share an id.
- *Noble liquid* (`HeightNotSummed`, `InADisc`): `ECalBarrel_..._o1_v03` 378-388 no longer adds
  to `runningHeight`, so that the absorber never gets thicker, though the comment above
  says it is rescaled by it; `distance` is the outer face in `_v01`, `_v02`, the inner in
  `_v03`; `CaloDiscs` numbers what is in an absorber towards +z on both sides.
- *Tiles* (`RowsUnderThePlate`, `PlatesInTheLayers`, `NotTurned`): rows of `HCalTileBarrel_o1_v01`
  185 begin at the end plate's face (corrected in `_v02` 204, `doc/ReleaseNotes.md:249`);
  `HCalTileExtBarrel_o1_v01` and `HCalThreePartsEndcap_o1_v01` do not mirror the other side
  (corrected, `doc/ReleaseNotes.md:408`), and end plates are in the room of their layers;
  in `HCalThreePartsEndcap_o1_v02` 648-691 the `distance` of a pseudo-layer is the z the
  segmentation gives, which is relative to the middle of the first volume of a row
  (`FCCSWHCalPhiRow_k4geo.cpp:69`), and not "z-position of the pseudoLayer"; the property
  is about the thickness of those layers only.

## 7. Not modelled

- *Other constructors* (drift chambers, straw tubes, ARC, SciFi and dual-readout
  calorimeters, FTD, VXD, muon systems, supports, beam pipes, `LumiCal_o1_v02`, whose layers are
  commented out): meshes, twisted
  and trapezoidal shapes, cell sizes from trigonometry; the few numbers that plugins rely
  on (copy numbers, volumes, pad rows) are in the plugins' modules. *Compact data, field
  maps, meshes*: data.
- *Angles and materials of the modelled constructors*: see 2.8.
- *Segmentations by position, `WireTracker_info`*: floating point arithmetic without state.
- *Dual-readout fibre grid*: the parameters of a tower are trigonometry; that one object
  holds those of the tower asked for last is the only state, and every method asks for its
  tower first.
- *SCEPCal and preshower actions, sorting policy*: small and without state but their
  collections.
- *Physics*: light yields, attenuation, wavelengths are chosen from small sets.
- *The file system* in the SciFi merge; *threads* in the output action: the steering files
  run one thread (`example/SteeringFile_IDEA_o1_v03.py:454` makes the action shared).
- *Scripts, tests, installed copies*: read for how plugins are configured.

## 8. What could follow

The components that keep state, and the constructors whose loops are counters and sums, are
modelled. What would add most next:

1. An abstract ledger for SciFi (each photon has one fate; totals are sums) that
   `SciFiSteppingAction` implements in a job of one run; the merge with the file system:
   copy, remove, rename, and a crash between any two.
2. Neighbours of the other readouts of `DetUtils`, and the HCal segmentations' row
   neighbours, against position as in `ModuleThetaMerged`; together with the rows that
   `HcalTiles` places.
3. `GridDRcalo`: tower parameters as a shared variable, two threads; a pure function of the
   cell as its abstract specification.
4. The FTD and VXD constructors, as `DetectorConstruction` has the others.

Proofs: what is left of `DetectorConstruction` (section 4); the abstract ledger of SciFi as a
refinement.
