-------------------------- MODULE DRTubesSDAction --------------------------
(***************************************************************************)
(* plugins/DRTubesSDAction.cpp: the sensitive detector of the dual-readout *)
(* tubes calorimeter.  It knows the fibre of a step by the copy numbers    *)
(* its volumes were placed with, turns energy deposits of charged          *)
(* particles in scintillating fibres and reflections of optical photons in *)
(* Cherenkov fibres into photo-electrons, and collects these in one hit    *)
(* per fibre with one contribution per time bin.                           *)
(*                                                                         *)
(* Geant4 is the environment: steps of charged and neutral particles, and  *)
(* one optical photon followed at a time.                                  *)
(***************************************************************************)
EXTENDS Integers, Sequences, FiniteSets, FiniteSetsExt

CONSTANTS
  Tracks,         \* ids of Geant4 tracks
  Fibres,         \* fibres the geometry places (see Fibre)
  NbOfZRot,       \* staves of one endcap
  MaxSignal,      \* photo-electrons of one step
  Arrivals,       \* arrival times at the SiPM
  TimeBinWidth,   \* property "PhotonsTimeBinWidth"
  DefaultWidth,   \* 0.1 ns
  Tolerance,      \* 0.0001 ns: contributions this close are the same
  MaxDeposits     \* bound: steps of charged and neutral particles

(***************************************************************************)
(* A fibre, by the numbers the constructors give it.  Endcap towers are    *)
(* numbered below 63, columns from 0, and CalcCpNo32bits refuses more than *)
(* 12 bits; barrel columns are negative on one side of the tower, towers   *)
(* in the backward half.                                                   *)
(***************************************************************************)
Below(m) == {k \in Nat : k < m}
Within(m) == {k \in Int : -m <= k /\ k < m}

Endcap ==
  [det : {"endcap"}, stave : Below(2 * NbOfZRot), tower : Below(63),
   col : Below(4096), row : Below(4096), cherenkov : {0, 1}]

Barrel ==
  [det : {"barrel"}, stave : Below(1024), tower : Within(128),
   col : Within(32768), row : Below(65536), cherenkov : {0, 1}]

Fibre == Endcap \cup Barrel

NoTrack == "no track"

ASSUME FibresAssumption ==
  /\ NbOfZRot \in 1 .. 512
  /\ \A f \in Fibres : f \in Endcap \/ f \in Barrel
ASSUME ReadoutAssumption ==
  /\ NoTrack \notin Tracks
  /\ MaxSignal \in Nat /\ Arrivals \subseteq Nat
  /\ TimeBinWidth \in Int /\ DefaultWidth \in Nat \ {0}
  /\ Tolerance \in Nat \ {0}
  /\ MaxDeposits \in Nat

VARIABLES
  hits,       \* the hit collections: cell -> hit
  boundary,   \* status of Geant4's boundary process, stale until its next call
  photon,     \* optical photon being followed, in a Cherenkov fibre
  emitted,    \* photons followed so far
  deposits,   \* steps of other particles so far
  \* History: light that reached the SiPM, by fibre and by time bin; the first
  \* track that gave it; draws of a signal for each photon; photons seen
  \* travelling away from the SiPM; light of photons not reflected in the step.
  given, light, first, draws, backward, untrapped

geantVars == <<boundary, photon, emitted, deposits>>
historyVars == <<given, light, first, draws, backward, untrapped>>
vars == <<hits, geantVars, historyVars>>

NoPhoton == [vol |-> "none"]

InFlight == photon.vol # "none"

-----------------------------------------------------------------------------
(***************************************************************************)
(* Copy numbers, as the constructors place the volumes: of the core or     *)
(* cladding itself (depth 0), the tube (2) and what it is placed in.       *)
(***************************************************************************)
VolumeCopyNo(f, vol) == IF vol = "core" THEN 2 + f.cherenkov ELSE 1

\* (col << 16) | row, in two's complement.
TubeID(f) == 65536 * f.col + f.row

AirCopyNo == 63

CopyNumber(f) ==
  IF f.det = "endcap" THEN <<"capillary", TubeID(f), f.tower, f.stave>>
  ELSE <<"capillary", TubeID(f), AirCopyNo, f.tower, f.stave>>

\* The identifier DD4hep gives the core from the numbers of its placements.
PhysVolID(f) ==
  [system |-> IF f.det = "endcap" THEN 25 ELSE 28, stave |-> f.stave,
   tower |-> f.tower, air |-> IF f.det = "endcap" THEN 0 ELSE 63,
   col |-> f.col, row |-> f.row, core |-> 1, cherenkov |-> f.cherenkov]

\* Staves of the right endcap come first; z is positive in it.
IsRight(f) == f.stave < NbOfZRot

-----------------------------------------------------------------------------
(***************************************************************************)
(* What process() reads back from the copy numbers n of a step.            *)
(***************************************************************************)
CherenkovID(cpNo) == cpNo % 2

\* Mutant: the bit of "cherenkov" is taken for the one of "core".
CoreIDFirstBit(cpNo) == cpNo % 2

CoreID(cpNo) == (cpNo \div 2) % 2

IsBarrel(n) == n[3] = AirCopyNo

\* Mutant: the column is read as an unsigned number of 8 bits.
ColumnIDTruncated(n) == (n[2] \div 65536) % 256

ColumnID(n) == n[2] \div 65536

RowID(n) == n[2] % 65536

VolID(n, cpNo) ==
  [system |-> IF IsBarrel(n) THEN 28 ELSE 25,
   stave |-> IF IsBarrel(n) THEN n[5] ELSE n[4],
   tower |-> IF IsBarrel(n) THEN n[4] ELSE n[3],
   air |-> IF IsBarrel(n) THEN 63 ELSE 0,
   col |-> ColumnID(n), row |-> RowID(n),
   core |-> CoreID(cpNo), cherenkov |-> CherenkovID(cpNo)]

Collection(n, cpNo, right) ==
  IF IsBarrel(n)
  THEN IF CherenkovID(cpNo) = 0 THEN "DRBTScin" ELSE "DRBTCher"
  ELSE IF CherenkovID(cpNo) = 0
       THEN IF right THEN "DRETScinRight" ELSE "DRETScinLeft"
       ELSE IF right THEN "DRETCherRight" ELSE "DRETCherLeft"

\* Cell of a hit: its collection and key.
Cell(f, vol) ==
  LET n == CopyNumber(f)
      cpNo == VolumeCopyNo(f, vol)
  IN <<Collection(n, cpNo, IsRight(f)), VolID(n, cpNo)>>

-----------------------------------------------------------------------------
(***************************************************************************)
(* The signal of a step s, and whether the photon that made it is killed.  *)
(* s.signal is the outcome of the smearing and the attenuation, s.forward  *)
(* that the photon ends the step nearer to the SiPM.                       *)
(***************************************************************************)
CpNo(s) == VolumeCopyNo(s.fibre, s.vol)

IsScin(s) == CherenkovID(CpNo(s)) = 0

IsCherClad(s) == CoreID(CpNo(s)) = 0

Scintillates(s) == s.edep > 0 /\ s.particle = "charged" /\ s.length > 0

\* Mutant: any photon that reaches the surface of the core counts.
AnyBoundary(s) == s.particle = "optical" /\ s.forward

Reflected(s) ==
  /\ s.particle = "optical"
  /\ s.status = "TotalInternalReflection"
  /\ s.forward

Signal(s) ==
  IF IsScin(s) THEN IF Scintillates(s) THEN s.signal ELSE 0
  ELSE IF ~ IsCherClad(s) /\ Reflected(s) THEN s.signal ELSE 0

\* Mutant: the cladding lets photons through.
KillsOnlyInCore(s) ==
  /\ s.particle = "optical" /\ ~ IsScin(s)
  /\ s.status # "TotalInternalReflection" \/ Signal(s) > 0
  /\ ~ IsCherClad(s)

Kills(s) ==
  /\ s.particle = "optical" /\ ~ IsScin(s)
  /\ \/ IsCherClad(s)
     \/ s.status # "TotalInternalReflection"
     \/ Signal(s) > 0

-----------------------------------------------------------------------------
(***************************************************************************)
(* The hit: created with one contribution, or added to, in the first       *)
(* contribution whose time is within the tolerance or in a new one.        *)
(***************************************************************************)
Width == IF TimeBinWidth =< 0 THEN DefaultWidth ELSE TimeBinWidth

Bin(time) == (time \div Width) * Width

Distance(a, b) == IF a < b THEN b - a ELSE a - b

Contribution(t, n, bin) == [trackID |-> t, deposit |-> n, time |-> bin]

\* Contributions of a hit that match a bin.
Matching(truth, bin) == {i \in DOMAIN truth : Distance(truth[i].time, bin) < Tolerance}

\* Mutant: every step makes a contribution of its own.
AlwaysAppended(truth, t, n, bin) == Append(truth, Contribution(t, n, bin))

Contributed(truth, t, n, bin) ==
  IF Matching(truth, bin) = {} THEN Append(truth, Contribution(t, n, bin))
  ELSE [truth EXCEPT ![Min(Matching(truth, bin))].deposit = @ + n]

NewHit(t, n, bin) == [energyDeposit |-> n, truth |-> <<Contribution(t, n, bin)>>]

AddedTo(h, t, n, bin) ==
  [energyDeposit |-> h.energyDeposit + n, truth |-> Contributed(h.truth, t, n, bin)]

\* hits with n photo-electrons of track t more in the given cell.
WithSignal(cell, t, n, bin) ==
  [c \in DOMAIN hits \cup {cell} |->
     IF c # cell THEN hits[c]
     ELSE IF cell \in DOMAIN hits THEN AddedTo(hits[cell], t, n, bin)
     ELSE NewHit(t, n, bin)]

process(s) ==
  LET n == Signal(s)
      bin == Bin(s.arrival)
  IN
  /\ hits' = IF n > 0 THEN WithSignal(Cell(s.fibre, s.vol), s.track, n, bin)
             ELSE hits
  /\ given' = [given EXCEPT ![s.fibre] = @ + n]
  /\ light' = [light EXCEPT ![s.fibre][bin] = @ + n]
  /\ first' = IF n > 0 /\ first[s.fibre][bin] = NoTrack
              THEN [first EXCEPT ![s.fibre][bin] = s.track] ELSE first

-----------------------------------------------------------------------------
(***************************************************************************)
(* Geant4.                                                                 *)
(***************************************************************************)
Bins == {Bin(a) : a \in Arrivals}

Init ==
  /\ hits = << >>
  /\ boundary = "Undefined"
  /\ photon = NoPhoton /\ emitted = {} /\ deposits = 0
  /\ given = [f \in Fibres |-> 0]
  /\ light = [f \in Fibres |-> [b \in Bins |-> 0]]
  /\ first = [f \in Fibres |-> [b \in Bins |-> NoTrack]]
  /\ draws = [t \in Tracks |-> 0]
  /\ backward = {} /\ untrapped = {}

\* Sensitive volumes: the cores, and the claddings of Cherenkov fibres.
Sensitive(f, vol) == vol = "core" \/ f.cherenkov = 1

\* Steps of particles that are not optical photons.
OtherSteps ==
  [track : Tracks, particle : {"charged", "neutral"}, fibre : Fibres,
   vol : {"core", "clad"}, edep : {0, 1}, length : {0, 1},
   signal : 0 .. MaxSignal, arrival : Arrivals]

OtherStep(s) ==
  /\ ~ InFlight /\ deposits < MaxDeposits
  /\ Sensitive(s.fibre, s.vol)
  /\ process(s)
  /\ deposits' = deposits + 1
  /\ UNCHANGED <<boundary, photon, emitted, draws, backward, untrapped>>

EmitPhoton(t, f, vol) ==
  /\ ~ InFlight /\ t \notin emitted /\ f.cherenkov = 1
  /\ photon' = [id |-> t, fibre |-> f, vol |-> vol]
  /\ emitted' = emitted \cup {t}
  /\ UNCHANGED <<hits, boundary, deposits, historyVars>>

\* Only the material of the endcap's Cherenkov cores has an absorption length.
Absorbs(f) == f.det = "endcap"

(***************************************************************************)
(* A step of the photon.  The boundary process is not called when the      *)
(* photon is absorbed before it: its status then stays what it was.  A     *)
(* reflected photon's next, zero-length, step is in the volume it was      *)
(* reflected from.                                                         *)
(***************************************************************************)
StatusAfter(outcome) ==
  CASE outcome = "absorbed" -> {boundary}
    [] outcome = "reflected" -> {"TotalInternalReflection"}
    [] OTHER -> {"FresnelRefraction", "StepTooSmall"}

PhotonSteps(p, outcome) ==
  [track : {p.id}, particle : {"optical"}, fibre : {p.fibre}, vol : {p.vol},
   status : StatusAfter(outcome), forward : BOOLEAN, signal : 0 .. MaxSignal,
   arrival : Arrivals]

PhotonStep(outcome, s) ==
  /\ outcome = "absorbed" => Absorbs(photon.fibre)
  /\ boundary' = s.status
  /\ process(s)
  /\ photon' = IF outcome = "absorbed" \/ Kills(s) THEN NoPhoton
               ELSE [photon EXCEPT !.vol = IF @ = "core" THEN "clad" ELSE "core"]
  /\ draws' = IF s.vol = "core" /\ Reflected(s)
              THEN [draws EXCEPT ![photon.id] = @ + 1] ELSE draws
  /\ backward' = IF s.vol = "core" /\ ~ s.forward
                 THEN backward \cup {photon.id} ELSE backward
  /\ untrapped' = IF outcome # "reflected" /\ Signal(s) > 0
                  THEN untrapped \cup {photon.fibre} ELSE untrapped
  /\ UNCHANGED <<emitted, deposits>>

Next ==
  \/ \E s \in OtherSteps : OtherStep(s)
  \/ \E t \in Tracks, f \in Fibres, vol \in {"core", "clad"} : EmitPhoton(t, f, vol)
  \/ /\ InFlight
     /\ \E outcome \in {"absorbed", "reflected", "passes"} :
          \E s \in PhotonSteps(photon, outcome) : PhotonStep(outcome, s)

Spec == Init /\ [][Next]_vars

-----------------------------------------------------------------------------
(***************************************************************************)
(* Properties.                                                             *)
(***************************************************************************)
\* The cells of the fibres, by what the constructors placed.
CellOf(f) ==
  <<CASE f.det = "barrel" /\ f.cherenkov = 0 -> "DRBTScin"
      [] f.det = "barrel" /\ f.cherenkov = 1 -> "DRBTCher"
      [] f.det = "endcap" /\ f.cherenkov = 0 /\ IsRight(f) -> "DRETScinRight"
      [] f.det = "endcap" /\ f.cherenkov = 0 /\ ~ IsRight(f) -> "DRETScinLeft"
      [] f.det = "endcap" /\ f.cherenkov = 1 /\ IsRight(f) -> "DRETCherRight"
      [] f.det = "endcap" /\ f.cherenkov = 1 /\ ~ IsRight(f) -> "DRETCherLeft",
    PhysVolID(f)>>

(***************************************************************************)
(* The copy numbers are enough: there is a hit for exactly the fibres that *)
(* gave light, filed in the collection of its part of the detector under   *)
(* the identifier DD4hep gives its core, and it holds all of its light.    *)
(***************************************************************************)
HitsAreTheFibresLight ==
  /\ DOMAIN hits = {CellOf(f) : f \in {g \in Fibres : given[g] > 0}}
  /\ \A f \in Fibres : CellOf(f) \in DOMAIN hits =>
       hits[CellOf(f)].energyDeposit = given[f]

(***************************************************************************)
(* A hit has one contribution for each time bin that has light in it,      *)
(* with that light and the track that was first to give it, whatever the   *)
(* order in which tracks and bins come.                                    *)
(***************************************************************************)
OneContributionPerBin ==
  Width >= Tolerance =>
    \A f \in Fibres : CellOf(f) \in DOMAIN hits =>
      LET truth == hits[CellOf(f)].truth IN
      /\ \A i, j \in DOMAIN truth : truth[i].time = truth[j].time => i = j
      /\ \A i \in DOMAIN truth :
           /\ truth[i].deposit = light[f][truth[i].time]
           /\ truth[i].trackID = first[f][truth[i].time]

(***************************************************************************)
(* A reflected photon that drew no signal is not killed, yet no photon     *)
(* draws a second one: its next step is in the cladding, which kills it.   *)
(***************************************************************************)
EachPhotonDrawnOnce == \A t \in Tracks : draws[t] =< 1

\* A photon once seen travelling to the inner tip is not drawn: it is the
\* cladding that kills it.
BackwardPhotonsGiveNoLight == \A t \in backward : draws[t] = 0

\* In the barrel, where no photon is absorbed, only a reflected one gives
\* light.  (In the endcap an absorbed one may, by the status of the last.)
BarrelLightIsReflected == \A f \in untrapped : f.det # "barrel"
=============================================================================
