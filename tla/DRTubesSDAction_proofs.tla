----------------------- MODULE DRTubesSDAction_proofs -----------------------
(***************************************************************************)
(* Proofs about DRTubesSDAction, for every set of fibres and tracks.       *)
(***************************************************************************)
EXTENDS DRTubesSDAction, SequenceTheorems, TLAPS

-----------------------------------------------------------------------------
(***************************************************************************)
(* Copy numbers identify fibres.                                           *)
(***************************************************************************)
\* Column and row are read back from a tube's copy number, negative columns
\* included.
LEMMA UnpackTubeID ==
  ASSUME NEW col \in Int, NEW row \in Below(65536)
  PROVE  /\ (65536 * col + row) \div 65536 = col
         /\ (65536 * col + row) % 65536 = row
BY DEF Below

\* The numbers of a fibre, and that they are all there is of it.
LEMMA EndcapNumbers ==
  ASSUME NEW f \in Endcap
  PROVE  /\ f.det = "endcap" /\ f.tower \in Nat \ {63} /\ f.cherenkov \in {0, 1}
         /\ f.col \in Int /\ f.row \in Below(65536)
BY DEF Endcap, Below

LEMMA BarrelNumbers ==
  ASSUME NEW f \in Barrel
  PROVE  /\ f.det = "barrel" /\ f.cherenkov \in {0, 1}
         /\ f.col \in Int /\ f.row \in Below(65536)
BY DEF Barrel, Below, Within

LEMMA FibreIsItsNumbers ==
  ASSUME NEW f \in Endcap \cup Barrel
  PROVE  f = [det |-> f.det, stave |-> f.stave, tower |-> f.tower,
              col |-> f.col, row |-> f.row, cherenkov |-> f.cherenkov]
<1>1. CASE f \in Endcap
  BY <1>1 DEF Endcap
<1>2. CASE f \in Barrel
  BY <1>2 DEF Barrel
<1>3. QED
  BY <1>1, <1>2

LEMMA FibreNumbers ==
  ASSUME NEW f \in Fibres
  PROVE  /\ f \in Endcap \/ f \in Barrel
         /\ f.cherenkov \in {0, 1}
<1>1. f \in Endcap \/ f \in Barrel
  BY FibresAssumption
<1>2. QED
  BY <1>1, EndcapNumbers, BarrelNumbers

LEMMA CoreBits ==
  ASSUME NEW f \in Fibres
  PROVE  /\ CherenkovID(VolumeCopyNo(f, "core")) = f.cherenkov
         /\ CoreID(VolumeCopyNo(f, "core")) = 1
         /\ CherenkovID(VolumeCopyNo(f, "clad")) = 1
         /\ CoreID(VolumeCopyNo(f, "clad")) = 0
<1>1. f.cherenkov \in {0, 1}
  BY FibreNumbers
<1>2. VolumeCopyNo(f, "core") = 2 + f.cherenkov /\ VolumeCopyNo(f, "clad") = 1
  BY DEF VolumeCopyNo
<1>3. QED
  BY <1>1, <1>2 DEF CherenkovID, CoreID

\* What process() reads back from the copy numbers is what the constructors
\* placed.
LEMMA CopyNumbersSuffice ==
  ASSUME NEW f \in Fibres
  PROVE  Cell(f, "core") = CellOf(f)
<1> DEFINE n == CopyNumber(f)
           cpNo == VolumeCopyNo(f, "core")
<1>1. CherenkovID(cpNo) = f.cherenkov /\ CoreID(cpNo) = 1
  BY CoreBits
<1>2. f.cherenkov \in {0, 1}
  BY FibreNumbers
<1>3. CASE f \in Endcap
  <2>1. /\ f.det = "endcap" /\ f.tower \in Nat \ {63}
        /\ f.col \in Int /\ f.row \in Below(65536)
    BY <1>3, EndcapNumbers
  <2>2. n[2] = TubeID(f) /\ n[3] = f.tower /\ n[4] = f.stave
    BY <2>1 DEF CopyNumber
  <2>3. ~ IsBarrel(n)
    BY <2>1, <2>2 DEF IsBarrel, AirCopyNo
  <2>4. ColumnID(n) = f.col /\ RowID(n) = f.row
    BY <2>1, <2>2, UnpackTubeID DEF ColumnID, RowID, TubeID
  <2>5. VolID(n, cpNo) = PhysVolID(f)
    BY <1>1, <2>1, <2>2, <2>3, <2>4 DEF VolID, PhysVolID
  <2>6. Collection(n, cpNo, IsRight(f)) = CellOf(f)[1]
    <3>1. CASE f.cherenkov = 0 /\ IsRight(f)
      BY <1>1, <2>1, <2>3, <3>1 DEF Collection, CellOf
    <3>2. CASE f.cherenkov = 0 /\ ~ IsRight(f)
      BY <1>1, <2>1, <2>3, <3>2 DEF Collection, CellOf
    <3>3. CASE f.cherenkov = 1 /\ IsRight(f)
      BY <1>1, <2>1, <2>3, <3>3 DEF Collection, CellOf
    <3>4. CASE f.cherenkov = 1 /\ ~ IsRight(f)
      BY <1>1, <2>1, <2>3, <3>4 DEF Collection, CellOf
    <3>5. QED
      BY <1>2, <3>1, <3>2, <3>3, <3>4
  <2>7. QED
    BY <2>5, <2>6 DEF Cell, CellOf
<1>4. CASE f \in Barrel
  <2>1. f.det = "barrel" /\ f.col \in Int /\ f.row \in Below(65536)
    BY <1>4, BarrelNumbers
  <2>2. n[2] = TubeID(f) /\ n[3] = AirCopyNo /\ n[4] = f.tower /\ n[5] = f.stave
    BY <2>1 DEF CopyNumber
  <2>3. IsBarrel(n)
    BY <2>2 DEF IsBarrel
  <2>4. ColumnID(n) = f.col /\ RowID(n) = f.row
    BY <2>1, <2>2, UnpackTubeID DEF ColumnID, RowID, TubeID
  <2>5. VolID(n, cpNo) = PhysVolID(f)
    BY <1>1, <2>1, <2>2, <2>3, <2>4 DEF VolID, PhysVolID
  <2>6. Collection(n, cpNo, IsRight(f)) = CellOf(f)[1]
    <3>1. CASE f.cherenkov = 0
      BY <1>1, <2>1, <2>3, <3>1 DEF Collection, CellOf
    <3>2. CASE f.cherenkov = 1
      BY <1>1, <2>1, <2>3, <3>2 DEF Collection, CellOf
    <3>3. QED
      BY <1>2, <3>1, <3>2
  <2>7. QED
    BY <2>5, <2>6 DEF Cell, CellOf
<1>5. QED
  BY <1>3, <1>4, FibreNumbers

\* No two fibres share a hit.
LEMMA CellsAreDistinct ==
  ASSUME NEW f \in Fibres, NEW g \in Fibres, CellOf(f) = CellOf(g)
  PROVE  f = g
<1>1. PhysVolID(f) = PhysVolID(g)
  BY DEF CellOf
<1>2. /\ f.stave = g.stave /\ f.tower = g.tower /\ f.col = g.col
      /\ f.row = g.row /\ f.cherenkov = g.cherenkov
  BY <1>1 DEF PhysVolID
<1>3. f.det = "endcap" <=> g.det = "endcap"
  BY <1>1 DEF PhysVolID
<1>4. (f \in Endcap => f.det = "endcap") /\ (f \in Barrel => f.det = "barrel")
  BY EndcapNumbers, BarrelNumbers
<1>5. (g \in Endcap => g.det = "endcap") /\ (g \in Barrel => g.det = "barrel")
  BY EndcapNumbers, BarrelNumbers
<1>6. f.det = g.det
  BY <1>3, <1>4, <1>5, FibreNumbers
<1>7. f \in Endcap \cup Barrel /\ g \in Endcap \cup Barrel
  BY FibreNumbers
<1>8. QED
  BY <1>2, <1>6, <1>7, FibreIsItsNumbers, Zenon

-----------------------------------------------------------------------------
(***************************************************************************)
(* Light.  The invariant holds hit by hit of the fibre's light.            *)
(***************************************************************************)
LightInv ==
  /\ given \in [Fibres -> Nat]
  /\ HitsAreTheFibresLight

\* The light a step gives, and that only a step in a core gives any.
LEMMA SignalOfCore ==
  ASSUME NEW s, s.fibre \in Fibres, s.vol \in {"core", "clad"},
         s.signal \in 0 .. MaxSignal
  PROVE  /\ Signal(s) \in Nat
         /\ Signal(s) > 0 => s.vol = "core"
<1>1. Signal(s) \in {0, s.signal}
  BY DEF Signal
<1>2. CASE s.vol = "clad"
  <2>1. ~ IsScin(s) /\ IsCherClad(s)
    BY <1>2, CoreBits DEF IsScin, IsCherClad, CpNo
  <2>2. QED
    BY <2>1 DEF Signal
<1>3. QED
  BY <1>1, <1>2, ReadoutAssumption

LEMMA ProcessLight ==
  ASSUME LightInv, NEW s, s.fibre \in Fibres, s.vol \in {"core", "clad"},
         s.signal \in 0 .. MaxSignal, process(s)
  PROVE  LightInv'
<1> DEFINE n == Signal(s)
           f == s.fibre
           bin == Bin(s.arrival)
<1>1. n \in Nat /\ (n > 0 => s.vol = "core")
  BY SignalOfCore
<1>2. given' = [given EXCEPT ![f] = @ + n]
  BY DEF process
<1>3. given' \in [Fibres -> Nat]
  BY <1>1, <1>2 DEF LightInv
<1>4. CASE n = 0
  <2>1. hits' = hits /\ given' = given
    BY <1>2, <1>4 DEF process, LightInv
  <2>2. QED
    BY <1>3, <2>1 DEF LightInv, HitsAreTheFibresLight
<1>5. CASE n > 0
  <2> DEFINE cell == CellOf(f)
  <2>1. hits' = WithSignal(cell, s.track, n, bin)
    BY <1>1, <1>5, CopyNumbersSuffice DEF process
  <2>2. DOMAIN hits' = DOMAIN hits \cup {cell}
    BY <2>1 DEF WithSignal
  <2>3. \A g \in Fibres : given'[g] = IF g = f THEN given[g] + n ELSE given[g]
    BY <1>2 DEF LightInv
  <2>4. DOMAIN hits' = {CellOf(g) : g \in {h \in Fibres : given'[h] > 0}}
    <3>1. \A g \in Fibres : given'[g] > 0 <=> (given[g] > 0 \/ g = f)
      BY <1>1, <1>5, <2>3 DEF LightInv
    <3>2. DOMAIN hits = {CellOf(g) : g \in {h \in Fibres : given[h] > 0}}
      BY DEF LightInv, HitsAreTheFibresLight
    <3>3. QED
      BY <2>2, <3>1, <3>2
  <2>5. ASSUME NEW g \in Fibres, CellOf(g) \in DOMAIN hits'
        PROVE  hits'[CellOf(g)].energyDeposit = given'[g]
    <3>1. CASE g = f /\ cell \in DOMAIN hits
      <4>1. hits'[cell].energyDeposit = hits[cell].energyDeposit + n
        BY <2>1, <3>1 DEF WithSignal, AddedTo
      <4>2. QED
        BY <2>3, <3>1, <4>1 DEF LightInv, HitsAreTheFibresLight
    <3>2. CASE g = f /\ cell \notin DOMAIN hits
      <4>1. hits'[cell].energyDeposit = n
        BY <2>1, <3>2 DEF WithSignal, NewHit
      <4>2. given[f] = 0
        BY <3>2 DEF LightInv, HitsAreTheFibresLight
      <4>3. QED
        BY <1>1, <2>3, <3>2, <4>1, <4>2
    <3>3. CASE g # f
      <4>1. CellOf(g) # cell
        BY <3>3, CellsAreDistinct
      <4>2. CellOf(g) \in DOMAIN hits /\ hits'[CellOf(g)] = hits[CellOf(g)]
        BY <2>1, <2>2, <2>5, <4>1 DEF WithSignal
      <4>3. QED
        BY <2>3, <3>3, <4>2 DEF LightInv, HitsAreTheFibresLight
    <3>4. QED
      BY <3>1, <3>2, <3>3
  <2>6. QED
    BY <1>3, <2>4, <2>5 DEF LightInv, HitsAreTheFibresLight
<1>6. QED
  BY <1>1, <1>4, <1>5

-----------------------------------------------------------------------------
(***************************************************************************)
(* Photons.  That a photon is drawn once is not inductive: it needs that   *)
(* one in a core has not been drawn, because the cladding it would have    *)
(* come from kills.                                                        *)
(***************************************************************************)
PhotonInv ==
  /\ draws \in [Tracks -> Nat] /\ emitted \subseteq Tracks
  /\ InFlight => /\ photon \in [id : emitted, fibre : Fibres, vol : {"core", "clad"}]
                 /\ photon.fibre.cherenkov = 1
  /\ \A t \in Tracks \ emitted : draws[t] = 0 /\ t \notin backward
  /\ InFlight /\ photon.vol = "core" => draws[photon.id] = 0 /\ photon.id \notin backward
  /\ EachPhotonDrawnOnce
  /\ BackwardPhotonsGiveNoLight
  /\ backward \subseteq Tracks

LEMMA PhotonStepInv ==
  ASSUME PhotonInv, InFlight, NEW outcome, NEW s \in PhotonSteps(photon, outcome),
         PhotonStep(outcome, s)
  PROVE  PhotonInv'
<1> DEFINE id == photon.id
<1>1. /\ id \in emitted /\ photon.fibre \in Fibres /\ emitted \subseteq Tracks
      /\ photon.fibre.cherenkov = 1 /\ photon.vol \in {"core", "clad"}
  BY DEF PhotonInv
<1>2. s.fibre = photon.fibre /\ s.vol = photon.vol /\ s.particle = "optical"
  BY DEF PhotonSteps
<1>3. emitted' = emitted
  BY DEF PhotonStep
<1>4. CASE photon.vol = "clad"
  <2>1. ~ IsScin(s) /\ IsCherClad(s)
    BY <1>1, <1>2, <1>4, CoreBits DEF IsScin, IsCherClad, CpNo
  <2>2. Kills(s)
    BY <1>2, <2>1 DEF Kills
  <2>3. photon' = NoPhoton /\ draws' = draws /\ backward' = backward
    BY <1>2, <1>4, <2>2 DEF PhotonStep
  <2>4. QED
    BY <1>3, <2>3 DEF PhotonInv, InFlight, NoPhoton, EachPhotonDrawnOnce,
       BackwardPhotonsGiveNoLight
<1>5. CASE photon.vol = "core"
  <2>1. draws[id] = 0 /\ id \notin backward
    BY <1>5 DEF PhotonInv
  <2>2. InFlight' => /\ photon' \in [id : emitted, fibre : Fibres, vol : {"clad"}]
                     /\ photon'.fibre.cherenkov = 1
    <3>1. CASE photon' = NoPhoton
      BY <3>1 DEF InFlight, NoPhoton
    <3>2. CASE photon' = [photon EXCEPT !.vol = "clad"]
      <4>1. photon \in [id : emitted, fibre : Fibres, vol : {"core", "clad"}]
        BY DEF PhotonInv
      <4>2. photon' \in [id : emitted, fibre : Fibres, vol : {"clad"}]
        BY <3>2, <4>1
      <4>3. photon'.fibre = photon.fibre
        BY <3>2, <4>1
      <4>4. QED
        BY <1>1, <4>2, <4>3
    <3>3. QED
      BY <1>5, <3>1, <3>2 DEF PhotonStep
  <2>3. /\ draws' \in [Tracks -> Nat] /\ draws'[id] \in {0, 1}
        /\ draws'[id] = 1 => backward' = backward
        /\ backward' \subseteq backward \cup {id}
        /\ \A t \in Tracks \ {id} : draws'[t] = draws[t]
    <3>1. CASE Reflected(s)
      <4>1. draws' = [draws EXCEPT ![id] = @ + 1] /\ backward' = backward
        BY <1>2, <1>5, <3>1 DEF PhotonStep, Reflected
      <4>2. draws \in [Tracks -> Nat]
        BY DEF PhotonInv
      <4>3. QED
        BY <1>1, <2>1, <4>1, <4>2
    <3>2. CASE ~ Reflected(s)
      BY <2>1, <3>2 DEF PhotonStep, PhotonInv
    <3>3. QED
      BY <3>1, <3>2
  <2>4. EachPhotonDrawnOnce'
    BY <2>3 DEF EachPhotonDrawnOnce, PhotonInv
  <2>5. backward' \subseteq Tracks /\ BackwardPhotonsGiveNoLight'
    BY <1>1, <2>1, <2>3 DEF BackwardPhotonsGiveNoLight, PhotonInv
  <2>6. \A t \in Tracks \ emitted' : draws'[t] = 0 /\ t \notin backward'
    BY <1>1, <1>3, <2>3 DEF PhotonInv
  <2>7. QED
    BY <1>1, <1>3, <2>2, <2>3, <2>4, <2>5, <2>6 DEF PhotonInv
<1>6. QED
  BY <1>1, <1>4, <1>5

LEMMA NextPhoton == PhotonInv /\ [Next]_vars => PhotonInv'
<1> SUFFICES ASSUME PhotonInv, [Next]_vars PROVE PhotonInv'
  OBVIOUS
<1>1. CASE UNCHANGED <<photon, emitted, draws, backward>>
  BY <1>1 DEF PhotonInv, InFlight, EachPhotonDrawnOnce, BackwardPhotonsGiveNoLight
<1>2. ASSUME NEW t \in Tracks, NEW f \in Fibres, NEW vol \in {"core", "clad"},
             EmitPhoton(t, f, vol)
      PROVE  PhotonInv'
  <2>1. /\ t \notin emitted /\ emitted' = emitted \cup {t} /\ f.cherenkov = 1
        /\ photon' = [id |-> t, fibre |-> f, vol |-> vol]
        /\ draws' = draws /\ backward' = backward
    BY <1>2 DEF EmitPhoton, historyVars
  <2>2. QED
    BY <1>2, <2>1 DEF PhotonInv, InFlight, EachPhotonDrawnOnce, BackwardPhotonsGiveNoLight
<1>3. QED
  BY <1>1, <1>2, PhotonStepInv DEF Next, OtherStep, vars, geantVars, historyVars

LEMMA NextLight == LightInv /\ PhotonInv /\ [Next]_vars => LightInv'
<1> SUFFICES ASSUME LightInv, PhotonInv, [Next]_vars PROVE LightInv'
  OBVIOUS
<1>1. CASE UNCHANGED <<hits, given>>
  BY <1>1 DEF LightInv, HitsAreTheFibresLight
<1>2. ASSUME NEW s \in OtherSteps, OtherStep(s) PROVE LightInv'
  BY <1>2, ProcessLight DEF OtherSteps, OtherStep
<1>3. ASSUME InFlight, NEW outcome, NEW s \in PhotonSteps(photon, outcome),
             PhotonStep(outcome, s)
      PROVE  LightInv'
  <2>1. s.fibre \in Fibres /\ s.vol \in {"core", "clad"} /\ s.signal \in 0 .. MaxSignal
    BY <1>3 DEF PhotonSteps, PhotonInv
  <2>2. QED
    BY <1>3, <2>1, ProcessLight DEF PhotonStep
<1>4. QED
  BY <1>1, <1>2, <1>3 DEF Next, EmitPhoton, vars, historyVars

\* Every fibre that gave light, and no other, has a hit: in the collection of
\* its part of the detector, under the identifier of its core, with all its
\* light.
THEOREM FibresKeepTheirLight == Spec => []HitsAreTheFibresLight
<1>1. Init => LightInv /\ PhotonInv
  BY DEF Init, LightInv, HitsAreTheFibresLight, PhotonInv, InFlight, NoPhoton,
     EachPhotonDrawnOnce, BackwardPhotonsGiveNoLight
<1>2. LightInv /\ PhotonInv /\ [Next]_vars => (LightInv /\ PhotonInv)'
  BY NextLight, NextPhoton
<1>3. QED
  BY <1>1, <1>2, PTL DEF Spec, LightInv

\* No photon's signal is drawn twice, and one travelling away from the SiPM is
\* never drawn, although the core kills neither of them.
THEOREM PhotonsDrawnOnce == Spec => [](EachPhotonDrawnOnce /\ BackwardPhotonsGiveNoLight)
<1>1. Init => PhotonInv
  BY DEF Init, PhotonInv, InFlight, NoPhoton, EachPhotonDrawnOnce,
     BackwardPhotonsGiveNoLight
<1>2. QED
  BY <1>1, NextPhoton, PTL DEF Spec, PhotonInv

\* A photon's step in its Cherenkov fibre gives light only if the boundary
\* process reported a total reflection.
LEMMA LightOfPhoton ==
  ASSUME NEW s, s.fibre \in Fibres, s.fibre.cherenkov = 1, s.vol \in {"core", "clad"},
         s.signal \in 0 .. MaxSignal, Signal(s) > 0
  PROVE  s.status = "TotalInternalReflection"
<1>1. s.vol = "core"
  BY SignalOfCore
<1>2. ~ IsScin(s)
  BY <1>1, CoreBits DEF IsScin, CpNo
<1>3. Reflected(s)
  BY <1>2 DEF Signal
<1>4. QED
  BY <1>3 DEF Reflected

LEMMA NextUntrapped ==
  PhotonInv /\ BarrelLightIsReflected /\ [Next]_vars => BarrelLightIsReflected'
<1> SUFFICES ASSUME PhotonInv, BarrelLightIsReflected, [Next]_vars
             PROVE  BarrelLightIsReflected'
  OBVIOUS
<1>1. ASSUME InFlight, NEW outcome \in {"absorbed", "reflected", "passes"},
             NEW s \in PhotonSteps(photon, outcome), PhotonStep(outcome, s)
      PROVE  BarrelLightIsReflected'
  <2>1. /\ photon.fibre \in Fibres /\ photon.fibre.cherenkov = 1
        /\ photon.vol \in {"core", "clad"}
    BY <1>1 DEF PhotonInv
  <2>2. /\ s.fibre = photon.fibre /\ s.vol = photon.vol /\ s.signal \in 0 .. MaxSignal
        /\ s.status \in StatusAfter(outcome)
    BY DEF PhotonSteps
  <2>3. CASE outcome # "reflected" /\ Signal(s) > 0
    <3>1. s.status = "TotalInternalReflection"
      BY <2>1, <2>2, <2>3, LightOfPhoton
    <3>2. outcome = "absorbed"
      BY <2>2, <2>3, <3>1 DEF StatusAfter
    <3>3. photon.fibre.det # "barrel" /\ untrapped' = untrapped \cup {photon.fibre}
      BY <1>1, <2>3, <3>2 DEF PhotonStep, Absorbs
    <3>4. QED
      BY <3>3 DEF BarrelLightIsReflected
  <2>4. CASE ~ (outcome # "reflected" /\ Signal(s) > 0)
    BY <1>1, <2>4 DEF PhotonStep, BarrelLightIsReflected
  <2>5. QED
    BY <2>3, <2>4
<1>2. CASE UNCHANGED untrapped
  BY <1>2 DEF BarrelLightIsReflected
<1>3. QED
  BY <1>1, <1>2 DEF Next, OtherStep, EmitPhoton, vars, geantVars, historyVars

\* In the barrel the status left from an earlier step never passes for a
\* reflection: light is only seen of photons that were reflected.
THEOREM BarrelLightReflected == Spec => []BarrelLightIsReflected
<1>1. Init => PhotonInv /\ BarrelLightIsReflected
  BY DEF Init, PhotonInv, InFlight, NoPhoton, EachPhotonDrawnOnce,
     BackwardPhotonsGiveNoLight, BarrelLightIsReflected
<1>2. PhotonInv /\ BarrelLightIsReflected /\ [Next]_vars
        => (PhotonInv /\ BarrelLightIsReflected)'
  BY NextPhoton, NextUntrapped
<1>3. QED
  BY <1>1, <1>2, PTL DEF Spec

-----------------------------------------------------------------------------
(***************************************************************************)
(* Contributions.  That there is one for each time bin needs that two bins *)
(* are never within the tolerance of each other, and that what is not in a *)
(* contribution yet has given no light: then the one a signal is added to  *)
(* is the one of its bin.                                                  *)
(***************************************************************************)
Entries == [trackID : Tracks, deposit : Nat, time : Bins]

\* The contributions of a hit tell the light L of each bin, and the first track
\* F that gave it.
TellsOf(truth, L, F) ==
  /\ truth \in Seq(Entries)
  /\ \A i, j \in DOMAIN truth : truth[i].time = truth[j].time => i = j
  /\ \A i \in DOMAIN truth :
       truth[i].deposit = L[truth[i].time] /\ truth[i].trackID = F[truth[i].time]
  /\ \A b \in Bins :
       (\A i \in DOMAIN truth : truth[i].time # b) => L[b] = 0 /\ F[b] = NoTrack

\* The contributions of a fibre's hit, if it has one.
TruthOf(f) == IF CellOf(f) \in DOMAIN hits THEN hits[CellOf(f)].truth ELSE << >>

TruthInv ==
  /\ light \in [Fibres -> [Bins -> Nat]]
  /\ first \in [Fibres -> [Bins -> Tracks \cup {NoTrack}]]
  /\ \A f \in Fibres : TellsOf(TruthOf(f), light[f], first[f])

LEMMA WidthIsPositive == Width \in Nat \ {0}
BY ReadoutAssumption DEF Width

LEMMA Multiples ==
  ASSUME NEW w \in Nat \ {0}, NEW x \in Int, NEW y \in Int, x < y
  PROVE  y * w - x * w >= w /\ x * w \in Int /\ y * w \in Int
<1> DEFINE d == y - x
<1>1. d \in Int /\ d >= 1 /\ y * w = x * w + d * w
  OBVIOUS
<1>2. d * w >= w
  <2>1. (d - 1) * w >= 0 /\ d * w = (d - 1) * w + w
    BY <1>1
  <2> QED
    BY <1>1, <2>1
<1> QED
  BY <1>1, <1>2

\* Two bins are the same or a width apart.
LEMMA BinsApart ==
  ASSUME Width >= Tolerance, NEW a \in Bins, NEW b \in Bins
  PROVE  Distance(a, b) < Tolerance <=> a = b
<1>1. Width \in Nat \ {0} /\ Tolerance \in Nat \ {0}
  BY WidthIsPositive, ReadoutAssumption
<1>2. PICK s \in Arrivals, t \in Arrivals : a = Bin(s) /\ b = Bin(t)
  BY DEF Bins
<1>3. s \in Nat /\ t \in Nat
  BY ReadoutAssumption
<1>4. PICK x \in Int, y \in Int : a = x * Width /\ b = y * Width
  <2>1. s \div Width \in Int /\ t \div Width \in Int
    BY <1>1, <1>3
  <2> QED
    BY <1>2, <2>1 DEF Bin
<1> HIDE DEF Width
<1>5. CASE x < y
  BY <1>1, <1>4, <1>5, Multiples DEF Distance
<1>6. CASE y < x
  BY <1>1, <1>4, <1>6, Multiples DEF Distance
<1>7. CASE x = y
  <2>1. a = b /\ a \in Int
    BY <1>1, <1>4, <1>7
  <2> QED
    BY <1>1, <2>1 DEF Distance
<1> QED
  BY <1>5, <1>6, <1>7

LEMMA MatchingIsOfTheBin ==
  ASSUME Width >= Tolerance, NEW truth \in Seq(Entries), NEW b \in Bins
  PROVE  \A i \in DOMAIN truth : i \in Matching(truth, b) <=> truth[i].time = b
<1>1. ASSUME NEW i \in DOMAIN truth PROVE truth[i].time \in Bins
  <2>1. truth[i] \in Entries
    BY ElementOfSeq
  <2> QED
    BY <2>1 DEF Entries
<1> QED
  BY <1>1, BinsApart DEF Matching

\* Adding n photo-electrons of track t to the contributions keeps them telling.
LEMMA ContributedTells ==
  ASSUME Width >= Tolerance, NEW truth,
         NEW L \in [Bins -> Nat], NEW F \in [Bins -> Tracks \cup {NoTrack}],
         TellsOf(truth, L, F),
         NEW n \in Nat, n > 0, NEW t \in Tracks, NEW b \in Bins,
         NEW G, G = IF F[b] = NoTrack THEN [F EXCEPT ![b] = t] ELSE F
  PROVE  TellsOf(Contributed(truth, t, n, b), [L EXCEPT ![b] = @ + n], G)
<1> DEFINE M == [L EXCEPT ![b] = @ + n]
           new == Contributed(truth, t, n, b)
<1>0. truth \in Seq(Entries) /\ Len(truth) \in Nat /\ DOMAIN truth = 1 .. Len(truth)
  BY DEF TellsOf
<1>1. \A i \in DOMAIN truth : truth[i] \in Entries
  BY ONLY <1>0, ElementOfSeq
<1>2. \A i \in DOMAIN truth : i \in Matching(truth, b) <=> truth[i].time = b
  BY <1>0, MatchingIsOfTheBin
<1>3. \A c \in Bins : M[c] = IF c = b THEN L[c] + n ELSE L[c]
  OBVIOUS
<1>4. \A c \in Bins : G[c] = IF c = b /\ F[b] = NoTrack THEN t ELSE F[c]
  OBVIOUS
<1> HIDE DEF M, new
<1>5. CASE Matching(truth, b) = {}
  <2> DEFINE c0 == Contribution(t, n, b)
             k == Len(truth) + 1
  <2>1. c0 \in Entries /\ c0.time = b /\ c0.deposit = n /\ c0.trackID = t
    BY DEF Contribution, Entries
  <2> HIDE DEF c0
  <2>2. new = Append(truth, c0)
    BY <1>5 DEF new, Contributed, c0
  <2>3. /\ new \in Seq(Entries) /\ Len(new) = k /\ new[k] = c0
        /\ \A i \in 1 .. Len(truth) : new[i] = truth[i]
    BY <1>0, <2>1, <2>2, AppendProperties
  <2>4. DOMAIN new = DOMAIN truth \cup {k} /\ k \notin DOMAIN truth
    BY <1>0, <2>3
  <2>5. \A i \in DOMAIN truth : truth[i].time # b /\ truth[i].time \in Bins
    BY <1>1, <1>2, <1>5 DEF Entries
  <2>6. L[b] = 0 /\ F[b] = NoTrack
    BY <2>5 DEF TellsOf
  <2>7. \A i, j \in DOMAIN new : new[i].time = new[j].time => i = j
    BY <1>0, <2>1, <2>3, <2>4, <2>5 DEF TellsOf
  <2>8. ASSUME NEW i \in DOMAIN new
        PROVE  new[i].deposit = M[new[i].time] /\ new[i].trackID = G[new[i].time]
    <3>1. CASE i = k
      BY <1>3, <1>4, <2>1, <2>3, <2>6, <3>1
    <3>2. CASE i \in DOMAIN truth
      BY <1>0, <1>3, <1>4, <2>3, <2>5, <3>2 DEF TellsOf
    <3> QED
      BY <2>4, <3>1, <3>2
  <2>9. ASSUME NEW c \in Bins, \A i \in DOMAIN new : new[i].time # c
        PROVE  M[c] = 0 /\ G[c] = NoTrack
    <3>1. c # b
      BY <2>1, <2>3, <2>4, <2>9
    <3>2. \A i \in DOMAIN truth : truth[i].time # c
      BY <1>0, <2>3, <2>4, <2>9
    <3> QED
      BY <1>3, <1>4, <3>1, <3>2 DEF TellsOf
  <2> QED
    BY <2>3, <2>7, <2>8, <2>9 DEF TellsOf, new, M
<1>6. CASE Matching(truth, b) # {}
  <2>1. PICK m \in DOMAIN truth : m \in Matching(truth, b)
    BY <1>6 DEF Matching
  <2>2. truth[m].time = b
    BY <1>2, <2>1
  <2>3. Matching(truth, b) = {m}
    <3>1. Matching(truth, b) \subseteq DOMAIN truth
      BY DEF Matching
    <3>2. \A i \in Matching(truth, b) : i = m
      BY <1>2, <2>2, <3>1 DEF TellsOf
    <3> QED
      BY <2>1, <3>2
  <2>4. Min({m}) = m
    BY <1>0, <2>1 DEF Min
  <2>5. new = [truth EXCEPT ![m].deposit = @ + n]
    BY <1>6, <2>3, <2>4 DEF new, Contributed
  <2>6. /\ DOMAIN new = DOMAIN truth
        /\ \A i \in DOMAIN truth : i # m => new[i] = truth[i]
        /\ new[m] = [truth[m] EXCEPT !.deposit = @ + n]
    BY <2>1, <2>5
  <2>7. truth[m] \in Entries
    BY <1>1, <2>1
  <2>8. /\ new[m] \in Entries /\ new[m].time = b
        /\ new[m].deposit = truth[m].deposit + n /\ new[m].trackID = truth[m].trackID
    BY <2>2, <2>6, <2>7 DEF Entries
  <2>9. \A i \in DOMAIN truth : new[i] \in Entries /\ new[i].time = truth[i].time
    BY <1>1, <2>2, <2>6, <2>8
  <2>10. new \in Seq(Entries)
    <3>1. new = [i \in 1 .. Len(truth) |-> new[i]]
      BY <1>0, <2>5
    <3> QED
      BY <1>0, <2>9, <3>1
  <2>11. F[b] # NoTrack
    BY <2>1, <2>2, <2>7, ReadoutAssumption DEF TellsOf, Entries
  <2>12. ASSUME NEW i \in DOMAIN new
         PROVE  new[i].deposit = M[new[i].time] /\ new[i].trackID = G[new[i].time]
    <3>1. CASE i = m
      BY <1>3, <1>4, <2>1, <2>2, <2>8, <2>11, <3>1 DEF TellsOf
    <3>2. CASE i # m
      <4>1. i \in DOMAIN truth /\ new[i] = truth[i] /\ truth[i].time # b
            /\ truth[i].time \in Bins
        BY <1>1, <2>1, <2>2, <2>6, <3>2 DEF TellsOf, Entries
      <4> QED
        BY <1>3, <1>4, <4>1 DEF TellsOf
    <3> QED
      BY <3>1, <3>2
  <2>13. ASSUME NEW c \in Bins, \A i \in DOMAIN new : new[i].time # c
         PROVE  M[c] = 0 /\ G[c] = NoTrack
    <3>1. c # b /\ \A i \in DOMAIN truth : truth[i].time # c
      BY <2>1, <2>2, <2>6, <2>9, <2>13
    <3> QED
      BY <1>3, <1>4, <3>1 DEF TellsOf
  <2>14. \A i, j \in DOMAIN new : new[i].time = new[j].time => i = j
    BY <2>6, <2>9 DEF TellsOf
  <2> QED
    BY <2>10, <2>12, <2>13, <2>14 DEF TellsOf, new, M
<1> QED
  BY <1>5, <1>6

LEMMA ProcessTruth ==
  ASSUME Width >= Tolerance, TruthInv, NEW s, s.fibre \in Fibres,
         s.vol \in {"core", "clad"}, s.signal \in 0 .. MaxSignal, s.track \in Tracks,
         s.arrival \in Arrivals, process(s)
  PROVE  TruthInv'
<1> DEFINE n == Signal(s)
           f == s.fibre
           b == Bin(s.arrival)
           G == IF first[f][b] = NoTrack THEN [first[f] EXCEPT ![b] = s.track] ELSE first[f]
<1>1. n \in Nat /\ (n > 0 => s.vol = "core") /\ b \in Bins /\ f \in Fibres
  BY SignalOfCore DEF Bins
<1>2. /\ light \in [Fibres -> [Bins -> Nat]]
      /\ first \in [Fibres -> [Bins -> Tracks \cup {NoTrack}]]
      /\ TellsOf(TruthOf(f), light[f], first[f])
  BY DEF TruthInv
<1>3. light' = [light EXCEPT ![f][b] = @ + n]
  BY DEF process
<1>4. first' = IF n > 0 /\ first[f][b] = NoTrack
               THEN [first EXCEPT ![f][b] = s.track] ELSE first
  BY DEF process
<1> HIDE DEF n, b
<1>5. /\ light' \in [Fibres -> [Bins -> Nat]]
      /\ light'[f] = [light[f] EXCEPT ![b] = @ + n]
      /\ \A g \in Fibres : g # f => light'[g] = light[g]
  BY <1>1, <1>2, <1>3
<1>6. /\ first' \in [Fibres -> [Bins -> Tracks \cup {NoTrack}]]
      /\ \A g \in Fibres : g # f => first'[g] = first[g]
      /\ n > 0 => first'[f] = G
  BY <1>1, <1>2, <1>4
<1>7. CASE n = 0
  <2>1. hits' = hits /\ first' = first
    BY <1>4, <1>7 DEF process, n
  <2>2. light[f][b] + n = light[f][b]
    BY <1>1, <1>2, <1>7
  <2>3. light' = light
    BY <1>1, <1>2, <1>3, <2>2
  <2> QED
    BY <2>1, <2>3 DEF TruthInv, TruthOf
<1>8. CASE n > 0
  <2> DEFINE cell == CellOf(f)
  <2>1. hits' = WithSignal(cell, s.track, n, b)
    BY <1>1, <1>8, CopyNumbersSuffice DEF process, n, b
  <2>2. DOMAIN hits' = DOMAIN hits \cup {cell}
    BY <2>1 DEF WithSignal
  <2>3. TruthOf(f)' = Contributed(TruthOf(f), s.track, n, b)
    <3>1. TruthOf(f)' = hits'[cell].truth
      BY <2>2 DEF TruthOf
    <3>2. CASE cell \in DOMAIN hits
      <4>1. hits'[cell].truth = Contributed(hits[cell].truth, s.track, n, b)
        BY <2>1, <3>2 DEF WithSignal, AddedTo
      <4> QED
        BY <3>1, <3>2, <4>1 DEF TruthOf
    <3>3. CASE cell \notin DOMAIN hits
      <4>1. hits'[cell].truth = <<Contribution(s.track, n, b)>>
        BY <2>1, <3>3 DEF WithSignal, NewHit
      <4>2. Matching(<< >>, b) = {}
        BY DEF Matching
      <4>3. Contributed(<< >>, s.track, n, b) = <<Contribution(s.track, n, b)>>
        BY <4>2 DEF Contributed
      <4>4. TruthOf(f) = << >>
        BY <3>3 DEF TruthOf
      <4> QED
        BY <3>1, <4>1, <4>3, <4>4
    <3> QED
      BY <3>2, <3>3
  <2>4. TellsOf(TruthOf(f)', light'[f], first'[f])
    <3>1. light[f] \in [Bins -> Nat] /\ first[f] \in [Bins -> Tracks \cup {NoTrack}]
      BY <1>1, <1>2
    <3>2. TellsOf(Contributed(TruthOf(f), s.track, n, b), [light[f] EXCEPT ![b] = @ + n], G)
      BY <1>1, <1>2, <1>8, <3>1, ContributedTells
    <3> QED
      BY <1>5, <1>6, <1>8, <2>3, <3>2
  <2>5. ASSUME NEW g \in Fibres PROVE TellsOf(TruthOf(g)', light'[g], first'[g])
    <3>1. CASE g # f
      <4>1. CellOf(g) # cell
        BY <1>1, <3>1, CellsAreDistinct
      <4>2. CellOf(g) \in DOMAIN hits' <=> CellOf(g) \in DOMAIN hits
        BY <2>2, <4>1
      <4>3. CellOf(g) \in DOMAIN hits => hits'[CellOf(g)] = hits[CellOf(g)]
        BY <2>1, <4>1 DEF WithSignal
      <4>4. TruthOf(g)' = TruthOf(g)
        BY <4>2, <4>3 DEF TruthOf
      <4> QED
        BY <1>5, <1>6, <3>1, <4>4 DEF TruthInv
    <3> QED
      BY <2>4, <3>1
  <2> QED
    BY <1>5, <1>6, <2>5 DEF TruthInv
<1> QED
  BY <1>1, <1>7, <1>8

LEMMA NextTruth ==
  ASSUME Width >= Tolerance, PhotonInv, TruthInv, [Next]_vars
  PROVE  TruthInv'
<1>1. CASE UNCHANGED <<hits, light, first>>
  BY <1>1 DEF TruthInv, TruthOf
<1>2. ASSUME NEW s \in OtherSteps, OtherStep(s) PROVE TruthInv'
  BY <1>2, ProcessTruth DEF OtherSteps, OtherStep
<1>3. ASSUME InFlight, NEW outcome, NEW s \in PhotonSteps(photon, outcome),
             PhotonStep(outcome, s)
      PROVE  TruthInv'
  <2>1. /\ s.fibre \in Fibres /\ s.vol \in {"core", "clad"} /\ s.signal \in 0 .. MaxSignal
        /\ s.track \in Tracks /\ s.arrival \in Arrivals
    BY <1>3 DEF PhotonSteps, PhotonInv
  <2> QED
    BY <1>3, <2>1, ProcessTruth DEF PhotonStep
<1> QED
  BY <1>1, <1>2, <1>3 DEF Next, EmitPhoton, vars, historyVars

LEMMA InitTruth == Init => TruthInv
<1> SUFFICES ASSUME Init PROVE TruthInv
  OBVIOUS
<1>1. \A f \in Fibres : TruthOf(f) = << >>
  BY DEF Init, TruthOf
<1>2. << >> \in Seq(Entries) /\ DOMAIN << >> = {}
  OBVIOUS
<1>3. \A L, F : (\A b \in Bins : L[b] = 0 /\ F[b] = NoTrack) => TellsOf(<< >>, L, F)
  BY <1>2 DEF TellsOf
<1>4. \A f \in Fibres : TellsOf(TruthOf(f), light[f], first[f])
  <2> TAKE f \in Fibres
  <2>1. \A b \in Bins : light[f][b] = 0 /\ first[f][b] = NoTrack
    BY DEF Init
  <2> QED
    BY <1>1, <1>3, <2>1
<1> QED
  BY <1>4 DEF Init, TruthInv

\* Whatever the order in which tracks and bins come, a hit has one contribution
\* for each bin with light in it, with all that light and the first track that
\* gave it, unless bins are narrower than the tolerance.
THEOREM ContributionsAreTheBins == Spec => []OneContributionPerBin
<1>1. CASE Width >= Tolerance
  <2>1. Init => TruthInv /\ PhotonInv
    BY InitTruth DEF Init, PhotonInv, InFlight, NoPhoton, EachPhotonDrawnOnce,
       BackwardPhotonsGiveNoLight
  <2>2. TruthInv /\ PhotonInv /\ [Next]_vars => (TruthInv /\ PhotonInv)'
    BY <1>1, NextTruth, NextPhoton
  <2>3. TruthInv => OneContributionPerBin
    BY DEF TruthInv, TruthOf, TellsOf, OneContributionPerBin
  <2> QED
    BY <2>1, <2>2, <2>3, PTL DEF Spec
<1>2. CASE ~ (Width >= Tolerance)
  <2>1. OneContributionPerBin
    BY <1>2 DEF OneContributionPerBin
  <2> QED
    BY <2>1, PTL
<1> QED
  BY <1>1, <1>2

=============================================================================
