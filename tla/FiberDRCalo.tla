---------------------------- MODULE FiberDRCalo ----------------------------
(***************************************************************************)
(* Optical photons in the fibres of the dual-readout calorimeter, and the  *)
(* two ways DRCFiberModel spares their way to the SiPM:                    *)
(*                                                                         *)
(*   "fiber"  skipScint: the fibres are sensitive.  DRCaloSDAction asks    *)
(*            the model after each step, counts a photon it may take to    *)
(*            the end, with the time it would arrive, and kills it.        *)
(*   "wafer"  the SiPM wafers are sensitive, and the fast simulation of    *)
(*            DRCaloFastSimModel asks the model before each step and moves *)
(*            the photon.                                                  *)
(*                                                                         *)
(* Geant4 follows one photon at a time.  Times are in the unit a photon    *)
(* takes for one unit of length.  A photon hops from one reflection to the *)
(* next; a step that is too small follows where Geant4 has it enter the    *)
(* next volume although it is reflected (reportsNext).                     *)
(***************************************************************************)
EXTENDS DRCFiberModel, FiniteSets, FiniteSetsExt

CONSTANTS
  TrackIDs,       \* ids of the photons of each event
  CherFibres, ScinFibres,
  Origins,        \* where on the axis photons are made
  Hops,           \* lengths of hops
  NILLs,          \* lengths left, as Geant4 draws them
  TimeStart, TimeStep, TimeBins,    \* properties of the action
  ProcessSets,    \* the processes the photon's material may have
  MaxChanges,     \* bound: changes of the surface a photon is reflected at
  MaxTurns,       \* bound: reflections of a photon at the ends
  MaxDeposits,    \* bound: steps of other particles
  MaxPhotons,     \* bound, in all events
  MaxEvents       \* bound

Tracks == UNION {TrackIDs[e] : e \in 1 .. MaxEvents}

Fibres == CherFibres \cup ScinFibres

ASSUME PhotonsAssumption ==
  /\ TrackIDs \in [1 .. MaxEvents -> SUBSET (Nat \ {0})] /\ CherFibres \cap ScinFibres = {}
  /\ Origins \subseteq 1 .. FiberLen - 1
  /\ ProcessSets \subseteq SUBSET {"abs", "wls"}
  /\ Hops \subseteq Nat \ {0} /\ NILLs \subseteq 0 .. NoLimit - 1
  /\ TimeStart \in Int /\ TimeStep \in Nat \ {0} /\ TimeBins \in Nat
  /\ {MaxChanges, MaxTurns, MaxDeposits, MaxPhotons} \subseteq Nat
  /\ MaxEvents \in Nat \ {0}

VARIABLES
  client,         \* "fiber" or "wafer"
  reportsNext,    \* where Geant4 puts the end of a step that is reflected
  model,          \* the plugin's DRCFiberModel
  status,         \* of the boundary process, until its next call
  photon,         \* being followed
  event, tracked, \* events and ids of the photons followed so far
  hits,           \* fibre -> [photons, times]: Geant4DRCalorimeter::Hit
  scint,          \* fibre -> contributions: the "_scint" collection
  deposits,
  \* History: photons counted, those the model found to be absorbed, those
  \* moved, those moved and then absorbed all the same, and the photon the
  \* model was last reset for.
  counted, killed, moved, wasted, resetFor

plugin == <<model, hits, scint>>
history == <<counted, killed, moved, wasted, resetFor>>
vars == <<client, reportsNext, status, photon, event, tracked, deposits,
          plugin, history>>

NoPhoton == [vol |-> "none"]

InFlight == photon.vol # "none"

Uid == <<event, photon.id>>

-----------------------------------------------------------------------------
(***************************************************************************)
(* Geant4: a step of the photon p.  Each way to end it yields the photon   *)
(* afterwards, the status of the boundary process and the post-step volume.*)
(***************************************************************************)
ToEnd(p) == IF p.dir = 1 THEN FiberLen - p.z ELSE p.z

Spent(p, length) ==
  [p EXCEPT !.z = @ + p.dir * length, !.time = @ + length, !.length = length,
            !.absNILL = IF "abs" \in model.processes THEN @ - length ELSE @,
            !.wlsNILL = IF "wls" \in model.processes THEN @ - length ELSE @]

Survives(p, length) == Spent(p, length).absNILL >= 0 /\ Spent(p, length).wlsNILL >= 0

AtSurface(next) == IF reportsNext THEN next ELSE "core"

\* Reflected at the surface of the core (totally) or of the cladding.
Reflects(p) ==
  IF p.vol = "core" /\ p.part < ToEnd(p) /\ Survives(p, p.part)
  THEN {[photon |-> [Spent(p, p.part) EXCEPT
                       !.part = p.hop, !.vol = AtSurface("clad"),
                       !.surface = st, !.changes = IF st = p.surface THEN @ ELSE @ + 1],
         status |-> st] : st \in IF p.changes < MaxChanges THEN {TIR, "StepTooSmall"}
                                 ELSE {p.surface}}
  ELSE {}

\* Reflected back at an end of the fibre.
Turns(p) ==
  IF p.vol = "core" /\ p.part >= ToEnd(p) /\ Survives(p, ToEnd(p)) /\ p.turns < MaxTurns
  THEN {[photon |-> [Spent(p, ToEnd(p)) EXCEPT
                       !.part = IF p.part = ToEnd(p) THEN p.hop ELSE p.part - ToEnd(p),
                       !.dir = - p.dir, !.vol = AtSurface("out"),
                       !.turns = @ + 1],
         status |-> "FresnelReflection"]}
  ELSE {}

\* The step too small, back into the core.
Returns(p) ==
  IF p.vol \in {"clad", "out"}
  THEN {[photon |-> [p EXCEPT !.vol = "core", !.length = 0], status |-> "StepTooSmall"]}
  ELSE {}

\* On into the volume it was reported in, or out at an end.
Leaves(p) ==
  IF p.vol = "core" /\ (p.part < ToEnd(p) \/ ~ Survives(p, ToEnd(p))) THEN {}
  ELSE {[photon |-> [(IF p.vol = "core" THEN Spent(p, ToEnd(p)) ELSE p) EXCEPT
                       !.vol = "gone"],
         status |-> "FresnelRefraction"]}

\* Absorbed, or shifted to another wavelength; the boundary is not reached.
Ends(p) ==
  IF p.vol = "core" /\ ~ Survives(p, IF p.part < ToEnd(p) THEN p.part ELSE ToEnd(p))
  THEN {[photon |-> [p EXCEPT !.stopped = TRUE], status |-> status]}
  ELSE {}

StepsOf(p) == Reflects(p) \cup Turns(p) \cup Returns(p) \cup Leaves(p) \cup Ends(p)

\* The track as a plugin sees it.
View(p, st) ==
  [id |-> p.id, z |-> p.z, dir |-> p.dir, time |-> p.time, length |-> p.length,
   status |-> st, stopped |-> p.stopped, absNILL |-> p.absNILL, wlsNILL |-> p.wlsNILL]

-----------------------------------------------------------------------------
(***************************************************************************)
(* Geant4DRCalorimeter::Hit: photons, and how many in each time bin.       *)
(***************************************************************************)
\* findTimeBin: 0 below the range, TimeBins + 1 above it.
findTimeBin(time) ==
  Min({i \in 0 .. TimeBins : time < TimeStart + i * TimeStep} \cup {TimeBins + 1})

EmptyHit == [photons |-> 0, times |-> [b \in 0 .. TimeBins + 1 |-> 0]]

\* Mutant: photons outside the range are in no bin.
CountInRange(hit, time) ==
  [photons |-> hit.photons + 1,
   times |-> IF findTimeBin(time) \in 1 .. TimeBins
             THEN [hit.times EXCEPT ![findTimeBin(time)] = @ + 1] ELSE hit.times]

Count(hit, time) ==
  [photons |-> hit.photons + 1, times |-> [hit.times EXCEPT ![findTimeBin(time)] = @ + 1]]

HitOf(fibre) == IF fibre \in DOMAIN hits THEN hits[fibre] ELSE EmptyHit

WithPhoton(fibre, time) ==
  [f \in DOMAIN hits \cup {fibre} |->
     IF f = fibre THEN Count(HitOf(fibre), time) ELSE hits[f]]

Counted(p, time, unit) ==
  [uid |-> Uid, fibre |-> p.fibre, hitTime |-> time,
   arrival |-> p.time + ToEnd(p), unit |-> unit, dir |-> p.dir]

-----------------------------------------------------------------------------
(***************************************************************************)
(* DRCaloSDAction::process, skipScint, for a photon p at the end of a step *)
(* that began in the volume pre.                                           *)
(***************************************************************************)
KilledInCladding(p, pre) == pre = "clad" /\ p.length > 0

StopAndKill(p) == [p EXCEPT !.stopped = TRUE]

\* Mutant: the hops of the safety margin are spared too.
HitTimeToEnd(m, p) ==
  p.time + (m.current.time - m.previous.time) * (m.nTransport + Safety)

HitTime(m, p) == p.time + (m.current.time - m.previous.time) * m.nTransport

\* What Geant4 goes on with.
Remaining(p) == IF p.stopped \/ p.vol = "gone" THEN NoPhoton ELSE p

Asked(p) == [p EXCEPT !.asked = TRUE]

Killed(p) == [uid |-> Uid, left |-> p.absNILL, toEnd |-> ToEnd(p)]

ResetFor == IF model.current.trackID # photon.id THEN Uid ELSE resetFor

\* A photon that reached the core of a Cherenkov fibre.
processCherenkov(p, st) ==
  LET c == check_trigger(OnTrack(model, p.id), View(p, st))
      counts == c.answer /\ ~ c.model.fKill /\ c.model.unit >= 0
  IN
  /\ model' = c.model
  /\ resetFor' = ResetFor
  /\ photon' = Remaining(IF c.answer THEN StopAndKill(Asked(p)) ELSE Asked(p))
  /\ hits' = IF counts THEN WithPhoton(p.fibre, HitTime(c.model, p)) ELSE hits
  /\ counted' = IF counts THEN counted \cup {Counted(p, HitTime(c.model, p), c.model.unit)}
                ELSE counted
  /\ killed' = IF c.answer /\ c.model.fKill THEN killed \cup {Killed(p)} ELSE killed
  /\ UNCHANGED <<scint, moved, wasted>>

processFiber(p, pre, st) ==
  LET q == IF KilledInCladding(p, pre) THEN StopAndKill(p) ELSE p IN
  CASE q.vol # "core" -> photon' = Remaining(q) /\ UNCHANGED <<plugin, history>>
    [] q.vol = "core" /\ q.fibre \in ScinFibres ->
         photon' = NoPhoton /\ UNCHANGED <<plugin, history>>
    [] OTHER -> processCherenkov(q, st)

\* A step of a charged particle in a scintillating fibre; other steps that
\* are not of photons are left alone.
ScintStep(f) ==
  /\ client = "fiber" /\ ~ InFlight /\ deposits < MaxDeposits
  /\ scint' = [scint EXCEPT ![f] = @ + 1]
  /\ deposits' = deposits + 1
  /\ UNCHANGED <<client, reportsNext, status, photon, event, tracked, model, hits, history>>

FiberStep ==
  /\ client = "fiber" /\ InFlight
  /\ \E s \in StepsOf(photon) :
       /\ status' = s.status
       /\ processFiber(s.photon, photon.vol, s.status)
  /\ UNCHANGED <<client, reportsNext, event, tracked, deposits>>

-----------------------------------------------------------------------------
(***************************************************************************)
(* DRCaloFastSimModel: modelShower, when check_trigger answered TRUE.      *)
(* Geant4 draws the lengths left anew after it.                            *)
(***************************************************************************)
Redrawn(p, n) ==
  [p EXCEPT !.absNILL = IF "abs" \in model.processes THEN n ELSE @,
            !.wlsNILL = IF "wls" \in model.processes THEN n ELSE @]

\* Mutant: the photon is moved, but not its time.
MovedInNoTime(m, p) ==
  [p EXCEPT !.z = @ + m.unit * m.nTransport, !.part = p.hop, !.vol = "core"]

Moved(m, p) ==
  [p EXCEPT !.z = @ + m.unit * m.nTransport,
            !.time = @ + (m.current.time - m.previous.time) * m.nTransport,
            !.part = p.hop, !.vol = "core"]

Transported(m) == [m EXCEPT !.fTransported = TRUE]

MovedBy(m, p) ==
  [uid |-> Uid, turns |-> p.turns, unit |-> p.dir * m.unit, left |-> ToEnd(p)]

modelShower(m, p) ==
  CASE m.fKill ->
         /\ model' = m /\ photon' = NoPhoton
         /\ killed' = killed \cup {Killed(p)}
         /\ UNCHANGED moved
    [] ~ m.fKill /\ m.fTransported ->
         /\ model' = m
         /\ \E n \in NILLs : photon' = Redrawn(p, n)
         /\ UNCHANGED <<killed, moved>>
    [] OTHER ->
         /\ model' = Transported(m)
         /\ \E n \in NILLs : photon' = Redrawn(Moved(m, p), n)
         /\ moved' = moved \cup {MovedBy(m, Moved(m, p))}
         /\ UNCHANGED killed

\* The wafers' action counts a photon that leaves the fibre at their end.
processWafer(p) ==
  hits' = IF p.vol = "gone" /\ p.z = FiberLen /\ p.dir = 1
          THEN WithPhoton(p.fibre, p.time) ELSE hits

\* Geant4's own step, when the model lets it.
TrackingStep(m, p) ==
  \E s \in StepsOf(p) :
    /\ model' = m
    /\ photon' = Remaining(s.photon) /\ status' = s.status
    /\ processWafer(s.photon)
    /\ wasted' = IF s.photon.stopped /\ m.fTransported
                 THEN wasted \cup {Uid} ELSE wasted
    /\ UNCHANGED <<killed, moved>>

FastSimStep ==
  LET m == OnTrack(model, photon.id)
      v == View(photon, status)
      c == check_trigger(m, v)
  IN
  /\ client = "wafer" /\ InFlight
  /\ resetFor' = ResetFor
  /\ \/ /\ ~ checkNILL(m, v)
        /\ modelShower(m, Asked(photon)) /\ UNCHANGED <<status, hits, wasted>>
     \/ /\ checkNILL(m, v) /\ c.answer
        /\ modelShower(c.model, Asked(photon)) /\ UNCHANGED <<status, hits, wasted>>
     \/ checkNILL(m, v) /\ ~ c.answer /\ TrackingStep(c.model, Asked(photon))
  /\ UNCHANGED <<client, reportsNext, event, tracked, deposits, scint, counted>>

-----------------------------------------------------------------------------
Init ==
  /\ client \in {"fiber", "wafer"} /\ reportsNext \in BOOLEAN
  /\ model \in {InitialModel(ps) : ps \in ProcessSets}
  /\ status = "Undefined" /\ photon = NoPhoton
  /\ event = 1 /\ tracked = {} /\ deposits = 0
  /\ hits = << >> /\ scint = [f \in ScinFibres |-> 0]
  /\ counted = {} /\ killed = {} /\ moved = {} /\ wasted = {} /\ resetFor = << >>

\* The ids of an event are only compared: they are taken in their order.
IsNext(t) ==
  /\ <<event, t>> \notin tracked
  /\ \A u \in TrackIDs[event] : u < t => <<event, u>> \in tracked

EmitPhoton(t, f, z, dir, hop) ==
  /\ ~ InFlight /\ IsNext(t) /\ Cardinality(tracked) < MaxPhotons
  /\ \E part \in 1 .. hop, n \in NILLs, st \in {TIR, "StepTooSmall"} :
       photon' = Redrawn([id |-> t, fibre |-> f, vol |-> "core", z |-> z, dir |-> dir,
                          time |-> 0, hop |-> hop, part |-> part, length |-> 0,
                          absNILL |-> NoLimit, wlsNILL |-> NoLimit,
                          turns |-> 0, stopped |-> FALSE,
                          asked |-> FALSE, from |-> z, out |-> dir,
                          surface |-> st, changes |-> 0], n)
  /\ tracked' = tracked \cup {<<event, t>>}
  /\ UNCHANGED <<client, reportsNext, status, event, deposits, plugin, history>>

\* Hit collections are made anew for each event; the model is not.
NextEvent ==
  /\ ~ InFlight /\ event < MaxEvents
  /\ event' = event + 1
  /\ hits' = << >> /\ scint' = [f \in ScinFibres |-> 0]
  /\ counted' = {} /\ killed' = {} /\ moved' = {} /\ wasted' = {}
  /\ UNCHANGED <<client, reportsNext, status, photon, tracked, deposits, model, resetFor>>

Next ==
  \/ \E t \in TrackIDs[event], f \in Fibres, z \in Origins, dir \in {-1, 1}, hop \in Hops :
       EmitPhoton(t, f, z, dir, hop)
  \/ \E f \in ScinFibres : ScintStep(f)
  \/ FiberStep
  \/ FastSimStep
  \/ NextEvent

Spec == Init /\ [][Next]_vars

-----------------------------------------------------------------------------
(***************************************************************************)
(* Properties.                                                             *)
(***************************************************************************)

\* The model is asked about a track only after it was reset for it, whatever
\* the track before left in it.
ResetForEachTrack == InFlight /\ photon.asked => resetFor = Uid

PhotonsOf(f) == {c \in counted : c.fibre = f}

\* A time bin's range: bins 0 and TimeBins + 1 are open ended.
InBin(time, b) ==
  /\ b > 0 => TimeStart + (b - 1) * TimeStep =< time
  /\ b =< TimeBins => time < TimeStart + b * TimeStep

(***************************************************************************)
(* Where the fibres are sensitive a photon is counted at most once however *)
(* often it is reflected, and in one fibre: the photons of a hit are those *)
(* counted in its fibre, in the bins of their times; no scintillating      *)
(* fibre has any.                                                          *)
(***************************************************************************)
HitsAreThePhotonsCounted ==
  client = "fiber" =>
    /\ DOMAIN hits \subseteq CherFibres
    /\ \A c, d \in counted : c.uid = d.uid => c = d
    /\ \A f \in Fibres :
         /\ HitOf(f).photons = Cardinality(PhotonsOf(f))
         /\ \A b \in 0 .. TimeBins + 1 :
              HitOf(f).times[b] = Cardinality({c \in PhotonsOf(f) : InBin(c.hitTime, b)})

\* The time of a photon counted is early by the hops of the safety margin and
\* the rest of one more, and never late: what it would take to the SiPM.
HitTimeWithinSafety ==
  \A c \in counted :
    /\ c.dir = 1
    /\ c.arrival - c.hitTime >= Safety * c.unit
    /\ c.arrival - c.hitTime < (Safety + 1) * c.unit

\* A photon killed as absorbed had too little left to reach the end.
KilledWouldBeAbsorbed == \A k \in killed : k.left < k.toEnd

\* The way of a photon along the axis, turns at the ends included.
FromEnd(z, dir) == IF dir = 1 THEN z ELSE FiberLen - z

Way(p) == p.turns * FiberLen + FromEnd(p.z, p.dir) - FromEnd(p.from, p.out)

\* A photon the fast simulation moved is as late as one Geant4 had followed.
TimeIsTheWay == InFlight => photon.time = Way(photon)

(***************************************************************************)
(* The fast simulation moves a photon once between two turns and leaves    *)
(* the safety margin to Geant4, where the photon is not absorbed any more: *)
(* that it is not was decided before.                                      *)
(***************************************************************************)
MovedOnceAndSafely ==
  /\ \A c, d \in moved : c.uid = d.uid /\ c.turns = d.turns => c = d
  /\ \A c \in moved : c.unit > 0 /\ c.left >= Safety * c.unit
  /\ wasted = {}
=============================================================================
