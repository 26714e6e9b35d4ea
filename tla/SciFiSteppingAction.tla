------------------------ MODULE SciFiSteppingAction ------------------------
(***************************************************************************)
(* The bookkeeping of plugins/SciFiSteppingAction.cpp: which optical       *)
(* photons of an event reached the SiPMs, how every other one was lost,    *)
(* how the counters of an event are folded into those of the run, and what *)
(* is merged into the output file when the run ends.                       *)
(*                                                                         *)
(* Geant4 is the environment.  It processes the events of a run one after  *)
(* the other and, inside an event, follows one photon at a time from its   *)
(* creation to its death, calling first the sensitive detector             *)
(* (plugins/Geant4SciFiOpticalTrackerAction.cpp) and then the stepping     *)
(* action for every step.                                                  *)
(***************************************************************************)
EXTENDS Integers, Sequences, FiniteSets, FiniteSetsExt

CONSTANTS
  Tracks,              \* track ids Geant4 gives to optical photons
  MaxEvents,           \* events of one run; their ids are 0..MaxEvents-1
  MaxRuns,             \* runs of the job
  MaxSteps,            \* bound: steps of one photon before Geant4 ends it
  MaxPhotons,          \* bound: photons in all events of the job
  MaxPrimarySteps,     \* bound: steps of the primary in one event
  EventKinds,          \* kinds of event Geant4 may process: its primary is a
                       \* charged particle, an optical photon, or missing
  KillEscapedChoices,  \* values of the property "KillEscapedPhotons"
  OutputFile,          \* property "OutputFile": TRUE iff it is not empty
  HasEfficiency        \* the SiPM epoxy has an EFFICIENCY (PDE) table

ASSUME BoundsAssumption ==
  /\ MaxEvents \in Nat \ {0}
  /\ MaxRuns \in Nat \ {0}
  /\ MaxSteps \in Nat \ {0}
  /\ MaxPhotons \in Nat /\ MaxPrimarySteps \in Nat \ {0}
ASSUME TracksAssumption == IsFiniteSet(Tracks)
ASSUME SwitchesAssumption ==
  /\ EventKinds \subseteq {"charged", "optical", "empty"}
  /\ EventKinds # {}
  /\ KillEscapedChoices \subseteq BOOLEAN
  /\ OutputFile \in BOOLEAN
  /\ HasEfficiency \in BOOLEAN

-----------------------------------------------------------------------------
(***************************************************************************)
(* The SciFi geometry, as far as the plugin looks at it: logical volumes   *)
(* and which of them share a surface.                                      *)
(***************************************************************************)
EventIDs == 0 .. MaxEvents - 1

NoVolume == "none"      \* outside the world, or the "" of getPostLVName

Clads == {"Clad1", "Clad2"}

\* Volumes whose name contains "SiPM" or "Pixel".
Readout == {"SiPMArray", "SiPMStrip", "Pixel", "PixelSensitive"}

Volumes == {"World", "MatSlab2", "Core", "StripContainer"} \cup Clads \cup Readout

Surfaces ==
  { {"World", "MatSlab2"}, {"World", "SiPMArray"},
    {"MatSlab2", "Clad2"}, {"Clad2", "Clad1"}, {"Clad1", "Core"},
    {"Core", "SiPMArray"}, {"Clad1", "SiPMArray"}, {"Clad2", "SiPMArray"},
    {"MatSlab2", "SiPMArray"},
    {"SiPMArray", "StripContainer"}, {"SiPMArray", "SiPMStrip"},
    {"SiPMArray", "Pixel"}, {"SiPMArray", "PixelSensitive"},
    {"SiPMStrip", "StripContainer"}, {"SiPMStrip", "Pixel"},
    {"SiPMStrip", "PixelSensitive"}, {"StripContainer", "Pixel"},
    {"Pixel", "PixelSensitive"} }

Touching(v) == {w \in Volumes : {v, w} \in Surfaces /\ w # v}

\* "none": the photon is a primary and has no creator process.
Creators == {"Scintillation", "Cerenkov", "OpWLS", "none"}

\* Only the core scintillates and shifts; Cerenkov light needs an index; a
\* primary photon is shot from outside the mat or inside a fibre.
BornIn(creator) ==
  CASE creator = "Cerenkov" -> {"Core", "Clad1", "Clad2", "SiPMStrip", "PixelSensitive"}
    [] creator = "none" -> {"Core", "World"}
    [] OTHER -> {"Core"}

\* Creators of the photons of an event, given its kind.
CreatorsIn(k) ==
  CASE k = "charged" -> {"Scintillation", "Cerenkov", "OpWLS"}
    [] k = "optical" -> {"OpWLS", "none"}
    [] OTHER -> {}

-----------------------------------------------------------------------------
(***************************************************************************)
(* PhotonCounters.                                                         *)
(***************************************************************************)
Losses ==
  {"nDetected", "nAbsWLS", "nAbsAtten", "nAbsClad", "nAbsSiPM", "nNonCaptured",
   "nAbsUnknown", "nLostSurface", "nLostEscaped", "nLostWorld", "nLostOther"}

Fields == {"nTotal", "nScint", "nCerenkov", "nWLSCreated", "nFiberExits"} \cup Losses

Zero == [f \in Fields |-> 0]

\* Mutant: the totals lose what they should gain.
PlusNegated(c, d) == [f \in Fields |-> c[f] - d[f]]

Plus(c, d) == [f \in Fields |-> c[f] + d[f]]

\* c with every counter in S incremented once.
Count(c, S) == [f \in Fields |-> IF f \in S THEN c[f] + 1 ELSE c[f]]

NoData == [present |-> FALSE, photons |-> 0, primaries |-> 0]

-----------------------------------------------------------------------------
VARIABLES
  killEscapedPhotons,  \* property "KillEscapedPhotons" of the job
  \* Members of SciFiSteppingAction.
  endRunRegistered, currentEventID, allEvents,
  seenPhotonTracks, fiberExitTracks, escapedFiber,
  cAll, cWLS, cPrim, runAll, runWLS, runPrim, perEventWLS,
  \* Its output: the frames of the main file, the histograms beside them.
  frames, histograms,
  \* Collection of the sensitive detector: tracks that made a hit.
  hits,
  \* Geant4: run, event and photon being processed.
  phase, run, event, kind, primarySteps, photon,
  \* History, read by the properties only.
  fate,        \* of each photon of the event: how it was counted when it died
  inside,      \* photons of the event created inside the readout
  touched,     \* photons of the event that crossed into the readout
  crossings,   \* number of such crossings in each event of the run
  tally,       \* photons of the job by the way they were counted
  processed    \* events of the job that have ended

actionVars == <<endRunRegistered, currentEventID, allEvents, seenPhotonTracks,
                fiberExitTracks, escapedFiber, cAll, cWLS, cPrim, runAll,
                runWLS, runPrim, perEventWLS>>
outputVars == <<frames, histograms>>
geantVars == <<phase, run, event, kind, primarySteps>>
historyVars == <<fate, inside, touched, crossings, tally, processed>>
vars == <<killEscapedPhotons, actionVars, outputVars, hits, geantVars, photon, historyVars>>

Alive == "alive"

\* Step status of the end of a step, and of the start of a track.
Statuses == {"GeomBoundary", "PostStepDoIt", "WorldBoundary", "Undefined"}

\* A photon in flight: the volume it is in, the volume it was reflected from
\* (where its next, zero-length, step takes it back), the status its last
\* step ended with, its creator and the steps it has made.
Photons == [id : Tracks, vol : Volumes, back : Volumes \cup {NoVolume},
            from : Statuses, creator : Creators, steps : 0 .. MaxSteps]

NoPhoton == [vol |-> NoVolume]

InFlight == photon.vol # NoVolume

EventData == [present : BOOLEAN, photons : Nat, primaries : Nat]

NoHistograms == [written |-> FALSE, all |-> Zero, wls |-> Zero, prim |-> Zero,
                 events |-> 0]

Init ==
  /\ killEscapedPhotons \in KillEscapedChoices
  /\ endRunRegistered = FALSE
  /\ currentEventID = -1
  /\ allEvents = [e \in EventIDs |-> NoData]
  /\ seenPhotonTracks = {} /\ fiberExitTracks = {} /\ escapedFiber = {}
  /\ cAll = Zero /\ cWLS = Zero /\ cPrim = Zero
  /\ runAll = Zero /\ runWLS = Zero /\ runPrim = Zero
  /\ perEventWLS = << >>
  /\ frames = << >> /\ histograms = NoHistograms
  /\ hits = {}
  /\ phase = "idle" /\ run = 0 /\ event = -1 /\ kind = "empty"
  /\ primarySteps = 0
  /\ photon = NoPhoton
  /\ fate = [t \in Tracks |-> Alive]
  /\ inside = {} /\ touched = {}
  /\ crossings = [e \in EventIDs |-> 0]
  /\ tally = [f \in Losses |-> 0] /\ processed = 0

-----------------------------------------------------------------------------
(***************************************************************************)
(* Geant4: runs and events.  Every run numbers its events from 0 and opens *)
(* its output file anew; the output action appends a frame to it when an   *)
(* event ends.                                                             *)
(***************************************************************************)
StartRun ==
  /\ phase = "idle" /\ run < MaxRuns
  /\ phase' = "run" /\ run' = run + 1 /\ event' = -1
  /\ frames' = << >> /\ histograms' = NoHistograms
  /\ crossings' = [e \in EventIDs |-> 0]
  /\ UNCHANGED <<actionVars, hits, kind, primarySteps, photon,
                 fate, inside, touched, tally, processed>>

StartEvent(k) ==
  /\ phase = "run" /\ event + 1 \in EventIDs
  /\ phase' = "event" /\ event' = event + 1 /\ kind' = k
  /\ primarySteps' = 0
  /\ hits' = {}
  /\ fate' = [t \in Tracks |-> Alive]
  /\ inside' = {} /\ touched' = {}
  /\ UNCHANGED <<actionVars, outputVars, run, photon, crossings, tally, processed>>

EndEvent ==
  /\ phase = "event" /\ ~ InFlight
  /\ kind = "charged" => primarySteps > 0
  /\ kind = "optical" => \E t \in Tracks : fate[t] # Alive
  /\ phase' = "run"
  /\ frames' = Append(frames, [id |-> event, data |-> NoData])
  /\ processed' = processed + 1
  /\ UNCHANGED <<actionVars, histograms, hits, run, event, kind, primarySteps,
                 photon, fate, inside, touched, crossings, tally>>

\* Photons of the job followed to their end.
Followed == MapThenSumSet(LAMBDA f : tally[f], Losses)

\* Geant4 creates a photon and starts to follow it.
Emit(t, creator, v) ==
  /\ phase = "event" /\ ~ InFlight /\ Followed < MaxPhotons
  /\ kind = "charged" => primarySteps > 0
  /\ fate[t] = Alive
  /\ creator \in CreatorsIn(kind) /\ v \in BornIn(creator)
  /\ photon' = [id |-> t, vol |-> v, back |-> NoVolume, from |-> "Undefined",
                creator |-> creator, steps |-> 0]
  /\ inside' = IF v \in Readout THEN inside \cup {t} ELSE inside
  /\ UNCHANGED <<actionVars, outputVars, hits, geantVars, fate, touched,
                 crossings, tally, processed>>

(***************************************************************************)
(* What one Geant4 step can do to the photon: cross or be reflected on a   *)
(* surface, be absorbed there, scatter, be absorbed or shifted in the      *)
(* volume, be ended by another process, or leave the world.  A reflected   *)
(* photon first makes a zero-length step back.                             *)
(***************************************************************************)
Step(post, status, track, proc, length, surface) ==
  [post |-> post, status |-> status, track |-> track, proc |-> proc,
   length |-> length, surface |-> surface]

ZeroLengthReturn(p) ==
  {Step(p.back, "GeomBoundary", "alive", "Transportation", "zero", "crossed")}

Crossings(p) ==
  {Step(w, "GeomBoundary", "alive", "Transportation", "positive", r) :
     w \in Touching(p.vol), r \in {"crossed", "reflected"}}

SurfaceAbsorptions(p) ==
  {Step(w, "GeomBoundary", "killed", "Transportation", "positive", "crossed") :
     w \in Touching(p.vol)}

Scatterings(p) ==
  {Step(p.vol, "PostStepDoIt", "alive", "OpRayleigh", "positive", "crossed")}

VolumeDeaths(p) ==
  {Step(p.vol, "PostStepDoIt", "killed", proc, "positive", "crossed") :
     proc \in {"OpAbsorption", "OpWLS", "StepLimiter"}}

WorldExits(p) ==
  {Step(NoVolume, "WorldBoundary", "killed", proc, "positive", "crossed") :
     proc \in {x \in {"Transportation"} : p.vol = "World"}}

Outcomes(p) ==
  IF p.back # NoVolume THEN ZeroLengthReturn(p)
  ELSE UNION {Crossings(p), SurfaceAbsorptions(p), Scatterings(p),
              VolumeDeaths(p), WorldExits(p)}

-----------------------------------------------------------------------------
(***************************************************************************)
(* Geant4SciFiOpticalTrackerAction::process, called before the stepping    *)
(* action for a step inside a sensitive pixel: a photon that has entered   *)
(* it is killed, and makes a hit if its PDE is known and the draw passes.  *)
(***************************************************************************)
IsEntry(p, o) ==
  p.vol = "PixelSensitive" /\ p.from = "GeomBoundary" /\ o.length # "zero"

SensitiveProcess(p, o, passed) ==
  hits' = IF IsEntry(p, o) /\ HasEfficiency /\ passed
          THEN hits \cup {p.id} ELSE hits

-----------------------------------------------------------------------------
(***************************************************************************)
(* operator(): the first step ever registers endRun; the first step of an  *)
(* event folds the event before it into the run totals (beginEvent) and    *)
(* clears what is kept per event.                                          *)
(***************************************************************************)
NewEvent == event # currentEventID

\* Mutant: beginEvent does not clear the state of the event before.
FreshNotCleared(x, cleared) == x

Fresh(x, cleared) == IF NewEvent THEN cleared ELSE x

\* Mutant: event 0 is taken for "nothing to fold yet".
FoldingFromOne == NewEvent /\ currentEventID > 0

Folding == NewEvent /\ currentEventID >= 0

\* Mutant: the primary photons are left out of the fold.
foldWithoutPrimaries ==
  /\ runAll' = Plus(runAll, cAll)
  /\ runWLS' = Plus(runWLS, cWLS)
  /\ UNCHANGED runPrim
  /\ perEventWLS' = Append(perEventWLS, cWLS)

foldCurrentEventIntoTotals ==
  /\ runAll' = Plus(runAll, cAll)
  /\ runWLS' = Plus(runWLS, cWLS)
  /\ runPrim' = Plus(runPrim, cPrim)
  /\ perEventWLS' = Append(perEventWLS, cWLS)

beginEvent ==
  /\ endRunRegistered' = TRUE
  /\ currentEventID' = event
  /\ IF Folding THEN foldCurrentEventIntoTotals
     ELSE UNCHANGED <<runAll, runWLS, runPrim, perEventWLS>>

\* Mutant: the entry is looked up before beginEvent sets m_currentEventID.
RecordInPrevious(photons, primaries) ==
  [e \in EventIDs |->
     IF e = currentEventID
     THEN [present |-> TRUE, photons |-> allEvents[e].photons + photons,
           primaries |-> allEvents[e].primaries + primaries]
     ELSE allEvents[e]]

\* m_allEvents[m_currentEventID], which creates the entry.
Record(photons, primaries) ==
  [allEvents EXCEPT ![event] = [present |-> TRUE, photons |-> @.photons + photons,
                                primaries |-> @.primaries + primaries]]

processPrimary ==
  /\ phase = "event" /\ kind = "charged" /\ ~ InFlight
  /\ primarySteps < MaxPrimarySteps
  /\ beginEvent
  /\ seenPhotonTracks' = Fresh(seenPhotonTracks, {})
  /\ fiberExitTracks' = Fresh(fiberExitTracks, {})
  /\ escapedFiber' = Fresh(escapedFiber, {})
  /\ cAll' = Fresh(cAll, Zero)
  /\ cWLS' = Fresh(cWLS, Zero)
  /\ cPrim' = Fresh(cPrim, Zero)
  /\ allEvents' = Record(0, 1)
  /\ primarySteps' = primarySteps + 1
  /\ UNCHANGED <<outputVars, hits, phase, run, event, kind, photon, historyVars>>

-----------------------------------------------------------------------------
(***************************************************************************)
(* processOpticalPhoton.                                                   *)
(***************************************************************************)
IsWLS(p) == p.creator = "OpWLS"

\* The track status the stepping action finds.
KilledByGeant4(p, o) == o.track = "killed" \/ IsEntry(p, o)

OnSurface(o) == o.status = "GeomBoundary"

PostLV(p, o) == IF KilledByGeant4(p, o) THEN NoVolume ELSE o.post

LeavesFiber(p, o) ==
  OnSurface(o) /\ p.vol \in Clads /\ PostLV(p, o) = "MatSlab2"

\* Mutant: only the pixels count as the SiPM.
EntersPixels(p, o) ==
  OnSurface(o) /\ PostLV(p, o) \in {"Pixel", "PixelSensitive"} /\ p.vol \notin Readout

EntersReadout(p, o) ==
  OnSurface(o) /\ PostLV(p, o) \in Readout /\ p.vol \notin Readout

\* Mutant: KillEscapedPhotons is not honoured.
KilledByUsInPixel(p, o) == OnSurface(o) /\ PostLV(p, o) = "Pixel"

KilledByUs(p, o) ==
  \/ OnSurface(o) /\ PostLV(p, o) = "Pixel"
  \/ killEscapedPhotons /\ LeavesFiber(p, o)

Dies(p, o) == KilledByGeant4(p, o) \/ KilledByUs(p, o)

\* Counters a photon increments on its first step, in m_cAll, m_cWLS, m_cPrim.
Origin(p) ==
  CASE p.creator = "Scintillation" -> {"nTotal", "nScint"}
    [] p.creator = "Cerenkov" -> {"nTotal", "nCerenkov"}
    [] p.creator = "OpWLS" -> {"nTotal", "nWLSCreated"}
    [] OTHER -> {"nTotal"}

OriginInAll(p) == IF IsWLS(p) THEN {"nWLSCreated"} ELSE Origin(p)

\* Absorption, by the volume it happened in.
classifyAbsorption(p, o, escaped) ==
  CASE p.vol = "Core" -> IF o.proc = "OpWLS" THEN "nAbsWLS" ELSE "nAbsAtten"
    [] p.vol \in Clads -> "nAbsClad"
    [] p.vol \in Readout -> "nAbsSiPM"
    [] OTHER -> IF p.id \in escaped THEN "nNonCaptured" ELSE "nAbsUnknown"

\* Mutant: the kill is looked at before the fibre exit.
classifyKillFirst(p, o, exited, escaped) ==
  IF KilledByUs(p, o) THEN "nLostEscaped"
  ELSE IF p.id \in exited THEN "nDetected"
  ELSE IF o.post = NoVolume THEN "nLostWorld"
  ELSE IF o.proc \in {"OpAbsorption", "OpWLS"}
       THEN classifyAbsorption(p, o, escaped)
  ELSE IF OnSurface(o) THEN "nLostSurface" ELSE "nLostOther"

classifyLoss(p, o, exited, escaped) ==
  IF p.id \in exited THEN "nDetected"
  ELSE IF KilledByUs(p, o) THEN "nLostEscaped"
  ELSE IF o.post = NoVolume THEN "nLostWorld"
  ELSE IF o.proc \in {"OpAbsorption", "OpWLS"}
       THEN classifyAbsorption(p, o, escaped)
  ELSE IF OnSurface(o) THEN "nLostSurface" ELSE "nLostOther"

\* Where the photon is after a step it survives.
Moved(p, o) ==
  [p EXCEPT !.vol = o.post, !.from = o.status,
            !.steps = IF p.back = NoVolume THEN @ + 1 ELSE @,
            !.back = IF o.surface = "reflected" THEN p.vol ELSE NoVolume]

processOpticalPhoton(o, passed) ==
  LET p == photon
      new == p.id \notin Fresh(seenPhotonTracks, {})
      exits == EntersReadout(p, o)
      exited == Fresh(fiberExitTracks, {}) \cup (IF exits THEN {p.id} ELSE {})
      escaped == Fresh(escapedFiber, {}) \cup (IF LeavesFiber(p, o) THEN {p.id} ELSE {})
      loss == classifyLoss(p, o, exited, escaped)
      common == (IF exits THEN {"nFiberExits"} ELSE {})
                \cup (IF Dies(p, o) THEN {loss} ELSE {})
      own == common \cup (IF new THEN Origin(p) ELSE {})
  IN
  /\ phase = "event"
  /\ Dies(p, o) \/ p.back # NoVolume \/ p.steps + 1 < MaxSteps
  /\ beginEvent
  /\ SensitiveProcess(p, o, passed)
  /\ seenPhotonTracks' = Fresh(seenPhotonTracks, {}) \cup {p.id}
  /\ fiberExitTracks' = exited
  /\ escapedFiber' = escaped
  /\ cAll' = Count(Fresh(cAll, Zero),
                   common \cup (IF new THEN OriginInAll(p) ELSE {}))
  /\ cWLS' = Count(Fresh(cWLS, Zero), IF IsWLS(p) THEN own ELSE {})
  /\ cPrim' = Count(Fresh(cPrim, Zero), IF IsWLS(p) THEN {} ELSE own)
  /\ allEvents' = IF exits THEN Record(1, 0) ELSE allEvents
  /\ photon' = IF Dies(p, o) THEN NoPhoton ELSE Moved(p, o)
  /\ fate' = IF Dies(p, o) THEN [fate EXCEPT ![p.id] = loss] ELSE fate
  /\ tally' = IF Dies(p, o) THEN [tally EXCEPT ![loss] = @ + 1] ELSE tally
  /\ touched' = IF exits THEN touched \cup {p.id} ELSE touched
  /\ crossings' = IF exits THEN [crossings EXCEPT ![event] = @ + 1] ELSE crossings
  /\ UNCHANGED <<outputVars, geantVars, inside, processed>>

-----------------------------------------------------------------------------
(***************************************************************************)
(* endRun, once registered: fold the last event, merge the per-event data  *)
(* into the frames (frame i takes the data of event i), write the          *)
(* histograms.  Reopening the file for the histograms may fail.            *)
(***************************************************************************)
\* What m_allEvents holds for an event id, if it has an entry.
EventDataOf(e) == IF e \in EventIDs THEN allEvents[e] ELSE NoData

mergeIntoMainOutput ==
  IF \E e \in EventIDs : allEvents[e].present
  THEN /\ frames' = [i \in 1 .. Len(frames) |->
                       [frames[i] EXCEPT !.data = EventDataOf(i - 1)]]
       /\ allEvents' = [e \in EventIDs |-> NoData]
  ELSE UNCHANGED <<frames, allEvents>>

writeSummaryHistograms ==
  \/ histograms' = [written |-> TRUE, all |-> runAll', wls |-> runWLS',
                    prim |-> runPrim', events |-> Len(perEventWLS')]
  \/ UNCHANGED histograms

endRun ==
  /\ IF currentEventID >= 0 THEN foldCurrentEventIntoTotals
     ELSE UNCHANGED <<runAll, runWLS, runPrim, perEventWLS>>
  /\ IF OutputFile THEN mergeIntoMainOutput /\ writeSummaryHistograms
     ELSE UNCHANGED <<frames, allEvents, histograms>>
  /\ UNCHANGED <<endRunRegistered, currentEventID, seenPhotonTracks,
                 fiberExitTracks, escapedFiber, cAll, cWLS, cPrim>>

EndRun ==
  /\ phase = "run" /\ event >= 0
  /\ phase' = "idle"
  /\ IF endRunRegistered THEN endRun ELSE UNCHANGED <<actionVars, outputVars>>
  /\ UNCHANGED <<hits, run, event, kind, primarySteps, photon, historyVars>>

-----------------------------------------------------------------------------
Advance ==
  \/ StartRun
  \/ \E k \in EventKinds : StartEvent(k)
  \/ EndEvent
  \/ \E t \in Tracks, creator \in Creators, v \in Volumes : Emit(t, creator, v)
  \/ processPrimary
  \/ /\ InFlight
     /\ \E o \in Outcomes(photon), passed \in BOOLEAN :
          processOpticalPhoton(o, passed)
  \/ EndRun

Next == Advance /\ UNCHANGED killEscapedPhotons

Spec == Init /\ [][Next]_vars

-----------------------------------------------------------------------------
(***************************************************************************)
(* Properties.                                                             *)
(***************************************************************************)
MembersOK ==
  /\ endRunRegistered \in BOOLEAN
  /\ currentEventID \in {-1} \cup EventIDs
  /\ allEvents \in [EventIDs -> EventData]
  /\ seenPhotonTracks \subseteq Tracks
  /\ fiberExitTracks \subseteq Tracks
  /\ escapedFiber \subseteq Tracks

CountersOK ==
  /\ cAll \in [Fields -> Nat] /\ cWLS \in [Fields -> Nat] /\ cPrim \in [Fields -> Nat]
  /\ runAll \in [Fields -> Nat] /\ runWLS \in [Fields -> Nat]
  /\ runPrim \in [Fields -> Nat]
  /\ perEventWLS \in Seq([Fields -> Nat])

OutputOK ==
  /\ frames \in Seq([id : EventIDs, data : EventData])
  /\ histograms \in [written : BOOLEAN, all : [Fields -> Nat],
                     wls : [Fields -> Nat], prim : [Fields -> Nat], events : Nat]
  /\ hits \subseteq Tracks

GeantOK ==
  /\ phase \in {"idle", "run", "event"}
  /\ run \in 0 .. MaxRuns /\ event \in {-1} \cup EventIDs
  /\ phase = "event" => event \in EventIDs
  /\ kind \in EventKinds \cup {"empty"} /\ primarySteps \in 0 .. MaxPrimarySteps
  /\ photon \in Photons \cup {NoPhoton}

HistoryOK ==
  /\ fate \in [Tracks -> Losses \cup {Alive}]
  /\ inside \subseteq Tracks /\ touched \subseteq Tracks
  /\ crossings \in [EventIDs -> Nat]
  /\ tally \in [Losses -> Nat] /\ processed \in Nat

StateOK == MembersOK /\ CountersOK /\ OutputOK /\ GeantOK /\ HistoryOK

\* The members, the counters, the output, the environment and the history have
\* their types, and the counters are natural numbers.
TypeOK == killEscapedPhotons \in BOOLEAN /\ StateOK

\* The counters and sets the action holds are those of the event Geant4 is in:
\* false between the start of an event and its first step.
Current == currentEventID = event

\* Photons of the event counted under f when they died.
Counted(f) == {t \in Tracks : fate[t] = f}

(***************************************************************************)
(* classifyLoss is called once on m_cAll and once on m_cWLS or m_cPrim;    *)
(* whatever the order of steps, events and runs, the two breakdowns agree: *)
(* apart from nTotal and nWLSCreated, "all" is "WLS" plus "primary", in    *)
(* the event's counters and in the run's.                                  *)
(***************************************************************************)
SplitFields == Fields \ {"nTotal", "nWLSCreated"}

AllIsWLSPlusPrimary ==
  \A f \in SplitFields :
    /\ cAll[f] = cWLS[f] + cPrim[f]
    /\ runAll[f] = runWLS[f] + runPrim[f]

(***************************************************************************)
(* In a job of one run, a photon is counted under one loss exactly once,   *)
(* in the event it died in: every loss counter is the number of photons    *)
(* of the event that met that destiny.                                     *)
(***************************************************************************)
EveryDeathCountedOnce ==
  Current => \A f \in Losses : cAll[f] = Cardinality(Counted(f))

(***************************************************************************)
(* In a job of one run, the run totals at its end are the deaths of all    *)
(* its events, the last one included, each folded once, and the histograms *)
(* are those of all events.                                                *)
(***************************************************************************)
RunTotalsAreTheDeaths ==
  (phase = "idle" /\ endRunRegistered) =>
    /\ \A f \in Losses : runAll[f] = tally[f]
    /\ histograms.written =>
         /\ \A f \in Losses : histograms.all[f] = tally[f]
         /\ histograms.events = event + 1

(***************************************************************************)
(* A photon is counted as detected exactly when it crossed into the        *)
(* readout in its life, whatever killed it afterwards: the pixel kill, the *)
(* sensitive detector, an absorption or the world's end. And the sensitive *)
(* detector agrees, although neither knows the other: a photon born        *)
(* outside the readout that made a hit is among the detected ones, and one *)
(* that sits in a readout volume is already registered as an exit.         *)
(***************************************************************************)
DetectedIffTouched ==
  /\ \A t \in Tracks : fate[t] # Alive => (fate[t] = "nDetected" <=> t \in touched)
  /\ \A t \in hits \ inside : fate[t] = "nDetected"
  /\ InFlight /\ photon.vol \in Readout /\ photon.id \notin inside
       => photon.id \in fiberExitTracks

(***************************************************************************)
(* The photons merged into frame i are the crossings into the readout of   *)
(* the event that frame belongs to, though the merge pairs them by the     *)
(* frame's index and not by its event id.                                  *)
(***************************************************************************)
FramesHoldTheirOwnEvent ==
  (phase = "idle" /\ OutputFile) =>
    \A i \in 1 .. Len(frames) :
      frames[i].data.photons = crossings[frames[i].id]

\* No event is folded into the run totals twice.
EachEventFoldedOnce == Len(perEventWLS) <= processed

\* With KillEscapedPhotons no photon lives to be absorbed outside its fibre
\* after it left it.
KilledPhotonsAreNotNonCaptured ==
  killEscapedPhotons => cAll["nNonCaptured"] + runAll["nNonCaptured"] = 0

=============================================================================
