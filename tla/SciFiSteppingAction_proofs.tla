--------------------- MODULE SciFiSteppingAction_proofs ---------------------
(***************************************************************************)
(* Proofs about SciFiSteppingAction, for every set of tracks, geometry     *)
(* walk and number of events and runs.                                     *)
(***************************************************************************)
EXTENDS SciFiSteppingAction, FiniteSetTheorems, SequenceTheorems, TLAPS

Counters == [Fields -> Nat]

LEMMA EventIDsAreInts == EventIDs \subseteq Int /\ 0 \in EventIDs /\ -1 \notin EventIDs
BY BoundsAssumption DEF EventIDs

\* Zero, Plus, Count and Fresh stay among the counters.
LEMMA CountersClosed ==
  /\ Zero \in Counters
  /\ \A c, d \in Counters : Plus(c, d) \in Counters
  /\ \A c \in Counters : \A F : Count(c, F) \in Counters
  /\ \A c \in Counters : Fresh(c, Zero) \in Counters
BY DEF Counters, Zero, Plus, Count, Fresh

LEMMA LossesAreFields == Losses \subseteq Fields
BY DEF Losses, Fields

\* Every way a photon dies is one of the losses.
LEMMA ClassifyLossType ==
  ASSUME NEW p, NEW o, NEW exited, NEW escaped
  PROVE  classifyLoss(p, o, exited, escaped) \in Losses
BY DEF classifyLoss, classifyAbsorption, Losses

\* A photon in flight is a photon.
LEMMA InFlightPhoton == GeantOK /\ InFlight => photon \in Photons
BY DEF GeantOK, InFlight, NoPhoton

\* Where a step ends is a volume, or outside the world.
OutcomeType(o) ==
  /\ o.post \in Volumes \cup {NoVolume}
  /\ o.post = NoVolume => o.track = "killed"
  /\ o.status \in Statuses
  /\ o.track = "alive" \/ o.track = "killed"

LEMMA OutcomeTypes ==
  ASSUME NEW p \in Photons, NEW o \in Outcomes(p)
  PROVE  OutcomeType(o)
<1>0. NoVolume \notin Volumes /\ p.vol \in Volumes /\ p.back \in Volumes \cup {NoVolume}
  BY DEF NoVolume, Volumes, Clads, Readout, Photons
<1>1. CASE p.back # NoVolume
  BY <1>0, <1>1 DEF Outcomes, ZeroLengthReturn, Step, OutcomeType, Statuses
<1> HIDE DEF Volumes
<1>t. Touching(p.vol) \subseteq Volumes
  BY DEF Touching
<1>2. CASE o \in Crossings(p)
  <2>1. PICK w \in Touching(p.vol), r \in {"crossed", "reflected"} :
          o = Step(w, "GeomBoundary", "alive", "Transportation", "positive", r)
    BY <1>2 DEF Crossings
  <2>2. o.post = w /\ o.status = "GeomBoundary" /\ o.track = "alive"
    BY <2>1 DEF Step
  <2>3. QED
    BY <1>0, <1>t, <2>2 DEF OutcomeType, Statuses
<1>3. CASE o \in SurfaceAbsorptions(p)
  <2>1. PICK w \in Touching(p.vol) :
          o = Step(w, "GeomBoundary", "killed", "Transportation", "positive", "crossed")
    BY <1>3 DEF SurfaceAbsorptions
  <2>2. o.post = w /\ o.status = "GeomBoundary" /\ o.track = "killed"
    BY <2>1 DEF Step
  <2>3. QED
    BY <1>0, <1>t, <2>2 DEF OutcomeType, Statuses
<1>4. CASE o \in Scatterings(p) \cup VolumeDeaths(p) \cup WorldExits(p)
  BY <1>0, <1>4 DEF Scatterings, VolumeDeaths, WorldExits, Step, OutcomeType, Statuses
<1>5. QED
  BY <1>1, <1>2, <1>3, <1>4 DEF Outcomes

LEMMA InitStateOK == Init => StateOK
<1> SUFFICES ASSUME Init PROVE StateOK
  OBVIOUS
<1>1. MembersOK
  BY DEF Init, MembersOK, NoData, EventData
<1>2. CountersOK
  BY CountersClosed DEF Init, CountersOK, Counters
<1>3. OutputOK
  BY CountersClosed DEF Init, OutputOK, NoHistograms, Counters
<1>4. GeantOK
  BY BoundsAssumption DEF Init, GeantOK
<1>5. HistoryOK
  BY DEF Init, HistoryOK
<1>6. QED
  BY <1>1, <1>2, <1>3, <1>4, <1>5 DEF StateOK

\* Folding an event keeps the run totals' types.
LEMMA FoldType ==
  ASSUME CountersOK, foldCurrentEventIntoTotals
  PROVE  /\ runAll' \in Counters /\ runWLS' \in Counters /\ runPrim' \in Counters
         /\ perEventWLS' \in Seq(Counters)
<1>1. /\ runAll \in Counters /\ cAll \in Counters /\ runWLS \in Counters
      /\ cWLS \in Counters /\ runPrim \in Counters /\ cPrim \in Counters
      /\ perEventWLS \in Seq(Counters)
  BY DEF CountersOK, Counters
<1>2. QED
  BY <1>1, CountersClosed DEF foldCurrentEventIntoTotals

\* The part common to every call of operator().
LEMMA BeginEventType ==
  ASSUME StateOK, beginEvent, event \in EventIDs
  PROVE  /\ endRunRegistered' \in BOOLEAN
         /\ currentEventID' \in {-1} \cup EventIDs
         /\ runAll' \in Counters /\ runWLS' \in Counters /\ runPrim' \in Counters
         /\ perEventWLS' \in Seq(Counters)
<1>1. endRunRegistered' \in BOOLEAN /\ currentEventID' \in {-1} \cup EventIDs
  BY DEF beginEvent
<1>2. CASE Folding
  BY <1>1, <1>2, FoldType DEF StateOK, beginEvent
<1>3. CASE ~ Folding
  BY <1>1, <1>3 DEF StateOK, CountersOK, beginEvent, Counters
<1>4. QED
  BY <1>2, <1>3

LEMMA RecordType ==
  ASSUME MembersOK, NEW n \in Nat, NEW m \in Nat
  PROVE  Record(n, m) \in [EventIDs -> EventData]
<1> DEFINE d(e) == [present |-> TRUE, photons |-> allEvents[e].photons + n,
                    primaries |-> allEvents[e].primaries + m]
<1>1. \A e \in EventIDs : d(e) \in EventData
  BY DEF MembersOK, EventData
<1>2. Record(n, m) = [allEvents EXCEPT ![event] = d(event)]
  BY DEF Record
<1>3. QED
  BY <1>1, <1>2 DEF MembersOK

LEMMA StartRunStateOK == StateOK /\ StartRun => StateOK'
<1> SUFFICES ASSUME StateOK, StartRun PROVE StateOK'
  OBVIOUS
<1>1. MembersOK' /\ CountersOK'
  BY DEF StateOK, StartRun, actionVars, MembersOK, CountersOK
<1>2. OutputOK'
  BY CountersClosed DEF StateOK, StartRun, OutputOK, NoHistograms, Counters
<1>3. GeantOK' /\ HistoryOK'
  BY BoundsAssumption DEF StateOK, StartRun, GeantOK, HistoryOK
<1>4. QED
  BY <1>1, <1>2, <1>3 DEF StateOK

LEMMA StartEventStateOK ==
  ASSUME StateOK, NEW k \in EventKinds, StartEvent(k)
  PROVE  StateOK'
<1>1. MembersOK' /\ CountersOK'
  BY DEF StateOK, StartEvent, actionVars, MembersOK, CountersOK
<1>2. OutputOK'
  BY DEF StateOK, StartEvent, outputVars, OutputOK
<1>3. GeantOK' /\ HistoryOK'
  BY BoundsAssumption DEF StateOK, StartEvent, GeantOK, HistoryOK
<1>4. QED
  BY <1>1, <1>2, <1>3 DEF StateOK

LEMMA EndEventStateOK == StateOK /\ EndEvent => StateOK'
<1> SUFFICES ASSUME StateOK, EndEvent PROVE StateOK'
  OBVIOUS
<1>1. MembersOK' /\ CountersOK'
  BY DEF StateOK, EndEvent, actionVars, MembersOK, CountersOK
<1>2. OutputOK'
  <2>1. [id |-> event, data |-> NoData] \in [id : EventIDs, data : EventData]
    BY DEF StateOK, GeantOK, EndEvent, NoData, EventData
  <2>2. QED
    BY <2>1 DEF StateOK, EndEvent, OutputOK
<1>3. GeantOK' /\ HistoryOK'
  BY DEF StateOK, EndEvent, GeantOK, HistoryOK
<1>4. QED
  BY <1>1, <1>2, <1>3 DEF StateOK

LEMMA EmitStateOK ==
  ASSUME StateOK, NEW t \in Tracks, NEW creator \in Creators, NEW v \in Volumes,
         Emit(t, creator, v)
  PROVE  StateOK'
<1>1. MembersOK' /\ CountersOK' /\ OutputOK'
  BY DEF StateOK, Emit, actionVars, outputVars, MembersOK, CountersOK, OutputOK
<1>2. photon' \in Photons
  BY BoundsAssumption DEF Emit, Photons, Statuses
<1>3. GeantOK' /\ HistoryOK'
  BY <1>2 DEF StateOK, Emit, geantVars, GeantOK, HistoryOK
<1>4. QED
  BY <1>1, <1>3 DEF StateOK

LEMMA ProcessPrimaryStateOK == StateOK /\ processPrimary => StateOK'
<1> SUFFICES ASSUME StateOK, processPrimary PROVE StateOK'
  OBVIOUS
<1>0. event \in EventIDs /\ beginEvent
  BY DEF StateOK, GeantOK, processPrimary
<1>1. MembersOK'
  BY <1>0, BeginEventType, RecordType DEF StateOK, MembersOK, processPrimary, Fresh
<1>2. CountersOK'
  BY <1>0, BeginEventType, CountersClosed
     DEF StateOK, CountersOK, processPrimary, Counters
<1>3. OutputOK' /\ HistoryOK'
  BY DEF StateOK, OutputOK, HistoryOK, processPrimary, outputVars, historyVars
<1>4. GeantOK'
  BY BoundsAssumption DEF StateOK, GeantOK, processPrimary
<1>5. QED
  BY <1>1, <1>2, <1>3, <1>4 DEF StateOK

LEMMA ProcessOpticalPhotonStateOK ==
  ASSUME StateOK, InFlight, NEW o \in Outcomes(photon), NEW passed \in BOOLEAN,
         processOpticalPhoton(o, passed)
  PROVE  StateOK'
<1>0. /\ event \in EventIDs /\ beginEvent /\ photon \in Photons
      /\ photon.id \in Tracks /\ OutcomeType(o)
  BY InFlightPhoton, OutcomeTypes DEF StateOK, GeantOK, processOpticalPhoton, Photons
<1>1. MembersOK'
  BY <1>0, BeginEventType, RecordType
     DEF StateOK, MembersOK, processOpticalPhoton, Fresh
<1>2. CountersOK'
  BY <1>0, BeginEventType, CountersClosed
     DEF StateOK, CountersOK, processOpticalPhoton, Counters
<1>3. OutputOK'
  BY <1>0 DEF StateOK, OutputOK, processOpticalPhoton, outputVars, SensitiveProcess
<1>4. HistoryOK'
  BY <1>0, ClassifyLossType DEF StateOK, HistoryOK, processOpticalPhoton
<1>5. GeantOK'
  <2>1. CASE Dies(photon, o)
    BY <2>1 DEF StateOK, GeantOK, processOpticalPhoton, geantVars
  <2>2. CASE ~ Dies(photon, o)
    <3>1. o.post \in Volumes
      BY <1>0, <2>2 DEF OutcomeType, Dies, KilledByGeant4
    <3>2. photon.back = NoVolume => photon.steps + 1 \in 0 .. MaxSteps
      BY <1>0, <2>2, BoundsAssumption DEF processOpticalPhoton, Photons
    <3>3. Moved(photon, o) \in Photons
      BY <1>0, <3>1, <3>2 DEF Moved, Photons, OutcomeType
    <3>4. QED
      BY <2>2, <3>3 DEF StateOK, GeantOK, processOpticalPhoton, geantVars
  <2>3. QED
    BY <2>1, <2>2
<1>6. QED
  BY <1>1, <1>2, <1>3, <1>4, <1>5 DEF StateOK

\* Merging keeps the types of the frames and of m_allEvents.
LEMMA MergeType ==
  ASSUME StateOK, mergeIntoMainOutput
  PROVE  /\ frames' \in Seq([id : EventIDs, data : EventData])
         /\ allEvents' \in [EventIDs -> EventData]
<1>1. NoData \in EventData /\ \A i : EventDataOf(i) \in EventData
  BY DEF StateOK, MembersOK, EventDataOf, NoData, EventData
<1>2. CASE UNCHANGED <<frames, allEvents>>
  BY <1>2 DEF StateOK, MembersOK, OutputOK
<1>3. CASE /\ frames' = [i \in 1 .. Len(frames) |->
                           [frames[i] EXCEPT !.data = EventDataOf(i - 1)]]
           /\ allEvents' = [e \in EventIDs |-> NoData]
  <2>1. frames \in Seq([id : EventIDs, data : EventData])
    BY DEF StateOK, OutputOK
  <2>2. \A i \in 1 .. Len(frames) :
          [frames[i] EXCEPT !.data = EventDataOf(i - 1)] \in [id : EventIDs, data : EventData]
    <3> TAKE i \in 1 .. Len(frames)
    <3>1. frames[i] \in [id : EventIDs, data : EventData]
      BY <2>1, ElementOfSeq
    <3>2. EventDataOf(i - 1) \in EventData
      BY <1>1
    <3>3. QED
      BY <3>1, <3>2
  <2>3. QED
    BY <1>1, <1>3, <2>1, <2>2
<1>4. QED
  BY <1>2, <1>3 DEF mergeIntoMainOutput

LEMMA EndRunStateOK == StateOK /\ EndRun => StateOK'
<1> SUFFICES ASSUME StateOK, EndRun PROVE StateOK'
  OBVIOUS
<1>1. GeantOK' /\ HistoryOK' /\ hits' = hits
  BY DEF StateOK, EndRun, GeantOK, HistoryOK, historyVars
<1>2. CASE ~ endRunRegistered
  BY <1>1, <1>2 DEF StateOK, EndRun, actionVars, outputVars, MembersOK, CountersOK, OutputOK
<1>3. CASE endRunRegistered
  <2>1. endRun
    BY <1>3 DEF EndRun
  <2>2. allEvents' \in [EventIDs -> EventData]
    <3>1. CASE OutputFile
      BY <2>1, <3>1, MergeType DEF endRun
    <3>2. CASE ~ OutputFile
      BY <2>1, <3>2 DEF StateOK, MembersOK, endRun
    <3>3. QED
      BY <3>1, <3>2
  <2>3. MembersOK'
    BY <2>1, <2>2 DEF StateOK, MembersOK, endRun
  <2>4. CountersOK'
    <3>1. UNCHANGED <<cAll, cWLS, cPrim>>
      BY <2>1 DEF endRun
    <3>2. CASE currentEventID >= 0
      BY <2>1, <3>1, <3>2, FoldType DEF StateOK, CountersOK, endRun, Counters
    <3>3. CASE ~ (currentEventID >= 0)
      BY <2>1, <3>1, <3>3 DEF StateOK, CountersOK, endRun
    <3>4. QED
      BY <3>2, <3>3
  <2>5. OutputOK'
    <3>1. frames' \in Seq([id : EventIDs, data : EventData])
      <4>1. CASE OutputFile
        BY <2>1, <4>1, MergeType DEF endRun
      <4>2. CASE ~ OutputFile
        BY <2>1, <4>2 DEF StateOK, OutputOK, endRun
      <4>3. QED
        BY <4>1, <4>2
    <3>2. Len(perEventWLS') \in Nat
      BY <2>4 DEF CountersOK
    <3>3. histograms' \in [written : BOOLEAN, all : [Fields -> Nat],
                            wls : [Fields -> Nat], prim : [Fields -> Nat],
                            events : Nat]
      <4>1. CASE UNCHANGED histograms
        BY <4>1 DEF StateOK, OutputOK
      <4>2. CASE histograms' = [written |-> TRUE, all |-> runAll', wls |-> runWLS',
                                prim |-> runPrim', events |-> Len(perEventWLS')]
        BY <2>4, <3>2, <4>2 DEF CountersOK
      <4>3. QED
        BY <2>1, <4>1, <4>2 DEF endRun, writeSummaryHistograms
    <3>4. QED
      BY <1>1, <3>1, <3>3 DEF StateOK, OutputOK
  <2>6. QED
    BY <1>1, <2>3, <2>4, <2>5 DEF StateOK
<1>4. QED
  BY <1>2, <1>3

LEMMA NextStateOK == StateOK /\ [Next]_vars => StateOK'
<1> SUFFICES ASSUME StateOK, [Next]_vars PROVE StateOK'
  OBVIOUS
<1>1. CASE Next
  BY <1>1, StartRunStateOK, StartEventStateOK, EndEventStateOK, EmitStateOK,
     ProcessPrimaryStateOK, ProcessOpticalPhotonStateOK, EndRunStateOK DEF Next, Advance
<1>2. CASE UNCHANGED vars
  BY <1>2 DEF vars, actionVars, outputVars, geantVars, historyVars, StateOK,
     MembersOK, CountersOK, OutputOK, GeantOK, HistoryOK
<1>3. QED
  BY <1>1, <1>2

\* Every member of the action keeps its type and every counter stays a natural
\* number, in every job.
THEOREM TypeCorrectness == Spec => []TypeOK
<1>1. Init => TypeOK
  BY InitStateOK, SwitchesAssumption DEF Init, TypeOK
<1>2. TypeOK /\ [Next]_vars => TypeOK'
  BY NextStateOK DEF TypeOK, Next, vars
<1>3. QED
  BY <1>1, <1>2, PTL DEF Spec

-----------------------------------------------------------------------------
(***************************************************************************)
(* The breakdowns agree, in every job.                                     *)
(***************************************************************************)
LEMMA SplitFieldsNumeric ==
  ASSUME CountersOK, NEW f \in SplitFields
  PROVE  /\ f \in Fields /\ f # "nTotal" /\ f # "nWLSCreated"
         /\ cAll[f] \in Nat /\ cWLS[f] \in Nat /\ cPrim[f] \in Nat
         /\ runAll[f] \in Nat /\ runWLS[f] \in Nat /\ runPrim[f] \in Nat
BY DEF CountersOK, SplitFields

\* Folding preserves the agreement of the run totals.
LEMMA FoldSplit ==
  ASSUME CountersOK, AllIsWLSPlusPrimary, foldCurrentEventIntoTotals,
         NEW f \in SplitFields
  PROVE  runAll'[f] = runWLS'[f] + runPrim'[f]
BY SplitFieldsNumeric DEF foldCurrentEventIntoTotals, Plus, AllIsWLSPlusPrimary

LEMMA BeginEventSplit ==
  ASSUME CountersOK, AllIsWLSPlusPrimary, beginEvent, NEW f \in SplitFields
  PROVE  /\ runAll'[f] = runWLS'[f] + runPrim'[f]
         /\ Fresh(cAll, Zero)[f] = Fresh(cWLS, Zero)[f] + Fresh(cPrim, Zero)[f]
<1>1. runAll'[f] = runWLS'[f] + runPrim'[f]
  BY FoldSplit DEF beginEvent, AllIsWLSPlusPrimary
<1>2. Fresh(cAll, Zero)[f] = Fresh(cWLS, Zero)[f] + Fresh(cPrim, Zero)[f]
  BY SplitFieldsNumeric DEF Fresh, Zero, AllIsWLSPlusPrimary
<1>3. QED
  BY <1>1, <1>2

\* The first step of a photon counts the same split fields in m_cAll as in the
\* counters of its origin.
LEMMA OriginSplit ==
  ASSUME NEW p, NEW f \in SplitFields
  PROVE  f \in OriginInAll(p) <=> f \in Origin(p) /\ ~ IsWLS(p)
BY DEF OriginInAll, Origin, IsWLS, SplitFields

LEMMA NextSplit == StateOK /\ AllIsWLSPlusPrimary /\ [Next]_vars => AllIsWLSPlusPrimary'
<1> SUFFICES ASSUME StateOK, AllIsWLSPlusPrimary, [Next]_vars,
                    NEW f \in SplitFields
             PROVE  /\ cAll'[f] = cWLS'[f] + cPrim'[f]
                    /\ runAll'[f] = runWLS'[f] + runPrim'[f]
  BY DEF AllIsWLSPlusPrimary
<1>0. CountersOK
  BY DEF StateOK
<1>1. CASE UNCHANGED <<cAll, cWLS, cPrim, runAll, runWLS, runPrim>>
  BY <1>1 DEF AllIsWLSPlusPrimary
<1>2. CASE processPrimary
  BY <1>0, <1>2, BeginEventSplit DEF processPrimary
<1>3. ASSUME InFlight, NEW o \in Outcomes(photon), NEW passed \in BOOLEAN,
             processOpticalPhoton(o, passed)
      PROVE  /\ cAll'[f] = cWLS'[f] + cPrim'[f]
             /\ runAll'[f] = runWLS'[f] + runPrim'[f]
  <2>1. /\ runAll'[f] = runWLS'[f] + runPrim'[f]
        /\ Fresh(cAll, Zero)[f] = Fresh(cWLS, Zero)[f] + Fresh(cPrim, Zero)[f]
    BY <1>0, <1>3, BeginEventSplit DEF processOpticalPhoton
  <2>2. /\ Fresh(cAll, Zero)[f] \in Nat /\ Fresh(cWLS, Zero)[f] \in Nat
        /\ Fresh(cPrim, Zero)[f] \in Nat /\ f \in Fields
    BY <1>0, CountersClosed, SplitFieldsNumeric DEF CountersOK, Counters
  <2> DEFINE common ==
        LET p == photon
            exits == EntersReadout(p, o)
            exited == Fresh(fiberExitTracks, {}) \cup (IF exits THEN {p.id} ELSE {})
            escaped == Fresh(escapedFiber, {}) \cup (IF LeavesFiber(p, o) THEN {p.id} ELSE {})
        IN (IF exits THEN {"nFiberExits"} ELSE {})
           \cup (IF Dies(p, o) THEN {classifyLoss(p, o, exited, escaped)} ELSE {})
      new == photon.id \notin Fresh(seenPhotonTracks, {})
      own == common \cup (IF new THEN Origin(photon) ELSE {})
      whole == common \cup (IF new THEN OriginInAll(photon) ELSE {})
  <2>3. /\ cAll' = Count(Fresh(cAll, Zero), whole)
        /\ cWLS' = Count(Fresh(cWLS, Zero), IF IsWLS(photon) THEN own ELSE {})
        /\ cPrim' = Count(Fresh(cPrim, Zero), IF IsWLS(photon) THEN {} ELSE own)
    BY <1>3 DEF processOpticalPhoton
  <2>a. IsWLS(photon) => (f \in whole <=> f \in common)
    BY OriginSplit
  <2>b. ~ IsWLS(photon) => (f \in whole <=> f \in own)
    BY OriginSplit
  <2> HIDE DEF common, new, own, whole
  <2>4. CASE IsWLS(photon)
    <3>1. f \in own <=> f \in common
      BY <2>4, OriginSplit DEF own, Origin, IsWLS, SplitFields
    <3>2. QED
      BY <2>1, <2>2, <2>3, <2>a, <2>4, <3>1 DEF Count
  <2>5. CASE ~ IsWLS(photon)
    BY <2>1, <2>2, <2>3, <2>b, <2>5 DEF Count
  <2>6. QED
    BY <2>4, <2>5
<1>4. CASE EndRun
  <2>1. UNCHANGED <<cAll, cWLS, cPrim>>
    BY <1>4 DEF EndRun, endRun, actionVars
  <2>2. foldCurrentEventIntoTotals \/ UNCHANGED <<runAll, runWLS, runPrim>>
    BY <1>4 DEF EndRun, endRun, actionVars
  <2>3. QED
    BY <1>0, <2>1, <2>2, FoldSplit DEF AllIsWLSPlusPrimary
<1>5. QED
  BY <1>1, <1>2, <1>3, <1>4 DEF Next, Advance, StartRun, StartEvent, EndEvent, Emit,
     actionVars, vars

\* Whatever the order of steps, events and runs, the counters of all photons
\* are those of the shifted plus those of the primary photons.
THEOREM BreakdownsAgree == Spec => []AllIsWLSPlusPrimary
<1>1. Init => AllIsWLSPlusPrimary
  BY DEF Init, AllIsWLSPlusPrimary, SplitFields, Zero
<1>2. TypeOK => StateOK
  BY DEF TypeOK
<1>3. QED
  BY <1>1, <1>2, NextSplit, TypeCorrectness, PTL DEF Spec

-----------------------------------------------------------------------------
(***************************************************************************)
(* What the frames hold, in every job.                                     *)
(***************************************************************************)
\* Geant4 follows a photon in an event, and one that has not died yet.
FlightOK == InFlight => phase = "event" /\ fate[photon.id] = Alive

\* m_allEvents is empty until the first step, and an entry counts nothing
\* before it is made.
RecordsOK ==
  /\ \A e \in EventIDs : ~ allEvents[e].present => allEvents[e].photons = 0
  /\ ~ endRunRegistered => \A e \in EventIDs : ~ allEvents[e].present

\* A run's frames are those of its events that ended, in their order.
FrameOfEachEvent ==
  /\ \A i \in 1 .. Len(frames) : frames[i].id = i - 1
  /\ phase = "run" => Len(frames) = event + 1
  /\ phase = "event" => Len(frames) = event

\* Until the run ends the crossings are in m_allEvents, and then in the frames.
RecordedOK ==
  OutputFile =>
    IF phase = "idle"
    THEN /\ \A e \in EventIDs : ~ allEvents[e].present
         /\ \A i \in 1 .. Len(frames) :
              frames[i].data.photons = crossings[frames[i].id]
    ELSE /\ \A e \in EventIDs : allEvents[e].photons = crossings[e]
         /\ \A i \in 1 .. Len(frames) : frames[i].data = NoData

AnyJob == StateOK /\ FlightOK /\ RecordsOK /\ FrameOfEachEvent /\ RecordedOK

LEMMA InitAnyJob == Init => AnyJob
<1> SUFFICES ASSUME Init PROVE AnyJob
  OBVIOUS
<1>1. FlightOK /\ RecordsOK
  BY DEF Init, FlightOK, InFlight, NoPhoton, RecordsOK, NoData
<1>2. frames = << >> /\ Len(frames) = 0 /\ phase = "idle" /\ 1 .. 0 = {}
  BY DEF Init
<1>3. FrameOfEachEvent /\ RecordedOK
  BY <1>2 DEF Init, FrameOfEachEvent, RecordedOK, NoData
<1> QED
  BY <1>1, <1>3, InitStateOK DEF AnyJob

\* What a step of a photon does to the photon, and to what is counted of it.
ExitsAfter(o) ==
  Fresh(fiberExitTracks, {}) \cup (IF EntersReadout(photon, o) THEN {photon.id} ELSE {})
EscapedAfter(o) ==
  Fresh(escapedFiber, {}) \cup (IF LeavesFiber(photon, o) THEN {photon.id} ELSE {})
LossOf(o) == classifyLoss(photon, o, ExitsAfter(o), EscapedAfter(o))

LEMMA PhotonStep ==
  ASSUME NEW o, NEW passed, processOpticalPhoton(o, passed)
  PROVE  /\ phase = "event" /\ beginEvent /\ SensitiveProcess(photon, o, passed)
         /\ fiberExitTracks' = ExitsAfter(o) /\ escapedFiber' = EscapedAfter(o)
         /\ allEvents' = IF EntersReadout(photon, o) THEN Record(1, 0) ELSE allEvents
         /\ photon' = IF Dies(photon, o) THEN NoPhoton ELSE Moved(photon, o)
         /\ fate' = IF Dies(photon, o) THEN [fate EXCEPT ![photon.id] = LossOf(o)] ELSE fate
         /\ tally' = IF Dies(photon, o) THEN [tally EXCEPT ![LossOf(o)] = @ + 1] ELSE tally
         /\ touched' = IF EntersReadout(photon, o) THEN touched \cup {photon.id} ELSE touched
         /\ crossings' = IF EntersReadout(photon, o)
                         THEN [crossings EXCEPT ![event] = @ + 1] ELSE crossings
         /\ UNCHANGED <<frames, histograms, phase, run, event, kind, primarySteps, inside,
                        processed>>
BY DEF processOpticalPhoton, ExitsAfter, EscapedAfter, LossOf, outputVars, geantVars

\* What the end of the run does to the frames, if it writes them.
LEMMA MergeStep ==
  ASSUME StateOK, EndRun, endRunRegistered, OutputFile, RecordsOK
  PROVE  /\ \A e \in EventIDs : ~ allEvents'[e].present
         /\ Len(frames') = Len(frames) /\ Len(frames) \in Nat
         /\ \/ \A i \in 1 .. Len(frames) :
                 /\ frames'[i].id = frames[i].id
                 /\ frames'[i].data = EventDataOf(i - 1)
            \/ /\ frames' = frames
               /\ \A e \in EventIDs : ~ allEvents[e].present
<1>1. mergeIntoMainOutput
  BY DEF EndRun, endRun
<1>2. frames \in Seq([id : EventIDs, data : EventData]) /\ Len(frames) \in Nat
  BY DEF StateOK, OutputOK
<1>3. CASE \E e \in EventIDs : allEvents[e].present
  <2>1. /\ frames' = [i \in 1 .. Len(frames) |->
                        [frames[i] EXCEPT !.data = EventDataOf(i - 1)]]
        /\ allEvents' = [e \in EventIDs |-> NoData]
    BY <1>1, <1>3 DEF mergeIntoMainOutput
  <2>2. Len(frames') = Len(frames)
    BY <1>2, <2>1
  <2>3. ASSUME NEW i \in 1 .. Len(frames)
        PROVE  frames'[i].id = frames[i].id /\ frames'[i].data = EventDataOf(i - 1)
    <3>1. frames[i] \in [id : EventIDs, data : EventData]
      BY <1>2, ElementOfSeq
    <3> QED
      BY <2>1, <3>1
  <2> QED
    BY <1>2, <2>1, <2>2, <2>3 DEF NoData
<1>4. CASE ~ \E e \in EventIDs : allEvents[e].present
  BY <1>1, <1>2, <1>4 DEF mergeIntoMainOutput
<1> QED
  BY <1>3, <1>4

LEMMA NoVolumeIsNone == NoVolume \notin Volumes
BY DEF NoVolume, Volumes, Clads, Readout

LEMMA NextFlight == AnyJob /\ [Next]_vars => FlightOK'
<1> SUFFICES ASSUME AnyJob, [Next]_vars PROVE FlightOK'
  OBVIOUS
<1> USE DEF FlightOK, InFlight
<1>1. CASE UNCHANGED <<phase, photon, fate>>
  BY <1>1 DEF AnyJob
<1>2. CASE StartRun \/ EndEvent \/ EndRun \/ \E k \in EventKinds : StartEvent(k)
  BY <1>2 DEF AnyJob, StartRun, StartEvent, EndEvent, EndRun
<1>3. CASE \E t \in Tracks, creator \in Creators, v \in Volumes : Emit(t, creator, v)
  BY <1>3 DEF Emit, geantVars
<1>4. ASSUME InFlight, NEW o \in Outcomes(photon), NEW passed \in BOOLEAN,
             processOpticalPhoton(o, passed)
      PROVE  FlightOK'
  <2>1. photon \in Photons /\ fate[photon.id] = Alive
    BY <1>4, InFlightPhoton DEF AnyJob, StateOK
  <2>2. CASE Dies(photon, o)
    BY <1>4, <2>2, PhotonStep DEF NoPhoton
  <2>3. CASE ~ Dies(photon, o)
    <3>1. photon' = Moved(photon, o) /\ fate' = fate /\ phase' = "event"
      BY <1>4, <2>3, PhotonStep
    <3>2. Moved(photon, o).id = photon.id
      BY <2>1 DEF Moved, Photons
    <3> QED
      BY <2>1, <3>1, <3>2
  <2> QED
    BY <2>2, <2>3
<1> QED
  BY <1>1, <1>2, <1>3, <1>4 DEF Next, Advance, processPrimary, historyVars, vars, geantVars

\* A step of the primary or of a photon that records what it counts.
LEMMA RecordedStep ==
  ASSUME AnyJob, phase = "event", beginEvent, phase' = "event", event' = event,
         frames' = frames, NEW n \in Nat, NEW m \in Nat,
         allEvents' = Record(n, m),
         \A e \in EventIDs :
           crossings'[e] = IF e = event THEN crossings[e] + n ELSE crossings[e]
  PROVE  RecordsOK' /\ FrameOfEachEvent' /\ RecordedOK'
<1>1. /\ event \in EventIDs /\ allEvents \in [EventIDs -> EventData]
      /\ crossings \in [EventIDs -> Nat]
  BY DEF AnyJob, StateOK, GeantOK, MembersOK, HistoryOK
<1>2. /\ \A e \in EventIDs : e # event => allEvents'[e] = allEvents[e]
      /\ allEvents'[event].present = TRUE
      /\ allEvents'[event].photons = allEvents[event].photons + n
  BY <1>1 DEF Record
<1>3. RecordsOK'
  BY <1>2 DEF AnyJob, RecordsOK, beginEvent
<1>4. FrameOfEachEvent'
  BY DEF AnyJob, FrameOfEachEvent
<1>5. RecordedOK'
  BY <1>1, <1>2 DEF AnyJob, RecordedOK
<1> QED
  BY <1>3, <1>4, <1>5

LEMMA NextAnyJob == AnyJob /\ [Next]_vars => AnyJob'
<1> SUFFICES ASSUME AnyJob, [Next]_vars PROVE RecordsOK' /\ FrameOfEachEvent' /\ RecordedOK'
  BY NextStateOK, NextFlight DEF AnyJob
<1> USE DEF AnyJob
<1>1. CASE UNCHANGED <<allEvents, endRunRegistered, frames, phase, event, crossings>>
  BY <1>1 DEF RecordsOK, FrameOfEachEvent, RecordedOK
<1>2. CASE StartRun
  <2>1. /\ frames' = << >> /\ Len(frames') = 0 /\ 1 .. 0 = {} /\ phase = "idle"
        /\ phase' = "run" /\ event' = -1 /\ allEvents' = allEvents
        /\ endRunRegistered' = endRunRegistered
        /\ \A e \in EventIDs : crossings'[e] = 0
    BY <1>2 DEF StartRun, actionVars
  <2> QED
    BY <2>1 DEF RecordsOK, FrameOfEachEvent, RecordedOK
<1>3. CASE \E k \in EventKinds : StartEvent(k)
  <2>1. /\ phase = "run" /\ phase' = "event" /\ event' = event + 1
        /\ UNCHANGED <<allEvents, endRunRegistered, frames, crossings>>
    BY <1>3 DEF StartEvent, actionVars, outputVars
  <2> QED
    BY <2>1 DEF RecordsOK, FrameOfEachEvent, RecordedOK
<1>4. CASE EndEvent
  <2>1. /\ phase = "event" /\ phase' = "run" /\ event' = event
        /\ UNCHANGED <<allEvents, endRunRegistered, crossings>>
        /\ frames' = Append(frames, [id |-> event, data |-> NoData])
    BY <1>4 DEF EndEvent, actionVars
  <2>2. /\ frames \in Seq([id : EventIDs, data : EventData])
        /\ event \in EventIDs /\ event \in Int
        /\ [id |-> event, data |-> NoData] \in [id : EventIDs, data : EventData]
    BY <2>1, EventIDsAreInts DEF StateOK, OutputOK, GeantOK, NoData, EventData
  <2>3. /\ Len(frames) = event /\ Len(frames') = event + 1
        /\ \A i \in 1 .. Len(frames) : frames'[i] = frames[i]
        /\ frames'[event + 1] = [id |-> event, data |-> NoData]
    BY <2>1, <2>2, AppendProperties DEF FrameOfEachEvent
  <2>4. \A i \in 1 .. Len(frames') : i \in 1 .. Len(frames) \/ i = event + 1
    BY <2>2, <2>3
  <2>5. RecordsOK'
    BY <2>1 DEF RecordsOK
  <2>6. FrameOfEachEvent'
    BY <2>1, <2>2, <2>3, <2>4 DEF FrameOfEachEvent
  <2>7. RecordedOK'
    BY <2>1, <2>3, <2>4 DEF RecordedOK
  <2> QED
    BY <2>5, <2>6, <2>7
<1>5. CASE processPrimary
  <2>1. /\ phase = "event" /\ beginEvent /\ phase' = "event" /\ event' = event
        /\ frames' = frames /\ allEvents' = Record(0, 1) /\ crossings' = crossings
    BY <1>5 DEF processPrimary, outputVars, historyVars
  <2>2. \A e \in EventIDs : crossings'[e] = IF e = event THEN crossings[e] + 0 ELSE crossings[e]
    BY <2>1 DEF StateOK, HistoryOK
  <2> QED
    BY <2>1, <2>2, RecordedStep
<1>6. ASSUME NEW o, NEW passed, processOpticalPhoton(o, passed)
      PROVE  RecordsOK' /\ FrameOfEachEvent' /\ RecordedOK'
  <2>1. /\ phase = "event" /\ beginEvent /\ phase' = "event" /\ event' = event
        /\ frames' = frames /\ endRunRegistered' = TRUE
    BY <1>6, PhotonStep DEF beginEvent
  <2>2. CASE EntersReadout(photon, o)
    <3>1. allEvents' = Record(1, 0) /\ crossings' = [crossings EXCEPT ![event] = @ + 1]
      BY <1>6, <2>2, PhotonStep
    <3>2. \A e \in EventIDs : crossings'[e] = IF e = event THEN crossings[e] + 1 ELSE crossings[e]
      BY <3>1 DEF StateOK, HistoryOK
    <3> QED
      BY <2>1, <3>1, <3>2, RecordedStep
  <2>3. CASE ~ EntersReadout(photon, o)
    <3>1. allEvents' = allEvents /\ crossings' = crossings
      BY <1>6, <2>3, PhotonStep
    <3> QED
      BY <2>1, <3>1 DEF RecordsOK, FrameOfEachEvent, RecordedOK
  <2> QED
    BY <2>2, <2>3
<1>7. CASE EndRun
  <2>1. phase = "run" /\ phase' = "idle" /\ event' = event /\ crossings' = crossings
    BY <1>7 DEF EndRun, historyVars
  <2>2. Len(frames) = event + 1 /\ Len(frames) \in Nat
    BY <2>1 DEF StateOK, OutputOK, FrameOfEachEvent
  <2>3. endRunRegistered' = endRunRegistered
    BY <1>7 DEF EndRun, endRun, actionVars
  <2>4. \A i \in 1 .. Len(frames) : frames[i].id \in EventIDs
    <3>1. frames \in Seq([id : EventIDs, data : EventData])
      BY DEF StateOK, OutputOK
    <3>2. \A i \in 1 .. Len(frames) : frames[i] \in [id : EventIDs, data : EventData]
      BY ONLY <3>1, ElementOfSeq
    <3> QED
      BY ONLY <3>2
  <2>5. CASE endRunRegistered /\ OutputFile
    <3>1. \A e \in EventIDs : ~ allEvents'[e].present
      BY <1>7, <2>5, MergeStep
    <3>2. RecordsOK'
      <4>1. mergeIntoMainOutput
        BY <1>7, <2>5 DEF EndRun, endRun
      <4>2. \A e \in EventIDs : allEvents'[e].photons = 0 \/ allEvents'[e] = allEvents[e]
        BY <4>1 DEF mergeIntoMainOutput, NoData
      <4> QED
        BY <2>3, <2>5, <3>1, <4>2 DEF RecordsOK
    <3>3. Len(frames') = Len(frames)
      BY <1>7, <2>5, MergeStep
    <3>4. \A i \in 1 .. Len(frames) :
            frames'[i].id = i - 1 /\ frames'[i].data.photons = crossings[i - 1]
      <4> TAKE i \in 1 .. Len(frames)
      <4>1. /\ frames[i].id = i - 1 /\ i - 1 \in EventIDs
            /\ frames[i].data = NoData /\ allEvents[i - 1].photons = crossings[i - 1]
        <5>1. frames[i].id = i - 1 /\ frames[i].id \in EventIDs
          BY <2>4 DEF FrameOfEachEvent
        <5> QED
          BY <2>1, <2>5, <5>1 DEF RecordedOK
      <4>2. \/ /\ frames'[i].id = frames[i].id
               /\ frames'[i].data = EventDataOf(i - 1)
            \/ /\ frames'[i] = frames[i]
               /\ ~ allEvents[i - 1].present
        BY <1>7, <2>5, <4>1, MergeStep
      <4> QED
        BY <4>1, <4>2 DEF EventDataOf, RecordsOK, NoData
    <3>5. FrameOfEachEvent'
      BY <2>1, <3>3, <3>4 DEF FrameOfEachEvent
    <3>6. RecordedOK'
      BY <2>1, <3>1, <3>3, <3>4 DEF RecordedOK
    <3> QED
      BY <3>2, <3>5, <3>6
  <2>6. CASE ~ (endRunRegistered /\ OutputFile)
    <3>1. frames' = frames /\ allEvents' = allEvents
      BY <1>7, <2>6 DEF EndRun, endRun, actionVars, outputVars
    <3>2. RecordsOK' /\ FrameOfEachEvent'
      BY <2>1, <2>3, <3>1 DEF RecordsOK, FrameOfEachEvent
    <3>3. RecordedOK'
      <4> SUFFICES ASSUME OutputFile
                   PROVE  /\ \A e \in EventIDs : ~ allEvents[e].present
                          /\ \A i \in 1 .. Len(frames) :
                               frames[i].data.photons = crossings[frames[i].id]
        BY <2>1, <3>1 DEF RecordedOK
      <4>1. \A e \in EventIDs : ~ allEvents[e].present
        BY <2>6 DEF RecordsOK
      <4>2. ASSUME NEW i \in 1 .. Len(frames)
            PROVE  frames[i].data.photons = crossings[frames[i].id]
        <5>1. frames[i].id \in EventIDs /\ frames[i].data = NoData
          BY <2>1, <2>4 DEF RecordedOK
        <5> QED
          BY <2>1, <4>1, <5>1 DEF RecordsOK, RecordedOK, NoData
      <4> QED
        BY <4>1, <4>2
    <3> QED
      BY <3>2, <3>3
  <2> QED
    BY <2>5, <2>6
<1> QED
  BY <1>1, <1>2, <1>3, <1>4, <1>5, <1>6, <1>7
     DEF Next, Advance, Emit, vars, actionVars, outputVars, geantVars, historyVars

LEMMA InAnyJob == Spec => []AnyJob
BY InitAnyJob, NextAnyJob, PTL DEF Spec

\* The photons that the end of a run merges into a frame are the crossings of
\* that frame's event, in every run of the job, with events of any kind: that
\* frames and entries are paired by the frame's index does no harm.
THEOREM FramesHoldTheirEvents == Spec => []FramesHoldTheirOwnEvent
<1>1. AnyJob => FramesHoldTheirOwnEvent
  BY DEF AnyJob, RecordedOK, FramesHoldTheirOwnEvent
<1> QED
  BY <1>1, InAnyJob, PTL

-----------------------------------------------------------------------------
(***************************************************************************)
(* Jobs of one run.  What the action keeps of an event is cleared by the   *)
(* next one's first step, which it tells by the event's id; a second run   *)
(* may begin with the id the first one ended with.                         *)
(***************************************************************************)
OneRunOK ==
  /\ run = 0 => phase = "idle" /\ event = -1
  /\ currentEventID <= event
  /\ endRunRegistered <=> currentEventID >= 0
  /\ currentEventID = -1 => cAll = Zero

OneRun == AnyJob /\ OneRunOK

LEMMA InitOneRun == Init => OneRun
BY InitAnyJob DEF Init, OneRun, OneRunOK

\* Event ids are integers, and a photon's is that of a track.
LEMMA Ids ==
  ASSUME AnyJob
  PROVE  /\ event \in Int /\ currentEventID \in Int /\ event >= -1 /\ currentEventID >= -1
         /\ phase = "event" => event >= 0 /\ event \in EventIDs
         /\ InFlight => photon \in Photons /\ photon.id \in Tracks
                        /\ phase = "event" /\ fate[photon.id] = Alive
         /\ fate \in [Tracks -> Losses \cup {Alive}] /\ Alive \notin Losses
         /\ endRunRegistered \in BOOLEAN
<1>1. /\ event \in Int /\ currentEventID \in Int /\ event >= -1 /\ currentEventID >= -1
      /\ phase = "event" => event >= 0 /\ event \in EventIDs
  BY BoundsAssumption DEF AnyJob, StateOK, GeantOK, MembersOK, EventIDs
<1>2. InFlight => photon \in Photons /\ photon.id \in Tracks
                  /\ phase = "event" /\ fate[photon.id] = Alive
  BY InFlightPhoton DEF AnyJob, StateOK, FlightOK, Photons
<1>3. /\ fate \in [Tracks -> Losses \cup {Alive}] /\ Alive \notin Losses
      /\ endRunRegistered \in BOOLEAN
  BY DEF AnyJob, StateOK, HistoryOK, MembersOK, Alive, Losses
<1> QED
  BY <1>1, <1>2, <1>3

\* A run begins as the job did, an event anew, and a step clears what was kept
\* of another event.
LEMMA StartRunIsFirst ==
  ASSUME MaxRuns = 1, OneRun, StartRun
  PROVE  /\ event' = event /\ currentEventID' = currentEventID /\ ~ endRunRegistered
         /\ event = -1 /\ phase = "idle" /\ phase' = "run" /\ run' = 1
<1>1. run = 0
  BY DEF StartRun, OneRun, AnyJob, StateOK, GeantOK
<1>2. /\ event = -1 /\ event' = -1 /\ currentEventID' = currentEventID
      /\ phase = "idle" /\ phase' = "run" /\ run' = 1
  BY <1>1 DEF StartRun, actionVars, OneRun, OneRunOK
<1>3. ~ endRunRegistered
  BY <1>2, Ids DEF OneRun, OneRunOK
<1> QED
  BY <1>2, <1>3

LEMMA StartEventIsNew ==
  ASSUME OneRun, NEW k, StartEvent(k)
  PROVE  /\ event' = event + 1 /\ currentEventID' = currentEventID /\ NewEvent'
         /\ phase = "run" /\ phase' = "event" /\ ~ InFlight /\ ~ InFlight'
<1>1. /\ event' = event + 1 /\ currentEventID' = currentEventID
      /\ phase = "run" /\ phase' = "event" /\ photon' = photon
  BY DEF StartEvent, actionVars
<1>2. ~ InFlight
  BY <1>1 DEF OneRun, AnyJob, FlightOK
<1>3. event' # currentEventID'
  BY <1>1, Ids DEF OneRun, OneRunOK
<1> QED
  BY <1>1, <1>2, <1>3 DEF NewEvent, InFlight

LEMMA StepIsCurrent ==
  ASSUME beginEvent, event' = event
  PROVE  /\ ~ NewEvent' /\ currentEventID' = event /\ endRunRegistered' = TRUE
         /\ \A cleared : /\ Fresh(fiberExitTracks, cleared)' = fiberExitTracks'
                         /\ Fresh(escapedFiber, cleared)' = escapedFiber'
                         /\ Fresh(cAll, cleared)' = cAll'
BY DEF beginEvent, NewEvent, Fresh

LEMMA NextOneRunOK == MaxRuns = 1 /\ OneRun /\ [Next]_vars => OneRunOK'
<1> SUFFICES ASSUME MaxRuns = 1, OneRun, [Next]_vars PROVE OneRunOK'
  OBVIOUS
<1>0. AnyJob /\ OneRunOK
  BY DEF OneRun
<1>1. CASE UNCHANGED <<run, phase, event, currentEventID, endRunRegistered, cAll>>
  BY <1>0, <1>1 DEF OneRunOK
<1>2. CASE StartRun
  <2>1. UNCHANGED <<endRunRegistered, cAll>>
    BY <1>2 DEF StartRun, actionVars
  <2> QED
    BY <1>0, <1>2, <2>1, StartRunIsFirst DEF OneRunOK
<1>3. ASSUME NEW k, StartEvent(k) PROVE OneRunOK'
  <2>1. UNCHANGED <<run, endRunRegistered, cAll>>
    BY <1>3 DEF StartEvent, actionVars
  <2> QED
    BY <1>0, <1>3, <2>1, StartEventIsNew, Ids DEF OneRunOK
<1>4. CASE EndEvent \/ EndRun
  <2>1. /\ UNCHANGED <<run, event, currentEventID, endRunRegistered, cAll>>
        /\ phase # "idle"
    BY <1>4 DEF EndEvent, EndRun, endRun, actionVars
  <2> QED
    BY <1>0, <2>1 DEF OneRunOK
<1>5. ASSUME beginEvent, event' = event, run' = run, phase = "event" PROVE OneRunOK'
  BY <1>0, <1>5, StepIsCurrent, Ids DEF OneRunOK
<1>6. CASE processPrimary
  BY <1>5, <1>6 DEF processPrimary
<1>7. ASSUME NEW o, NEW passed, processOpticalPhoton(o, passed) PROVE OneRunOK'
  BY <1>5, <1>7, PhotonStep
<1> QED
  BY <1>1, <1>2, <1>3, <1>4, <1>6, <1>7 DEF Next, Advance, Emit, vars, actionVars, geantVars

LEMMA InOneRun == ASSUME MaxRuns = 1 PROVE Spec => []OneRun
<1>1. OneRun /\ [Next]_vars => OneRun'
  BY NextOneRunOK, NextAnyJob DEF OneRun
<1> QED
  BY <1>1, InitOneRun, PTL DEF Spec

-----------------------------------------------------------------------------
(***************************************************************************)
(* A photon is counted as detected exactly when it crossed into the        *)
(* readout.                                                                *)
(***************************************************************************)
\* The exits that the next step finds are the crossings of its event.
ExitsOK == Fresh(fiberExitTracks, {}) = touched

DetectedOK ==
  /\ \A t \in Tracks : fate[t] # Alive => (fate[t] = "nDetected" <=> t \in touched)
  /\ \A t \in hits \ inside : fate[t] = "nDetected"
  /\ InFlight /\ photon.vol \in Readout /\ photon.id \notin inside
       => photon.id \in touched

\* A photon that lives gets into the readout by a step that is seen to enter it.
LEMMA ReadoutIsEntered ==
  ASSUME NEW p \in Photons, NEW o \in Outcomes(p), ~ Dies(p, o),
         o.post \in Readout, p.vol \notin Readout
  PROVE  EntersReadout(p, o)
<1>1. o.track # "killed" /\ PostLV(p, o) = o.post
  BY DEF Dies, KilledByGeant4, PostLV
<1>2. o.post # p.vol
  OBVIOUS
<1>3. o.status = "GeomBoundary"
  <2>1. CASE o \in ZeroLengthReturn(p) \cup Crossings(p) \cup SurfaceAbsorptions(p)
    BY <2>1 DEF ZeroLengthReturn, Crossings, SurfaceAbsorptions, Step
  <2>2. CASE o \in Scatterings(p)
    BY <1>2, <2>2 DEF Scatterings, Step
  <2>3. CASE o \in VolumeDeaths(p) \cup WorldExits(p)
    BY <1>1, <2>3 DEF VolumeDeaths, WorldExits, Step
  <2> QED
    BY <2>1, <2>2, <2>3 DEF Outcomes
<1> QED
  BY <1>1, <1>3 DEF EntersReadout, OnSurface

\* Only an exit is a detection.
LEMMA DetectedIsExit ==
  ASSUME NEW p, NEW o, NEW exited, NEW escaped
  PROVE  classifyLoss(p, o, exited, escaped) = "nDetected" <=> p.id \in exited
BY DEF classifyLoss, classifyAbsorption

\* Nor is a step of a photon taken for one of another event's.
LEMMA PhotonStepDetected ==
  ASSUME OneRun, ExitsOK, DetectedOK, InFlight, NEW o \in Outcomes(photon), NEW passed,
         processOpticalPhoton(o, passed)
  PROVE  ExitsOK' /\ DetectedOK'
<1> DEFINE id == photon.id
<1>1. /\ photon \in Photons /\ id \in Tracks /\ fate[id] = Alive
      /\ fate \in [Tracks -> Losses \cup {Alive}] /\ Alive \notin Losses
  BY Ids DEF OneRun
<1>2. /\ touched' = IF EntersReadout(photon, o) THEN touched \cup {id} ELSE touched
      /\ fiberExitTracks' = ExitsAfter(o) /\ inside' = inside /\ event' = event
      /\ beginEvent /\ SensitiveProcess(photon, o, passed)
  BY PhotonStep
<1>3. fiberExitTracks' = touched'
  BY <1>2 DEF ExitsOK, ExitsAfter
<1>4. ExitsOK'
  BY <1>2, <1>3, StepIsCurrent DEF ExitsOK
<1>5. \A t \in Tracks : t # id => (t \in touched' <=> t \in touched)
  BY <1>2
<1>6. hits' = hits \/ (hits' = hits \cup {id} /\ IsEntry(photon, o))
  BY <1>2 DEF SensitiveProcess
<1>7. CASE Dies(photon, o)
  <2>1. /\ fate' = [fate EXCEPT ![id] = LossOf(o)] /\ ~ InFlight'
    BY <1>7, PhotonStep DEF NoPhoton, InFlight
  <2>2. /\ LossOf(o) \in Losses
        /\ LossOf(o) = "nDetected" <=> id \in touched'
    BY <1>2, <1>3, ClassifyLossType, DetectedIsExit DEF LossOf
  <2>3. /\ fate'[id] = LossOf(o)
        /\ \A t \in Tracks : t # id => fate'[t] = fate[t]
    BY <1>1, <2>1
  <2>4. \A t \in Tracks : fate'[t] # Alive => (fate'[t] = "nDetected" <=> t \in touched')
    BY <1>5, <2>2, <2>3 DEF DetectedOK
  <2>5. ASSUME NEW t \in hits' \ inside' PROVE fate'[t] = "nDetected"
    <3>1. CASE t \in hits
      <4>1. fate[t] = "nDetected" /\ "nDetected" # Alive
        BY <1>2, <3>1 DEF DetectedOK, Alive
      <4>2. t # id /\ t \in Tracks
        BY <1>1, <3>1, <4>1 DEF OneRun, AnyJob, StateOK, OutputOK
      <4> QED
        BY <2>3, <4>1, <4>2
    <3>2. CASE t = id /\ IsEntry(photon, o)
      <4>1. photon.vol \in Readout
        BY <3>2 DEF IsEntry, Readout
      <4>2. id \in touched'
        BY <1>2, <3>2, <4>1 DEF DetectedOK
      <4> QED
        BY <2>2, <2>3, <3>2, <4>2
    <3> QED
      BY <1>6, <3>1, <3>2
  <2> QED
    BY <1>4, <2>1, <2>4, <2>5 DEF DetectedOK
<1>8. CASE ~ Dies(photon, o)
  <2>1. fate' = fate /\ photon' = Moved(photon, o)
    BY <1>8, PhotonStep
  <2>2. photon'.id = id /\ photon'.vol = o.post
    BY <1>1, <2>1 DEF Moved, Photons
  <2>3. hits' = hits
    BY <1>6, <1>8 DEF Dies, KilledByGeant4
  <2>4. \A t \in Tracks : fate'[t] # Alive => (fate'[t] = "nDetected" <=> t \in touched')
    BY <1>1, <1>5, <2>1 DEF DetectedOK
  <2>5. ASSUME o.post \in Readout, id \notin inside PROVE id \in touched'
    <3>1. CASE photon.vol \in Readout
      BY <1>2, <2>5, <3>1 DEF DetectedOK
    <3>2. CASE photon.vol \notin Readout
      BY <1>1, <1>2, <1>8, <2>5, <3>2, ReadoutIsEntered
    <3> QED
      BY <3>1, <3>2
  <2> QED
    BY <1>2, <1>4, <2>1, <2>2, <2>3, <2>4, <2>5 DEF DetectedOK
<1> QED
  BY <1>7, <1>8

LEMMA NextDetected ==
  MaxRuns = 1 /\ OneRun /\ ExitsOK /\ DetectedOK /\ [Next]_vars => ExitsOK' /\ DetectedOK'
<1> SUFFICES ASSUME MaxRuns = 1, OneRun, ExitsOK, DetectedOK, [Next]_vars
             PROVE  ExitsOK' /\ DetectedOK'
  OBVIOUS
<1>1. ASSUME UNCHANGED <<fiberExitTracks, touched, event, currentEventID, fate, hits,
                         inside, photon>>
      PROVE  ExitsOK' /\ DetectedOK'
  BY <1>1 DEF ExitsOK, DetectedOK, Fresh, NewEvent, InFlight
<1>2. CASE StartRun
  BY <1>1, <1>2, StartRunIsFirst DEF StartRun, actionVars
<1>3. ASSUME NEW k, StartEvent(k) PROVE ExitsOK' /\ DetectedOK'
  <2>1. /\ NewEvent' /\ ~ InFlight' /\ touched' = {} /\ hits' = {}
        /\ fate' = [t \in Tracks |-> Alive]
    BY <1>3, StartEventIsNew DEF StartEvent
  <2> QED
    BY <2>1 DEF ExitsOK, DetectedOK, Fresh
<1>4. CASE EndEvent \/ EndRun
  BY <1>1, <1>4 DEF EndEvent, EndRun, endRun, actionVars, historyVars
<1>5. ASSUME NEW t \in Tracks, NEW creator, NEW v, Emit(t, creator, v)
      PROVE  ExitsOK' /\ DetectedOK'
  <2>1. /\ UNCHANGED <<fiberExitTracks, touched, event, currentEventID, fate, hits>>
        /\ inside' = IF v \in Readout THEN inside \cup {t} ELSE inside
        /\ photon'.vol = v /\ photon'.id = t
    BY <1>5 DEF Emit, actionVars, geantVars
  <2> QED
    BY <2>1 DEF ExitsOK, DetectedOK, Fresh, NewEvent
<1>6. CASE processPrimary
  <2>1. /\ fiberExitTracks' = touched' /\ beginEvent /\ event' = event
        /\ UNCHANGED <<fate, hits, inside, photon, touched>>
    BY <1>6 DEF processPrimary, historyVars, ExitsOK
  <2> QED
    BY <2>1, StepIsCurrent DEF ExitsOK, DetectedOK, InFlight
<1>7. CASE UNCHANGED vars
  BY <1>1, <1>7 DEF vars, actionVars, geantVars, historyVars
<1> QED
  BY <1>2, <1>3, <1>4, <1>5, <1>6, <1>7, PhotonStepDetected DEF Next, Advance

\* In a job of one run a photon is counted as detected exactly when it crossed
\* into the readout, whatever ended it, and the hits of the sensitive detector
\* are among the detected photons.
THEOREM DetectionIsExact ==
  ASSUME MaxRuns = 1 PROVE Spec => []DetectedIffTouched
<1>1. Init => ExitsOK /\ DetectedOK
  BY DEF Init, ExitsOK, DetectedOK, Fresh, InFlight, NoPhoton
<1>2. OneRun /\ ExitsOK /\ DetectedOK => DetectedIffTouched
  BY DEF ExitsOK, DetectedOK, DetectedIffTouched, Fresh
<1>3. OneRun /\ ExitsOK /\ DetectedOK /\ [Next]_vars => ExitsOK' /\ DetectedOK'
  BY NextDetected
<1> QED
  BY <1>1, <1>2, <1>3, InOneRun, PTL DEF Spec

-----------------------------------------------------------------------------
(***************************************************************************)
(* Every death is counted once, in its event.                              *)
(***************************************************************************)
CountedOK == \A f \in Losses : Fresh(cAll, Zero)[f] = Cardinality(Counted(f))

LEMMA OriginIsNoLoss ==
  ASSUME NEW p
  PROVE  OriginInAll(p) \cap Losses = {} /\ "nFiberExits" \notin Losses
BY DEF OriginInAll, Origin, Losses

\* Among the losses, a step counts that of the photon it ends, and no other.
LEMMA PhotonCounts ==
  ASSUME NEW o, NEW passed, processOpticalPhoton(o, passed)
  PROVE  \A f \in Losses :
           cAll'[f] = IF Dies(photon, o) /\ f = LossOf(o)
                      THEN Fresh(cAll, Zero)[f] + 1 ELSE Fresh(cAll, Zero)[f]
<1> DEFINE common == (IF EntersReadout(photon, o) THEN {"nFiberExits"} ELSE {})
                     \cup (IF Dies(photon, o) THEN {LossOf(o)} ELSE {})
           whole == common \cup (IF photon.id \notin Fresh(seenPhotonTracks, {})
                                 THEN OriginInAll(photon) ELSE {})
<1>1. cAll' = Count(Fresh(cAll, Zero), whole)
  BY DEF processOpticalPhoton, LossOf, ExitsAfter, EscapedAfter
<1>2. \A f \in Losses : f \in whole <=> Dies(photon, o) /\ f = LossOf(o)
  BY OriginIsNoLoss
<1> HIDE DEF whole
<1> QED
  BY <1>1, <1>2, LossesAreFields DEF Count

\* One more photon has met that destiny.
LEMMA OneMoreCounted ==
  ASSUME AnyJob, NEW id \in Tracks, fate[id] = Alive, NEW loss \in Losses,
         fate' = [fate EXCEPT ![id] = loss], NEW f \in Losses
  PROVE  Cardinality(Counted(f)') = IF f = loss THEN Cardinality(Counted(f)) + 1
                                    ELSE Cardinality(Counted(f))
<1>1. fate \in [Tracks -> Losses \cup {Alive}] /\ f # Alive
  BY Ids
<1>2. Counted(f)' = IF f = loss THEN Counted(f) \cup {id} ELSE Counted(f)
  BY <1>1 DEF Counted
<1>3. id \notin Counted(f) /\ Counted(f) \subseteq Tracks
  BY <1>1 DEF Counted
<1>4. IsFiniteSet(Counted(f))
  BY <1>3, TracksAssumption, FS_Subset
<1> QED
  BY <1>2, <1>3, <1>4, FS_AddElement

LEMMA NoneCounted ==
  ASSUME NEW f \in Losses
  PROVE  Cardinality({t \in Tracks : [u \in Tracks |-> Alive][t] = f}) = 0
<1>1. {t \in Tracks : [u \in Tracks |-> Alive][t] = f} = {}
  BY DEF Alive, Losses
<1> QED
  BY <1>1, FS_EmptySet

LEMMA NextCounted == MaxRuns = 1 /\ OneRun /\ CountedOK /\ [Next]_vars => CountedOK'
<1> SUFFICES ASSUME MaxRuns = 1, OneRun, CountedOK, [Next]_vars PROVE CountedOK'
  OBVIOUS
<1>1. ASSUME UNCHANGED <<cAll, event, currentEventID, fate>> PROVE CountedOK'
  BY <1>1 DEF CountedOK, Counted, Fresh, NewEvent
<1>2. CASE StartRun
  BY <1>1, <1>2, StartRunIsFirst DEF StartRun, actionVars
<1>3. ASSUME NEW k, StartEvent(k) PROVE CountedOK'
  <2>1. NewEvent' /\ fate' = [t \in Tracks |-> Alive]
    BY <1>3, StartEventIsNew DEF StartEvent
  <2>2. \A f \in Losses : Cardinality(Counted(f)') = 0
    BY <2>1, NoneCounted DEF Counted
  <2> QED
    BY <2>1, <2>2, LossesAreFields DEF CountedOK, Fresh, Zero
<1>4. CASE EndEvent \/ EndRun
  BY <1>1, <1>4 DEF EndEvent, EndRun, endRun, actionVars, historyVars
<1>5. CASE processPrimary
  <2>1. /\ cAll' = Fresh(cAll, Zero) /\ beginEvent /\ event' = event /\ fate' = fate
    BY <1>5 DEF processPrimary, historyVars
  <2> QED
    BY <2>1, StepIsCurrent DEF CountedOK, Counted
<1>6. ASSUME InFlight, NEW o \in Outcomes(photon), NEW passed, processOpticalPhoton(o, passed)
      PROVE  CountedOK'
  <2>1. photon.id \in Tracks /\ fate[photon.id] = Alive /\ AnyJob
    BY <1>6, Ids DEF OneRun
  <2>2. /\ beginEvent /\ event' = event
        /\ fate' = IF Dies(photon, o) THEN [fate EXCEPT ![photon.id] = LossOf(o)] ELSE fate
    BY <1>6, PhotonStep
  <2>3. LossOf(o) \in Losses
    BY ClassifyLossType DEF LossOf
  <2>4. \A f \in Losses :
          Cardinality(Counted(f)') = IF Dies(photon, o) /\ f = LossOf(o)
                                     THEN Cardinality(Counted(f)) + 1 ELSE Cardinality(Counted(f))
    <3>1. CASE Dies(photon, o)
      BY <2>1, <2>2, <2>3, <3>1, OneMoreCounted
    <3>2. CASE ~ Dies(photon, o)
      BY <2>2, <3>2 DEF Counted
    <3> QED
      BY <3>1, <3>2
  <2> QED
    BY <1>6, <2>2, <2>4, PhotonCounts, StepIsCurrent DEF CountedOK
<1> QED
  BY <1>1, <1>2, <1>3, <1>4, <1>5, <1>6
     DEF Next, Advance, Emit, vars, actionVars, geantVars, historyVars

\* In a job of one run every loss counter of the event is the number of its
\* photons that met that destiny: none is counted twice or for another event.
THEOREM DeathsAreCountedOnce ==
  ASSUME MaxRuns = 1 PROVE Spec => []EveryDeathCountedOnce
<1>1. Init => CountedOK
  BY NoneCounted, LossesAreFields DEF Init, CountedOK, Counted, Fresh, Zero
<1>2. CountedOK => EveryDeathCountedOnce
  BY DEF CountedOK, EveryDeathCountedOnce, Fresh, NewEvent, Current
<1>3. OneRun /\ CountedOK /\ [Next]_vars => CountedOK'
  BY NextCounted
<1> QED
  BY <1>1, <1>2, <1>3, InOneRun, PTL DEF Spec

-----------------------------------------------------------------------------
(***************************************************************************)
(* With KillEscapedPhotons a photon that left its fibre is dead.           *)
(***************************************************************************)
KilledOK ==
  killEscapedPhotons =>
    /\ \A t \in Fresh(escapedFiber, {}) : t \in Tracks /\ fate[t] # Alive
    /\ cAll["nNonCaptured"] = 0 /\ runAll["nNonCaptured"] = 0

\* A step that takes the photon out of its fibre ends it, and a photon that did
\* not leave its fibre is not counted as non-captured.
LEMMA NonCapturedHasEscaped ==
  ASSUME NEW o, LossOf(o) = "nNonCaptured", killEscapedPhotons
  PROVE  ~ LeavesFiber(photon, o) /\ photon.id \in Fresh(escapedFiber, {})
<1>1. ~ KilledByUs(photon, o)
  BY DEF LossOf, classifyLoss
<1>2. ~ LeavesFiber(photon, o)
  BY <1>1 DEF KilledByUs
<1>3. photon.id \in EscapedAfter(o)
  BY DEF LossOf, classifyLoss, classifyAbsorption
<1> QED
  BY <1>2, <1>3 DEF EscapedAfter

LEMMA FoldNonCaptured ==
  ASSUME StateOK, cAll["nNonCaptured"] = 0, runAll["nNonCaptured"] = 0,
         foldCurrentEventIntoTotals \/ UNCHANGED runAll
  PROVE  runAll'["nNonCaptured"] = 0
<1>1. "nNonCaptured" \in Fields
  BY DEF Fields, Losses
<1> QED
  BY <1>1 DEF foldCurrentEventIntoTotals, Plus

LEMMA NextKilled == MaxRuns = 1 /\ OneRun /\ KilledOK /\ [Next]_vars => KilledOK'
<1> SUFFICES ASSUME MaxRuns = 1, OneRun, KilledOK, [Next]_vars, killEscapedPhotons
             PROVE  /\ \A t \in Fresh(escapedFiber, {})' : t \in Tracks /\ fate'[t] # Alive
                    /\ cAll'["nNonCaptured"] = 0 /\ runAll'["nNonCaptured"] = 0
  BY DEF KilledOK, Next, vars
<1> DEFINE P == /\ \A t \in Fresh(escapedFiber, {})' : t \in Tracks /\ fate'[t] # Alive
                /\ cAll'["nNonCaptured"] = 0 /\ runAll'["nNonCaptured"] = 0
<1>0. /\ StateOK /\ AnyJob /\ "nNonCaptured" \in Losses /\ "nNonCaptured" \in Fields
      /\ \A t \in Fresh(escapedFiber, {}) : t \in Tracks /\ fate[t] # Alive
      /\ cAll["nNonCaptured"] = 0 /\ runAll["nNonCaptured"] = 0
      /\ Fresh(cAll, Zero)["nNonCaptured"] = 0
  BY DEF OneRun, AnyJob, KilledOK, Losses, Fields, Fresh, Zero
<1>1. ASSUME UNCHANGED <<escapedFiber, cAll, event, currentEventID, fate>>,
             foldCurrentEventIntoTotals \/ UNCHANGED runAll
      PROVE  P
  BY <1>0, <1>1, FoldNonCaptured DEF Fresh, NewEvent
<1>2. CASE StartRun
  BY <1>1, <1>2, StartRunIsFirst DEF StartRun, actionVars
<1>3. ASSUME NEW k, StartEvent(k) PROVE P
  <2>1. NewEvent' /\ cAll' = cAll /\ runAll' = runAll
    BY <1>3, StartEventIsNew DEF StartEvent, actionVars
  <2> QED
    BY <1>0, <2>1 DEF Fresh
<1>4. CASE EndEvent \/ EndRun
  BY <1>1, <1>4 DEF EndEvent, EndRun, endRun, actionVars, historyVars
<1>5. CASE processPrimary
  <2>1. /\ cAll' = Fresh(cAll, Zero) /\ beginEvent /\ event' = event /\ fate' = fate
        /\ escapedFiber' = Fresh(escapedFiber, {})
    BY <1>5 DEF processPrimary, historyVars
  <2>2. runAll'["nNonCaptured"] = 0
    BY <1>0, <2>1, FoldNonCaptured DEF beginEvent
  <2> QED
    BY <1>0, <2>1, <2>2, StepIsCurrent
<1>6. ASSUME InFlight, NEW o \in Outcomes(photon), NEW passed, processOpticalPhoton(o, passed)
      PROVE  P
  <2>1. /\ photon.id \in Tracks /\ fate[photon.id] = Alive /\ Alive \notin Losses
        /\ fate \in [Tracks -> Losses \cup {Alive}]
    BY <1>0, <1>6, Ids
  <2>2. /\ beginEvent /\ event' = event /\ escapedFiber' = EscapedAfter(o)
        /\ fate' = IF Dies(photon, o) THEN [fate EXCEPT ![photon.id] = LossOf(o)] ELSE fate
    BY <1>6, PhotonStep
  <2>3. LossOf(o) \in Losses
    BY ClassifyLossType DEF LossOf
  <2>4. runAll'["nNonCaptured"] = 0
    BY <1>0, <2>2, FoldNonCaptured DEF beginEvent
  <2>5. LossOf(o) # "nNonCaptured"
    BY <1>0, <2>1, NonCapturedHasEscaped
  <2>6. cAll'["nNonCaptured"] = 0
    BY <1>0, <1>6, <2>5, PhotonCounts
  <2>7. ASSUME NEW t \in escapedFiber' PROVE t \in Tracks /\ fate'[t] # Alive
    <3>1. CASE t \in Fresh(escapedFiber, {})
      BY <1>0, <2>1, <2>2, <2>3, <3>1
    <3>2. CASE t = photon.id /\ LeavesFiber(photon, o)
      <4>1. Dies(photon, o)
        BY <3>2 DEF Dies, KilledByUs
      <4> QED
        BY <2>1, <2>2, <2>3, <3>2, <4>1
    <3> QED
      BY <2>2, <3>1, <3>2 DEF EscapedAfter
  <2> QED
    BY <2>2, <2>4, <2>6, <2>7, StepIsCurrent
<1> QED
  BY <1>1, <1>2, <1>3, <1>4, <1>5, <1>6
     DEF Next, Advance, Emit, vars, actionVars, geantVars, historyVars

\* In a job of one run with KillEscapedPhotons no photon, of any event, lives
\* to be absorbed outside its fibre after it left it.
THEOREM KilledPhotonsAreDead ==
  ASSUME MaxRuns = 1 PROVE Spec => []KilledPhotonsAreNotNonCaptured
<1>1. Init => KilledOK
  BY DEF Init, KilledOK, Fresh, Zero, Fields, Losses
<1>2. KilledOK => KilledPhotonsAreNotNonCaptured
  BY DEF KilledOK, KilledPhotonsAreNotNonCaptured
<1>3. OneRun /\ KilledOK /\ [Next]_vars => KilledOK'
  BY NextKilled
<1> QED
  BY <1>1, <1>2, <1>3, InOneRun, PTL DEF Spec

-----------------------------------------------------------------------------
(***************************************************************************)
(* The run's totals are the deaths of all its events.                      *)
(***************************************************************************)
\* What has been folded and what is still in the event's counters are together
\* the deaths of the job; the end of the run folds the rest.
TotalsOK ==
  \A f \in Losses :
    tally[f] = IF phase = "idle" /\ endRunRegistered THEN runAll[f] ELSE runAll[f] + cAll[f]

\* No event is passed over: when events always have a primary, an event that
\* ended was seen, and every event before the one seen last has been folded.
FoldsOK ==
  /\ phase = "run" => Current
  /\ phase = "event" => /\ event = currentEventID \/ event = currentEventID + 1
                        /\ kind \in EventKinds
                        /\ primarySteps > 0 \/ (\E t \in Tracks : fate[t] # Alive) => Current
  /\ ~ (phase = "idle" /\ endRunRegistered) =>
       Len(perEventWLS) = IF currentEventID = -1 THEN 0 ELSE currentEventID

HistogramsOK ==
  histograms.written =>
    /\ phase = "idle" /\ endRunRegistered
    /\ \A f \in Losses : histograms.all[f] = tally[f]
    /\ histograms.events = event + 1

CompleteOK == TotalsOK /\ FoldsOK /\ HistogramsOK

\* What a fold does to the totals of the losses and to the events folded.
LEMMA FoldOfLosses ==
  ASSUME StateOK, foldCurrentEventIntoTotals
  PROVE  /\ \A f \in Losses : runAll'[f] = runAll[f] + cAll[f]
         /\ Len(perEventWLS') = Len(perEventWLS) + 1
<1>1. cWLS \in Counters /\ perEventWLS \in Seq(Counters)
  BY DEF StateOK, CountersOK, Counters
<1>2. perEventWLS' = Append(perEventWLS, cWLS) /\ runAll' = Plus(runAll, cAll)
  BY DEF foldCurrentEventIntoTotals
<1>3. Len(perEventWLS') = Len(perEventWLS) + 1
  BY <1>1, <1>2, AppendProperties
<1> QED
  BY <1>2, <1>3, LossesAreFields DEF Plus

LEMMA LossesNumeric ==
  ASSUME StateOK
  PROVE  /\ \A f \in Losses : cAll[f] \in Nat /\ runAll[f] \in Nat /\ Zero[f] = 0
         /\ tally \in [Losses -> Nat] /\ Len(perEventWLS) \in Nat
BY LossesAreFields DEF StateOK, CountersOK, HistoryOK, Zero

\* A step that begins an event folds the one before it.
LEMMA StepFolds ==
  ASSUME OneRun, CompleteOK, phase = "event", beginEvent, event' = event, phase' = "event"
  PROVE  /\ \A f \in Losses : runAll'[f] + Fresh(cAll, Zero)[f] = tally[f]
         /\ Len(perEventWLS') = event
<1>1. StateOK /\ AnyJob /\ OneRunOK
  BY DEF OneRun, AnyJob
<1>2. /\ \A f \in Losses : tally[f] = runAll[f] + cAll[f]
      /\ Len(perEventWLS) = IF currentEventID = -1 THEN 0 ELSE currentEventID
      /\ event = currentEventID \/ event = currentEventID + 1
  BY DEF CompleteOK, TotalsOK, FoldsOK
<1>3. event \in Int /\ currentEventID \in Int /\ currentEventID >= -1 /\ event >= 0
  BY <1>1, Ids
<1>4. CASE Folding
  <2>1. NewEvent /\ currentEventID >= 0 /\ foldCurrentEventIntoTotals
    BY <1>4 DEF Folding, beginEvent
  <2>2. /\ \A f \in Losses : runAll'[f] = runAll[f] + cAll[f]
        /\ Len(perEventWLS') = Len(perEventWLS) + 1
    BY <1>1, <2>1, FoldOfLosses
  <2>3. Len(perEventWLS') = event
    BY <1>2, <1>3, <2>1, <2>2 DEF NewEvent
  <2>4. \A f \in Losses : runAll'[f] + Zero[f] = tally[f]
    BY <1>1, <1>2, <2>2, LossesNumeric
  <2> QED
    BY <2>1, <2>3, <2>4 DEF Fresh
<1>5. CASE ~ Folding
  <2>1. /\ runAll' = runAll /\ perEventWLS' = perEventWLS
        /\ ~ NewEvent \/ (currentEventID = -1 /\ cAll = Zero)
    BY <1>1, <1>3, <1>5 DEF Folding, beginEvent, OneRunOK
  <2>2. Len(perEventWLS') = event
    BY <1>2, <1>3, <2>1 DEF NewEvent
  <2>3. Fresh(cAll, Zero) = cAll
    BY <2>1 DEF Fresh
  <2> QED
    BY <1>2, <2>1, <2>2, <2>3
<1> QED
  BY <1>4, <1>5

LEMMA NextComplete ==
  ASSUME MaxRuns = 1, "empty" \notin EventKinds, OneRun, CompleteOK, [Next]_vars
  PROVE  CompleteOK'
<1>0. StateOK /\ AnyJob /\ OneRunOK /\ TotalsOK /\ FoldsOK /\ HistogramsOK
  BY DEF OneRun, AnyJob, CompleteOK
<1> USE DEF CompleteOK
<1>1. CASE UNCHANGED vars
  BY <1>0, <1>1 DEF vars, actionVars, outputVars, geantVars, historyVars, TotalsOK, FoldsOK,
     HistogramsOK, Current
<1>2. CASE StartRun
  <2>1. /\ UNCHANGED <<tally, runAll, cAll, endRunRegistered, currentEventID, perEventWLS>>
        /\ ~ histograms'.written
    BY <1>2 DEF StartRun, actionVars, NoHistograms
  <2>2. /\ event' = event /\ event = -1 /\ phase' = "run" /\ ~ endRunRegistered
        /\ currentEventID = -1
    BY <1>0, <1>2, StartRunIsFirst, Ids DEF OneRunOK
  <2> QED
    BY <1>0, <2>1, <2>2 DEF TotalsOK, FoldsOK, HistogramsOK, Current
<1>3. ASSUME NEW k \in EventKinds, StartEvent(k) PROVE CompleteOK'
  <2>1. /\ UNCHANGED <<tally, runAll, cAll, endRunRegistered, currentEventID, perEventWLS,
                       histograms>>
        /\ kind' = k /\ primarySteps' = 0 /\ fate' = [t \in Tracks |-> Alive]
    BY <1>3 DEF StartEvent, actionVars, outputVars
  <2>2. phase = "run" /\ phase' = "event" /\ event' = event + 1
    BY <1>3, StartEventIsNew
  <2> QED
    BY <1>0, <1>3, <2>1, <2>2 DEF TotalsOK, FoldsOK, HistogramsOK, Current
<1>4. CASE EndEvent
  <2>1. /\ UNCHANGED <<tally, runAll, cAll, endRunRegistered, currentEventID, perEventWLS,
                       histograms, event>>
        /\ phase = "event" /\ phase' = "run"
        /\ kind = "charged" => primarySteps > 0
        /\ kind = "optical" => \E t \in Tracks : fate[t] # Alive
    BY <1>4 DEF EndEvent, actionVars
  <2>2. kind = "charged" \/ kind = "optical"
    BY <1>0, <2>1, SwitchesAssumption DEF FoldsOK
  <2>3. Current
    BY <1>0, <2>1, <2>2 DEF FoldsOK
  <2> QED
    BY <1>0, <2>1, <2>3 DEF TotalsOK, FoldsOK, HistogramsOK, Current
<1>5. ASSUME NEW t, NEW creator, NEW v, Emit(t, creator, v) PROVE CompleteOK'
  BY <1>0, <1>5 DEF Emit, actionVars, outputVars, geantVars, TotalsOK, FoldsOK, HistogramsOK,
     Current
<1>6. CASE processPrimary
  <2>1. /\ phase = "event" /\ beginEvent /\ phase' = "event" /\ event' = event
        /\ cAll' = Fresh(cAll, Zero)
        /\ UNCHANGED <<tally, histograms, kind, fate>>
    BY <1>6 DEF processPrimary, outputVars, historyVars
  <2>2. event >= 0 /\ event \in Int
    BY <1>0, <2>1, Ids
  <2> QED
    BY <1>0, <2>1, <2>2, StepFolds, StepIsCurrent
       DEF TotalsOK, FoldsOK, HistogramsOK, Current
<1>7. ASSUME InFlight, NEW o \in Outcomes(photon), NEW passed, processOpticalPhoton(o, passed)
      PROVE  CompleteOK'
  <2>1. /\ phase = "event" /\ beginEvent /\ phase' = "event" /\ event' = event
        /\ UNCHANGED <<histograms, kind>>
        /\ tally' = IF Dies(photon, o) THEN [tally EXCEPT ![LossOf(o)] = @ + 1] ELSE tally
    BY <1>7, PhotonStep
  <2>2. event >= 0 /\ event \in Int
    BY <1>0, <2>1, Ids
  <2>3. /\ Len(perEventWLS') = event /\ currentEventID' = event
        /\ \A f \in Losses : runAll'[f] + Fresh(cAll, Zero)[f] = tally[f]
    BY <2>1, StepFolds, StepIsCurrent
  <2>4. StateOK'
    BY <1>0, NextStateOK
  <2>5. \A f \in Losses : tally'[f] = runAll'[f] + cAll'[f]
    <3> TAKE f \in Losses
    <3>1. /\ tally \in [Losses -> Nat] /\ Fresh(cAll, Zero)[f] \in Nat
          /\ runAll'[f] \in Nat
      <4>1. tally \in [Losses -> Nat] /\ Fresh(cAll, Zero)[f] \in Nat
        BY <1>0, LossesNumeric DEF Fresh
      <4>2. runAll' \in [Fields -> Nat] /\ f \in Fields
        BY <2>4, LossesAreFields DEF StateOK, CountersOK
      <4> QED
        BY <4>1, <4>2
    <3>2. cAll'[f] = IF Dies(photon, o) /\ f = LossOf(o)
                     THEN Fresh(cAll, Zero)[f] + 1 ELSE Fresh(cAll, Zero)[f]
      BY <1>7, PhotonCounts
    <3>3. tally'[f] = IF Dies(photon, o) /\ f = LossOf(o) THEN tally[f] + 1 ELSE tally[f]
      BY <2>1, <3>1
    <3> QED
      BY <2>3, <3>1, <3>2, <3>3
  <2>6. TotalsOK'
    BY <2>1, <2>5 DEF TotalsOK
  <2>7. FoldsOK'
    BY <1>0, <2>1, <2>2, <2>3 DEF FoldsOK, Current
  <2>8. HistogramsOK'
    BY <1>0, <2>1 DEF HistogramsOK
  <2> QED
    BY <2>6, <2>7, <2>8
<1>8. CASE EndRun
  <2>1. /\ phase = "run" /\ event >= 0 /\ phase' = "idle" /\ UNCHANGED <<event, tally>>
        /\ UNCHANGED <<endRunRegistered, currentEventID, cAll>>
    BY <1>8 DEF EndRun, endRun, actionVars, historyVars
  <2>2. currentEventID = event /\ endRunRegistered
    BY <1>0, <2>1 DEF FoldsOK, Current, OneRunOK
  <2>3. foldCurrentEventIntoTotals /\ (OutputFile => writeSummaryHistograms)
        /\ (~ OutputFile => histograms' = histograms)
    BY <1>8, <2>1, <2>2 DEF EndRun, endRun
  <2>4. /\ \A f \in Losses : runAll'[f] = runAll[f] + cAll[f]
        /\ Len(perEventWLS') = Len(perEventWLS) + 1
    BY <1>0, <2>3, FoldOfLosses
  <2>5. \A f \in Losses : tally[f] = runAll'[f]
    BY <1>0, <2>1, <2>4 DEF TotalsOK
  <2>6. Len(perEventWLS') = event + 1
    BY <1>0, <2>1, <2>2, <2>4 DEF FoldsOK
  <2>7. ~ histograms.written
    BY <1>0, <2>1 DEF HistogramsOK
  <2>8. HistogramsOK'
    <3>1. CASE histograms' = histograms
      BY <2>7, <3>1 DEF HistogramsOK
    <3>2. CASE histograms' = [written |-> TRUE, all |-> runAll', wls |-> runWLS',
                              prim |-> runPrim', events |-> Len(perEventWLS')]
      BY <2>1, <2>2, <2>5, <2>6, <3>2 DEF HistogramsOK
    <3> QED
      BY <2>3, <3>1, <3>2 DEF writeSummaryHistograms
  <2> QED
    BY <2>1, <2>2, <2>5, <2>8 DEF TotalsOK, FoldsOK
<1> QED
  BY <1>1, <1>2, <1>3, <1>4, <1>5, <1>6, <1>7, <1>8 DEF Next, Advance

\* In a job of one run whose events all have a primary, the totals of the run
\* and the histograms are those of all its events, the last one included, each
\* folded once: every photon that died in the run is in them.
THEOREM RunTotalsAreComplete ==
  ASSUME MaxRuns = 1, "empty" \notin EventKinds
  PROVE  Spec => []RunTotalsAreTheDeaths
<1>1. Init => CompleteOK
  <2>1. Init => Len(perEventWLS) = 0
    BY DEF Init
  <2> QED
    BY <2>1, LossesAreFields
       DEF Init, CompleteOK, TotalsOK, FoldsOK, HistogramsOK, NoHistograms, Zero
<1>2. CompleteOK => RunTotalsAreTheDeaths
  BY DEF CompleteOK, TotalsOK, HistogramsOK, RunTotalsAreTheDeaths
<1>3. OneRun /\ CompleteOK /\ [Next]_vars => CompleteOK'
  BY NextComplete
<1> QED
  BY <1>1, <1>2, <1>3, InOneRun, PTL DEF Spec

=============================================================================
