------------------------ MODULE TPCSDAction_proofs ------------------------
(***************************************************************************)
(* Proofs about TPCSDAction, for all tracks, pad rows, deposits,           *)
(* thresholds and settings of the action.                                  *)
(***************************************************************************)
EXTENDS TPCSDAction, TLAPS

\* The numbers the energy accounting is about.
Energies ==
  /\ pad.dE \in Nat /\ path.E \in Nat
  /\ deposited \in Nat /\ recorded \in Nat /\ ignored \in Nat

\* A hit holds the energy of its pad row or nothing.
LEMMA HiPtEnergyBound ==
  ASSUME NEW p, NEW main, p.dE \in Nat
  PROVE  /\ HiPtEnergy(p, main) \in Nat
         /\ HiPtEnergy(p, main) =< p.dE
         /\ ~ HasPosition(p, main) => HiPtEnergy(p, main) = 0
BY DEF HiPtEnergy, MakesHit

\* A hit holds the energy of its path or nothing, and then the path is cleared.
LEMMA EndPathEnergy ==
  ASSUME NEW l, NEW info, l.E \in Nat
  PROVE  /\ LowPtEnergy(l, info) \in Nat
         /\ EndPath(l, info).E \in Nat
         /\ LowPtEnergy(l, info) + EndPath(l, info).E =< l.E
BY DEF LowPtEnergy, EndPath, DepositsPath, EmptyPath

LEMMA ResetEnergy == \A p : ResetPadrowVariables(p).dE = 0
BY DEF ResetPadrowVariables, EmptyPad

EnergyInv == Energies /\ NoEnergyInvented

LEMMA HighPtStepEnergy ==
  ASSUME EnergyInv, NEW s, s.e \in Nat, HighPtStep(s), deposited' = deposited + s.e
  PROVE  EnergyInv'
<1> DEFINE p == Accumulated(s)
           done == CompletesRow(s)
<1>1. p.dE = pad.dE + s.e /\ p.dE \in Nat
  BY DEF Accumulated, EnergyInv, Energies
<1>2. /\ LowPtEnergy(path, previous) \in Nat /\ path'.E \in Nat
      /\ LowPtEnergy(path, previous) + path'.E =< path.E
  BY EndPathEnergy DEF HighPtStep, EnergyInv, Energies
<1>3. /\ HiPtEnergy(p, This) \in Nat /\ HiPtEnergy(p, This) =< p.dE
      /\ ~ HasPosition(p, This) => HiPtEnergy(p, This) = 0
  BY <1>1, HiPtEnergyBound
<1>4. /\ recorded' = recorded + LowPtEnergy(path, previous)
                     + (IF done THEN HiPtEnergy(p, This) ELSE 0)
      /\ ignored' = IF done /\ ~ HasPosition(p, This) THEN ignored + p.dE ELSE ignored
      /\ pad' = IF done THEN ResetPadrowVariables(p) ELSE p
  BY DEF HighPtStep
<1> HIDE DEF p, done
<1>5. CASE done
  <2>1. pad'.dE = 0
    BY <1>4, <1>5, ResetEnergy
  <2>2. QED
    BY <1>1, <1>2, <1>3, <1>4, <1>5, <2>1 DEF EnergyInv, Energies, NoEnergyInvented
<1>6. CASE ~ done
  BY <1>1, <1>2, <1>4, <1>6 DEF EnergyInv, Energies, NoEnergyInvented
<1>7. QED
  BY <1>5, <1>6

LEMMA LowPtStepEnergy ==
  ASSUME EnergyInv, NEW s, s.e \in Nat, LowPtStep(s), deposited' = deposited + s.e
  PROVE  EnergyInv'
<1> DEFINE continued == IF BreaksPath THEN EndPath(path, previous) ELSE path
           l == Cumulated(continued, s)
           ends == EndsPath(l, s)
           broken == IF BreaksPath THEN LowPtEnergy(path, previous) ELSE 0
           left == IF LeftOver THEN HiPtEnergy(pad, previous) ELSE 0
           final == IF ends THEN LowPtEnergy(l, This) ELSE 0
<1>0. EnergyInv /\ Energies /\ pad.dE \in Nat /\ path.E \in Nat
  BY DEF EnergyInv, Energies
<1>1. /\ recorded' = recorded + left + broken + final
      /\ ignored' = IF LeftOver /\ ~ HasPosition(pad, previous)
                    THEN ignored + pad.dE ELSE ignored
      /\ pad' = IF LeftOver THEN ResetPadrowVariables(pad) ELSE pad
      /\ path' = IF ends THEN EndPath(l, This) ELSE l
  BY DEF LowPtStep
<1>2. /\ broken \in Nat /\ continued.E \in Nat /\ broken + continued.E =< path.E
  BY <1>0, EndPathEnergy
<1>3. l.E = continued.E + s.e /\ l.E \in Nat
  BY <1>2 DEF Cumulated
<1>4. final \in Nat /\ path'.E \in Nat /\ final + path'.E =< l.E
  BY <1>1, <1>3, EndPathEnergy
<1>5. left \in Nat /\ ignored' \in Nat /\ pad'.dE \in Nat
      /\ left + ignored' + pad'.dE =< ignored + pad.dE
  <2>1. CASE LeftOver
    <3>1. /\ HiPtEnergy(pad, previous) \in Nat /\ HiPtEnergy(pad, previous) =< pad.dE
          /\ ~ HasPosition(pad, previous) => HiPtEnergy(pad, previous) = 0
      BY <1>0, HiPtEnergyBound
    <3>2. pad'.dE = 0
      BY <1>1, <2>1, ResetEnergy
    <3>3. QED
      BY <1>0, <1>1, <2>1, <3>1, <3>2 DEF Energies
  <2>2. CASE ~ LeftOver
    BY <1>0, <1>1, <2>2 DEF Energies
  <2>3. QED
    BY <2>1, <2>2
<1> HIDE DEF continued, l, ends, broken, left, final
<1>6. QED
  BY <1>0, <1>1, <1>2, <1>3, <1>4, <1>5 DEF EnergyInv, Energies, NoEnergyInvented

LEMMA ProcessEnergy ==
  ASSUME EnergyInv, NEW s \in Steps, process(s)
  PROVE  EnergyInv'
<1>1. s.e \in Nat /\ deposited' = deposited + s.e
  BY TPCAssumption DEF Steps, process
<1>2. CASE HighPtStep(s)
  BY <1>1, <1>2, HighPtStepEnergy
<1>3. CASE LowPtStep(s)
  BY <1>1, <1>3, LowPtStepEnergy
<1>4. CASE IgnoredStep
  BY <1>1, <1>4 DEF IgnoredStep, EnergyInv, Energies, NoEnergyInvented
<1>5. QED
  BY <1>2, <1>3, <1>4 DEF process

LEMMA NextEnergy == EnergyInv /\ [Next]_vars => EnergyInv'
<1> SUFFICES ASSUME EnergyInv, [Next]_vars PROVE EnergyInv'
  OBVIOUS
<1>1. CASE endEvent
  <2>1. /\ LowPtEnergy(path, previous) \in Nat
        /\ LowPtEnergy(path, previous) =< path.E
    BY EndPathEnergy DEF EnergyInv, Energies
  <2>2. /\ pad'.dE = 0 /\ path'.E = 0 /\ UNCHANGED <<deposited, ignored>>
        /\ recorded' = recorded + LowPtEnergy(path, previous)
    BY <1>1, ResetEnergy DEF endEvent, PadAfterEvent, EmptyPath
  <2>3. QED
    BY <2>1, <2>2 DEF EnergyInv, Energies, NoEnergyInvented
<1>2. CASE UNCHANGED <<pad, path, deposited, recorded, ignored>>
  BY <1>2 DEF EnergyInv, Energies, NoEnergyInvented
<1>3. QED
  BY <1>1, <1>2, ProcessEnergy
     DEF Next, Enter, StartEvent, actionVars, historyVars, vars

\* The pad row and the path outlive steps, rows and tracks, yet no energy is
\* ever given to two hits, whatever the settings and however tracks follow
\* each other.
THEOREM EnergyNotInvented == Spec => []NoEnergyInvented
<1>1. Init => EnergyInv
  BY DEF Init, EnergyInv, Energies, NoEnergyInvented, EmptyPad, EmptyPath
<1>2. QED
  BY <1>1, NextEnergy, PTL DEF Spec, EnergyInv

-----------------------------------------------------------------------------
(***************************************************************************)
(* What the accumulations are attributed to.  OneAccumulation is not       *)
(* inductive: that a step which ends the path always clears it needs the   *)
(* previous step to be valid whenever there is a path.                     *)
(***************************************************************************)
PathInv ==
  /\ Energies
  /\ path.steps \in Nat
  /\ path.steps = 0 => path = EmptyPath
  /\ path.connected = TRUE
  /\ path.steps > 0 => lowPtStepLimit = TRUE
  /\ pad.dE > 0 => pad.entrance.valid

AttributionInv ==
  /\ PathInv /\ OneAccumulation /\ DepositsHaveTheirStep /\ LowPtHitsAreConnected

\* Under the invariant EndPath always clears the path.
LEMMA PathEnds ==
  ASSUME PathInv, DepositsHaveTheirStep
  PROVE  EndPath(path, previous) = EmptyPath
<1>1. CASE path.steps = 0
  BY <1>1, TPCAssumption DEF PathInv, EndPath, EmptyPath
<1>2. CASE path.steps > 0
  BY <1>2 DEF DepositsHaveTheirStep, EndPath
<1>3. QED
  BY <1>1, <1>2 DEF PathInv

\* What is deposited of the path is connected and is the previous track's.
LEMMA DepositedPath ==
  ASSUME PathInv, DepositsHaveTheirStep, NEW h \in LowPtHits(path, previous)
  PROVE  h.connected /\ h.last = h.track
<1>1. path.E > Threshold
  BY DEF LowPtHits, DepositsPath
<1>2. path.steps > 0
  BY <1>1, TPCAssumption DEF PathInv, EmptyPath
<1>3. previous.track = path.last /\ path.connected = TRUE
  BY <1>2 DEF PathInv, DepositsHaveTheirStep
<1>4. h.track = previous.track /\ h.last = path.last /\ h.connected = path.connected
  BY DEF LowPtHits
<1>5. QED
  BY <1>3, <1>4

LEMMA HighPtStepAttribution ==
  ASSUME AttributionInv, Energies', NEW s, s.e \in Nat, HighPtStep(s), previous' = This
  PROVE  AttributionInv'
<1>0. PathInv /\ DepositsHaveTheirStep
  BY DEF AttributionInv
<1>1. path' = EmptyPath
  BY <1>0, PathEnds DEF HighPtStep
<1>2. path'.steps = 0 /\ path'.connected = TRUE
  BY <1>1 DEF EmptyPath
<1>3. pad'.dE > 0 => pad'.entrance.valid
  <2>1. CASE pad' = ResetPadrowVariables(Accumulated(s))
    BY <2>1 DEF ResetPadrowVariables, EmptyPad
  <2>2. CASE pad' = Accumulated(s)
    <3>1. pad'.entrance = IF pad.entrance.valid THEN pad.entrance ELSE This
      BY <2>2 DEF Accumulated
    <3>2. This.valid
      BY DEF This
    <3>3. QED
      BY <3>1, <3>2
  <2>3. QED
    BY <2>1, <2>2 DEF HighPtStep
<1>4. previous'.valid
  BY DEF This
<1>5. LowPtHitsAreConnected'
  <2>1. lowHits' = lowHits \cup LowPtHits(path, previous)
    BY DEF HighPtStep
  <2>2. QED
    BY <1>0, <2>1, DepositedPath DEF AttributionInv, LowPtHitsAreConnected
<1>6. PathInv'
  BY <1>1, <1>2, <1>3 DEF PathInv, Energies
<1>7. OneAccumulation' /\ DepositsHaveTheirStep'
  BY <1>2, <1>3, <1>4 DEF OneAccumulation, DepositsHaveTheirStep
<1>8. QED
  BY <1>5, <1>6, <1>7 DEF AttributionInv

LEMMA LowPtStepAttribution ==
  ASSUME AttributionInv, Energies', NEW s, s.e \in Nat, LowPtStep(s), previous' = This,
         lowPtStepLimit' = TRUE
  PROVE  AttributionInv'
<1> DEFINE continued == IF BreaksPath THEN EndPath(path, previous) ELSE path
           l == Cumulated(continued, s)
           ends == EndsPath(l, s)
<1>0. PathInv /\ DepositsHaveTheirStep
  BY DEF AttributionInv
<1>1. /\ lowHits' = lowHits
                     \cup (IF BreaksPath THEN LowPtHits(path, previous) ELSE {})
                     \cup (IF ends THEN LowPtHits(l, This) ELSE {})
      /\ path' = IF ends THEN EndPath(l, This) ELSE l
  BY DEF LowPtStep
<1>2. /\ continued.steps \in Nat /\ continued.connected = TRUE
      /\ continued.steps > 0 => joined
  <2>1. CASE BreaksPath
    BY <1>0, <2>1, PathEnds DEF EmptyPath
  <2>2. CASE ~ BreaksPath
    BY <1>0, <2>2 DEF BreaksPath, PathInv
  <2>3. QED
    BY <2>1, <2>2
<1>3. l.steps \in Nat \ {0} /\ l.connected = TRUE /\ l.last = track
  <2>1. continued.connected /\ (continued.steps > 0 => joined)
    BY <1>2
  <2>2. l.connected = (continued.connected /\ (continued.steps > 0 => joined))
    BY Zenon DEF Cumulated
  <2>3. l.connected = TRUE
    BY <2>1, <2>2, Zenon
  <2>4. l.steps \in Nat \ {0} /\ l.last = track
    BY <1>2 DEF Cumulated
  <2>5. QED
    BY <2>3, <2>4
<1>4. This.valid /\ This.track = track
  BY DEF This
<1>5. pad'.dE = 0
  <2>1. CASE LeftOver
    BY <2>1, ResetEnergy DEF LowPtStep
  <2>2. CASE ~ LeftOver
    BY <1>0, <2>2 DEF LowPtStep, LeftOver, PathInv, Energies
  <2>3. QED
    BY <2>1, <2>2
<1> HIDE DEF continued, l, ends
<1>6. \A h \in LowPtHits(l, This) : h.connected /\ h.last = h.track
  BY <1>3, <1>4 DEF LowPtHits
<1>7. LowPtHitsAreConnected'
  BY <1>0, <1>1, <1>6, DepositedPath DEF AttributionInv, LowPtHitsAreConnected
<1>8. \/ path' = EmptyPath
      \/ path' = l
  BY <1>1, <1>4 DEF EndPath
<1>9. previous'.valid /\ previous'.track = track
  BY <1>4
<1>10. CASE path' = EmptyPath
  <2>1. path'.steps = 0 /\ path'.connected = TRUE
    BY <1>10 DEF EmptyPath
  <2>2. PathInv'
    BY <1>5, <1>10, <2>1 DEF PathInv, Energies
  <2>3. OneAccumulation' /\ DepositsHaveTheirStep'
    BY <1>5, <2>1 DEF OneAccumulation, DepositsHaveTheirStep
  <2>4. QED
    BY <1>7, <2>2, <2>3 DEF AttributionInv
<1>11. CASE path' = l
  <2>1. PathInv'
    BY <1>3, <1>5, <1>11 DEF PathInv, Energies
  <2>2. OneAccumulation' /\ DepositsHaveTheirStep'
    BY <1>3, <1>5, <1>9, <1>11 DEF OneAccumulation, DepositsHaveTheirStep
  <2>3. QED
    BY <1>7, <2>1, <2>2 DEF AttributionInv
<1>12. QED
  BY <1>8, <1>10, <1>11

LEMMA NextAttribution == EnergyInv /\ AttributionInv /\ [Next]_vars => AttributionInv'
<1> SUFFICES ASSUME EnergyInv, AttributionInv, [Next]_vars PROVE AttributionInv'
  OBVIOUS
<1>0. lowPtStepLimit' = lowPtStepLimit
  BY DEF Next, vars
<1>1. ASSUME NEW s \in Steps, process(s) PROVE AttributionInv'
  <2>1. s.e \in Nat /\ previous' = This
    BY <1>1, TPCAssumption DEF Steps, process
  <2>2. Energies'
    BY <1>1, ProcessEnergy DEF EnergyInv
  <2>3. CASE HighPtStep(s)
    BY <2>1, <2>2, <2>3, HighPtStepAttribution
  <2>4. CASE LowPtStep(s) /\ lowPtStepLimit = TRUE
    BY <1>0, <2>1, <2>2, <2>4, LowPtStepAttribution
  <2>5. CASE IgnoredStep /\ lowPtStepLimit # TRUE
    \* previous changes while a path could be pending: there is none.
    BY <1>0, <2>1, <2>2, <2>5
       DEF IgnoredStep, collections, AttributionInv, PathInv, OneAccumulation,
           DepositsHaveTheirStep, LowPtHitsAreConnected, This
  <2>6. lowPtStepLimit => lowPtStepLimit = TRUE
    OBVIOUS
  <2>7. QED
    BY <1>1, <2>3, <2>4, <2>5, <2>6 DEF process
<1>2. CASE endEvent
  <2>1. /\ pad'.dE = 0 /\ path' = EmptyPath /\ path'.steps = 0
        /\ path'.connected = TRUE /\ UNCHANGED previous
        /\ lowHits' = lowHits \cup LowPtHits(path, previous)
    BY <1>2, ResetEnergy DEF endEvent, PadAfterEvent, EmptyPath
  <2>2. Energies'
    <3>1. LowPtEnergy(path, previous) \in Nat
      BY EndPathEnergy DEF EnergyInv, Energies
    <3>2. QED
      BY <1>2, <2>1, <3>1 DEF endEvent, EnergyInv, Energies, EmptyPath
  <2>3. LowPtHitsAreConnected'
    BY <2>1, DepositedPath DEF AttributionInv, LowPtHitsAreConnected
  <2>4. PathInv'
    BY <2>1, <2>2 DEF PathInv, Energies
  <2>5. OneAccumulation' /\ DepositsHaveTheirStep'
    BY <2>1 DEF OneAccumulation, DepositsHaveTheirStep
  <2>6. QED
    BY <2>3, <2>4, <2>5 DEF AttributionInv
<1>3. CASE UNCHANGED <<actionVars, historyVars, lowHits>>
  BY <1>0, <1>3 DEF actionVars, historyVars, AttributionInv, PathInv, Energies,
     OneAccumulation, DepositsHaveTheirStep, LowPtHitsAreConnected
<1>4. CASE StartEvent
  BY <1>0, <1>4 DEF StartEvent, actionVars, historyVars, AttributionInv, PathInv, Energies,
     OneAccumulation, DepositsHaveTheirStep, LowPtHitsAreConnected
<1>5. QED
  BY <1>1, <1>2, <1>3, <1>4 DEF Next, Enter, collections, vars

LEMMA AttributionInvariant == Spec => []AttributionInv
<1>1. Init => EnergyInv /\ AttributionInv
  BY DEF Init, EnergyInv, AttributionInv, PathInv, Energies, NoEnergyInvented, EmptyPad,
     EmptyPath, OneAccumulation, DepositsHaveTheirStep, LowPtHitsAreConnected
<1>2. EnergyInv /\ AttributionInv /\ [Next]_vars => (EnergyInv /\ AttributionInv)'
  BY NextAttribution, NextEnergy
<1>3. QED
  BY <1>1, <1>2, PTL DEF Spec

\* The two accumulations are never in use together, and both deposits find a
\* valid step, of the track that made the path's last step, to attribute their
\* hit to: the error branches of the deposits are not reached.
THEOREM DepositsAreAttributed == Spec => [](OneAccumulation /\ DepositsHaveTheirStep)
BY AttributionInvariant, PTL DEF AttributionInv

\* A low-pt hit is one connected path of the track it is attributed to,
\* whoever's step triggers it.
THEOREM LowPtHitsConnected == Spec => []LowPtHitsAreConnected
BY AttributionInvariant, PTL DEF AttributionInv

-----------------------------------------------------------------------------
(***************************************************************************)
(* Types.  That a step is of a track and a row, and its energy that of one *)
(* of the sources, comes from where Geant4 is: GeantOK.                    *)
(***************************************************************************)
\* The pad row and the path hold only energies of steps and their sources.
LEMMA HighPtStepType ==
  ASSUME TypeOK, NEW s \in Steps, HighPtStep(s), row \in Rows, track \in Tracks
  PROVE  /\ PadOK' /\ PathOK' /\ radii' \subseteq Rows /\ spaceHits' \subseteq Info
         /\ recorded' \in Nat /\ ignored' \in Nat
<1> DEFINE p == Accumulated(s)
<1>1. This \in Info /\ Source \in Sources
  BY DEF This, Info, Source, Sources, TypeOK, GeantOK
<1>2. s.e \in Nat /\ s.corner \in BOOLEAN
  BY TPCAssumption DEF Steps
<1>3. /\ p.dE \in Nat /\ p.centre \in Points \cup {NoPoint}
      /\ p.entrance \in Infos /\ p.from \subseteq Sources
  BY <1>1, <1>2 DEF Accumulated, Points, TypeOK, PadOK, Infos
<1> HIDE DEF p
<1>4. PadOK'
  <2>1. CASE pad' = p
    BY <1>3, <2>1 DEF PadOK, Infos
  <2>2. CASE pad' = EmptyPad
    BY <2>2 DEF PadOK, EmptyPad, Infos
  <2>3. QED
    BY <2>1, <2>2 DEF HighPtStep, ResetPadrowVariables, p
<1>5. PathOK'
  BY DEF HighPtStep, EndPath, EmptyPath, TypeOK, PathOK
<1>6. LowPtEnergy(path, previous) \in Nat /\ HiPtEnergy(p, This) \in Nat
  BY <1>3, EndPathEnergy, HiPtEnergyBound DEF TypeOK, PathOK
<1>7. recorded' \in Nat /\ ignored' \in Nat
  BY <1>3, <1>6 DEF HighPtStep, TypeOK, p
<1>8. QED
  BY <1>1, <1>4, <1>5, <1>7 DEF HighPtStep, TypeOK

LEMMA LowPtStepType ==
  ASSUME TypeOK, NEW s \in Steps, LowPtStep(s), row \in Rows, track \in Tracks
  PROVE  /\ PadOK' /\ PathOK' /\ radii' \subseteq Rows /\ spaceHits' \subseteq Info
         /\ recorded' \in Nat /\ ignored' \in Nat
<1> DEFINE continued == IF BreaksPath THEN EndPath(path, previous) ELSE path
           l == Cumulated(continued, s)
<1>1. Source \in Sources
  BY DEF Source, Sources, TypeOK, GeantOK
<1>2. s.e \in Nat
  BY TPCAssumption DEF Steps
<1>3. continued \in {path, EmptyPath}
  BY DEF EndPath
<1>4. /\ continued.steps \in Nat /\ continued.E \in Nat
      /\ continued.from \subseteq Sources
  BY <1>3 DEF EmptyPath, TypeOK, PathOK
<1>5. l.steps \in Nat /\ l.E \in Nat /\ l.from \subseteq Sources /\ l.last \in Tracks
  BY <1>1, <1>2, <1>4 DEF Cumulated
<1>6. l.connected \in BOOLEAN
  <2>1. l.connected = (continued.connected /\ (continued.steps > 0 => joined))
    BY Zenon DEF Cumulated
  <2>2. QED
    BY <2>1, Zenon
<1> HIDE DEF l, continued
<1>7. PathOK'
  <2>1. CASE path' = l
    BY <1>5, <1>6, <2>1, Zenon DEF PathOK
  <2>2. CASE path' = EmptyPath
    BY <2>2 DEF PathOK, EmptyPath
  <2>3. QED
    BY <2>1, <2>2 DEF LowPtStep, EndPath, l, continued
<1>8. PadOK'
  BY DEF LowPtStep, ResetPadrowVariables, EmptyPad, Infos, TypeOK, PadOK
<1>9. /\ LowPtEnergy(path, previous) \in Nat /\ LowPtEnergy(l, This) \in Nat
      /\ HiPtEnergy(pad, previous) \in Nat
  BY <1>5, EndPathEnergy, HiPtEnergyBound DEF TypeOK, PadOK, PathOK
<1>10. recorded' \in Nat /\ ignored' \in Nat
  BY <1>9 DEF LowPtStep, TypeOK, PadOK, l, continued
<1>11. QED
  BY <1>7, <1>8, <1>10 DEF LowPtStep, TypeOK

LEMMA ProcessType ==
  ASSUME TypeOK, NEW s \in Steps, process(s)
  PROVE  /\ PadOK' /\ PathOK' /\ GeantOK' /\ previous' \in Infos
         /\ radii' \subseteq Rows /\ spaceHits' \subseteq Info
         /\ deposited' \in Nat /\ recorded' \in Nat /\ ignored' \in Nat
<1>1. row \in Rows /\ track \in Tracks \ ended /\ open
  BY DEF process, TypeOK, GeantOK
<1>2. s.e \in Nat /\ s.to \in Rows \cup {Outside}
  BY TPCAssumption DEF Steps
<1>3. /\ PadOK' /\ PathOK' /\ radii' \subseteq Rows /\ spaceHits' \subseteq Info
      /\ recorded' \in Nat /\ ignored' \in Nat
  <2>1. CASE IgnoredStep
    BY <2>1 DEF IgnoredStep, collections, TypeOK, PadOK, PathOK
  <2>2. QED
    BY <1>1, <2>1, HighPtStepType, LowPtStepType DEF process
<1>4. GeantOK'
  <2>1. event' \in 1 .. MaxEvents /\ open' \in BOOLEAN /\ joined' = TRUE
    BY DEF process, TypeOK, GeantOK
  <2>2. steps \in Nat /\ steps' = steps + 1 /\ steps < MaxSteps
    <3>1. steps \in 0 .. MaxSteps
      BY DEF TypeOK, GeantOK
    <3>2. steps' = steps + 1 /\ steps < MaxSteps
      BY DEF process
    <3>3. QED
      BY <3>1, <3>2
  <2>3. steps' \in 0 .. MaxSteps
    BY <2>2, TPCAssumption
  <2>4. ended' \subseteq Tracks /\ row' \in Rows \cup {Outside} /\ track' = track
    BY <1>1, <1>2 DEF process, TypeOK, GeantOK
  <2>5. row' # Outside => open' /\ track' \in Tracks \ ended'
    BY <1>1 DEF process
  <2>6. QED
    BY <1>1, <2>1, <2>3, <2>4, <2>5 DEF GeantOK
<1>5. previous' \in Infos /\ deposited' \in Nat
  <2>1. This \in Info
    BY <1>1 DEF This, Info
  <2>2. previous' = This /\ deposited' = deposited + s.e
    BY DEF process
  <2>3. QED
    BY <1>2, <2>1, <2>2 DEF Infos, TypeOK
<1>6. QED
  BY <1>3, <1>4, <1>5

LEMMA NextType == TypeOK /\ [Next]_vars => TypeOK'
<1> SUFFICES ASSUME TypeOK, [Next]_vars PROVE TypeOK'
  OBVIOUS
<1>0. lowPtStepLimit' = lowPtStepLimit
  BY DEF Next, vars
<1>1. ASSUME NEW s \in Steps, process(s) PROVE TypeOK'
  BY <1>0, <1>1, ProcessType DEF TypeOK
<1>2. ASSUME NEW t \in Tracks, NEW r \in Rows, NEW j \in BOOLEAN, Enter(t, r, j)
      PROVE  TypeOK'
  <2>1. GeantOK'
    <3>1. ended' \subseteq Tracks
      BY <1>2 DEF Enter, TypeOK, GeantOK
    <3>2. t \notin ended'
      BY <1>2 DEF Enter
    <3>3. QED
      BY <1>2, <3>1, <3>2 DEF Enter, TypeOK, GeantOK
  <2>2. QED
    BY <1>0, <1>2, <2>1
       DEF Enter, actionVars, collections, historyVars, TypeOK, PadOK, PathOK
<1>3. CASE endEvent
  <2>1. LowPtEnergy(path, previous) \in Nat
    BY EndPathEnergy DEF TypeOK, PathOK
  <2>2. PadOK' /\ PathOK'
    BY <1>3 DEF endEvent, PadAfterEvent, ResetPadrowVariables, EmptyPad, EmptyPath,
       PadOK, PathOK, Infos
  <2>3. GeantOK'
    BY <1>3 DEF endEvent, TypeOK, GeantOK
  <2>4. recorded' \in Nat
    BY <1>3, <2>1 DEF endEvent, TypeOK
  <2>5. QED
    BY <1>0, <1>3, <2>2, <2>3, <2>4 DEF endEvent, TypeOK
<1>4. CASE StartEvent
  <2>1. event' \in 1 .. MaxEvents /\ steps' \in 0 .. MaxSteps
    BY <1>4, TPCAssumption DEF StartEvent, TypeOK, GeantOK
  <2>2. row' = Outside
    BY <1>4 DEF StartEvent, TypeOK, GeantOK
  <2>3. GeantOK'
    BY <1>4, <2>1, <2>2 DEF StartEvent, GeantOK
  <2>4. PadOK' /\ PathOK'
    BY <1>4 DEF StartEvent, actionVars, TypeOK, PadOK, PathOK
  <2>5. QED
    BY <1>0, <1>4, <2>3, <2>4 DEF StartEvent, actionVars, historyVars, TypeOK
<1>5. CASE UNCHANGED vars
  BY <1>5 DEF vars, actionVars, collections, geantVars, historyVars, TypeOK, PadOK,
     PathOK, GeantOK
<1>6. QED
  BY <1>1, <1>2, <1>3, <1>4, <1>5 DEF Next

\* Every member of the action, and the energies of the job, keep their types,
\* and a step that is being followed is always of a track that has not ended.
THEOREM TypeCorrectness == Spec => []TypeOK
<1>1. Init => TypeOK
  <2> SUFFICES ASSUME Init PROVE TypeOK
    OBVIOUS
  <2>1. PadOK /\ PathOK
    BY DEF Init, EmptyPad, EmptyPath, PadOK, PathOK, Infos
  <2>2. GeantOK
    <3>1. event \in 1 .. MaxEvents /\ steps \in 0 .. MaxSteps
      BY TPCAssumption DEF Init
    <3>2. /\ open = TRUE /\ joined = FALSE /\ track = NoTrack /\ row = Outside
          /\ ended = {}
      BY DEF Init
    <3>3. QED
      BY <3>1, <3>2 DEF GeantOK
  <2>3. lowPtStepLimit \in BOOLEAN
    BY TPCAssumption DEF Init
  <2>4. QED
    BY <2>1, <2>2, <2>3 DEF Init, TypeOK, Infos
<1>2. QED
  BY <1>1, NextType, PTL DEF Spec

-----------------------------------------------------------------------------
(***************************************************************************)
(* Whose energy the accumulations hold.  The pad row is in use only while  *)
(* a track is in a row, and by that track: it is emptied when the track    *)
(* leaves the row or stops there, unless the last step is ignored or the   *)
(* track decays.                                                           *)
(***************************************************************************)
EveryStepCounts == (lowPtStepLimit \/ PtCutIsZero) /\ ~ DecaysInFlight

PadIsOfTheStep ==
  /\ pad.dE = 0 => pad.from = {}
  /\ EveryStepCounts /\ pad.dE > 0 =>
       row # Outside /\ previous = This /\ pad.from = {Source}

\* Nothing of an event outlives it.
AccumulationsOfTheEvent ==
  /\ \A s \in pad.from \cup path.from : s[1] = event
  /\ ~ open => pad.dE = 0 /\ path.from = {}

Owned ==
  /\ TypeOK /\ AttributionInv
  /\ PadIsOfTheStep /\ AccumulationsOfTheEvent
  /\ HitsOfTheirEvent

LEMMA EmptyPadFields == /\ EmptyPad.dE = 0 /\ EmptyPad.from = {}
                        /\ EmptyPath.from = {} /\ EmptyPath.E = 0
BY DEF EmptyPad, EmptyPath

\* Where the track ends up after a step, and that it has left the row if so.
LEMMA StepEndsIn ==
  ASSUME TypeOK, NEW s \in Steps, process(s)
  PROVE  /\ row \in Rows /\ row # Outside /\ open = TRUE /\ s.e \in Nat
         /\ previous' = This /\ UNCHANGED <<event, track, open>>
         /\ deposited' = deposited + s.e
         /\ row' = IF s.fate # "goes on" THEN Outside ELSE s.to
         /\ row' # row /\ ~ LeavesRow(s) => s.fate # "goes on"
<1>1. /\ row \in Rows /\ row # Outside /\ open = TRUE /\ s.e \in Nat /\ IsStep(s, row)
      /\ previous' = This /\ UNCHANGED <<event, track, open>>
      /\ deposited' = deposited + s.e
      /\ row' = IF s.fate # "goes on" THEN Outside ELSE s.to
  BY TPCAssumption DEF process, TypeOK, GeantOK, Steps
<1>2. row' # row /\ ~ LeavesRow(s) => s.fate # "goes on"
  <2>1. s.end \in {"half", "row", "out", "inside"}
    BY DEF Steps
  <2> QED
    BY <1>1, <2>1, OutsideAssumption, TPCAssumption DEF IsStep, LeavesRow, PostLayer, Outside
<1> QED
  BY <1>1, <1>2

\* A track that stays or moves on has its row to itself.
LEMMA HighPtStepPad ==
  ASSUME Owned, NEW s \in Steps, process(s), HighPtStep(s), lowPtStepLimit' = lowPtStepLimit
  PROVE  PadIsOfTheStep'
<1> DEFINE p == Accumulated(s)
<1>1. pad.dE \in Nat /\ s.e \in Nat /\ p.dE = pad.dE + s.e
      /\ p.from = IF s.e > 0 THEN pad.from \cup {Source} ELSE pad.from
  BY StepEndsIn DEF Owned, TypeOK, PadOK, Accumulated
<1>2. pad' = IF CompletesRow(s) THEN EmptyPad ELSE p
  BY DEF HighPtStep, ResetPadrowVariables
<1> HIDE DEF p
<1>3. CASE CompletesRow(s)
  BY <1>2, <1>3, EmptyPadFields DEF PadIsOfTheStep
<1>4. CASE ~ CompletesRow(s)
  <2>1. pad'.dE = 0 => pad'.from = {}
    BY <1>1, <1>2, <1>4 DEF Owned, PadIsOfTheStep
  <2>2. ASSUME EveryStepCounts, pad'.dE > 0
        PROVE  row' # Outside /\ previous' = This' /\ pad'.from = {Source}'
    <3>1. s.fate = "goes on"
      BY <1>4, <2>2 DEF CompletesRow, EveryStepCounts, Steps, process, IsStep
    <3>2. row' = row /\ This' = This /\ Source' = Source
      <4>1. row' = row /\ track' = track /\ event' = event
        BY <1>4, <3>1, StepEndsIn DEF CompletesRow, Owned
      <4> QED
        BY <4>1 DEF This, Source
    <3>3. pad'.from = {Source}
      BY <1>1, <1>2, <1>4, <2>2 DEF Owned, PadIsOfTheStep
    <3> QED
      BY <3>2, <3>3, StepEndsIn DEF Owned
  <2>3. EveryStepCounts' <=> EveryStepCounts
    BY DEF EveryStepCounts, Owned
  <2> QED
    BY <2>1, <2>2, <2>3 DEF PadIsOfTheStep
<1> QED
  BY <1>3, <1>4

LEMMA LowPtStepPad ==
  ASSUME Owned, NEW s, LowPtStep(s)
  PROVE  pad'.dE = 0 /\ pad'.from = {} /\ PadIsOfTheStep'
<1>1. pad'.dE = 0 /\ pad'.from = {}
  BY EmptyPadFields
     DEF LowPtStep, LeftOver, ResetPadrowVariables, Owned, TypeOK, PadOK, PadIsOfTheStep
<1> QED
  BY <1>1 DEF PadIsOfTheStep

LEMMA ProcessPad ==
  ASSUME Owned, NEW s \in Steps, process(s), lowPtStepLimit' = lowPtStepLimit
  PROVE  PadIsOfTheStep'
<1>1. CASE IgnoredStep /\ ~ IsHighPt(s) /\ ~ lowPtStepLimit
  BY <1>1 DEF IgnoredStep, IsHighPt, PadIsOfTheStep, EveryStepCounts, Owned
<1> QED
  BY <1>1, HighPtStepPad, LowPtStepPad DEF process

\* What a path and a pad row leave to hits, and what they keep, is of the event.
LEMMA HitsTakeWhatIsThere ==
  /\ \A p, main : \A h \in HiPtHits(p, main) :
       h.from = p.from /\ p.dE > Threshold /\ h.track = main.track /\ h.row = main.row
  /\ \A l, info : \A h \in LowPtHits(l, info) : h.from = l.from
  /\ \A l, info : EndPath(l, info).from = l.from \/ EndPath(l, info).from = {}
BY EmptyPadFields DEF HiPtHits, MakesHit, LowPtHits, EndPath

LEMMA ProcessEvent ==
  ASSUME Owned, NEW s \in Steps, process(s)
  PROVE  AccumulationsOfTheEvent' /\ HitsOfTheirEvent'
<1> DEFINE Of(S) == \A x \in S : x[1] = event
<1>1. event' = event /\ open' = TRUE
  BY StepEndsIn DEF Owned
<1>2. Of(pad.from) /\ Of(path.from) /\ Of({Source})
  BY DEF Owned, AccumulationsOfTheEvent, Source
<1>3. \A h \in hits \cup lowHits : Of(h.from)
  BY DEF Owned, HitsOfTheirEvent
<1>4. CASE HighPtStep(s)
  <2> DEFINE p == Accumulated(s)
  <2>1. /\ hits' \subseteq hits \cup HiPtHits(p, This)
        /\ lowHits' = lowHits \cup LowPtHits(path, previous)
        /\ pad' = p \/ pad' = EmptyPad
        /\ path' = EndPath(path, previous)
    BY <1>4 DEF HighPtStep, ResetPadrowVariables
  <2>2. Of(p.from)
    BY <1>2 DEF Accumulated
  <2> HIDE DEF p
  <2>3. Of(pad'.from) /\ Of(path'.from)
    BY <1>2, <2>1, <2>2, HitsTakeWhatIsThere, EmptyPadFields
  <2>4. \A h \in hits' \cup lowHits' : Of(h.from)
    BY <1>2, <1>3, <2>1, <2>2, HitsTakeWhatIsThere
  <2> QED
    BY <1>1, <2>3, <2>4 DEF AccumulationsOfTheEvent, HitsOfTheirEvent
<1>5. CASE LowPtStep(s)
  <2> DEFINE continued == IF BreaksPath THEN EndPath(path, previous) ELSE path
             l == Cumulated(continued, s)
  <2>1. /\ hits' \subseteq hits \cup HiPtHits(pad, previous)
        /\ lowHits' \subseteq lowHits \cup LowPtHits(path, previous) \cup LowPtHits(l, This)
        /\ path' = l \/ path' = EndPath(l, This)
    BY <1>5 DEF LowPtStep
  <2>2. Of(continued.from)
    BY <1>2, HitsTakeWhatIsThere
  <2>3. l.from = continued.from \/ l.from = continued.from \cup {Source}
    BY DEF Cumulated
  <2> HIDE DEF continued, l
  <2>4. Of(l.from)
    BY <1>2, <2>2, <2>3
  <2>5. Of(path'.from)
    BY <2>1, <2>4, HitsTakeWhatIsThere
  <2>6. \A h \in hits' \cup lowHits' : Of(h.from)
    BY <1>2, <1>3, <2>1, <2>4, HitsTakeWhatIsThere
  <2> QED
    BY <1>1, <1>5, <2>5, <2>6, LowPtStepPad DEF AccumulationsOfTheEvent, HitsOfTheirEvent
<1>6. CASE IgnoredStep
  BY <1>1, <1>2, <1>3, <1>6
     DEF IgnoredStep, collections, AccumulationsOfTheEvent, HitsOfTheirEvent
<1> QED
  BY <1>4, <1>5, <1>6 DEF process

LEMMA NextOwned ==
  ASSUME Owned, TypeOK', AttributionInv', [Next]_vars
  PROVE  Owned'
<1>0. lowPtStepLimit' = lowPtStepLimit
  BY DEF Next, vars
<1>1. ASSUME NEW s \in Steps, process(s) PROVE Owned'
  BY <1>0, <1>1, ProcessPad, ProcessEvent DEF Owned
<1>2. ASSUME NEW t \in Tracks, NEW r \in Rows, NEW j, Enter(t, r, j) PROVE Owned'
  <2>1. /\ row = Outside
        /\ UNCHANGED <<pad, path, event, open, hits, lowHits>>
    BY <1>2 DEF Enter, actionVars, collections
  <2>2. PadIsOfTheStep'
    BY <1>0, <2>1 DEF Owned, PadIsOfTheStep, EveryStepCounts
  <2> QED
    BY <2>1, <2>2 DEF Owned, AccumulationsOfTheEvent, HitsOfTheirEvent
<1>3. CASE endEvent
  <2>1. /\ pad' = EmptyPad /\ path' = EmptyPath /\ event' = event /\ hits' = hits
        /\ lowHits' = lowHits \cup LowPtHits(path, previous)
    BY <1>3 DEF endEvent, PadAfterEvent, ResetPadrowVariables
  <2>2. HitsOfTheirEvent'
    BY <2>1, HitsTakeWhatIsThere DEF Owned, HitsOfTheirEvent, AccumulationsOfTheEvent
  <2> QED
    BY <2>1, <2>2, EmptyPadFields DEF Owned, PadIsOfTheStep, AccumulationsOfTheEvent
<1>4. CASE StartEvent
  <2>1. /\ ~ open /\ hits' = {} /\ lowHits' = {} /\ UNCHANGED <<pad, path, row>>
    BY <1>4 DEF StartEvent, actionVars
  <2>2. pad.dE = 0 /\ pad.from = {} /\ path.from = {}
    BY <2>1 DEF Owned, PadIsOfTheStep, AccumulationsOfTheEvent
  <2> QED
    BY <2>1, <2>2 DEF Owned, PadIsOfTheStep, AccumulationsOfTheEvent, HitsOfTheirEvent
<1>5. CASE UNCHANGED vars
  BY <1>5 DEF vars, actionVars, collections, geantVars, Owned, PadIsOfTheStep,
     AccumulationsOfTheEvent, HitsOfTheirEvent, EveryStepCounts, This, Source
<1> QED
  BY <1>1, <1>2, <1>3, <1>4, <1>5 DEF Next

LEMMA InitOwned == Init => PadIsOfTheStep /\ AccumulationsOfTheEvent /\ HitsOfTheirEvent
BY EmptyPadFields DEF Init, PadIsOfTheStep, AccumulationsOfTheEvent, HitsOfTheirEvent

LEMMA OwnedInvariant == Spec => []Owned
<1>1. Owned /\ TypeOK' /\ AttributionInv' /\ [Next]_vars => Owned'
  BY NextOwned
<1> QED
  BY <1>1, InitOwned, TypeCorrectness, AttributionInvariant, PTL DEF Spec, Owned

\* No hit holds energy of an earlier event, whatever is left when an event ends.
THEOREM HitsAreOfTheirEvent == Spec => []HitsOfTheirEvent
BY OwnedInvariant, PTL DEF Owned

(***************************************************************************)
(* A hit holds the energy of one track in one row.                         *)
(***************************************************************************)
HitsAreOwn == EveryStepCounts => HitsOfOneTrack

LEMMA NextHitsAreOwn == Owned /\ HitsAreOwn /\ [Next]_vars => HitsAreOwn'
<1> SUFFICES ASSUME Owned, HitsAreOwn, [Next]_vars, EveryStepCounts PROVE HitsOfOneTrack'
  BY DEF Next, vars, HitsAreOwn, EveryStepCounts
<1>0. HitsOfOneTrack /\ pad.dE \in Nat /\ Threshold >= 0 /\ Threshold \in Int
  BY TPCAssumption DEF HitsAreOwn, Owned, TypeOK, PadOK
<1>1. ASSUME NEW s \in Steps, process(s) PROVE HitsOfOneTrack'
  <2>1. event' = event /\ s.e \in Nat
    BY <1>1, StepEndsIn DEF Owned
  <2>2. CASE HighPtStep(s)
    <3> DEFINE p == Accumulated(s)
    <3>1. hits' \subseteq hits \cup HiPtHits(p, This)
      BY <2>2 DEF HighPtStep
    <3>2. /\ p.dE = pad.dE + s.e
          /\ p.from = IF s.e > 0 THEN pad.from \cup {Source} ELSE pad.from
      BY DEF Accumulated
    <3>3. p.dE > 0 => p.from = {Source}
      BY <1>0, <2>1, <3>2 DEF Owned, PadIsOfTheStep
    <3> HIDE DEF p
    <3>4. p.dE \in Nat
      BY <1>0, <2>1, <3>2
    <3>5. \A h \in HiPtHits(p, This) : h.from = {<<event, h.track, h.row>>}
      BY <1>0, <3>3, <3>4, HitsTakeWhatIsThere DEF This, Source
    <3> QED
      BY <1>0, <2>1, <3>1, <3>5 DEF HitsOfOneTrack
  <2>3. CASE LowPtStep(s)
    <3>1. hits' \subseteq hits \cup HiPtHits(pad, previous)
      BY <2>3 DEF LowPtStep
    <3>2. \A h \in HiPtHits(pad, previous) : h.from = {<<event, h.track, h.row>>}
      <4>1. pad.dE > 0 => previous = This /\ pad.from = {Source}
        BY DEF Owned, PadIsOfTheStep
      <4> QED
        BY <1>0, <4>1, HitsTakeWhatIsThere DEF This, Source
    <3> QED
      BY <1>0, <2>1, <3>1, <3>2 DEF HitsOfOneTrack
  <2>4. CASE IgnoredStep
    BY <1>0, <2>1, <2>4 DEF IgnoredStep, collections, HitsOfOneTrack
  <2> QED
    BY <1>1, <2>2, <2>3, <2>4 DEF process
<1>2. CASE StartEvent
  BY <1>2 DEF StartEvent, HitsOfOneTrack
<1>3. CASE UNCHANGED <<hits, event>>
  BY <1>0, <1>3 DEF HitsOfOneTrack
<1> QED
  BY <1>1, <1>2, <1>3 DEF Next, Enter, endEvent, collections, geantVars, vars

\* A hit holds the energy of its own event only and, where low-pt steps are
\* treated and no track decays in a row, of its own track in its own row, for
\* all thresholds, pad rows and orders of the tracks.
THEOREM HitsAreTheirOwn ==
  ASSUME ~ DecaysInFlight PROVE Spec => []HitsOfTheirOwn
<1>1. Init => HitsAreOwn
  BY DEF Init, HitsAreOwn, HitsOfOneTrack
<1>2. Owned /\ HitsAreOwn => HitsOfTheirOwn
  BY DEF HitsAreOwn, HitsOfTheirOwn, Owned, EveryStepCounts
<1> QED
  BY <1>1, <1>2, NextHitsAreOwn, OwnedInvariant, PTL DEF Spec

-----------------------------------------------------------------------------
(***************************************************************************)
(* No energy is lost.                                                      *)
(***************************************************************************)
\* Without a threshold the energy of a pad row is in a hit, or ignored for want
\* of a radius, and that of a path is in a hit or kept.
LEMMA NothingBelowThreshold ==
  ASSUME Threshold = 0
  PROVE  /\ \A p, main : p.dE \in Nat =>
              HiPtEnergy(p, main) = IF HasPosition(p, main) THEN p.dE ELSE 0
         /\ \A l, info : l.E \in Nat =>
              /\ LowPtEnergy(l, info) + EndPath(l, info).E = l.E
              /\ LowPtEnergy(l, info) \in Nat /\ EndPath(l, info).E \in Nat
BY EmptyPadFields DEF HiPtEnergy, MakesHit, LowPtEnergy, DepositsPath, EndPath

Balance == recorded + ignored + pad.dE + path.E = deposited

LEMMA NextBalance ==
  ASSUME Threshold = 0, EveryStepCounts, Owned, Balance, [Next]_vars
  PROVE  Balance'
<1>0. /\ pad.dE \in Nat /\ path.E \in Nat /\ recorded \in Nat /\ ignored \in Nat
      /\ deposited \in Nat
  BY DEF Owned, TypeOK, PadOK, PathOK
<1>1. ASSUME NEW s \in Steps, process(s), HighPtStep(s) PROVE Balance'
  <2> DEFINE p == Accumulated(s)
             low == LowPtEnergy(path, previous)
             high == IF CompletesRow(s) THEN HiPtEnergy(p, This) ELSE 0
  <2>1. /\ recorded' = recorded + low + high
        /\ ignored' = IF CompletesRow(s) /\ ~ HasPosition(p, This)
                      THEN ignored + p.dE ELSE ignored
        /\ pad' = IF CompletesRow(s) THEN EmptyPad ELSE p
        /\ path' = EndPath(path, previous)
    BY <1>1 DEF HighPtStep, ResetPadrowVariables
  <2>2. p.dE = pad.dE + s.e /\ s.e \in Nat /\ deposited' = deposited + s.e
    BY <1>1, StepEndsIn DEF Accumulated, Owned
  <2>3. low + path'.E = path.E /\ low \in Nat /\ path'.E \in Nat
    BY <1>0, <2>1, NothingBelowThreshold
  <2> HIDE DEF p, low
  <2>4. high + ignored' + pad'.dE = ignored + p.dE /\ high \in Nat /\ ignored' \in Nat
        /\ pad'.dE \in Nat
    BY <1>0, <2>1, <2>2, NothingBelowThreshold, EmptyPadFields
  <2>5. recorded' = recorded + low + high
    BY <2>1
  <2> HIDE DEF high
  <2>6. recorded + ignored + pad.dE + path.E = deposited
    BY DEF Balance
  <2>7. recorded' + ignored' + pad'.dE + path'.E = deposited'
    BY ONLY <1>0, <2>2, <2>3, <2>4, <2>5, <2>6
  <2> QED
    BY <2>7 DEF Balance
<1>2. ASSUME NEW s \in Steps, process(s), LowPtStep(s) PROVE Balance'
  <2> DEFINE continued == IF BreaksPath THEN EndPath(path, previous) ELSE path
             l == Cumulated(continued, s)
             left == IF LeftOver THEN HiPtEnergy(pad, previous) ELSE 0
             broken == IF BreaksPath THEN LowPtEnergy(path, previous) ELSE 0
             final == IF EndsPath(l, s) THEN LowPtEnergy(l, This) ELSE 0
  <2>1. /\ recorded' = recorded + left + broken + final
        /\ ignored' = IF LeftOver /\ ~ HasPosition(pad, previous)
                      THEN ignored + pad.dE ELSE ignored
        /\ path' = IF EndsPath(l, s) THEN EndPath(l, This) ELSE l
    BY <1>2 DEF LowPtStep
  <2>2. s.e \in Nat /\ deposited' = deposited + s.e
    BY <1>2, StepEndsIn DEF Owned
  <2>3. broken + continued.E = path.E /\ broken \in Nat /\ continued.E \in Nat
    BY <1>0, NothingBelowThreshold
  <2>4. l.E = continued.E + s.e
    BY DEF Cumulated
  <2> HIDE DEF l, continued, broken
  <2>5. l.E \in Nat
    BY <2>2, <2>3, <2>4
  <2>6. final + path'.E = l.E /\ final \in Nat /\ path'.E \in Nat
    BY <2>1, <2>5, NothingBelowThreshold
  <2>7. left + ignored' = ignored + pad.dE /\ left \in Nat /\ ignored' \in Nat
    BY <1>0, <2>1, NothingBelowThreshold DEF LeftOver
  <2>8. pad'.dE = 0
    BY <1>2, LowPtStepPad
  <2> HIDE DEF final, left
  <2> QED
    BY <1>0, <2>1, <2>2, <2>3, <2>4, <2>6, <2>7, <2>8 DEF Balance
<1>3. ASSUME NEW s \in Steps, process(s) PROVE Balance'
  BY <1>1, <1>2, <1>3 DEF process, IsHighPt, EveryStepCounts
<1>4. CASE endEvent
  <2>1. /\ pad' = EmptyPad /\ path' = EmptyPath
        /\ recorded' = recorded + LowPtEnergy(path, previous)
        /\ UNCHANGED <<deposited, ignored>> /\ row = Outside
    BY <1>4 DEF endEvent, PadAfterEvent, ResetPadrowVariables
  <2>2. pad.dE = 0
    BY <1>0, <2>1 DEF Owned, PadIsOfTheStep
  <2>3. LowPtEnergy(path, previous) = path.E
    <3>1. EndPath(path, previous) = EmptyPath
      BY PathEnds DEF Owned, AttributionInv
    <3> QED
      BY <1>0, <3>1, NothingBelowThreshold, EmptyPadFields
  <2> QED
    BY <1>0, <2>1, <2>2, <2>3, EmptyPadFields DEF Balance
<1>5. CASE UNCHANGED <<pad, path, recorded, ignored, deposited>>
  BY <1>5 DEF Balance
<1> QED
  BY <1>3, <1>4, <1>5 DEF Next, Enter, StartEvent, actionVars, historyVars, vars

\* Without a threshold, where every step counts, every energy deposited is in a
\* hit, still accumulated, or ignored because its row's radius was not known:
\* none is dropped between tracks, rows or events.
THEOREM EnergyIsNotLost == Spec => []NoEnergyLost
<1>1. Init => NoEnergyLost
  BY EmptyPadFields DEF Init, NoEnergyLost
<1>2. Owned /\ NoEnergyLost /\ [Next]_vars => NoEnergyLost'
  <2> SUFFICES ASSUME Owned, NoEnergyLost, [Next]_vars, Threshold = 0,
                      lowPtStepLimit' \/ PtCutIsZero, ~ DecaysInFlight
               PROVE  Balance'
    BY DEF NoEnergyLost, Balance
  <2>1. EveryStepCounts
    BY DEF Next, vars, EveryStepCounts
  <2>2. Balance
    BY <2>1 DEF NoEnergyLost, Balance, EveryStepCounts
  <2> QED
    BY <2>1, <2>2, NextBalance
<1> QED
  BY <1>1, <1>2, OwnedInvariant, PTL DEF Spec

=============================================================================
