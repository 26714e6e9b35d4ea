---------------------------- MODULE TPCSDAction ----------------------------
(***************************************************************************)
(* plugins/TPCSDAction.cpp: how the TPC's sensitive detector turns the     *)
(* steps of charged tracks into hits.  The energy of high-pt steps is      *)
(* accumulated until the track leaves a pad row, that of low-pt steps over *)
(* a path of limited length.  Both accumulations are members of the        *)
(* action: they outlive the step, the pad row and the track, so what       *)
(* matters is who finds them later.                                        *)
(*                                                                         *)
(* Geant4 is the environment: it follows one track after the other through *)
(* the pad rows.  Every step has length 1; neutral tracks, which process() *)
(* ignores, are left out.                                                  *)
(***************************************************************************)
EXTENDS Integers, FiniteSets

CONSTANTS
  Tracks,           \* ids of the charged tracks of an event
  Rows,             \* pad rows: values of the "layer" field
  OutsideLayer,     \* value of that field for a volume outside the pad rows
  Deposits,         \* energies one step can deposit
  Threshold,        \* fThresholdEnergyDeposit
  PtCutIsZero,      \* TPCLowPtCut = 0: every step is a high-pt step
  LowPtStepLimits,  \* settings of Control.TPCLowPtStepLimit to consider
  MaxSeparation,    \* Control.TPCLowPtMaxHitSeparation, in steps
  DecaysInFlight,   \* a track may end inside a pad row with kinetic energy
  MaxEvents,        \* bound: events
  MaxSteps          \* bound: steps of one event

NoTrack == "no track"

ASSUME TPCAssumption ==
  /\ NoTrack \notin Tracks
  /\ Rows \subseteq Nat /\ OutsideLayer \in Nat
  /\ Deposits \subseteq Nat
  /\ Threshold \in Nat
  /\ MaxSeparation \in Nat
  /\ MaxEvents \in Nat \ {0} /\ MaxSteps \in Nat
  /\ PtCutIsZero \in BOOLEAN /\ LowPtStepLimits \subseteq BOOLEAN
  /\ DecaysInFlight \in BOOLEAN

\* Outside the placed volumes the volume id is -1, every bit of it set: the
\* "layer" of 9 bits is then 511, and the TPC has far fewer pad rows.
ASSUME OutsideAssumption == OutsideLayer \notin Rows

Outside == -1     \* row of a track that is not in a pad row

\* The part of StepInfo the code uses: whose step it was, and in which row.
Info == [valid : {TRUE}, track : Tracks, row : Rows]
NoInfo == [valid |-> FALSE]

\* CrossingOfPadRingCentre: unset, or a point of the centre of a row; "corner"
\* if its three coordinates are below 0.1, as those of the unset vector are.
Points == [row : Rows, corner : BOOLEAN]
NoPoint == [corner |-> TRUE]

\* Who deposited an energy: event, track, row.
Sources == (1 .. MaxEvents) \X Tracks \X Rows

\* The accumulations of the pad row and of the low-pt path; "from", and the
\* last track and the connectedness of the path, are history.
EmptyPad == [dE |-> 0, centre |-> NoPoint, entrance |-> NoInfo, from |-> {}]
EmptyPath == [steps |-> 0, E |-> 0, from |-> {}, last |-> NoTrack,
              connected |-> TRUE]

VARIABLES
  lowPtStepLimit,   \* Control.TPCLowPtStepLimit, set once for the job
  pad,        \* dEInPadRow, CrossingOfPadRingCentre, stepAtEntranceToPadRingInfo
  path,       \* the Cumulative... members
  previous,   \* previousStepInfo
  radii,      \* rows in padRowCentralRadii
  hits, lowHits, spaceHits,       \* the three collections of the event
  \* Geant4: event, whether it is being processed, track being followed, row
  \* it is in, tracks that have ended, steps made, and whether the next step
  \* starts where the last ended.
  event, open, track, row, ended, steps, joined,
  \* History: energy deposited in the job, and energy given to hits; energy
  \* of the deposits ignored for want of a radius.
  deposited, recorded, ignored

actionVars == <<pad, path, previous, radii>>
collections == <<hits, lowHits, spaceHits>>
geantVars == <<event, open, track, row, ended, steps, joined>>
historyVars == <<deposited, recorded, ignored>>
vars == <<lowPtStepLimit, actionVars, collections, geantVars, historyVars>>

Init ==
  /\ lowPtStepLimit \in LowPtStepLimits
  /\ pad = EmptyPad /\ path = EmptyPath /\ previous = NoInfo /\ radii = {}
  /\ hits = {} /\ lowHits = {} /\ spaceHits = {}
  /\ event = 1 /\ open = TRUE /\ track = NoTrack /\ row = Outside /\ ended = {} /\ steps = 0
  /\ joined = FALSE
  /\ deposited = 0 /\ recorded = 0 /\ ignored = 0

-----------------------------------------------------------------------------
(***************************************************************************)
(* DepositHiPtHit: a hit with the energy of the pad row p, attributed to   *)
(* the track and row of main.  Without a crossing its position is an       *)
(* estimate, for which the row's radius must be known.                     *)
(***************************************************************************)
Estimated(p) == p.centre.corner

HasPosition(p, main) == ~ Estimated(p) \/ main.row \in radii

MakesHit(p, main) == p.dE > Threshold /\ HasPosition(p, main)

HiPtHits(p, main) ==
  IF MakesHit(p, main)
  THEN {[track |-> main.track, row |-> main.row, E |-> p.dE, from |-> p.from]}
  ELSE {}

HiPtEnergy(p, main) == IF MakesHit(p, main) THEN p.dE ELSE 0

\* Mutant: the accumulated energy is not cleared.
KeepPadrowEnergy(p) == [EmptyPad EXCEPT !.dE = p.dE, !.from = p.from]

ResetPadrowVariables(p) == EmptyPad

(***************************************************************************)
(* DepositLowPtHit: a hit with the energy of the path l, attributed to the *)
(* track of info; without a valid info it only complains, and clears       *)
(* nothing.  EndPath is its caller's choice between hit and reset.         *)
(***************************************************************************)
DepositsPath(l, info) == l.E > Threshold /\ info.valid

LowPtHits(l, info) ==
  IF DepositsPath(l, info)
  THEN {[track |-> info.track, row |-> info.row, E |-> l.E, from |-> l.from,
         last |-> l.last, connected |-> l.connected]}
  ELSE {}

LowPtEnergy(l, info) == IF DepositsPath(l, info) THEN l.E ELSE 0

EndPath(l, info) ==
  IF l.E > Threshold /\ ~ info.valid THEN l ELSE EmptyPath

-----------------------------------------------------------------------------
(***************************************************************************)
(* What one step can be: where it ends, the energy it deposits, whether    *)
(* its end point has enough pt, is at rest, was placed by the step         *)
(* limiter, and lies in the corner of space where coordinates are < 0.1.   *)
(***************************************************************************)
Steps ==
  [end : {"half", "row", "out", "inside"}, to : Rows \cup {Outside},
   e : Deposits, pt : {"high", "low"}, fate : {"goes on", "stops", "decays"},
   limiter : BOOLEAN, corner : BOOLEAN]

IsStep(s, r) ==
  /\ s.end \in {"half", "inside"} => s.to = r
  /\ s.end = "row" => s.to \in {r - 1, r + 1} \cap Rows
  /\ s.end = "out" => s.to = Outside
  /\ s.fate # "goes on" => s.end = "inside"
  /\ s.limiter => s.end = "inside" /\ s.fate = "goes on"
  /\ s.corner => s.end = "half"
  \* At rest there is no transverse momentum.
  /\ s.fate = "stops" => s.pt = "low"
  /\ s.fate = "decays" => DecaysInFlight

\* getCopyNumber(step, true).
PostLayer(s) == IF s.to = Outside THEN OutsideLayer ELSE s.to

This == [valid |-> TRUE, track |-> track, row |-> row]

Source == <<event, track, row>>

\* A step on a boundary within the row has crossed the centre of the row.
CrossesCentre(s) == s.end # "inside" /\ PostLayer(s) = row

LeavesRow(s) == s.end # "inside" /\ PostLayer(s) # row

\* Mutant: the entrance to the row is not remembered.
AccumulatedAnonymously(s) ==
  [pad EXCEPT !.dE = @ + s.e,
              !.from = IF s.e > 0 THEN @ \cup {Source} ELSE @]

Accumulated(s) ==
  [dE |-> pad.dE + s.e,
   centre |-> IF CrossesCentre(s) THEN [row |-> row, corner |-> s.corner]
              ELSE pad.centre,
   entrance |-> IF pad.entrance.valid THEN pad.entrance ELSE This,
   from |-> IF s.e > 0 THEN pad.from \cup {Source} ELSE pad.from]

\* Mutant: hits are only made when the track crosses into another row.
DepositsOnCrossing(s) == LeavesRow(s)

\* A hit is made on leaving the row or coming to rest in it.
CompletesRow(s) == LeavesRow(s) \/ s.fate = "stops"

HighPtStep(s) ==
  LET p == Accumulated(s)
      done == CompletesRow(s)
  IN
  /\ lowHits' = lowHits \cup LowPtHits(path, previous)
  /\ path' = EndPath(path, previous)
  /\ radii' = IF CrossesCentre(s) THEN radii \cup {row} ELSE radii
  /\ hits' = IF done THEN hits \cup HiPtHits(p, This) ELSE hits
  /\ pad' = IF done THEN ResetPadrowVariables(p) ELSE p
  /\ spaceHits' = IF s.limiter THEN spaceHits \cup {This} ELSE spaceHits
  /\ recorded' = recorded + LowPtEnergy(path, previous)
                 + (IF done THEN HiPtEnergy(p, This) ELSE 0)
  /\ ignored' = IF done /\ ~ HasPosition(p, This) THEN ignored + p.dE ELSE ignored

-----------------------------------------------------------------------------
(***************************************************************************)
(* A low-pt step when they are treated separately: what a high-pt track    *)
(* left in the pad row becomes a hit of the previous step; a path this     *)
(* step does not continue becomes one too; and the path is ended when the  *)
(* particle stops or the path is long enough.                              *)
(***************************************************************************)
Cumulated(l, s) ==
  [steps |-> l.steps + 1, E |-> l.E + s.e,
   from |-> IF s.e > 0 THEN l.from \cup {Source} ELSE l.from,
   last |-> track,
   connected |-> l.connected /\ (l.steps > 0 => joined)]

\* Mutant: a new track continues the path of the one before it.
NeverBroken == FALSE

BreaksPath == ~ joined

EndsPath(l, s) ==
  \/ s.fate = "stops"
  \/ l.steps > MaxSeparation /\ l.E > Threshold

\* Mutant: what is left in the pad row is dropped.
LeftOverDropped == FALSE

LeftOver == pad.dE > 0

LowPtStep(s) ==
  LET continued == IF BreaksPath THEN EndPath(path, previous) ELSE path
      l == Cumulated(continued, s)
      ends == EndsPath(l, s)
  IN
  /\ hits' = IF LeftOver THEN hits \cup HiPtHits(pad, previous) ELSE hits
  /\ pad' = IF LeftOver THEN ResetPadrowVariables(pad) ELSE pad
  /\ lowHits' = lowHits
                \cup (IF BreaksPath THEN LowPtHits(path, previous) ELSE {})
                \cup (IF ends THEN LowPtHits(l, This) ELSE {})
  /\ path' = IF ends THEN EndPath(l, This) ELSE l
  /\ recorded' = recorded
                 + (IF LeftOver THEN HiPtEnergy(pad, previous) ELSE 0)
                 + (IF BreaksPath THEN LowPtEnergy(path, previous) ELSE 0)
                 + (IF ends THEN LowPtEnergy(l, This) ELSE 0)
  /\ ignored' = IF LeftOver /\ ~ HasPosition(pad, previous)
                THEN ignored + pad.dE ELSE ignored
  /\ UNCHANGED <<radii, spaceHits>>

IgnoredStep == UNCHANGED <<pad, path, radii, collections, recorded, ignored>>

IsHighPt(s) == PtCutIsZero \/ s.pt = "high"

process(s) ==
  /\ row # Outside /\ steps < MaxSteps
  /\ IsStep(s, row)
  /\ IF IsHighPt(s) THEN HighPtStep(s)
     ELSE IF lowPtStepLimit THEN LowPtStep(s) ELSE IgnoredStep
  /\ previous' = This
  /\ deposited' = deposited + s.e
  /\ steps' = steps + 1
  /\ row' = IF s.fate # "goes on" THEN Outside ELSE s.to
  /\ ended' = IF s.fate # "goes on" THEN ended \cup {track} ELSE ended
  /\ joined' = TRUE
  /\ UNCHANGED <<event, open, track>>

-----------------------------------------------------------------------------
(***************************************************************************)
(* Geant4.  A track enters a row when it is born in it or comes back; only *)
(* a track born where the one before it ended starts where the last        *)
(* charged step ended.  A track is followed to its end before another.     *)
(***************************************************************************)
Enter(t, r, j) ==
  /\ open /\ row = Outside
  /\ t \notin ended
  /\ j => track \in ended /\ previous.row = r
  /\ track' = t /\ row' = r /\ joined' = j
  /\ ended' = IF track \in {NoTrack, t} THEN ended ELSE ended \cup {track}
  /\ UNCHANGED <<actionVars, collections, event, open, steps, historyVars>>

\* Mutant: the pad row is not cleared.
KeepPadAtEnd == pad

PadAfterEvent == ResetPadrowVariables(pad)

\* endEvent: what is left in the pad row is dropped, what is left of a path
\* becomes a hit.
endEvent ==
  /\ open /\ row = Outside
  /\ open' = FALSE
  /\ pad' = PadAfterEvent
  /\ path' = EmptyPath
  /\ lowHits' = lowHits \cup LowPtHits(path, previous)
  /\ recorded' = recorded + LowPtEnergy(path, previous)
  /\ UNCHANGED <<previous, radii, hits, spaceHits, event, track, row, ended,
                 steps, joined, deposited, ignored>>

\* The collections of an event are handed over; the next one has new ones.
StartEvent ==
  /\ ~ open /\ event < MaxEvents
  /\ open' = TRUE /\ event' = event + 1
  /\ track' = NoTrack /\ ended' = {} /\ steps' = 0 /\ joined' = FALSE
  /\ hits' = {} /\ lowHits' = {} /\ spaceHits' = {}
  /\ UNCHANGED <<actionVars, row, historyVars>>

Next ==
  /\ \/ \E t \in Tracks, r \in Rows, j \in BOOLEAN : Enter(t, r, j)
     \/ \E s \in Steps : process(s)
     \/ endEvent
     \/ StartEvent
  /\ UNCHANGED lowPtStepLimit

Spec == Init /\ [][Next]_vars

-----------------------------------------------------------------------------
(***************************************************************************)
(* Properties.                                                             *)
(***************************************************************************)
Infos == Info \cup {NoInfo}

PadOK ==
  /\ pad.dE \in Nat /\ pad.centre \in Points \cup {NoPoint}
  /\ pad.entrance \in Infos /\ pad.from \subseteq Sources

PathOK ==
  /\ path.steps \in Nat /\ path.E \in Nat /\ path.from \subseteq Sources
  /\ path.last \in Tracks \cup {NoTrack} /\ path.connected \in BOOLEAN

GeantOK ==
  /\ event \in 1 .. MaxEvents /\ open \in BOOLEAN
  /\ track \in Tracks \cup {NoTrack} /\ row \in Rows \cup {Outside}
  /\ row # Outside => open /\ track \in Tracks \ ended
  /\ ended \subseteq Tracks /\ steps \in 0 .. MaxSteps /\ joined \in BOOLEAN

\* The members, the environment and the history have their types, and no
\* energy is negative.
TypeOK ==
  /\ PadOK /\ PathOK /\ GeantOK
  /\ lowPtStepLimit \in BOOLEAN /\ previous \in Infos
  /\ radii \subseteq Rows /\ spaceHits \subseteq Info
  /\ deposited \in Nat /\ recorded \in Nat /\ ignored \in Nat

(***************************************************************************)
(* No energy is counted twice: hits and accumulations hold no more than    *)
(* the steps deposited, whichever of the two a step feeds and however the  *)
(* tracks follow each other.                                               *)
(***************************************************************************)
NoEnergyInvented == recorded + ignored + pad.dE + path.E =< deposited

(***************************************************************************)
(* With no threshold, low-pt steps treated and no decay in flight, no      *)
(* energy is lost: what is in no hit is still accumulated, or was ignored  *)
(* because the radius of its row was not known yet.                        *)
(***************************************************************************)
NoEnergyLost ==
  (Threshold = 0 /\ (lowPtStepLimit \/ PtCutIsZero) /\ ~ DecaysInFlight) =>
    recorded + ignored + pad.dE + path.E = deposited

\* A step never finds both accumulations in use: a high-pt step ends the path,
\* a low-pt one the pad row.
OneAccumulation == pad.dE > 0 => path.steps = 0

(***************************************************************************)
(* DepositHiPtHit and DepositLowPtHit are never called with an invalid     *)
(* step: what they would attribute has a step to be attributed to, of the  *)
(* event being processed.                                                  *)
(***************************************************************************)
DepositsHaveTheirStep ==
  /\ pad.dE > 0 => pad.entrance.valid /\ previous.valid
  /\ path.steps > 0 => previous.valid /\ previous.track = path.last

(***************************************************************************)
(* The energy of a high-pt hit was deposited by its own track in its own   *)
(* pad row.                                                                *)
(***************************************************************************)
HitsOfOneTrack ==
  \A h \in hits : h.from = {<<event, h.track, h.row>>}

(***************************************************************************)
(* A low-pt hit is a connected path, attributed to the track of its last   *)
(* step, even when the hit is made much later, by another track's step or  *)
(* at the end of the event.                                                *)
(***************************************************************************)
LowPtHitsAreConnected ==
  \A h \in lowHits : h.connected /\ h.last = h.track

\* No hit holds energy of an earlier event, however that event ended.
HitsOfTheirEvent ==
  \A h \in hits \cup lowHits : \A s \in h.from : s[1] = event

(***************************************************************************)
(* A hit holds energy of its own event only and, where low-pt steps are    *)
(* treated separately, of its own track and row, though a track that comes *)
(* to rest leaves its energy to a step of the next.                        *)
(***************************************************************************)
HitsOfTheirOwn == HitsOfTheirEvent /\ (lowPtStepLimit => HitsOfOneTrack)

=============================================================================
