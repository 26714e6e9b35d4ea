--------------------------- MODULE DRCFiberModel ---------------------------
(***************************************************************************)
(* DRCFiberModel of plugins/DRCaloFastSimModel.h: decides, reflection by   *)
(* reflection, whether an optical photon in a fibre may be taken to the    *)
(* fibre's end in one go, how many of its hops that spares, and whether it *)
(* would be absorbed on the way.                                           *)
(*                                                                         *)
(* Its methods are operators here, from the members m of the model and a   *)
(* view t of the Geant4 track: id, position z along the fibre's axis,      *)
(* direction dir, time, length of the last step, status of the boundary    *)
(* process, whether it is stopped, and the interaction lengths left to     *)
(* absorption and wavelength shift.                                        *)
(***************************************************************************)
EXTENDS Integers

CONSTANTS
  FiberLen,       \* length of a fibre
  Safety,         \* property "safety": reflections left to Geant4 at the end
  NoLimit         \* DBL_MAX

ASSUME FiberAssumption ==
  FiberLen \in Nat \ {0} /\ Safety \in Nat \ {0} /\ NoLimit \in Nat \ {0}

TIR == "TotalInternalReflection"

-----------------------------------------------------------------------------
(***************************************************************************)
(* FastFiberData: the photon at one reflection.  A fresh one belongs to no *)
(* track; resetting it forgets everything but the track, place and time.   *)
(***************************************************************************)
NoData ==
  [trackID |-> 0, z |-> 0, dir |-> 0, time |-> 0, status |-> "Undefined",
   absNILL |-> NoLimit, wlsNILL |-> NoLimit, interval |-> 0]

Candidate(t) ==
  [trackID |-> t.id, z |-> t.z, dir |-> t.dir, time |-> t.time,
   status |-> t.status, absNILL |-> t.absNILL, wlsNILL |-> t.wlsNILL,
   interval |-> 0]

ResetData(d) ==
  [d EXCEPT !.status = "Undefined", !.absNILL = NoLimit, !.wlsNILL = NoLimit,
            !.interval = 0]

SameReflection(d, e) == d.trackID = e.trackID /\ d.status = e.status

checkRepetitive(d, e) == SameReflection(d, e) /\ d.interval = e.interval

-----------------------------------------------------------------------------
(***************************************************************************)
(* The members of the model.  processes are the Geant4 processes that      *)
(* setPostStepProc finds, besides the boundary process.                    *)
(***************************************************************************)
InitialModel(processes) ==
  [previous |-> NoData, current |-> NoData, nTransport |-> 0, unit |-> 0,
   fKill |-> FALSE, fTransported |-> FALSE, processes |-> processes]

reset(m) ==
  [m EXCEPT !.previous = ResetData(@), !.current = ResetData(@),
            !.nTransport = 0, !.unit = 0, !.fKill = FALSE, !.fTransported = FALSE]

\* Mutant: the model goes on from one track to the next.
NeverReset(m, id) == m

\* Both plugins reset the model when the track is not that of its last
\* reflection.
OnTrack(m, id) == IF m.current.trackID # id THEN reset(m) ELSE m

-----------------------------------------------------------------------------
(***************************************************************************)
(* checkTotalInternalReflection: the members after it, and its answer.     *)
(***************************************************************************)
Accumulated(m, t) ==
  [m EXCEPT !.current.interval = @ + t.length,
            !.current.status = IF t.status = "FresnelReflection" THEN t.status ELSE @]

\* A step too small counts as a reflection unless one was total before.
IsCandidate(m, t) ==
  \/ t.status = TIR
  \/ t.status = "StepTooSmall" /\ m.current.status # TIR /\ m.previous.status # TIR

Repetitive(m, t) ==
  /\ SameReflection(Candidate(t), m.current)
  /\ checkRepetitive(m.current, m.previous)

checkTotalInternalReflection(m, t) ==
  LET a == Accumulated(m, t) IN
  IF t.stopped THEN [model |-> m, answer |-> FALSE]
  ELSE IF IsCandidate(a, t)
  THEN [model |-> [a EXCEPT !.previous = a.current, !.current = Candidate(t)],
        answer |-> Repetitive(a, t)]
  ELSE [model |-> a, answer |-> FALSE]

-----------------------------------------------------------------------------
(***************************************************************************)
(* Interaction lengths.                                                    *)
(***************************************************************************)
\* checkAbsorption: absorbed before the end of the fibre.
checkAbsorption(prevNILL, currentNILL, n) ==
  /\ prevNILL >= 0 /\ currentNILL >= 0 /\ prevNILL # currentNILL
  /\ prevNILL # NoLimit /\ currentNILL # NoLimit
  /\ currentNILL - (prevNILL - currentNILL) * (n + Safety) < 0

\* The length left to a process that is there has no history.
Reinitialized(m) ==
  \/ "abs" \in m.processes /\ NoLimit \in {m.previous.absNILL, m.current.absNILL}
  \/ "wls" \in m.processes /\ NoLimit \in {m.previous.wlsNILL, m.current.wlsNILL}

\* Lengths left after the hops of the safety margin.
FinalAbs(m, t) == t.absNILL - (m.previous.absNILL - m.current.absNILL) * Safety

FinalWLS(m, t) == t.wlsNILL - (m.previous.wlsNILL - m.current.wlsNILL) * Safety

\* Mutant: a transported photon keeps the lengths it has.
NILLNeverChecked(m, t) == TRUE

\* checkNILL: FALSE makes Geant4 draw the lengths anew.
checkNILL(m, t) ==
  \/ ~ m.fTransported
  \/ Reinitialized(m)
  \/ t.absNILL < 0 \/ t.wlsNILL < 0
  \/ FinalAbs(m, t) >= 0 /\ FinalWLS(m, t) >= 0

-----------------------------------------------------------------------------
(***************************************************************************)
(* check_trigger: the members after it, and its answer.                    *)
(***************************************************************************)
FiberEnd(unit) == IF unit > 0 THEN FiberLen ELSE 0

\* Whole hops of this unit that fit before the end; the quotient of floats
\* is infinite for no unit at all.
MaxTransport(z, unit) ==
  CASE unit > 0 -> (FiberEnd(unit) - z) \div unit
    [] unit < 0 -> (z - FiberEnd(unit)) \div (- unit)
    [] OTHER -> NoLimit

\* The hop, and the number of hops that can be spared.
Estimated(m, t) ==
  LET unit == m.current.z - m.previous.z IN
  [m EXCEPT !.unit = unit, !.nTransport = MaxTransport(t.z, unit) - Safety]

NothingToDo(m) == [model |-> m, answer |-> FALSE]

AfterTransport(m, t) ==
  NothingToDo(IF t.dir # m.current.dir THEN reset(m) ELSE m)

OnRepetition(e) ==
  IF \/ e.nTransport < 1
     \/ checkAbsorption(e.previous.wlsNILL, e.current.wlsNILL, e.nTransport)
  THEN NothingToDo(e)
  ELSE [model |-> [e EXCEPT !.fKill = @ \/ checkAbsorption(e.previous.absNILL,
                                               e.current.absNILL, e.nTransport)],
        answer |-> TRUE]

check_trigger(m, t) ==
  LET c == checkTotalInternalReflection(m, t) IN
  IF m.fTransported THEN AfterTransport(m, t)
  ELSE IF c.answer THEN OnRepetition(Estimated(c.model, t))
  ELSE c
=============================================================================
