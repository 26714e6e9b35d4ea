------------------------- MODULE FiberDRCalo_proofs -------------------------
(***************************************************************************)
(* Proofs about FiberDRCalo: what the model holds of a photon lies on the  *)
(* photon's own straight way, so that a hop it measures is a hop.          *)
(*                                                                         *)
(* The ids of photons have to be their own: FiberDRCaloNextEvent shows the *)
(* reset of the model to fail otherwise.                                   *)
(***************************************************************************)
EXTENDS FiberDRCalo, FiniteSetTheorems, TLAPS

\* The hypothesis: no two events give the same id to photons.
IdsOfEventsDiffer ==
  \A d, e \in 1 .. MaxEvents : d # e => TrackIDs[d] \cap TrackIDs[e] = {}

Reflections == {TIR, "StepTooSmall"}

-----------------------------------------------------------------------------
(***************************************************************************)
(* Types.  Records are told by their fields.                               *)
(***************************************************************************)
PhotonFields ==
  {"id", "fibre", "vol", "z", "dir", "time", "hop", "part", "length", "absNILL", "wlsNILL",
   "turns", "stopped", "asked", "from", "out", "surface", "changes"}

DataFields ==
  {"trackID", "z", "dir", "time", "status", "absNILL", "wlsNILL", "interval"}

ModelFields ==
  {"previous", "current", "nTransport", "unit", "fKill", "fTransported", "processes"}

PhotonOK(p) ==
  /\ DOMAIN p = PhotonFields
  /\ p.id \in Nat \ {0} /\ p.fibre \in Fibres /\ p.vol \in {"core", "clad", "out"}
  /\ p.z \in 0 .. FiberLen /\ p.dir \in {-1, 1} /\ ToEnd(p) > 0
  /\ p.hop \in Nat \ {0} /\ p.part \in 1 .. p.hop
  /\ p.time \in Nat /\ p.length \in Nat /\ p.absNILL \in Nat /\ p.wlsNILL \in Nat
  /\ p.turns \in Nat /\ p.changes \in Nat /\ p.surface \in Reflections /\ p.stopped = FALSE
  /\ p.from \in 0 .. FiberLen /\ p.out \in {-1, 1}

DataOK(d) ==
  /\ DOMAIN d = DataFields
  /\ d.trackID \in Nat /\ d.z \in Int /\ d.time \in Int /\ d.interval \in Nat
  /\ d.absNILL \in Nat /\ d.wlsNILL \in Nat

ModelOK(m) ==
  /\ DOMAIN m = ModelFields
  /\ DataOK(m.previous) /\ DataOK(m.current)
  /\ m.nTransport \in Int /\ m.unit \in Int
  /\ m.fKill \in BOOLEAN /\ m.fTransported \in BOOLEAN
  /\ m.processes \subseteq {"abs", "wls"}

\* A length is left to a process exactly when the process is there.
DrawOK(d, procs) ==
  /\ d.absNILL = NoLimit <=> "abs" \notin procs
  /\ d.wlsNILL = NoLimit <=> "wls" \notin procs

-----------------------------------------------------------------------------
(***************************************************************************)
(* The ways a step ends.                                                   *)
(***************************************************************************)
Kept(p, q) ==
  /\ DOMAIN q = PhotonFields
  /\ q.id = p.id /\ q.fibre = p.fibre /\ q.hop = p.hop /\ q.asked = p.asked
  /\ q.from = p.from /\ q.out = p.out

Advanced(p, q, l, procs) ==
  /\ q.z = (IF p.dir = 1 THEN p.z + l ELSE p.z - l)
  /\ q.time = p.time + l /\ q.length = l
  /\ q.absNILL = (IF "abs" \in procs THEN p.absNILL - l ELSE p.absNILL)
  /\ q.wlsNILL = (IF "wls" \in procs THEN p.wlsNILL - l ELSE p.wlsNILL)

Reflected(p, q, st) ==
  /\ p.vol = "core" /\ p.part < ToEnd(p) /\ Advanced(p, q, p.part, model.processes)
  /\ q.dir = p.dir /\ q.turns = p.turns /\ q.part = p.hop /\ q.vol = AtSurface("clad")
  /\ st \in Reflections

TurnedBack(p, q, st) ==
  /\ p.vol = "core" /\ p.part >= ToEnd(p) /\ Advanced(p, q, ToEnd(p), model.processes)
  /\ q.dir = - p.dir /\ q.turns = p.turns + 1 /\ q.vol = AtSurface("out")
  /\ st = "FresnelReflection"

Returned(p, q, st) ==
  /\ p.vol \in {"clad", "out"} /\ q.vol = "core" /\ q.length = 0
  /\ q.z = p.z /\ q.dir = p.dir /\ q.time = p.time /\ q.part = p.part /\ q.turns = p.turns
  /\ q.absNILL = p.absNILL /\ q.wlsNILL = p.wlsNILL
  /\ st = "StepTooSmall"

GoesOn(p, q, st) ==
  /\ Kept(p, q) /\ PhotonOK(q)
  /\ Reflected(p, q, st) \/ TurnedBack(p, q, st) \/ Returned(p, q, st)

Ended(p, q, st) ==
  /\ Kept(p, q) /\ p.vol = "core" /\ q.vol = "core" /\ q.stopped = TRUE /\ st = status
  /\ q.z = p.z /\ q.dir = p.dir
  /\ \E l \in 0 .. p.part : ~ Survives(p, l)

HasLeft(p, q, st) ==
  Kept(p, q) /\ q.vol = "gone" /\ q.stopped = FALSE /\ st = "FresnelRefraction"

LEMMA SpentFields ==
  ASSUME NEW p, PhotonOK(p), NEW l \in Nat, NEW q, q = Spent(p, l)
  PROVE  /\ Kept(p, q) /\ Advanced(p, q, l, model.processes)
         /\ q.vol = p.vol /\ q.dir = p.dir /\ q.part = p.part /\ q.turns = p.turns
         /\ q.stopped = p.stopped /\ q.surface = p.surface /\ q.changes = p.changes
<1>1. /\ Kept(p, q) /\ q.z = p.z + p.dir * l /\ q.time = p.time + l /\ q.length = l
      /\ q.absNILL = (IF "abs" \in model.processes THEN p.absNILL - l ELSE p.absNILL)
      /\ q.wlsNILL = (IF "wls" \in model.processes THEN p.wlsNILL - l ELSE p.wlsNILL)
      /\ q.vol = p.vol /\ q.dir = p.dir /\ q.part = p.part /\ q.turns = p.turns
      /\ q.stopped = p.stopped /\ q.surface = p.surface /\ q.changes = p.changes
  BY DEF PhotonOK, PhotonFields, Spent, Kept
<1>2. p.z + p.dir * l = IF p.dir = 1 THEN p.z + l ELSE p.z - l
  BY FiberAssumption DEF PhotonOK
<1> QED
  BY <1>1, <1>2 DEF Advanced

LEMMA ReflectsOutcome ==
  ASSUME NEW p, PhotonOK(p), NEW s \in Reflects(p)
  PROVE  GoesOn(p, s.photon, s.status)
<1> DEFINE r == Spent(p, p.part)
           q == s.photon
<1>1. p.vol = "core" /\ p.part < ToEnd(p) /\ Survives(p, p.part)
  BY DEF Reflects
<1>2. PICK st \in Reflections :
        s = [photon |-> [r EXCEPT !.part = p.hop, !.vol = AtSurface("clad"),
                          !.surface = st, !.changes = IF st = p.surface THEN @ ELSE @ + 1],
             status |-> st]
  BY <1>1 DEF Reflects, PhotonOK, Reflections
<1>3. p.part \in Nat
  BY DEF PhotonOK
<1>4. /\ Kept(p, r) /\ Advanced(p, r, p.part, model.processes)
      /\ r.dir = p.dir /\ r.turns = p.turns /\ r.stopped = p.stopped /\ r.changes = p.changes
  BY <1>3, SpentFields
<1> HIDE DEF r
<1>5. /\ Kept(p, q) /\ Advanced(p, q, p.part, model.processes)
      /\ q.dir = p.dir /\ q.turns = p.turns /\ q.stopped = p.stopped
      /\ q.part = p.hop /\ q.vol = AtSurface("clad") /\ q.surface = st
      /\ q.changes = IF st = p.surface THEN r.changes ELSE r.changes + 1
  BY <1>2, <1>4 DEF Kept, PhotonFields, Advanced
<1>6. r.absNILL >= 0 /\ r.wlsNILL >= 0
  BY <1>1 DEF Survives, r
<1>7. q.absNILL \in Nat /\ q.wlsNILL \in Nat
  BY <1>3, <1>4, <1>5, <1>6 DEF Advanced, PhotonOK
<1>8. q.z \in 0 .. FiberLen /\ ToEnd(q) > 0
  BY <1>1, <1>3, <1>5, FiberAssumption DEF Advanced, PhotonOK, ToEnd
<1>9. PhotonOK(q)
  BY <1>3, <1>4, <1>5, <1>7, <1>8 DEF PhotonOK, Kept, Advanced, AtSurface
<1> QED
  BY <1>1, <1>2, <1>5, <1>9 DEF GoesOn, Reflected

LEMMA TurnsOutcome ==
  ASSUME NEW p, PhotonOK(p), NEW s \in Turns(p)
  PROVE  GoesOn(p, s.photon, s.status)
<1> DEFINE r == Spent(p, ToEnd(p))
           q == s.photon
<1>1. p.vol = "core" /\ p.part >= ToEnd(p) /\ Survives(p, ToEnd(p))
  BY DEF Turns
<1>2. s = [photon |-> [r EXCEPT
                         !.part = IF p.part = ToEnd(p) THEN p.hop ELSE p.part - ToEnd(p),
                         !.dir = - p.dir, !.vol = AtSurface("out"), !.turns = @ + 1],
           status |-> "FresnelReflection"]
  BY <1>1 DEF Turns
<1>3. ToEnd(p) \in Nat /\ ToEnd(p) > 0
  BY FiberAssumption DEF PhotonOK, ToEnd
<1>4. /\ Kept(p, r) /\ Advanced(p, r, ToEnd(p), model.processes)
      /\ r.turns = p.turns /\ r.stopped = p.stopped /\ r.changes = p.changes
      /\ r.surface = p.surface
  BY <1>3, SpentFields
<1> HIDE DEF r
<1>5. /\ Kept(p, q) /\ Advanced(p, q, ToEnd(p), model.processes)
      /\ q.dir = - p.dir /\ q.turns = p.turns + 1 /\ q.stopped = p.stopped
      /\ q.part = (IF p.part = ToEnd(p) THEN p.hop ELSE p.part - ToEnd(p))
      /\ q.vol = AtSurface("out") /\ q.surface = p.surface /\ q.changes = p.changes
  BY <1>2, <1>4 DEF Kept, PhotonFields, Advanced
<1>6. r.absNILL >= 0 /\ r.wlsNILL >= 0
  BY <1>1 DEF Survives, r
<1>7. q.absNILL \in Nat /\ q.wlsNILL \in Nat
  BY <1>3, <1>4, <1>5, <1>6 DEF Advanced, PhotonOK
<1>8. q.z \in 0 .. FiberLen /\ ToEnd(q) > 0
  BY <1>1, <1>3, <1>5, FiberAssumption DEF Advanced, PhotonOK, ToEnd
<1>9. q.part \in 1 .. q.hop
  BY <1>1, <1>3, <1>5 DEF PhotonOK, Kept
<1>10. q.dir \in {-1, 1} /\ q.vol \in {"core", "clad", "out"}
  BY <1>5 DEF PhotonOK, AtSurface
<1>11. q.time \in Nat /\ q.length \in Nat
  BY <1>3, <1>5 DEF PhotonOK, Advanced
<1>12. PhotonOK(q)
  BY <1>5, <1>7, <1>8, <1>9, <1>10, <1>11 DEF PhotonOK, Kept
<1> QED
  BY <1>1, <1>2, <1>5, <1>12 DEF GoesOn, TurnedBack

LEMMA ReturnsOutcome ==
  ASSUME NEW p, PhotonOK(p), NEW s \in Returns(p)
  PROVE  GoesOn(p, s.photon, s.status)
<1>1. /\ p.vol \in {"clad", "out"}
      /\ s = [photon |-> [p EXCEPT !.vol = "core", !.length = 0], status |-> "StepTooSmall"]
  BY DEF Returns
<1>2. Kept(p, s.photon) /\ Returned(p, s.photon, s.status)
  BY <1>1 DEF Kept, Returned, PhotonOK, PhotonFields
<1>3. s.photon.surface = p.surface /\ s.photon.changes = p.changes /\ s.photon.stopped = p.stopped
  BY <1>1 DEF PhotonOK, PhotonFields
<1>4. ToEnd(s.photon) = ToEnd(p)
  BY <1>2 DEF Returned, ToEnd
<1>5. PhotonOK(s.photon)
  BY <1>2, <1>3, <1>4 DEF Kept, Returned, PhotonOK
<1> QED
  BY <1>2, <1>5 DEF GoesOn

LEMMA LeavesOutcome ==
  ASSUME NEW p, PhotonOK(p), NEW s \in Leaves(p)
  PROVE  HasLeft(p, s.photon, s.status)
<1> DEFINE r == IF p.vol = "core" THEN Spent(p, ToEnd(p)) ELSE p
<1>1. s = [photon |-> [r EXCEPT !.vol = "gone"], status |-> "FresnelRefraction"]
  BY DEF Leaves
<1>2. ToEnd(p) \in Nat
  BY FiberAssumption DEF PhotonOK, ToEnd
<1>3. Kept(p, r) /\ r.stopped = FALSE
  <2>1. Kept(p, Spent(p, ToEnd(p))) /\ Spent(p, ToEnd(p)).stopped = p.stopped
    BY <1>2, SpentFields
  <2>2. p.vol # "core" => Kept(p, r) /\ r.stopped = FALSE
    BY DEF PhotonOK, Kept
  <2> QED
    BY <2>1, <2>2 DEF PhotonOK
<1> HIDE DEF r
<1> QED
  BY <1>1, <1>3 DEF HasLeft, Kept, PhotonFields

LEMMA EndsOutcome ==
  ASSUME NEW p, PhotonOK(p), NEW s \in Ends(p)
  PROVE  Ended(p, s.photon, s.status)
<1> DEFINE l == IF p.part < ToEnd(p) THEN p.part ELSE ToEnd(p)
<1>1. /\ p.vol = "core" /\ ~ Survives(p, l)
      /\ s = [photon |-> [p EXCEPT !.stopped = TRUE], status |-> status]
  BY DEF Ends
<1>2. l \in 0 .. p.part
  BY FiberAssumption DEF PhotonOK, ToEnd
<1> HIDE DEF l
<1>3. /\ Kept(p, s.photon) /\ s.photon.vol = "core" /\ s.photon.stopped = TRUE
      /\ s.photon.z = p.z /\ s.photon.dir = p.dir /\ s.status = status
  BY <1>1 DEF Kept, PhotonOK, PhotonFields
<1> QED
  BY <1>1, <1>2, <1>3 DEF Ended

LEMMA StepOutcome ==
  ASSUME NEW p, PhotonOK(p), NEW s \in StepsOf(p)
  PROVE  \/ GoesOn(p, s.photon, s.status)
         \/ Ended(p, s.photon, s.status)
         \/ HasLeft(p, s.photon, s.status)
BY ReflectsOutcome, TurnsOutcome, ReturnsOutcome, LeavesOutcome, EndsOutcome DEF StepsOf

-----------------------------------------------------------------------------
(***************************************************************************)
(* The methods of the model.                                               *)
(***************************************************************************)
ResetTo(m, r) ==
  /\ ModelOK(r) /\ r.fKill = FALSE /\ r.fTransported = FALSE /\ r.processes = m.processes
  /\ r.current.status = "Undefined" /\ r.previous.status = "Undefined"
  /\ r.current.trackID = m.current.trackID /\ r.previous.trackID = m.previous.trackID

LEMMA ResetOutcome ==
  ASSUME NEW m, ModelOK(m)
  PROVE  ResetTo(m, reset(m))
<1> DEFINE d == ResetData(m.current)
           e == ResetData(m.previous)
           r == reset(m)
<1>1. /\ DataOK(d) /\ d.status = "Undefined" /\ d.trackID = m.current.trackID
      /\ DataOK(e) /\ e.status = "Undefined" /\ e.trackID = m.previous.trackID
  BY FiberAssumption DEF ModelOK, DataOK, DataFields, ResetData
<1> HIDE DEF d, e
<1>2. /\ DOMAIN r = ModelFields /\ r.current = d /\ r.previous = e
      /\ r.nTransport = 0 /\ r.unit = 0 /\ r.fKill = FALSE /\ r.fTransported = FALSE
      /\ r.fKill \in BOOLEAN /\ r.fTransported \in BOOLEAN /\ r.processes = m.processes
  BY DEF reset, ModelOK, ModelFields, d, e
<1> HIDE DEF r
<1>3. ModelOK(r)
  BY <1>1, <1>2 DEF ModelOK
<1> QED
  BY <1>1, <1>2, <1>3 DEF ResetTo, r

LEMMA AccumulatedFields ==
  ASSUME NEW m, ModelOK(m), NEW t, t.length \in Nat, NEW a, a = Accumulated(m, t)
  PROVE  /\ ModelOK(a)
         /\ a.previous = m.previous /\ a.nTransport = m.nTransport /\ a.unit = m.unit
         /\ a.fKill = m.fKill /\ a.fTransported = m.fTransported
         /\ a.processes = m.processes
         /\ a.current.interval = m.current.interval + t.length
         /\ a.current.status = IF t.status = "FresnelReflection" THEN t.status
                               ELSE m.current.status
         /\ a.current.trackID = m.current.trackID /\ a.current.z = m.current.z
         /\ a.current.time = m.current.time /\ a.current.dir = m.current.dir
         /\ a.current.absNILL = m.current.absNILL /\ a.current.wlsNILL = m.current.wlsNILL
<1>1. DOMAIN m = ModelFields /\ DOMAIN m.current = DataFields
  BY DEF ModelOK, DataOK
<1>2. /\ DOMAIN a = ModelFields /\ DOMAIN a.current = DataFields
      /\ a.previous = m.previous /\ a.nTransport = m.nTransport /\ a.unit = m.unit
      /\ a.fKill = m.fKill /\ a.fTransported = m.fTransported
      /\ a.processes = m.processes
      /\ a.current.interval = m.current.interval + t.length
      /\ a.current.status = IF t.status = "FresnelReflection" THEN t.status
                            ELSE m.current.status
      /\ a.current.trackID = m.current.trackID /\ a.current.z = m.current.z
      /\ a.current.time = m.current.time /\ a.current.dir = m.current.dir
      /\ a.current.absNILL = m.current.absNILL /\ a.current.wlsNILL = m.current.wlsNILL
  BY <1>1 DEF ModelFields, DataFields, Accumulated
<1> QED
  BY <1>2 DEF ModelOK, DataOK

\* A candidate became the current reflection, the current one the previous.
Pushed(m, t, r) ==
  /\ ModelOK(r) /\ r.fTransported = m.fTransported /\ r.processes = m.processes
  /\ r.previous = Accumulated(m, t).current /\ r.current = Candidate(t)

Push(m, t) ==
  [Accumulated(m, t) EXCEPT !.previous = Accumulated(m, t).current, !.current = Candidate(t)]

LEMMA PushedOutcome ==
  ASSUME NEW m, ModelOK(m), NEW p, PhotonOK(p), NEW st, NEW t, t = View(p, st)
  PROVE  Pushed(m, t, Push(m, t)) /\ Push(m, t).fKill = m.fKill
<1> DEFINE a == Accumulated(m, t)
           r == Push(m, t)
<1>1. t.length \in Nat
  BY DEF View, PhotonOK
<1>2. /\ ModelOK(a) /\ a.fKill = m.fKill /\ a.fTransported = m.fTransported
      /\ a.processes = m.processes
  BY <1>1, AccumulatedFields
<1>3. DataOK(Candidate(t))
  BY DEF DataOK, DataFields, Candidate, View, PhotonOK
<1> HIDE DEF a
<1>4. /\ DOMAIN r = ModelFields /\ r.previous = a.current /\ r.current = Candidate(t)
      /\ r.nTransport = a.nTransport /\ r.unit = a.unit /\ r.fKill = a.fKill
      /\ r.fTransported = a.fTransported /\ r.processes = a.processes
  BY <1>2 DEF ModelOK, ModelFields, Push, a
<1> QED
  BY <1>2, <1>3, <1>4 DEF Pushed, ModelOK, a

\* The answer of check_trigger is to take the photon to the end, or to kill it.
Answered(m, t, r) ==
  /\ Pushed(m, t, r) /\ IsCandidate(Accumulated(m, t), t) /\ Repetitive(Accumulated(m, t), t)
  /\ r.unit = t.z - Accumulated(m, t).current.z
  /\ r.nTransport = MaxTransport(t.z, r.unit) - Safety /\ r.nTransport >= 1
  /\ r.fKill => \/ m.fKill
                \/ checkAbsorption(Accumulated(m, t).current.absNILL, t.absNILL, r.nTransport)

LEMMA DivHop ==
  ASSUME NEW x \in Nat, NEW u \in Nat, u > 0
  PROVE  /\ x \div u \in Nat
         /\ u * (x \div u) =< x /\ x < u * (x \div u) + u
OBVIOUS

LEMMA MaxTransportInt ==
  ASSUME NEW z \in 0 .. FiberLen, NEW unit \in Int
  PROVE  MaxTransport(z, unit) \in Int
BY FiberAssumption DEF MaxTransport, FiberEnd

LEMMA TriggerOutcome ==
  ASSUME NEW m, ModelOK(m), m.fTransported = FALSE,
         NEW p, PhotonOK(p), NEW st, NEW t, t = View(p, st),
         NEW c, c = check_trigger(m, t)
  PROVE  \/ /\ c.answer = FALSE /\ ~ IsCandidate(Accumulated(m, t), t)
            /\ c.model = Accumulated(m, t)
         \/ /\ c.answer = FALSE /\ IsCandidate(Accumulated(m, t), t)
            /\ Pushed(m, t, c.model) /\ c.model.fKill = m.fKill
         \/ c.answer = TRUE /\ Answered(m, t, c.model)
<1> DEFINE a == Accumulated(m, t)
           b == Push(m, t)
           e == Estimated(b, t)
<1>1. t.stopped = FALSE /\ t.length \in Nat /\ t.z \in 0 .. FiberLen
  BY DEF View, PhotonOK
<1>2. checkTotalInternalReflection(m, t) =
        IF IsCandidate(a, t) THEN [model |-> b, answer |-> Repetitive(a, t)]
        ELSE [model |-> a, answer |-> FALSE]
  BY <1>1 DEF checkTotalInternalReflection, Push
<1>3. Pushed(m, t, b) /\ b.fKill = m.fKill
  BY PushedOutcome
<1> HIDE DEF a, b, e
<1>4. CASE ~ IsCandidate(a, t)
  BY <1>2, <1>4 DEF check_trigger, a
<1>5. CASE IsCandidate(a, t) /\ ~ Repetitive(a, t)
  BY <1>2, <1>3, <1>5 DEF check_trigger, a
<1>6. CASE IsCandidate(a, t) /\ Repetitive(a, t)
  <2>1. c = OnRepetition(e)
    BY <1>2, <1>6 DEF check_trigger, a, e
  <2>2. /\ b.current.z = t.z /\ b.previous.z = a.current.z
        /\ b.current.z - b.previous.z \in Int
        /\ b.previous.absNILL = a.current.absNILL /\ b.current.absNILL = t.absNILL
    BY <1>3 DEF Pushed, Candidate, View, ModelOK, DataOK, a
  <2>3. Safety \in Int /\ MaxTransport(t.z, b.current.z - b.previous.z) \in Int
    BY <1>1, <2>2, MaxTransportInt, FiberAssumption
  <2>4. /\ DOMAIN e = ModelFields /\ e.unit = t.z - a.current.z
        /\ e.nTransport = MaxTransport(t.z, e.unit) - Safety
        /\ e.previous = b.previous /\ e.current = b.current /\ e.fKill = b.fKill
        /\ e.fTransported = b.fTransported /\ e.processes = b.processes
    BY <1>3, <2>2 DEF Estimated, Pushed, ModelOK, ModelFields, e
  <2>5. e.unit \in Int /\ e.nTransport \in Int
    BY <2>2, <2>3, <2>4
  <2>6. Pushed(m, t, e) /\ e.fKill = m.fKill
    BY <1>3, <2>4, <2>5 DEF Pushed, ModelOK
  <2>7. CASE c.answer = FALSE
    BY <1>6, <2>1, <2>6, <2>7 DEF OnRepetition, NothingToDo, a
  <2>8. CASE c.answer # FALSE
    <3> DEFINE k == e.fKill \/ checkAbsorption(e.previous.absNILL, e.current.absNILL, e.nTransport)
    <3>1. e.nTransport >= 1 /\ c = [model |-> [e EXCEPT !.fKill = k], answer |-> TRUE]
      BY <2>1, <2>5, <2>8 DEF OnRepetition, NothingToDo
    <3>2. k \in BOOLEAN
      BY <2>6 DEF Pushed, ModelOK, checkAbsorption
    <3>3. k => \/ m.fKill
               \/ checkAbsorption(a.current.absNILL, t.absNILL, e.nTransport)
      BY <2>2, <2>4, <2>6
    <3> HIDE DEF k
    <3>4. /\ c.answer = TRUE /\ DOMAIN c.model = ModelFields /\ c.model.fKill = k
          /\ c.model.unit = e.unit /\ c.model.nTransport = e.nTransport
          /\ c.model.previous = e.previous /\ c.model.current = e.current
          /\ c.model.fTransported = e.fTransported /\ c.model.processes = e.processes
      BY <2>4, <3>1 DEF ModelFields
    <3>5. Pushed(m, t, c.model)
      BY <2>6, <3>2, <3>4 DEF Pushed, ModelOK
    <3> QED
      BY <1>6, <2>4, <3>1, <3>3, <3>4, <3>5 DEF Answered, a
  <2> QED
    BY <2>7, <2>8
<1> QED
  BY <1>4, <1>5, <1>6

-----------------------------------------------------------------------------
(***************************************************************************)
(* Hops.                                                                   *)
(***************************************************************************)
Along(dir, length) == IF dir = 1 THEN length ELSE 0 - length

\* Where Geant4 reports a reflected step in the next volume, a photon that
\* turned is asked about when it is back, at the end.
AtTurn(p) == p.z = IF p.dir = 1 THEN 0 ELSE FiberLen

\* Hops that can be spared are towards the end, and fit.
LEMMA HopsFit ==
  ASSUME NEW p, PhotonOK(p), NEW u \in Nat, u > 0, NEW h \in {-1, 1},
         NEW n, n = MaxTransport(p.z, Along(h, u)) - Safety, n >= 1,
         h = p.dir \/ AtTurn(p)
  PROVE  /\ h = p.dir /\ n \in Nat
         /\ u * (n + Safety) =< ToEnd(p) /\ ToEnd(p) < u * (n + Safety) + u
<1>1. /\ p.z \in Nat /\ FiberLen - p.z \in Nat /\ p.dir \in {-1, 1}
      /\ FiberLen \in Nat /\ Safety \in Nat /\ Safety > 0
  BY FiberAssumption DEF PhotonOK
<1> DEFINE x == IF h = 1 THEN FiberLen - p.z ELSE p.z
<1>2. MaxTransport(p.z, Along(h, u)) = x \div u
  <2>1. CASE h = 1
    BY <1>1, <2>1 DEF MaxTransport, Along, FiberEnd
  <2>2. CASE h = -1
    <3>1. Along(h, u) = - u /\ - u < 0 /\ - (- u) = u
      BY <2>2 DEF Along
    <3> QED
      BY <1>1, <2>2, <3>1 DEF MaxTransport, FiberEnd
  <2> QED
    BY <2>1, <2>2
<1>3. x \in Nat /\ x \div u \in Nat /\ u * (x \div u) =< x /\ x < u * (x \div u) + u
  BY <1>1, DivHop
<1>4. x \div u = n + Safety /\ n \in Nat
  BY <1>1, <1>2, <1>3
<1>5. u * (n + Safety) =< x /\ x < u * (n + Safety) + u
  BY <1>3, <1>4
<1>6. h = p.dir
  <2> SUFFICES ASSUME h # p.dir PROVE FALSE
    OBVIOUS
  <2>1. x = 0
    BY <1>1 DEF AtTurn
  <2>2. u * (n + Safety) > 0
    BY <1>1, <1>4
  <2> QED
    BY <1>1, <1>4, <1>5, <2>1, <2>2
<1>7. x = ToEnd(p)
  BY <1>1, <1>6 DEF ToEnd
<1> QED
  BY <1>4, <1>5, <1>6, <1>7

\* What is left is short of the way, where the hop took its share.
LEMMA AbsorbedBefore ==
  ASSUME NEW previous \in Nat, NEW current \in Nat, NEW u \in Nat, NEW n \in Nat,
         NEW x \in Nat, u * (n + Safety) =< x,
         previous # NoLimit => previous - current = u,
         checkAbsorption(previous, current, n)
  PROVE  current < x
<1>1. Safety \in Nat /\ previous - current = u
  BY FiberAssumption DEF checkAbsorption
<1>2. current - u * (n + Safety) < 0
  BY <1>1 DEF checkAbsorption
<1>3. u * (n + Safety) \in Nat
  BY <1>1
<1> QED
  BY <1>2, <1>3

-----------------------------------------------------------------------------
(***************************************************************************)
(* What the model holds of the photon lies on its way.                     *)
(***************************************************************************)
Mine(m, p) == m.current.trackID = p.id

Live(d, p) == d.trackID = p.id /\ d.status \in Reflections

\* The photon went from d to where it is in the direction h, without turning.
Straight(d, p, h) == p.z = d.z + Along(h, p.time - d.time)

\* What is left to the processes was not drawn anew since d.
SameDraw(d, p, procs) ==
  /\ DrawOK(d, procs)
  /\ "abs" \in procs => d.absNILL - p.absNILL = p.time - d.time
  /\ "wls" \in procs => d.wlsNILL - p.wlsNILL = p.time - d.time

\* What an answer promises: hops that fit to the end, each of them measured
\* on the way, and a photon killed has too little left.
Trip(m, p) ==
  LET u == m.current.time - m.previous.time IN
  /\ u \in Nat /\ u > 0 /\ m.unit = Along(p.dir, u)
  /\ m.nTransport \in Nat /\ m.nTransport >= 1
  /\ u * (m.nTransport + Safety) =< ToEnd(p)
  /\ ToEnd(p) < u * (m.nTransport + Safety) + u
  /\ m.fKill => p.absNILL < ToEnd(p)

LEMMA AnswerTrip ==
  ASSUME NEW m, ModelOK(m), NEW p, PhotonOK(p), NEW st, NEW t, t = View(p, st),
         NEW d, d = Accumulated(m, t).current, NEW r, Answered(m, t, r), m.fKill = FALSE,
         d.time < p.time, SameDraw(d, p, m.processes),
         NEW h \in {-1, 1}, Straight(d, p, h), h = p.dir \/ AtTurn(p)
  PROVE  Trip(r, p)
<1>1. t.length \in Nat /\ t.z = p.z /\ t.time = p.time /\ t.absNILL = p.absNILL
  BY DEF View, PhotonOK
<1>2. DataOK(d)
  BY <1>1, AccumulatedFields DEF ModelOK
<1> DEFINE u == p.time - d.time
<1>3. u \in Nat /\ u > 0
  BY <1>2 DEF DataOK, PhotonOK
<1>4. r.current.time = p.time /\ r.previous.time = d.time
  BY <1>1 DEF Answered, Pushed, Candidate
<1>5. r.unit = Along(h, u)
  BY <1>1, <1>2, <1>3 DEF Answered, Straight, Along, DataOK, PhotonOK
<1>6. r.nTransport = MaxTransport(p.z, Along(h, u)) - Safety /\ r.nTransport >= 1
  BY <1>1, <1>5 DEF Answered
<1> HIDE DEF u
<1>7. /\ h = p.dir /\ r.nTransport \in Nat
      /\ u * (r.nTransport + Safety) =< ToEnd(p) /\ ToEnd(p) < u * (r.nTransport + Safety) + u
  BY <1>3, <1>6, HopsFit
<1>8. ASSUME r.fKill PROVE p.absNILL < ToEnd(p)
  <2>1. checkAbsorption(d.absNILL, p.absNILL, r.nTransport)
    BY <1>1, <1>8 DEF Answered
  <2>2. d.absNILL # NoLimit => d.absNILL - p.absNILL = u
    BY DEF SameDraw, DrawOK, u
  <2>3. d.absNILL \in Nat /\ p.absNILL \in Nat /\ ToEnd(p) \in Nat
    BY <1>2, FiberAssumption DEF DataOK, PhotonOK, ToEnd
  <2> QED
    BY <1>3, <1>7, <2>1, <2>2, <2>3, AbsorbedBefore
<1> QED
  BY <1>3, <1>4, <1>5, <1>6, <1>7, <1>8 DEF Trip, u

-----------------------------------------------------------------------------
(***************************************************************************)
(* Sensitive fibres: the model is asked after a step that ends in a core.  *)
(***************************************************************************)
FibreOK(m, p) ==
  /\ Live(m.current, p) =>
       /\ SameDraw(m.current, p, m.processes)
       /\ m.current.time =< p.time
       /\ Straight(m.current, p, IF p.vol = "out" THEN - p.dir ELSE p.dir)
  /\ p.vol # "core" => reportsNext /\ (Live(m.current, p) => m.current.time < p.time)
  /\ p.vol = "out" => AtTurn(p)
  /\ Mine(m, p) => /\ m.fKill = FALSE
                   /\ reportsNext => TIR \notin {m.current.status, m.previous.status}

\* Before the model is asked about a step of status st.
FibreAsked(m, p, st) ==
  /\ Live(m.current, p) /\ st \in Reflections =>
       /\ SameDraw(m.current, p, m.processes)
       /\ m.current.time < p.time
       /\ \/ Straight(m.current, p, p.dir)
          \/ Straight(m.current, p, - p.dir) /\ AtTurn(p) /\ reportsNext
  /\ st \in Reflections \cup {"FresnelReflection"} /\ (reportsNext => st = "StepTooSmall")
  /\ Mine(m, p) => /\ m.fKill = FALSE
                   /\ reportsNext => TIR \notin {m.current.status, m.previous.status}

\* A step of length l that starts where the photon moves straight from d.
LEMMA StepOn ==
  ASSUME NEW p, PhotonOK(p), NEW q, NEW d, DataOK(d), NEW procs, NEW l \in Nat,
         Advanced(p, q, l, procs), SameDraw(d, p, procs), Straight(d, p, p.dir)
  PROVE  /\ SameDraw(d, q, procs) /\ Straight(d, q, p.dir)
         /\ q.time - d.time = (p.time - d.time) + l
<1>1. q.time - d.time = (p.time - d.time) + l
  BY DEF Advanced, DataOK, PhotonOK
<1>2. SameDraw(d, q, procs)
  BY <1>1 DEF SameDraw, Advanced, DataOK, PhotonOK
<1>3. Straight(d, q, p.dir)
  BY <1>1, FiberAssumption DEF Straight, Along, Advanced, DataOK, PhotonOK
<1> QED
  BY <1>1, <1>2, <1>3

LEMMA FibreStepOn ==
  ASSUME ModelOK(model), NEW p, PhotonOK(p), FibreOK(model, p), reportsNext \in BOOLEAN,
         NEW q, NEW st, GoesOn(p, q, st)
  PROVE  IF q.vol = "core" THEN FibreAsked(model, q, st) ELSE FibreOK(model, q)
<1> DEFINE d == model.current
<1>1. DataOK(d) /\ q.id = p.id /\ (Live(d, p) <=> Live(d, q)) /\ (Mine(model, p) <=> Mine(model, q))
  BY DEF ModelOK, GoesOn, Kept, Live, Mine
<1>2. ToEnd(p) \in Nat /\ ToEnd(p) > 0 /\ p.part \in Nat /\ p.part > 0
  BY FiberAssumption DEF PhotonOK, ToEnd
<1>3. CASE Reflected(p, q, st)
  <2>1. Live(d, q) => /\ SameDraw(d, q, model.processes) /\ Straight(d, q, q.dir)
                      /\ d.time < q.time
    <3> SUFFICES ASSUME Live(d, p)
                 PROVE  /\ SameDraw(d, q, model.processes) /\ Straight(d, q, q.dir)
                        /\ d.time < q.time
      BY <1>1
    <3>1. SameDraw(d, p, model.processes) /\ Straight(d, p, p.dir) /\ d.time =< p.time
      BY <1>3 DEF FibreOK, Reflected
    <3>2. /\ SameDraw(d, q, model.processes) /\ Straight(d, q, p.dir)
          /\ q.time - d.time = (p.time - d.time) + p.part
      BY <1>1, <1>2, <1>3, <3>1, StepOn DEF Reflected
    <3> QED
      BY <1>1, <1>2, <1>3, <3>1, <3>2 DEF Reflected, PhotonOK, DataOK, GoesOn
  <2>2. q.vol = IF reportsNext THEN "clad" ELSE "core"
    BY <1>3 DEF Reflected, AtSurface
  <2> QED
    BY <1>1, <1>3, <2>1, <2>2 DEF FibreOK, FibreAsked, Reflected, PhotonOK, DataOK, GoesOn
<1>4. CASE TurnedBack(p, q, st)
  <2>1. Live(d, q) => /\ SameDraw(d, q, model.processes) /\ Straight(d, q, - q.dir)
                      /\ d.time < q.time
    <3> SUFFICES ASSUME Live(d, p)
                 PROVE  /\ SameDraw(d, q, model.processes) /\ Straight(d, q, - q.dir)
                        /\ d.time < q.time
      BY <1>1
    <3>1. SameDraw(d, p, model.processes) /\ Straight(d, p, p.dir) /\ d.time =< p.time
      BY <1>4 DEF FibreOK, TurnedBack
    <3>2. /\ SameDraw(d, q, model.processes) /\ Straight(d, q, p.dir)
          /\ q.time - d.time = (p.time - d.time) + ToEnd(p)
      BY <1>1, <1>2, <1>4, <3>1, StepOn DEF TurnedBack
    <3>3. - q.dir = p.dir
      BY <1>4 DEF TurnedBack, PhotonOK
    <3> QED
      BY <1>1, <1>2, <1>4, <3>1, <3>2, <3>3 DEF PhotonOK, DataOK, GoesOn
  <2>2. q.vol = (IF reportsNext THEN "out" ELSE "core") /\ st = "FresnelReflection"
    BY <1>4 DEF TurnedBack, AtSurface
  <2>3. AtTurn(q)
    BY <1>4, FiberAssumption DEF AtTurn, TurnedBack, Advanced, ToEnd, PhotonOK
  <2> QED
    BY <1>1, <2>1, <2>2, <2>3 DEF FibreOK, FibreAsked, PhotonOK, DataOK, GoesOn, Reflections, TIR
<1>5. CASE Returned(p, q, st)
  <2>1. q.vol = "core" /\ st = "StepTooSmall" /\ reportsNext
    BY <1>5 DEF Returned, FibreOK
  <2>2. Live(d, q) => SameDraw(d, q, model.processes) /\ d.time < q.time
    BY <1>1, <1>5 DEF Returned, FibreOK, SameDraw
  <2>3. Live(d, q) => \/ Straight(d, q, q.dir)
                      \/ Straight(d, q, - q.dir) /\ AtTurn(q)
    BY <1>1, <1>5 DEF Returned, FibreOK, Straight, AtTurn
  <2> QED
    BY <1>1, <2>1, <2>2, <2>3 DEF FibreOK, FibreAsked, Reflections
<1> QED
  BY <1>3, <1>4, <1>5 DEF GoesOn

\* What the model becomes when it is asked about a track of another photon.
LEMMA OnTrackOutcome ==
  ASSUME NEW m0, ModelOK(m0), NEW p, NEW m, m = OnTrack(m0, p.id)
  PROVE  /\ ModelOK(m) /\ m.processes = m0.processes
         /\ m.current.trackID = m0.current.trackID
         /\ Mine(m0, p) => m = m0
         /\ ~ Mine(m0, p) => ResetTo(m0, m)
BY ResetOutcome DEF OnTrack, ResetTo, Mine

\* A fresh candidate is where the photon is.
LEMMA CandidateIsHere ==
  ASSUME NEW m, NEW p, PhotonOK(p), DrawOK(p, m.processes), NEW st, NEW t, t = View(p, st),
         NEW r, Pushed(m, t, r)
  PROVE  /\ SameDraw(r.current, p, r.processes) /\ r.current.time = p.time
         /\ Straight(r.current, p, p.dir) /\ r.current.interval = 0
         /\ r.current.status = st /\ r.current.trackID = p.id /\ r.current.dir = p.dir
<1>1. /\ r.current.absNILL = p.absNILL /\ r.current.wlsNILL = p.wlsNILL
      /\ r.current.time = p.time /\ r.current.z = p.z /\ r.current.interval = 0
      /\ r.current.status = st /\ r.current.trackID = p.id /\ r.current.dir = p.dir
      /\ r.processes = m.processes
  BY DEF Pushed, Candidate, View
<1>2. p.time - p.time = 0 /\ p.absNILL - p.absNILL = 0 /\ p.wlsNILL - p.wlsNILL = 0
  BY DEF PhotonOK
<1>3. Along(p.dir, 0) = 0
  BY DEF Along
<1>4. p.z + 0 = p.z
  BY FiberAssumption DEF PhotonOK
<1> QED
  BY <1>1, <1>2, <1>3, <1>4 DEF SameDraw, DrawOK, Straight

\* A repetition is of reflections of the photon itself.
LEMMA RepetitionIsLive ==
  ASSUME NEW m, ModelOK(m), NEW p, PhotonOK(p), NEW st, NEW t, t = View(p, st),
         IsCandidate(Accumulated(m, t), t), Repetitive(Accumulated(m, t), t)
  PROVE  /\ st \in Reflections /\ Mine(m, p) /\ Live(m.current, p) /\ Live(m.previous, p)
         /\ Accumulated(m, t).current.status = m.current.status
         /\ m.previous.interval = m.current.interval + p.length
<1>1. t.length \in Nat /\ t.id = p.id /\ t.status = st /\ t.length = p.length
  BY DEF View, PhotonOK
<1>2. /\ Accumulated(m, t).previous = m.previous
      /\ Accumulated(m, t).current.trackID = m.current.trackID
      /\ Accumulated(m, t).current.interval = m.current.interval + t.length
      /\ Accumulated(m, t).current.status = IF t.status = "FresnelReflection" THEN t.status
                                            ELSE m.current.status
  BY <1>1, AccumulatedFields
<1>3. st \in Reflections
  BY <1>1 DEF IsCandidate, Reflections
<1>4. st # "FresnelReflection"
  BY <1>3 DEF Reflections, TIR
<1>5. Candidate(t).trackID = p.id /\ Candidate(t).status = st
  BY <1>1 DEF Candidate
<1> QED
  BY <1>1, <1>2, <1>3, <1>4, <1>5
     DEF Repetitive, SameReflection, checkRepetitive, Mine, Live

LEMMA FibreAnswer ==
  ASSUME NEW m0, ModelOK(m0), m0.fTransported = FALSE, NEW p, PhotonOK(p), p.vol = "core",
         DrawOK(p, m0.processes), NEW st, FibreAsked(m0, p, st), reportsNext \in BOOLEAN,
         NEW c, c = check_trigger(OnTrack(m0, p.id), View(p, st))
  PROVE  /\ ModelOK(c.model) /\ c.model.fTransported = FALSE
         /\ c.model.processes = m0.processes
         /\ c.model.current.trackID \in {m0.current.trackID, p.id}
         /\ \/ c.answer = TRUE /\ Trip(c.model, p)
            \/ c.answer = FALSE /\ FibreOK(c.model, p)
<1> DEFINE m == OnTrack(m0, p.id)
           t == View(p, st)
           a == Accumulated(m, t)
<1>0. /\ ModelOK(m) /\ m.processes = m0.processes
      /\ m.current.trackID = m0.current.trackID
      /\ Mine(m0, p) => m = m0
      /\ ~ Mine(m0, p) => ResetTo(m0, m)
  BY OnTrackOutcome
<1>1. /\ ModelOK(m) /\ m.processes = m0.processes /\ m.fTransported = FALSE
      /\ m.current.trackID = m0.current.trackID
      /\ Mine(m0, p) => m = m0
      /\ ~ Mine(m0, p) => ResetTo(m0, m)
  BY <1>0 DEF ResetTo
<1>2. t.length \in Nat /\ t.status = st /\ t.id = p.id
  BY DEF View, PhotonOK
<1>3. m.fKill = FALSE \/ ~ Mine(m, p)
  BY <1>1 DEF FibreAsked, Mine
<1> HIDE DEF m
<1>4. /\ ModelOK(a) /\ a.previous = m.previous /\ a.processes = m.processes
      /\ a.fKill = m.fKill /\ a.fTransported = m.fTransported
      /\ a.current.trackID = m.current.trackID /\ a.current.time = m.current.time
      /\ a.current.z = m.current.z /\ a.current.absNILL = m.current.absNILL
      /\ a.current.wlsNILL = m.current.wlsNILL
      /\ a.current.status = IF st = "FresnelReflection" THEN st ELSE m.current.status
  BY <1>1, <1>2, AccumulatedFields
<1>5. ~ Mine(m0, p) => m.fKill = FALSE /\ m.current.status = "Undefined"
                       /\ m.previous.status = "Undefined"
  BY <1>1 DEF ResetTo
<1>6. m.fKill = FALSE /\ (reportsNext => TIR \notin {m.current.status, m.previous.status})
  BY <1>1, <1>5 DEF FibreAsked, TIR
<1>7. st \in Reflections /\ Live(m.current, p) => Mine(m0, p) /\ m = m0
  BY <1>1 DEF Live, Mine
<1> HIDE DEF t, a
<1>8. CASE c.answer = FALSE /\ ~ IsCandidate(a, t) /\ c.model = a
  <2>1. ASSUME Live(a.current, p)
        PROVE  /\ SameDraw(a.current, p, a.processes) /\ a.current.time =< p.time
               /\ Straight(a.current, p, p.dir)
    <3>1. st \in Reflections /\ Live(m.current, p)
      BY <1>4, <2>1 DEF Live, FibreAsked, Reflections, TIR
    <3>2. /\ SameDraw(m.current, p, m.processes) /\ m.current.time < p.time
          /\ \/ Straight(m.current, p, p.dir)
             \/ Straight(m.current, p, - p.dir) /\ reportsNext
      BY <1>1, <1>7, <3>1 DEF FibreAsked
    <3>3. ~ reportsNext
      BY <1>2, <1>4, <1>6, <1>8, <3>1 DEF FibreAsked, IsCandidate, Reflections, TIR
    <3> QED
      BY <1>1, <1>4, <3>2, <3>3 DEF SameDraw, DrawOK, Straight, ModelOK, DataOK, PhotonOK
  <2>2. reportsNext => TIR \notin {a.current.status, a.previous.status}
    BY <1>4, <1>6 DEF TIR
  <2> QED
    BY <1>1, <1>4, <1>6, <1>8, <2>1, <2>2 DEF FibreOK, Mine
<1>9. CASE c.answer = FALSE /\ IsCandidate(a, t) /\ Pushed(m, t, c.model) /\ c.model.fKill = m.fKill
  <2>1. /\ SameDraw(c.model.current, p, c.model.processes) /\ c.model.current.time = p.time
        /\ Straight(c.model.current, p, p.dir) /\ c.model.current.status = st
        /\ c.model.current.trackID = p.id
    BY <1>1, <1>9, CandidateIsHere DEF t
  <2>2. c.model.previous = a.current
    BY <1>9 DEF Pushed, a
  <2>3. reportsNext => TIR \notin {c.model.current.status, c.model.previous.status}
    BY <1>4, <1>6, <2>1, <2>2 DEF FibreAsked, TIR
  <2>4. ModelOK(c.model) /\ c.model.fTransported = FALSE /\ c.model.processes = m0.processes
    BY <1>1, <1>9 DEF Pushed
  <2>5. FibreOK(c.model, p)
    BY <1>6, <1>9, <2>1, <2>3 DEF FibreOK, PhotonOK
  <2> QED
    BY <1>9, <2>1, <2>4, <2>5
<1>10. CASE c.answer = TRUE /\ Answered(m, t, c.model)
  <2>1. /\ st \in Reflections /\ Live(m.current, p) /\ a.current.status = m.current.status
    BY <1>1, <1>10, RepetitionIsLive DEF Answered, t, a
  <2>2. /\ SameDraw(m.current, p, m.processes) /\ m.current.time < p.time
        /\ \/ Straight(m.current, p, p.dir)
           \/ Straight(m.current, p, - p.dir) /\ AtTurn(p)
    BY <1>1, <1>7, <2>1 DEF FibreAsked
  <2>3. /\ SameDraw(a.current, p, m.processes) /\ a.current.time < p.time
        /\ \/ Straight(a.current, p, p.dir)
           \/ Straight(a.current, p, - p.dir) /\ AtTurn(p)
    BY <1>4, <2>2 DEF SameDraw, DrawOK, Straight
  <2>4. PICK h \in {-1, 1} : Straight(a.current, p, h) /\ (h = p.dir \/ AtTurn(p))
    BY <2>3 DEF PhotonOK
  <2>5. Trip(c.model, p)
    BY <1>1, <1>6, <1>10, <2>3, <2>4, AnswerTrip DEF t, a
  <2>6. /\ ModelOK(c.model) /\ c.model.fTransported = FALSE /\ c.model.processes = m0.processes
        /\ c.model.current.trackID = p.id
    BY <1>1, <1>2, <1>10 DEF Answered, Pushed, Candidate
  <2> QED
    BY <1>10, <2>5, <2>6
<1> QED
  BY <1>1, <1>8, <1>9, <1>10, TriggerOutcome DEF m, t, a

-----------------------------------------------------------------------------
(***************************************************************************)
(* Sensitive wafers: the fast simulation asks the model before a step,     *)
(* with the status st of the one before.                                   *)
(***************************************************************************)
\* What the model keeps of a transported photon: its hop, measured while it
\* moved in the direction dir.
TransportedOK(m, p, dir) ==
  LET u == m.current.time - m.previous.time IN
  /\ m.current.dir = dir /\ u >= p.hop
  /\ DrawOK(m.current, m.processes) /\ DrawOK(m.previous, m.processes)
  /\ "abs" \in m.processes => m.previous.absNILL - m.current.absNILL = u
  /\ "wls" \in m.processes => m.previous.wlsNILL - m.current.wlsNILL = u

\* Between two reflections of the photon lies a hop at least, unless the model
\* was asked twice in one place; never three times.
HopsOK(m, p) ==
  /\ m.previous.interval = m.current.time - m.previous.time
  /\ m.current.time = p.time => p.part = p.hop
  /\ m.current.time < p.time => p.time - m.current.time >= p.hop

WaferOK(m, p, st) ==
  /\ p.vol # "core" => p.length > 0
  /\ p.vol = "clad" => p.part = p.hop
  /\ p.vol = "out" => st = "FresnelReflection"
  /\ Live(m.current, p) /\ ~ m.fTransported /\ st # "FresnelReflection" =>
       /\ SameDraw(m.current, p, m.processes) /\ Straight(m.current, p, p.dir)
       /\ m.current.interval + p.length = p.time - m.current.time
       /\ st \in Reflections => p.part = p.hop
       /\ Live(m.previous, p) => HopsOK(m, p) /\ m.previous.time < p.time
  /\ Mine(m, p) /\ m.fTransported =>
       TransportedOK(m, p, IF st = "FresnelReflection" THEN - p.dir ELSE p.dir)
  /\ Mine(m, p) => m.fKill = FALSE

\* After the model let Geant4 do the step.
WaferAsked(m, p) ==
  /\ p.vol = "clad" => p.part = p.hop
  /\ Live(m.current, p) /\ ~ m.fTransported =>
       /\ SameDraw(m.current, p, m.processes) /\ Straight(m.current, p, p.dir)
       /\ m.current.interval = p.time - m.current.time
       /\ p.vol # "out"
       /\ Live(m.previous, p) => /\ HopsOK(m, p) /\ m.previous.time =< p.time
                                 /\ p.vol # "core" => m.previous.time < p.time
  /\ Mine(m, p) /\ m.fTransported => TransportedOK(m, p, p.dir) /\ p.vol # "out"
  /\ Mine(m, p) => m.fKill = FALSE

LEMMA WaferStepOn ==
  ASSUME NEW m, ModelOK(m), m.processes = model.processes,
         NEW p, PhotonOK(p), WaferAsked(m, p), NEW q, NEW st, GoesOn(p, q, st)
  PROVE  WaferOK(m, q, st)
<1> DEFINE d == m.current
           e == m.previous
<1>1. /\ DataOK(d) /\ DataOK(e) /\ q.id = p.id /\ q.hop = p.hop
      /\ (Live(d, p) <=> Live(d, q)) /\ (Live(e, p) <=> Live(e, q))
      /\ (Mine(m, p) <=> Mine(m, q))
  BY DEF ModelOK, GoesOn, Kept, Live, Mine
<1>2. /\ ToEnd(p) \in Nat /\ ToEnd(p) > 0 /\ p.part \in Nat /\ p.part > 0
      /\ p.time \in Nat /\ d.time \in Int /\ e.time \in Int /\ p.hop \in Nat
      /\ d.interval \in Nat
  BY <1>1, FiberAssumption DEF PhotonOK, ToEnd, DataOK
<1>3. CASE Reflected(p, q, st)
  <2>1. /\ q.dir = p.dir /\ q.part = q.hop /\ q.length > 0 /\ q.vol # "out"
        /\ st # "FresnelReflection" /\ q.length = p.part /\ q.time = p.time + p.part
    BY <1>1, <1>2, <1>3 DEF Reflected, Advanced, AtSurface, Reflections, TIR
  <2>2. ASSUME Live(d, q), ~ m.fTransported
        PROVE  /\ SameDraw(d, q, m.processes) /\ Straight(d, q, q.dir)
               /\ d.interval + q.length = q.time - d.time
    <3>1. /\ SameDraw(d, p, m.processes) /\ Straight(d, p, p.dir)
          /\ d.interval = p.time - d.time
      BY <1>1, <2>2 DEF WaferAsked
    <3>2. /\ SameDraw(d, q, m.processes) /\ Straight(d, q, p.dir)
          /\ q.time - d.time = (p.time - d.time) + p.part
      BY <1>1, <1>2, <1>3, <3>1, StepOn DEF Reflected
    <3> QED
      BY <1>2, <2>1, <3>1, <3>2
  <2>3. ASSUME Live(d, q), Live(e, q), ~ m.fTransported
        PROVE  HopsOK(m, q) /\ e.time < q.time
    <3>1. HopsOK(m, p) /\ e.time =< p.time /\ d.interval = p.time - d.time
      BY <1>1, <2>3 DEF WaferAsked
    <3>2. q.time - d.time >= q.hop /\ d.time # q.time
      BY <1>1, <1>2, <2>1, <3>1 DEF HopsOK
    <3> QED
      BY <1>1, <1>2, <2>1, <3>1, <3>2 DEF HopsOK
  <2>4. Mine(m, q) /\ m.fTransported => TransportedOK(m, q, q.dir)
    BY <1>1, <2>1 DEF WaferAsked, TransportedOK
  <2> QED
    BY <1>1, <2>1, <2>2, <2>3, <2>4 DEF WaferOK, WaferAsked
<1>4. CASE TurnedBack(p, q, st)
  <2>1. /\ - q.dir = p.dir /\ q.length > 0 /\ q.vol # "clad" /\ st = "FresnelReflection"
    BY <1>2, <1>4 DEF TurnedBack, Advanced, AtSurface, PhotonOK
  <2>2. Mine(m, q) /\ m.fTransported => TransportedOK(m, q, - q.dir)
    BY <1>1, <2>1 DEF WaferAsked, TransportedOK
  <2> QED
    BY <1>1, <2>1, <2>2 DEF WaferOK, WaferAsked
<1>5. CASE Returned(p, q, st)
  <2>1. /\ q.dir = p.dir /\ q.part = p.part /\ q.length = 0 /\ q.vol = "core"
        /\ st # "FresnelReflection" /\ q.time = p.time /\ q.z = p.z
        /\ q.absNILL = p.absNILL /\ q.wlsNILL = p.wlsNILL
        /\ p.vol # "core" /\ (p.vol = "clad" \/ p.vol = "out")
    BY <1>5 DEF Returned
  <2>2. ASSUME Live(d, q), ~ m.fTransported
        PROVE  /\ SameDraw(d, q, m.processes) /\ Straight(d, q, q.dir)
               /\ d.interval + q.length = q.time - d.time /\ q.part = q.hop
               /\ Live(e, q) => HopsOK(m, q) /\ e.time < q.time
    BY <1>1, <1>2, <2>1, <2>2 DEF WaferAsked, SameDraw, Straight, HopsOK
  <2>3. Mine(m, q) /\ m.fTransported => TransportedOK(m, q, q.dir)
    BY <1>1, <2>1 DEF WaferAsked, TransportedOK
  <2> QED
    BY <1>1, <2>1, <2>2, <2>3 DEF WaferOK, WaferAsked
<1> QED
  BY <1>3, <1>4, <1>5 DEF GoesOn

\* A photon that was moved is left to Geant4 until it turns.
LeftToGeant4(m, p, st, c) ==
  /\ ModelOK(c.model) /\ c.model.processes = m.processes
  /\ c.model.current.trackID = m.current.trackID
  /\ c.answer = FALSE /\ WaferAsked(c.model, p)
  /\ st # "FresnelReflection" => c.model = m

LEMMA WaferAfterTransport ==
  ASSUME NEW m, ModelOK(m), m.fTransported, NEW p, PhotonOK(p), NEW st, WaferOK(m, p, st),
         Mine(m, p), NEW c, c = check_trigger(m, View(p, st))
  PROVE  LeftToGeant4(m, p, st, c)
<1>1. c = [model |-> IF p.dir # m.current.dir THEN reset(m) ELSE m, answer |-> FALSE]
  BY DEF check_trigger, AfterTransport, NothingToDo, View
<1>2. m.current.dir = IF st = "FresnelReflection" THEN - p.dir ELSE p.dir
  BY DEF WaferOK, TransportedOK
<1>3. CASE st = "FresnelReflection"
  <2>1. ResetTo(m, c.model) /\ c.answer = FALSE
    BY <1>1, <1>2, <1>3, ResetOutcome DEF PhotonOK
  <2>2. ~ Live(c.model.current, p)
    BY <2>1 DEF ResetTo, Live, Reflections, TIR
  <2> QED
    BY <1>3, <2>1, <2>2 DEF ResetTo, WaferAsked, WaferOK, LeftToGeant4
<1>4. CASE st # "FresnelReflection"
  <2>1. c.model = m /\ c.answer = FALSE
    BY <1>1, <1>2, <1>4
  <2> QED
    BY <1>4, <2>1 DEF WaferAsked, WaferOK, LeftToGeant4
<1> QED
  BY <1>3, <1>4

WaferAnswered(m0, p, st, c) ==
  /\ ModelOK(c.model) /\ c.model.processes = m0.processes
  /\ c.model.fTransported = FALSE
  /\ c.model.current.trackID \in {m0.current.trackID, p.id}
  /\ \/ /\ c.answer = TRUE /\ Trip(c.model, p) /\ TransportedOK(c.model, p, p.dir)
        /\ Mine(c.model, p) /\ st # "FresnelReflection"
     \/ c.answer = FALSE /\ WaferAsked(c.model, p)

LEMMA WaferAnswer ==
  ASSUME NEW m0, ModelOK(m0), NEW p, PhotonOK(p), DrawOK(p, m0.processes), NEW st,
         WaferOK(m0, p, st), NEW m, m = OnTrack(m0, p.id), ~ m.fTransported,
         NEW c, c = check_trigger(m, View(p, st))
  PROVE  WaferAnswered(m0, p, st, c)
<1> DEFINE t == View(p, st)
           a == Accumulated(m, t)
<1>1. /\ ModelOK(m) /\ m.processes = m0.processes
      /\ m.current.trackID = m0.current.trackID
      /\ Mine(m0, p) => m = m0
      /\ ~ Mine(m0, p) => ResetTo(m0, m)
  BY OnTrackOutcome
<1>2. t.length \in Nat /\ t.status = st /\ t.id = p.id /\ t.length = p.length
  BY DEF View, PhotonOK
<1>3. Live(m.current, p) => Mine(m0, p) /\ m = m0
  BY <1>1 DEF Live, Mine
<1>4. m.fKill = FALSE /\ m.fTransported = FALSE
  BY <1>1 DEF ResetTo, WaferOK, ModelOK
<1> HIDE DEF t
<1>5. /\ ModelOK(a) /\ a.previous = m.previous /\ a.processes = m.processes
      /\ a.fKill = m.fKill
      /\ a.current.trackID = m.current.trackID /\ a.current.time = m.current.time
      /\ a.current.z = m.current.z /\ a.current.absNILL = m.current.absNILL
      /\ a.current.wlsNILL = m.current.wlsNILL
      /\ a.current.interval = m.current.interval + p.length
      /\ a.current.status = IF st = "FresnelReflection" THEN st ELSE m.current.status
  <2>1. ModelOK(a)
    BY <1>1, <1>2, AccumulatedFields
  <2>2. a.previous = m.previous /\ a.processes = m.processes
    BY <1>1, <1>2, AccumulatedFields
  <2>3. a.fKill = m.fKill
    BY <1>1, <1>2, AccumulatedFields
  <2>4. a.current.trackID = m.current.trackID /\ a.current.time = m.current.time
    BY <1>1, <1>2, AccumulatedFields
  <2>5. /\ a.current.z = m.current.z /\ a.current.absNILL = m.current.absNILL
      /\ a.current.wlsNILL = m.current.wlsNILL
    BY <1>1, <1>2, AccumulatedFields
  <2>6. a.current.interval = m.current.interval + p.length
    BY <1>1, <1>2, AccumulatedFields
  <2>7. a.current.status = IF st = "FresnelReflection" THEN st ELSE m.current.status
    BY <1>1, <1>2, AccumulatedFields
  <2> QED
    BY <2>1, <2>2, <2>3, <2>4, <2>5, <2>6, <2>7
<1>12. a.fTransported = FALSE
  BY <1>1, <1>2, <1>4, AccumulatedFields
<1> HIDE DEF a
<1>6. p.time \in Nat /\ p.length \in Nat /\ p.hop \in Nat /\ p.hop > 0
  BY DEF PhotonOK
<1>7. /\ m.current.time \in Int /\ m.previous.time \in Int
      /\ m.current.interval \in Nat /\ m.previous.interval \in Nat
  BY <1>1 DEF ModelOK, DataOK
<1>8. ASSUME Live(a.current, p)
      PROVE  /\ Live(m.current, p) /\ st # "FresnelReflection" /\ m = m0
             /\ SameDraw(a.current, p, m.processes) /\ Straight(a.current, p, p.dir)
             /\ a.current.interval = p.time - a.current.time
             /\ p.length > 0 => a.current.time < p.time
             /\ a.current.time =< p.time
  <2>1. st # "FresnelReflection" /\ Live(m.current, p)
    BY <1>5, <1>8 DEF Live, Reflections, TIR
  <2>2. /\ SameDraw(m.current, p, m.processes) /\ Straight(m.current, p, p.dir)
        /\ m.current.interval + p.length = p.time - m.current.time
    BY <1>3, <2>1 DEF WaferOK
  <2>3. SameDraw(a.current, p, m.processes) /\ Straight(a.current, p, p.dir)
    BY <1>5, <2>2 DEF SameDraw, DrawOK, Straight
  <2> QED
    BY <1>3, <1>5, <1>6, <1>7, <2>1, <2>2, <2>3
<1>9. CASE c.answer = FALSE /\ ~ IsCandidate(a, t) /\ c.model = a
  <2>1. ASSUME Live(a.current, p), Live(a.previous, p)
        PROVE  HopsOK(a, p) /\ a.previous.time < p.time
    <3>1. HopsOK(m, p) /\ m.previous.time < p.time
      BY <1>5, <1>8, <2>1 DEF WaferOK
    <3> QED
      BY <1>5, <3>1 DEF HopsOK
  <2>2. Live(a.current, p) => p.vol # "out"
    BY <1>8 DEF WaferOK
  <2> QED
    BY <1>1, <1>4, <1>5, <1>6, <1>7, <1>8, <1>9, <1>12, <2>1, <2>2 DEF WaferAsked, WaferOK, WaferAnswered
<1>10. CASE c.answer = FALSE /\ IsCandidate(a, t) /\ Pushed(m, t, c.model) /\ c.model.fKill = m.fKill
  <2>1. /\ SameDraw(c.model.current, p, c.model.processes) /\ c.model.current.time = p.time
        /\ Straight(c.model.current, p, p.dir) /\ c.model.current.interval = 0
        /\ c.model.current.trackID = p.id
    BY <1>1, <1>10, CandidateIsHere DEF t
  <2>2. /\ c.model.previous = a.current /\ ModelOK(c.model)
        /\ c.model.fTransported = FALSE /\ c.model.processes = m0.processes
    BY <1>1, <1>4, <1>10 DEF Pushed, a
  <2>3. st \in Reflections
    BY <1>2, <1>10 DEF IsCandidate, Reflections
  <2>4. p.vol # "out"
    BY <2>3 DEF WaferOK, Reflections, TIR
  <2>5. ASSUME Live(a.current, p)
        PROVE  /\ HopsOK(c.model, p) /\ a.current.time =< p.time
               /\ p.vol # "core" => a.current.time < p.time
    <3>1. p.part = p.hop
      BY <1>8, <2>3, <2>5 DEF WaferOK
    <3>2. p.vol # "core" => a.current.time < p.time
      BY <1>8, <2>5 DEF WaferOK
    <3>3. HopsOK(c.model, p)
      BY <1>5, <1>6, <1>7, <1>8, <2>1, <2>2, <2>5, <3>1 DEF HopsOK
    <3> QED
      BY <1>8, <2>5, <3>2, <3>3
  <2>6. p.vol = "clad" => p.part = p.hop
    BY DEF WaferOK
  <2>7. p.time - p.time = 0
    BY <1>6
  <2>8. WaferAsked(c.model, p)
    BY <1>4, <1>10, <2>1, <2>2, <2>4, <2>5, <2>6, <2>7 DEF WaferAsked
  <2> QED
    BY <1>10, <2>1, <2>2, <2>8 DEF WaferAnswered
<1>11. CASE c.answer = TRUE /\ Answered(m, t, c.model)
  <2>1. /\ st \in Reflections /\ Live(m.current, p) /\ Live(m.previous, p)
        /\ a.current.status = m.current.status
        /\ m.previous.interval = m.current.interval + p.length
    BY <1>1, <1>11, RepetitionIsLive DEF Answered, t, a
  <2>2. Live(a.current, p)
    BY <1>5, <2>1 DEF Live
  <2>3. HopsOK(m, p) /\ m.previous.time < p.time
    BY <1>8, <2>1, <2>2 DEF WaferOK
  <2>4. a.current.time < p.time /\ p.time - a.current.time >= p.hop
    BY <1>5, <1>6, <1>7, <1>8, <2>1, <2>2, <2>3 DEF HopsOK
  <2>5. Trip(c.model, p)
    <3>1. p.dir \in {-1, 1}
      BY DEF PhotonOK
    <3> QED
      BY <1>1, <1>4, <1>8, <1>11, <2>2, <2>4, <3>1, AnswerTrip DEF t, a
  <2>6. /\ ModelOK(c.model) /\ c.model.fTransported = FALSE /\ c.model.processes = m0.processes
        /\ c.model.previous = a.current /\ Pushed(m, t, c.model)
    BY <1>1, <1>4, <1>11 DEF Answered, Pushed, a
  <2>7. /\ c.model.current.trackID = p.id /\ c.model.current.dir = p.dir
        /\ c.model.current.time = p.time
        /\ c.model.current.absNILL = p.absNILL /\ c.model.current.wlsNILL = p.wlsNILL
    BY <2>6 DEF Pushed, Candidate, View, t
  <2>8. TransportedOK(c.model, p, p.dir)
    BY <1>1, <1>8, <2>2, <2>4, <2>6, <2>7 DEF TransportedOK, SameDraw, DrawOK
  <2>9. st # "FresnelReflection"
    BY <1>8, <2>2
  <2> QED
    BY <1>11, <2>5, <2>6, <2>7, <2>8, <2>9 DEF Mine, WaferAnswered
<1> QED
  BY <1>1, <1>4, <1>9, <1>10, <1>11, TriggerOutcome DEF t, a

-----------------------------------------------------------------------------
(***************************************************************************)
(* The inductive invariant: the photon followed, the model, and what the   *)
(* one holds of the other.                                                 *)
(***************************************************************************)
Known(id) == id = 0 \/ \E e \in 1 .. event : <<e, id>> \in tracked

Drawn(p) == DrawOK(p, model.processes) /\ p.absNILL =< NoLimit /\ p.wlsNILL =< NoLimit

EnvironmentOK ==
  /\ client \in {"fiber", "wafer"} /\ reportsNext \in BOOLEAN /\ event \in 1 .. MaxEvents
  /\ \A e, t : <<e, t>> \in tracked => e \in 1 .. event /\ t \in TrackIDs[e]
  /\ ModelOK(model) /\ Known(model.current.trackID)
  /\ InFlight => PhotonOK(photon) /\ Drawn(photon) /\ Uid \in tracked

ClientOK ==
  /\ client = "fiber" =>
       model.fTransported = FALSE /\ (InFlight => FibreOK(model, photon))
  /\ client = "wafer" => (InFlight => WaferOK(model, photon, status))

IInv == EnvironmentOK /\ ClientOK

LEMMA AskedOutcome ==
  ASSUME NEW p, PhotonOK(p), NEW q, q = Asked(p)
  PROVE  /\ PhotonOK(q)
         /\ q.id = p.id /\ q.fibre = p.fibre /\ q.hop = p.hop /\ q.from = p.from
         /\ q.out = p.out /\ q.vol = p.vol /\ q.z = p.z /\ q.dir = p.dir /\ q.time = p.time
         /\ q.part = p.part /\ q.length = p.length /\ q.absNILL = p.absNILL
         /\ q.wlsNILL = p.wlsNILL /\ q.turns = p.turns /\ q.stopped = p.stopped
         /\ ToEnd(q) = ToEnd(p)
<1>1. /\ DOMAIN q = PhotonFields
      /\ q.id = p.id /\ q.fibre = p.fibre /\ q.hop = p.hop /\ q.from = p.from
      /\ q.out = p.out /\ q.vol = p.vol /\ q.z = p.z /\ q.dir = p.dir /\ q.time = p.time
      /\ q.part = p.part /\ q.length = p.length /\ q.absNILL = p.absNILL
      /\ q.wlsNILL = p.wlsNILL /\ q.turns = p.turns /\ q.stopped = p.stopped
      /\ q.surface = p.surface /\ q.changes = p.changes
  BY DEF PhotonOK, PhotonFields, Asked
<1>2. ToEnd(q) = ToEnd(p)
  BY <1>1 DEF ToEnd
<1>3. PhotonOK(q)
  BY <1>1, <1>2 DEF PhotonOK
<1> QED
  BY <1>1, <1>2, <1>3

LEMMA AskedIsThePhoton ==
  ASSUME NEW p, PhotonOK(p), NEW m, NEW st
  PROVE  /\ FibreOK(m, p) => FibreOK(m, Asked(p))
         /\ WaferOK(m, p, st) => WaferOK(m, Asked(p), st)
         /\ \A procs : DrawOK(p, procs) => DrawOK(Asked(p), procs)
         /\ Mine(m, p) <=> Mine(m, Asked(p))
<1> DEFINE q == Asked(p)
<1>1. /\ q.id = p.id /\ q.hop = p.hop /\ q.vol = p.vol /\ q.z = p.z /\ q.dir = p.dir
      /\ q.time = p.time /\ q.part = p.part /\ q.length = p.length
      /\ q.absNILL = p.absNILL /\ q.wlsNILL = p.wlsNILL
  BY AskedOutcome
<1> HIDE DEF q
<1>2. FibreOK(m, p) => FibreOK(m, q)
  BY <1>1 DEF FibreOK, Live, Mine, SameDraw, Straight, AtTurn
<1>3. WaferOK(m, p, st) => WaferOK(m, q, st)
  BY <1>1 DEF WaferOK, Live, Mine, SameDraw, Straight, HopsOK, TransportedOK
<1>4. \A procs : DrawOK(p, procs) => DrawOK(q, procs)
  BY <1>1 DEF DrawOK
<1> QED
  BY <1>1, <1>2, <1>3, <1>4 DEF Mine, q

\* What the photon has left to its processes follows it.
LEMMA DrawGoesOn ==
  ASSUME ModelOK(model), NEW p, PhotonOK(p), NEW q, NEW st, GoesOn(p, q, st),
         Drawn(p)
  PROVE  Drawn(q)
<1>1. NoLimit \in Nat /\ ToEnd(p) \in Nat /\ ToEnd(p) > 0
  BY FiberAssumption DEF PhotonOK, ToEnd
<1>2. p.part \in Nat /\ p.part > 0 /\ p.absNILL \in Nat /\ p.wlsNILL \in Nat
  BY DEF PhotonOK
<1>3. ASSUME NEW l \in Nat, l > 0, Advanced(p, q, l, model.processes)
      PROVE  Drawn(q)
  BY <1>1, <1>2, <1>3 DEF Advanced, Drawn, DrawOK
<1> QED
  BY <1>1, <1>2, <1>3 DEF GoesOn, Reflected, TurnedBack, Returned, Drawn, DrawOK

(***************************************************************************)
(* A step where the fibres are sensitive.                                  *)
(***************************************************************************)
\* The photon is counted, or killed, where it is.
CountedAt(q) ==
  LET counts == ~ model'.fKill /\ model'.unit >= 0 IN
  /\ hits' = IF counts THEN WithPhoton(q.fibre, HitTime(model', q)) ELSE hits
  /\ counted' = IF counts THEN counted \cup {Counted(q, HitTime(model', q), model'.unit)}
                ELSE counted
  /\ killed' = IF model'.fKill THEN killed \cup {Killed(q)} ELSE killed

ModelKept ==
  /\ ModelOK(model') /\ model'.processes = model.processes
  /\ model'.current.trackID \in {model.current.trackID, photon.id}

FibreFlies ==
  \E q : /\ GoesOn(photon, q, status') /\ photon' \in {q, Asked(q)}
         /\ FibreOK(model', photon') /\ UNCHANGED <<hits, counted, killed>>

FibreAnswered ==
  \E q : /\ GoesOn(photon, q, status') /\ q.fibre \notin ScinFibres
         /\ Trip(model', q) /\ photon' = NoPhoton /\ CountedAt(q)

FibreGone == photon' = NoPhoton /\ UNCHANGED <<hits, counted, killed>>

LEMMA GoneRemains ==
  ASSUME NEW q, q.stopped = TRUE \/ q.vol = "gone"
  PROVE  Remaining(q) = NoPhoton
BY DEF Remaining

LEMMA FlyingRemains ==
  ASSUME NEW q, PhotonOK(q)
  PROVE  Remaining(q) = q /\ Remaining(Asked(q)) = Asked(q)
<1>1. \A r : PhotonOK(r) => Remaining(r) = r
  BY DEF Remaining, PhotonOK
<1> QED
  BY <1>1, AskedOutcome

LEMMA StoppedRemains ==
  ASSUME NEW p, NEW q, Kept(p, q)
  PROVE  /\ Remaining(StopAndKill(q)) = NoPhoton
         /\ Remaining(StopAndKill(Asked(q))) = NoPhoton
<1>1. StopAndKill(q).stopped = TRUE /\ StopAndKill(Asked(q)).stopped = TRUE
  BY DEF StopAndKill, Asked, Kept, PhotonFields
<1> QED
  BY <1>1, GoneRemains

LEMMA FibreAskedStopped ==
  ASSUME IInv, client = "fiber", InFlight, NEW q, NEW st, Kept(photon, q), q.stopped = TRUE,
         processCherenkov(q, st)
  PROVE  /\ ModelKept /\ model'.fTransported = FALSE /\ FibreGone
         /\ UNCHANGED <<scint, moved, wasted>>
<1> DEFINE m == OnTrack(model, q.id)
           c == check_trigger(m, View(q, st))
<1>1. ModelOK(model) /\ model.fTransported = FALSE
  BY DEF IInv, EnvironmentOK, ClientOK
<1>2. /\ ModelOK(m) /\ m.processes = model.processes
      /\ m.current.trackID = model.current.trackID
      /\ Mine(model, q) => m = model
      /\ ~ Mine(model, q) => ResetTo(model, m)
  BY <1>1, OnTrackOutcome
<1>3. m.fTransported = FALSE
  BY <1>1, <1>2 DEF ResetTo
<1> HIDE DEF m
<1>4. c.model = m /\ c.answer = FALSE
  BY <1>3 DEF check_trigger, checkTotalInternalReflection, View
<1> HIDE DEF c
<1>5. /\ model' = c.model /\ photon' = Remaining(Asked(q))
      /\ UNCHANGED <<hits, counted, killed, scint, moved, wasted>>
  BY <1>4 DEF processCherenkov, m, c
<1>6. Asked(q).stopped = TRUE
  BY DEF Asked, Kept, PhotonFields
<1> QED
  BY <1>2, <1>3, <1>4, <1>5, <1>6, GoneRemains DEF ModelKept, FibreGone

LEMMA FibreAskedFlying ==
  ASSUME IInv, client = "fiber", InFlight, NEW q, GoesOn(photon, q, status'), q.vol = "core",
         q.fibre \notin ScinFibres, processCherenkov(q, status')
  PROVE  /\ ModelKept /\ model'.fTransported = FALSE /\ (FibreFlies \/ FibreAnswered)
         /\ UNCHANGED <<scint, moved, wasted>>
<1> DEFINE c == check_trigger(OnTrack(model, q.id), View(q, status'))
<1>1. /\ ModelOK(model) /\ model.fTransported = FALSE /\ FibreOK(model, photon)
      /\ PhotonOK(photon) /\ Drawn(photon) /\ reportsNext \in BOOLEAN
  BY DEF IInv, EnvironmentOK, ClientOK
<1>2. FibreAsked(model, q, status')
  BY <1>1, FibreStepOn
<1>3. Drawn(q) /\ PhotonOK(q) /\ q.id = photon.id
  BY <1>1, DrawGoesOn DEF GoesOn, Kept
<1>4. /\ ModelOK(c.model) /\ c.model.fTransported = FALSE
      /\ c.model.processes = model.processes
      /\ c.model.current.trackID \in {model.current.trackID, q.id}
      /\ \/ c.answer = TRUE /\ Trip(c.model, q)
         \/ c.answer = FALSE /\ FibreOK(c.model, q)
  BY <1>1, <1>2, <1>3, FibreAnswer DEF Drawn
<1> HIDE DEF c
<1>5. model' = c.model /\ UNCHANGED <<scint, moved, wasted>>
  BY DEF processCherenkov, c
<1>6. ModelKept /\ model'.fTransported = FALSE
  BY <1>3, <1>4, <1>5 DEF ModelKept
<1>7. CASE c.answer = TRUE /\ Trip(c.model, q)
  <2>1. photon' = NoPhoton
    BY <1>7, StoppedRemains DEF processCherenkov, c, GoesOn
  <2>2. CountedAt(q)
    BY <1>5, <1>7 DEF processCherenkov, CountedAt, c
  <2> QED
    BY <1>5, <1>6, <1>7, <2>1, <2>2 DEF FibreAnswered
<1>8. CASE c.answer = FALSE /\ FibreOK(c.model, q)
  <2>1. photon' = Asked(q) /\ UNCHANGED <<hits, counted, killed>>
    BY <1>3, <1>8, FlyingRemains DEF processCherenkov, c
  <2>2. FibreOK(model', photon')
    BY <1>3, <1>5, <1>8, <2>1, AskedIsThePhoton
  <2> QED
    BY <1>5, <1>6, <2>1, <2>2 DEF FibreFlies
<1> QED
  BY <1>4, <1>7, <1>8

LEMMA FibreOutcome ==
  ASSUME IInv, FiberStep
  PROVE  /\ ModelKept /\ model'.fTransported = FALSE
         /\ FibreGone \/ FibreFlies \/ FibreAnswered
         /\ UNCHANGED <<client, reportsNext, event, tracked, moved, wasted>>
<1>1. /\ client = "fiber" /\ InFlight
      /\ UNCHANGED <<client, reportsNext, event, tracked, deposits>>
  BY DEF FiberStep
<1>2. PICK s \in StepsOf(photon) :
        status' = s.status /\ processFiber(s.photon, photon.vol, s.status)
  BY DEF FiberStep
<1>3. /\ ModelOK(model) /\ model.fTransported = FALSE /\ FibreOK(model, photon)
      /\ PhotonOK(photon) /\ Drawn(photon) /\ reportsNext \in BOOLEAN
  BY <1>1 DEF IInv, EnvironmentOK, ClientOK
<1> DEFINE q == s.photon
<1>4. ASSUME UNCHANGED <<plugin, history>>
      PROVE  /\ ModelKept /\ model'.fTransported = FALSE
             /\ UNCHANGED <<hits, counted, killed, moved, wasted>>
  BY <1>3, <1>4 DEF ModelKept, plugin, history
<1>5. CASE HasLeft(photon, q, status')
  <2> DEFINE r == IF KilledInCladding(q, photon.vol) THEN StopAndKill(q) ELSE q
  <2>1. r.vol = "gone"
    BY <1>5 DEF HasLeft, StopAndKill, Kept, PhotonFields
  <2> HIDE DEF r
  <2>2. photon' = Remaining(r) /\ UNCHANGED <<plugin, history>>
    BY <1>2, <2>1 DEF processFiber, r
  <2> QED
    BY <1>1, <1>4, <2>1, <2>2, GoneRemains DEF FibreGone
<1>6. CASE Ended(photon, q, status')
  <2>1. ~ KilledInCladding(q, photon.vol)
    BY <1>6 DEF Ended, KilledInCladding
  <2>2. CASE q.fibre \in ScinFibres
    <3>1. photon' = NoPhoton /\ UNCHANGED <<plugin, history>>
      BY <1>2, <1>6, <2>1, <2>2 DEF processFiber, Ended
    <3> QED
      BY <1>1, <1>4, <3>1 DEF FibreGone
  <2>3. CASE q.fibre \notin ScinFibres
    <3>1. processCherenkov(q, status')
      BY <1>2, <1>6, <2>1, <2>3 DEF processFiber, Ended
    <3> QED
      BY <1>1, <1>6, <3>1, FibreAskedStopped DEF Ended
  <2> QED
    BY <2>2, <2>3
<1>7. CASE GoesOn(photon, q, status')
  <2>1. ~ KilledInCladding(q, photon.vol)
    BY <1>7 DEF GoesOn, Reflected, TurnedBack, Returned, KilledInCladding
  <2>2. CASE q.vol # "core"
    <3>1. photon' = q /\ UNCHANGED <<plugin, history>>
      BY <1>2, <1>7, <2>1, <2>2, FlyingRemains DEF processFiber, GoesOn
    <3>2. FibreOK(model, q)
      BY <1>3, <1>7, <2>2, FibreStepOn
    <3>3. UNCHANGED model
      BY <3>1 DEF plugin
    <3>4. FibreFlies
      BY <1>4, <1>7, <3>1, <3>2, <3>3 DEF FibreFlies
    <3> QED
      BY <1>1, <1>4, <3>1, <3>4
  <2>3. CASE q.vol = "core" /\ q.fibre \in ScinFibres
    <3>1. photon' = NoPhoton /\ UNCHANGED <<plugin, history>>
      BY <1>2, <2>1, <2>3 DEF processFiber
    <3> QED
      BY <1>1, <1>4, <3>1 DEF FibreGone
  <2>4. CASE q.vol = "core" /\ q.fibre \notin ScinFibres
    <3>1. processCherenkov(q, status')
      BY <1>2, <2>1, <2>4 DEF processFiber
    <3> QED
      BY <1>1, <1>7, <2>4, <3>1, FibreAskedFlying
  <2> QED
    BY <2>2, <2>3, <2>4
<1> QED
  BY <1>2, <1>3, <1>5, <1>6, <1>7, StepOutcome

(***************************************************************************)
(* A step where the wafers are sensitive.                                  *)
(***************************************************************************)
LEMMA RedrawnOutcome ==
  ASSUME ModelOK(model), NEW p, DOMAIN p = PhotonFields, NEW n \in NILLs,
         NEW q, q = Redrawn(p, n),
         p.absNILL \in Nat, p.wlsNILL \in Nat, Drawn(p)
  PROVE  /\ Kept(p, q) /\ Drawn(q) /\ q.absNILL \in Nat /\ q.wlsNILL \in Nat
         /\ q.vol = p.vol /\ q.z = p.z /\ q.dir = p.dir /\ q.time = p.time /\ q.part = p.part
         /\ q.length = p.length /\ q.turns = p.turns /\ q.stopped = p.stopped
         /\ q.surface = p.surface /\ q.changes = p.changes
<1>1. /\ Kept(p, q)
      /\ q.vol = p.vol /\ q.z = p.z /\ q.dir = p.dir /\ q.time = p.time /\ q.part = p.part
      /\ q.length = p.length /\ q.turns = p.turns /\ q.stopped = p.stopped
      /\ q.surface = p.surface /\ q.changes = p.changes
      /\ q.absNILL = (IF "abs" \in model.processes THEN n ELSE p.absNILL)
      /\ q.wlsNILL = (IF "wls" \in model.processes THEN n ELSE p.wlsNILL)
  BY DEF Redrawn, Kept, PhotonFields
<1>2. n \in Nat /\ n < NoLimit /\ n # NoLimit /\ NoLimit \in Nat
  BY PhotonsAssumption, FiberAssumption
<1>3. Drawn(q) /\ q.absNILL \in Nat /\ q.wlsNILL \in Nat
  BY <1>1, <1>2 DEF Drawn, DrawOK
<1> QED
  BY <1>1, <1>3

\* Hops are spared, the safety margin is not.
LEMMA MovedOutcome ==
  ASSUME ModelOK(model), NEW p, PhotonOK(p), Drawn(p), NEW m, Trip(m, p),
         NEW n \in NILLs, NEW r, r = Moved(m, p), NEW q, q = Redrawn(r, n),
         NEW u, u = m.current.time - m.previous.time
  PROVE  /\ Kept(p, q) /\ PhotonOK(q) /\ Drawn(q)
         /\ q.z = (IF p.dir = 1 THEN p.z + u * m.nTransport ELSE p.z - u * m.nTransport)
         /\ q.time = p.time + u * m.nTransport
         /\ q.dir = p.dir /\ q.turns = p.turns /\ q.part = p.hop /\ q.vol = "core"
         /\ ToEnd(r) >= Safety * u /\ r.dir = p.dir /\ r.turns = p.turns
<1>1. /\ u \in Nat /\ u > 0 /\ m.unit = Along(p.dir, u) /\ m.nTransport \in Nat
      /\ u * (m.nTransport + Safety) =< ToEnd(p)
  BY DEF Trip
<1>2. Safety \in Nat /\ Safety > 0 /\ FiberLen \in Nat
  BY FiberAssumption
<1> DEFINE w == u * m.nTransport
<1>3. w \in Nat /\ u * (m.nTransport + Safety) = w + Safety * u
  BY <1>1, <1>2
<1>4. Safety * u >= u
  BY <1>1, <1>2
<1>5. u * m.nTransport = w
  OBVIOUS
<1>6. m.unit * m.nTransport = Along(p.dir, w)
  BY <1>1, <1>2 DEF Along
<1> HIDE DEF w
<1>7. /\ DOMAIN r = PhotonFields /\ Kept(p, r) /\ r.z = p.z + m.unit * m.nTransport
      /\ r.time = p.time + w /\ r.part = p.hop /\ r.vol = "core"
      /\ r.dir = p.dir /\ r.turns = p.turns /\ r.length = p.length /\ r.stopped = p.stopped
      /\ r.absNILL = p.absNILL /\ r.wlsNILL = p.wlsNILL
      /\ r.surface = p.surface /\ r.changes = p.changes
  BY <1>5 DEF Moved, Kept, PhotonOK, PhotonFields
<1>8. p.z \in 0 .. FiberLen /\ p.dir \in {-1, 1} /\ p.hop \in Nat \ {0} /\ p.time \in Nat
  BY DEF PhotonOK
<1>9. r.z = IF p.dir = 1 THEN p.z + w ELSE p.z - w
  BY <1>2, <1>3, <1>6, <1>7, <1>8 DEF Along
<1>10. ToEnd(r) = ToEnd(p) - w /\ ToEnd(p) \in Nat
  BY <1>2, <1>3, <1>7, <1>8, <1>9 DEF ToEnd
<1>11. Safety * u \in Nat /\ w + Safety * u =< ToEnd(p)
  BY <1>1, <1>2, <1>3
<1>12. ToEnd(r) >= Safety * u /\ ToEnd(r) > 0
  BY <1>1, <1>3, <1>4, <1>10, <1>11
<1>13. r.z \in 0 .. FiberLen
  BY <1>2, <1>3, <1>7, <1>8, <1>9, <1>12 DEF ToEnd
<1>14. Drawn(r) /\ r.absNILL \in Nat /\ r.wlsNILL \in Nat
  BY <1>7 DEF Drawn, DrawOK, PhotonOK
<1>15. /\ Kept(r, q) /\ Drawn(q) /\ q.absNILL \in Nat /\ q.wlsNILL \in Nat
       /\ q.vol = r.vol /\ q.z = r.z /\ q.dir = r.dir /\ q.time = r.time /\ q.part = r.part
       /\ q.length = r.length /\ q.turns = r.turns /\ q.stopped = r.stopped
       /\ q.surface = r.surface /\ q.changes = r.changes
  BY <1>7, <1>14, RedrawnOutcome
<1>16. ToEnd(q) = ToEnd(r)
  BY <1>15 DEF ToEnd
<1>17. q.part \in 1 .. q.hop /\ q.time \in Nat
  BY <1>3, <1>7, <1>8, <1>15 DEF Kept
<1>18. PhotonOK(q)
  BY <1>7, <1>12, <1>13, <1>15, <1>16, <1>17 DEF PhotonOK, Kept
<1> QED
  BY <1>5, <1>7, <1>9, <1>12, <1>15, <1>18 DEF Kept

\* A photon that passed the check of its lengths is not absorbed in its next
\* hop.
LEMMA NotAbsorbed ==
  ASSUME ModelOK(model), NEW p, PhotonOK(p), Drawn(p), NEW dir, TransportedOK(model, p, dir),
         model.fTransported, NEW v, v.absNILL = p.absNILL, v.wlsNILL = p.wlsNILL,
         checkNILL(model, v), NEW l \in 0 .. p.part
  PROVE  Survives(p, l)
<1> DEFINE u == model.current.time - model.previous.time
<1>1. /\ u \in Int /\ p.part =< p.hop /\ p.hop \in Nat /\ p.hop > 0 /\ p.part \in Nat
      /\ p.absNILL \in Nat /\ p.wlsNILL \in Nat
  BY DEF ModelOK, DataOK, PhotonOK
<1>2. u >= p.hop /\ Safety \in Nat /\ Safety > 0
  BY FiberAssumption DEF TransportedOK
<1>3. u * Safety >= u /\ u * Safety \in Int
  BY <1>1, <1>2
<1>4. ~ Reinitialized(model)
  BY DEF Reinitialized, TransportedOK, DrawOK
<1>5. FinalAbs(model, v) >= 0 /\ FinalWLS(model, v) >= 0
  BY <1>1, <1>4 DEF checkNILL
<1>6. "abs" \in model.processes => p.absNILL - u * Safety >= 0
  BY <1>5 DEF FinalAbs, TransportedOK
<1>7. "wls" \in model.processes => p.wlsNILL - u * Safety >= 0
  BY <1>5 DEF FinalWLS, TransportedOK
<1> HIDE DEF u
<1>8. /\ "abs" \in model.processes => p.absNILL - l >= 0
      /\ "wls" \in model.processes => p.wlsNILL - l >= 0
  BY <1>1, <1>2, <1>3, <1>6, <1>7
<1>9. /\ Spent(p, l).absNILL = (IF "abs" \in model.processes THEN p.absNILL - l ELSE p.absNILL)
      /\ Spent(p, l).wlsNILL = (IF "wls" \in model.processes THEN p.wlsNILL - l ELSE p.wlsNILL)
  BY <1>1, SpentFields DEF Advanced
<1> QED
  BY <1>1, <1>8, <1>9 DEF Survives

WaferGone == photon' = NoPhoton /\ UNCHANGED <<killed, moved, wasted>>

WaferFlies ==
  \E q : /\ GoesOn(Asked(photon), q, status') /\ photon' = q /\ WaferOK(model', q, status')
         /\ Mine(model, photon) /\ model.fTransported /\ status # "FresnelReflection" =>
              model' = model
         /\ UNCHANGED <<killed, moved, wasted>>

WaferKilled ==
  /\ Trip(model', Asked(photon)) /\ model'.fKill /\ photon' = NoPhoton
  /\ killed' = killed \cup {Killed(Asked(photon))}
  /\ UNCHANGED <<moved, wasted>>

WaferMoved ==
  \E m : \E n \in NILLs :
    /\ Trip(m, Asked(photon)) /\ TransportedOK(m, photon, photon.dir) /\ ModelOK(m)
    /\ Mine(m, photon) /\ m.fKill = FALSE /\ status # "FresnelReflection"
    /\ model' = Transported(m) /\ photon' = Redrawn(Moved(m, Asked(photon)), n)
    /\ moved' = moved \cup {MovedBy(m, Moved(m, Asked(photon)))}
    /\ ~ (Mine(model, photon) /\ model.fTransported)
    /\ UNCHANGED <<status, killed, wasted>>

WaferRedrawn ==
  \E n \in NILLs :
    /\ Mine(model, photon) /\ model.fTransported /\ model' = model
    /\ photon' = Redrawn(Asked(photon), n)
    /\ UNCHANGED <<status, killed, moved, wasted>>

\* Geant4's own step: a photon that is absorbed was not moved.
LEMMA WaferTracked ==
  ASSUME IInv, client = "wafer", InFlight, NEW m, ModelOK(m), m.processes = model.processes,
         WaferAsked(m, Asked(photon)),
         m.fTransported => /\ m = model /\ Mine(model, photon)
                           /\ checkNILL(model, View(photon, status)),
         Mine(model, photon) /\ model.fTransported /\ status # "FresnelReflection" => m = model,
         TrackingStep(m, Asked(photon))
  PROVE  model' = m /\ (WaferGone \/ WaferFlies)
<1> DEFINE p == Asked(photon)
<1>1. ModelOK(model) /\ PhotonOK(photon) /\ Drawn(photon)
  BY DEF IInv, EnvironmentOK
<1>2. /\ PhotonOK(p) /\ Drawn(p) /\ p.absNILL = photon.absNILL /\ p.wlsNILL = photon.wlsNILL
      /\ (Mine(model, p) <=> Mine(model, photon))
  BY <1>1, AskedOutcome DEF Drawn, DrawOK, Mine
<1> HIDE DEF p
<1>3. PICK s \in StepsOf(p) :
        /\ model' = m /\ photon' = Remaining(s.photon) /\ status' = s.status
        /\ wasted' = IF s.photon.stopped /\ m.fTransported THEN wasted \cup {Uid} ELSE wasted
        /\ UNCHANGED <<killed, moved>>
  BY DEF TrackingStep, p
<1>4. CASE GoesOn(p, s.photon, s.status)
  <2>1. photon' = s.photon /\ wasted' = wasted
    BY <1>3, <1>4, FlyingRemains DEF GoesOn, PhotonOK
  <2>2. WaferOK(m, s.photon, s.status)
    BY <1>2, <1>4, WaferStepOn DEF p
  <2> QED
    BY <1>3, <1>4, <2>1, <2>2 DEF WaferFlies, p
<1>5. CASE HasLeft(p, s.photon, s.status)
  BY <1>3, <1>5, GoneRemains DEF HasLeft, WaferGone
<1>6. CASE Ended(p, s.photon, s.status)
  <2>1. ~ m.fTransported
    <3> SUFFICES ASSUME m.fTransported PROVE FALSE
      OBVIOUS
    <3> DEFINE v == View(photon, status)
    <3>1. PICK l \in 0 .. p.part : ~ Survives(p, l)
      BY <1>6 DEF Ended
    <3>2. m = model /\ Mine(model, p) /\ checkNILL(model, v)
      BY <1>2
    <3>3. TransportedOK(model, p, p.dir)
      BY <3>2 DEF WaferAsked, p
    <3>4. v.absNILL = p.absNILL /\ v.wlsNILL = p.wlsNILL
      BY <1>2 DEF View
    <3> HIDE DEF v
    <3> QED
      BY <1>1, <1>2, <3>1, <3>2, <3>3, <3>4, NotAbsorbed
  <2> QED
    BY <1>3, <1>6, <2>1, GoneRemains DEF Ended, WaferGone
<1> QED
  BY <1>2, <1>3, <1>4, <1>5, <1>6, StepOutcome

LEMMA WaferShower ==
  ASSUME IInv, client = "wafer", InFlight, NEW m, ModelOK(m),
         Trip(m, Asked(photon)), TransportedOK(m, photon, photon.dir),
         Mine(m, photon), status # "FresnelReflection", m.fTransported = FALSE,
         ~ (Mine(model, photon) /\ model.fTransported),
         modelShower(m, Asked(photon)), UNCHANGED <<status, wasted>>
  PROVE  \/ model' = m /\ WaferKilled
         \/ model' = Transported(m) /\ WaferMoved
<1>1. CASE m.fKill
  BY <1>1 DEF modelShower, WaferKilled
<1>2. CASE ~ m.fKill
  <2>1. m.fKill = FALSE
    BY <1>2 DEF ModelOK
  <2> QED
    BY <1>2, <2>1 DEF modelShower, WaferMoved
<1> QED
  BY <1>1, <1>2

TransportedTo(m, r) ==
  /\ ModelOK(r) /\ r.fTransported = TRUE
  /\ r.current = m.current /\ r.previous = m.previous
  /\ r.fKill = m.fKill /\ r.processes = m.processes

LEMMA TransportedOutcome ==
  ASSUME NEW m, ModelOK(m)
  PROVE  TransportedTo(m, Transported(m))
<1> DEFINE r == Transported(m)
<1>1. /\ DOMAIN r = ModelFields /\ r.fTransported = TRUE /\ r.fTransported \in BOOLEAN
      /\ r.current = m.current /\ r.previous = m.previous /\ r.unit = m.unit
      /\ r.nTransport = m.nTransport /\ r.fKill = m.fKill /\ r.processes = m.processes
  BY DEF Transported, ModelOK, ModelFields
<1> HIDE DEF r
<1>2. TransportedTo(m, r)
  BY <1>1 DEF ModelOK, TransportedTo
<1> QED
  BY <1>2 DEF r

LEMMA WaferOutcome ==
  ASSUME IInv, FastSimStep
  PROVE  /\ ModelKept
         /\ WaferGone \/ WaferFlies \/ WaferKilled \/ WaferMoved \/ WaferRedrawn
         /\ UNCHANGED <<client, reportsNext, event, tracked, counted>>
<1> DEFINE p == Asked(photon)
           m == OnTrack(model, photon.id)
           v == View(photon, status)
           c == check_trigger(m, v)
<1>1. client = "wafer" /\ InFlight
  BY DEF FastSimStep
<1>2. ModelOK(model) /\ PhotonOK(photon) /\ Drawn(photon) /\ WaferOK(model, photon, status)
  BY <1>1 DEF IInv, EnvironmentOK, ClientOK
<1>3. /\ ModelOK(m) /\ m.processes = model.processes
      /\ m.current.trackID = model.current.trackID
      /\ Mine(model, photon) => m = model
      /\ ~ Mine(model, photon) => ResetTo(model, m)
  BY <1>2, OnTrackOutcome
<1>4. UNCHANGED <<client, reportsNext, event, tracked, counted>>
  BY DEF FastSimStep
<1>5. \/ ~ checkNILL(m, v) /\ modelShower(m, p) /\ UNCHANGED <<status, wasted>>
      \/ checkNILL(m, v) /\ c.answer /\ modelShower(c.model, p) /\ UNCHANGED <<status, wasted>>
      \/ checkNILL(m, v) /\ ~ c.answer /\ TrackingStep(c.model, p)
  BY DEF FastSimStep
<1>6. /\ photon.dir = p.dir /\ WaferOK(model, p, status) /\ PhotonOK(p)
      /\ Mine(model, p) <=> Mine(model, photon)
  BY <1>2, AskedOutcome, AskedIsThePhoton
<1>9. m = OnTrack(model, photon.id) /\ c = check_trigger(m, View(photon, status))
  OBVIOUS
<1> HIDE DEF m, c
<1>7. CASE m.fTransported
  <2>1. Mine(model, photon) /\ m = model /\ model.fTransported /\ m.fKill = FALSE
    BY <1>2, <1>3, <1>7 DEF ResetTo, WaferOK
  <2>2. CASE ~ checkNILL(m, v)
    <3>1. modelShower(m, p) /\ UNCHANGED <<status, wasted>>
      BY <1>5, <2>2
    <3> HIDE DEF p, v
    <3>2. /\ model' = m /\ UNCHANGED <<status, wasted, killed, moved>>
          /\ \E n \in NILLs : photon' = Redrawn(p, n)
      BY <1>7, <2>1, <3>1 DEF modelShower
    <3>3. WaferRedrawn
      BY <2>1, <3>2 DEF WaferRedrawn, p
    <3> QED
      BY <1>2, <1>4, <2>1, <3>2, <3>3 DEF ModelKept
  <2>3. CASE checkNILL(m, v)
    <3>1. /\ ModelOK(c.model) /\ c.model.processes = m.processes
          /\ c.model.current.trackID = m.current.trackID
          /\ c.answer = FALSE /\ WaferAsked(c.model, photon)
          /\ status # "FresnelReflection" => c.model = m
      <4>1. WaferOK(m, photon, status) /\ Mine(m, photon)
        BY <1>2, <2>1
      <4>2. LeftToGeant4(m, photon, status, c)
        BY <1>2, <1>3, <1>7, <1>9, <4>1, WaferAfterTransport
      <4> QED
        BY <4>2 DEF LeftToGeant4
    <3>2. c.model = m \/ c.model.fTransported = FALSE
      <4>1. c.model = reset(m) \/ c.model = m
        BY <1>7, <1>9 DEF check_trigger, AfterTransport, NothingToDo
      <4> QED
        BY <1>3, <4>1, ResetOutcome DEF ResetTo
    <3>3. WaferAsked(c.model, p)
      BY <1>2, <3>1, AskedOutcome DEF WaferAsked, Live, Mine, SameDraw, Straight, HopsOK,
                                       TransportedOK
    <3>4. TrackingStep(c.model, p)
      BY <1>5, <2>3, <3>1
    <3>5. model' = c.model /\ (WaferGone \/ WaferFlies)
      BY <1>1, <1>3, <2>1, <2>3, <3>1, <3>2, <3>3, <3>4, WaferTracked
    <3> QED
      BY <1>3, <1>4, <3>1, <3>5 DEF ModelKept
  <2> QED
    BY <2>2, <2>3
<1>8. CASE ~ m.fTransported
  <2>1. checkNILL(m, v)
    BY <1>8 DEF checkNILL
  <2>2. /\ ModelOK(c.model) /\ c.model.processes = model.processes
        /\ c.model.fTransported = FALSE
        /\ c.model.current.trackID \in {model.current.trackID, photon.id}
        /\ \/ /\ c.answer = TRUE /\ Trip(c.model, photon)
              /\ TransportedOK(c.model, photon, photon.dir)
              /\ Mine(c.model, photon) /\ status # "FresnelReflection"
           \/ c.answer = FALSE /\ WaferAsked(c.model, photon)
    <3>1. ModelOK(model) /\ PhotonOK(photon) /\ DrawOK(photon, model.processes)
      BY <1>2 DEF Drawn
    <3>2. WaferOK(model, photon, status) /\ ~ m.fTransported
      BY <1>2, <1>8
    <3>3. m = OnTrack(model, photon.id) /\ c = check_trigger(m, View(photon, status))
      BY <1>9
    <3>4. WaferAnswered(model, photon, status, c)
      BY <3>1, <3>2, <3>3, WaferAnswer
    <3> QED
      BY <3>4 DEF WaferAnswered
  <2>3. ~ (Mine(model, photon) /\ model.fTransported)
    BY <1>3, <1>8
  <2>4. CASE c.answer
    <3>1. modelShower(c.model, p) /\ UNCHANGED <<status, wasted>>
      BY <1>5, <2>1, <2>4
    <3>2. Trip(c.model, p)
      BY <1>2, <2>2, <2>4, AskedOutcome DEF Trip
    <3>3. \/ model' = c.model /\ WaferKilled
          \/ model' = Transported(c.model) /\ WaferMoved
      BY <1>1, <2>2, <2>3, <2>4, <3>1, <3>2, WaferShower
    <3>4. TransportedTo(c.model, Transported(c.model))
      BY <2>2, TransportedOutcome
    <3>5. ModelKept
      BY <2>2, <3>3, <3>4 DEF ModelKept, TransportedTo
    <3> QED
      BY <1>4, <3>3, <3>5
  <2>5. CASE ~ c.answer
    <3>1. TrackingStep(c.model, p)
      BY <1>5, <2>1, <2>5
    <3>2. WaferAsked(c.model, p)
      BY <1>2, <2>2, <2>5, AskedOutcome DEF WaferAsked, Live, Mine, SameDraw, Straight, HopsOK,
                                       TransportedOK
    <3>3. model' = c.model /\ (WaferGone \/ WaferFlies)
      BY <1>1, <2>2, <2>3, <3>1, <3>2, WaferTracked
    <3> QED
      BY <1>4, <2>2, <3>3 DEF ModelKept
  <2> QED
    BY <2>4, <2>5
<1> QED
  BY <1>7, <1>8

\* Where the photon is after a step of the wafers.
WaferOn ==
  /\ PhotonOK(photon') /\ DrawOK(photon', model.processes)
  /\ photon'.absNILL =< NoLimit /\ photon'.wlsNILL =< NoLimit
  /\ photon'.id = photon.id /\ WaferOK(model', photon', status')

LEMMA WaferFliesOn ==
  ASSUME IInv, InFlight, WaferFlies
  PROVE  WaferOn
<1>1. ModelOK(model) /\ PhotonOK(photon) /\ Drawn(photon)
  BY DEF IInv, EnvironmentOK
<1> DEFINE p == Asked(photon)
<1>2. PhotonOK(p) /\ Drawn(p) /\ p.id = photon.id
  BY <1>1, AskedOutcome DEF Drawn, DrawOK
<1>3. GoesOn(p, photon', status') /\ WaferOK(model', photon', status')
  BY DEF WaferFlies
<1> HIDE DEF p
<1>4. Drawn(photon')
  BY <1>1, <1>2, <1>3, DrawGoesOn
<1> QED
  BY <1>2, <1>3, <1>4 DEF WaferOn, GoesOn, Kept, Drawn

LEMMA WaferMovedOn ==
  ASSUME IInv, InFlight, WaferMoved
  PROVE  WaferOn
<1>1. ModelOK(model) /\ PhotonOK(photon) /\ Drawn(photon)
  BY DEF IInv, EnvironmentOK
<1> DEFINE p == Asked(photon)
<1>2. PhotonOK(p) /\ Drawn(p) /\ p.id = photon.id /\ p.dir = photon.dir /\ p.hop = photon.hop
  BY <1>1, AskedOutcome DEF Drawn, DrawOK
<1> HIDE DEF p
<1>9. PICK m : \E n \in NILLs :
        /\ Trip(m, p) /\ TransportedOK(m, photon, photon.dir) /\ ModelOK(m)
        /\ Mine(m, photon) /\ m.fKill = FALSE /\ status # "FresnelReflection"
        /\ model' = Transported(m) /\ photon' = Redrawn(Moved(m, p), n)
        /\ status' = status
  BY DEF WaferMoved, p
<1>3. PICK n \in NILLs :
        /\ Trip(m, p) /\ TransportedOK(m, photon, photon.dir) /\ ModelOK(m)
        /\ Mine(m, photon) /\ m.fKill = FALSE /\ status # "FresnelReflection"
        /\ model' = Transported(m) /\ photon' = Redrawn(Moved(m, p), n)
        /\ status' = status
  BY <1>9
<1>4. Kept(p, photon') /\ PhotonOK(photon') /\ Drawn(photon')
  BY <1>1, <1>2, <1>3, MovedOutcome
<1>5. photon'.dir = p.dir /\ photon'.vol = "core"
  BY <1>1, <1>2, <1>3, MovedOutcome
<1>6. TransportedTo(m, model')
  BY <1>3, TransportedOutcome
<1>7. TransportedOK(model', photon', photon'.dir)
  BY <1>2, <1>3, <1>4, <1>5, <1>6 DEF TransportedOK, TransportedTo, Kept
<1>8. WaferOK(model', photon', status')
  BY <1>3, <1>5, <1>6, <1>7 DEF WaferOK, TransportedTo
<1> QED
  BY <1>2, <1>4, <1>8 DEF WaferOn, Kept, Drawn

LEMMA WaferRedrawnOn ==
  ASSUME IInv, client = "wafer", InFlight, WaferRedrawn
  PROVE  WaferOn
<1>1. ModelOK(model) /\ PhotonOK(photon) /\ Drawn(photon) /\ WaferOK(model, photon, status)
  BY DEF IInv, EnvironmentOK, ClientOK
<1> DEFINE p == Asked(photon)
<1>2. PhotonOK(p) /\ Drawn(p) /\ p.id = photon.id
  BY <1>1, AskedOutcome DEF Drawn, DrawOK
<1>3. WaferOK(model, p, status) /\ Mine(model, p)
  BY <1>1, AskedIsThePhoton DEF WaferRedrawn
<1> HIDE DEF p
<1>4. PICK n \in NILLs : photon' = Redrawn(p, n)
  BY DEF WaferRedrawn, p
<1>5. model' = model /\ status' = status /\ model.fTransported
  BY DEF WaferRedrawn
<1>6. DOMAIN p = PhotonFields /\ p.absNILL \in Nat /\ p.wlsNILL \in Nat
  BY <1>2 DEF PhotonOK
<1>7. /\ Kept(p, photon') /\ Drawn(photon') /\ photon'.absNILL \in Nat /\ photon'.wlsNILL \in Nat
      /\ photon'.vol = p.vol /\ photon'.z = p.z /\ photon'.dir = p.dir
      /\ photon'.time = p.time /\ photon'.part = p.part
      /\ photon'.length = p.length /\ photon'.turns = p.turns /\ photon'.stopped = p.stopped
      /\ photon'.surface = p.surface /\ photon'.changes = p.changes
  BY <1>1, <1>2, <1>4, <1>6, RedrawnOutcome
<1>8. ToEnd(photon') = ToEnd(p)
  BY <1>7 DEF ToEnd
<1>9. PhotonOK(photon')
  BY <1>2, <1>7, <1>8 DEF PhotonOK, Kept
<1>10. TransportedOK(model, photon', IF status = "FresnelReflection" THEN - photon'.dir
                                     ELSE photon'.dir)
  BY <1>3, <1>5, <1>7 DEF WaferOK, TransportedOK, Kept
<1>11. WaferOK(model', photon', status')
  BY <1>3, <1>5, <1>7, <1>10 DEF WaferOK, Mine, Kept
<1> QED
  BY <1>2, <1>7, <1>9, <1>11 DEF WaferOn, Kept, Drawn

(***************************************************************************)
(* The invariant is inductive.                                             *)
(***************************************************************************)
LEMMA InvInit == Init => IInv
<1> SUFFICES ASSUME Init PROVE IInv
  OBVIOUS
<1>1. PICK ps \in ProcessSets : model = InitialModel(ps)
  BY DEF Init
<1>2. DataOK(NoData)
  BY FiberAssumption DEF DataOK, DataFields, NoData
<1>3. ModelOK(model) /\ model.current.trackID = 0 /\ model.fTransported = FALSE
  <2>1. /\ DOMAIN model = ModelFields /\ model.previous = NoData /\ model.current = NoData
        /\ model.nTransport = 0 /\ model.unit = 0 /\ model.fKill = FALSE
        /\ model.fKill \in BOOLEAN /\ model.fTransported \in BOOLEAN
        /\ model.fTransported = FALSE /\ model.processes = ps
    BY <1>1 DEF InitialModel, ModelFields
  <2>2. ps \subseteq {"abs", "wls"}
    BY PhotonsAssumption
  <2> QED
    BY <1>2, <2>1, <2>2 DEF ModelOK, NoData
<1>4. ~ InFlight /\ tracked = {} /\ event = 1
  BY DEF Init, InFlight, NoPhoton
<1>5. event \in 1 .. MaxEvents
  BY <1>4, PhotonsAssumption
<1>6. client \in {"fiber", "wafer"} /\ reportsNext \in BOOLEAN
  BY DEF Init
<1> QED
  BY <1>3, <1>4, <1>5, <1>6 DEF IInv, EnvironmentOK, ClientOK, Known

\* A photon that was not followed yet is not that of the model.
LEMMA NewIsNotKnown ==
  ASSUME IdsOfEventsDiffer, EnvironmentOK, NEW t \in TrackIDs[event], <<event, t>> \notin tracked
  PROVE  t \in Nat \ {0} /\ model.current.trackID # t
<1>1. event \in 1 .. MaxEvents /\ Known(model.current.trackID)
  BY DEF EnvironmentOK
<1>2. TrackIDs[event] \subseteq Nat \ {0}
  BY <1>1, PhotonsAssumption
<1>3. SUFFICES ASSUME model.current.trackID = t PROVE FALSE
  BY <1>2
<1>4. PICK e \in 1 .. event : <<e, t>> \in tracked
  BY <1>1, <1>2, <1>3 DEF Known
<1>5. e # event /\ t \in TrackIDs[e]
  BY <1>4 DEF EnvironmentOK
<1>6. e \in 1 .. MaxEvents
  BY <1>1, <1>4, PhotonsAssumption
<1> QED
  BY <1>1, <1>5, <1>6 DEF IdsOfEventsDiffer

\* A photon as EmitPhoton makes it.
Emitted(p, t, f, z, dir) ==
  /\ PhotonOK(p) /\ Drawn(p) /\ p.id = t /\ p.fibre = f /\ p.vol = "core" /\ p.z = z
  /\ p.dir = dir /\ p.time = 0 /\ p.turns = 0 /\ p.from = z /\ p.out = dir

LEMMA EmitOutcome ==
  ASSUME ModelOK(model), NEW t \in Nat \ {0}, NEW f \in Fibres, NEW z \in Origins,
         NEW dir \in {-1, 1}, NEW hop \in Hops, EmitPhoton(t, f, z, dir, hop)
  PROVE  Emitted(photon', t, f, z, dir)
<1>1. PICK part \in 1 .. hop, n \in NILLs, st \in Reflections :
        photon' = Redrawn([id |-> t, fibre |-> f, vol |-> "core", z |-> z, dir |-> dir,
                           time |-> 0, hop |-> hop, part |-> part, length |-> 0,
                           absNILL |-> NoLimit, wlsNILL |-> NoLimit,
                           turns |-> 0, stopped |-> FALSE,
                           asked |-> FALSE, from |-> z, out |-> dir,
                           surface |-> st, changes |-> 0], n)
  BY DEF EmitPhoton, Reflections
<1> DEFINE q == photon'
<1>2. /\ DOMAIN q = PhotonFields /\ q.id = t /\ q.fibre = f /\ q.vol = "core" /\ q.z = z
      /\ q.dir = dir /\ q.time = 0 /\ q.hop = hop /\ q.part = part /\ q.length = 0
      /\ q.turns = 0 /\ q.stopped = FALSE /\ q.from = z /\ q.out = dir
      /\ q.surface = st /\ q.changes = 0
      /\ q.absNILL = (IF "abs" \in model.processes THEN n ELSE NoLimit)
      /\ q.wlsNILL = (IF "wls" \in model.processes THEN n ELSE NoLimit)
  BY <1>1 DEF Redrawn, PhotonFields
<1> HIDE DEF q
<1>3. n \in Nat /\ n < NoLimit /\ NoLimit \in Nat /\ n # NoLimit
  BY PhotonsAssumption, FiberAssumption
<1>4. z \in 1 .. FiberLen - 1 /\ FiberLen \in Nat /\ hop \in Nat \ {0}
  BY PhotonsAssumption, FiberAssumption
<1>5. ToEnd(q) > 0 /\ q.z \in 0 .. FiberLen
  BY <1>2, <1>4 DEF ToEnd
<1>6. PhotonOK(q)
  BY <1>2, <1>3, <1>4, <1>5 DEF PhotonOK
<1>7. Drawn(q)
  BY <1>2, <1>3 DEF Drawn, DrawOK
<1> QED
  BY <1>2, <1>6, <1>7 DEF Emitted, q

LEMMA InvEmit ==
  ASSUME IdsOfEventsDiffer, IInv, NEW t \in TrackIDs[event], NEW f \in Fibres,
         NEW z \in Origins, NEW dir \in {-1, 1}, NEW hop \in Hops,
         EmitPhoton(t, f, z, dir, hop)
  PROVE  IInv'
<1>1. EnvironmentOK /\ ModelOK(model) /\ event \in 1 .. MaxEvents
  BY DEF IInv, EnvironmentOK
<1>2. /\ <<event, t>> \notin tracked /\ tracked' = tracked \cup {<<event, t>>}
      /\ UNCHANGED <<client, reportsNext, status, event, model>>
  BY DEF EmitPhoton, IsNext, plugin
<1>3. t \in Nat \ {0} /\ model.current.trackID # t
  BY <1>1, <1>2, NewIsNotKnown
<1>4. Emitted(photon', t, f, z, dir)
  BY <1>1, <1>3, EmitOutcome
<1>5. ~ Mine(model, photon') /\ ~ Live(model.current, photon')
  BY <1>3, <1>4 DEF Emitted, Mine, Live
<1>6. FibreOK(model, photon') /\ WaferOK(model, photon', status)
  BY <1>4, <1>5 DEF Emitted, FibreOK, WaferOK
<1>7. EnvironmentOK'
  <2>1. Known(model.current.trackID)'
    BY <1>1, <1>2 DEF EnvironmentOK, Known
  <2>2. \A e, u : <<e, u>> \in tracked' => e \in 1 .. event /\ u \in TrackIDs[e]
    BY <1>1, <1>2 DEF EnvironmentOK
  <2> QED
    BY <1>1, <1>2, <1>4, <2>1, <2>2 DEF EnvironmentOK, Emitted, Drawn, Uid, InFlight
<1>8. ClientOK'
  <2>1. FibreOK(model, photon)' /\ WaferOK(model, photon, status)'
    BY <1>2, <1>6 DEF FibreOK
  <2> QED
    BY <1>2, <2>1 DEF IInv, ClientOK
<1> QED
  BY <1>7, <1>8 DEF IInv

\* A step that leaves the photon and the model alone.
LEMMA InvKept ==
  ASSUME IInv, ~ InFlight, event' \in event .. MaxEvents,
         UNCHANGED <<client, reportsNext, photon, tracked, model>>
  PROVE  IInv'
<1>1. ~ InFlight' /\ event \in 1 .. MaxEvents /\ event' \in 1 .. MaxEvents
  BY DEF IInv, EnvironmentOK, InFlight
<1>2. Known(model.current.trackID)'
  BY <1>1, PhotonsAssumption DEF IInv, EnvironmentOK, Known
<1>3. \A e, t : <<e, t>> \in tracked' => e \in 1 .. event' /\ t \in TrackIDs[e]
  BY <1>1, PhotonsAssumption DEF IInv, EnvironmentOK
<1> QED
  BY <1>1, <1>2, <1>3 DEF IInv, EnvironmentOK, ClientOK

\* Steps of the photon followed.
LEMMA EnvironmentKept ==
  ASSUME EnvironmentOK, InFlight, ModelKept,
         UNCHANGED <<client, reportsNext, event, tracked>>,
         InFlight' => PhotonOK(photon') /\ Drawn(photon') /\ photon'.id = photon.id
  PROVE  EnvironmentOK'
<1>1. Known(model'.current.trackID)
  BY DEF EnvironmentOK, ModelKept, Known, Uid
<1>2. Known(model.current.trackID)'
  BY <1>1 DEF Known
<1>3. InFlight' => PhotonOK(photon)' /\ Drawn(photon)' /\ Uid' \in tracked'
  BY DEF EnvironmentOK, ModelKept, Drawn, Uid, PhotonOK
<1> QED
  BY <1>2, <1>3 DEF EnvironmentOK, ModelKept

LEMMA InvFiber ==
  ASSUME IInv, FiberStep
  PROVE  IInv'
<1>1. /\ ModelKept /\ model'.fTransported = FALSE
      /\ FibreGone \/ FibreFlies \/ FibreAnswered
      /\ UNCHANGED <<client, reportsNext, event, tracked>>
  BY FibreOutcome
<1>2. client = "fiber" /\ InFlight /\ EnvironmentOK
  BY DEF FiberStep, IInv
<1>3. ModelOK(model) /\ PhotonOK(photon) /\ Drawn(photon)
  BY <1>2 DEF EnvironmentOK
<1>4. CASE FibreFlies
  <2>1. PICK q : GoesOn(photon, q, status') /\ photon' \in {q, Asked(q)}
    BY <1>4 DEF FibreFlies
  <2>2. PhotonOK(q) /\ Drawn(q) /\ q.id = photon.id
    BY <1>3, <2>1, DrawGoesOn DEF GoesOn, Kept
  <2>3. PhotonOK(photon') /\ Drawn(photon') /\ photon'.id = photon.id
    BY <2>1, <2>2, AskedOutcome DEF Drawn, DrawOK
  <2>4. EnvironmentOK'
    BY <1>1, <1>2, <2>3, EnvironmentKept
  <2>5. FibreOK(model, photon)'
    BY <1>1, <1>4 DEF FibreFlies, FibreOK
  <2> QED
    BY <1>1, <1>2, <2>4, <2>5 DEF IInv, ClientOK
<1>5. CASE photon' = NoPhoton
  <2>1. ~ InFlight'
    BY <1>5 DEF InFlight, NoPhoton
  <2>2. EnvironmentOK'
    BY <1>1, <1>2, <2>1, EnvironmentKept
  <2> QED
    BY <1>1, <1>2, <2>1, <2>2 DEF IInv, ClientOK
<1> QED
  BY <1>1, <1>4, <1>5 DEF FibreGone, FibreAnswered

LEMMA InvWafer ==
  ASSUME IInv, FastSimStep
  PROVE  IInv'
<1>1. /\ ModelKept
      /\ WaferGone \/ WaferFlies \/ WaferKilled \/ WaferMoved \/ WaferRedrawn
      /\ UNCHANGED <<client, reportsNext, event, tracked>>
  BY WaferOutcome
<1>2. client = "wafer" /\ InFlight /\ EnvironmentOK
  BY DEF FastSimStep, IInv
<1>3. CASE WaferOn
  <2>1. PhotonOK(photon') /\ Drawn(photon') /\ photon'.id = photon.id
    BY <1>3 DEF WaferOn, Drawn
  <2>2. EnvironmentOK'
    BY <1>1, <1>2, <2>1, EnvironmentKept
  <2>3. WaferOK(model, photon, status)'
    BY <1>3 DEF WaferOn
  <2> QED
    BY <1>1, <1>2, <2>2, <2>3 DEF IInv, ClientOK
<1>4. CASE photon' = NoPhoton
  <2>1. ~ InFlight'
    BY <1>4 DEF InFlight, NoPhoton
  <2>2. EnvironmentOK'
    BY <1>1, <1>2, <2>1, EnvironmentKept
  <2> QED
    BY <1>1, <1>2, <2>1, <2>2 DEF IInv, ClientOK
<1> QED
  BY <1>1, <1>2, <1>3, <1>4, WaferFliesOn, WaferMovedOn, WaferRedrawnOn
     DEF WaferGone, WaferKilled

LEMMA InvNext ==
  ASSUME IdsOfEventsDiffer, IInv, [Next]_vars
  PROVE  IInv'
<1>1. ASSUME NEW t \in TrackIDs[event], NEW f \in Fibres, NEW z \in Origins,
             NEW dir \in {-1, 1}, NEW hop \in Hops, EmitPhoton(t, f, z, dir, hop)
      PROVE  IInv'
  BY <1>1, InvEmit
<1>2. event \in 1 .. MaxEvents /\ MaxEvents \in Nat
  BY PhotonsAssumption DEF IInv, EnvironmentOK
<1>3. ASSUME NEW f \in ScinFibres, ScintStep(f)
      PROVE  IInv'
  BY <1>2, <1>3, InvKept DEF ScintStep
<1>4. CASE NextEvent
  <2>1. event' \in event .. MaxEvents
    BY <1>2, <1>4 DEF NextEvent
  <2> QED
    BY <1>4, <2>1, InvKept DEF NextEvent
<1>5. CASE UNCHANGED vars
  <2>1. UNCHANGED <<client, reportsNext, status, photon, event, tracked, model>>
    BY <1>5 DEF vars, plugin
  <2> QED
    BY <2>1 DEF IInv, EnvironmentOK, ClientOK, Known, Drawn, Uid, InFlight, FibreOK
<1> QED
  BY <1>1, <1>3, <1>4, <1>5, InvFiber, InvWafer DEF Next

LEMMA Invariant ==
  ASSUME IdsOfEventsDiffer
  PROVE  Spec => []IInv
<1>1. Init => IInv
  BY InvInit
<1>2. IInv /\ [Next]_vars => IInv'
  BY InvNext
<1> QED
  BY <1>1, <1>2, PTL DEF Spec

-----------------------------------------------------------------------------
(***************************************************************************)
(* What is killed and what is counted, at a step.                          *)
(***************************************************************************)
\* No photon is counted or killed but by an answer of the model.
LEMMA KilledStep ==
  ASSUME IdsOfEventsDiffer, IInv, KilledWouldBeAbsorbed, [Next]_vars
  PROVE  KilledWouldBeAbsorbed'
<1>1. ASSUME NEW q, q.absNILL < ToEnd(q), killed' = killed \cup {Killed(q)}
      PROVE  KilledWouldBeAbsorbed'
  BY <1>1 DEF KilledWouldBeAbsorbed, Killed
<1>2. CASE UNCHANGED killed
  BY <1>2 DEF KilledWouldBeAbsorbed
<1>3. CASE NextEvent
  BY <1>3 DEF NextEvent, KilledWouldBeAbsorbed
<1>4. CASE FiberStep
  <2>1. CASE FibreAnswered
    <3>1. PICK q : Trip(model', q) /\ CountedAt(q)
      BY <2>1 DEF FibreAnswered
    <3> QED
      BY <1>1, <1>2, <3>1 DEF CountedAt, Trip
  <2> QED
    BY <1>2, <1>4, <2>1, FibreOutcome DEF FibreGone, FibreFlies
<1>5. CASE FastSimStep
  <2>1. CASE WaferKilled
    BY <1>1, <2>1 DEF WaferKilled, Trip
  <2>2. CASE WaferMoved
    BY <1>2, <2>2 DEF WaferMoved
  <2> QED
    BY <1>2, <1>5, <2>1, <2>2, WaferOutcome DEF WaferGone, WaferFlies, WaferRedrawn
<1> QED
  BY <1>2, <1>3, <1>4, <1>5 DEF Next, EmitPhoton, ScintStep, vars, history

LEMMA CountedInTime ==
  ASSUME NEW q, PhotonOK(q), NEW m, Trip(m, q), m.unit >= 0,
         NEW c, c = Counted(q, HitTime(m, q), m.unit)
  PROVE  /\ c.dir = 1
         /\ c.arrival - c.hitTime >= Safety * c.unit
         /\ c.arrival - c.hitTime < (Safety + 1) * c.unit
<1> DEFINE u == m.current.time - m.previous.time
           n == m.nTransport
           x == ToEnd(q)
<1>1. /\ u \in Nat /\ u > 0 /\ m.unit = Along(q.dir, u) /\ n \in Nat
      /\ u * (n + Safety) =< x /\ x < u * (n + Safety) + u
  BY DEF Trip
<1>2. q.dir \in {-1, 1} /\ q.time \in Nat /\ x \in Int /\ Safety \in Nat
  BY FiberAssumption DEF PhotonOK, ToEnd
<1>3. c.dir = q.dir /\ c.arrival = q.time + x /\ c.hitTime = q.time + u * n /\ c.unit = m.unit
  BY DEF Counted, HitTime
<1> HIDE DEF u, n, x
<1>4. q.dir = 1 /\ m.unit = u
  BY <1>1, <1>2 DEF Along
<1>5. u * n \in Nat /\ Safety * u \in Nat
      /\ u * (n + Safety) = u * n + Safety * u /\ (Safety + 1) * u = Safety * u + u
  BY <1>1, <1>2
<1> DEFINE un == u * n
           su == Safety * u
<1>6. /\ un \in Nat /\ su \in Nat /\ un + su =< x /\ x < un + su + u
      /\ c.arrival - c.hitTime = (q.time + x) - (q.time + un)
      /\ Safety * c.unit = su /\ (Safety + 1) * c.unit = su + u
  BY <1>1, <1>3, <1>4, <1>5
<1> HIDE DEF un, su
<1> QED
  BY <1>1, <1>2, <1>3, <1>4, <1>6

LEMMA CountedStep ==
  ASSUME IdsOfEventsDiffer, IInv, HitTimeWithinSafety, [Next]_vars
  PROVE  HitTimeWithinSafety'
<1>1. CASE UNCHANGED counted
  BY <1>1 DEF HitTimeWithinSafety
<1>2. CASE NextEvent
  BY <1>2 DEF NextEvent, HitTimeWithinSafety
<1>3. CASE FiberStep
  <2>1. CASE FibreAnswered
    <3>1. PICK q : GoesOn(photon, q, status') /\ Trip(model', q) /\ CountedAt(q)
      BY <2>1 DEF FibreAnswered
    <3>2. CASE ~ model'.fKill /\ model'.unit >= 0
      <4> DEFINE d == Counted(q, HitTime(model', q), model'.unit)
      <4>1. counted' = counted \cup {d}
        BY <3>1, <3>2 DEF CountedAt
      <4>2. PhotonOK(q)
        BY <3>1 DEF GoesOn
      <4>3. /\ d.dir = 1
            /\ d.arrival - d.hitTime >= Safety * d.unit
            /\ d.arrival - d.hitTime < (Safety + 1) * d.unit
        BY <3>1, <3>2, <4>2, CountedInTime
      <4> HIDE DEF d
      <4> QED
        BY <4>1, <4>3 DEF HitTimeWithinSafety
    <3>3. CASE ~ (~ model'.fKill /\ model'.unit >= 0)
      BY <1>1, <3>1, <3>3 DEF CountedAt
    <3> QED
      BY <3>2, <3>3
  <2> QED
    BY <1>1, <1>3, <2>1, FibreOutcome DEF FibreGone, FibreFlies
<1>4. CASE FastSimStep
  BY <1>1, <1>4, WaferOutcome
<1> QED
  BY <1>1, <1>2, <1>3, <1>4 DEF Next, EmitPhoton, ScintStep, vars, history

(***************************************************************************)
(* The way of a photon.                                                    *)
(***************************************************************************)
LEMMA WayOfEnd ==
  ASSUME NEW p, PhotonOK(p)
  PROVE  /\ FromEnd(p.z, p.dir) = FiberLen - ToEnd(p) /\ ToEnd(p) \in Nat
         /\ FromEnd(p.from, p.out) \in Int /\ p.turns * FiberLen \in Int
         /\ (p.turns + 1) * FiberLen = p.turns * FiberLen + FiberLen
<1>1. p.z \in 0 .. FiberLen /\ p.from \in 0 .. FiberLen /\ p.turns \in Nat /\ FiberLen \in Nat
      /\ p.dir \in {-1, 1}
  BY FiberAssumption DEF PhotonOK
<1>2. p.turns * FiberLen \in Int /\ (p.turns + 1) * FiberLen = p.turns * FiberLen + FiberLen
  BY <1>1
<1> QED
  BY <1>1, <1>2 DEF FromEnd, ToEnd

LEMMA WayGoesOn ==
  ASSUME NEW p, PhotonOK(p), NEW q, NEW st, GoesOn(p, q, st), p.time = Way(p)
  PROVE  q.time = Way(q)
<1>1. PhotonOK(q) /\ q.from = p.from /\ q.out = p.out
  BY DEF GoesOn, Kept
<1>2. p.part \in Nat /\ p.time \in Nat /\ q.time \in Nat /\ FiberLen \in Nat
      /\ p.z \in 0 .. FiberLen /\ p.dir \in {-1, 1}
  BY <1>1, FiberAssumption DEF PhotonOK
<1> DEFINE w == p.turns * FiberLen
           o == FromEnd(p.from, p.out)
<1>3. w \in Int /\ o \in Int /\ (p.turns + 1) * FiberLen = w + FiberLen
  BY WayOfEnd
<1>4. Way(p) = w + ((FiberLen - ToEnd(p)) - o)
  BY WayOfEnd DEF Way
<1>5. Way(q) = q.turns * FiberLen + ((FiberLen - ToEnd(q)) - o)
  BY <1>1, WayOfEnd DEF Way
<1>6. ToEnd(p) \in Nat /\ ToEnd(q) \in Nat
  BY <1>1, WayOfEnd
<1> HIDE DEF w, o
<1>7. CASE Reflected(p, q, st)
  <2>1. ToEnd(q) = ToEnd(p) - p.part /\ q.time = p.time + p.part
    BY <1>2, <1>7 DEF Reflected, Advanced, ToEnd
  <2>2. q.turns * FiberLen = w
    BY <1>7 DEF Reflected, w
  <2> QED
    BY <1>2, <1>3, <1>4, <1>5, <1>6, <2>1, <2>2
<1>8. CASE TurnedBack(p, q, st)
  <2>1. ToEnd(q) = FiberLen /\ q.time = p.time + ToEnd(p)
    BY <1>2, <1>8 DEF TurnedBack, Advanced, ToEnd
  <2>2. q.turns * FiberLen = w + FiberLen
    BY <1>3, <1>8 DEF TurnedBack
  <2> QED
    BY <1>2, <1>3, <1>4, <1>5, <1>6, <2>1, <2>2
<1>9. CASE Returned(p, q, st)
  <2>1. ToEnd(q) = ToEnd(p) /\ q.time = p.time
    BY <1>9 DEF Returned, ToEnd
  <2>2. q.turns * FiberLen = w
    BY <1>9 DEF Returned, w
  <2> QED
    BY <1>2, <1>3, <1>4, <1>5, <1>6, <2>1, <2>2
<1> QED
  BY <1>7, <1>8, <1>9 DEF GoesOn

\* Only the place and the time of a photon are its way.
LEMMA SameWay ==
  ASSUME NEW p, NEW q, q.turns = p.turns, q.z = p.z, q.dir = p.dir, q.from = p.from,
         q.out = p.out, q.time = p.time, p.time = Way(p)
  PROVE  q.time = Way(q)
BY DEF Way

LEMMA WayMoved ==
  ASSUME ModelOK(model), NEW p, PhotonOK(p), Drawn(p), NEW m, Trip(m, p), NEW n \in NILLs,
         NEW q, q = Redrawn(Moved(m, p), n), p.time = Way(p)
  PROVE  q.time = Way(q)
<1> DEFINE l == (m.current.time - m.previous.time) * m.nTransport
<1>1. /\ Kept(p, q) /\ PhotonOK(q)
      /\ q.z = (IF p.dir = 1 THEN p.z + l ELSE p.z - l) /\ q.time = p.time + l
      /\ q.dir = p.dir /\ q.turns = p.turns
  BY MovedOutcome
<1>2. l \in Nat
  BY DEF Trip
<1> HIDE DEF l
<1>3. p.z \in 0 .. FiberLen /\ p.dir \in {-1, 1} /\ p.time \in Nat /\ FiberLen \in Nat
  BY FiberAssumption DEF PhotonOK
<1>4. ToEnd(q) = ToEnd(p) - l
  BY <1>1, <1>2, <1>3 DEF ToEnd
<1> DEFINE w == p.turns * FiberLen
           o == FromEnd(p.from, p.out)
<1>5. w \in Int /\ o \in Int /\ ToEnd(p) \in Nat
  BY WayOfEnd
<1>6. Way(p) = w + ((FiberLen - ToEnd(p)) - o)
  BY WayOfEnd DEF Way
<1>7. Way(q) = w + ((FiberLen - ToEnd(q)) - o)
  BY <1>1, WayOfEnd DEF Way, Kept
<1> HIDE DEF w, o
<1> QED
  BY <1>1, <1>2, <1>3, <1>4, <1>5, <1>6, <1>7

LEMMA WayStep ==
  ASSUME IdsOfEventsDiffer, IInv, TimeIsTheWay, [Next]_vars
  PROVE  TimeIsTheWay'
<1>1. ASSUME photon'.time = Way(photon')
      PROVE  TimeIsTheWay'
  BY <1>1 DEF TimeIsTheWay, Way
<1>2. CASE photon' = NoPhoton
  BY <1>2 DEF TimeIsTheWay, InFlight, NoPhoton
<1>3. CASE UNCHANGED photon
  BY <1>3 DEF TimeIsTheWay, InFlight, Way
<1>4. ModelOK(model)
  BY DEF IInv, EnvironmentOK
<1>5. ASSUME NEW t \in TrackIDs[event], NEW f \in Fibres, NEW z \in Origins,
             NEW dir \in {-1, 1}, NEW hop \in Hops, EmitPhoton(t, f, z, dir, hop)
      PROVE  TimeIsTheWay'
  <2>1. event \in 1 .. MaxEvents
    BY DEF IInv, EnvironmentOK
  <2>2. t \in Nat \ {0}
    BY <2>1, PhotonsAssumption
  <2>3. Emitted(photon', t, f, z, dir)
    BY <1>4, <1>5, <2>2, EmitOutcome
  <2>4. FromEnd(z, dir) \in Int /\ FiberLen \in Nat
    BY PhotonsAssumption, FiberAssumption DEF FromEnd
  <2>5. 0 * FiberLen = 0
    BY <2>4
  <2>6. Way(photon') = 0
    BY <2>3, <2>4, <2>5 DEF Emitted, Way
  <2> QED
    BY <1>1, <2>3, <2>6 DEF Emitted
<1>6. ASSUME InFlight
      PROVE  /\ PhotonOK(photon) /\ photon.time = Way(photon)
             /\ PhotonOK(Asked(photon)) /\ Drawn(Asked(photon))
             /\ Asked(photon).time = Way(Asked(photon))
  <2>1. PhotonOK(photon) /\ Drawn(photon) /\ photon.time = Way(photon)
    BY <1>6 DEF IInv, EnvironmentOK, TimeIsTheWay
  <2> QED
    BY <2>1, AskedOutcome, SameWay DEF Drawn, DrawOK
<1>7. CASE FiberStep
  <2>1. InFlight
    BY <1>7 DEF FiberStep
  <2>2. CASE FibreFlies
    <3>1. PICK q : GoesOn(photon, q, status') /\ photon' \in {q, Asked(q)}
      BY <2>2 DEF FibreFlies
    <3>2. PhotonOK(q) /\ q.time = Way(q)
      BY <1>6, <2>1, <3>1, WayGoesOn DEF GoesOn
    <3>3. Asked(q).time = Way(Asked(q))
      BY <3>2, AskedOutcome, SameWay
    <3> QED
      BY <1>1, <3>1, <3>2, <3>3
  <2> QED
    BY <1>2, <1>7, <2>2, FibreOutcome DEF FibreGone, FibreAnswered
<1>8. CASE FastSimStep
  <2> DEFINE p == Asked(photon)
  <2>1. PhotonOK(p) /\ Drawn(p) /\ p.time = Way(p)
    BY <1>6, <1>8 DEF FastSimStep
  <2> HIDE DEF p
  <2>2. CASE WaferFlies
    <3>1. GoesOn(p, photon', status')
      BY <2>2 DEF WaferFlies, p
    <3> QED
      BY <1>1, <2>1, <3>1, WayGoesOn
  <2>3. CASE WaferMoved
    <3>1. PICK m : \E n \in NILLs : Trip(m, p) /\ photon' = Redrawn(Moved(m, p), n)
      BY <2>3 DEF WaferMoved, p
    <3>2. PICK n \in NILLs : Trip(m, p) /\ photon' = Redrawn(Moved(m, p), n)
      BY <3>1
    <3>3. photon'.time = Way(photon')
      BY <1>4, <2>1, <3>2, WayMoved
    <3> QED
      BY <1>1, <3>3
  <2>4. CASE WaferRedrawn
    <3>1. PICK n \in NILLs : photon' = Redrawn(p, n)
      BY <2>4 DEF WaferRedrawn, p
    <3>2. DOMAIN p = PhotonFields /\ p.absNILL \in Nat /\ p.wlsNILL \in Nat
      BY <2>1 DEF PhotonOK
    <3>3. /\ Kept(p, photon') /\ photon'.z = p.z /\ photon'.dir = p.dir
          /\ photon'.time = p.time /\ photon'.turns = p.turns
      BY <1>4, <2>1, <3>1, <3>2, RedrawnOutcome
    <3>4. photon'.time = Way(photon')
      BY <2>1, <3>3, SameWay DEF Kept
    <3> QED
      BY <1>1, <3>4
  <2> QED
    BY <1>2, <1>8, <2>2, <2>3, <2>4, WaferOutcome DEF WaferGone, WaferKilled
<1> QED
  BY <1>3, <1>5, <1>7, <1>8 DEF Next, ScintStep, NextEvent, vars

(***************************************************************************)
(* A photon that was moved stays the model's until it turns.               *)
(***************************************************************************)
MovedOK ==
  /\ client = "fiber" => moved = {}
  /\ \A c \in moved :
       /\ c.uid \in tracked /\ c.turns \in Nat
       /\ InFlight /\ c.uid = Uid =>
            /\ c.turns =< photon.turns
            /\ c.turns = photon.turns =>
                 Mine(model, photon) /\ model.fTransported /\ status # "FresnelReflection"

LEMMA MovedByFields ==
  ASSUME ModelOK(model), NEW p, PhotonOK(p), Drawn(p), NEW m, Trip(m, p), NILLs # {},
         NEW c, c = MovedBy(m, Moved(m, p))
  PROVE  c.uid = Uid /\ c.turns = p.turns /\ c.unit > 0 /\ c.left >= Safety * c.unit
<1> DEFINE u == m.current.time - m.previous.time
           r == Moved(m, p)
<1>1. PICK n : n \in NILLs
  OBVIOUS
<1>2. ToEnd(r) >= Safety * u /\ r.dir = p.dir /\ r.turns = p.turns
  BY <1>1, MovedOutcome
<1>3. u \in Nat /\ u > 0 /\ m.unit = Along(p.dir, u) /\ p.dir \in {-1, 1}
  BY DEF Trip, PhotonOK
<1>4. /\ c.uid = Uid /\ c.turns = r.turns /\ c.unit = r.dir * m.unit /\ c.left = ToEnd(r)
  BY DEF MovedBy
<1> HIDE DEF u, r
<1>5. p.dir * m.unit = u
  BY <1>3 DEF Along
<1> QED
  BY <1>2, <1>3, <1>4, <1>5

LEMMA MovedInit == Init => MovedOK /\ MovedOnceAndSafely
BY DEF Init, MovedOK, MovedOnceAndSafely

LEMMA MovedStep ==
  ASSUME IdsOfEventsDiffer, IInv, MovedOK, MovedOnceAndSafely, [Next]_vars
  PROVE  MovedOK' /\ MovedOnceAndSafely'
<1>1. ModelOK(model) /\ (InFlight => PhotonOK(photon) /\ Drawn(photon) /\ Uid \in tracked)
  BY DEF IInv, EnvironmentOK
<1>2. CASE UNCHANGED <<client, moved, wasted>> /\ ~ InFlight' /\ tracked \subseteq tracked'
  BY <1>2 DEF MovedOK, MovedOnceAndSafely
<1>3. CASE UNCHANGED vars
  <2>1. UNCHANGED <<client, status, photon, event, tracked, model, moved, wasted>>
    BY <1>3 DEF vars, history, plugin
  <2> QED
    BY <2>1 DEF MovedOK, MovedOnceAndSafely, InFlight, Uid, Mine
<1>4. ASSUME NEW t \in TrackIDs[event], NEW f \in Fibres, NEW z \in Origins,
             NEW dir \in {-1, 1}, NEW hop \in Hops, EmitPhoton(t, f, z, dir, hop)
      PROVE  MovedOK' /\ MovedOnceAndSafely'
  <2>1. /\ UNCHANGED <<client, event, moved, wasted>> /\ <<event, t>> \notin tracked
        /\ tracked' = tracked \cup {<<event, t>>}
    BY <1>4 DEF EmitPhoton, history, IsNext
  <2>2. t \in Nat \ {0}
    BY PhotonsAssumption DEF IInv, EnvironmentOK
  <2>3. photon'.id = t
    BY <1>1, <1>4, <2>2, EmitOutcome DEF Emitted
  <2>4. \A c \in moved : c.uid # Uid'
    BY <2>1, <2>3 DEF MovedOK, Uid
  <2> QED
    BY <2>1, <2>4 DEF MovedOK, MovedOnceAndSafely
<1>5. CASE NextEvent
  BY <1>5 DEF NextEvent, MovedOK, MovedOnceAndSafely
<1>6. CASE FiberStep
  <2>1. client = "fiber" /\ UNCHANGED <<client, tracked, moved, wasted>>
    BY <1>6, FibreOutcome DEF FiberStep
  <2> QED
    BY <2>1 DEF MovedOK, MovedOnceAndSafely
<1>7. CASE FastSimStep
  <2> DEFINE p == Asked(photon)
  <2>1. /\ InFlight /\ client = "wafer" /\ UNCHANGED <<client, event, tracked>>
        /\ WaferGone \/ WaferFlies \/ WaferKilled \/ WaferMoved \/ WaferRedrawn
    BY <1>7, WaferOutcome DEF FastSimStep
  <2>2. PhotonOK(p) /\ Drawn(p) /\ p.turns = photon.turns /\ p.id = photon.id
    BY <1>1, <2>1, AskedOutcome DEF Drawn, DrawOK
  <2> HIDE DEF p
  <2>3. CASE WaferGone \/ WaferKilled
    <3>1. ~ InFlight' /\ UNCHANGED <<moved, wasted>>
      BY <2>3 DEF WaferGone, WaferKilled, InFlight, NoPhoton
    <3> QED
      BY <1>2, <2>1, <3>1
  <2>4. ASSUME UNCHANGED <<moved, wasted>>, photon'.id = photon.id, photon'.turns \in Nat,
               \A c \in moved : c.uid = Uid =>
                 /\ c.turns =< photon'.turns
                 /\ c.turns = photon'.turns =>
                      /\ Mine(model', photon') /\ model'.fTransported
                      /\ status' # "FresnelReflection"
        PROVE  MovedOK' /\ MovedOnceAndSafely'
    <3>1. Uid' = Uid
      BY <2>1, <2>4 DEF Uid
    <3>2. \A c \in moved' : c.uid \in tracked' /\ c.turns \in Nat
      BY <2>1, <2>4 DEF MovedOK
    <3>3. Mine(model, photon)' <=> Mine(model', photon')
      BY DEF Mine
    <3> QED
      BY <2>1, <2>4, <3>1, <3>2, <3>3 DEF MovedOK, MovedOnceAndSafely
  <2>5. CASE WaferFlies
    <3>1. /\ GoesOn(p, photon', status') /\ UNCHANGED <<moved, wasted>>
          /\ Mine(model, photon) /\ model.fTransported /\ status # "FresnelReflection" =>
               model' = model
      BY <2>5 DEF WaferFlies, p
    <3>2. photon'.id = photon.id /\ photon'.turns \in Nat /\ p.turns \in Nat
      BY <2>2, <3>1 DEF GoesOn, Kept, PhotonOK
    <3>3. CASE photon'.turns = p.turns + 1
      BY <2>1, <2>2, <2>4, <3>1, <3>2, <3>3 DEF MovedOK
    <3>4. CASE photon'.turns = p.turns /\ status' # "FresnelReflection"
      BY <2>1, <2>2, <2>4, <3>1, <3>2, <3>4 DEF MovedOK, Mine
    <3> QED
      BY <3>1, <3>3, <3>4 DEF GoesOn, Reflected, TurnedBack, Returned, Reflections, TIR
  <2>6. CASE WaferRedrawn
    <3>1. PICK n \in NILLs : photon' = Redrawn(p, n)
      BY <2>6 DEF WaferRedrawn, p
    <3>2. /\ UNCHANGED <<status, moved, wasted>> /\ model' = model
      BY <2>6 DEF WaferRedrawn
    <3>3. DOMAIN p = PhotonFields /\ p.absNILL \in Nat /\ p.wlsNILL \in Nat
      BY <2>2 DEF PhotonOK
    <3>4. photon'.turns = p.turns /\ Kept(p, photon')
      BY <1>1, <2>2, <3>1, <3>3, RedrawnOutcome
    <3>5. photon'.id = photon.id /\ photon'.turns \in Nat
      BY <2>2, <3>4 DEF Kept, PhotonOK
    <3> QED
      BY <2>1, <2>2, <2>4, <3>2, <3>4, <3>5 DEF MovedOK, Mine
  <2>7. CASE WaferMoved
    <3>1. PICK m : \E n \in NILLs :
            /\ Trip(m, p) /\ Mine(m, photon) /\ status # "FresnelReflection" /\ ModelOK(m)
            /\ model' = Transported(m) /\ photon' = Redrawn(Moved(m, p), n)
            /\ moved' = moved \cup {MovedBy(m, Moved(m, p))}
            /\ ~ (Mine(model, photon) /\ model.fTransported)
            /\ UNCHANGED <<status, wasted>>
      BY <2>7 DEF WaferMoved, p
    <3>2. PICK n \in NILLs : photon' = Redrawn(Moved(m, p), n)
      BY <3>1
    <3> DEFINE d == MovedBy(m, Moved(m, p))
    <3>3. d.uid = Uid /\ d.turns = p.turns /\ d.unit > 0 /\ d.left >= Safety * d.unit
      BY <1>1, <2>2, <3>1, <3>2, MovedByFields
    <3> HIDE DEF d
    <3>4. Kept(p, photon') /\ photon'.turns = p.turns
      BY <1>1, <2>2, <3>1, <3>2, MovedOutcome
    <3>5. TransportedTo(m, model')
      BY <3>1, TransportedOutcome
    <3>6. Mine(model', photon') /\ model'.fTransported
      BY <2>2, <3>1, <3>4, <3>5 DEF Mine, TransportedTo, Kept
    <3>7. p.turns \in Nat /\ Uid' = Uid /\ Uid \in tracked
      BY <1>1, <2>1, <2>2, <3>4 DEF PhotonOK, Kept, Uid
    <3>8. moved' = moved \cup {d}
      BY <3>1 DEF d
    <3>9. \A c \in moved : c.uid = Uid => c.turns =< p.turns /\ c.turns # p.turns
      BY <2>1, <2>2, <3>1 DEF MovedOK
    <3>10. MovedOnceAndSafely'
      BY <3>1, <3>3, <3>8, <3>9 DEF MovedOnceAndSafely
    <3>11. Mine(model, photon)'
      BY <3>6 DEF Mine
    <3>12. MovedOK'
      BY <2>1, <2>2, <3>1, <3>3, <3>4, <3>6, <3>7, <3>8, <3>9, <3>11 DEF MovedOK
    <3> QED
      BY <3>10, <3>12
  <2> QED
    BY <2>1, <2>3, <2>5, <2>6, <2>7
<1>8. ASSUME NEW f \in ScinFibres, ScintStep(f)
      PROVE  MovedOK' /\ MovedOnceAndSafely'
  <2>1. UNCHANGED <<client, status, photon, event, tracked, model, moved, wasted>> /\ ~ InFlight
    BY <1>8 DEF ScintStep, history
  <2> QED
    BY <2>1 DEF MovedOK, MovedOnceAndSafely, InFlight
<1> QED
  BY <1>3, <1>4, <1>5, <1>6, <1>7, <1>8 DEF Next

(***************************************************************************)
(* Hits.                                                                   *)
(***************************************************************************)
LEMMA Multiples ==
  ASSUME NEW i \in Int, NEW j \in Int, i < j, NEW s \in Nat
  PROVE  i * s + s =< j * s
<1> DEFINE k == j - (i + 1)
<1>1. k \in Nat /\ j = i + 1 + k
  OBVIOUS
<1>2. j * s = i * s + s + k * s /\ k * s \in Nat /\ i * s \in Int
  BY <1>1
<1> HIDE DEF k
<1> QED
  BY <1>2

\* The bins of a hit part the times.
LEMMA TimeBinIsTheRange ==
  ASSUME NEW time \in Int
  PROVE  /\ findTimeBin(time) \in 0 .. TimeBins + 1
         /\ \A b \in 0 .. TimeBins + 1 : InBin(time, b) <=> b = findTimeBin(time)
<1> DEFINE edge(i) == TimeStart + i * TimeStep
           S == {i \in 0 .. TimeBins : time < edge(i)} \cup {TimeBins + 1}
           x == time - TimeStart
           k == x \div TimeStep + 1
<1>1. TimeStart \in Int /\ TimeStep \in Nat /\ TimeStep > 0 /\ TimeBins \in Nat
  BY PhotonsAssumption
<1>2. \A i, j \in Int : i < j => i * TimeStep \in Int /\ j * TimeStep \in Int
                                 /\ i * TimeStep + TimeStep =< j * TimeStep
  BY <1>1, Multiples
<1>3. \A i, j \in Int : i =< j => edge(i) =< edge(j)
  BY <1>1, <1>2
<1>4. \A i \in Int : edge(i) \in Int
  BY <1>1, <1>2
<1>5. S \subseteq 0 .. TimeBins + 1
  BY <1>1
<1>6. \E m \in S : \A y \in S : m =< y
  <2>1. CASE time < TimeStart
    <3>1. edge(0) = TimeStart
      BY <1>1
    <3>2. 0 \in S
      BY <1>1, <2>1, <3>1
    <3> QED
      BY <1>5, <3>2
  <2>2. CASE time >= TimeStart
    <3>1. x \in Nat
      BY <1>1, <2>2
    <3>2. k - 1 \in Nat /\ TimeStep * (k - 1) =< x /\ x < TimeStep * (k - 1) + TimeStep
      BY <1>1, <3>1, DivHop
    <3>3. k \in Nat /\ TimeStep * (k - 1) = (k - 1) * TimeStep
          /\ (k - 1) * TimeStep + TimeStep = k * TimeStep
      BY <1>1, <3>2
    <3> HIDE DEF k
    <3>4. edge(k - 1) =< time /\ time < edge(k)
      BY <1>1, <3>2, <3>3
    <3>5. \A y \in 0 .. TimeBins : time < edge(y) => k =< y
      <4> SUFFICES ASSUME NEW y \in 0 .. TimeBins, time < edge(y), y < k PROVE FALSE
        BY <3>3
      <4>1. edge(y) =< edge(k - 1)
        BY <1>1, <1>3, <3>3
      <4>2. edge(y) \in Int /\ edge(k - 1) \in Int
        BY <1>1, <1>4, <3>3
      <4> QED
        BY <3>4, <4>1, <4>2
    <3>6. CASE k =< TimeBins
      <4>1. k \in S
        BY <1>1, <3>3, <3>4, <3>6
      <4>2. \A y \in S : k =< y
        BY <1>1, <3>3, <3>5, <3>6
      <4> HIDE DEF S
      <4> QED
        BY <4>1, <4>2
    <3>7. CASE k > TimeBins
      <4>1. \A y \in S : y = TimeBins + 1
        BY <1>1, <3>3, <3>5, <3>7
      <4> QED
        BY <1>1, <4>1
    <3> QED
      BY <1>1, <3>3, <3>6, <3>7
  <2> QED
    BY <1>1, <2>1, <2>2
<1> DEFINE m == findTimeBin(time)
<1>7. m \in S /\ \A y \in S : m =< y
  BY <1>6 DEF findTimeBin, Min
<1> HIDE DEF m, k, x
<1>8. m \in 0 .. TimeBins + 1
  BY <1>5, <1>7
<1>9. ASSUME NEW b \in 0 .. TimeBins + 1, InBin(time, b)
      PROVE  b = m
  <2>1. b > 0 => edge(b - 1) =< time
    BY <1>9 DEF InBin
  <2>2. b =< TimeBins => b \in S
    BY <1>1, <1>9 DEF InBin
  <2>3. m =< b
    BY <1>1, <1>7, <1>8, <2>2
  <2>4. ASSUME m < b PROVE FALSE
    <3>1. m =< TimeBins /\ m =< b - 1 /\ b > 0
      BY <1>1, <1>8, <2>4
    <3>2. time < edge(m) /\ edge(m) =< edge(b - 1)
      BY <1>1, <1>3, <1>7, <1>8, <3>1
    <3>3. edge(m) \in Int /\ edge(b - 1) \in Int
      BY <1>1, <1>4, <1>8
    <3> QED
      BY <2>1, <3>1, <3>2, <3>3
  <2> QED
    BY <1>1, <1>8, <2>3, <2>4
<1>10. InBin(time, m)
  <2>1. m =< TimeBins => time < edge(m)
    BY <1>1, <1>7
  <2>2. ASSUME m > 0 PROVE edge(m - 1) =< time
    <3>1. m - 1 \notin S
      BY <1>1, <1>7, <1>8
    <3>2. m - 1 \in 0 .. TimeBins
      BY <1>1, <1>8, <2>2
    <3>3. edge(m - 1) \in Int
      BY <1>4, <3>2
    <3> QED
      BY <3>1, <3>2, <3>3
  <2> QED
    BY <1>1, <1>8, <2>1, <2>2 DEF InBin
<1> QED
  BY <1>8, <1>9, <1>10 DEF m

CountedOK ==
  /\ IsFiniteSet(counted)
  /\ \A c \in counted : c.uid \in tracked /\ c.hitTime \in Int /\ (InFlight => c.uid # Uid)
  /\ client = "fiber" => \A f \in Fibres : DOMAIN HitOf(f).times = 0 .. TimeBins + 1

\* One more photon in the set, one more in the hit, in its bin.
LEMMA OneMoreCounted ==
  ASSUME client = "fiber", CountedOK, HitsAreThePhotonsCounted, NEW f \in CherFibres,
         NEW time \in Int, NEW d, d.fibre = f, d.hitTime = time, d.uid = Uid, InFlight,
         counted' = counted \cup {d}, hits' = WithPhoton(f, time), UNCHANGED client
  PROVE  /\ HitsAreThePhotonsCounted' /\ IsFiniteSet(counted')
         /\ \A g \in Fibres : DOMAIN HitOf(g)'.times = 0 .. TimeBins + 1
<1>1. d \notin counted /\ IsFiniteSet(counted)
  BY DEF CountedOK
<1>2. IsFiniteSet(counted')
  BY <1>1, FS_AddElement
<1>3. f \in Fibres /\ DOMAIN hits \subseteq CherFibres
  BY DEF Fibres, HitsAreThePhotonsCounted
<1>4. DOMAIN hits' = DOMAIN hits \cup {f} /\ DOMAIN hits' \subseteq CherFibres
  BY <1>3 DEF WithPhoton
<1>5. HitOf(f)' = Count(HitOf(f), time)
  BY <1>4 DEF HitOf, WithPhoton
<1>6. \A g \in Fibres : g # f => HitOf(g)' = HitOf(g)
  BY <1>4 DEF HitOf, WithPhoton
<1>7. \A g : PhotonsOf(g)' = IF g = f THEN PhotonsOf(g) \cup {d} ELSE PhotonsOf(g)
  BY DEF PhotonsOf
<1>8. \A g : IsFiniteSet(PhotonsOf(g)) /\ d \notin PhotonsOf(g)
  BY <1>1, FS_Subset DEF PhotonsOf
<1>9. \A c, e \in counted' : c.uid = e.uid => c = e
  BY DEF HitsAreThePhotonsCounted, CountedOK
<1> DEFINE Bin(g, b) == {c \in PhotonsOf(g) : InBin(c.hitTime, b)}
<1>10. /\ HitOf(f).photons = Cardinality(PhotonsOf(f))
       /\ DOMAIN HitOf(f).times = 0 .. TimeBins + 1
       /\ \A b \in 0 .. TimeBins + 1 : HitOf(f).times[b] = Cardinality(Bin(f, b))
  BY <1>3 DEF HitsAreThePhotonsCounted, CountedOK
<1>11. /\ HitOf(f)'.photons = HitOf(f).photons + 1
       /\ DOMAIN HitOf(f)'.times = 0 .. TimeBins + 1
       /\ \A b \in 0 .. TimeBins + 1 :
            HitOf(f)'.times[b] = IF b = findTimeBin(time) THEN HitOf(f).times[b] + 1
                                 ELSE HitOf(f).times[b]
  <2>1. findTimeBin(time) \in 0 .. TimeBins + 1
    BY TimeBinIsTheRange
  <2> DEFINE h == HitOf(f)
             b0 == findTimeBin(time)
  <2>2. /\ DOMAIN h.times = 0 .. TimeBins + 1 /\ b0 \in 0 .. TimeBins + 1
        /\ Count(h, time) = [photons |-> h.photons + 1,
                             times |-> [h.times EXCEPT ![b0] = h.times[b0] + 1]]
    BY <1>10, <2>1 DEF Count
  <2> HIDE DEF b0, h
  <2>3. /\ Count(h, time).photons = h.photons + 1
        /\ DOMAIN Count(h, time).times = 0 .. TimeBins + 1
        /\ \A b \in 0 .. TimeBins + 1 :
             Count(h, time).times[b] = IF b = b0 THEN h.times[b] + 1 ELSE h.times[b]
    <3>1. /\ Count(h, time).photons = h.photons + 1
          /\ Count(h, time).times = [h.times EXCEPT ![b0] = h.times[b0] + 1]
      BY <2>2
    <3> QED
      BY ONLY <2>2, <3>1
  <2> QED
    BY <1>5, <2>3 DEF h, b0
<1>12. Cardinality(PhotonsOf(f)') = Cardinality(PhotonsOf(f)) + 1
  BY <1>7, <1>8, FS_AddElement
<1>13. ASSUME NEW b \in 0 .. TimeBins + 1
       PROVE  HitOf(f)'.times[b] = Cardinality(Bin(f, b)')
  <2>1. IsFiniteSet(Bin(f, b)) /\ d \notin Bin(f, b)
    BY <1>8, FS_Subset
  <2>2. InBin(time, b) <=> b = findTimeBin(time)
    BY TimeBinIsTheRange
  <2>3. Bin(f, b)' = {c \in PhotonsOf(f)' : InBin(c.hitTime, b)}
    BY DEF InBin
  <2>4. CASE b = findTimeBin(time)
    <3>1. Bin(f, b)' = Bin(f, b) \cup {d}
      BY <1>7, <2>2, <2>3, <2>4
    <3>2. Cardinality(Bin(f, b)') = Cardinality(Bin(f, b)) + 1
      <4> HIDE DEF Bin
      <4> QED
        BY <2>1, <3>1, FS_AddElement
    <3> QED
      BY <1>10, <1>11, <2>4, <3>2
  <2>5. CASE b # findTimeBin(time)
    <3>1. Bin(f, b)' = Bin(f, b)
      BY <1>7, <2>2, <2>3, <2>5
    <3> QED
      BY <1>10, <1>11, <2>5, <3>1
  <2> QED
    BY <2>4, <2>5
<1>14. ASSUME NEW g \in Fibres, g # f
       PROVE  /\ HitOf(g)'.photons = Cardinality(PhotonsOf(g)')
              /\ DOMAIN HitOf(g)'.times = 0 .. TimeBins + 1
              /\ \A b \in 0 .. TimeBins + 1 : HitOf(g)'.times[b] = Cardinality(Bin(g, b)')
  <2>1. HitOf(g)' = HitOf(g) /\ PhotonsOf(g)' = PhotonsOf(g)
    BY <1>6, <1>7, <1>14
  <2>2. \A b : Bin(g, b)' = Bin(g, b)
    BY <2>1 DEF InBin
  <2> QED
    BY <2>1, <2>2 DEF HitsAreThePhotonsCounted, CountedOK
<1>15. \A g \in Fibres :
         /\ HitOf(g)'.photons = Cardinality(PhotonsOf(g)')
         /\ DOMAIN HitOf(g)'.times = 0 .. TimeBins + 1
         /\ \A b \in 0 .. TimeBins + 1 : HitOf(g)'.times[b] = Cardinality(Bin(g, b)')
  BY <1>10, <1>11, <1>12, <1>13, <1>14
<1>16. HitsAreThePhotonsCounted'
  BY <1>4, <1>9, <1>15 DEF HitsAreThePhotonsCounted
<1> QED
  BY <1>2, <1>15, <1>16

LEMMA NothingCounted ==
  ASSUME hits = << >>, counted = {}
  PROVE  CountedOK /\ HitsAreThePhotonsCounted
<1>1. DOMAIN hits = {}
  OBVIOUS
<1>2. \A f : HitOf(f) = EmptyHit /\ PhotonsOf(f) = {}
  BY <1>1 DEF HitOf, PhotonsOf
<1>3. Cardinality({}) = 0 /\ IsFiniteSet({})
  BY FS_EmptySet
<1>4. \A f : /\ HitOf(f).photons = Cardinality(PhotonsOf(f))
             /\ DOMAIN HitOf(f).times = 0 .. TimeBins + 1
             /\ \A b \in 0 .. TimeBins + 1 :
                  /\ HitOf(f).times[b] = 0
                  /\ {c \in PhotonsOf(f) : InBin(c.hitTime, b)} = {}
  BY <1>2, <1>3 DEF EmptyHit
<1>5. CountedOK
  BY <1>3, <1>4 DEF CountedOK
<1>6. HitsAreThePhotonsCounted
  BY <1>1, <1>3, <1>4 DEF HitsAreThePhotonsCounted
<1> QED
  BY <1>5, <1>6

LEMMA SameHits ==
  ASSUME CountedOK, HitsAreThePhotonsCounted, UNCHANGED <<client, counted>>,
         client = "fiber" => UNCHANGED hits, tracked \subseteq tracked',
         InFlight' => \A c \in counted : c.uid # Uid'
  PROVE  CountedOK' /\ HitsAreThePhotonsCounted'
<1>1. client = "fiber" => \A f : HitOf(f)' = HitOf(f)
  BY DEF HitOf
<1>2. \A f : PhotonsOf(f)' = PhotonsOf(f)
  BY DEF PhotonsOf
<1>3. CountedOK'
  BY <1>1 DEF CountedOK
<1>4. HitsAreThePhotonsCounted'
  BY <1>1, <1>2 DEF HitsAreThePhotonsCounted, InBin
<1> QED
  BY <1>3, <1>4

LEMMA CountedHitStep ==
  ASSUME IdsOfEventsDiffer, IInv, CountedOK, HitsAreThePhotonsCounted, [Next]_vars
  PROVE  CountedOK' /\ HitsAreThePhotonsCounted'
<1>1. ModelOK(model) /\ (InFlight => PhotonOK(photon) /\ Uid \in tracked)
  BY DEF IInv, EnvironmentOK
<1>2. ASSUME UNCHANGED <<client, counted, tracked, event>>, client = "fiber" => UNCHANGED hits,
             InFlight, InFlight' => photon'.id = photon.id
      PROVE  CountedOK' /\ HitsAreThePhotonsCounted'
  <2>1. InFlight' => Uid' = Uid
    BY <1>2 DEF Uid
  <2>2. InFlight' => \A c \in counted : c.uid # Uid'
    BY <1>2, <2>1 DEF CountedOK
  <2> QED
    BY <1>2, <2>2, SameHits
<1>3. ASSUME NEW t \in TrackIDs[event], NEW f \in Fibres, NEW z \in Origins,
             NEW dir \in {-1, 1}, NEW hop \in Hops, EmitPhoton(t, f, z, dir, hop)
      PROVE  CountedOK' /\ HitsAreThePhotonsCounted'
  <2>1. /\ UNCHANGED <<client, event, counted, hits>> /\ <<event, t>> \notin tracked
        /\ tracked' = tracked \cup {<<event, t>>}
    BY <1>3 DEF EmitPhoton, history, plugin, IsNext
  <2>2. t \in Nat \ {0}
    BY PhotonsAssumption DEF IInv, EnvironmentOK
  <2>3. photon'.id = t
    BY <1>1, <1>3, <2>2, EmitOutcome DEF Emitted
  <2>4. \A c \in counted : c.uid # Uid'
    BY <2>1, <2>3 DEF CountedOK, Uid
  <2> QED
    BY <2>1, <2>4, SameHits
<1>4. CASE NextEvent
  <2>1. (hits = << >>)' /\ (counted = {})'
    BY <1>4 DEF NextEvent
  <2>2. (hits = << >> /\ counted = {} => CountedOK /\ HitsAreThePhotonsCounted)'
    BY NothingCounted, PTL
  <2> QED
    BY <2>1, <2>2
<1>5. ASSUME UNCHANGED <<client, photon, event, tracked, hits, counted>>
      PROVE  CountedOK' /\ HitsAreThePhotonsCounted'
  <2>1. InFlight' => \A c \in counted : c.uid # Uid'
    BY <1>5 DEF CountedOK, InFlight, Uid
  <2> QED
    BY <1>5, <2>1, SameHits
<1>6. CASE FiberStep
  <2>1. /\ client = "fiber" /\ InFlight /\ UNCHANGED <<client, event, tracked>>
        /\ FibreGone \/ FibreFlies \/ FibreAnswered
    BY <1>6, FibreOutcome DEF FiberStep
  <2>2. CASE FibreGone
    BY <1>2, <2>1, <2>2 DEF FibreGone, InFlight, NoPhoton
  <2>3. CASE FibreFlies
    <3>1. PICK q : /\ GoesOn(photon, q, status') /\ photon' \in {q, Asked(q)}
                   /\ UNCHANGED <<hits, counted>>
      BY <2>3 DEF FibreFlies
    <3>2. photon'.id = photon.id
      BY <3>1, AskedOutcome DEF GoesOn, Kept
    <3> QED
      BY <1>2, <2>1, <3>1, <3>2
  <2>4. CASE FibreAnswered
    <3>1. PICK q : /\ GoesOn(photon, q, status') /\ q.fibre \notin ScinFibres
                   /\ Trip(model', q) /\ photon' = NoPhoton /\ CountedAt(q)
      BY <2>4 DEF FibreAnswered
    <3>2. ~ InFlight'
      BY <3>1 DEF InFlight, NoPhoton
    <3>3. CASE ~ (~ model'.fKill /\ model'.unit >= 0)
      BY <1>2, <2>1, <3>1, <3>2, <3>3 DEF CountedAt
    <3>4. CASE ~ model'.fKill /\ model'.unit >= 0
      <4> DEFINE d == Counted(q, HitTime(model', q), model'.unit)
      <4>1. counted' = counted \cup {d} /\ hits' = WithPhoton(q.fibre, HitTime(model', q))
        BY <3>1, <3>4 DEF CountedAt
      <4>2. PhotonOK(q)
        BY <3>1 DEF GoesOn
      <4>3. q.fibre \in CherFibres /\ q.time \in Nat
        BY <3>1, <4>2 DEF PhotonOK, Fibres
      <4>4. HitTime(model', q) \in Int
        BY <3>1, <4>3 DEF HitTime, Trip
      <4>5. d.fibre = q.fibre /\ d.hitTime = HitTime(model', q) /\ d.uid = Uid
        BY DEF Counted
      <4> HIDE DEF d
      <4>6. /\ HitsAreThePhotonsCounted' /\ IsFiniteSet(counted')
            /\ \A g \in Fibres : DOMAIN HitOf(g)'.times = 0 .. TimeBins + 1
        BY <2>1, <4>1, <4>3, <4>4, <4>5, OneMoreCounted
      <4>7. CountedOK'
        BY <1>1, <2>1, <3>2, <4>1, <4>4, <4>5, <4>6 DEF CountedOK
      <4> QED
        BY <4>6, <4>7
    <3> QED
      BY <3>3, <3>4
  <2> QED
    BY <2>1, <2>2, <2>3, <2>4
<1>7. CASE FastSimStep
  <2>1. /\ InFlight /\ client = "wafer" /\ UNCHANGED <<client, event, tracked, counted>>
        /\ WaferGone \/ WaferFlies \/ WaferKilled \/ WaferMoved \/ WaferRedrawn
    BY <1>7, WaferOutcome DEF FastSimStep
  <2>2. InFlight' => photon'.id = photon.id
    BY <2>1, WaferFliesOn, WaferMovedOn, WaferRedrawnOn
       DEF WaferGone, WaferKilled, WaferOn, InFlight, NoPhoton
  <2> QED
    BY <1>2, <2>1, <2>2
<1>8. ASSUME NEW f \in ScinFibres, ScintStep(f)
      PROVE  CountedOK' /\ HitsAreThePhotonsCounted'
  BY <1>5, <1>8 DEF ScintStep, history
<1>9. CASE UNCHANGED vars
  BY <1>5, <1>9 DEF vars, history, plugin
<1> QED
  BY <1>3, <1>4, <1>6, <1>7, <1>8, <1>9 DEF Next

(***************************************************************************)
(* The reset of the model.                                                 *)
(***************************************************************************)
\* What is the photon's in the model came after the reset for it.
ResetOK == InFlight /\ (photon.asked \/ Mine(model, photon)) => resetFor = Uid

LEMMA ResetStep ==
  ASSUME IdsOfEventsDiffer, IInv, ResetOK, [Next]_vars
  PROVE  ResetOK'
<1>1. ModelOK(model) /\ (InFlight => PhotonOK(photon))
  BY DEF IInv, EnvironmentOK
<1>2. ASSUME InFlight, resetFor' = ResetFor, InFlight' => Uid' = Uid
      PROVE  ResetOK'
  BY <1>2 DEF ResetFor, ResetOK, Mine
<1>3. ASSUME UNCHANGED <<model, resetFor>>, InFlight,
             InFlight' => Uid' = Uid /\ photon'.id = photon.id /\ photon'.asked = photon.asked
      PROVE  ResetOK'
  BY <1>3 DEF ResetOK, Mine
<1>4. ASSUME NEW t \in TrackIDs[event], NEW f \in Fibres, NEW z \in Origins,
             NEW dir \in {-1, 1}, NEW hop \in Hops, EmitPhoton(t, f, z, dir, hop)
      PROVE  ResetOK'
  <2>1. UNCHANGED model /\ <<event, t>> \notin tracked
    BY <1>4 DEF EmitPhoton, plugin, IsNext
  <2>2. t \in Nat \ {0} /\ model.current.trackID # t
    BY <2>1, NewIsNotKnown DEF IInv
  <2>3. photon'.id = t
    BY <1>1, <1>4, <2>2, EmitOutcome DEF Emitted
  <2>4. photon'.asked = FALSE
    BY <1>4 DEF EmitPhoton, Redrawn
  <2> QED
    BY <2>1, <2>2, <2>3, <2>4 DEF ResetOK, Mine
<1>5. CASE FiberStep
  <2>1. /\ InFlight /\ UNCHANGED event
        /\ FibreGone \/ FibreFlies \/ FibreAnswered
    BY <1>5, FibreOutcome DEF FiberStep
  <2>2. InFlight' => Uid' = Uid /\ photon'.id = photon.id
    <3>1. CASE FibreFlies
      <4>1. PICK q : GoesOn(photon, q, status') /\ photon' \in {q, Asked(q)}
        BY <3>1 DEF FibreFlies
      <4>2. photon'.id = photon.id
        BY <4>1, AskedOutcome DEF GoesOn, Kept
      <4> QED
        BY <2>1, <4>2 DEF Uid
    <3> QED
      BY <2>1, <3>1 DEF FibreGone, FibreAnswered, InFlight, NoPhoton
  <2>3. PICK s \in StepsOf(photon) : processFiber(s.photon, photon.vol, s.status)
    BY <1>5 DEF FiberStep
  <2> DEFINE q == s.photon
             r == IF KilledInCladding(q, photon.vol) THEN StopAndKill(q) ELSE q
  <2>4. Kept(photon, q)
    BY <1>1, <2>1, StepOutcome DEF GoesOn, Ended, HasLeft
  <2>5. r.asked = photon.asked
    BY <2>4 DEF StopAndKill, Kept, PhotonFields
  <2>6. \/ photon' \in {r, NoPhoton} /\ UNCHANGED <<plugin, history>>
        \/ processCherenkov(r, s.status)
    <3> HIDE DEF r
    <3>1. CASE r.vol # "core"
      BY <2>3, <3>1 DEF processFiber, Remaining, r
    <3>2. CASE r.vol = "core" /\ r.fibre \in ScinFibres
      BY <2>3, <3>2 DEF processFiber, r
    <3>3. CASE r.vol = "core" /\ r.fibre \notin ScinFibres
      BY <2>3, <3>3 DEF processFiber, r
    <3> QED
      BY <3>1, <3>2, <3>3
  <2> HIDE DEF r
  <2>7. CASE photon' \in {r, NoPhoton} /\ UNCHANGED <<plugin, history>>
    <3>1. InFlight' => photon'.asked = photon.asked
      BY <2>5, <2>7 DEF InFlight, NoPhoton
    <3>2. UNCHANGED <<model, resetFor>>
      BY <2>7 DEF plugin, history
    <3> QED
      BY <1>3, <2>1, <2>2, <3>1, <3>2
  <2>8. CASE processCherenkov(r, s.status)
    BY <1>2, <2>1, <2>2, <2>8 DEF processCherenkov
  <2> QED
    BY <2>6, <2>7, <2>8
<1>6. CASE FastSimStep
  <2>1. /\ InFlight /\ client = "wafer" /\ UNCHANGED event /\ resetFor' = ResetFor
        /\ WaferGone \/ WaferFlies \/ WaferKilled \/ WaferMoved \/ WaferRedrawn
    BY <1>6, WaferOutcome DEF FastSimStep
  <2>2. InFlight' => photon'.id = photon.id
    BY <2>1, WaferFliesOn, WaferMovedOn, WaferRedrawnOn
       DEF WaferGone, WaferKilled, WaferOn, InFlight, NoPhoton
  <2> QED
    BY <1>2, <2>1, <2>2 DEF Uid
<1>7. CASE NextEvent
  BY <1>7 DEF NextEvent, ResetOK, InFlight
<1>8. ASSUME NEW f \in ScinFibres, ScintStep(f)
      PROVE  ResetOK'
  BY <1>8 DEF ScintStep, ResetOK, InFlight
<1>9. CASE UNCHANGED vars
  <2>1. UNCHANGED <<photon, event, model, resetFor>>
    BY <1>9 DEF vars, plugin, history
  <2> QED
    BY <2>1 DEF ResetOK, InFlight, Uid, Mine
<1> QED
  BY <1>4, <1>5, <1>6, <1>7, <1>8, <1>9 DEF Next

-----------------------------------------------------------------------------
(***************************************************************************)
(* What a run may count on, for all fibres, hops and lengths.              *)
(***************************************************************************)
\* DRCFiberModel kills no photon that would reach the end of its fibre: the
\* lengths it compares are of one hop of this photon, and were not drawn anew
\* in between.
THEOREM PhotonsKilledWouldBeAbsorbed ==
  ASSUME IdsOfEventsDiffer
  PROVE  Spec => []KilledWouldBeAbsorbed
<1>1. Init => KilledWouldBeAbsorbed
  BY DEF Init, KilledWouldBeAbsorbed
<1>2. IInv /\ KilledWouldBeAbsorbed /\ [Next]_vars => KilledWouldBeAbsorbed'
  BY KilledStep
<1> QED
  BY <1>1, <1>2, Invariant, PTL DEF Spec

\* The time DRCaloSDAction gives a photon is early by the hops of the safety
\* margin and less than one more, whatever way the photon came.
THEOREM HitTimesAreSafe ==
  ASSUME IdsOfEventsDiffer
  PROVE  Spec => []HitTimeWithinSafety
<1>1. Init => HitTimeWithinSafety
  BY DEF Init, HitTimeWithinSafety
<1>2. IInv /\ HitTimeWithinSafety /\ [Next]_vars => HitTimeWithinSafety'
  BY CountedStep
<1> QED
  BY <1>1, <1>2, Invariant, PTL DEF Spec

\* A photon that the fast simulation moves has the time of its way: place and
\* time are moved by the same hops.
THEOREM PhotonsAreInTime ==
  ASSUME IdsOfEventsDiffer
  PROVE  Spec => []TimeIsTheWay
<1>1. Init => TimeIsTheWay
  BY DEF Init, TimeIsTheWay, InFlight, NoPhoton
<1>2. IInv /\ TimeIsTheWay /\ [Next]_vars => TimeIsTheWay'
  BY WayStep
<1> QED
  BY <1>1, <1>2, Invariant, PTL DEF Spec

\* Between two turns a photon is moved once, the margin is left to Geant4, and
\* what was moved is not absorbed.
THEOREM PhotonsAreMovedOnce ==
  ASSUME IdsOfEventsDiffer
  PROVE  Spec => []MovedOnceAndSafely
<1>1. Init => MovedOK /\ MovedOnceAndSafely
  BY MovedInit
<1>2. IInv /\ MovedOK /\ MovedOnceAndSafely /\ [Next]_vars => (MovedOK /\ MovedOnceAndSafely)'
  BY MovedStep
<1> QED
  BY <1>1, <1>2, Invariant, PTL DEF Spec

\* Where fibres are sensitive, a hit is the photons counted in its fibre, each
\* once and in the bin of its time.
THEOREM HitsAreOfTheirPhotons ==
  ASSUME IdsOfEventsDiffer
  PROVE  Spec => []HitsAreThePhotonsCounted
<1>1. Init => CountedOK /\ HitsAreThePhotonsCounted
  BY NothingCounted DEF Init
<1>2. IInv /\ CountedOK /\ HitsAreThePhotonsCounted /\ [Next]_vars => (CountedOK /\ HitsAreThePhotonsCounted)'
  BY CountedHitStep
<1> QED
  BY <1>1, <1>2, Invariant, PTL DEF Spec

\* Where the ids of photons are their own, the model is reset for each photon it
\* is asked about: both plugins compare ids only, and that is enough.
THEOREM ModelIsReset ==
  ASSUME IdsOfEventsDiffer
  PROVE  Spec => []ResetForEachTrack
<1>1. Init => ResetOK
  BY DEF Init, ResetOK, InFlight, NoPhoton
<1>2. IInv /\ ResetOK /\ [Next]_vars => ResetOK'
  BY ResetStep
<1>3. ResetOK => ResetForEachTrack
  BY DEF ResetOK, ResetForEachTrack
<1> QED
  BY <1>1, <1>2, <1>3, Invariant, PTL DEF Spec
=============================================================================
