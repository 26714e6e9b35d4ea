--------------------- MODULE Geant4Output2EDM4hep_proofs ---------------------
(***************************************************************************)
(* Proofs about Geant4Output2EDM4hep, for any collections, any number of   *)
(* runs and events, and any way to run the action: what the files hold     *)
(* belongs together, is complete, and is not lost.                         *)
(***************************************************************************)
EXTENDS Geant4Output2EDM4hep, FiniteSetTheorems, SequenceTheorems, TLAPS

(***************************************************************************)
(* Sequences and files.                                                    *)
(***************************************************************************)
IsSeq(s) == s \in Seq(Range(s))

LEMMA EmptyIsSeq == IsSeq(<< >>) /\ Len(<< >>) = 0 /\ DOMAIN << >> = {}
BY EmptySeq DEF IsSeq

LEMMA FunctionIsSeq ==
  ASSUME NEW S, NEW n \in Nat, NEW f \in [1 .. n -> S]
  PROVE  f \in Seq(S)
BY SeqDef

\* What Append does to a sequence of anything.
LEMMA AppendTo ==
  ASSUME NEW s, IsSeq(s), NEW e, NEW t, t = Append(s, e)
  PROVE  /\ IsSeq(t)
         /\ Len(s) \in Nat /\ DOMAIN s = 1 .. Len(s) /\ DOMAIN t = 1 .. Len(s) + 1
         /\ \A i \in DOMAIN s : t[i] = s[i]
         /\ t[Len(s) + 1] = e
         /\ Range(t) = Range(s) \cup {e}
<1> DEFINE S == Range(s) \cup {e}
<1>1. s \in Seq(S)
  BY SeqMonotonic DEF IsSeq
<1>2. /\ Append(s, e) \in Seq(S) /\ Len(Append(s, e)) = Len(s) + 1
      /\ \A i \in 1 .. Len(s) : Append(s, e)[i] = s[i]
      /\ Append(s, e)[Len(s) + 1] = e
  BY <1>1, AppendProperties
<1>3. Len(s) \in Nat /\ DOMAIN s = 1 .. Len(s)
  BY <1>1, LenProperties
<1>4. /\ DOMAIN Append(s, e) = 1 .. Len(s) + 1
      /\ Append(s, e) \in [1 .. Len(s) + 1 -> S]
  BY <1>2, LenProperties
<1> HIDE DEF S
<1>5. Append(s, e) \in [1 .. Len(s) + 1 -> Range(Append(s, e))]
  BY <1>4 DEF Range
<1>6. Append(s, e) \in Seq(Range(Append(s, e)))
  <2>1. Len(s) + 1 \in Nat
    BY <1>3
  <2> QED
    BY <2>1, <1>5, FunctionIsSeq
<1>7. Range(t) = Range(s) \cup {e}
  <2>1. \A i \in 1 .. Len(s) + 1 : i = Len(s) + 1 \/ i \in 1 .. Len(s)
    BY <1>3
  <2>2. 1 .. Len(s) \subseteq 1 .. Len(s) + 1 /\ Len(s) + 1 \in 1 .. Len(s) + 1
    BY <1>3
  <2> QED
    BY <1>2, <1>3, <1>4, <2>1, <2>2 DEF Range
<1> QED
  BY <1>2, <1>3, <1>4, <1>6, <1>7 DEF IsSeq

LEMMA AppendToNone == \A e : Append(<< >>, e) = <<e>>
OBVIOUS

\* The collections in the order they are saved in: each of them once.
LEMMA CollsInOrder ==
  /\ SetToSeq(Colls) \in Seq(Colls) /\ IsInjective(SetToSeq(Colls))
  /\ Range(SetToSeq(Colls)) = Colls
<1> DEFINE n == Cardinality(Colls)
<1>1. IsFiniteSet(Colls) /\ n \in Nat /\ ExistsBijection(1 .. n, Colls)
  BY CollsAssumption, FS_CardinalityType
<1>2. \E f \in [1 .. n -> Colls] : IsInjective(f)
  BY <1>1 DEF ExistsBijection, Bijection, Injection
<1>3. SetToSeq(Colls) \in [1 .. n -> Colls] /\ IsInjective(SetToSeq(Colls))
  BY <1>2 DEF SetToSeq
<1>4. SetToSeq(Colls) \in Injection(1 .. n, Colls)
  BY <1>3 DEF Injection
<1>5. Cardinality(1 .. n) = n
  BY <1>1, FS_Interval
<1>6. SetToSeq(Colls) \in Surjection(1 .. n, Colls)
  BY <1>1, <1>4, <1>5, FS_Injection
<1>7. SetToSeq(Colls) \in Seq(Colls)
  BY <1>1, <1>3, SeqDef
<1> QED
  BY <1>3, <1>6, <1>7 DEF Surjection, Range

\* Taking the first of different elements leaves the others.
LEMMA TailOfInjective ==
  ASSUME NEW S, NEW s \in Seq(S), s # << >>, IsInjective(s)
  PROVE  /\ Head(s) \in Range(s) /\ Tail(s) \in Seq(S) /\ IsInjective(Tail(s))
         /\ Range(Tail(s)) = Range(s) \ {Head(s)}
<1>1. Len(s) \in Nat \ {0} /\ DOMAIN s = 1 .. Len(s)
  BY EmptySeq, LenProperties
<1>2. /\ Tail(s) \in Seq(S) /\ Len(Tail(s)) = Len(s) - 1
      /\ \A i \in 1 .. Len(Tail(s)) : Tail(s)[i] = s[i + 1]
  BY HeadTailProperties
<1>3. Head(s) = s[1]
  BY <1>1
<1>4. DOMAIN Tail(s) = 1 .. Len(s) - 1
  BY <1>2, LenProperties
<1>5. IsInjective(Tail(s))
  BY <1>1, <1>2, <1>4 DEF IsInjective
<1>6. Range(Tail(s)) \subseteq Range(s) \ {Head(s)}
  BY <1>1, <1>2, <1>3, <1>4 DEF IsInjective, Range
<1>7. ASSUME NEW x \in Range(s), x # Head(s) PROVE x \in Range(Tail(s))
  <2>1. PICK i \in 1 .. Len(s) : x = s[i]
    BY <1>1 DEF Range
  <2>2. i - 1 \in 1 .. Len(s) - 1
    BY <1>1, <1>3, <1>7, <2>1
  <2>3. Tail(s)[i - 1] = s[i]
    BY <1>1, <1>2, <2>1, <2>2
  <2> QED
    BY <1>4, <2>1, <2>2, <2>3 DEF Range
<1>8. Head(s) \in Range(s)
  BY <1>1, <1>3 DEF Range
<1> QED
  BY <1>2, <1>5, <1>6, <1>7, <1>8

-----------------------------------------------------------------------------
(***************************************************************************)
(* The inductive invariant.                                                *)
(***************************************************************************)
Typed ==
  /\ config \in Configs
  /\ phase \in {"idle", "run", "begun", "saving", "crashed", "aborted"}
  /\ run \in -1 .. MaxRuns /\ event \in 0 .. MaxEvents
  /\ m_cellIDEncodingStrings \subseteq Colls
  /\ DOMAIN m_trackerHits \subseteq TrackerColls
  /\ DOMAIN m_calorimeterHits \subseteq CaloColls
  /\ DOMAIN m_drcaloHits \subseteq DRColls

Running == phase \in {"run", "begun", "saving"}

\* The name of the file of run r.
NameOf(r) ==
  IF config.filesByRun /\ config.extension THEN <<config.output, r>>
  ELSE <<config.output>>

\* A run's file stays open and the action's until the run ends.
WriterOK ==
  /\ Running => m_runNo = run
  /\ m_file # NoFile =>
       /\ Running /\ m_file = NameOf(run)
       /\ m_file \in DOMAIN disk /\ disk[m_file].state = "open"

\* What a file has once it is finished.
Complete(file) ==
  /\ Len(file.runs) = 1 /\ Len(file.metadata) = 1
  /\ \A frame \in Range(file.events) :
       /\ HitColls(frame) \subseteq Last(file.metadata)
       /\ config.input \/ frame["EventHeader"].run = file.runs[1]

FileOK(name) ==
  LET file == disk[name] IN
  /\ file = [events |-> file.events, runs |-> file.runs, metadata |-> file.metadata,
             state |-> file.state]
  /\ IsSeq(file.events)
  /\ \A frame \in Range(file.events) : OneEvent(frame)
  /\ file.state = "open" =>
       /\ name = m_file /\ m_file # NoFile
       /\ file.runs = << >> /\ file.metadata = << >>
  /\ file.state = "finished" => Complete(file)

FilesOK == \A name \in DOMAIN disk : FileOK(name)

\* What the header of an event of this run says of it.
OfThisRun(frame) ==
  LET header == frame["EventHeader"] IN
  /\ header.uid[1] = run
  /\ header.uid[2] \in 1 .. event /\ (phase # "run" => header.uid[2] < event)
  /\ config.input \/ header.run = RunHeaderNo

\* The open file has earlier events of this run, and their collections have
\* their encodings in the action.
CurrentOK ==
  m_file # NoFile => \A frame \in Frames(m_file) :
    OfThisRun(frame) /\ HitColls(frame) \subseteq m_cellIDEncodingStrings

\* The hits in the members are of the event that is saved.
HitsOK ==
  /\ \A coll \in DOMAIN m_trackerHits : \A hit \in Range(m_trackerHits[coll]) :
       hit.uid = Uid /\ hit.particle < m_particles.n
  /\ \A coll \in DOMAIN m_calorimeterHits : \A hit \in Range(m_calorimeterHits[coll]) :
       hit.uid = Uid /\ hit.particle < m_particles.n
  /\ \A coll \in DOMAIN m_drcaloHits : \A hit \in Range(m_drcaloHits[coll]) :
       hit.uid = Uid

\* What is in the members before an event is saved, and while it is: its own
\* hits of the collections that are no longer pending, and nothing else.
EventOK ==
  /\ phase = "begun" =>
       /\ event > 0
       /\ m_frame = EmptyFrame /\ m_particles = NoParticles
       /\ m_trackerHits = << >> /\ m_calorimeterHits = << >> /\ m_drcaloHits = << >>
  /\ phase = "saving" =>
       /\ event > 0
       /\ DOMAIN m_frame = {"EventHeader"} /\ m_frame["EventHeader"].uid = Uid
       /\ config.input \/ m_frame["EventHeader"].run = RunHeaderNo
       /\ m_particles.n \in Nat /\ (m_particles.n > 0 => m_particles.uid = Uid)
       /\ pending \in Seq(Colls) /\ IsInjective(pending)
       /\ DOMAIN m_trackerHits \cup DOMAIN m_calorimeterHits \cup DOMAIN m_drcaloHits
            = Colls \ Range(pending)
       /\ Colls \ Range(pending) \subseteq m_cellIDEncodingStrings
  /\ phase = "saving" => HitsOK

\* The events of a file are in order and were committed to it.
OrderOK ==
  /\ \A name \in DOMAIN disk : \A i, j \in DOMAIN Uids(name) :
       i < j => Later(Uids(name)[i], Uids(name)[j])
  /\ \A name \in DOMAIN disk :
       \A u \in Range(Uids(name)) : [uid |-> u, file |-> name] \in committed

\* An event that was committed is in the file of its run, unless a later run
\* has written over it.
CommittedOK ==
  \A c \in committed :
    /\ c.uid[1] \in Int /\ c.uid[1] <= run
    /\ c.file = NameOf(c.uid[1]) /\ c.file \in DOMAIN disk
    /\ \/ c.uid \in Range(Uids(c.file))
       \/ c.uid[1] < run /\ ~ (config.filesByRun /\ config.extension)

IInv ==
  Typed /\ WriterOK /\ FilesOK /\ CurrentOK /\ EventOK /\ OrderOK /\ CommittedOK

LEMMA InitIInv == Init => IInv
<1> SUFFICES ASSUME Init PROVE IInv
  OBVIOUS
<1>1. Typed
  BY RunsAssumption DEF Init, Typed
<1>2. WriterOK /\ FilesOK /\ CurrentOK /\ EventOK
  BY DEF Init, WriterOK, Running, FilesOK, CurrentOK, EventOK
<1>3. OrderOK /\ CommittedOK
  BY DEF Init, OrderOK, CommittedOK
<1> QED
  BY <1>1, <1>2, <1>3 DEF IInv

\* A step that leaves the events in the files.
LEMMA EventsStay ==
  ASSUME IInv, DOMAIN disk' = DOMAIN disk,
         \A name \in DOMAIN disk : disk'[name].events = disk[name].events,
         config' = config, committed' = committed, run' >= run, run' \in Int
  PROVE  OrderOK' /\ CommittedOK'
<1>1. \A name \in DOMAIN disk : Uids(name)' = Uids(name)
  BY DEF Uids
<1>2. OrderOK'
  BY <1>1 DEF IInv, OrderOK
<1>3. CommittedOK'
  BY <1>1 DEF IInv, Typed, CommittedOK, NameOf
<1> QED
  BY <1>2, <1>3

\* A step that leaves the files and what was committed alone.
LEMMA DiskStays ==
  ASSUME IInv, disk' = disk, m_file' = m_file, config' = config,
         committed' = committed, run' >= run, run' \in Int
  PROVE  FilesOK' /\ OrderOK' /\ CommittedOK'
<1>1. FilesOK'
  <2> SUFFICES ASSUME NEW name \in DOMAIN disk PROVE FileOK(name)'
    BY DEF FilesOK
  <2> QED
    BY DEF IInv, FilesOK, FileOK, Complete
<1>2. OrderOK' /\ CommittedOK'
  BY EventsStay
<1> QED
  BY <1>1, <1>2

\* What a step leaves alone, one variable at a time.
LEMMA beginRunDoes ==
  ASSUME beginRun
  PROVE  /\ phase = "idle" /\ run < MaxRuns /\ phase' = "run" /\ run' = run + 1
         /\ m_runNo' = run'
         /\ \/ m_file' = FileName /\ disk' = Opened(FileName)
            \/ m_file' = m_file /\ disk' = disk
         /\ config' = config /\ event' = event /\ pending' = pending
         /\ m_frame' = m_frame /\ m_particles' = m_particles
         /\ m_trackerHits' = m_trackerHits /\ m_calorimeterHits' = m_calorimeterHits
         /\ m_drcaloHits' = m_drcaloHits
         /\ m_cellIDEncodingStrings' = m_cellIDEncodingStrings
         /\ committed' = committed
BY Zenon DEF beginRun, collections

LEMMA beginRunStep == ASSUME IInv, beginRun PROVE IInv'
<1> USE beginRunDoes
<1>1. run \in Int /\ run' = run + 1 /\ run' \in -1 .. MaxRuns
  BY RunsAssumption DEF IInv, Typed
<1>2. m_file = NoFile /\ phase' = "run"
  BY DEF IInv, WriterOK, Running
<1>3. Typed'
  BY <1>1 DEF IInv, Typed
<1>4. EventOK'
  BY <1>2 DEF EventOK
<1>5. CASE m_file' = m_file /\ disk' = disk
  <2>1. /\ m_file' = NoFile /\ m_file' = m_file /\ disk' = disk
        /\ config' = config /\ committed' = committed /\ run' >= run /\ run' \in Int
    BY <1>1, <1>2, <1>5
  <2>2. WriterOK' /\ CurrentOK'
    BY <1>2, <2>1 DEF WriterOK, CurrentOK
  <2>3. FilesOK' /\ OrderOK' /\ CommittedOK'
    BY <2>1, DiskStays
  <2> QED
    BY <1>3, <1>4, <2>2, <2>3 DEF IInv
<1>6. CASE m_file' = FileName /\ disk' = Opened(FileName)
  <2>1. /\ m_file' = NameOf(run') /\ m_file' # NoFile
        /\ DOMAIN disk' = DOMAIN disk \cup {m_file'} /\ disk'[m_file'] = NewFile
        /\ \A name \in DOMAIN disk : name # m_file' => disk'[name] = disk[name]
    BY <1>6 DEF FileName, NameOf, NoFile, Opened
  <2>2. NewFile.events = << >> /\ NewFile.runs = << >> /\ NewFile.metadata = << >>
        /\ NewFile.state = "open" /\ Range(NewFile.events) = {}
    BY DEF NewFile, Range
  <2>3. WriterOK'
    BY <1>2, <2>1, <2>2 DEF WriterOK, Running, NameOf
  <2>4. FilesOK'
    <3> SUFFICES ASSUME NEW name \in DOMAIN disk' PROVE FileOK(name)'
      BY DEF FilesOK
    <3>1. CASE name = m_file'
      BY <2>1, <2>2, <3>1, EmptyIsSeq DEF FileOK, NewFile
    <3>2. CASE name # m_file'
      <4>1. disk'[name] = disk[name] /\ FileOK(name) /\ name \in DOMAIN disk
        BY <2>1, <3>2 DEF IInv, FilesOK
      <4> QED
        BY <1>2, <4>1 DEF FileOK, Complete
    <3> QED
      BY <3>1, <3>2
  <2>5. CurrentOK'
    BY <2>1, <2>2 DEF CurrentOK, Frames
  <2>6. /\ \A name \in DOMAIN disk : name # m_file' => Uids(name)' = Uids(name)
        /\ DOMAIN Uids(m_file)' = {} /\ Range(Uids(m_file)') = {}
    BY <2>1, <2>2, EmptyIsSeq DEF Uids, Range
  <2>7. OrderOK'
    BY <2>1, <2>6 DEF IInv, OrderOK
  <2>8. CommittedOK'
    <3> SUFFICES ASSUME NEW c \in committed
                 PROVE  /\ c.uid[1] \in Int /\ c.uid[1] <= run'
                        /\ c.file = NameOf(c.uid[1]) /\ c.file \in DOMAIN disk'
                        /\ \/ c.uid \in Range(Uids(c.file)')
                           \/ c.uid[1] < run' /\ ~ (config.filesByRun /\ config.extension)
      BY DEF CommittedOK, NameOf
    <3>1. /\ c.uid[1] \in Int /\ c.uid[1] <= run
          /\ c.file = NameOf(c.uid[1]) /\ c.file \in DOMAIN disk
          /\ \/ c.uid \in Range(Uids(c.file))
             \/ c.uid[1] < run /\ ~ (config.filesByRun /\ config.extension)
      BY DEF IInv, CommittedOK
    <3>2. c.uid[1] < run'
      BY <1>1, <3>1
    <3>3. CASE config.filesByRun /\ config.extension
      <4>1. c.file # m_file'
        BY <2>1, <3>1, <3>2, <3>3 DEF NameOf
      <4> QED
        BY <1>1, <2>1, <2>6, <3>1, <3>2, <3>3, <4>1
    <3>4. CASE ~ (config.filesByRun /\ config.extension)
      BY <1>1, <2>1, <3>1, <3>2, <3>4
    <3> QED
      BY <3>3, <3>4
  <2> QED
    BY <1>3, <1>4, <2>3, <2>4, <2>5, <2>7, <2>8 DEF IInv
<1> QED
  BY <1>5, <1>6, beginRunDoes

LEMMA endRunStep == ASSUME IInv, endRun PROVE IInv'
<1> USE DEF endRun, collections
<1>1. run' = run /\ run \in Int /\ config' = config /\ committed' = committed
  BY RunsAssumption DEF IInv, Typed
<1>2. Typed'
  BY DEF IInv, Typed
<1>3. m_file' = NoFile /\ phase' \in {"idle", "crashed"}
  OBVIOUS
<1>4. WriterOK' /\ CurrentOK' /\ EventOK'
  BY <1>3 DEF WriterOK, CurrentOK, EventOK, Running
<1>5. CASE m_file = NoFile
  <2>1. FilesOK' /\ OrderOK' /\ CommittedOK'
    BY <1>1, <1>5, DiskStays
  <2> QED
    BY <1>2, <1>4, <2>1 DEF IInv
<1>6. CASE m_file # NoFile
  <2> DEFINE file == disk[m_file]
             new == [events |-> file.events, runs |-> <<RunHeaderNo>>,
                     metadata |-> <<m_cellIDEncodingStrings>>, state |-> "finished"]
  <2>1. /\ m_file \in DOMAIN disk /\ FileOK(m_file) /\ file.state = "open"
    BY <1>6 DEF IInv, WriterOK, FilesOK
  <2>3. /\ DOMAIN disk' = DOMAIN disk
        /\ disk'[m_file] = new
        /\ \A name \in DOMAIN disk : name # m_file => disk'[name] = disk[name]
    <3>1. file = [events |-> file.events, runs |-> << >>, metadata |-> << >>, state |-> "open"]
      BY <2>1 DEF FileOK
    <3>2. disk' = [disk EXCEPT ![m_file].runs = Append(@, RunHeaderNo),
                               ![m_file].metadata = Append(@, m_cellIDEncodingStrings),
                               ![m_file].state = "finished"]
      BY <1>6
    <3>3. disk' = [disk EXCEPT ![m_file] =
                     [file EXCEPT !.runs = Append(@, RunHeaderNo),
                                  !.metadata = Append(@, m_cellIDEncodingStrings),
                                  !.state = "finished"]]
      BY <2>1, <3>2, Zenon
    <3>4. DOMAIN file = {"events", "runs", "metadata", "state"}
      BY <3>1
    <3>5. /\ disk'[m_file] = [x \in DOMAIN file |-> disk'[m_file][x]]
          /\ disk'[m_file].events = file.events
          /\ disk'[m_file].runs = Append(file.runs, RunHeaderNo)
          /\ disk'[m_file].metadata = Append(file.metadata, m_cellIDEncodingStrings)
          /\ disk'[m_file].state = "finished"
          /\ DOMAIN disk' = DOMAIN disk
          /\ \A name \in DOMAIN disk : name # m_file => disk'[name] = disk[name]
      BY <2>1, <3>3, <3>4
    <3>6. Append(file.runs, RunHeaderNo) = <<RunHeaderNo>>
          /\ Append(file.metadata, m_cellIDEncodingStrings) = <<m_cellIDEncodingStrings>>
      BY <2>1, AppendToNone DEF FileOK
    <3> HIDE DEF endRun
    <3>7. disk'[m_file] = [events |-> disk'[m_file].events, runs |-> disk'[m_file].runs,
                           metadata |-> disk'[m_file].metadata,
                           state |-> disk'[m_file].state]
      BY <3>4, <3>5
    <3> QED
      BY <3>5, <3>6, <3>7
  <2>4. \A name \in DOMAIN disk : disk'[name].events = disk[name].events
    BY <2>3
  <2>5. OrderOK' /\ CommittedOK'
    BY <1>1, <2>3, <2>4, EventsStay
  <2>6. FilesOK'
    <3> SUFFICES ASSUME NEW name \in DOMAIN disk PROVE FileOK(name)'
      BY <2>3 DEF FilesOK
    <3>1. CASE name = m_file
      <4>1. \A frame \in Range(file.events) :
               /\ HitColls(frame) \subseteq m_cellIDEncodingStrings
               /\ config.input \/ frame["EventHeader"].run = RunHeaderNo
        BY <1>6 DEF IInv, CurrentOK, OfThisRun, Frames
      <4>2. /\ disk'[name].events = file.events /\ disk'[name].runs = <<RunHeaderNo>>
            /\ disk'[name].metadata = <<m_cellIDEncodingStrings>>
            /\ disk'[name].state = "finished"
        BY <2>3, <3>1
      <4>3. Complete(disk[name])'
        BY <1>1, <4>1, <4>2 DEF Complete, Last
      <4>4. disk'[name] = [events |-> disk'[name].events, runs |-> disk'[name].runs,
                           metadata |-> disk'[name].metadata, state |-> disk'[name].state]
        BY <2>3, <3>1
      <4>5. IsSeq(file.events) /\ \A frame \in Range(file.events) : OneEvent(frame)
        BY <2>1 DEF FileOK
      <4> QED
        BY <4>2, <4>3, <4>4, <4>5 DEF FileOK
    <3>2. CASE name # m_file
      <4>1. disk'[name] = disk[name] /\ FileOK(name)
        BY <2>3, <3>2 DEF IInv, FilesOK
      <4> QED
        BY <1>1, <3>2, <4>1 DEF FileOK, Complete
    <3> QED
      BY <3>1, <3>2
  <2> QED
    BY <1>2, <1>4, <2>5, <2>6 DEF IInv
<1> QED
  BY <1>5, <1>6

LEMMA beginStep == ASSUME IInv, begin PROVE IInv'
<1> USE DEF begin, collections, Cleared
<1>1. /\ event \in Nat /\ event' = event + 1 /\ event' \in 0 .. MaxEvents
      /\ run' = run /\ run \in Int /\ config' = config /\ committed' = committed
      /\ phase = "run" /\ phase' = "begun" /\ m_file' = m_file /\ disk' = disk
      /\ m_runNo' = m_runNo
  BY RunsAssumption DEF IInv, Typed
<1>2. Typed'
  BY <1>1 DEF IInv, Typed
<1>3. WriterOK'
  BY <1>1 DEF IInv, WriterOK, Running, NameOf
<1>4. CurrentOK'
  BY <1>1 DEF IInv, CurrentOK, OfThisRun, Frames, RunHeaderNo
<1>5. EventOK'
  BY <1>1 DEF EventOK, EmptyFrame, NoParticles
<1>6. FilesOK' /\ OrderOK' /\ CommittedOK'
  BY <1>1, DiskStays
<1> QED
  BY <1>2, <1>3, <1>4, <1>5, <1>6 DEF IInv

LEMMA saveEventStep == ASSUME IInv, NEW n \in 0 .. MaxParticles, saveEvent(n) PROVE IInv'
<1> USE DEF saveEvent
<1>1. /\ event' = event /\ event \in Nat /\ phase = "begun" /\ phase' = "saving"
      /\ run' = run /\ run \in Int /\ config' = config /\ committed' = committed
      /\ m_file' = m_file /\ disk' = disk /\ m_runNo' = m_runNo /\ m_runNo = run
      /\ m_cellIDEncodingStrings' = m_cellIDEncodingStrings /\ config \in Configs
  BY RunsAssumption DEF IInv, Typed, WriterOK, Running
<1>2. Typed'
  BY <1>1 DEF IInv, Typed
<1>3. WriterOK'
  BY <1>1 DEF IInv, WriterOK, Running, NameOf
<1>4. CurrentOK'
  BY <1>1 DEF IInv, CurrentOK, OfThisRun, Frames, RunHeaderNo
<1>5. /\ m_frame = << >> /\ m_particles = NoParticles
      /\ m_trackerHits = << >> /\ m_calorimeterHits = << >> /\ m_drcaloHits = << >>
  BY <1>1 DEF IInv, EventOK, EmptyFrame
<1>6. DOMAIN m_frame' = {"EventHeader"} /\ m_frame'["EventHeader"] = Header
  BY <1>5, EmptyIsSeq DEF Put
<1>7. Header.uid = Uid /\ (config.input \/ Header.run = RunHeaderNo)
  BY <1>1, RunsAssumption DEF Header, RunHeaderNo, Offset
<1>8. m_particles'.n \in Nat /\ (m_particles'.n > 0 => m_particles'.uid = Uid)
  BY <1>5, HitsAssumption DEF saveParticles, NoParticles
<1>9. /\ pending' = SetToSeq(Colls)
      /\ m_trackerHits' = m_trackerHits /\ m_calorimeterHits' = m_calorimeterHits
      /\ m_drcaloHits' = m_drcaloHits
  OBVIOUS
<1>10. EventOK'
  <2>1. /\ pending' \in Seq(Colls) /\ IsInjective(pending')
        /\ Colls \ Range(pending') = {}
    BY <1>9, CollsInOrder
  <2>2. /\ DOMAIN m_trackerHits' = {} /\ DOMAIN m_calorimeterHits' = {}
        /\ DOMAIN m_drcaloHits' = {}
    BY <1>5, <1>9, EmptyIsSeq
  <2>3. event' > 0 /\ Uid' = Uid /\ RunHeaderNo' = RunHeaderNo
    BY <1>1 DEF IInv, EventOK, Uid, RunHeaderNo
  <2> QED
    BY <1>1, <1>6, <1>7, <1>8, <2>1, <2>2, <2>3 DEF EventOK, HitsOK
<1>11. FilesOK' /\ OrderOK' /\ CommittedOK'
  BY <1>1, DiskStays
<1> QED
  BY <1>2, <1>3, <1>4, <1>10, <1>11 DEF IInv

\* What is left when saving an event fails, whatever it has added by then.
LEMMA FailedStep ==
  ASSUME IInv, phase = "saving", Failed, Typed',
         m_cellIDEncodingStrings \subseteq m_cellIDEncodingStrings'
  PROVE  IInv'
<1> USE DEF Failed
<1>1. /\ run' = run /\ run \in Int /\ event' = event /\ event \in Nat
      /\ config' = config /\ committed' = committed /\ m_runNo' = m_runNo
      /\ phase' \in {"aborted", "run"}
  BY RunsAssumption DEF IInv, Typed
<1>2. EventOK'
  BY <1>1 DEF EventOK
<1>3. CASE phase' = "run" /\ disk' = disk /\ m_file' = m_file
  <2>1. WriterOK'
    BY <1>1, <1>3 DEF IInv, WriterOK, Running, NameOf
  <2>2. CurrentOK'
    BY <1>1, <1>3 DEF IInv, CurrentOK, OfThisRun, Frames, RunHeaderNo
  <2>3. FilesOK' /\ OrderOK' /\ CommittedOK'
    BY <1>1, <1>3, DiskStays
  <2> QED
    BY <1>2, <2>1, <2>2, <2>3 DEF IInv
<1>4. CASE phase' = "aborted" /\ disk' = Released(disk) /\ m_file' = NoFile
  <2>1. WriterOK' /\ CurrentOK'
    BY <1>4 DEF WriterOK, CurrentOK, Running
  <2>2. CASE m_file = NoFile
    <3>1. disk' = disk
      BY <1>4, <2>2 DEF Released
    <3> QED
      BY <1>1, <1>2, <1>4, <2>1, <2>2, <3>1, DiskStays DEF IInv
  <2>3. CASE m_file # NoFile
    <3>1. m_file \in DOMAIN disk /\ FileOK(m_file) /\ disk[m_file].state = "open"
      BY <2>3 DEF IInv, WriterOK, FilesOK
    <3>2. disk' = [disk EXCEPT ![m_file].state = "abandoned"]
      BY <1>4, <2>3, <3>1 DEF Released
    <3>3. DOMAIN disk[m_file] = {"events", "runs", "metadata", "state"}
      BY <3>1 DEF FileOK
    <3>4. /\ DOMAIN disk' = DOMAIN disk
          /\ disk'[m_file] = [x \in DOMAIN disk[m_file] |-> disk'[m_file][x]]
          /\ disk'[m_file].events = disk[m_file].events
          /\ disk'[m_file].state = "abandoned"
          /\ \A name \in DOMAIN disk : name # m_file => disk'[name] = disk[name]
      BY <3>1, <3>2, <3>3
    <3>5. FilesOK'
      <4> SUFFICES ASSUME NEW name \in DOMAIN disk PROVE FileOK(name)'
        BY <3>4 DEF FilesOK
      <4>1. CASE name = m_file
        <5>1. disk'[name] = [events |-> disk'[name].events, runs |-> disk'[name].runs,
                             metadata |-> disk'[name].metadata,
                             state |-> disk'[name].state]
          BY <3>3, <3>4, <4>1
        <5>2. IsSeq(disk'[name].events)
              /\ \A frame \in Range(disk'[name].events) : OneEvent(frame)
          BY <3>1, <3>4, <4>1 DEF FileOK
        <5> QED
          BY <3>4, <4>1, <5>1, <5>2 DEF FileOK
      <4>2. CASE name # m_file
        <5>1. disk'[name] = disk[name] /\ FileOK(name)
          BY <3>4, <4>2 DEF IInv, FilesOK
        <5> QED
          BY <1>1, <4>2, <5>1 DEF FileOK, Complete
      <4> QED
        BY <4>1, <4>2
    <3>6. \A name \in DOMAIN disk : disk'[name].events = disk[name].events
      BY <3>4
    <3>7. OrderOK' /\ CommittedOK'
      BY <1>1, <3>4, <3>6, EventsStay
    <3> QED
      BY <1>2, <2>1, <3>5, <3>7 DEF IInv
  <2> QED
    BY <2>2, <2>3
<1> QED
  BY <1>3, <1>4

LEMMA HitsOfEvent ==
  ASSUME NEW tracks \in Tracks, ~ Throws(tracks), m_particles.n \in Nat
  PROVE  /\ HitsOf(tracks) \in Seq(Range(HitsOf(tracks)))
         /\ \A hit \in Range(HitsOf(tracks)) :
              hit.uid = Uid /\ hit.particle < m_particles.n
<1>1. tracks \in Seq(Nat) /\ Len(tracks) \in Nat /\ DOMAIN tracks = 1 .. Len(tracks)
      /\ \A i \in 1 .. Len(tracks) : tracks[i] \in Nat
  BY HitsAssumption, LenProperties, ElementOfSeq
<1>2. {i \in 1 .. Len(tracks) : tracks[i] >= m_particles.n} = {}
  BY <1>1 DEF Throws
<1>3. HitsOf(tracks) = [i \in 1 .. Len(tracks) |-> [uid |-> Uid, particle |-> tracks[i]]]
  BY <1>2 DEF HitsOf, SelectInSeq
<1>4. \A i \in 1 .. Len(tracks) : tracks[i] < m_particles.n
  BY <1>1, <1>2
<1>5. HitsOf(tracks) \in [1 .. Len(tracks) -> Range(HitsOf(tracks))]
  BY <1>3 DEF Range
<1>6. HitsOf(tracks) \in Seq(Range(HitsOf(tracks)))
  BY <1>1, <1>5, FunctionIsSeq
<1> QED
  BY <1>3, <1>4, <1>6 DEF Range

\* A collection that was the first of those pending is saved.
LEMMA SavedStep ==
  ASSUME IInv, phase = "saving", pending # << >>, pending' = Tail(pending),
         phase' = phase, run' = run, event' = event, config' = config, disk' = disk,
         m_file' = m_file, m_runNo' = m_runNo, m_frame' = m_frame,
         m_particles' = m_particles, committed' = committed, Typed',
         m_cellIDEncodingStrings' = m_cellIDEncodingStrings \cup {Head(pending)},
         DOMAIN m_trackerHits' \cup DOMAIN m_calorimeterHits' \cup DOMAIN m_drcaloHits'
           = DOMAIN m_trackerHits \cup DOMAIN m_calorimeterHits \cup DOMAIN m_drcaloHits
             \cup {Head(pending)},
         HitsOK'
  PROVE  IInv'
<1>1. run \in Int /\ event \in Nat
  BY RunsAssumption DEF IInv, Typed
<1>2. WriterOK'
  BY DEF IInv, WriterOK, Running, NameOf
<1>3. CurrentOK'
  BY DEF IInv, CurrentOK, OfThisRun, Frames, RunHeaderNo
<1>4. EventOK'
  <2>1. /\ pending \in Seq(Colls) /\ IsInjective(pending)
        /\ DOMAIN m_trackerHits \cup DOMAIN m_calorimeterHits \cup DOMAIN m_drcaloHits
             = Colls \ Range(pending)
        /\ Colls \ Range(pending) \subseteq m_cellIDEncodingStrings
    BY DEF IInv, EventOK
  <2>2. /\ Head(pending) \in Range(pending) /\ pending' \in Seq(Colls)
        /\ IsInjective(pending') /\ Range(pending') = Range(pending) \ {Head(pending)}
    BY <2>1, TailOfInjective
  <2>3. Range(pending) \subseteq Colls
    BY <2>1, LenProperties, ElementOfSeq DEF Range
  <2>4. /\ DOMAIN m_trackerHits' \cup DOMAIN m_calorimeterHits' \cup DOMAIN m_drcaloHits'
             = Colls \ Range(pending')
        /\ Colls \ Range(pending') \subseteq m_cellIDEncodingStrings'
    BY <2>1, <2>2, <2>3
  <2>5. Uid' = Uid /\ RunHeaderNo' = RunHeaderNo
    BY DEF Uid, RunHeaderNo
  <2> QED
    BY <2>2, <2>4, <2>5 DEF IInv, EventOK
<1>5. FilesOK' /\ OrderOK' /\ CommittedOK'
  BY <1>1, DiskStays
<1> QED
  BY <1>2, <1>3, <1>4, <1>5 DEF IInv

\* The first of the collections that are pending has no hits in the members.
LEMMA HeadIsNew ==
  ASSUME IInv, phase = "saving", pending # << >>
  PROVE  /\ Head(pending) \in Colls
         /\ Head(pending) \notin DOMAIN m_trackerHits \cup DOMAIN m_calorimeterHits
                                   \cup DOMAIN m_drcaloHits
         /\ HitsOK /\ m_particles.n \in Nat
<1>1. pending \in Seq(Colls) /\ IsInjective(pending)
  BY DEF IInv, EventOK
<1>2. Head(pending) \in Range(pending) /\ Range(pending) \subseteq Colls
  BY <1>1, TailOfInjective, LenProperties, ElementOfSeq DEF Range
<1> QED
  BY <1>2 DEF IInv, EventOK

LEMMA SaveHitsStep ==
  ASSUME IInv, NEW coll \in TrackerColls \cup CaloColls, NEW tracks \in Tracks,
         SaveHits(coll, tracks)
  PROVE  IInv'
<1> DEFINE hits == HitsOf(tracks)
<1>1. /\ phase = "saving" /\ pending # << >> /\ coll = Head(pending)
      /\ m_cellIDEncodingStrings' = m_cellIDEncodingStrings \cup {coll}
      /\ m_drcaloHits' = m_drcaloHits
      /\ \/ /\ coll \in TrackerColls /\ m_trackerHits' = Added(m_trackerHits, coll, hits)
            /\ m_calorimeterHits' = m_calorimeterHits
         \/ /\ coll \in CaloColls /\ m_trackerHits' = m_trackerHits
            /\ m_calorimeterHits' = Added(m_calorimeterHits, coll, hits)
  BY DEF SaveHits, Encoding
<1>2. /\ coll \in Colls /\ coll \notin DOMAIN m_trackerHits
      /\ coll \notin DOMAIN m_calorimeterHits
      /\ HitsOK /\ m_particles.n \in Nat
  BY <1>1, HeadIsNew
<1>3. \/ Failed
      \/ /\ ~ Throws(tracks) /\ pending' = Tail(pending) /\ phase' = phase
         /\ m_particles' = m_particles /\ m_frame' = m_frame /\ m_file' = m_file
         /\ disk' = disk /\ m_runNo' = m_runNo
  BY DEF SaveHits
<1>4. /\ run' = run /\ event' = event /\ config' = config /\ committed' = committed
      /\ phase' \in {"aborted", "run", "saving"}
  BY <1>1, <1>3 DEF SaveHits, Failed
<1>5. Typed'
  <2>1. \/ /\ coll \in TrackerColls /\ DOMAIN m_trackerHits' = DOMAIN m_trackerHits \cup {coll}
           /\ m_calorimeterHits' = m_calorimeterHits
        \/ /\ coll \in CaloColls /\ m_trackerHits' = m_trackerHits
           /\ DOMAIN m_calorimeterHits' = DOMAIN m_calorimeterHits \cup {coll}
    BY <1>1 DEF Added, Put
  <2> QED
    BY <1>1, <1>2, <1>4, <2>1 DEF IInv, Typed
<1>6. CASE Failed
  BY <1>1, <1>5, <1>6, FailedStep
<1>7. CASE ~ Failed
  <2>1. hits \in Seq(Range(hits))
        /\ \A hit \in Range(hits) : hit.uid = Uid /\ hit.particle < m_particles.n
    BY <1>2, <1>3, <1>7, HitsOfEvent
  <2> HIDE DEF hits
  <2>2. Uid' = Uid /\ m_particles' = m_particles
    BY <1>3, <1>4, <1>7 DEF Uid
  <2>3. << >> \o hits = hits
    BY <2>1, ConcatEmptySeq
  <2>4. CASE m_trackerHits' = Added(m_trackerHits, coll, hits)
             /\ m_calorimeterHits' = m_calorimeterHits
    <3>1. /\ DOMAIN m_trackerHits' = DOMAIN m_trackerHits \cup {coll}
          /\ m_trackerHits'[coll] = hits
          /\ \A c \in DOMAIN m_trackerHits : m_trackerHits'[c] = m_trackerHits[c]
      BY <1>2, <2>3, <2>4 DEF Added, Put
    <3>2. HitsOK'
      BY <1>1, <1>2, <2>1, <2>2, <2>4, <3>1 DEF HitsOK
    <3> QED
      BY <1>1, <1>3, <1>4, <1>5, <1>7, <2>4, <3>1, <3>2, SavedStep
  <2>5. CASE m_trackerHits' = m_trackerHits
             /\ m_calorimeterHits' = Added(m_calorimeterHits, coll, hits)
    <3>1. /\ DOMAIN m_calorimeterHits' = DOMAIN m_calorimeterHits \cup {coll}
          /\ m_calorimeterHits'[coll] = hits
          /\ \A c \in DOMAIN m_calorimeterHits :
               m_calorimeterHits'[c] = m_calorimeterHits[c]
      BY <1>2, <2>3, <2>5 DEF Added, Put
    <3>2. HitsOK'
      BY <1>1, <1>2, <2>1, <2>2, <2>5, <3>1 DEF HitsOK
    <3> QED
      BY <1>1, <1>3, <1>4, <1>5, <1>7, <2>5, <3>1, <3>2, SavedStep
  <2> QED
    BY <1>1, <2>4, <2>5 DEF hits
<1> QED
  BY <1>6, <1>7

LEMMA SaveDRHitsStep ==
  ASSUME IInv, NEW coll \in DRColls, NEW bins \in DRHits, SaveDRHits(coll, bins)
  PROVE  IInv'
<1> DEFINE hits == [i \in DOMAIN bins |-> DRHit(bins[i])]
<1>1. /\ phase = "saving" /\ pending # << >> /\ coll = Head(pending)
      /\ m_cellIDEncodingStrings' = m_cellIDEncodingStrings \cup {coll}
      /\ m_trackerHits' = m_trackerHits /\ m_calorimeterHits' = m_calorimeterHits
      /\ m_drcaloHits' = Added(m_drcaloHits, coll, hits)
      /\ pending' = Tail(pending) /\ phase' = phase /\ run' = run /\ event' = event
      /\ config' = config /\ disk' = disk /\ m_file' = m_file /\ m_runNo' = m_runNo
      /\ m_frame' = m_frame /\ m_particles' = m_particles /\ committed' = committed
  BY DEF SaveDRHits, Encoding
<1>2. /\ coll \in Colls /\ coll \notin DOMAIN m_drcaloHits
      /\ HitsOK /\ m_particles.n \in Nat
  BY <1>1, HeadIsNew
<1>3. hits \in Seq(Range(hits)) /\ \A hit \in Range(hits) : hit.uid = Uid
  <2>1. Len(bins) \in Nat /\ DOMAIN bins = 1 .. Len(bins)
    BY HitsAssumption, LenProperties
  <2>2. hits \in [1 .. Len(bins) -> Range(hits)]
    BY <2>1 DEF Range
  <2>3. hits \in Seq(Range(hits))
    BY <2>1, <2>2, FunctionIsSeq
  <2> QED
    BY <2>3 DEF Range, DRHit
<1> HIDE DEF hits
<1>4. << >> \o hits = hits
  BY <1>3, ConcatEmptySeq
<1>5. /\ DOMAIN m_drcaloHits' = DOMAIN m_drcaloHits \cup {coll}
      /\ m_drcaloHits'[coll] = hits
      /\ \A c \in DOMAIN m_drcaloHits : m_drcaloHits'[c] = m_drcaloHits[c]
  BY <1>1, <1>2, <1>4 DEF Added, Put
<1>6. Typed'
  BY <1>1, <1>2, <1>5 DEF IInv, Typed
<1>7. Uid' = Uid
  BY <1>1 DEF Uid
<1>8. HitsOK'
  BY <1>1, <1>2, <1>3, <1>5, <1>7 DEF HitsOK
<1> QED
  BY <1>1, <1>5, <1>6, <1>8, SavedStep

\* The frame that is written is of the event that is saved.
LEMMA FilledIsOneEvent ==
  ASSUME IInv, phase = "saving", pending = << >>
  PROVE  /\ OneEvent(Filled) /\ HitColls(Filled) \subseteq m_cellIDEncodingStrings
         /\ Filled["EventHeader"].uid = Uid
         /\ config.input \/ Filled["EventHeader"].run = RunHeaderNo
<1>1. /\ DOMAIN m_frame = {"EventHeader"} /\ m_frame["EventHeader"].uid = Uid
      /\ config.input \/ m_frame["EventHeader"].run = RunHeaderNo
      /\ m_particles.n > 0 => m_particles.uid = Uid
      /\ HitsOK
  BY DEF IInv, EventOK
<1>2. Range(pending) = {}
  BY EmptyIsSeq DEF Range
<1>3. /\ DOMAIN m_trackerHits \cup DOMAIN m_calorimeterHits \cup DOMAIN m_drcaloHits = Colls
      /\ Colls \subseteq m_cellIDEncodingStrings
  BY <1>2 DEF IInv, EventOK
<1>4. /\ DOMAIN m_trackerHits \subseteq TrackerColls
      /\ DOMAIN m_calorimeterHits \subseteq CaloColls
      /\ DOMAIN m_drcaloHits \subseteq DRColls
  BY DEF IInv, Typed
<1>5. "EventHeader" \notin Colls /\ "MCParticles" \notin Colls
      /\ TrackerColls \cap DRColls = {} /\ CaloColls \cap DRColls = {}
      /\ TrackerColls \cap CaloColls = {}
  BY CollsAssumption
<1>6. DOMAIN Filled = {"EventHeader", "MCParticles"} \cup Colls
  BY <1>1, <1>3 DEF Filled
<1>7. Filled["EventHeader"] = m_frame["EventHeader"] /\ Filled["MCParticles"] = m_particles
  BY <1>1, <1>3, <1>5, <1>6 DEF Filled
<1>8. /\ \A coll \in DOMAIN m_trackerHits : Filled[coll] = m_trackerHits[coll]
      /\ \A coll \in DOMAIN m_calorimeterHits : Filled[coll] = m_calorimeterHits[coll]
      /\ \A coll \in DOMAIN m_drcaloHits : Filled[coll] = m_drcaloHits[coll]
  BY <1>3, <1>4, <1>5, <1>6 DEF Filled
<1>9. HitColls(Filled) = Colls
  BY <1>5, <1>6 DEF HitColls
<1>10. \A coll \in Colls : \A hit \in Range(Filled[coll]) : hit.uid = Uid
  BY <1>1, <1>3, <1>8 DEF HitsOK
<1>11. \A coll \in TrackerColls \cup CaloColls : \A hit \in Range(Filled[coll]) :
         hit.particle < m_particles.n
  <2>1. TrackerColls \cup CaloColls \subseteq DOMAIN m_trackerHits \cup DOMAIN m_calorimeterHits
    BY <1>3, <1>4, <1>5 DEF Colls
  <2> QED
    BY <1>1, <1>8, <2>1 DEF HitsOK
<1>12. OneEvent(Filled)
  BY <1>1, <1>7, <1>9, <1>10, <1>11 DEF OneEvent
<1> QED
  BY <1>1, <1>3, <1>7, <1>9, <1>12

LEMMA commitStep == ASSUME IInv, commit PROVE IInv'
<1>1. CASE m_file = NoFile
  <2>1. phase = "saving" /\ Failed /\ m_cellIDEncodingStrings' = m_cellIDEncodingStrings
        /\ m_trackerHits' = m_trackerHits /\ m_calorimeterHits' = m_calorimeterHits
        /\ m_drcaloHits' = m_drcaloHits
    BY <1>1 DEF commit
  <2>2. config' = config /\ run' = run /\ event' = event /\ phase' \in {"aborted", "run"}
    BY <2>1 DEF Failed
  <2>3. Typed'
    BY <2>1, <2>2 DEF IInv, Typed
  <2> QED
    BY <2>1, <2>3, FailedStep
<1>2. CASE m_file # NoFile
  <2> DEFINE file == disk[m_file]
             n == Len(file.events)
  <2>1. /\ phase = "saving" /\ pending = << >> /\ phase' = "run"
        /\ disk' = [disk EXCEPT ![m_file].events = Append(@, Filled)]
        /\ committed' = committed \cup {[uid |-> Uid, file |-> m_file]}
        /\ m_trackerHits' = << >> /\ m_calorimeterHits' = << >> /\ m_drcaloHits' = << >>
        /\ config' = config /\ run' = run /\ event' = event /\ m_file' = m_file
        /\ m_runNo' = m_runNo /\ m_cellIDEncodingStrings' = m_cellIDEncodingStrings
    BY <1>2 DEF commit, Cleared
  <2>2. run \in Int /\ event \in Nat /\ event > 0 /\ Uid = <<run, event>>
    BY <2>1, RunsAssumption DEF IInv, Typed, EventOK, Uid
  <2>3. /\ m_file \in DOMAIN disk /\ FileOK(m_file) /\ file.state = "open"
        /\ m_file = NameOf(run)
    BY <1>2 DEF IInv, WriterOK, FilesOK
  <2>4. /\ OneEvent(Filled) /\ HitColls(Filled) \subseteq m_cellIDEncodingStrings
        /\ Filled["EventHeader"].uid = Uid
        /\ config.input \/ Filled["EventHeader"].run = RunHeaderNo
    BY <2>1, FilledIsOneEvent
  <2>5. DOMAIN file = {"events", "runs", "metadata", "state"}
    BY <2>3 DEF FileOK
  <2>6. /\ DOMAIN disk' = DOMAIN disk
        /\ disk'[m_file] = [x \in DOMAIN file |-> disk'[m_file][x]]
        /\ disk'[m_file].events = Append(file.events, Filled)
        /\ disk'[m_file].runs = file.runs /\ disk'[m_file].metadata = file.metadata
        /\ disk'[m_file].state = file.state
        /\ \A name \in DOMAIN disk : name # m_file => disk'[name] = disk[name]
    BY <2>1, <2>3, <2>5
  <2>7. /\ IsSeq(disk'[m_file].events)
        /\ n \in Nat /\ DOMAIN file.events = 1 .. n
        /\ DOMAIN disk'[m_file].events = 1 .. n + 1
        /\ \A i \in 1 .. n : disk'[m_file].events[i] = file.events[i]
        /\ disk'[m_file].events[n + 1] = Filled
        /\ Range(disk'[m_file].events) = Range(file.events) \cup {Filled}
    BY <2>3, <2>6, AppendTo DEF FileOK
  <2>8. \A i \in 1 .. n : file.events[i] \in Range(file.events)
    BY <2>7 DEF Range
  <2> HIDE DEF n
  <2>9. Typed' /\ EventOK'
    BY <2>1, EmptyIsSeq DEF IInv, Typed, EventOK
  <2>10. WriterOK'
    BY <2>1, <2>6 DEF IInv, WriterOK, Running, NameOf
  <2>11. \A frame \in Range(file.events) :
           /\ frame["EventHeader"].uid[1] = run
           /\ frame["EventHeader"].uid[2] \in 1 .. event
           /\ frame["EventHeader"].uid[2] < event
           /\ config.input \/ frame["EventHeader"].run = RunHeaderNo
           /\ HitColls(frame) \subseteq m_cellIDEncodingStrings
    BY <1>2, <2>1 DEF IInv, CurrentOK, Frames, OfThisRun
  <2>12. CurrentOK'
    <3> SUFFICES ASSUME NEW frame \in Range(disk'[m_file].events)
                 PROVE  /\ frame["EventHeader"].uid[1] = run
                        /\ frame["EventHeader"].uid[2] \in 1 .. event
                        /\ config.input \/ frame["EventHeader"].run = RunHeaderNo
                        /\ HitColls(frame) \subseteq m_cellIDEncodingStrings
      BY <2>1 DEF CurrentOK, Frames, OfThisRun, RunHeaderNo
    <3>1. CASE frame = Filled
      BY <2>2, <2>4, <3>1
    <3>2. CASE frame \in Range(file.events)
      BY <2>11, <3>2
    <3> QED
      BY <2>7, <3>1, <3>2
  <2>13. FilesOK'
    <3> SUFFICES ASSUME NEW name \in DOMAIN disk PROVE FileOK(name)'
      BY <2>6 DEF FilesOK
    <3>1. CASE name = m_file
      <4>1. disk'[name] = [events |-> disk'[name].events, runs |-> disk'[name].runs,
                           metadata |-> disk'[name].metadata,
                           state |-> disk'[name].state]
        BY <2>5, <2>6, <3>1
      <4>2. \A frame \in Range(disk'[name].events) : OneEvent(frame)
        BY <2>3, <2>4, <2>7, <3>1 DEF FileOK
      <4> QED
        BY <1>2, <2>1, <2>3, <2>6, <2>7, <3>1, <4>1, <4>2 DEF FileOK
    <3>2. CASE name # m_file
      <4>1. disk'[name] = disk[name] /\ FileOK(name)
        BY <2>6, <3>2 DEF IInv, FilesOK
      <4> QED
        BY <2>1, <3>2, <4>1 DEF FileOK, Complete
    <3> QED
      BY <3>1, <3>2
  <2>14. \A name \in DOMAIN disk : name # m_file => Uids(name)' = Uids(name)
    BY <2>6 DEF Uids
  <2>15. /\ DOMAIN Uids(m_file)' = 1 .. n + 1 /\ DOMAIN Uids(m_file) = 1 .. n
         /\ \A i \in 1 .. n : /\ Uids(m_file)'[i] = Uids(m_file)[i]
                              /\ Uids(m_file)[i] = file.events[i]["EventHeader"].uid
         /\ Uids(m_file)'[n + 1] = Uid
    BY <2>1, <2>4, <2>7 DEF Uids
  <2>16. Range(Uids(m_file)') = Range(Uids(m_file)) \cup {Uid}
    BY <2>7, <2>15 DEF Range
  <2>17. OrderOK'
    <3>1. ASSUME NEW name \in DOMAIN disk, NEW i \in DOMAIN Uids(name)',
                 NEW j \in DOMAIN Uids(name)', i < j
          PROVE  Later(Uids(name)'[i], Uids(name)'[j])
      <4>1. CASE name # m_file
        BY <2>14, <3>1, <4>1 DEF IInv, OrderOK
      <4>2. CASE name = m_file /\ j = n + 1
        <5>1. i \in 1 .. n /\ Uids(m_file)'[j] = <<run, event>>
          BY <2>1, <2>2, <2>7, <2>15, <3>1, <4>2
        <5>2. Uids(m_file)'[i][1] = run /\ Uids(m_file)'[i][2] < event
          BY <2>8, <2>11, <2>15, <5>1
        <5> QED
          BY <2>1, <4>2, <5>1, <5>2 DEF Later
      <4>3. CASE name = m_file /\ j # n + 1
        <5>1. i \in 1 .. n /\ j \in 1 .. n
          BY <2>1, <2>7, <2>15, <3>1, <4>3
        <5>2. Later(Uids(m_file)[i], Uids(m_file)[j])
          BY <2>3, <2>15, <3>1, <5>1 DEF IInv, OrderOK
        <5> QED
          BY <2>1, <2>15, <4>3, <5>1, <5>2
      <4> QED
        BY <4>1, <4>2, <4>3
    <3>2. ASSUME NEW name \in DOMAIN disk, NEW u \in Range(Uids(name)')
          PROVE  [uid |-> u, file |-> name] \in committed'
      BY <2>1, <2>14, <2>16, <3>2 DEF IInv, OrderOK
    <3> QED
      BY <2>6, <3>1, <3>2 DEF OrderOK
  <2>18. CommittedOK'
    <3> SUFFICES ASSUME NEW c \in committed'
                 PROVE  /\ c.uid[1] \in Int /\ c.uid[1] <= run
                        /\ c.file = NameOf(c.uid[1]) /\ c.file \in DOMAIN disk
                        /\ \/ c.uid \in Range(Uids(c.file)')
                           \/ c.uid[1] < run /\ ~ (config.filesByRun /\ config.extension)
      BY <2>1, <2>6 DEF CommittedOK, NameOf
    <3>1. CASE c \in committed
      <4>1. /\ c.uid[1] \in Int /\ c.uid[1] <= run
            /\ c.file = NameOf(c.uid[1]) /\ c.file \in DOMAIN disk
            /\ \/ c.uid \in Range(Uids(c.file))
               \/ c.uid[1] < run /\ ~ (config.filesByRun /\ config.extension)
        BY <3>1 DEF IInv, CommittedOK
      <4> QED
        BY <2>1, <2>14, <2>16, <4>1
    <3>2. CASE c = [uid |-> Uid, file |-> m_file]
      <4>1. c.uid = Uid /\ c.file = m_file /\ c.uid[1] = run
        BY <2>2, <3>2
      <4> QED
        BY <2>1, <2>2, <2>3, <2>16, <4>1
    <3> QED
      BY <2>1, <3>1, <3>2
  <2> QED
    BY <2>9, <2>10, <2>12, <2>13, <2>17, <2>18 DEF IInv
<1> QED
  BY <1>1, <1>2

LEMMA StutterStep == ASSUME IInv, UNCHANGED vars PROVE IInv'
<1> USE DEF vars, members, collections
<1>1. Typed' /\ WriterOK'
  BY DEF IInv, Typed, WriterOK, Running, NameOf
<1>2. CurrentOK'
  BY DEF IInv, CurrentOK, OfThisRun, Frames, RunHeaderNo
<1>3. EventOK'
  BY DEF IInv, EventOK, HitsOK, Uid, RunHeaderNo
<1>4. run' >= run /\ run' \in Int
  BY RunsAssumption DEF IInv, Typed
<1>5. FilesOK' /\ OrderOK' /\ CommittedOK'
  BY <1>4, DiskStays
<1> QED
  BY <1>1, <1>2, <1>3, <1>5 DEF IInv

LEMMA NextIInv == IInv /\ [Next]_vars => IInv'
<1> SUFFICES ASSUME IInv, [Next]_vars PROVE IInv'
  OBVIOUS
<1>1. CASE beginRun
  BY <1>1, beginRunStep
<1>2. CASE endRun
  BY <1>2, endRunStep
<1>3. CASE begin
  BY <1>3, beginStep
<1>4. CASE \E n \in 0 .. MaxParticles : saveEvent(n)
  BY <1>4, saveEventStep
<1>5. CASE saveCollection
  BY <1>5, SaveHitsStep, SaveDRHitsStep DEF saveCollection
<1>6. CASE commit
  BY <1>6, commitStep
<1>7. CASE UNCHANGED vars
  BY <1>7, StutterStep
<1> QED
  BY <1>1, <1>2, <1>3, <1>4, <1>5, <1>6, <1>7 DEF Next

LEMMA Inductive == Spec => []IInv
BY InitIInv, NextIInv, PTL DEF Spec

-----------------------------------------------------------------------------
(***************************************************************************)
(* What the files hold.                                                    *)
(***************************************************************************)
\* The process, the files and the members have their types, and an event is
\* only saved to a file that is open (beginRun, begin, endRun).
THEOREM TypeCorrect == Spec => []TypeOK
<1>1. IInv => TypeOK
  BY DEF IInv, Typed, WriterOK, TypeOK
<1> QED
  BY <1>1, Inductive, PTL

\* However many events fail half way in saveCollection or commit, a frame that
\* commit writes is of one event, has all of that event's collections, and has
\* the particle of each of its hits.
THEOREM FramesAreOfOneEvent == Spec => []FramesHoldOneEvent
<1>1. IInv => FramesHoldOneEvent
  BY DEF IInv, FilesOK, FileOK, FramesHoldOneEvent, Frames
<1> QED
  BY <1>1, Inductive, PTL

\* An event whose commit has ended is in the file it went to, once and in its
\* order, until beginRun opens that file again for another run, which it does
\* not where each run has a file of its own.
THEOREM CommittedIsKept == Spec => []CommittedEventsAreKept
<1>1. IInv => CommittedEventsAreKept
  BY DEF IInv, OrderOK, CommittedOK, CommittedEventsAreKept
<1> QED
  BY <1>1, Inductive, PTL

\* A file that endRun has finished has one run header and one frame of
\* metadata, which fit all of its events.
THEOREM FinishedIsComplete == Spec => []FinishedFilesAreComplete
<1>1. IInv => FinishedFilesAreComplete
  BY DEF IInv, FilesOK, FileOK, Complete, FinishedFilesAreComplete, Frames
<1> QED
  BY <1>1, Inductive, PTL

=============================================================================
