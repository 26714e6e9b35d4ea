------------------------ MODULE Geant4Output2EDM4hep ------------------------
(***************************************************************************)
(* The output action of plugins/Geant4Output2EDM4hep_DRC.cpp.              *)
(*                                                                         *)
(* Geant4 runs one event after the other.  At the end of an event DDG4     *)
(* (Geant4OutputAction::end) has the action save the event, then each of   *)
(* its hit collections, then commit; where one of these throws the rest of *)
(* them is left out and, unless errors are fatal, the run goes on with the *)
(* next event.  What one event leaves in the members of the action must    *)
(* not come out with another.                                              *)
(*                                                                         *)
(* A file is a podio file: sections of frames.  A frame is a function from *)
(* names to collections; podio refuses two of one name.  What a collection *)
(* holds is tagged with the event it came from.                            *)
(***************************************************************************)
EXTENDS Integers, Sequences, FiniteSets, SequencesExt, FiniteSetsExt

CONSTANTS
  TrackerColls, CaloColls, DRColls,   \* hit collections of the detector
  Configs,        \* sets of properties the action is run with
  MaxParticles,   \* bound: of the particles of an event
  Tracks,         \* of the hits of a collection in an event: a track each
  DRHits,         \* hits of a DR collection in an event: the counts of each, in
                  \* the bin below its range, in its bins, and above it
  MaxRuns, MaxEvents,                 \* bounds: of runs, of events in all
  InputRun        \* run number in the event parameters of an input file

Colls == TrackerColls \cup CaloColls \cup DRColls

\* podio refuses two collections of one name, those of an event's own included.
ASSUME CollsAssumption ==
  /\ IsFiniteSet(Colls) /\ TrackerColls \cap CaloColls = {}
  /\ (TrackerColls \cup CaloColls) \cap DRColls = {}
  /\ {"EventHeader", "MCParticles"} \cap Colls = {}
ASSUME HitsAssumption ==
  /\ MaxParticles \in Nat
  /\ Tracks \subseteq Seq(Nat) /\ DRHits \subseteq Seq(Seq(Nat))
ASSUME RunsAssumption ==
  /\ MaxRuns \in Nat /\ MaxEvents \in Nat /\ InputRun \in Int
  /\ \A c \in Configs :
       c.filesByRun \in BOOLEAN /\ c.extension \in BOOLEAN /\ c.errorsFatal \in BOOLEAN
       /\ c.offset \in Int /\ c.input \in BOOLEAN

VARIABLES
  config,         \* [output, extension, filesByRun, errorsFatal, offset, input]
  phase,          \* of the process
  run, event,     \* Geant4's ids
  pending,        \* collections of the event still to be saved
  disk,           \* file name -> what is in the file
  m_file, m_runNo, m_frame, m_particles,
  m_trackerHits, m_calorimeterHits, m_drcaloHits, m_cellIDEncodingStrings,
  \* History: events whose commit ended, with the file they went to.
  committed

collections == <<m_particles, m_trackerHits, m_calorimeterHits, m_drcaloHits>>
members == <<m_file, m_runNo, m_frame, collections, m_cellIDEncodingStrings>>
vars == <<config, phase, run, event, pending, disk, members, committed>>

Uid == <<run, event>>

NoFile == << >>

-----------------------------------------------------------------------------
(***************************************************************************)
(* podio.                                                                  *)
(***************************************************************************)
EmptyFrame == << >>

Put(frame, name, content) ==
  [n \in DOMAIN frame \cup {name} |-> IF n = name THEN content ELSE frame[n]]

NewFile == [events |-> << >>, runs |-> << >>, metadata |-> << >>, state |-> "open"]

\* A file is opened anew: what was in one of this name is gone.
Opened(name) == [n \in DOMAIN disk \cup {name} |-> IF n = name THEN NewFile ELSE disk[n]]

\* A writer that goes away finishes its file.
Released(files) ==
  IF m_file = NoFile \/ files[m_file].state # "open" THEN files
  ELSE [files EXCEPT ![m_file].state = "abandoned"]

-----------------------------------------------------------------------------
(***************************************************************************)
(* Runs.                                                                   *)
(***************************************************************************)
\* Mutant: the run's number is left out.
OneName == <<config.output>>

\* The run's number goes before the extension, where the name has one.
FileName ==
  IF config.filesByRun /\ config.extension THEN <<config.output, run'>>
  ELSE <<config.output>>

beginRun ==
  /\ phase = "idle" /\ run < MaxRuns
  /\ phase' = "run" /\ run' = run + 1
  /\ m_runNo' = run'
  /\ IF config.output # ""
     THEN m_file' = FileName /\ disk' = Opened(FileName)
     ELSE UNCHANGED <<m_file, disk>>
  /\ UNCHANGED <<config, event, pending, m_frame, collections, m_cellIDEncodingStrings,
                 committed>>

RunHeaderNo == IF config.offset > 0 THEN config.offset + run ELSE run

\* endRun: saveRun, saveFileMetaData and finish; both write to a file without
\* asking whether there is one.
endRun ==
  /\ phase = "run"
  /\ m_runNo' = RunHeaderNo
  /\ IF m_file = NoFile
     THEN phase' = "crashed" /\ UNCHANGED <<disk, m_file>>
     ELSE /\ phase' = "idle"
          /\ disk' = [disk EXCEPT ![m_file].runs = Append(@, RunHeaderNo),
                                  ![m_file].metadata = Append(@, m_cellIDEncodingStrings),
                                  ![m_file].state = "finished"]
          /\ m_file' = NoFile
  /\ UNCHANGED <<config, run, event, pending, m_frame, collections,
                 m_cellIDEncodingStrings, committed>>

-----------------------------------------------------------------------------
(***************************************************************************)
(* Events.                                                                 *)
(***************************************************************************)
NoParticles == [uid |-> << >>, n |-> 0]

\* Mutant: what was committed is cleared, so it need not be here.
LeftToCommit == UNCHANGED collections

Cleared ==
  /\ m_particles' = NoParticles
  /\ m_trackerHits' = << >> /\ m_calorimeterHits' = << >> /\ m_drcaloHits' = << >>

begin ==
  /\ phase = "run" /\ event < MaxEvents
  /\ phase' = "begun" /\ event' = event + 1
  /\ m_frame' = EmptyFrame /\ Cleared
  /\ UNCHANGED <<config, run, pending, disk, m_file, m_runNo, m_cellIDEncodingStrings,
                 committed>>

Offset == IF config.offset > 0 THEN config.offset ELSE 0

Header ==
  [uid |-> Uid, run |-> (IF config.input THEN InputRun ELSE m_runNo) + Offset]

saveParticles(n) == IF n = 0 THEN m_particles ELSE [uid |-> Uid, n |-> n]

\* saveEvent: the header, and the particles the event has.
saveEvent(n) ==
  /\ phase = "begun"
  /\ phase' = "saving" /\ pending' = SetToSeq(Colls)
  /\ m_frame' = Put(m_frame, "EventHeader", Header)
  /\ m_particles' = saveParticles(n)
  /\ UNCHANGED <<config, run, event, disk, m_file, m_runNo, m_trackerHits,
                 m_calorimeterHits, m_drcaloHits, m_cellIDEncodingStrings, committed>>

\* Mutant: the file is finished whether or not the run goes on.
FinishedOnFailure ==
  /\ pending' = << >> /\ phase' = IF config.errorsFatal THEN "aborted" ELSE "run"
  /\ disk' = Released(disk)
  /\ UNCHANGED <<config, run, event, m_file, m_runNo, m_frame, m_particles, committed>>

\* DDG4 catches what an action throws; where errors are fatal it throws on,
\* and the action goes away with the process.
Failed ==
  /\ pending' = << >>
  /\ IF config.errorsFatal
     THEN phase' = "aborted" /\ disk' = Released(disk) /\ m_file' = NoFile
     ELSE phase' = "run" /\ UNCHANGED <<disk, m_file>>
  /\ UNCHANGED <<config, run, event, m_runNo, m_frame, m_particles, committed>>

-----------------------------------------------------------------------------
(***************************************************************************)
(* saveCollection: the hits of one collection, which are added to what the *)
(* map of its kind holds under its name.  A tracker hit and a contribution *)
(* to a calorimeter hit are given a particle by the index of their track;  *)
(* the collection of particles throws for one it has not, after the hit    *)
(* was made.                                                               *)
(***************************************************************************)
Added(map, coll, hits) ==
  Put(map, coll, (IF coll \in DOMAIN map THEN map[coll] ELSE << >>) \o hits)

\* Mutant: only a collection with hits is entered.
EncodingOfHits(coll, hits) ==
  m_cellIDEncodingStrings \cup (IF hits = << >> THEN {} ELSE {coll})

Encoding(coll, hits) == m_cellIDEncodingStrings \cup {coll}

Throws(tracks) == \E i \in DOMAIN tracks : tracks[i] >= m_particles.n

HitsOf(tracks) ==
  LET known == SelectInSeq(tracks, LAMBDA t : t >= m_particles.n) IN
  [i \in 1 .. IF known = 0 THEN Len(tracks) ELSE known |->
     [uid |-> Uid, particle |-> tracks[i]]]

SaveHits(coll, tracks) ==
  /\ phase = "saving" /\ pending # << >> /\ coll = Head(pending)
  /\ m_cellIDEncodingStrings' = Encoding(coll, tracks)
  /\ IF coll \in TrackerColls
     THEN m_trackerHits' = Added(m_trackerHits, coll, HitsOf(tracks))
          /\ UNCHANGED m_calorimeterHits
     ELSE m_calorimeterHits' = Added(m_calorimeterHits, coll, HitsOf(tracks))
          /\ UNCHANGED m_trackerHits
  /\ UNCHANGED m_drcaloHits
  /\ IF Throws(tracks) THEN Failed
     ELSE /\ pending' = Tail(pending)
          /\ UNCHANGED <<config, phase, run, event, disk, m_file, m_runNo, m_frame,
                         m_particles, committed>>

\* A hit of DRCaloSDAction has the counts below its range, in its bins, and
\* above it; its photons are all of them.
Photons(bins) == FoldLeft(+, 0, bins)

\* The counts that are written: not those below and above the range.
AdcCounts(bins) == SubSeq(bins, 2, Len(bins) - 1)

DRHit(bins) ==
  [uid |-> Uid, charge |-> Photons(bins), adc |-> AdcCounts(bins), bins |-> bins]

SaveDRHits(coll, hits) ==
  /\ phase = "saving" /\ pending # << >> /\ coll = Head(pending)
  /\ m_cellIDEncodingStrings' = Encoding(coll, hits)
  /\ m_drcaloHits' = Added(m_drcaloHits, coll, [i \in DOMAIN hits |-> DRHit(hits[i])])
  /\ pending' = Tail(pending)
  /\ UNCHANGED <<config, phase, run, event, disk, m_file, m_runNo, m_frame, m_particles,
                 m_trackerHits, m_calorimeterHits, committed>>

saveCollection ==
  \/ \E coll \in TrackerColls \cup CaloColls, tracks \in Tracks : SaveHits(coll, tracks)
  \/ \E coll \in DRColls, hits \in DRHits : SaveDRHits(coll, hits)

-----------------------------------------------------------------------------
\* The frame with the collections put into it.  That the contributions go
\* with the calorimeter hits, and the time structures and wavelengths with
\* the DR hits, under names of their own, is left out.
Filled ==
  [n \in DOMAIN m_frame \cup {"MCParticles"} \cup DOMAIN m_trackerHits
           \cup DOMAIN m_calorimeterHits \cup DOMAIN m_drcaloHits |->
     CASE n \in DOMAIN m_trackerHits -> m_trackerHits[n]
       [] n \in DOMAIN m_calorimeterHits -> m_calorimeterHits[n]
       [] n \in DOMAIN m_drcaloHits -> m_drcaloHits[n]
       [] n = "MCParticles" -> m_particles
       [] OTHER -> m_frame[n]]

\* commit: write the frame and clear what it was made of; without a file it
\* throws.
commit ==
  /\ phase = "saving" /\ pending = << >>
  /\ IF m_file = NoFile
     THEN Failed /\ UNCHANGED <<m_trackerHits, m_calorimeterHits, m_drcaloHits,
                                m_cellIDEncodingStrings>>
     ELSE /\ phase' = "run"
          /\ disk' = [disk EXCEPT ![m_file].events = Append(@, Filled)]
          /\ committed' = committed \cup {[uid |-> Uid, file |-> m_file]}
          /\ m_frame' = EmptyFrame /\ Cleared
          /\ UNCHANGED <<config, run, event, pending, m_file, m_runNo,
                         m_cellIDEncodingStrings>>

-----------------------------------------------------------------------------
Init ==
  /\ config \in Configs
  /\ phase = "idle" /\ run = -1 /\ event = 0 /\ pending = << >>
  /\ disk = << >> /\ committed = {}
  /\ m_file = NoFile /\ m_runNo = 0 /\ m_frame = EmptyFrame
  /\ m_particles = NoParticles
  /\ m_trackerHits = << >> /\ m_calorimeterHits = << >> /\ m_drcaloHits = << >>
  /\ m_cellIDEncodingStrings = {}

Next ==
  \/ beginRun
  \/ endRun
  \/ begin
  \/ \E n \in 0 .. MaxParticles : saveEvent(n)
  \/ saveCollection
  \/ commit

Spec == Init /\ [][Next]_vars

-----------------------------------------------------------------------------
(***************************************************************************)
(* Properties.                                                             *)
(***************************************************************************)
Frames(name) == Range(disk[name].events)

HitColls(frame) == DOMAIN frame \ {"EventHeader", "MCParticles"}

\* The process, the files and the members have their types, and an event is
\* only saved to a file that is open.
TypeOK ==
  /\ phase \in {"idle", "run", "begun", "saving", "crashed", "aborted"}
  /\ run \in -1 .. MaxRuns /\ event \in 0 .. MaxEvents
  /\ m_file = NoFile \/ m_file \in DOMAIN disk
  /\ phase \in {"begun", "saving"} => m_file = NoFile \/ disk[m_file].state = "open"
  /\ m_cellIDEncodingStrings \subseteq Colls
  /\ DOMAIN m_trackerHits \subseteq TrackerColls /\ DOMAIN m_drcaloHits \subseteq DRColls

\* All of a frame is of the event in its header, and its hits have their
\* particles in it.
OneEvent(frame) ==
  LET uid == frame["EventHeader"].uid IN
  /\ HitColls(frame) = Colls
  /\ frame["MCParticles"].n > 0 => frame["MCParticles"].uid = uid
  /\ \A coll \in HitColls(frame) : \A hit \in Range(frame[coll]) : hit.uid = uid
  /\ \A coll \in TrackerColls \cup CaloColls : \A hit \in Range(frame[coll]) :
       hit.particle < frame["MCParticles"].n

\* What is written under an event's header came from that event, all of it,
\* whatever an event before it that failed half way has left; and a hit in the
\* file has a particle in the file (saveEvent, saveCollection, commit).
FramesHoldOneEvent ==
  \A name \in DOMAIN disk : \A frame \in Frames(name) : OneEvent(frame)

Uids(name) ==
  [i \in DOMAIN disk[name].events |-> disk[name].events[i]["EventHeader"].uid]

Later(u, v) == u[1] < v[1] \/ (u[1] = v[1] /\ u[2] < v[2])

\* The events committed to a file are in it, once each and in their order;
\* where each run has a file of its own no run loses those of another.
CommittedEventsAreKept ==
  /\ \A name \in DOMAIN disk : \A i, j \in DOMAIN Uids(name) :
       i < j => Later(Uids(name)[i], Uids(name)[j])
  /\ \A name \in DOMAIN disk :
       \A u \in Range(Uids(name)) : [uid |-> u, file |-> name] \in committed
  /\ \A c \in committed :
       \/ c.uid \in Range(Uids(c.file))
       \/ c.uid[1] < run /\ ~ (config.filesByRun /\ config.extension)

\* A file that is finished has one header of its run and one frame of
\* metadata, with an encoding for each collection its events have; and these have
\* the run number of that header, unless it comes from the input.
FinishedFilesAreComplete ==
  \A name \in DOMAIN disk : disk[name].state = "finished" =>
    /\ Len(disk[name].runs) = 1 /\ Len(disk[name].metadata) = 1
    /\ \A frame \in Frames(name) :
         /\ HitColls(frame) \subseteq Last(disk[name].metadata)
         /\ config.input \/ frame["EventHeader"].run = disk[name].runs[1]

=============================================================================
