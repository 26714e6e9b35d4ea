----------------------- MODULE MCGeant4Output2EDM4hep -----------------------
(* Instances of Geant4Output2EDM4hep for TLC.                              *)
EXTENDS Geant4Output2EDM4hep

\* The tracks of an event's hits: of its particles, or of one too many that
\* the particle handler dropped.
MCTracks == {<< >>} \cup {<<t>> : t \in 0 .. 1} \cup {<<0, 1>>}

\* No hit, or one with photons outside of its range or not.
MCDRHits == {<< >>} \cup {<< <<below, 1, above>> >> : below, above \in {0, 2}}

Plain ==
  [output |-> "out", extension |-> TRUE, filesByRun |-> FALSE, errorsFatal |-> FALSE,
   offset |-> 0, input |-> FALSE]

\* A file by run, numbered from an offset; errors that end the job; a name
\* without extension, and none; run numbers from the input.
MCConfigs ==
  {Plain,
   [Plain EXCEPT !.filesByRun = TRUE, !.offset = 10],
   [Plain EXCEPT !.filesByRun = TRUE, !.errorsFatal = TRUE],
   [Plain EXCEPT !.filesByRun = TRUE, !.extension = FALSE, !.input = TRUE],
   [Plain EXCEPT !.output = ""]}
=============================================================================
