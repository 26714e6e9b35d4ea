--------------------------- MODULE MCFiberDRCalo ---------------------------
(* Instances of FiberDRCalo for TLC.                                       *)
EXTENDS FiberDRCalo

\* Hops that fit five times into the fibre: a photon made near its front has
\* one to spare after three reflections and the safety margin.
MCOrigins == {1}
MCHops == {2}

\* Absorbed in the next hop, in what is left after the safety margin, on the
\* way to the end, and not at all.
MCNILLs == {1, 2, 6, 30}

\* Two photons in an event, and one in the next with an id of its own.
TwoThenOther == <<{1, 2}, {3}>>

\* The same id in both events.
SameInBoth == <<{1}, {1}>>
=============================================================================
