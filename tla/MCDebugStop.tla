----------------------------- MODULE MCDebugStop -----------------------------
(* Stops for TLC, in a loop of a plain instruction 0, a job 1 .. 2 and a span  *)
(* of two words, 3 .. 4 with the loop control 5.                               *)
EXTENDS DebugStop

StopAt(pc, skip, delay) == [pc |-> pc, skip |-> skip, delay |-> delay]

\* Inside the job, at the first operation of a word, inside it, and at the loop control.
MCStops == {StopAt(2, 0, 0), StopAt(3, 0, 1), StopAt(4, 0, 0), StopAt(4, 1, 0), StopAt(5, 0, 0)}

\* Stops that let the run go on for two instructions.
MCRaceStops == {StopAt(pc, 0, 2) : pc \in 0 .. 2}
=============================================================================
