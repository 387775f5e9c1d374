------------------------------- MODULE MCCiap -------------------------------
(* Constants of Ciap for TLC. *)
EXTENDS Ciap, TLC

Plain == [mode2 |-> TRUE, agree |-> TRUE, file |-> 1, channel |-> 1,
          events |-> {}, eor |-> FALSE, audio |-> FALSE]

\* A stream of file 1: music on channel 1, a trigger on the unselected channel 2,
\* a record end on channel 1.
Movie == (0 :> [Plain EXCEPT !.audio = TRUE]) @@
         (1 :> [Plain EXCEPT !.channel = 2, !.events = {"TRIGGER"}]) @@
         (2 :> [Plain EXCEPT !.eor = TRUE])

\* A damaged subheader, a sector of another file, a mode 1 sector at the end of file.
Scratched == (0 :> [Plain EXCEPT !.agree = FALSE]) @@
             (1 :> [Plain EXCEPT !.file = 2]) @@
             (2 :> [Plain EXCEPT !.mode2 = FALSE, !.events = {"FILE_END"}])

Trigger == 0 :> [Plain EXCEPT !.events = {"TRIGGER"}]

Films == {Movie, Scratched}
MCDiscs == Films \cup {Trigger}
OneChannel == {{1}}
MCIer == {{}, {"DATA", "AP"}}
PairRelease == {[data |-> Buffer, q |-> Buffer, adpcm |-> {}]}
SingleRelease == {[data |-> {b}, q |-> {}, adpcm |-> {}] : b \in Buffer}
HandOff == {[data |-> {}, q |-> {}, adpcm |-> a] : a \in {{0}, {1}, {0, 1}}}
MCBman == PairRelease \cup SingleRelease \cup HandOff
=============================================================================
