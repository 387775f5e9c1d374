------------------------------ MODULE AudioRing ------------------------------
(***************************************************************************)
(* cdi_audio.c: the ADPCM decoder and the ring of sample frames between    *)
(* the decoder and the front end.                                          *)
(*                                                                         *)
(* A sector is its coding and, for every sound unit, a parameter and raw   *)
(* samples; the sound groups are one group and the samples of a unit are   *)
(* as many as the sector gives.  The ring has RingFrames slots and its two *)
(* indices count modulo IndexTop, a multiple of RingFrames (2^17 and       *)
(* 2^32).  Decoder and front end take their steps in any order, as the     *)
(* atomic indices allow.                                                   *)
(***************************************************************************)
EXTENDS Integers, Sequences
LOCAL INSTANCE SequencesExt

CONSTANTS
    AudioSectors,   \* the sectors the disc may hold
    RingFrames,     \* AUDIO_RING_FRAMES
    IndexTop,       \* 2^32
    Capacities,     \* how much the front end reads at once
    MaxSectors      \* bound: sectors decoded since the last reset

ASSUME AudioAssumption ==
    /\ RingFrames \in Nat \ {0} /\ IndexTop \in Nat /\ IndexTop > RingFrames
    /\ IndexTop % RingFrames = 0 /\ MaxSectors \in Nat /\ Capacities \subseteq Nat

VARIABLES
    audio,      \* previous, ring, write_index, read_index, dropped_frames
    emitting,   \* the frames of the sector being decoded that are not yet emitted
    stored,     \* a frame is in its slot and the write index not yet moved
    reading,    \* what the front end found available, or nothing
    decoded,    \* history: the sectors decoded since the last reset
    queue       \* history: the frames emitted, not dropped, not yet read

audio_vars == <<audio, emitting, stored, reading, decoded, queue>>

(***************************************************************************)
(* decode_sample.  A shift right of a negative number rounds down.         *)
(***************************************************************************)
clamp_sample(v) == IF v > 32767 THEN 32767 ELSE IF v < -32768 THEN -32768 ELSE v

Filter == <<<<0, 0>>, <<60, 0>>, <<115, -52>>, <<98, -55>>>>

SignExtended(raw, bits) == IF raw >= 2^(bits - 1) THEN raw - 2^bits ELSE raw

\* The next sample of a channel whose last two samples are p[1] and p[2].
NextSample(raw, parameter, p, eight_bit) ==
    LET shift  == IF parameter % 16 > 12 THEN 12 ELSE parameter % 16
        index  == IF parameter \div 16 > 3 THEN 0 ELSE parameter \div 16
        source == IF eight_bit THEN SignExtended(raw, 8) * 2^8
                  ELSE SignExtended(raw, 4) * 2^12
        taps   == Filter[index + 1]
    IN  clamp_sample((source \div 2^shift)
                       + ((p[1] * taps[1] + p[2] * taps[2] + 32) \div 64))

\* Faulty variant: both channels predict from one history.
Faulty_channel(stereo, unit) == 0

channel(stereo, unit) == IF stereo THEN (unit - 1) % 2 ELSE 0

\* The samples of one group, unit after unit, and the channels' last samples.
DecodeUnit(previous, sector, u) ==
    LET c == channel(sector.stereo, u)
        one(acc, raw) ==
            LET s == NextSample(raw, sector.units[u].parameter, acc.p, sector.eight_bit)
            IN  [p |-> <<s, acc.p[1]>>, out |-> Append(acc.out, s)]
    IN  FoldLeft(one, [p |-> previous[c], out |-> << >>], sector.units[u].raw)

DecodeGroup(previous, sector) ==
    LET unit(acc, u) ==
            LET d == DecodeUnit(acc.previous, sector, u)
            IN  [previous |-> [acc.previous EXCEPT ![channel(sector.stereo, u)] = d.p],
                 out |-> Append(acc.out, d.out)]
    IN  FoldLeft(unit, [previous |-> previous, out |-> << >>],
                 [u \in DOMAIN sector.units |-> u])

\* The frames of the decoded units: pairs of units in stereo, and every frame
\* twice at half the rate.
Twice(s) == [i \in 1 .. 2 * Len(s) |-> s[(i + 1) \div 2]]

Frames(sector, out) ==
    LET pairs == IF sector.stereo
                 THEN FlattenSeq([i \in 1 .. Len(out) \div 2 |->
                                    Zip(out[2 * i - 1], out[2 * i])])
                 ELSE FlattenSeq([u \in DOMAIN out |-> Zip(out[u], out[u])])
    IN  IF sector.half_rate THEN Twice(pairs) ELSE pairs

(***************************************************************************)
(* The reference: every channel is one stream of samples, each predicted   *)
(* from the two before it in the same channel, over all sectors decoded.   *)
(***************************************************************************)
Owner(sector, u) == IF sector.stereo THEN (u - 1) % 2 ELSE 0

Inputs(sector, c) ==
    LET own == SelectSeq([u \in DOMAIN sector.units |-> u],
                         LAMBDA u : Owner(sector, u) = c)
        unit(u) == [i \in DOMAIN sector.units[u].raw |->
                       [raw |-> sector.units[u].raw[i], eight_bit |-> sector.eight_bit,
                        parameter |-> sector.units[u].parameter]]
    IN  FlattenSeq([j \in DOMAIN own |-> unit(own[j])])

Predicted(inputs) ==
    LET s[n \in -1 .. Len(inputs)] ==
            IF n < 1 THEN 0
            ELSE NextSample(inputs[n].raw, inputs[n].parameter,
                            <<s[n - 1], s[n - 2]>>, inputs[n].eight_bit)
    IN  [n \in DOMAIN inputs |-> s[n]]

\* The samples of channel c in sector k of the sectors decoded.
Heard(k, c) ==
    LET stream == FlattenSeq([j \in 1 .. k |-> Inputs(decoded[j], c)])
        whole  == Predicted(stream)
    IN  SubSeq(whole, Len(whole) - Len(Inputs(decoded[k], c)) + 1, Len(whole))

\* The reference frames of the last sector decoded.
Reference ==
    LET k     == Len(decoded)
        pairs == Zip(Heard(k, 0), Heard(k, IF decoded[k].stereo THEN 1 ELSE 0))
    IN  IF decoded[k].half_rate THEN Twice(pairs) ELSE pairs

(***************************************************************************)
(* The decoder.                                                            *)
(***************************************************************************)
AudioReset == [previous |-> [c \in 0 .. 1 |-> <<0, 0>>],
               ring |-> [i \in 0 .. RingFrames - 1 |-> <<0, 0>>],
               write_index |-> 0, read_index |-> 0, dropped_frames |-> 0]

\* The reset of the CIAP; it runs on the front end's thread, between pumps.
cdi_audio_reset ==
    /\ emitting = << >> /\ ~stored /\ reading = << >>
    /\ audio' = [AudioReset EXCEPT !.ring = audio.ring]
    /\ decoded' = << >> /\ queue' = << >>
    /\ UNCHANGED <<emitting, stored, reading>>

\* A sector that is not an audio sector of mode 2 is not decoded.
decode_groups(sector) ==
    /\ emitting = << >> /\ Len(decoded) < MaxSectors
    /\ LET d == DecodeGroup(audio.previous, sector)
       IN  /\ audio' = [audio EXCEPT !.previous = d.previous]
           /\ emitting' = Frames(sector, d.out)
    /\ decoded' = Append(decoded, sector)
    /\ UNCHANGED <<stored, reading, queue>>

Distance(to, from) == (to - from) % IndexTop
Slot(index) == index % RingFrames

\* Faulty variant: the indices are compared as they are.
Faulty_Full == audio.write_index >= audio.read_index + RingFrames

Full == Distance(audio.write_index, audio.read_index) >= RingFrames

\* emit_frame: the ring is full, or the frame goes into its slot ...
Drop ==
    /\ emitting # << >> /\ ~stored /\ Full
    /\ audio' = [audio EXCEPT !.dropped_frames = @ + 1]
    /\ emitting' = Tail(emitting)
    /\ UNCHANGED <<stored, reading, decoded, queue>>

Put ==
    /\ emitting # << >> /\ ~stored /\ ~Full
    /\ audio' = [audio EXCEPT !.ring[Slot(audio.write_index)] = Head(emitting)]
    /\ stored' = TRUE
    /\ UNCHANGED <<emitting, reading, decoded, queue>>

\* ... and then the index moves.
Publish ==
    /\ stored
    /\ audio' = [audio EXCEPT !.write_index = (@ + 1) % IndexTop]
    /\ stored' = FALSE /\ emitting' = Tail(emitting)
    /\ queue' = Append(queue, Head(emitting))
    /\ UNCHANGED <<reading, decoded>>

(***************************************************************************)
(* The front end: cdi_audio_read_frames.                                   *)
(***************************************************************************)
Look(capacity) ==
    LET there == Distance(audio.write_index, audio.read_index)
        count == IF there > capacity THEN capacity ELSE there
    IN  /\ reading = << >> /\ count > 0
        /\ reading' = [i \in 1 .. count |->
                         audio.ring[Slot(audio.read_index + i - 1)]]
        /\ UNCHANGED <<audio, emitting, stored, decoded, queue>>

Take ==
    /\ reading # << >>
    /\ audio' = [audio EXCEPT !.read_index = (@ + Len(reading)) % IndexTop]
    /\ queue' = SubSeq(queue, Len(reading) + 1, Len(queue))
    /\ reading' = << >>
    /\ UNCHANGED <<emitting, stored, decoded>>

AudioInit ==
    /\ audio = AudioReset /\ emitting = << >> /\ stored = FALSE
    /\ reading = << >> /\ decoded = << >> /\ queue = << >>

AudioNext ==
    \/ cdi_audio_reset
    \/ \E sector \in AudioSectors : decode_groups(sector)
    \/ Drop \/ Put \/ Publish
    \/ \E capacity \in Capacities : Look(capacity)
    \/ Take

AudioSpec == AudioInit /\ [][AudioNext]_audio_vars

(***************************************************************************)
(* Properties.                                                             *)
(***************************************************************************)
(* cdi_audio.c:76: between its two indices the ring holds exactly the      *)
(* frames emitted and neither dropped nor read, in order, also when the    *)
(* indices wrap and when the front end reads while the decoder stores; and *)
(* what the front end is copying out is the front of that queue.           *)
FramesInOrder ==
    /\ Distance(audio.write_index, audio.read_index) = Len(queue)
    /\ Len(queue) <= RingFrames
    /\ \A i \in DOMAIN queue :
          audio.ring[Slot(audio.read_index + i - 1)] = queue[i]
    /\ reading = SubSeq(queue, 1, Len(reading))

(* decode_sample: the frames still to be emitted are the last ones of the  *)
(* reference: each is what is predicted for its channel from the samples   *)
(* before it in the same channel, over all sectors since the reset.        *)
DecodedIsReference ==
    emitting # << >> =>
        \A all \in {Reference} : emitting = SubSeq(all, Len(all) - Len(emitting) + 1, Len(all))

(* cdi_audio.c:76: what the front end hears is the reference, no frame     *)
(* lost, repeated or out of order but for those dropped at a full ring.    *)
RingIsQueue == FramesInOrder /\ DecodedIsReference
=============================================================================
