---------------------------- MODULE StreamTimers ----------------------------
(***************************************************************************)
(* The three clocks of the CIAP in nanoseconds (advance_streaming of       *)
(* runner/src/cdic.c), each advanced by every device quantum: the latency  *)
(* of a command completion, the audio buffer that plays and the sector     *)
(* under the head. This is the build without CDI_STREAMING_HLE, and the    *)
(* abstract specification of the one with it.                              *)
(*                                                                         *)
(* What an event does to the rest of the device is the subject of Ciap;    *)
(* here it is the choice of what follows: another buffer or none, a        *)
(* completion or none, a next sector or the end of the disc.               *)
(***************************************************************************)
EXTENDS Integers

CONSTANTS
  Steps,          \* the lengths a quantum can have, each an already truncated integer
  Quantum,        \* the length of the halted CPU's quantum
  MaxIdle,        \* the most quanta an idle job takes at once
  Durations,      \* how long an ADPCM buffer can play
  ApLatency,      \* 20 us
  SectorPeriod    \* 1/75 s

ASSUME PeriodsAssumption ==
  /\ Steps \subseteq Nat \ {0} /\ Quantum \in Nat \ {0} /\ MaxIdle \in Nat
  /\ Durations \subseteq Nat \ {0} /\ Durations # {}
  /\ ApLatency \in Nat \ {0} /\ SectorPeriod \in Nat \ {0}
  \* A quantum is shorter than a sound buffer and than a sector.
  /\ \A s \in Steps : s < SectorPeriod /\ \A d \in Durations : s < d

VARIABLES
  ap_completion_pending, ap_completion_delay,
  audio_active, audio_remaining,
  data_running, sector_elapsed,
  fired                    \* the events of the last step

timers == <<ap_completion_pending, ap_completion_delay, audio_active, audio_remaining,
            data_running, sector_elapsed>>

Init ==
  /\ ap_completion_pending = FALSE /\ ap_completion_delay = 0
  /\ audio_active = FALSE /\ audio_remaining = 0
  /\ data_running = FALSE /\ sector_elapsed = 0
  /\ fired = {}

-----------------------------------------------------------------------------
(* advance_streaming(step). *)

ApDue(step) == ap_completion_pending /\ step >= ap_completion_delay
AudioDue(step) == audio_active /\ step >= audio_remaining
SectorDue(step) == data_running /\ sector_elapsed + step >= SectorPeriod

\* The completion; a consumed last buffer may request the next one.
AdvanceAp(step, requests) ==
  /\ ap_completion_pending' = (requests \/ (ap_completion_pending /\ ~ApDue(step)))
  /\ ap_completion_delay' = IF requests THEN ApLatency
                            ELSE IF ~ap_completion_pending THEN ap_completion_delay
                            ELSE IF ApDue(step) THEN 0
                            ELSE ap_completion_delay - step

\* The buffer that plays; the rest of the step counts for the one after it.
AdvanceAudio(step, again, duration) ==
  /\ audio_active' = (audio_active /\ (AudioDue(step) => again))
  /\ audio_remaining' = IF ~audio_active THEN audio_remaining
                        ELSE IF ~AudioDue(step) THEN audio_remaining - step
                        ELSE IF again THEN duration - (step - audio_remaining)
                        ELSE 0

AdvanceSector(step, goes_on) ==
  /\ data_running' = (data_running /\ (SectorDue(step) => goes_on))
  /\ sector_elapsed' = IF ~data_running THEN sector_elapsed
                       ELSE IF SectorDue(step) THEN sector_elapsed + step - SectorPeriod
                       ELSE sector_elapsed + step

Advance(step) ==
  \E again, finishes, goes_on \in BOOLEAN, duration \in Durations :
    /\ AdvanceAp(step, AudioDue(step) /\ ~again /\ finishes)
    /\ AdvanceAudio(step, again, duration)
    /\ AdvanceSector(step, goes_on)
    /\ fired' = (IF ApDue(step) THEN {"AP"} ELSE {})
                  \cup (IF AudioDue(step) THEN {"REFILL"} ELSE {})
                  \cup (IF SectorDue(step) THEN {"SECTOR"} ELSE {})

\* An idle job: several quanta in which nothing falls due.
AdvanceQuietly(n) ==
  LET step == n * Quantum
  IN  ~ApDue(step) /\ ~AudioDue(step) /\ ~SectorDue(step) /\ Advance(step)

-----------------------------------------------------------------------------
(* What the register writes and transport calls do to the clocks. *)

Requested == ap_completion_pending' = TRUE /\ ap_completion_delay' = ApLatency
ApKept == UNCHANGED <<ap_completion_pending, ap_completion_delay>>
AudioKept == UNCHANGED <<audio_active, audio_remaining>>
StreamKept == UNCHANGED <<data_running, sector_elapsed>>

\* request_ap_completion.
RequestAp == Requested /\ AudioKept /\ StreamKept

\* start_audio_buffer.
StartAudio ==
  /\ ~audio_active
  /\ audio_active' = TRUE /\ audio_remaining' \in Durations
  /\ ApKept /\ StreamKept

\* APCR $0006.
ResetAudio ==
  /\ ap_completion_pending' = FALSE /\ ap_completion_delay' = 0
  /\ audio_active' = FALSE /\ audio_remaining' = 0
  /\ StreamKept

\* CCR start, and a resume.
StartStream == data_running' = TRUE /\ sector_elapsed' = 0 /\ ApKept /\ AudioKept

\* A pause, and CCR $0040.
StopStream == data_running' = FALSE /\ UNCHANGED sector_elapsed /\ ApKept /\ AudioKept

\* reset_data_path.
ResetStream == data_running' = FALSE /\ sector_elapsed' = 0 /\ ApKept /\ AudioKept

\* DLOAD bit 0 leaves the delay of the cancelled completion.
Restart ==
  /\ ap_completion_pending' = FALSE /\ UNCHANGED ap_completion_delay
  /\ audio_active' = FALSE /\ audio_remaining' = 0
  /\ data_running' = FALSE /\ sector_elapsed' = 0

Command ==
  /\ \/ RequestAp \/ StartAudio \/ ResetAudio
     \/ StartStream \/ StopStream \/ ResetStream \/ Restart
  /\ fired' = {}

\* A register read or any other access that leaves the clocks alone.
Access == fired' = {} /\ UNCHANGED timers

TimersNext ==
  \/ \E step \in Steps : Advance(step)
  \/ \E n \in 2 .. MaxIdle : AdvanceQuietly(n)
  \/ Command
  \/ Access

TimersSpec == Init /\ [][TimersNext]_<<timers, fired>>
=============================================================================
