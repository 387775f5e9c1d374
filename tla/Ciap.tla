-------------------------------- MODULE Ciap --------------------------------
(***************************************************************************)
(* The CD interface and audio processor of a CD-i player                   *)
(* (runner/src/cdic.c): sector buffers handed to the host one at a time,   *)
(* locator reports, the event latch (ISR) with its interrupt line, and the *)
(* audio processor that plays the two ADPCM buffers.                       *)
(*                                                                         *)
(* BMAN is kept as the three sets of owned buffers its bits stand for, ISR *)
(* and IER as sets of event names, and a sector as the header fields that  *)
(* routing looks at. Time is counted in device quanta: one Tick is one     *)
(* call of advance_streaming. The CPU side of the interrupt line, the disc *)
(* and the transport calls of the drive controller are the environment.    *)
(***************************************************************************)
EXTENDS Naturals, FiniteSets

CONSTANTS
  Discs,         \* the discs that can be mounted: functions from 0 .. n-1 to Sector
  NoDisc,        \* an empty drive
  SeekTargets,   \* positions the drive controller may seek to
  Files,         \* words the host writes to FILE (0 is the wildcard)
  Masks,         \* channel sets the host writes to TCM1/ACM2
  AudioMasks,    \* channel sets the host writes to TACS
  IerMasks,      \* event sets the host writes to IER
  BmanWrites,    \* [data, q, adpcm] masks the host writes to BMAN
  Commands,      \* names of the commands this instance lets the host issue
  SectorTicks,   \* quanta per 1/75 s sector
  AudioTicks,    \* quanta a full ADPCM buffer plays for
  ApTicks        \* quanta of the 20 us command latency

Buffer == {0, 1}
StreamEvents == {"DATA", "QREADY", "TRIGGER", "FILE_END"}
AudioEvents  == {"REFILL", "AP"}
Events == StreamEvents \cup AudioEvents

Sector == [mode2 : BOOLEAN, agree : BOOLEAN, file : Nat, channel : 0 .. 31,
           events : SUBSET {"TRIGGER", "FILE_END"}, eor : BOOLEAN, audio : BOOLEAN]

ASSUME TicksAssumption ==
  /\ SectorTicks \in Nat \ {0}
  /\ AudioTicks \in Nat \ {0}
  /\ ApTicks \in Nat \ {0}

ASSUME InputAssumption ==
  /\ NoDisc \notin Discs
  /\ \A d \in Discs : \A l \in DOMAIN d : l \in Nat /\ d[l] \in Sector
  /\ SeekTargets \subseteq Nat
  /\ Files \subseteq Nat
  /\ \A m \in Masks : m \subseteq 0 .. 31
  /\ \A m \in AudioMasks : m \subseteq 0 .. 15
  /\ \A m \in IerMasks : m \subseteq Events
  /\ \A w \in BmanWrites :
       w.data \subseteq Buffer /\ w.q \subseteq Buffer /\ w.adpcm \subseteq Buffer

VARIABLES
  (* host-visible registers *)
  ier, isr,                \* enabled events, latched events
  icr,                     \* TRUE once the driver has programmed a level and vector
  data_owned, q_owned,     \* BMAN bits 2-3 and 4-5: buffers the host owns
  adpcm_owned,             \* BMAN bits 0-1: buffers handed to the audio processor
  file, mask, tacs,        \* FILE, TCM1/ACM2, TACS
  astat,                   \* ASTAT: "BUSY" while a buffer plays, "DONE" after a completion
  (* decoder *)
  content,                 \* what each data buffer holds
  next_data_buffer, next_q_buffer,
  drive_positioned, audio_positioned, drive_lba,
  data_running, data_path_armed, firmware_idle, q_reporting,
  selection_active, selection_header_pending,
  sector_elapsed,
  (* audio processor *)
  audio_playing, audio_buffer, audio_active, audio_remaining,
  audio_finish_requested, audio_select_pending,
  ap_completion_pending, ap_completion_delay,
  (* environment *)
  line,                    \* g_irq_pending at the level of ICR
  disc,                    \* the mounted disc, or NoDisc
  (* history, read by the properties only *)
  taken,                   \* events latched when the CPU last took the interrupt or ICR was set
  torn_down,               \* a decoder reset since the last CCR start
  delivered,               \* positions handed to the host since the last seek
  fresh,                   \* ADPCM buffers handed off and not yet decoded
  misuse                   \* the host took back or re-armed over a playing buffer

registers == <<ier, icr, file, mask, tacs>>
position  == <<drive_positioned, audio_positioned, drive_lba>>
buffers   == <<content, next_data_buffer, next_q_buffer, data_owned, q_owned>>
mode      == <<data_path_armed, firmware_idle, q_reporting>>
selection == <<selection_active, selection_header_pending>>
decoder   == <<position, buffers, mode, selection, data_running, sector_elapsed>>
playhead  == <<audio_buffer, audio_active, audio_remaining, audio_select_pending>>
audio     == <<playhead, audio_playing, audio_finish_requested, adpcm_owned>>
latency   == <<ap_completion_pending, ap_completion_delay>>
latch     == <<isr, line, taken>>
history   == <<torn_down, delivered>>
handoff   == <<fresh, misuse>>
vars == <<registers, decoder, audio, latency, astat, latch, disc, history, handoff>>

NoContent == [lba |-> 0, kind |-> "none"]

Init ==
  /\ ier = {} /\ isr = {} /\ icr = FALSE /\ line = FALSE /\ taken = {}
  /\ data_owned = {} /\ q_owned = {} /\ adpcm_owned = {}
  /\ file = 0 /\ mask = {} /\ tacs = {} /\ astat = {}
  /\ content = [b \in Buffer |-> NoContent]
  /\ next_data_buffer = 0 /\ next_q_buffer = 0
  /\ drive_positioned = FALSE /\ audio_positioned = FALSE /\ drive_lba = 0
  /\ data_running = FALSE /\ data_path_armed = FALSE
  /\ firmware_idle = TRUE /\ q_reporting = FALSE
  /\ selection_active = FALSE /\ selection_header_pending = FALSE
  /\ sector_elapsed = 0
  /\ audio_playing = FALSE /\ audio_buffer = 0 /\ audio_active = FALSE
  /\ audio_remaining = 0
  /\ audio_finish_requested = FALSE /\ audio_select_pending = FALSE
  /\ ap_completion_pending = FALSE /\ ap_completion_delay = 0
  /\ disc = NoDisc
  /\ torn_down = FALSE /\ delivered = {} /\ fresh = {} /\ misuse = FALSE

-----------------------------------------------------------------------------
(* The event latch and its interrupt line. *)

\* assert_interrupt_line raises the line for a latched and enabled event.
Interrupts(status, enabled) == icr /\ status \cap enabled # {}

\* Events set in the latch; the call that sets them asserts the line.
Latch(events) ==
  /\ isr' = isr \cup events
  /\ line' = (line \/ (events # {} /\ Interrupts(isr', ier)))
  /\ taken' = taken \ events

\* Events dropped from the latch: clear_interrupt_line, then assert_interrupt_line.
Drop(events) ==
  /\ isr' = isr \ events
  /\ line' = IF icr THEN Interrupts(isr', ier) ELSE line
  /\ taken' = taken \ events

\* cdic_read of ISR: acknowledge-on-read.
ReadIsr ==
  /\ isr' = {}
  /\ line' = (line /\ ~icr)
  /\ taken' = {}
  /\ UNCHANGED <<registers, decoder, audio, latency, astat, disc, history, handoff>>

\* Faulty variant: enabling an event that already waits does not raise the line.
Faulty_WriteIerSilent(enabled) ==
  /\ ier' = enabled
  /\ UNCHANGED <<latch, icr, file, mask, tacs>>
  /\ UNCHANGED <<decoder, audio, latency, astat, disc, history, handoff>>

\* handle_register_write, case CIAP_IER.
WriteIer(enabled) ==
  /\ ier' = enabled
  /\ line' = (line \/ Interrupts(isr, enabled))
  /\ UNCHANGED <<isr, taken, icr, file, mask, tacs>>
  /\ UNCHANGED <<decoder, audio, latency, astat, disc, history, handoff>>

\* ICR is a plain store: it raises nothing for the events that wait. The driver programs
\* one level, at any time, and keeps it.
WriteIcr ==
  /\ ~icr
  /\ icr' = TRUE
  /\ taken' = isr
  /\ UNCHANGED <<isr, line, ier, file, mask, tacs>>
  /\ UNCHANGED <<decoder, audio, latency, astat, disc, history, handoff>>

\* recomp_take_irq consumes the pending edge.
TakeInterrupt ==
  /\ line
  /\ line' = FALSE
  /\ taken' = isr
  /\ UNCHANGED <<isr, registers, decoder, audio, latency, astat, disc, history, handoff>>

-----------------------------------------------------------------------------
(* The audio processor. *)

\* start_audio_buffer with a pending selection settles it on a buffer the host has
\* handed over, as soon as there is one.
Settles(owned, pending) == pending /\ owned # {}
Chosen(owned, buffer, pending) ==
  IF Settles(owned, pending) /\ buffer \notin owned THEN 1 - buffer ELSE buffer

\* start_audio_buffer: the chosen buffer starts playing.
Starts(owned, playing, active, buffer) == playing /\ ~active /\ buffer \in owned

\* The assignments of start_audio_buffer to the audio state.
StartAudio(owned, playing, active, buffer, pending) ==
  LET b == Chosen(owned, buffer, pending)
      starts == Starts(owned, playing, active, b)
  IN  /\ audio_buffer' = b
      /\ audio_select_pending' = (pending /\ ~Settles(owned, pending))
      /\ audio_active' = (active \/ starts)
      /\ audio_remaining' = IF starts THEN AudioTicks ELSE audio_remaining
      /\ astat' = IF starts THEN astat \cup {"BUSY"} ELSE astat

\* handle_register_write, case CIAP_BMAN: release data and locator buffers,
\* toggle the ADPCM pair.
WriteBman(w) ==
  LET owned == (adpcm_owned \ w.adpcm) \cup (w.adpcm \ adpcm_owned)
      b == Chosen(owned, audio_buffer, audio_select_pending)
  IN  /\ data_owned' = data_owned \ w.data
      /\ q_owned' = q_owned \ w.q
      /\ adpcm_owned' = owned
      /\ StartAudio(owned, audio_playing, audio_active, audio_buffer,
                    audio_select_pending)
      /\ fresh' = (((fresh \ w.adpcm) \cup (w.adpcm \ adpcm_owned))
                     \ (IF Starts(owned, audio_playing, audio_active, b) THEN {b} ELSE {}))
      /\ misuse' = (misuse \/ (audio_active /\ audio_buffer \in w.adpcm))
      /\ UNCHANGED <<audio_playing, audio_finish_requested, latency>>
      /\ UNCHANGED <<content, next_data_buffer, next_q_buffer, position, mode,
                     selection, data_running, sector_elapsed>>
      /\ UNCHANGED <<registers, latch, disc, history>>

\* APCR $0200.
ApAck ==
  /\ "ACK" \in Commands
  /\ astat' = astat \ {"DONE"}
  /\ Drop({"AP"})
  /\ UNCHANGED <<registers, decoder, audio, latency, disc, history, handoff>>

\* The audio state after APCR $0006 and after a core restart.
AudioIdle ==
  /\ ap_completion_pending' = FALSE
  /\ audio_playing' = FALSE /\ audio_active' = FALSE
  /\ audio_finish_requested' = FALSE /\ audio_select_pending' = FALSE
  /\ audio_remaining' = 0
  /\ adpcm_owned' = {}
  /\ fresh' = {} /\ misuse' = FALSE
  /\ UNCHANGED audio_buffer

\* APCR $0006: the audio reset.
ApReset ==
  /\ "AP_RESET" \in Commands
  /\ AudioIdle
  /\ ap_completion_delay' = 0
  /\ astat' = {}
  /\ Drop(AudioEvents)
  /\ UNCHANGED <<registers, decoder, disc, history>>

\* APCR $0040 (arm = FALSE) and $0140 (arm = TRUE).
ApPlay(arm) ==
  LET buffer  == IF arm THEN 0 ELSE audio_buffer
      pending == ~arm /\ (audio_select_pending \/ ~audio_active)
      b == Chosen(adpcm_owned, buffer, pending)
  IN  /\ (IF arm THEN "ARM" ELSE "PLAY") \in Commands
      /\ audio_playing' = TRUE
      /\ audio_finish_requested' = FALSE
      /\ StartAudio(adpcm_owned, TRUE, audio_active, buffer, pending)
      /\ fresh' = fresh \ (IF Starts(adpcm_owned, TRUE, audio_active, b) THEN {b} ELSE {})
      /\ misuse' = (misuse \/ (audio_active /\ b # audio_buffer))
      /\ UNCHANGED <<adpcm_owned, latency, registers, decoder, latch, disc, history>>

\* request_ap_completion.
RequestApCompletion ==
  /\ ap_completion_pending' = TRUE
  /\ ap_completion_delay' = ApTicks

\* APCR $0020: complete now if nothing is queued, else after the last buffer.
ApFinish ==
  LET idle == ~audio_active /\ adpcm_owned = {}
  IN  /\ "FINISH" \in Commands
      /\ audio_finish_requested' = ~idle
      /\ audio_playing' = (audio_playing /\ ~idle)
      /\ IF idle THEN RequestApCompletion
                 ELSE UNCHANGED latency
      /\ UNCHANGED <<playhead, adpcm_owned, astat>>
      /\ UNCHANGED <<registers, decoder, latch, disc, history, handoff>>

\* APCR $00A0 and every other value with the interrupt-enable bit ($0142, $0101).
ApIntNow ==
  /\ "INTNOW" \in Commands
  /\ RequestApCompletion
  /\ UNCHANGED <<registers, decoder, audio, astat, latch, disc, history, handoff>>

-----------------------------------------------------------------------------
(* The decoder's commands. *)

\* reset_data_path: the decoder state after it; the audio pair survives.
ResetDecoder ==
  /\ data_running' = FALSE /\ data_path_armed' = FALSE
  /\ selection_active' = FALSE /\ selection_header_pending' = FALSE
  /\ q_reporting' = FALSE
  /\ next_data_buffer' = 0 /\ sector_elapsed' = 0
  /\ data_owned' = {} /\ q_owned' = {}
  /\ torn_down' = TRUE
  /\ UNCHANGED <<content, next_q_buffer, position, delivered>>

\* Faulty variant: the decoder reset cancels the audio processor as well.
Faulty_ResetCancelsAudio ==
  /\ "RESET" \in Commands
  /\ ResetDecoder
  /\ Drop(StreamEvents)
  /\ audio_active' = FALSE /\ audio_playing' = FALSE
  /\ adpcm_owned' = {} /\ astat' = {} /\ fresh' = {}
  /\ UNCHANGED <<audio_buffer, audio_remaining, audio_select_pending>>
  /\ UNCHANGED <<audio_finish_requested, latency, firmware_idle, registers, disc, misuse>>

\* CCR $0100.
CcrReset ==
  /\ "RESET" \in Commands
  /\ ResetDecoder
  /\ Drop(StreamEvents)
  /\ UNCHANGED <<firmware_idle, registers, audio, latency, astat, disc, handoff>>

\* CCR $0040: parks the decoder and keeps buffer ownership.
CcrMemoryPlay ==
  /\ "MEMORY_PLAY" \in Commands
  /\ data_running' = FALSE
  /\ UNCHANGED <<position, buffers, mode, selection, sector_elapsed>>
  /\ UNCHANGED <<registers, audio, latency, astat, latch, disc, history, handoff>>

\* CCR $0008.
CcrSelect ==
  /\ "ASEL" \in Commands
  /\ selection_active' = TRUE /\ selection_header_pending' = TRUE
  /\ UNCHANGED <<position, buffers, mode, data_running, sector_elapsed>>
  /\ UNCHANGED <<registers, audio, latency, astat, latch, disc, history, handoff>>

\* CCR $00C4 (locators = FALSE); $0010, $0044 and $0094 (locators = TRUE).
CcrStart(locators) ==
  /\ (IF locators THEN "STARTQ" ELSE "STARTD") \in Commands
  /\ data_path_armed' = TRUE /\ data_running' = TRUE
  /\ firmware_idle' = FALSE
  /\ q_reporting' = locators
  /\ sector_elapsed' = 0
  /\ torn_down' = FALSE
  /\ UNCHANGED <<position, buffers, selection, delivered>>
  /\ UNCHANGED <<registers, audio, latency, astat, latch, disc, handoff>>

\* DLOAD bit 0: the core restarts. ap_completion_delay is left as it is.
Download ==
  /\ "DLOAD" \in Commands
  /\ ResetDecoder
  /\ AudioIdle
  /\ astat' = {}
  /\ firmware_idle' = TRUE
  /\ isr' = {} /\ taken' = {}
  /\ line' = (line /\ ~icr)
  /\ UNCHANGED <<ap_completion_delay, registers, disc>>

\* FILE, TCM1/ACM2 and TACS are plain stores, one register at a time.
WriteSelection(f, m, t) ==
  /\ \/ m = mask /\ t = tacs
     \/ f = file /\ t = tacs
     \/ f = file /\ m = mask
  /\ file' = f /\ mask' = m /\ tacs' = t
  /\ UNCHANGED <<ier, icr>>
  /\ UNCHANGED <<decoder, audio, latency, astat, latch, disc, history, handoff>>

-----------------------------------------------------------------------------
(* The drive controller's calls. *)

\* cdic_transport_pause.
TransportPause ==
  /\ "PAUSE" \in Commands
  /\ data_running' = FALSE
  /\ UNCHANGED <<position, buffers, mode, selection, sector_elapsed>>
  /\ UNCHANGED <<registers, audio, latency, astat, latch, disc, history, handoff>>

\* Faulty variant: the decoder's arm is not asked for.
Faulty_ResumeUnarmed == drive_positioned /\ ~audio_positioned

\* cdic_transport_resume: a no-op unless the decoder is armed on a data seek.
ResumeAllowed == data_path_armed /\ drive_positioned /\ ~audio_positioned

TransportResume ==
  /\ "RESUME" \in Commands
  /\ ResumeAllowed
  /\ data_running' = TRUE
  /\ sector_elapsed' = 0
  /\ UNCHANGED <<position, buffers, mode, selection>>
  /\ UNCHANGED <<registers, audio, latency, astat, latch, disc, history, handoff>>

\* cdic_set_drive_position.
SetDrivePosition(lba, for_audio) ==
  /\ (IF for_audio THEN "SEEK_AUDIO" ELSE "SEEK") \in Commands
  /\ drive_lba' = lba
  /\ drive_positioned' = TRUE
  /\ audio_positioned' = for_audio
  /\ data_running' = (data_running /\ ~for_audio)
  /\ delivered' = {}
  /\ UNCHANGED <<buffers, mode, selection, sector_elapsed, torn_down>>
  /\ UNCHANGED <<registers, audio, latency, astat, latch, disc, handoff>>

\* cdi_media_mount and cdi_media_eject (external); a mount replaces the disc.
Mount(d) ==
  /\ disc' = d
  /\ UNCHANGED <<registers, decoder, audio, latency, astat, latch, history, handoff>>

Eject ==
  /\ disc' = NoDisc
  /\ UNCHANGED <<registers, decoder, audio, latency, astat, latch, history, handoff>>

-----------------------------------------------------------------------------
(* One sector passing the head: deliver_one_sector. *)

Intact(s) == s.mode2 /\ s.agree

\* The number of a file is a byte. A FILE of $100 is the wildcard of the payload's
\* selection, which masks it first, and no file's number to the events and headers.
FileNumber == file % 256
OfSelectedFile(s) == FileNumber = 0 \/ FileNumber = s.file
OfFile(s) == file = 0 \/ FileNumber = s.file

\* sector_selected.
Selected(s) ==
  \/ ~selection_active
  \/ ~s.mode2
  \/ s.agree /\ OfSelectedFile(s) /\ s.channel \in mask

\* Trigger and end-of-file are file-wide: the payload's channel is not asked.
FileEvents(s) ==
  IF Intact(s) /\ (~selection_active \/ OfFile(s)) THEN s.events ELSE {}

\* A filtered sector that still notifies the host with its header.
MetadataOnly(s) ==
  /\ ~Selected(s) /\ Intact(s)
  /\ \/ selection_header_pending
     \/ s.events = {} /\ ~s.eor /\ OfFile(s)

DirectAudio(s) == Selected(s) /\ s.audio /\ s.channel \in tacs

DataBuffersFull == data_owned = Buffer

\* Faulty variant: strict alternation, whoever owns the buffer.
Faulty_Alternate == next_data_buffer

\* The sector's host notification goes to the next buffer, or to the other one
\* when the host still owns it.
FillBuffer == IF next_data_buffer \in data_owned THEN 1 - next_data_buffer
                                                 ELSE next_data_buffer

Fills(s) == (Selected(s) \/ MetadataOnly(s)) /\ ~DataBuffersFull

\* The events a passing sector latches.
SectorEvents(s) ==
  FileEvents(s) \cup (IF q_reporting THEN {"QREADY"} ELSE {})
                \cup (IF Fills(s) THEN {"DATA"} ELSE {})

\* Faulty variant: the head waits while the host owns both buffers.
Faulty_HeadHeld(s) == IF DataBuffersFull THEN drive_lba ELSE drive_lba + 1

\* Faulty variant: a header-only sector is read again.
Faulty_HeadRepeats(s) == IF MetadataOnly(s) THEN drive_lba ELSE drive_lba + 1

\* Every sector that was read moves the head, delivered or not.
HeadAfter(s) == drive_lba + 1

\* The decoder after sector s at the head has been read.
PassSector(s) ==
  /\ selection_header_pending' = FALSE
  /\ q_owned' = IF q_reporting THEN q_owned \cup {next_q_buffer} ELSE q_owned
  /\ next_q_buffer' = IF q_reporting THEN 1 - next_q_buffer ELSE next_q_buffer
  /\ drive_lba' = HeadAfter(s)
  /\ IF Fills(s)
     THEN /\ content' = [content EXCEPT ![FillBuffer] =
                [lba |-> drive_lba,
                 kind |-> IF DirectAudio(s) \/ MetadataOnly(s)
                          THEN "header" ELSE "payload"]]
          /\ data_owned' = data_owned \cup {FillBuffer}
          /\ next_data_buffer' = 1 - FillBuffer
          /\ delivered' = delivered \cup {drive_lba}
     ELSE UNCHANGED <<content, data_owned, next_data_buffer, delivered>>
  /\ UNCHANGED data_running

-----------------------------------------------------------------------------
(* One device quantum: advance_streaming. The command completion comes first,  *)
(* then the audio buffer, then the sector.                                     *)

ApDue     == ap_completion_pending /\ ap_completion_delay <= 1
AudioDue  == audio_active /\ audio_remaining <= 1

SectorDue == data_running /\ sector_elapsed + 1 >= SectorTicks
Reading   == SectorDue /\ drive_positioned /\ disc # NoDisc
Readable  == Reading /\ drive_lba \in DOMAIN disc

\* Faulty variant: a consumed buffer stays with the audio processor.
Faulty_KeptBuffer == adpcm_owned

\* What start_audio_buffer finds when the current buffer has been consumed: the
\* buffers still handed over, the one it chooses, whether that one starts.
StillOwned == adpcm_owned \ {audio_buffer}
NextBuffer == Chosen(StillOwned, 1 - audio_buffer, audio_select_pending)
PlaysOn    == Starts(StillOwned, audio_playing, FALSE, NextBuffer)

\* The last buffer was consumed and the host had asked to finish.
Finishes == AudioDue /\ ~PlaysOn /\ audio_finish_requested

TickAudio ==
  IF AudioDue
  THEN /\ adpcm_owned' = StillOwned
       /\ audio_buffer' = NextBuffer
       /\ audio_select_pending' = (audio_select_pending
                                     /\ ~Settles(StillOwned, audio_select_pending))
       /\ audio_active' = PlaysOn
       /\ audio_remaining' = IF PlaysOn THEN AudioTicks ELSE 0
       /\ audio_playing' = (audio_playing /\ ~Finishes)
       /\ audio_finish_requested' = (audio_finish_requested /\ ~Finishes)
       /\ fresh' = fresh \ (IF PlaysOn THEN {NextBuffer} ELSE {})
  ELSE /\ audio_remaining' = IF audio_active THEN audio_remaining - 1
                                             ELSE audio_remaining
       /\ UNCHANGED <<adpcm_owned, audio_buffer, audio_select_pending, audio_active,
                      audio_playing, audio_finish_requested, fresh>>

ApDelayAfter ==
  CASE ~ap_completion_pending -> ap_completion_delay
    [] ApDue                  -> 0
    [] OTHER                  -> ap_completion_delay - 1

TickAp ==
  /\ IF Finishes THEN RequestApCompletion
     ELSE /\ ap_completion_pending' = (ap_completion_pending /\ ~ApDue)
          /\ ap_completion_delay' = ApDelayAfter
  /\ astat' = ((astat \cup (IF ApDue THEN {"DONE"} ELSE {}))
                 \ (IF AudioDue /\ ~PlaysOn THEN {"BUSY"} ELSE {}))

\* ejected: the debug server ejects between the presence test and the read.
TickSector(ejected) ==
  /\ sector_elapsed' = CASE ~data_running -> sector_elapsed
                         [] SectorDue     -> 0
                         [] OTHER         -> sector_elapsed + 1
  /\ IF Readable /\ ~ejected
     THEN PassSector(disc[drive_lba])
     ELSE /\ data_running' = (data_running /\ ~Reading)
          /\ UNCHANGED <<selection_header_pending, q_owned, next_q_buffer, drive_lba,
                         content, data_owned, next_data_buffer, delivered>>

TickEvents(ejected) ==
  (IF ApDue THEN {"AP"} ELSE {})
    \cup (IF AudioDue THEN {"REFILL"} ELSE {})
    \cup (IF Readable /\ ~ejected THEN SectorEvents(disc[drive_lba]) ELSE {})

Tick(ejected) ==
  /\ ejected => Reading
  /\ TickAp
  /\ TickAudio
  /\ TickSector(ejected)
  /\ Latch(TickEvents(ejected))
  /\ disc' = IF ejected THEN NoDisc ELSE disc
  /\ UNCHANGED <<drive_positioned, audio_positioned, mode, selection_active>>
  /\ UNCHANGED <<registers, torn_down, misuse>>

-----------------------------------------------------------------------------
Next ==
  \/ \E ejected \in BOOLEAN : Tick(ejected)
  \/ ReadIsr
  \/ \E m \in IerMasks : WriteIer(m)
  \/ WriteIcr
  \/ TakeInterrupt
  \/ \E w \in BmanWrites : WriteBman(w)
  \/ ApAck \/ ApReset \/ ApFinish \/ ApIntNow
  \/ \E arm \in BOOLEAN : ApPlay(arm)
  \/ CcrReset \/ CcrMemoryPlay \/ CcrSelect
  \/ \E locators \in BOOLEAN : CcrStart(locators)
  \/ Download
  \/ \E f \in Files, m \in Masks, t \in AudioMasks : WriteSelection(f, m, t)
  \/ TransportPause \/ TransportResume
  \/ \E lba \in SeekTargets, for_audio \in BOOLEAN : SetDrivePosition(lba, for_audio)
  \/ \E d \in Discs : Mount(d)
  \/ Eject

Spec == Init /\ [][Next]_vars

\* The trampoline ticks the board on every instruction and while halted, so
\* device time always moves on. Nothing makes the debug server eject.
Fairness == WF_vars(Tick(FALSE))
FairSpec == Spec /\ Fairness
-----------------------------------------------------------------------------
(* Properties. *)

RegisterTypes ==
  /\ ier \subseteq Events /\ icr \in BOOLEAN
  /\ file \in Nat /\ mask \subseteq 0 .. 31 /\ tacs \subseteq 0 .. 15

LatchTypes == isr \subseteq Events /\ taken \subseteq Events /\ line \in BOOLEAN

DecoderTypes ==
  /\ data_owned \subseteq Buffer /\ q_owned \subseteq Buffer
  /\ content \in [Buffer -> [lba : Nat, kind : {"none", "header", "payload"}]]
  /\ next_data_buffer \in Buffer /\ next_q_buffer \in Buffer
  /\ drive_positioned \in BOOLEAN /\ audio_positioned \in BOOLEAN /\ drive_lba \in Nat
  /\ data_running \in BOOLEAN /\ data_path_armed \in BOOLEAN
  /\ firmware_idle \in BOOLEAN /\ q_reporting \in BOOLEAN
  /\ selection_active \in BOOLEAN /\ selection_header_pending \in BOOLEAN
  /\ sector_elapsed \in 0 .. SectorTicks - 1

AudioTypes ==
  /\ adpcm_owned \subseteq Buffer /\ audio_buffer \in Buffer
  /\ audio_playing \in BOOLEAN /\ audio_active \in BOOLEAN
  /\ audio_finish_requested \in BOOLEAN /\ audio_select_pending \in BOOLEAN
  /\ audio_remaining \in 0 .. AudioTicks
  /\ ap_completion_pending \in BOOLEAN /\ ap_completion_delay \in 0 .. ApTicks
  /\ astat \subseteq {"BUSY", "DONE"}

HistoryTypes ==
  /\ disc \in Discs \cup {NoDisc}
  /\ torn_down \in BOOLEAN /\ delivered \subseteq Nat
  /\ fresh \subseteq Buffer /\ misuse \in BOOLEAN

\* Every variable holds a value of its type; in particular the countdowns never
\* run below zero and the sector clock never passes its period (advance_streaming).
TypeOK == RegisterTypes /\ LatchTypes /\ DecoderTypes /\ AudioTypes /\ HistoryTypes

\* A decoder reset is final until the next CCR start: whatever the drive
\* controller resumes in between, no sector is delivered and nothing of the old
\* stream is left in the buffers or in the event latch (cdic_transport_resume,
\* reset_data_path).
TornDownStaysQuiet ==
  torn_down => /\ ~data_running
               /\ data_owned = {} /\ q_owned = {}
               /\ isr \cap StreamEvents = {}

\* While the firmware overlays its idle word on ISR reads, whose bit 0 is the
\* DATA event, no stream runs and no genuine DATA event hides behind it
\* (cdic_read, firmware_idle).
IdleWordHidesNoData ==
  firmware_idle => ~data_running /\ "DATA" \notin isr /\ data_owned = {}

\* The bytes of a buffer the host owns do not change until the host releases
\* it, however many sectors pass meanwhile (deliver_one_sector).
OwnedBufferIntact ==
  [][\A b \in Buffer : b \in data_owned /\ b \in data_owned' => content'[b] = content[b]]_vars

\* No sector is delivered twice between two seeks: the head is past everything
\* the host has been given, also after held sectors, a pause or a resume.
NoSectorTwice == \A lba \in delivered : lba < drive_lba

\* An enabled event waiting in the latch has the line raised, unless the CPU has
\* taken an interrupt since the event was latched and has yet to read ISR, or ICR was
\* only set after it (assert_interrupt_line after every change of ISR or IER).
NoLostInterrupt == icr => line \/ isr \cap ier \subseteq taken

\* A raised line has a latched event behind it: acknowledging the last event, by reading
\* ISR, by an ACK or by a reset, also lowers the line (clear_interrupt_line). The event
\* need not be enabled any more: a write of IER lowers nothing.
RaisedLineHasEvent == line => isr # {}

\* A buffer handed to the audio processor is decoded once and released after it
\* was decoded, as long as the host neither takes back the playing buffer nor
\* re-arms the consumer over it (start_audio_buffer, advance_streaming).
HandoffPlayedOnce ==
  ~misuse => /\ fresh \subseteq adpcm_owned
             /\ adpcm_owned \ fresh = IF audio_active THEN {audio_buffer} ELSE {}

\* A playing buffer ends with its refill notification and in no other way but the
\* audio reset or a core restart; in particular a decoder reset does not cancel
\* it (the comment in reset_data_path).
SoundEndsWithRefill ==
  [][audio_active /\ ~audio_active' => "REFILL" \in isr' \/ ApReset \/ Download]_vars

\* A requested finish and a requested completion are not dropped: the finish flag
\* falls only into a pending completion and a pending completion only into the AP
\* event, unless the host itself restarts or resets the audio processor
\* (advance_streaming, request_ap_completion).
CompletionNotDropped ==
  [][/\ audio_finish_requested /\ ~audio_finish_requested' =>
          ap_completion_pending' \/ ApReset \/ Download \/ \E arm \in BOOLEAN : ApPlay(arm)
     /\ ap_completion_pending /\ ~ap_completion_pending' =>
          "AP" \in isr' \/ ApReset \/ Download]_vars

\* Once the host only waits, the audio processor plays what it was given and
\* comes to rest with no buffer playing and no completion outstanding.
HostWaits == <>[][Tick(FALSE)]_vars
AudioComesToRest == HostWaits => <>[](~audio_active /\ ~ap_completion_pending)

\* The selection boundary: the first intact sector to pass after ASEL notifies
\* the host even when it is filtered, provided a buffer is free
\* (deliver_one_sector, selection_header_pending).
BoundaryHeader ==
  [][(selection_header_pending /\ drive_lba' = drive_lba + 1 /\ ~selection_header_pending'
        /\ data_owned # Buffer /\ Intact(disc[drive_lba]))
       => drive_lba \in delivered']_vars

\* Backpressure does not stop the drive: once the host only waits, with whatever
\* buffers it still owns, a running stream passes every sector to the end of the
\* disc and stops there (deliver_one_sector, data_buffers_full).
HeadNeverStalls ==
  HostWaits => <>[](data_running => ~drive_positioned \/ disc = NoDisc)

\* A running stream reaches its host: the first sector of a new selection is announced
\* and buffers the host keeps do not stop the head (deliver_one_sector).
StreamReachesHost == BoundaryHeader /\ HeadNeverStalls

\* A decoder that is reset, or idle, is empty: nothing of an old stream comes back
\* before the next start command, and the idle word hides none of it
\* (reset_data_path, cdic_transport_resume, cdic_read).
RestIsQuiet == TornDownStaysQuiet /\ IdleWordHidesNoData

\* Under every order of masking, taking, reading and resetting the line is raised for each
\* enabled event the CPU has yet to hear of, and never without a latched event
\* (assert_interrupt_line, clear_interrupt_line).
LineTellsEvents == NoLostInterrupt /\ RaisedLineHasEvent

\* What the audio processor was asked for it finishes: a sound with its refill, a
\* requested finish and completion with the AP event, and once the host only waits the
\* processor comes to rest (advance_streaming).
PlaybackCompletes == SoundEndsWithRefill /\ CompletionNotDropped /\ AudioComesToRest
=============================================================================
