----------------------------- MODULE CiapProofs -----------------------------
(* Theorems about Ciap, for every disc, mask set, command set and tick count. *)
EXTENDS Ciap, TLAPS

\* Each part of the state keeps its type while its variables are unchanged.
LEMMA Frame ==
  ASSUME TypeOK
  PROVE  /\ UNCHANGED registers => RegisterTypes'
         /\ UNCHANGED latch => LatchTypes'
         /\ UNCHANGED decoder => DecoderTypes'
         /\ UNCHANGED <<audio, latency, astat>> => AudioTypes'
         /\ UNCHANGED <<disc, history, handoff>> => HistoryTypes'
<1>1. UNCHANGED registers => RegisterTypes'
  BY DEF TypeOK, RegisterTypes, registers
<1>2. UNCHANGED latch => LatchTypes'
  BY DEF TypeOK, LatchTypes, latch
<1>3. UNCHANGED decoder => DecoderTypes'
  BY DEF TypeOK, DecoderTypes, decoder, position, buffers, mode, selection
<1>4. UNCHANGED <<audio, latency, astat>> => AudioTypes'
  BY DEF TypeOK, AudioTypes, audio, playhead, latency
<1>5. UNCHANGED <<disc, history, handoff>> => HistoryTypes'
  BY DEF TypeOK, HistoryTypes, history, handoff
<1> QED
  BY <1>1, <1>2, <1>3, <1>4, <1>5

\* Setting and dropping events keeps the latch well typed.
LEMMA LatchType ==
  ASSUME TypeOK, NEW events \in SUBSET Events, Latch(events) \/ Drop(events)
  PROVE  LatchTypes'
BY DEF TypeOK, LatchTypes, RegisterTypes, Latch, Drop, Interrupts

\* start_audio_buffer chooses one of the two buffers and starts a full one.
LEMMA StartAudioType ==
  ASSUME TypeOK, NEW owned, NEW playing \in BOOLEAN, NEW buffer \in Buffer,
         NEW pending \in BOOLEAN, StartAudio(owned, playing, audio_active, buffer, pending)
  PROVE  /\ audio_buffer' \in Buffer
         /\ audio_select_pending' \in BOOLEAN /\ audio_active' \in BOOLEAN
         /\ audio_remaining' \in 0 .. AudioTicks
         /\ astat' \subseteq {"BUSY", "DONE"}
BY TicksAssumption DEF TypeOK, AudioTypes, StartAudio, Chosen, Starts, Buffer

\* The interrupt-side host actions.
LEMMA LatchActionsType ==
  ASSUME TypeOK, ReadIsr \/ (\E m \in IerMasks : WriteIer(m)) \/ WriteIcr \/ TakeInterrupt
  PROVE  TypeOK'
<1>1. CASE ReadIsr
  BY <1>1, Frame DEF ReadIsr, TypeOK, LatchTypes
<1>2. ASSUME NEW m \in IerMasks, WriteIer(m) PROVE TypeOK'
  BY <1>2, Frame, InputAssumption DEF WriteIer, TypeOK, LatchTypes, RegisterTypes, Interrupts
<1>3. CASE WriteIcr
  BY <1>3, Frame DEF WriteIcr, TypeOK, RegisterTypes, LatchTypes
<1>4. CASE TakeInterrupt
  BY <1>4, Frame DEF TakeInterrupt, TypeOK, LatchTypes
<1> QED
  BY <1>1, <1>2, <1>3, <1>4

\* The audio processor's commands.
LEMMA AudioActionsType ==
  ASSUME TypeOK,
         \/ \E w \in BmanWrites : WriteBman(w)
         \/ \E arm \in BOOLEAN : ApPlay(arm)
         \/ ApAck \/ ApReset \/ ApFinish \/ ApIntNow
  PROVE  TypeOK'
<1>1. ASSUME NEW w \in BmanWrites, WriteBman(w) PROVE TypeOK'
  <2>1. AudioTypes'
    BY <1>1, StartAudioType, InputAssumption DEF WriteBman, TypeOK, AudioTypes, latency
  <2>2. DecoderTypes'
    BY <1>1 DEF WriteBman, TypeOK, DecoderTypes, position, mode, selection
  <2>3. HistoryTypes'
    BY <1>1, InputAssumption DEF WriteBman, TypeOK, HistoryTypes, history
  <2> QED
    BY <1>1, <2>1, <2>2, <2>3, Frame DEF WriteBman, TypeOK
<1>2. ASSUME NEW arm \in BOOLEAN, ApPlay(arm) PROVE TypeOK'
  <2>1. AudioTypes'
    BY <1>2, StartAudioType DEF ApPlay, TypeOK, AudioTypes, latency, Buffer
  <2>2. HistoryTypes'
    BY <1>2 DEF ApPlay, TypeOK, HistoryTypes, history
  <2> QED
    BY <1>2, <2>1, <2>2, Frame DEF ApPlay, TypeOK
<1>3. CASE ApAck
  <2>1. LatchTypes'
    BY <1>3, LatchType DEF ApAck, Events, AudioEvents
  <2>2. AudioTypes'
    BY <1>3 DEF ApAck, TypeOK, AudioTypes, audio, playhead, latency
  <2> QED
    BY <1>3, <2>1, <2>2, Frame DEF ApAck, TypeOK
<1>4. CASE ApReset
  <2>1. LatchTypes'
    BY <1>4, LatchType DEF ApReset, Events, AudioEvents
  <2>2. AudioTypes'
    <3>1. ap_completion_delay' \in 0 .. ApTicks /\ audio_remaining' \in 0 .. AudioTicks
      BY <1>4, TicksAssumption DEF ApReset, AudioIdle
    <3> QED
      BY <1>4, <3>1 DEF ApReset, AudioIdle, TypeOK, AudioTypes
  <2>3. HistoryTypes'
    BY <1>4 DEF ApReset, AudioIdle, TypeOK, HistoryTypes, history
  <2> QED
    BY <1>4, <2>1, <2>2, <2>3, Frame DEF ApReset, TypeOK
<1>5. CASE ApFinish
  <2>1. ap_completion_pending' \in BOOLEAN /\ ap_completion_delay' \in 0 .. ApTicks
    <3>1. RequestApCompletion \/ UNCHANGED latency
      BY <1>5 DEF ApFinish
    <3>2. CASE RequestApCompletion
      BY <3>2, TicksAssumption DEF RequestApCompletion
    <3>3. CASE UNCHANGED latency
      BY <3>3 DEF TypeOK, AudioTypes, latency
    <3> QED
      BY <3>1, <3>2, <3>3
  <2>2. audio_finish_requested' \in BOOLEAN /\ audio_playing' \in BOOLEAN
    BY <1>5 DEF ApFinish, TypeOK, AudioTypes
  <2>3. AudioTypes'
    BY <1>5, <2>1, <2>2 DEF ApFinish, TypeOK, AudioTypes, playhead
  <2> QED
    BY <1>5, <2>3, Frame DEF ApFinish, TypeOK
<1>6. CASE ApIntNow
  <2>1. AudioTypes'
    BY <1>6, TicksAssumption DEF ApIntNow, RequestApCompletion, TypeOK, AudioTypes, audio, playhead
  <2> QED
    BY <1>6, <2>1, Frame DEF ApIntNow, TypeOK
<1> QED
  BY <1>1, <1>2, <1>3, <1>4, <1>5, <1>6

\* The decoder's commands, the core restart and the plain register stores.
LEMMA DecoderActionsType ==
  ASSUME TypeOK,
         \/ CcrReset \/ CcrMemoryPlay \/ CcrSelect \/ Download
         \/ \E locators \in BOOLEAN : CcrStart(locators)
         \/ \E f \in Files, m \in Masks, t \in AudioMasks : WriteSelection(f, m, t)
  PROVE  TypeOK'
<1>0. ASSUME ResetDecoder, firmware_idle' \in BOOLEAN PROVE DecoderTypes'
  <2>1. sector_elapsed' \in 0 .. SectorTicks - 1
    BY <1>0, TicksAssumption DEF ResetDecoder
  <2> QED
    BY <1>0, <2>1 DEF ResetDecoder, TypeOK, DecoderTypes, Buffer, position
<1>1. CASE CcrReset
  <2>1. DecoderTypes'
    BY <1>0, <1>1 DEF CcrReset, TypeOK, DecoderTypes
  <2>2. LatchTypes'
    BY <1>1, LatchType DEF CcrReset, Events
  <2>3. HistoryTypes'
    BY <1>1 DEF CcrReset, ResetDecoder, TypeOK, HistoryTypes, handoff
  <2> QED
    BY <1>1, <2>1, <2>2, <2>3, Frame DEF CcrReset, TypeOK
<1>2. CASE CcrMemoryPlay
  <2>1. DecoderTypes'
    BY <1>2 DEF CcrMemoryPlay, TypeOK, DecoderTypes, position, buffers, mode, selection
  <2> QED
    BY <1>2, <2>1, Frame DEF CcrMemoryPlay, TypeOK
<1>3. CASE CcrSelect
  <2>1. DecoderTypes'
    BY <1>3 DEF CcrSelect, TypeOK, DecoderTypes, position, buffers, mode
  <2> QED
    BY <1>3, <2>1, Frame DEF CcrSelect, TypeOK
<1>4. CASE Download
  <2>1. DecoderTypes'
    BY <1>0, <1>4 DEF Download
  <2>2. LatchTypes'
    BY <1>4 DEF Download, TypeOK, LatchTypes, RegisterTypes
  <2>3. HistoryTypes'
    BY <1>4 DEF Download, ResetDecoder, AudioIdle, TypeOK, HistoryTypes
  <2>4. AudioTypes'
    <3>1. audio_remaining' \in 0 .. AudioTicks
      BY <1>4, TicksAssumption DEF Download, AudioIdle
    <3> QED
      BY <1>4, <3>1 DEF Download, AudioIdle, TypeOK, AudioTypes
  <2> QED
    BY <1>4, <2>1, <2>2, <2>3, <2>4, Frame DEF Download, TypeOK
<1>5. ASSUME NEW locators \in BOOLEAN, CcrStart(locators) PROVE TypeOK'
  <2>1. sector_elapsed' \in 0 .. SectorTicks - 1
    BY <1>5, TicksAssumption DEF CcrStart
  <2>2. DecoderTypes'
    BY <1>5, <2>1 DEF CcrStart, TypeOK, DecoderTypes, position, buffers, selection
  <2>3. HistoryTypes'
    BY <1>5 DEF CcrStart, TypeOK, HistoryTypes, handoff
  <2> QED
    BY <1>5, <2>2, <2>3, Frame DEF CcrStart, TypeOK
<1>6. ASSUME NEW f \in Files, NEW m \in Masks, NEW t \in AudioMasks, WriteSelection(f, m, t)
      PROVE  TypeOK'
  <2>1. RegisterTypes'
    BY <1>6, InputAssumption DEF WriteSelection, TypeOK, RegisterTypes
  <2> QED
    BY <1>6, <2>1, Frame DEF WriteSelection, TypeOK
<1> QED
  BY <1>1, <1>2, <1>3, <1>4, <1>5, <1>6

\* The drive controller's calls and the disc.
LEMMA TransportActionsType ==
  ASSUME TypeOK,
         \/ TransportPause \/ TransportResume \/ Eject
         \/ \E lba \in SeekTargets, for_audio \in BOOLEAN : SetDrivePosition(lba, for_audio)
         \/ \E d \in Discs : Mount(d)
  PROVE  TypeOK'
<1>1. CASE TransportPause
  <2>1. DecoderTypes'
    BY <1>1 DEF TransportPause, TypeOK, DecoderTypes, position, buffers, mode, selection
  <2> QED
    BY <1>1, <2>1, Frame DEF TransportPause, TypeOK
<1>2. CASE TransportResume
  <2>1. sector_elapsed' \in 0 .. SectorTicks - 1
    BY <1>2, TicksAssumption DEF TransportResume
  <2>2. DecoderTypes'
    BY <1>2, <2>1 DEF TransportResume, TypeOK, DecoderTypes, position, buffers, mode, selection
  <2> QED
    BY <1>2, <2>2, Frame DEF TransportResume, TypeOK
<1>3. ASSUME NEW lba \in SeekTargets, NEW for_audio \in BOOLEAN,
             SetDrivePosition(lba, for_audio)
      PROVE  TypeOK'
  <2>1. DecoderTypes'
    BY <1>3, InputAssumption DEF SetDrivePosition, TypeOK, DecoderTypes, buffers, mode, selection
  <2>2. HistoryTypes'
    BY <1>3 DEF SetDrivePosition, TypeOK, HistoryTypes, handoff
  <2> QED
    BY <1>3, <2>1, <2>2, Frame DEF SetDrivePosition, TypeOK
<1>4. ASSUME (\E d \in Discs : Mount(d)) \/ Eject PROVE TypeOK'
  <2>1. HistoryTypes'
    BY <1>4 DEF Mount, Eject, TypeOK, HistoryTypes, history, handoff
  <2> QED
    BY <1>4, <2>1, Frame DEF Mount, Eject, TypeOK
<1> QED
  BY <1>1, <1>2, <1>3, <1>4

\* One device quantum.
LEMMA TickType ==
  ASSUME TypeOK, NEW ejected \in BOOLEAN, Tick(ejected)
  PROVE  TypeOK'
<1>1. RegisterTypes'
  BY Frame DEF Tick
<1>2. ASSUME Readable PROVE disc[drive_lba] \in Sector
  BY <1>2, InputAssumption DEF Readable, Reading, TypeOK, HistoryTypes
<1>3. TickEvents(ejected) \in SUBSET Events
  BY <1>2 DEF TickEvents, SectorEvents, FileEvents, Sector, Events, StreamEvents, AudioEvents
<1>4. LatchTypes'
  BY <1>3, LatchType DEF Tick
<1>5. HistoryTypes'
  <2>1. delivered' \subseteq Nat
    BY DEF Tick, TickSector, PassSector, TypeOK, HistoryTypes, DecoderTypes
  <2>2. fresh' \subseteq Buffer
    BY DEF Tick, TickAudio, TypeOK, HistoryTypes
  <2> QED
    BY <2>1, <2>2 DEF Tick, TypeOK, HistoryTypes
<1>6. AudioTypes'
  <2>1. ap_completion_delay' \in 0 .. ApTicks
    BY TicksAssumption DEF Tick, TickAp, RequestApCompletion, ApDelayAfter, ApDue, TypeOK, AudioTypes
  <2>2. ap_completion_pending' \in BOOLEAN
    BY DEF Tick, TickAp, RequestApCompletion, ApDue, TypeOK, AudioTypes
  <2>3. astat' \subseteq {"BUSY", "DONE"}
    BY DEF Tick, TickAp, TypeOK, AudioTypes
  <2>4. audio_remaining' \in 0 .. AudioTicks
    BY TicksAssumption DEF Tick, TickAudio, AudioDue, TypeOK, AudioTypes
  <2>5. adpcm_owned' \subseteq Buffer /\ audio_buffer' \in Buffer
    <3>1. 1 - audio_buffer \in Buffer /\ 1 - (1 - audio_buffer) \in Buffer
      BY DEF Buffer, TypeOK, AudioTypes
    <3>2. NextBuffer \in Buffer
      BY <3>1 DEF NextBuffer, Chosen
    <3> QED
      BY <3>2 DEF Tick, TickAudio, StillOwned, TypeOK, AudioTypes
  <2>6. /\ audio_playing' \in BOOLEAN /\ audio_active' \in BOOLEAN
        /\ audio_finish_requested' \in BOOLEAN /\ audio_select_pending' \in BOOLEAN
    BY DEF Tick, TickAudio, PlaysOn, Starts, TypeOK, AudioTypes
  <2> QED
    BY <2>1, <2>2, <2>3, <2>4, <2>5, <2>6 DEF AudioTypes
<1>7. DecoderTypes'
  <2>1. sector_elapsed' \in 0 .. SectorTicks - 1
    BY TicksAssumption DEF Tick, TickSector, SectorDue, TypeOK, DecoderTypes
  <2>2. CASE Readable /\ ~ejected
    <3> DEFINE s == disc[drive_lba]
    <3>1. PassSector(s)
      BY <2>2 DEF Tick, TickSector
    <3>2. FillBuffer \in Buffer /\ 1 - FillBuffer \in Buffer
      BY DEF FillBuffer, Buffer, TypeOK, DecoderTypes
    <3>3. /\ data_owned' \subseteq Buffer /\ next_data_buffer' \in Buffer
          /\ content' \in [Buffer -> [lba : Nat, kind : {"none", "header", "payload"}]]
      <4>1. CASE Fills(s)
        BY <3>1, <3>2, <4>1 DEF PassSector, TypeOK, DecoderTypes
      <4>2. CASE ~Fills(s)
        BY <3>1, <4>2 DEF PassSector, TypeOK, DecoderTypes
      <4> QED
        BY <4>1, <4>2
    <3>4. q_owned' \subseteq Buffer /\ next_q_buffer' \in Buffer
      BY <3>1 DEF PassSector, Buffer, TypeOK, DecoderTypes
    <3>5. drive_lba' \in Nat
      BY <3>1 DEF PassSector, HeadAfter, TypeOK, DecoderTypes
    <3> QED
      BY <2>1, <3>1, <3>3, <3>4, <3>5 DEF Tick, PassSector, TypeOK, DecoderTypes, mode
  <2>3. CASE ~(Readable /\ ~ejected)
    BY <2>1, <2>3 DEF Tick, TickSector, TypeOK, DecoderTypes, mode
  <2> QED
    BY <2>2, <2>3
<1> QED
  BY <1>1, <1>4, <1>5, <1>6, <1>7 DEF TypeOK

\* Every step of the interface keeps every variable in its type.
LEMMA TypeStep == TypeOK /\ [Next]_vars => TypeOK'
<1> SUFFICES ASSUME TypeOK, [Next]_vars PROVE TypeOK'
  OBVIOUS
<1>1. CASE Next
  BY <1>1, TickType, LatchActionsType, AudioActionsType, DecoderActionsType,
     TransportActionsType DEF Next
<1>2. CASE UNCHANGED vars
  BY <1>2, Frame DEF vars, TypeOK
<1> QED
  BY <1>1, <1>2

\* The state the power-on memset leaves (initialize_ciap) is well typed.
LEMMA TypeInit == Init => TypeOK
<1> SUFFICES ASSUME Init PROVE TypeOK
  OBVIOUS
<1>1. RegisterTypes /\ LatchTypes /\ HistoryTypes
  BY DEF Init, RegisterTypes, LatchTypes, HistoryTypes
<1>2. DecoderTypes
  <2>1. sector_elapsed \in 0 .. SectorTicks - 1
    BY TicksAssumption DEF Init
  <2>2. content \in [Buffer -> [lba : Nat, kind : {"none", "header", "payload"}]]
    BY DEF Init, NoContent
  <2> QED
    BY <2>1, <2>2 DEF Init, DecoderTypes, Buffer
<1>3. AudioTypes
  <2>1. audio_remaining \in 0 .. AudioTicks /\ ap_completion_delay \in 0 .. ApTicks
    BY TicksAssumption DEF Init
  <2> QED
    BY <2>1 DEF Init, AudioTypes, Buffer
<1> QED
  BY <1>1, <1>2, <1>3 DEF TypeOK

\* Type correctness of cdic.c's state; the audio and command countdowns and the
\* sector clock stay within their ranges whatever the host and the drive do.
THEOREM TypeCorrect == Spec => []TypeOK
BY TypeInit, TypeStep, PTL DEF Spec

-----------------------------------------------------------------------------
(* The decoder is silent while it is torn down or has not been started. *)

\* What makes the two silence properties inductive: only an armed decoder runs,
\* and neither a torn-down decoder nor idle firmware is armed.
ArmedToRun ==
  /\ data_running => data_path_armed
  /\ data_path_armed => ~torn_down /\ ~firmware_idle

SilenceInv == ArmedToRun /\ TornDownStaysQuiet /\ IdleWordHidesNoData

\* A quantum of a decoder that is not running leaves buffers and stream events alone.
LEMMA StoppedTick ==
  ASSUME TypeOK, NEW ejected \in BOOLEAN, Tick(ejected), ~data_running
  PROVE  /\ ~data_running'
         /\ data_owned' = data_owned /\ q_owned' = q_owned
         /\ isr' \cap StreamEvents = isr \cap StreamEvents
<1>1. ~SectorDue /\ ~Reading /\ ~Readable
  BY DEF SectorDue, Reading, Readable
<1>2. TickEvents(ejected) \cap StreamEvents = {}
  BY <1>1 DEF TickEvents, StreamEvents
<1> QED
  BY <1>1, <1>2 DEF Tick, TickSector, Latch, TypeOK, DecoderTypes

\* SilenceInv is inductive.
LEMMA SilenceStep == TypeOK /\ SilenceInv /\ [Next]_vars => SilenceInv'
<1> SUFFICES ASSUME TypeOK, SilenceInv, [Next]_vars PROVE SilenceInv'
  OBVIOUS
<1> USE DEF SilenceInv, ArmedToRun, TornDownStaysQuiet, IdleWordHidesNoData
<1>1. ASSUME NEW ejected \in BOOLEAN, Tick(ejected) PROVE SilenceInv'
  <2>1. UNCHANGED <<data_path_armed, firmware_idle, torn_down>> /\ (data_running' => data_running)
    BY <1>1 DEF Tick, TickSector, PassSector, mode, TypeOK, DecoderTypes
  <2>2. CASE data_running
    BY <2>1, <2>2
  <2>3. CASE ~data_running
    BY <1>1, <2>1, <2>3, StoppedTick DEF StreamEvents
  <2> QED
    BY <2>2, <2>3
<1>2. CASE ReadIsr
  BY <1>2 DEF ReadIsr, decoder, buffers, mode, history
<1>3. ASSUME NEW m \in IerMasks, WriteIer(m) PROVE SilenceInv'
  BY <1>3 DEF WriteIer, decoder, buffers, mode, history
<1>4. CASE WriteIcr
  BY <1>4 DEF WriteIcr, decoder, buffers, mode, history
<1>5. CASE TakeInterrupt
  BY <1>5 DEF TakeInterrupt, decoder, buffers, mode, history
<1>6. ASSUME NEW w \in BmanWrites, WriteBman(w) PROVE SilenceInv'
  BY <1>6 DEF WriteBman, mode, history, latch
<1>7. CASE ApAck \/ ApReset
  BY <1>7 DEF ApAck, ApReset, Drop, decoder, buffers, mode, history
<1>8. CASE ApFinish \/ ApIntNow \/ \E arm \in BOOLEAN : ApPlay(arm)
  <2>1. UNCHANGED <<decoder, latch, history>>
    BY <1>8 DEF ApFinish, ApIntNow, ApPlay
  <2> QED
    BY <2>1 DEF decoder, buffers, mode, history, latch
<1>9. CASE CcrReset
  BY <1>9 DEF CcrReset, ResetDecoder, Drop, StreamEvents
<1>10. CASE CcrMemoryPlay \/ CcrSelect \/ TransportPause
  BY <1>10 DEF CcrMemoryPlay, CcrSelect, TransportPause, buffers, mode, history, latch
<1>11. ASSUME NEW locators \in BOOLEAN, CcrStart(locators) PROVE SilenceInv'
  BY <1>11 DEF CcrStart
<1>12. CASE Download
  BY <1>12 DEF Download, ResetDecoder
<1>13. ASSUME NEW f \in Files, NEW m \in Masks, NEW t \in AudioMasks, WriteSelection(f, m, t)
       PROVE  SilenceInv'
  BY <1>13 DEF WriteSelection, decoder, buffers, mode, history, latch
<1>14. CASE TransportResume
  BY <1>14 DEF TransportResume, ResumeAllowed, buffers, mode, history, latch
<1>15. ASSUME NEW lba \in SeekTargets, NEW for_audio \in BOOLEAN,
              SetDrivePosition(lba, for_audio)
       PROVE  SilenceInv'
  BY <1>15 DEF SetDrivePosition, buffers, mode, latch, TypeOK, DecoderTypes
<1>16. ASSUME (\E d \in Discs : Mount(d)) \/ Eject PROVE SilenceInv'
  BY <1>16 DEF Mount, Eject, decoder, buffers, mode, history, latch
<1>17. CASE UNCHANGED vars
  BY <1>17 DEF vars, decoder, buffers, mode, history, latch
<1> QED
  BY <1>1, <1>2, <1>3, <1>4, <1>5, <1>6, <1>7, <1>8, <1>9, <1>10, <1>11, <1>12, <1>13,
     <1>14, <1>15, <1>16, <1>17 DEF Next

\* The silence of a reset or never-started decoder is an invariant of every run.
LEMMA Silence == Spec => []SilenceInv
<1>1. Init => SilenceInv
  BY DEF Init, SilenceInv, ArmedToRun, TornDownStaysQuiet, IdleWordHidesNoData, StreamEvents
<1> QED
  BY <1>1, SilenceStep, TypeCorrect, PTL DEF Spec

\* A decoder reset is final until the next CCR start, for every disc and every
\* order of host and drive commands (reset_data_path, cdic_transport_resume).
THEOREM ResetIsFinal == Spec => []TornDownStaysQuiet
<1>1. SilenceInv => TornDownStaysQuiet
  BY DEF SilenceInv
<1> QED
  BY <1>1, Silence, PTL

\* The firmware's idle word never hides a genuine DATA event (cdic_read).
THEOREM IdleWordHarmless == Spec => []IdleWordHidesNoData
<1>1. SilenceInv => IdleWordHidesNoData
  BY DEF SilenceInv
<1> QED
  BY <1>1, Silence, PTL

-----------------------------------------------------------------------------
(* The event latch and the interrupt line. *)

\* A line is only ever raised through a programmed ICR.
IrqInv == NoLostInterrupt /\ RaisedLineHasEvent /\ (line => icr)

\* Setting events, dropping events and leaving the latch alone keep IrqInv, as
\* long as ICR and IER stay.
LEMMA LatchKeepsIrq ==
  ASSUME TypeOK, IrqInv, UNCHANGED registers,
         \/ \E events \in SUBSET Events : Latch(events) \/ Drop(events)
         \/ UNCHANGED latch
  PROVE  IrqInv'
<1> USE DEF IrqInv, NoLostInterrupt, RaisedLineHasEvent, TypeOK, LatchTypes, RegisterTypes,
           registers, Interrupts
<1>1. ASSUME NEW events \in SUBSET Events, Latch(events) PROVE IrqInv'
  BY <1>1 DEF Latch
<1>2. ASSUME NEW events \in SUBSET Events, Drop(events) PROVE IrqInv'
  BY <1>2 DEF Drop
<1>3. CASE UNCHANGED latch
  BY <1>3 DEF latch
<1> QED
  BY <1>1, <1>2, <1>3

\* IrqInv is inductive.
LEMMA IrqStep == TypeOK /\ IrqInv /\ [Next]_vars => IrqInv'
<1> SUFFICES ASSUME TypeOK, IrqInv, [Next]_vars PROVE IrqInv'
  OBVIOUS
<1>1. ASSUME NEW ejected \in BOOLEAN, Tick(ejected) PROVE IrqInv'
  <2>1. ASSUME Readable PROVE disc[drive_lba] \in Sector
    BY <2>1, InputAssumption DEF Readable, Reading, TypeOK, HistoryTypes
  <2>2. TickEvents(ejected) \in SUBSET Events
    BY <2>1 DEF TickEvents, SectorEvents, FileEvents, Sector, Events, StreamEvents, AudioEvents
  <2> QED
    BY <1>1, <2>2, LatchKeepsIrq DEF Tick
<1>2. CASE ReadIsr
  BY <1>2 DEF ReadIsr, IrqInv, NoLostInterrupt, RaisedLineHasEvent, registers
<1>3. ASSUME NEW m \in IerMasks, WriteIer(m) PROVE IrqInv'
  BY <1>3 DEF WriteIer, Interrupts, IrqInv, NoLostInterrupt, RaisedLineHasEvent
<1>4. CASE WriteIcr
  BY <1>4 DEF WriteIcr, IrqInv, NoLostInterrupt, RaisedLineHasEvent
<1>5. CASE TakeInterrupt
  BY <1>5 DEF TakeInterrupt, IrqInv, NoLostInterrupt, RaisedLineHasEvent, registers
<1>6. CASE ApAck \/ ApReset \/ CcrReset
  <2>1. {"AP"} \in SUBSET Events /\ AudioEvents \in SUBSET Events /\ StreamEvents \in SUBSET Events
    BY DEF Events, AudioEvents
  <2> QED
    BY <1>6, <2>1, LatchKeepsIrq DEF ApAck, ApReset, CcrReset
<1>7. CASE Download
  BY <1>7 DEF Download, IrqInv, NoLostInterrupt, RaisedLineHasEvent, registers
<1>8. ASSUME NEW f \in Files, NEW m \in Masks, NEW t \in AudioMasks, WriteSelection(f, m, t)
      PROVE  IrqInv'
  BY <1>8 DEF WriteSelection, IrqInv, NoLostInterrupt, RaisedLineHasEvent, latch
<1>9. ASSUME NEW w \in BmanWrites, WriteBman(w) PROVE IrqInv'
  BY <1>9, LatchKeepsIrq DEF WriteBman
<1>10. CASE ApFinish \/ ApIntNow \/ \E arm \in BOOLEAN : ApPlay(arm)
  BY <1>10, LatchKeepsIrq DEF ApFinish, ApIntNow, ApPlay
<1>11. ASSUME \/ CcrMemoryPlay \/ CcrSelect \/ TransportPause \/ TransportResume
              \/ \E locators \in BOOLEAN : CcrStart(locators)
       PROVE  IrqInv'
  BY <1>11, LatchKeepsIrq DEF CcrMemoryPlay, CcrSelect, TransportPause, TransportResume, CcrStart
<1>12. ASSUME NEW lba \in SeekTargets, NEW for_audio \in BOOLEAN,
              SetDrivePosition(lba, for_audio)
       PROVE  IrqInv'
  BY <1>12, LatchKeepsIrq DEF SetDrivePosition
<1>13. ASSUME (\E d \in Discs : Mount(d)) \/ Eject PROVE IrqInv'
  BY <1>13, LatchKeepsIrq DEF Mount, Eject
<1>14. CASE UNCHANGED vars
  BY <1>14, LatchKeepsIrq DEF vars
<1> QED
  BY <1>1, <1>2, <1>3, <1>4, <1>5, <1>6, <1>7, <1>8, <1>9, <1>10, <1>11, <1>12, <1>13,
     <1>14 DEF Next

\* No behaviour leaves IrqInv.
LEMMA IrqAlways == Spec => []IrqInv
<1>1. Init => IrqInv
  BY DEF Init, IrqInv, NoLostInterrupt, RaisedLineHasEvent
<1> QED
  BY <1>1, IrqStep, TypeCorrect, PTL DEF Spec

\* An enabled event never waits without an interrupt (assert_interrupt_line is
\* called after every change of ISR and IER).
THEOREM InterruptNotLost == Spec => []NoLostInterrupt
<1>1. IrqInv => NoLostInterrupt
  BY DEF IrqInv
<1> QED
  BY <1>1, IrqAlways, PTL

\* A raised line always has an event behind it (clear_interrupt_line).
THEOREM LineHasEvent == Spec => []RaisedLineHasEvent
<1>1. IrqInv => RaisedLineHasEvent
  BY DEF IrqInv
<1> QED
  BY <1>1, IrqAlways, PTL

-----------------------------------------------------------------------------
(* Delivery. *)

\* A sector is written only into a buffer the host does not own.
LEMMA FillsFreeBuffer ==
  ASSUME TypeOK, ~DataBuffersFull
  PROVE  FillBuffer \in Buffer \ data_owned
<1>1. next_data_buffer \in {0, 1} /\ data_owned \subseteq {0, 1} /\ data_owned # {0, 1}
  BY DEF TypeOK, DecoderTypes, DataBuffersFull, Buffer
<1>2. 0 \notin data_owned \/ 1 \notin data_owned
  BY <1>1
<1> QED
  BY <1>1, <1>2 DEF FillBuffer, Buffer

\* The bytes of an owned buffer do not change until the host releases it
\* (deliver_one_sector), for every disc and every number of passing sectors.
THEOREM OwnedIntact == Spec => OwnedBufferIntact
<1>1. ASSUME TypeOK, [Next]_vars
      PROVE  [\A b \in Buffer : b \in data_owned /\ b \in data_owned' => content'[b] = content[b]]_vars
  <2>1. CASE content' = content
    BY <2>1
  <2>2. ASSUME NEW ejected \in BOOLEAN, Tick(ejected), content' # content
        PROVE  \A b \in Buffer : b \in data_owned /\ b \in data_owned' => content'[b] = content[b]
    <3> DEFINE s == disc[drive_lba]
    <3>1. PassSector(s) /\ Fills(s)
      BY <2>2 DEF Tick, TickSector, PassSector
    <3>2. FillBuffer \in Buffer \ data_owned
      BY <1>1, <3>1, FillsFreeBuffer DEF Fills
    <3> QED
      BY <1>1, <3>1, <3>2 DEF PassSector, TypeOK, DecoderTypes
  <2>3. CASE Next /\ ~\E ejected \in BOOLEAN : Tick(ejected)
    <3>1. content' = content
      <4>1. CASE UNCHANGED decoder
        BY <4>1 DEF decoder, buffers
      <4>2. CASE ResetDecoder \/ UNCHANGED buffers \/ \E w \in BmanWrites : WriteBman(w)
        BY <4>2 DEF ResetDecoder, buffers, WriteBman
      <4>3. \/ UNCHANGED decoder \/ ResetDecoder \/ UNCHANGED buffers
            \/ \E w \in BmanWrites : WriteBman(w)
        BY <2>3 DEF Next, ReadIsr, WriteIer, WriteIcr, TakeInterrupt, ApAck, ApReset, ApFinish,
             ApIntNow, ApPlay, CcrReset, CcrMemoryPlay, CcrSelect, CcrStart, Download,
             WriteSelection, TransportPause, TransportResume, SetDrivePosition, Mount, Eject
      <4> QED
        BY <4>1, <4>2, <4>3
    <3> QED
      BY <3>1
  <2>4. CASE UNCHANGED vars
    BY <2>4
  <2> QED
    BY <1>1, <2>1, <2>2, <2>3, <2>4
<1> QED
  BY <1>1, TypeCorrect, PTL DEF Spec, OwnedBufferIntact

\* Between two seeks no sector is given to the host twice: the head is past
\* everything delivered, for every disc and every order of commands.
THEOREM DeliveredOnce == Spec => []NoSectorTwice
<1>1. Init => NoSectorTwice
  BY DEF Init, NoSectorTwice
<1>2. ASSUME TypeOK, NoSectorTwice, [Next]_vars PROVE NoSectorTwice'
  <2>1. ASSUME NEW ejected \in BOOLEAN, Tick(ejected) PROVE NoSectorTwice'
    <3>1. \/ UNCHANGED <<delivered, drive_lba>>
          \/ drive_lba' = drive_lba + 1 /\ delivered' \subseteq delivered \cup {drive_lba}
      BY <2>1 DEF Tick, TickSector, PassSector, HeadAfter
    <3>2. drive_lba \in Nat /\ delivered \subseteq Nat
      BY <1>2 DEF TypeOK, DecoderTypes, HistoryTypes
    <3> SUFFICES ASSUME NEW l \in delivered' PROVE l < drive_lba'
      BY DEF NoSectorTwice
    <3>3. CASE UNCHANGED <<delivered, drive_lba>>
      BY <1>2, <3>3 DEF NoSectorTwice
    <3>4. CASE drive_lba' = drive_lba + 1 /\ delivered' \subseteq delivered \cup {drive_lba}
      <4>1. l \in Nat /\ (l < drive_lba \/ l = drive_lba)
        BY <1>2, <3>2, <3>4 DEF NoSectorTwice
      <4> QED
        BY <3>2, <3>4, <4>1
    <3> QED
      BY <3>1, <3>3, <3>4
  <2>2. ASSUME NEW lba \in SeekTargets, NEW for_audio \in BOOLEAN,
               SetDrivePosition(lba, for_audio)
        PROVE  NoSectorTwice'
    BY <2>2 DEF SetDrivePosition, NoSectorTwice
  <2>3. CASE UNCHANGED <<delivered, drive_lba>>
    BY <1>2, <2>3 DEF NoSectorTwice
  <2>4. \/ \E ejected \in BOOLEAN : Tick(ejected)
        \/ \E lba \in SeekTargets, for_audio \in BOOLEAN : SetDrivePosition(lba, for_audio)
        \/ UNCHANGED <<delivered, drive_lba>>
    <3>1. CASE UNCHANGED vars
      BY <3>1 DEF vars, decoder, position, history
    <3>2. CASE Next
      BY <3>2 DEF Next, ReadIsr, WriteIer, WriteIcr, TakeInterrupt, WriteBman, ApAck, ApReset,
           ApFinish, ApIntNow, ApPlay, CcrReset, CcrMemoryPlay, CcrSelect, CcrStart, Download,
           ResetDecoder, WriteSelection, TransportPause, TransportResume, Mount, Eject,
           decoder, position, history
    <3> QED
      BY <1>2, <3>1, <3>2
  <2> QED
    BY <2>1, <2>2, <2>3, <2>4
<1> QED
  BY <1>1, <1>2, TypeCorrect, PTL DEF Spec

\* The first intact sector to pass after a selection is announced to the host, filtered or
\* not, if the host has left a buffer free (deliver_one_sector, selection_header_pending).
THEOREM BoundaryAnnounced == Spec => BoundaryHeader
<1> DEFINE Boundary == (selection_header_pending /\ drive_lba' = drive_lba + 1
                          /\ ~selection_header_pending' /\ data_owned # Buffer
                          /\ Intact(disc[drive_lba])) => drive_lba \in delivered'
<1>1. ASSUME TypeOK, [Next]_vars PROVE Boundary
  <2>1. drive_lba \in Nat
    BY <1>1 DEF TypeOK, DecoderTypes
  <2>2. CASE drive_lba' = drive_lba \/ selection_header_pending' = selection_header_pending
    <3>1. CASE drive_lba' = drive_lba
      <4>1. drive_lba' # drive_lba + 1
        BY <2>1, <3>1
      <4> QED
        BY <4>1
    <3>2. CASE selection_header_pending' = selection_header_pending
      BY <3>2
    <3> QED
      BY <2>2, <3>1, <3>2
  <2>3. ASSUME NEW ejected \in BOOLEAN, Tick(ejected) PROVE Boundary
    <3>1. CASE Readable /\ ~ejected
      BY <2>3, <3>1 DEF Tick, TickSector, PassSector, Fills, MetadataOnly, DataBuffersFull
    <3>2. CASE ~(Readable /\ ~ejected)
      BY <2>2, <2>3, <3>2 DEF Tick, TickSector
    <3> QED
      BY <3>1, <3>2
  <2>4. \/ \E ejected \in BOOLEAN : Tick(ejected)
        \/ drive_lba' = drive_lba \/ selection_header_pending' = selection_header_pending
    <3>1. CASE UNCHANGED vars
      BY <3>1 DEF vars, decoder, position
    <3>2. CASE Next
      BY <3>2 DEF Next, ReadIsr, WriteIer, WriteIcr, TakeInterrupt, WriteBman, ApAck, ApReset,
           ApFinish, ApIntNow, ApPlay, CcrReset, CcrMemoryPlay, CcrSelect, CcrStart, Download,
           ResetDecoder, WriteSelection, TransportPause, TransportResume, SetDrivePosition,
           Mount, Eject, decoder, position, selection
    <3> QED
      BY <1>1, <3>1, <3>2
  <2> QED
    BY <2>2, <2>3, <2>4
<1> QED
  BY <1>1, TypeCorrect, PTL DEF Spec, BoundaryHeader

-----------------------------------------------------------------------------
(* The audio processor. *)

\* ASTAT reports a playing buffer exactly while one plays, and only a started
\* consumer plays.
BusyWhilePlaying ==
  /\ "BUSY" \in astat <=> audio_active
  /\ audio_active => audio_playing

AudioInv == BusyWhilePlaying /\ HandoffPlayedOnce

\* start_audio_buffer starts a buffer that was handed over, and none besides the
\* one that plays.
LEMMA StartKeepsAudio ==
  ASSUME TypeOK, AudioInv, NEW owned \in SUBSET Buffer, NEW started \in SUBSET Buffer,
         NEW playing \in BOOLEAN, NEW buffer \in Buffer, NEW pending \in BOOLEAN,
         StartAudio(owned, playing, audio_active, buffer, pending),
         audio_playing' = playing, audio_playing => playing, adpcm_owned' = owned,
         LET b == Chosen(owned, buffer, pending) IN
         /\ fresh' = started \ (IF Starts(owned, playing, audio_active, b) THEN {b} ELSE {})
         /\ ~misuse' => /\ ~misuse
                        /\ started \subseteq owned
                        /\ owned \ started = IF audio_active THEN {audio_buffer} ELSE {}
                        /\ audio_active => b = audio_buffer
  PROVE  AudioInv'
<1> DEFINE b == Chosen(owned, buffer, pending)
           starts == Starts(owned, playing, audio_active, b)
<1>1. audio_active \in BOOLEAN /\ audio_playing \in BOOLEAN
  BY DEF TypeOK, AudioTypes
<1>2. BusyWhilePlaying'
  BY <1>1 DEF StartAudio, AudioInv, BusyWhilePlaying, Starts
<1>3. ASSUME ~misuse', starts PROVE HandoffPlayedOnce'
  <2>1. b \in owned /\ ~audio_active /\ audio_active' /\ audio_buffer' = b
    BY <1>1, <1>3 DEF Starts, StartAudio
  <2>2. started \subseteq owned /\ owned \ started = {} /\ fresh' = started \ {b}
    BY <1>3, <2>1
  <2> QED
    BY <2>1, <2>2 DEF HandoffPlayedOnce
<1>4. ASSUME ~misuse', ~starts PROVE HandoffPlayedOnce'
  <2>1. audio_active' = audio_active /\ fresh' = started /\ audio_buffer' = b
    BY <1>1, <1>4 DEF StartAudio
  <2> QED
    BY <1>4, <2>1 DEF HandoffPlayedOnce
<1> QED
  BY <1>2, <1>3, <1>4 DEF AudioInv, HandoffPlayedOnce

\* AudioInv is inductive.
LEMMA AudioStep == TypeOK /\ AudioInv /\ [Next]_vars => AudioInv'
<1> SUFFICES ASSUME TypeOK, AudioInv, [Next]_vars PROVE AudioInv'
  OBVIOUS
<1>1. ASSUME NEW ejected \in BOOLEAN, Tick(ejected) PROVE AudioInv'
  <2>1. BusyWhilePlaying'
    <3>1. CASE AudioDue
      BY <1>1, <3>1 DEF Tick, TickAp, TickAudio, AudioInv, BusyWhilePlaying, Finishes, AudioDue,
                        PlaysOn, Starts
    <3>2. CASE ~AudioDue
      BY <1>1, <3>2 DEF Tick, TickAp, TickAudio, AudioInv, BusyWhilePlaying
    <3> QED
      BY <3>1, <3>2
  <2>2. HandoffPlayedOnce'
    <3> SUFFICES ASSUME ~misuse PROVE HandoffPlayedOnce'
      BY <1>1 DEF Tick, HandoffPlayedOnce
    <3>1. fresh \subseteq adpcm_owned /\ adpcm_owned \ fresh = IF audio_active THEN {audio_buffer} ELSE {}
      BY DEF AudioInv, HandoffPlayedOnce
    <3>2. CASE ~AudioDue
      BY <1>1, <3>1, <3>2 DEF Tick, TickAudio, HandoffPlayedOnce
    <3>3. CASE AudioDue
      <4>1. fresh = StillOwned
        BY <3>1, <3>3 DEF AudioDue, StillOwned
      <4>2. /\ adpcm_owned' = StillOwned /\ audio_buffer' = NextBuffer /\ audio_active' = PlaysOn
            /\ fresh' = fresh \ (IF PlaysOn THEN {NextBuffer} ELSE {})
        BY <1>1, <3>3 DEF Tick, TickAudio
      <4>3. PlaysOn => NextBuffer \in StillOwned
        BY DEF PlaysOn, Starts
      <4> QED
        BY <4>1, <4>2, <4>3 DEF HandoffPlayedOnce
    <3> QED
      BY <3>2, <3>3
  <2> QED
    BY <2>1, <2>2 DEF AudioInv
<1>2. ASSUME NEW w \in BmanWrites, WriteBman(w) PROVE AudioInv'
  <2> DEFINE owned == (adpcm_owned \ w.adpcm) \cup (w.adpcm \ adpcm_owned)
             started == (fresh \ w.adpcm) \cup (w.adpcm \ adpcm_owned)
             b == Chosen(owned, audio_buffer, audio_select_pending)
  <2>1. owned \in SUBSET Buffer /\ started \in SUBSET Buffer
    BY InputAssumption DEF TypeOK, AudioTypes, HistoryTypes
  <2>2. ASSUME ~misuse'
        PROVE  /\ ~misuse
               /\ started \subseteq owned
               /\ owned \ started = IF audio_active THEN {audio_buffer} ELSE {}
               /\ audio_active => b = audio_buffer
    <3>1. ~misuse /\ ~(audio_active /\ audio_buffer \in w.adpcm)
      BY <1>2, <2>2 DEF WriteBman
    <3>2. fresh \subseteq adpcm_owned /\ adpcm_owned \ fresh = IF audio_active THEN {audio_buffer} ELSE {}
      BY <3>1 DEF AudioInv, HandoffPlayedOnce
    <3>3. owned \ started = (adpcm_owned \ fresh) \ w.adpcm
      BY <3>2
    <3> QED
      BY <3>1, <3>2, <3>3 DEF Chosen
  <2>3. /\ StartAudio(owned, audio_playing, audio_active, audio_buffer, audio_select_pending)
        /\ audio_playing' = audio_playing /\ adpcm_owned' = owned
        /\ fresh' = started \ (IF Starts(owned, audio_playing, audio_active, b) THEN {b} ELSE {})
    BY <1>2 DEF WriteBman
  <2>4. audio_playing \in BOOLEAN /\ audio_buffer \in Buffer /\ audio_select_pending \in BOOLEAN
    BY DEF TypeOK, AudioTypes
  <2> HIDE DEF owned, started
  <2> QED
    BY <2>1, <2>2, <2>3, <2>4, StartKeepsAudio
<1>3. ASSUME NEW arm \in BOOLEAN, ApPlay(arm) PROVE AudioInv'
  <2> DEFINE buffer == IF arm THEN 0 ELSE audio_buffer
             pending == ~arm /\ (audio_select_pending \/ ~audio_active)
             b == Chosen(adpcm_owned, buffer, pending)
  <2>1. /\ adpcm_owned \in SUBSET Buffer /\ fresh \in SUBSET Buffer
        /\ buffer \in Buffer /\ pending \in BOOLEAN
    BY DEF TypeOK, AudioTypes, HistoryTypes, Buffer
  <2>2. ASSUME ~misuse'
        PROVE  /\ ~misuse
               /\ fresh \subseteq adpcm_owned
               /\ adpcm_owned \ fresh = IF audio_active THEN {audio_buffer} ELSE {}
               /\ audio_active => b = audio_buffer
    BY <1>3, <2>2 DEF ApPlay, AudioInv, HandoffPlayedOnce
  <2>3. /\ StartAudio(adpcm_owned, TRUE, audio_active, buffer, pending)
        /\ audio_playing' = TRUE /\ adpcm_owned' = adpcm_owned
        /\ fresh' = fresh \ (IF Starts(adpcm_owned, TRUE, audio_active, b) THEN {b} ELSE {})
    BY <1>3 DEF ApPlay
  <2> HIDE DEF buffer, pending
  <2> QED
    BY <2>1, <2>2, <2>3, StartKeepsAudio
<1>4. CASE ApReset \/ Download
  BY <1>4 DEF ApReset, Download, AudioIdle, AudioInv, BusyWhilePlaying, HandoffPlayedOnce
<1>5. CASE ApAck
  BY <1>5 DEF ApAck, AudioInv, BusyWhilePlaying, HandoffPlayedOnce, audio, playhead, handoff
<1>6. CASE ApFinish
  BY <1>6 DEF ApFinish, AudioInv, BusyWhilePlaying, HandoffPlayedOnce, playhead, handoff
<1>7. CASE UNCHANGED <<audio, astat, handoff>>
  BY <1>7 DEF AudioInv, BusyWhilePlaying, HandoffPlayedOnce, audio, playhead, handoff
<1>8. ASSUME \/ ReadIsr \/ (\E m \in IerMasks : WriteIer(m)) \/ WriteIcr \/ TakeInterrupt
             \/ ApIntNow \/ CcrReset \/ CcrMemoryPlay \/ CcrSelect
             \/ \E locators \in BOOLEAN : CcrStart(locators)
             \/ \E f \in Files, m \in Masks, t \in AudioMasks : WriteSelection(f, m, t)
             \/ TransportPause \/ TransportResume
             \/ \E lba \in SeekTargets, for_audio \in BOOLEAN : SetDrivePosition(lba, for_audio)
             \/ (\E d \in Discs : Mount(d)) \/ Eject
             \/ UNCHANGED vars
      PROVE  UNCHANGED <<audio, astat, handoff>>
  BY <1>8 DEF ReadIsr, WriteIer, WriteIcr, TakeInterrupt, ApIntNow, CcrReset, CcrMemoryPlay,
       CcrSelect, CcrStart, WriteSelection, TransportPause, TransportResume, SetDrivePosition,
       Mount, Eject, vars
<1> QED
  BY <1>1, <1>2, <1>3, <1>4, <1>5, <1>6, <1>7, <1>8 DEF Next

\* No behaviour leaves AudioInv.
LEMMA AudioAlways == Spec => []AudioInv
<1>1. Init => AudioInv
  BY DEF Init, AudioInv, BusyWhilePlaying, HandoffPlayedOnce
<1> QED
  BY <1>1, AudioStep, TypeCorrect, PTL DEF Spec

\* Each handed-over ADPCM buffer is decoded once and released after it was decoded,
\* for every order of toggles, plays, finishes and quanta (start_audio_buffer).
THEOREM PlayedOnce == Spec => []HandoffPlayedOnce
<1>1. AudioInv => HandoffPlayedOnce
  BY DEF AudioInv
<1> QED
  BY <1>1, AudioAlways, PTL

-----------------------------------------------------------------------------
(* The invariants the runs check, from the ones above. *)

\* A decoder that is reset or idle holds nothing of an old stream (reset_data_path,
\* cdic_transport_resume, cdic_read).
THEOREM RestingDecoderEmpty == Spec => []RestIsQuiet
  BY ResetIsFinal, IdleWordHarmless, PTL DEF RestIsQuiet

\* The line tells the latched and enabled events (assert_interrupt_line,
\* clear_interrupt_line).
THEOREM LineExact == Spec => []LineTellsEvents
  BY InterruptNotLost, LineHasEvent, PTL DEF LineTellsEvents
=============================================================================
