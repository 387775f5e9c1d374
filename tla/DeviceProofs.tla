---------------------------- MODULE DeviceProofs -----------------------------
(***************************************************************************)
(* Theorems about the devices of the board: the clock the decoder and the  *)
(* audio run on, the on-chip timers, the battery image and clock of the    *)
(* NVRAM, the ring the decoded audio goes through, and the bursts of DMA.  *)
(***************************************************************************)
EXTENDS StreamClock, Timers, Nvram, AudioRing, Dma, Remainders, SequenceTheorems, TLAPS

(***************************************************************************)
(* The stream clock: a skip of many cycles is that many single cycles.     *)
(***************************************************************************)
\* A running clock is strictly before its event.
StreamClockTypes ==
  /\ ap_completion_pending \in BOOLEAN /\ audio_active \in BOOLEAN /\ data_running \in BOOLEAN
  /\ ap_completion_delay \in Nat /\ audio_remaining \in Nat /\ sector_elapsed \in Nat
  /\ ap_completion_pending => 0 < ap_completion_delay
  /\ ap_completion_delay <= ApLatency
  /\ audio_active => 0 < audio_remaining /\ audio_remaining < Never
  /\ sector_elapsed < SectorPeriod

DeferralTypes ==
  /\ pending \in Nat /\ deadline \in Nat
  /\ deadline_valid \in BOOLEAN /\ observed \in BOOLEAN
  /\ fired \subseteq {"AP", "REFILL", "SECTOR"}

\* An access acts on clocks that are up to date.
AccessInv == observed => pending = 0 /\ ~deadline_valid

ClockInv == StreamClockTypes /\ DeferralTypes /\ AccessInv /\ DeferralStopsShort

\* Nothing falls due within p.
Clear(p) ==
  /\ ap_completion_pending => p < ap_completion_delay
  /\ audio_active => p < audio_remaining
  /\ data_running => sector_elapsed + p < SectorPeriod

-----------------------------------------------------------------------------
(* The nearest event. *)

LEMMA NearestType ==
  ASSUME StreamClockTypes
  PROVE  Nearest \in Nat /\ Nearest > 0 /\ Nearest <= Never
BY PeriodsAssumption, NeverAssumption
   DEF StreamClockTypes, Nearest, SectorOr, AudioOr, ApOrNever

LEMMA NearestClear ==
  ASSUME StreamClockTypes, NEW p \in Nat, p < Nearest
  PROVE  Clear(p)
BY PeriodsAssumption, NeverAssumption
   DEF StreamClockTypes, Nearest, SectorOr, AudioOr, ApOrNever, Clear

LEMMA NearestNever ==
  ASSUME StreamClockTypes, Nearest = Never
  PROVE  ~ap_completion_pending /\ ~audio_active /\ ~data_running
BY PeriodsAssumption, NeverAssumption
   DEF StreamClockTypes, Nearest, SectorOr, AudioOr, ApOrNever

\* The invariant lets nothing be due within what is pending.
LEMMA PendingClear ==
  ASSUME ClockInv
  PROVE  Clear(pending)
<1>1. CASE pending < Nearest
  BY <1>1, NearestClear DEF ClockInv, DeferralTypes
<1>2. CASE pending = 0
  BY <1>2, NearestClear, NearestType DEF ClockInv
<1> QED
  BY <1>1, <1>2 DEF ClockInv, DeferralStopsShort

\* Quanta admitted by the division stay below the limit.
LEMMA DivisionBound ==
  ASSUME NEW x \in Nat, NEW q \in Nat \ {0}, NEW n \in Nat, n <= x \div q
  PROVE  n * q \in Nat /\ n * q <= x
<1>1. PICK d \in Nat : d = x \div q
  BY SMT
<1>2. d * q <= x
  BY <1>1, SMT
<1>3. n * q <= d * q
  BY <1>1, SMT
<1> QED
  BY <1>1, <1>2, <1>3, SMT

-----------------------------------------------------------------------------
(* Advancing the clocks. *)

\* With nothing due, every running clock moves by the step and no event fires.
LEMMA QuietAdvance ==
  ASSUME StreamClockTypes, NEW s \in Nat, Clear(s), Advance(s)
  PROVE  /\ fired' = {}
         /\ UNCHANGED <<ap_completion_pending, audio_active, data_running>>
         /\ ap_completion_delay' = IF ap_completion_pending THEN ap_completion_delay - s
                                                            ELSE ap_completion_delay
         /\ audio_remaining' = IF audio_active THEN audio_remaining - s ELSE audio_remaining
         /\ sector_elapsed' = IF data_running THEN sector_elapsed + s ELSE sector_elapsed
<1>1. ~ApDue(s) /\ ~AudioDue(s) /\ ~SectorDue(s)
  BY PeriodsAssumption DEF Clear, StreamClockTypes, ApDue, AudioDue, SectorDue
<1>2. PICK again, finishes, goes_on \in BOOLEAN, duration \in Durations :
        /\ AdvanceAp(s, AudioDue(s) /\ ~again /\ finishes)
        /\ AdvanceAudio(s, again, duration)
        /\ AdvanceSector(s, goes_on)
  BY DEF Advance
<1>3. fired' = {}
  BY <1>1 DEF Advance
<1>4. /\ ap_completion_pending' = ap_completion_pending
      /\ ap_completion_delay' = IF ap_completion_pending THEN ap_completion_delay - s
                                                         ELSE ap_completion_delay
  BY <1>1, <1>2 DEF AdvanceAp, StreamClockTypes
<1>5. /\ audio_active' = audio_active
      /\ audio_remaining' = IF audio_active THEN audio_remaining - s ELSE audio_remaining
  <2>1. audio_active' = audio_active
    BY <1>1, <1>2 DEF AdvanceAudio, StreamClockTypes
  <2>2. CASE audio_active
    BY <1>1, <1>2, <2>1, <2>2 DEF AdvanceAudio
  <2>3. CASE ~audio_active
    BY <1>1, <1>2, <2>1, <2>3 DEF AdvanceAudio
  <2> QED
    BY <2>1, <2>2, <2>3
<1>6. /\ data_running' = data_running
      /\ sector_elapsed' = IF data_running THEN sector_elapsed + s ELSE sector_elapsed
  BY <1>1, <1>2 DEF AdvanceSector, StreamClockTypes
<1> QED
  BY <1>3, <1>4, <1>5, <1>6

\* A step that passes events by less than a quantum keeps the clocks in order.
LEMMA AdvanceTypes ==
  ASSUME StreamClockTypes, NEW p \in Nat, Clear(p), NEW t \in Steps, Advance(p + t)
  PROVE  StreamClockTypes' /\ fired' \subseteq {"AP", "REFILL", "SECTOR"}
<1> DEFINE s == p + t
<1>1. t \in Nat /\ t > 0 /\ t < SectorPeriod /\ \A d \in Durations : t < d
  BY PeriodsAssumption
<1>2. PICK again, finishes, goes_on \in BOOLEAN, duration \in Durations :
        /\ AdvanceAp(s, AudioDue(s) /\ ~again /\ finishes)
        /\ AdvanceAudio(s, again, duration)
        /\ AdvanceSector(s, goes_on)
  BY DEF Advance
<1>3. fired' \subseteq {"AP", "REFILL", "SECTOR"}
  BY DEF Advance
<1>4. s \in Nat /\ s > 0
  BY <1>1
<1>5. duration \in Nat /\ duration > t /\ duration < Never
  BY <1>1, <1>2, PeriodsAssumption, NeverAssumption
<1>6. /\ ap_completion_pending' \in BOOLEAN /\ ap_completion_delay' \in Nat
      /\ ap_completion_pending' => 0 < ap_completion_delay'
      /\ ap_completion_delay' <= ApLatency
  <2>1. CASE AudioDue(s) /\ ~again /\ finishes
    <3>1. ap_completion_pending' = TRUE /\ ap_completion_delay' = ApLatency
      BY <1>2, <2>1 DEF AdvanceAp
    <3> QED
      BY <3>1, PeriodsAssumption
  <2>2. CASE ~(AudioDue(s) /\ ~again /\ finishes) /\ ~ap_completion_pending
    <3>1. ap_completion_pending' = FALSE /\ ap_completion_delay' = ap_completion_delay
      BY <1>2, <2>2 DEF AdvanceAp
    <3> QED
      BY <3>1 DEF StreamClockTypes
  <2>3. CASE ~(AudioDue(s) /\ ~again /\ finishes) /\ ApDue(s)
    <3>1. ap_completion_pending
      BY <2>3 DEF ApDue
    <3>2. ~ap_completion_pending' /\ ap_completion_pending' \in BOOLEAN
      BY <1>2, <2>3, <3>1 DEF AdvanceAp
    <3>3. ap_completion_delay' = 0
      BY <1>2, <2>3, <3>1 DEF AdvanceAp
    <3>4. 0 <= ApLatency
      BY PeriodsAssumption
    <3> QED
      BY <3>2, <3>3, <3>4
  <2>4. CASE ~(AudioDue(s) /\ ~again /\ finishes) /\ ap_completion_pending /\ ~ApDue(s)
    <3>1. ap_completion_pending' = TRUE /\ ap_completion_delay' = ap_completion_delay - s
      BY <1>2, <2>4 DEF AdvanceAp
    <3>2. s < ap_completion_delay
      BY <1>4, <2>4 DEF ApDue, StreamClockTypes
    <3> HIDE DEF s
    <3> QED
      BY <1>4, <3>1, <3>2, PeriodsAssumption DEF StreamClockTypes
  <2> QED
    BY <2>1, <2>2, <2>3, <2>4
<1>7. /\ audio_active' \in BOOLEAN /\ audio_remaining' \in Nat
      /\ audio_active' => 0 < audio_remaining' /\ audio_remaining' < Never
  <2>1. CASE ~audio_active
    <3>1. audio_active' = FALSE /\ audio_remaining' = audio_remaining
      BY <1>2, <2>1 DEF AdvanceAudio
    <3> QED
      BY <3>1 DEF StreamClockTypes
  <2>2. CASE audio_active /\ ~AudioDue(s)
    <3>1. audio_active' = TRUE /\ audio_remaining' = audio_remaining - s
      BY <1>2, <2>2 DEF AdvanceAudio
    <3>2. s < audio_remaining
      BY <1>4, <2>2 DEF AudioDue, StreamClockTypes
    <3> HIDE DEF s
    <3> QED
      BY <1>4, <2>2, <3>1, <3>2, NeverAssumption DEF StreamClockTypes
  <2>3. CASE AudioDue(s) /\ again
    <3>1. audio_active
      BY <2>3 DEF AudioDue
    <3>2. audio_active' = TRUE /\ audio_remaining' = duration - (s - audio_remaining)
      BY <1>2, <2>3, <3>1 DEF AdvanceAudio
    <3>3. s - audio_remaining < t /\ s - audio_remaining >= 0
      BY <1>1, <2>3, <3>1 DEF AudioDue, Clear, StreamClockTypes
    <3> HIDE DEF s
    <3> QED
      BY <1>1, <1>4, <1>5, <3>2, <3>3, NeverAssumption DEF StreamClockTypes
  <2>4. CASE AudioDue(s) /\ ~again
    BY <1>2, <2>4 DEF AdvanceAudio, AudioDue
  <2> QED
    BY <2>1, <2>2, <2>3, <2>4
<1>8. data_running' \in BOOLEAN /\ sector_elapsed' \in Nat /\ sector_elapsed' < SectorPeriod
  <2>0. data_running' \in BOOLEAN
    BY <1>2 DEF AdvanceSector
  <2>1. CASE ~data_running
    <3>1. sector_elapsed' = sector_elapsed
      BY <1>2, <2>1 DEF AdvanceSector
    <3> QED
      BY <2>0, <3>1 DEF StreamClockTypes
  <2>2. CASE SectorDue(s)
    <3>1. sector_elapsed' = sector_elapsed + s - SectorPeriod /\ data_running
      BY <1>2, <2>2 DEF AdvanceSector, SectorDue
    <3> QED
      BY <1>1, <2>0, <2>2, <3>1, PeriodsAssumption DEF SectorDue, Clear, StreamClockTypes
  <2>3. CASE data_running /\ ~SectorDue(s)
    <3>1. sector_elapsed' = sector_elapsed + s
      BY <1>2, <2>3 DEF AdvanceSector
    <3> QED
      BY <1>1, <2>0, <2>3, <3>1, PeriodsAssumption DEF SectorDue, StreamClockTypes
  <2> QED
    BY <2>1, <2>2, <2>3
<1> QED
  BY <1>3, <1>6, <1>7, <1>8 DEF StreamClockTypes

\* A command puts the clocks where they may be.
LEMMA CommandTypes ==
  ASSUME StreamClockTypes, Command
  PROVE  StreamClockTypes' /\ fired' = {}
<1> USE PeriodsAssumption, NeverAssumption
<1>0. fired' = {}
  BY DEF Command
<1>1. CASE RequestAp
  BY <1>0, <1>1 DEF RequestAp, Requested, AudioKept, StreamKept, StreamClockTypes
<1>2. CASE StartAudio
  BY <1>0, <1>2 DEF StartAudio, ApKept, StreamKept, StreamClockTypes
<1>3. CASE ResetAudio
  <2>1. /\ ~ap_completion_pending' /\ ~audio_active' /\ data_running' = data_running
        /\ ap_completion_pending' \in BOOLEAN /\ audio_active' \in BOOLEAN
    BY <1>3 DEF ResetAudio, StreamKept
  <2>2. ap_completion_delay' = 0 /\ audio_remaining' = 0 /\ sector_elapsed' = sector_elapsed
    BY <1>3 DEF ResetAudio, StreamKept
  <2> QED
    BY <1>0, <2>1, <2>2 DEF StreamClockTypes
<1>4. CASE StartStream
  BY <1>0, <1>4 DEF StartStream, ApKept, AudioKept, StreamClockTypes
<1>5. CASE StopStream
  BY <1>0, <1>5 DEF StopStream, ApKept, AudioKept, StreamClockTypes
<1>6. CASE ResetStream
  <2>1. data_running' \in BOOLEAN /\ sector_elapsed' = 0
    BY <1>6 DEF ResetStream
  <2>2. UNCHANGED <<ap_completion_pending, ap_completion_delay, audio_active, audio_remaining>>
    BY <1>6 DEF ResetStream, ApKept, AudioKept
  <2> QED
    BY <1>0, <2>1, <2>2 DEF StreamClockTypes
<1>7. CASE Restart
  <2>1. /\ ~ap_completion_pending' /\ ~audio_active' /\ ~data_running'
        /\ ap_completion_pending' \in BOOLEAN /\ audio_active' \in BOOLEAN
        /\ data_running' \in BOOLEAN
    BY <1>7 DEF Restart
  <2>2. ap_completion_delay' = ap_completion_delay /\ audio_remaining' = 0 /\ sector_elapsed' = 0
    BY <1>7 DEF Restart
  <2> QED
    BY <1>0, <2>1, <2>2 DEF StreamClockTypes
<1> QED
  BY <1>1, <1>2, <1>3, <1>4, <1>5, <1>6, <1>7 DEF Command

-----------------------------------------------------------------------------
(* The inductive invariant. *)

\* The deadline in force is the nearest event.
LEMMA DeadlineIsNearest ==
  ASSUME ClockInv
  PROVE  Deadline = Nearest
BY DEF ClockInv, DeferralStopsShort, Deadline

\* Clocks that stay put keep their nearest event.
LEMMA NearestKept ==
  ASSUME UNCHANGED timers
  PROVE  Nearest' = Nearest /\ (StreamClockTypes => StreamClockTypes')
BY DEF timers, Nearest, SectorOr, AudioOr, ApOrNever, StreamClockTypes

\* The three outcomes of cdic_increment_time.
IdleDevice ==
  /\ Nearest = Never /\ deadline' = Never /\ deadline_valid' = TRUE /\ pending' = pending
  /\ fired' = {} /\ UNCHANGED timers
Added(step) ==
  /\ Nearest # Never /\ step < Nearest - pending
  /\ deadline' = Nearest /\ deadline_valid' = TRUE /\ pending' = pending + step
  /\ fired' = {} /\ UNCHANGED timers
Reached(step) ==
  /\ Nearest # Never /\ ~(step < Nearest - pending)
  /\ deadline' = Nearest /\ deadline_valid' = FALSE /\ pending' = 0
  /\ Advance(pending + step)

LEMMA Outcomes ==
  ASSUME ClockInv, NEW step \in Nat, IncrementTime(step)
  PROVE  /\ ~observed /\ observed' = observed
         /\ IdleDevice \/ Added(step) \/ Reached(step)
BY DeadlineIsNearest DEF IncrementTime, Defers, IdleDevice, Added, Reached

\* An idle job only asks for quanta that are added up.
LEMMA IdleJobAdds ==
  ASSUME ClockInv, NEW n \in 2 .. MaxIdle, IdleJob(n)
  PROVE  /\ n * Quantum \in Nat /\ n * Quantum > 0
         /\ ~observed /\ observed' = observed
         /\ IdleDevice \/ Added(n * Quantum)
<1>1. n \in Nat /\ Quantum \in Nat \ {0}
  BY PeriodsAssumption
<1>2. n * Quantum \in Nat /\ n * Quantum > 0
  BY <1>1
<1>3. IncrementTime(n * Quantum)
  BY DEF IdleJob
<1>4. IdleDevice \/ Added(n * Quantum) \/ Reached(n * Quantum)
  BY <1>2, <1>3, Outcomes
<1>5. ~observed /\ observed' = observed
  BY <1>2, <1>3, Outcomes
<1>6. ASSUME Reached(n * Quantum) PROVE FALSE
  <2>1. Nearest \in Nat /\ pending \in Nat
    BY NearestType DEF ClockInv, DeferralTypes
  <2>2. Nearest # Never /\ ~(n * Quantum < Nearest - pending)
    BY <1>6 DEF Reached
  <2>3. n <= QuietQuanta(MaxIdle) /\ n >= 2
    BY DEF IdleJob
  <2>4. ~(Nearest <= pending)
    BY <2>2, <2>3 DEF QuietQuanta
  <2>5. n <= (Nearest - pending - 1) \div Quantum
    <3>1. PICK quiet : quiet = (Nearest - pending - 1) \div Quantum
      OBVIOUS
    <3>2. QuietQuanta(MaxIdle) = IF quiet < MaxIdle THEN quiet ELSE MaxIdle
      BY <2>2, <2>4, <3>1 DEF QuietQuanta
    <3>3. Nearest - pending - 1 \in Nat
      BY <2>1, <2>4
    <3>4. quiet \in Int
      BY <1>1, <3>1, <3>3
    <3> QED
      BY <1>1, <2>3, <3>1, <3>2, <3>4, PeriodsAssumption
  <2>6. Nearest - pending - 1 \in Nat
    BY <2>1, <2>4
  <2>7. n * Quantum <= Nearest - pending - 1
    BY <1>1, <2>5, <2>6, DivisionBound
  <2> QED
    BY <1>2, <2>1, <2>2, <2>7
<1> QED
  BY <1>2, <1>4, <1>5, <1>6

LEMMA IdleDeviceKeeps ==
  ASSUME ClockInv, ~observed, observed' = observed, IdleDevice
  PROVE  ClockInv'
<1>1. Nearest' = Nearest /\ StreamClockTypes'
  BY NearestKept DEF IdleDevice, ClockInv
<1>2. DeferralTypes' /\ AccessInv'
  BY NeverAssumption DEF IdleDevice, ClockInv, DeferralTypes, AccessInv
<1>3. DeferralStopsShort'
  BY <1>1 DEF IdleDevice, ClockInv, DeferralStopsShort
<1> QED
  BY <1>1, <1>2, <1>3 DEF ClockInv

LEMMA AddedKeeps ==
  ASSUME ClockInv, ~observed, observed' = observed, NEW step \in Nat, Added(step)
  PROVE  ClockInv'
<1>1. Nearest' = Nearest /\ StreamClockTypes'
  BY NearestKept DEF Added, ClockInv
<1>2. Nearest \in Nat /\ pending \in Nat
  BY NearestType DEF ClockInv, DeferralTypes
<1>3. pending' \in Nat /\ pending' < Nearest
  BY <1>2 DEF Added
<1>4. DeferralTypes' /\ AccessInv'
  BY <1>2, <1>3 DEF Added, ClockInv, DeferralTypes, AccessInv
<1>5. DeferralStopsShort'
  BY <1>1, <1>3 DEF Added, DeferralStopsShort
<1> QED
  BY <1>1, <1>4, <1>5 DEF ClockInv

LEMMA ReachedKeeps ==
  ASSUME ClockInv, ~observed, observed' = observed, NEW step \in Steps, Reached(step)
  PROVE  ClockInv'
<1>1. StreamClockTypes' /\ fired' \subseteq {"AP", "REFILL", "SECTOR"}
  BY PendingClear, AdvanceTypes DEF Reached, ClockInv, DeferralTypes
<1>2. Nearest \in Nat /\ pending' = 0 /\ deadline' = Nearest /\ deadline_valid' = FALSE
  BY NearestType DEF Reached, ClockInv
<1>3. DeferralTypes' /\ AccessInv' /\ DeferralStopsShort'
  BY <1>1, <1>2 DEF ClockInv, DeferralTypes, AccessInv, DeferralStopsShort
<1> QED
  BY <1>1, <1>3 DEF ClockInv

\* What observe_streaming does to clocks on which nothing is due.
LEMMA ObserveEffect ==
  ASSUME ClockInv, Observe
  PROVE  /\ fired' = {} /\ pending' = 0
         /\ UNCHANGED <<ap_completion_pending, audio_active, data_running>>
         /\ ap_completion_delay' = IF ap_completion_pending THEN ap_completion_delay - pending
                                                            ELSE ap_completion_delay
         /\ audio_remaining' = IF audio_active THEN audio_remaining - pending
                                               ELSE audio_remaining
         /\ sector_elapsed' = IF data_running THEN sector_elapsed + pending ELSE sector_elapsed
<1>0. StreamClockTypes /\ pending \in Nat /\ pending' = 0
  BY DEF ClockInv, DeferralTypes, Observe
<1>1. CASE pending > 0
  <2>1. Advance(pending)
    BY <1>1 DEF Observe
  <2> QED
    BY <1>0, <2>1, PendingClear, QuietAdvance
<1>2. CASE pending = 0
  <2>1. fired' = {} /\ UNCHANGED timers
    BY <1>2 DEF Observe
  <2> QED
    BY <1>0, <1>2, <2>1 DEF timers, StreamClockTypes
<1> QED
  BY <1>0, <1>1, <1>2

LEMMA ObserveKeeps ==
  ASSUME ClockInv, Observe
  PROVE  ClockInv'
<1>1. StreamClockTypes /\ pending \in Nat /\ Clear(pending)
  BY PendingClear DEF ClockInv, DeferralTypes
<1>2. /\ ap_completion_pending' = ap_completion_pending
      /\ audio_active' = audio_active /\ data_running' = data_running
  BY ObserveEffect
<1>3. StreamClockTypes'
  <2>1. /\ ap_completion_delay' \in Nat /\ ap_completion_delay' <= ApLatency
        /\ ap_completion_pending => 0 < ap_completion_delay'
    BY <1>1, ObserveEffect, PeriodsAssumption DEF StreamClockTypes, Clear
  <2>2. audio_remaining' \in Nat /\ (audio_active => 0 < audio_remaining' /\ audio_remaining' < Never)
    BY <1>1, ObserveEffect, NeverAssumption DEF StreamClockTypes, Clear
  <2>3. sector_elapsed' \in Nat /\ sector_elapsed' < SectorPeriod
    BY <1>1, ObserveEffect, PeriodsAssumption DEF StreamClockTypes, Clear
  <2> QED
    BY <1>1, <1>2, <2>1, <2>2, <2>3 DEF StreamClockTypes
<1>4. DeferralTypes' /\ AccessInv'
  BY ObserveEffect DEF Observe, DeadlineAfterAccess, ClockInv, DeferralTypes, AccessInv
<1>5. DeferralStopsShort'
  BY ObserveEffect DEF Observe, DeadlineAfterAccess, DeferralStopsShort
<1> QED
  BY <1>3, <1>4, <1>5 DEF ClockInv

LEMMA ActKeeps ==
  ASSUME ClockInv, Act
  PROVE  ClockInv'
<1>1. /\ pending' = pending /\ deadline' = deadline /\ deadline_valid' = deadline_valid
      /\ observed /\ observed' = FALSE
  BY DEF Act
<1>2. pending = 0 /\ ~deadline_valid
  BY <1>1 DEF ClockInv, AccessInv
<1>3. StreamClockTypes' /\ fired' = {}
  <2>1. CASE Command
    BY <2>1, CommandTypes DEF ClockInv
  <2>2. CASE Access
    BY <2>2, NearestKept DEF ClockInv, Access
  <2> QED
    BY <2>1, <2>2 DEF Act
<1>4. DeferralTypes' /\ AccessInv' /\ DeferralStopsShort'
  BY <1>1, <1>2, <1>3 DEF ClockInv, DeferralTypes, AccessInv, DeferralStopsShort
<1> QED
  BY <1>3, <1>4 DEF ClockInv

LEMMA InitInv == ClockInit => ClockInv
<1> SUFFICES ASSUME ClockInit PROVE ClockInv
  OBVIOUS
<1>1. StreamClockTypes
  <2>1. /\ ~ap_completion_pending /\ ~audio_active /\ ~data_running
        /\ ap_completion_pending \in BOOLEAN /\ audio_active \in BOOLEAN
        /\ data_running \in BOOLEAN
    BY Zenon DEF ClockInit, Init
  <2>2. ap_completion_delay = 0 /\ audio_remaining = 0 /\ sector_elapsed = 0
    BY DEF ClockInit, Init
  <2>3. 0 <= ApLatency /\ 0 < SectorPeriod
    BY PeriodsAssumption
  <2> QED
    BY <2>1, <2>2, <2>3 DEF StreamClockTypes
<1>2. DeferralTypes /\ AccessInv /\ DeferralStopsShort
  BY DEF ClockInit, Init, DeferralTypes, AccessInv, DeferralStopsShort
<1> QED
  BY <1>1, <1>2 DEF ClockInv

LEMMA NextInv == ClockInv /\ [Next]_vars => ClockInv'
<1> SUFFICES ASSUME ClockInv, [Next]_vars PROVE ClockInv'
  OBVIOUS
<1>1. ASSUME NEW step \in Steps, IncrementTime(step) PROVE ClockInv'
  <2>1. step \in Nat
    BY PeriodsAssumption
  <2> QED
    BY <1>1, <2>1, Outcomes, IdleDeviceKeeps, AddedKeeps, ReachedKeeps
<1>2. ASSUME NEW n \in 2 .. MaxIdle, IdleJob(n) PROVE ClockInv'
  BY <1>2, IdleJobAdds, IdleDeviceKeeps, AddedKeeps
<1>3. CASE Observe
  BY <1>3, ObserveKeeps
<1>4. CASE Act
  BY <1>4, ActKeeps
<1>5. CASE UNCHANGED vars
  <2>1. UNCHANGED timers /\ UNCHANGED <<fired, pending, deadline, deadline_valid, observed>>
    BY <1>5 DEF vars
  <2> QED
    BY <2>1, NearestKept
       DEF ClockInv, DeferralTypes, AccessInv, DeferralStopsShort
<1> QED
  BY <1>1, <1>2, <1>3, <1>4, <1>5 DEF Next

LEMMA InvHolds == Spec => []ClockInv
BY InitInv, NextInv, PTL DEF Spec

\* Every variable of the deferred clock keeps its type: no countdown underflows and the
\* sector clock stays within its period (advance_streaming).
THEOREM TypeCorrect == Spec => []TypeOK
<1>1. ClockInv => TypeOK
  BY PeriodsAssumption DEF ClockInv, StreamClockTypes, DeferralTypes, TypeOK
<1> QED
  BY <1>1, InvHolds, PTL

\* Deferred time never crosses an event, whatever the lengths of quanta, sounds,
\* latency and sectors (cdic_increment_time, observe_streaming).
THEOREM DeferralExact == Spec => []DeferralStopsShort
<1>1. ClockInv => DeferralStopsShort
  BY DEF ClockInv
<1> QED
  BY <1>1, InvHolds, PTL

-----------------------------------------------------------------------------
(* The refinement. *)

\* The clocks brought up to date, as the refinement maps them.
Delay == IF ap_completion_pending THEN ap_completion_delay - pending ELSE ap_completion_delay
Remaining == IF audio_active THEN audio_remaining - pending ELSE audio_remaining
Elapsed == IF data_running THEN sector_elapsed + pending ELSE sector_elapsed

\* With nothing pending they are the device's own.
LEMMA MappedWhenCurrent ==
  ASSUME StreamClockTypes, pending = 0
  PROVE  /\ Delay = ap_completion_delay /\ Remaining = audio_remaining
         /\ Elapsed = sector_elapsed
BY DEF StreamClockTypes, Delay, Remaining, Elapsed

LEMMA MappedWhenCurrentNext ==
  ASSUME StreamClockTypes', pending' = 0
  PROVE  /\ Delay' = ap_completion_delay' /\ Remaining' = audio_remaining'
         /\ Elapsed' = sector_elapsed'
<1>1. ap_completion_delay' \in Nat /\ audio_remaining' \in Nat /\ sector_elapsed' \in Nat
  BY DEF StreamClockTypes
<1>0. /\ ap_completion_delay' - pending' = ap_completion_delay'
      /\ audio_remaining' - pending' = audio_remaining'
      /\ sector_elapsed' + pending' = sector_elapsed'
  <2>1. PICK a \in Nat : a = ap_completion_delay'
    BY <1>1
  <2>2. PICK r \in Nat : r = audio_remaining'
    BY <1>1
  <2>3. PICK e \in Nat : e = sector_elapsed'
    BY <1>1
  <2>4. a - 0 = a /\ r - 0 = r /\ e + 0 = e
    OBVIOUS
  <2> QED
    BY <2>1, <2>2, <2>3, <2>4, Zenon
<1>2. Delay' = ap_completion_delay'
  BY <1>0, Zenon DEF Delay
<1>3. Remaining' = audio_remaining'
  BY <1>0, Zenon DEF Remaining
<1>4. Elapsed' = sector_elapsed'
  BY <1>0, Zenon DEF Elapsed
<1> QED
  BY <1>2, <1>3, <1>4

\* Clocks that all stay where the guest sees them are an access.
LEMMA MappedAccess ==
  ASSUME fired' = {}, UNCHANGED <<ap_completion_pending, audio_active, data_running>>,
         Delay' = Delay, Remaining' = Remaining, Elapsed' = Elapsed
  PROVE  Timers!Access
BY DEF Timers!Access, Timers!timers, Delay, Remaining, Elapsed

\* Time added to pending is a quiet advance of the mapped clocks.
LEMMA AddedMaps ==
  ASSUME ClockInv, NEW step \in Nat, Added(step)
  PROVE  /\ Timers!Advance(step)
         /\ ~Timers!ApDue(step) /\ ~Timers!AudioDue(step) /\ ~Timers!SectorDue(step)
<1>1. StreamClockTypes /\ pending \in Nat /\ Nearest \in Nat
  BY NearestType DEF ClockInv, DeferralTypes
<1>2. Clear(pending + step)
  BY <1>1, NearestClear DEF Added
<1>3. pending' = pending + step /\ fired' = {} /\ UNCHANGED timers
  BY DEF Added
<1>4. ~Timers!ApDue(step) /\ ~Timers!AudioDue(step) /\ ~Timers!SectorDue(step)
  BY <1>1, <1>2, PeriodsAssumption
     DEF Timers!ApDue, Timers!AudioDue, Timers!SectorDue, Clear, StreamClockTypes
<1>5. PICK duration : duration \in Durations
  BY PeriodsAssumption
<1>6. Timers!AdvanceAp(step, Timers!AudioDue(step) /\ ~TRUE /\ TRUE)
  <2>1. ap_completion_pending' = ap_completion_pending /\ ap_completion_pending \in BOOLEAN
    BY <1>1, <1>3 DEF timers, StreamClockTypes
  <2>2. Delay' = IF ap_completion_pending THEN Delay - step ELSE Delay
    BY <1>1, <1>3 DEF timers, StreamClockTypes, Delay
  <2> QED
    BY <1>4, <2>1, <2>2 DEF Timers!AdvanceAp, Delay
<1>7. Timers!AdvanceAudio(step, TRUE, duration)
  <2>1. audio_active' = audio_active /\ audio_active \in BOOLEAN
    BY <1>1, <1>3 DEF timers, StreamClockTypes
  <2>2. Remaining' = IF audio_active THEN Remaining - step ELSE Remaining
    BY <1>1, <1>3 DEF timers, StreamClockTypes, Remaining
  <2> QED
    BY <1>4, <2>1, <2>2 DEF Timers!AdvanceAudio, Remaining
<1>8. Timers!AdvanceSector(step, TRUE)
  <2>1. data_running' = data_running /\ data_running \in BOOLEAN
    BY <1>1, <1>3 DEF timers, StreamClockTypes
  <2>2. Elapsed' = IF data_running THEN Elapsed + step ELSE Elapsed
    BY <1>1, <1>3 DEF timers, StreamClockTypes, Elapsed
  <2> QED
    BY <1>4, <2>1, <2>2 DEF Timers!AdvanceSector, Elapsed
<1>9. fired' = (IF Timers!ApDue(step) THEN {"AP"} ELSE {})
                 \cup (IF Timers!AudioDue(step) THEN {"REFILL"} ELSE {})
                 \cup (IF Timers!SectorDue(step) THEN {"SECTOR"} ELSE {})
  BY <1>3, <1>4
<1>10. Timers!Advance(step)
  BY <1>5, <1>6, <1>7, <1>8, <1>9, Zenon DEF Timers!Advance
<1> QED
  BY <1>4, <1>10

\* The quantum that reaches an event is the same quantum of the mapped clocks.
LEMMA ReachedMaps ==
  ASSUME ClockInv, NEW step \in Steps, Reached(step)
  PROVE  Timers!Advance(step)
<1>1. /\ StreamClockTypes /\ pending \in Nat /\ step \in Nat /\ pending' = 0
      /\ Advance(pending + step) /\ Clear(pending)
  BY PeriodsAssumption, PendingClear DEF ClockInv, DeferralTypes, Reached
<1>2. StreamClockTypes'
  BY <1>1, AdvanceTypes
<1>3. /\ Delay' = ap_completion_delay' /\ Remaining' = audio_remaining'
      /\ Elapsed' = sector_elapsed'
  BY <1>1, <1>2, MappedWhenCurrentNext
<1>4. PICK s \in Nat : s = pending + step
  BY <1>1
<1>5. PICK again, finishes, goes_on \in BOOLEAN, duration \in Durations :
        /\ AdvanceAp(s, AudioDue(s) /\ ~again /\ finishes)
        /\ AdvanceAudio(s, again, duration)
        /\ AdvanceSector(s, goes_on)
        /\ fired' = (IF ApDue(s) THEN {"AP"} ELSE {})
                      \cup (IF AudioDue(s) THEN {"REFILL"} ELSE {})
                      \cup (IF SectorDue(s) THEN {"SECTOR"} ELSE {})
  BY <1>1, <1>4 DEF Advance
<1>6. Timers!ApDue(step) = ApDue(s)
  BY <1>1, <1>4 DEF Timers!ApDue, ApDue, StreamClockTypes
<1>7. Timers!AudioDue(step) = AudioDue(s)
  BY <1>1, <1>4 DEF Timers!AudioDue, AudioDue, StreamClockTypes
<1>8. Timers!SectorDue(step) = SectorDue(s)
  BY <1>1, <1>4 DEF Timers!SectorDue, SectorDue, StreamClockTypes
<1>9. Timers!AdvanceAp(step, Timers!AudioDue(step) /\ ~again /\ finishes)
  <2>1. PICK requests \in BOOLEAN : requests = (AudioDue(s) /\ ~again /\ finishes)
    OBVIOUS
  <2>2. AdvanceAp(s, requests)
    BY <1>5, <2>1
  <2>3. ap_completion_pending' = (requests \/ (ap_completion_pending /\ ~Timers!ApDue(step)))
    BY <2>2, <1>6 DEF AdvanceAp
  <2>4. Delay' = IF requests THEN ApLatency
                 ELSE IF ~ap_completion_pending THEN Delay
                 ELSE IF Timers!ApDue(step) THEN 0 ELSE Delay - step
    BY <1>1, <1>3, <1>4, <1>6, <2>2 DEF AdvanceAp, Delay, StreamClockTypes
  <2>5. Timers!AdvanceAp(step, requests)
    BY <2>3, <2>4 DEF Timers!AdvanceAp, Delay
  <2> QED
    BY <1>7, <2>1, <2>5
<1>10. Timers!AdvanceAudio(step, again, duration)
  <2>1. audio_active' = (audio_active /\ (Timers!AudioDue(step) => again))
    BY <1>5, <1>7 DEF AdvanceAudio
  <2>2. duration \in Nat
    BY <1>5, PeriodsAssumption
  <2>3. Remaining' = IF ~audio_active THEN Remaining
                     ELSE IF ~Timers!AudioDue(step) THEN Remaining - step
                     ELSE IF again THEN duration - (step - Remaining) ELSE 0
    BY <1>1, <1>3, <1>4, <1>5, <1>7, <2>2 DEF AdvanceAudio, Remaining, StreamClockTypes
  <2> QED
    BY <2>1, <2>3 DEF Timers!AdvanceAudio, Remaining
<1>11. Timers!AdvanceSector(step, goes_on)
  <2>1. data_running' = (data_running /\ (Timers!SectorDue(step) => goes_on))
    BY <1>5, <1>8 DEF AdvanceSector
  <2>2. Elapsed' = IF ~data_running THEN Elapsed
                   ELSE IF Timers!SectorDue(step) THEN Elapsed + step - SectorPeriod
                   ELSE Elapsed + step
    BY <1>1, <1>3, <1>4, <1>5, <1>8, PeriodsAssumption DEF AdvanceSector, Elapsed, StreamClockTypes
  <2> QED
    BY <2>1, <2>2 DEF Timers!AdvanceSector, Elapsed
<1>12. fired' = (IF Timers!ApDue(step) THEN {"AP"} ELSE {})
                  \cup (IF Timers!AudioDue(step) THEN {"REFILL"} ELSE {})
                  \cup (IF Timers!SectorDue(step) THEN {"SECTOR"} ELSE {})
  BY <1>5, <1>6, <1>7, <1>8, Zenon
<1> QED
  BY <1>5, <1>9, <1>10, <1>11, <1>12, Zenon DEF Timers!Advance

\* What an access does is done to the mapped clocks.
LEMMA ActMaps ==
  ASSUME ClockInv, Act
  PROVE  Timers!Command \/ Timers!Access
<1>1. StreamClockTypes /\ pending = 0 /\ pending' = 0
  BY DEF ClockInv, AccessInv, Act
<1>2. StreamClockTypes'
  BY ActKeeps DEF ClockInv
<1>3. /\ Delay = ap_completion_delay /\ Remaining = audio_remaining
      /\ Elapsed = sector_elapsed
  BY <1>1, MappedWhenCurrent
<1>4. /\ Delay' = ap_completion_delay' /\ Remaining' = audio_remaining'
      /\ Elapsed' = sector_elapsed'
  BY <1>1, <1>2, MappedWhenCurrentNext
<1>5. CASE Access
  BY <1>3, <1>4, <1>5, MappedAccess DEF Access, timers
<1>6. ASSUME Command PROVE Timers!Command
  <2>0. fired' = {}
    BY <1>6 DEF Command
  <2>1. CASE RequestAp
    <3>1. Timers!RequestAp
      BY <1>3, <1>4, <2>1
         DEF RequestAp, Requested, AudioKept, StreamKept, Delay, Remaining, Elapsed,
             Timers!RequestAp, Timers!Requested, Timers!AudioKept, Timers!StreamKept
    <3> QED
      BY <2>0, <3>1 DEF Timers!Command
  <2>2. CASE StartAudio
    <3>1. Timers!StartAudio
      BY <1>3, <1>4, <2>2
         DEF StartAudio, ApKept, StreamKept, Delay, Remaining, Elapsed,
             Timers!StartAudio, Timers!ApKept, Timers!StreamKept
    <3> QED
      BY <2>0, <3>1 DEF Timers!Command
  <2>3. CASE ResetAudio
    <3>1. Timers!ResetAudio
      BY <1>3, <1>4, <2>3
         DEF ResetAudio, StreamKept, Delay, Remaining, Elapsed,
             Timers!ResetAudio, Timers!StreamKept
    <3> QED
      BY <2>0, <3>1 DEF Timers!Command
  <2>4. CASE StartStream
    <3>1. Timers!StartStream
      BY <1>3, <1>4, <2>4
         DEF StartStream, ApKept, AudioKept, Delay, Remaining, Elapsed,
             Timers!StartStream, Timers!ApKept, Timers!AudioKept
    <3> QED
      BY <2>0, <3>1 DEF Timers!Command
  <2>5. CASE StopStream
    <3>1. Timers!StopStream
      BY <1>3, <1>4, <2>5
         DEF StopStream, ApKept, AudioKept, Delay, Remaining, Elapsed,
             Timers!StopStream, Timers!ApKept, Timers!AudioKept
    <3> QED
      BY <2>0, <3>1 DEF Timers!Command
  <2>6. CASE ResetStream
    <3>1. Timers!ResetStream
      BY <1>3, <1>4, <2>6
         DEF ResetStream, ApKept, AudioKept, Delay, Remaining, Elapsed,
             Timers!ResetStream, Timers!ApKept, Timers!AudioKept
    <3> QED
      BY <2>0, <3>1 DEF Timers!Command
  <2>7. CASE Restart
    <3>1. Timers!Restart
      BY <1>3, <1>4, <2>7
         DEF Restart, Delay, Remaining, Elapsed, Timers!Restart
    <3> QED
      BY <2>0, <3>1 DEF Timers!Command
  <2> QED
    BY <1>6, <2>1, <2>2, <2>3, <2>4, <2>5, <2>6, <2>7 DEF Command
<1> QED
  BY <1>5, <1>6 DEF Act

LEMMA InitMaps == ClockInit => Timers!Init
<1> SUFFICES ASSUME ClockInit PROVE Timers!Init
  OBVIOUS
<1>1. /\ Delay = ap_completion_delay /\ Remaining = audio_remaining
      /\ Elapsed = sector_elapsed
  BY InitInv, MappedWhenCurrent DEF ClockInit, ClockInv
<1> QED
  BY <1>1, Zenon DEF ClockInit, Init, Timers!Init, Delay, Remaining, Elapsed

LEMMA StepMaps ==
  ClockInv /\ [Next]_vars => [Timers!TimersNext]_<<Timers!timers, fired>>
<1> SUFFICES ASSUME ClockInv, [Next]_vars
             PROVE  [Timers!TimersNext]_<<Timers!timers, fired>>
  OBVIOUS
<1>0. ASSUME IdleDevice PROVE Timers!Access
  <2>1. ~ap_completion_pending /\ ~audio_active /\ ~data_running
    BY <1>0, NearestNever DEF IdleDevice, ClockInv
  <2> QED
    BY <1>0, <2>1, MappedAccess DEF IdleDevice, timers, Delay, Remaining, Elapsed
<1>1. ASSUME NEW step \in Steps, IncrementTime(step) PROVE Timers!TimersNext
  <2>1. step \in Nat
    BY PeriodsAssumption
  <2>2. IdleDevice \/ Added(step) \/ Reached(step)
    BY <1>1, <2>1, Outcomes
  <2>3. Timers!Access \/ Timers!Advance(step)
    BY <1>0, <2>1, <2>2, AddedMaps, ReachedMaps
  <2> QED
    BY <2>3 DEF Timers!TimersNext
<1>2. ASSUME NEW n \in 2 .. MaxIdle, IdleJob(n) PROVE Timers!TimersNext
  <2>1. n * Quantum \in Nat /\ (IdleDevice \/ Added(n * Quantum))
    BY <1>2, IdleJobAdds
  <2>2. CASE IdleDevice
    BY <1>0, <2>2 DEF Timers!TimersNext
  <2>3. CASE Added(n * Quantum)
    <3>1. Timers!AdvanceQuietly(n)
      BY <2>1, <2>3, AddedMaps DEF Timers!AdvanceQuietly
    <3> QED
      BY <3>1 DEF Timers!TimersNext
  <2> QED
    BY <2>1, <2>2, <2>3
<1>3. ASSUME Observe PROVE Timers!TimersNext
  <2>1. StreamClockTypes'
    BY <1>3, ObserveKeeps DEF ClockInv
  <2>2. /\ Delay' = ap_completion_delay' /\ Remaining' = audio_remaining'
        /\ Elapsed' = sector_elapsed'
    BY <1>3, <2>1, ObserveEffect, MappedWhenCurrentNext
  <2>3. Delay' = Delay /\ Remaining' = Remaining /\ Elapsed' = Elapsed
    BY <1>3, <2>2, ObserveEffect DEF Delay, Remaining, Elapsed
  <2>4. fired' = {} /\ UNCHANGED <<ap_completion_pending, audio_active, data_running>>
    BY <1>3, ObserveEffect
  <2>5. Timers!Access
    BY <2>3, <2>4, MappedAccess
  <2> QED
    BY <2>5 DEF Timers!TimersNext
<1>4. ASSUME Act PROVE Timers!TimersNext
  BY <1>4, ActMaps DEF Timers!TimersNext
<1>5. CASE UNCHANGED vars
  BY <1>5 DEF vars, timers, Timers!timers
<1> QED
  BY <1>1, <1>2, <1>3, <1>4, <1>5 DEF Next

\* The deferred clock of CDI_STREAMING_HLE implements the clock that takes every
\* quantum singly, whatever the lengths of quanta, sounds, latency and sectors.
THEOREM DeferralImplements == Spec => ImplementsTimers
BY InvHolds, InitMaps, StepMaps, PTL DEF Spec, ImplementsTimers, Timers!TimersSpec

(***************************************************************************)
(* The timers: a skip of many cycles is that many single cycles.           *)
(***************************************************************************)
TimerSet ==
  [t0 : 0 .. CounterTop, t1 : 0 .. CounterTop, t2 : 0 .. CounterTop, status : SUBSET Flags,
   prescale : 0 .. Prescale - 1]

RegisterTypes ==
  /\ reload \in 0 .. CounterTop /\ mode1 \in Modes /\ mode2 \in Modes /\ priority \in {0, 1}
  /\ irq \in BOOLEAN /\ faithful_irq \in BOOLEAN
  /\ due \in Nat /\ lag \in 0 .. TimerIdle

\* What is still missing is a quiet advance.
LagInv ==
  /\ lag = 0 => faithful = onchip_timers
  /\ lag > 0 => /\ due = 0
                /\ lag * TimerQuantum < CyclesToOverflow(faithful)
                /\ onchip_timers = AdvanceQuiet(faithful, lag * TimerQuantum)
  /\ irq = faithful_irq

TimersInv == RegisterTypes /\ onchip_timers \in TimerSet /\ faithful \in TimerSet /\ LagInv

-----------------------------------------------------------------------------
(* Arithmetic. *)

LEMMA ModesRange == \A m \in Modes : m \in 0 .. 3
BY TimersAssumption

LEMMA Division ==
  ASSUME NEW a \in Nat, NEW p \in Nat \ {0}
  PROVE  /\ a \div p \in Nat /\ a % p \in 0 .. p - 1
         /\ a = (a \div p) * p + (a % p)
         /\ a < p => a \div p = 0 /\ a % p = a
OBVIOUS

\* One period more is one tick more.
LEMMA DivisionStep ==
  ASSUME NEW a \in Nat, NEW p \in Nat \ {0}
  PROVE  (a + p) \div p = (a \div p) + 1 /\ (a + p) % p = a % p
<1>1. PICK q \in Nat : q = a \div p
  OBVIOUS
<1>2. PICK r \in 0 .. p - 1 : r = a % p
  OBVIOUS
<1>3. a = q * p + r
  BY <1>1, <1>2
<1>4. a + p = (q + 1) * p + r
  BY <1>3
<1> QED
  BY <1>1, <1>2, <1>4, SMTT(30)

LEMMA TicksBelow ==
  ASSUME NEW a \in Nat, NEW p \in Nat \ {0}, NEW t \in Nat, a < t * p
  PROVE  a \div p < t
<1>1. PICK q \in Nat : q = a \div p
  OBVIOUS
<1>2. q * p <= a
  BY <1>1
<1>3. ASSUME q >= t PROVE FALSE
  <2>1. q * p >= t * p
    BY <1>3
  <2> QED
    BY <1>2, <2>1
<1> QED
  BY <1>1, <1>3

-----------------------------------------------------------------------------
(* Quiet ticks. *)

\* The flags after quiet ticks, where the counters match or do not.
Quiet(s, zero, one, two) ==
  QuietFlags12(mode2, two, zero,
    QuietFlags12(mode1, one, zero, s.status, "OV1", "MA1"), "OV2", "MA2")

\* The timers after a number of ticks in which nothing overflows.
Ahead(s, ticks, rest) ==
  LET zero == s.t0 + ticks
      one == IF mode1 = 0 THEN s.t1 ELSE s.t1 + ticks
      two == IF mode2 = 0 THEN s.t2 ELSE s.t2 + ticks
  IN  [t0 |-> zero, t1 |-> one, t2 |-> two, status |-> Quiet(s, zero, one, two),
       prescale |-> rest]

\* Nothing overflows within the ticks.
Room(s, ticks) ==
  /\ s.t0 + ticks <= CounterTop
  /\ mode1 # 0 => s.t1 + ticks <= CounterTop
  /\ mode2 # 0 => s.t2 + ticks <= CounterTop

LEMMA RoomBelow ==
  ASSUME NEW s \in TimerSet, NEW ticks \in Nat
  PROVE  /\ TicksToOverflow(s) \in Nat /\ TicksToOverflow(s) >= 1
         /\ ticks < TicksToOverflow(s) <=> Room(s, ticks)
<1>1. /\ s.t0 \in 0 .. CounterTop /\ s.t1 \in 0 .. CounterTop /\ s.t2 \in 0 .. CounterTop /\ CounterTop \in Nat
  BY TimersAssumption DEF TimerSet
<1> QED
  BY <1>1 DEF TicksToOverflow, Smaller, Room

LEMMA TicksMoved ==
  ASSUME NEW s \in TimerSet, NEW r \in TimerSet, Room(s, 1),
         r.t0 = s.t0 + 1,
         r.t1 = IF mode1 = 0 THEN s.t1 ELSE s.t1 + 1,
         r.t2 = IF mode2 = 0 THEN s.t2 ELSE s.t2 + 1
  PROVE  TicksToOverflow(r) = TicksToOverflow(s) - 1
<1>1. /\ s.t0 \in 0 .. CounterTop /\ s.t1 \in 0 .. CounterTop /\ s.t2 \in 0 .. CounterTop /\ CounterTop \in Nat
  BY TimersAssumption DEF TimerSet
<1> QED
  BY <1>1 DEF TicksToOverflow, Smaller

LEMMA WrappedWithin ==
  ASSUME NEW v \in Nat, v <= CounterTop
  PROVE  Wrapped(v) = v
BY TimersAssumption DEF Wrapped

\* periph_advance_quiet, where there is room.
LEMMA AdvanceIsAhead ==
  ASSUME NEW s \in TimerSet, NEW x \in Nat, NEW ticks \in Nat, NEW rest,
         ticks = (s.prescale + x) \div Prescale, rest = (s.prescale + x) % Prescale,
         Room(s, ticks)
  PROVE  AdvanceQuiet(s, x) = IF ticks = 0 THEN [s EXCEPT !.prescale = rest]
                                           ELSE Ahead(s, ticks, rest)
<1>1. /\ s.t0 \in Nat /\ s.t1 \in Nat /\ s.t2 \in Nat
  BY TimersAssumption DEF TimerSet
<1>2. Wrapped(s.t0 + ticks) = s.t0 + ticks
  BY <1>1, WrappedWithin DEF Room
<1>3. Moved(mode1, s.t1, ticks) = IF mode1 = 0 THEN s.t1 ELSE s.t1 + ticks
  BY <1>1, WrappedWithin DEF Room, Moved
<1>4. Moved(mode2, s.t2, ticks) = IF mode2 = 0 THEN s.t2 ELSE s.t2 + ticks
  BY <1>1, WrappedWithin DEF Room, Moved
<1> QED
  BY <1>2, <1>3, <1>4 DEF AdvanceQuiet, Ahead, Quiet

\* A tick in which nothing overflows is quiet.
LEMMA ClockIsAhead ==
  ASSUME NEW s \in TimerSet, Room(s, 1)
  PROVE  ClockOnce(s) = Ahead(s, 1, s.prescale) /\ ~Overflows(s)
<1>1. /\ s.t0 \in Nat /\ s.t1 \in Nat /\ s.t2 \in Nat /\ CounterTop \in Nat
  BY TimersAssumption DEF TimerSet
<1>2. s.t0 # CounterTop /\ (mode1 # 0 => s.t1 # CounterTop) /\ (mode2 # 0 => s.t2 # CounterTop)
  BY <1>1 DEF Room
<1>3. /\ Next0(s) = s.t0 + 1
      /\ Next12(mode1, s.t1) = IF mode1 = 0 THEN s.t1 ELSE s.t1 + 1
      /\ Next12(mode2, s.t2) = IF mode2 = 0 THEN s.t2 ELSE s.t2 + 1
  BY <1>2 DEF Next0, Next12
<1>4. PICK one, two : one = Next12(mode1, s.t1) /\ two = Next12(mode2, s.t2)
  OBVIOUS
<1>5. Flags12(mode1, s.t1, s.t0 + 1, s.status, "OV1", "MA1")
        = QuietFlags12(mode1, one, s.t0 + 1, s.status, "OV1", "MA1")
  BY <1>2, <1>4 DEF Flags12, QuietFlags12
<1>6. PICK flags : flags = QuietFlags12(mode1, one, s.t0 + 1, s.status, "OV1", "MA1")
  OBVIOUS
<1>7. Flags12(mode2, s.t2, s.t0 + 1, flags, "OV2", "MA2")
        = QuietFlags12(mode2, two, s.t0 + 1, flags, "OV2", "MA2")
  BY <1>2, <1>4 DEF Flags12, QuietFlags12
<1>8. NextFlags(s) = Quiet(s, s.t0 + 1, one, two)
  BY <1>2, <1>3, <1>5, <1>6, <1>7 DEF NextFlags, Quiet, Flags0
<1>9. ClockOnce(s) = [t0 |-> s.t0 + 1, t1 |-> one, t2 |-> two,
                      status |-> Quiet(s, s.t0 + 1, one, two), prescale |-> s.prescale]
  <2>1. PICK a, b, c, st, p :
          s = [t0 |-> a, t1 |-> b, t2 |-> c, status |-> st, prescale |-> p]
    BY DEF TimerSet
  <2>2. PICK zero, flags2 : zero = Next0(s) /\ flags2 = NextFlags(s)
    OBVIOUS
  <2>3. ClockOnce(s) = [s EXCEPT !.t0 = zero, !.t1 = one, !.t2 = two, !.status = flags2]
    BY <1>4, <2>2 DEF ClockOnce
  <2>4. ClockOnce(s) = [t0 |-> zero, t1 |-> one, t2 |-> two, status |-> flags2, prescale |-> p]
    BY <2>1, <2>3
  <2> QED
    BY <1>3, <1>8, <2>1, <2>2, <2>4
<1>10. ~Overflows(s)
  BY <1>2 DEF Overflows
<1> QED
  BY <1>3, <1>4, <1>9, <1>10 DEF Ahead

\* Quiet ticks more leave the flags as they are.
LEMMA QuietTwice ==
  ASSUME NEW f, NEW m1, NEW m2, NEW c1, NEW c2, NEW z, NEW d1, NEW d2, NEW y,
         m1 # 0 => ((c1 = z) <=> (d1 = y)), m2 # 0 => ((c2 = z) <=> (d2 = y)),
         NEW g, g = QuietFlags12(m2, c2, z,
                      QuietFlags12(m1, c1, z, f, "OV1", "MA1"), "OV2", "MA2")
  PROVE  /\ QuietFlags12(m2, d2, y,
              QuietFlags12(m1, d1, y, g, "OV1", "MA1"), "OV2", "MA2") = g
         /\ QuietFlags12(m2, d2, y,
              QuietFlags12(m1, d1, y, f, "OV1", "MA1"), "OV2", "MA2") = g
BY DEF QuietFlags12

LEMMA QuietTypes ==
  ASSUME NEW s \in TimerSet, NEW zero, NEW one, NEW two
  PROVE  Quiet(s, zero, one, two) \subseteq Flags
BY DEF Quiet, QuietFlags12, TimerSet, Flags

LEMMA AheadRest ==
  ASSUME NEW s, NEW p, NEW rest
  PROVE  [Ahead(s, 1, p) EXCEPT !.prescale = rest] = Ahead(s, 1, rest)
<1>1. PICK z, c1, c2, g :
        /\ z = s.t0 + 1
        /\ c1 = IF mode1 = 0 THEN s.t1 ELSE s.t1 + 1
        /\ c2 = IF mode2 = 0 THEN s.t2 ELSE s.t2 + 1
        /\ g = Quiet(s, z, c1, c2)
  OBVIOUS
<1>2. /\ Ahead(s, 1, p) = [t0 |-> z, t1 |-> c1, t2 |-> c2, status |-> g, prescale |-> p]
      /\ Ahead(s, 1, rest) = [t0 |-> z, t1 |-> c1, t2 |-> c2, status |-> g, prescale |-> rest]
  BY <1>1 DEF Ahead
<1> QED
  BY <1>2

\* A tick and the ticks after it are one advance.
LEMMA AheadStep ==
  ASSUME NEW s \in TimerSet, NEW k \in Nat, Room(s, k + 1), NEW p, NEW rest
  PROVE  Ahead(Ahead(s, 1, p), k, rest) = Ahead(s, k + 1, rest)
<1>1. /\ s.t0 \in Nat /\ s.t1 \in Nat /\ s.t2 \in Nat
  BY TimersAssumption DEF TimerSet
<1>2. PICK c1, c2 : /\ c1 = IF mode1 = 0 THEN s.t1 ELSE s.t1 + 1
                    /\ c2 = IF mode2 = 0 THEN s.t2 ELSE s.t2 + 1
  OBVIOUS
<1>3. PICK d1, d2 : /\ d1 = IF mode1 = 0 THEN s.t1 ELSE s.t1 + (k + 1)
                    /\ d2 = IF mode2 = 0 THEN s.t2 ELSE s.t2 + (k + 1)
  OBVIOUS
<1>4. PICK g : g = Quiet(s, s.t0 + 1, c1, c2)
  OBVIOUS
<1>5. PICK r : r = Ahead(s, 1, p)
  OBVIOUS
<1>6. r = [t0 |-> s.t0 + 1, t1 |-> c1, t2 |-> c2, status |-> g, prescale |-> p]
  BY <1>2, <1>4, <1>5 DEF Ahead
<1>7. /\ (s.t0 + 1) + k = s.t0 + (k + 1)
      /\ (IF mode1 = 0 THEN c1 ELSE c1 + k) = d1 /\ (IF mode2 = 0 THEN c2 ELSE c2 + k) = d2
  BY <1>1, <1>2, <1>3
<1>8. /\ mode1 # 0 => ((c1 = s.t0 + 1) <=> (d1 = s.t0 + (k + 1)))
      /\ mode2 # 0 => ((c2 = s.t0 + 1) <=> (d2 = s.t0 + (k + 1)))
  BY <1>1, <1>2, <1>3
<1>9. Quiet(r, s.t0 + (k + 1), d1, d2) = g /\ Quiet(s, s.t0 + (k + 1), d1, d2) = g
  <2>1. PICK f, y, z : f = s.status /\ y = s.t0 + (k + 1) /\ z = s.t0 + 1
    OBVIOUS
  <2>2. g = QuietFlags12(mode2, c2, z,
              QuietFlags12(mode1, c1, z, f, "OV1", "MA1"), "OV2", "MA2")
    BY <1>4, <2>1 DEF Quiet
  <2>3. /\ QuietFlags12(mode2, d2, y,
             QuietFlags12(mode1, d1, y, g, "OV1", "MA1"), "OV2", "MA2") = g
        /\ QuietFlags12(mode2, d2, y,
             QuietFlags12(mode1, d1, y, f, "OV1", "MA1"), "OV2", "MA2") = g
    BY <1>8, <2>1, <2>2, QuietTwice
  <2> QED
    BY <1>6, <2>1, <2>3 DEF Quiet
<1>10. Ahead(r, k, rest) = [t0 |-> s.t0 + (k + 1), t1 |-> d1, t2 |-> d2, status |-> g,
                            prescale |-> rest]
  BY <1>6, <1>7, <1>9 DEF Ahead
<1>11. Ahead(s, k + 1, rest) = [t0 |-> s.t0 + (k + 1), t1 |-> d1, t2 |-> d2, status |-> g,
                                prescale |-> rest]
  BY <1>3, <1>9 DEF Ahead
<1> QED
  BY <1>5, <1>10, <1>11

-----------------------------------------------------------------------------
(* The induction step: one quantum singly, and the rest in one advance. *)

LEMMA SinglyStep ==
  ASSUME NEW s \in TimerSet, NEW x \in Nat, x >= TimerQuantum, x < CyclesToOverflow(s)
  PROVE  /\ Singly(s) \in TimerSet
         /\ ~(s.prescale + TimerQuantum >= Prescale /\ Overflows(s))
         /\ x - TimerQuantum < CyclesToOverflow(Singly(s))
         /\ AdvanceQuiet(Singly(s), x - TimerQuantum) = AdvanceQuiet(s, x)
<1>1. /\ Prescale \in Nat \ {0} /\ TimerQuantum \in Nat \ {0} /\ TimerQuantum <= Prescale
      /\ CounterTop \in Nat
  BY TimersAssumption
<1>2. PICK p \in 0 .. Prescale - 1 : p = s.prescale
  BY DEF TimerSet
<1>3. PICK T \in Nat : T = TicksToOverflow(s) /\ T >= 1
  BY RoomBelow
<1>4. PICK tp \in Nat : tp = T * Prescale
  BY <1>1
<1>5. x < tp - p
  BY <1>2, <1>3, <1>4 DEF CyclesToOverflow
<1>6. PICK a \in Nat : a = p + x
  BY <1>2
<1>7. a < T * Prescale
  BY <1>1, <1>2, <1>4, <1>5, <1>6
<1>8. PICK ticks \in Nat : ticks = a \div Prescale /\ ticks < T
  BY <1>1, <1>7, Division, TicksBelow
<1>9. PICK rest \in 0 .. Prescale - 1 : rest = a % Prescale
  BY <1>1, Division
<1>10. Room(s, ticks)
  BY <1>3, <1>8, RoomBelow
<1>11. AdvanceQuiet(s, x) = IF ticks = 0 THEN [s EXCEPT !.prescale = rest]
                                         ELSE Ahead(s, ticks, rest)
  BY <1>2, <1>6, <1>8, <1>9, <1>10, AdvanceIsAhead
<1>12. PICK y \in Nat : y = x - TimerQuantum
  BY <1>1
<1>13. PICK u, v, w, st :
         /\ s = [t0 |-> u, t1 |-> v, t2 |-> w, status |-> st, prescale |-> p]
         /\ u \in 0 .. CounterTop /\ v \in 0 .. CounterTop /\ w \in 0 .. CounterTop /\ st \in SUBSET Flags
  BY <1>2 DEF TimerSet
<1>14. CASE p + TimerQuantum < Prescale
  <2>1. PICK r : r = [t0 |-> u, t1 |-> v, t2 |-> w, status |-> st, prescale |-> p + TimerQuantum]
    OBVIOUS
  <2>2. Singly(s) = r
    <3>1. ~(s.prescale + TimerQuantum >= Prescale)
      BY <1>1, <1>2, <1>14
    <3>2. PICK pq : pq = p + TimerQuantum
      OBVIOUS
    <3>3. Singly(s) = [s EXCEPT !.prescale = pq]
      BY <1>2, <3>1, <3>2 DEF Singly
    <3> QED
      BY <1>13, <2>1, <3>2, <3>3
  <2>3. r \in TimerSet
    BY <1>1, <1>13, <1>14, <2>1 DEF TimerSet
  <2>4. TicksToOverflow(r) = T
    BY <1>3, <1>13, <2>1 DEF TicksToOverflow
  <2>5. y < CyclesToOverflow(r)
    BY <1>1, <1>4, <1>5, <1>12, <2>1, <2>4 DEF CyclesToOverflow
  <2>6. r.prescale + y = a
    BY <1>1, <1>6, <1>12, <2>1
  <2>7. Room(r, ticks)
    BY <1>10, <1>13, <2>1 DEF Room
  <2>8. AdvanceQuiet(r, y) = IF ticks = 0 THEN [r EXCEPT !.prescale = rest]
                                          ELSE Ahead(r, ticks, rest)
    BY <1>8, <1>9, <2>3, <2>6, <2>7, AdvanceIsAhead
  <2>9. [r EXCEPT !.prescale = rest] = [s EXCEPT !.prescale = rest]
    BY <1>13, <2>1
  <2>10. Ahead(r, ticks, rest) = Ahead(s, ticks, rest)
    BY <1>13, <2>1 DEF Ahead, Quiet
  <2>11. AdvanceQuiet(r, y) = AdvanceQuiet(s, x)
    BY <1>11, <2>8, <2>9, <2>10
  <2>12. ~(s.prescale + TimerQuantum >= Prescale)
    BY <1>1, <1>2, <1>14
  <2> QED
    BY <1>12, <2>2, <2>3, <2>5, <2>11, <2>12
<1>15. CASE p + TimerQuantum >= Prescale
  <2>1. PICK pq \in 0 .. Prescale - 1 : pq = p + TimerQuantum - Prescale
    BY <1>1, <1>2, <1>15
  <2>2. PICK b \in Nat : b = pq + y /\ a = b + Prescale
    BY <1>1, <1>6, <1>12, <2>1
  <2>3. PICK k \in Nat : k = b \div Prescale /\ ticks = k + 1 /\ rest = b % Prescale
    <3>1. (b + Prescale) \div Prescale = (b \div Prescale) + 1
      BY <1>1, <2>2, DivisionStep
    <3>2. (b + Prescale) % Prescale = b % Prescale
      BY <1>1, <2>2, DivisionStep
    <3>3. b \div Prescale \in Nat
      BY <1>1, <2>2, Division
    <3> QED
      BY <1>8, <1>9, <2>2, <3>1, <3>2, <3>3
  <2>4. Room(s, k + 1)
    BY <1>10, <2>3
  <2>5. Room(s, 1)
    BY <1>13, <2>3, <2>4, <1>1 DEF Room
  <2>6. ClockOnce(s) = Ahead(s, 1, p) /\ ~Overflows(s)
    BY <1>2, <2>5, ClockIsAhead
  <2>7. PICK r : r = Ahead(s, 1, pq)
    OBVIOUS
  <2>8. Singly(s) = r
    <3>1. s.prescale + TimerQuantum >= Prescale
      BY <1>2, <1>15
    <3>2. Singly(s) = [ClockOnce(s) EXCEPT !.prescale = pq]
      BY <1>2, <2>1, <3>1 DEF Singly
    <3>4. [Ahead(s, 1, p) EXCEPT !.prescale = pq] = Ahead(s, 1, pq)
      BY AheadRest
    <3> QED
      BY <2>6, <2>7, <3>2, <3>4
  <2>9. /\ r.t0 = s.t0 + 1 /\ r.prescale = pq
        /\ r.t1 = IF mode1 = 0 THEN s.t1 ELSE s.t1 + 1
        /\ r.t2 = IF mode2 = 0 THEN s.t2 ELSE s.t2 + 1
    BY <2>7 DEF Ahead
  <2>10. r \in TimerSet
    <3>1. PICK c1, c2, g :
            /\ c1 = IF mode1 = 0 THEN s.t1 ELSE s.t1 + 1
            /\ c2 = IF mode2 = 0 THEN s.t2 ELSE s.t2 + 1
            /\ g = Quiet(s, s.t0 + 1, c1, c2)
      OBVIOUS
    <3>2. r = [t0 |-> s.t0 + 1, t1 |-> c1, t2 |-> c2, status |-> g, prescale |-> pq]
      BY <2>7, <3>1 DEF Ahead
    <3>3. g \in SUBSET Flags
      BY <3>1, QuietTypes
    <3>4. s.t0 + 1 \in 0 .. CounterTop /\ c1 \in 0 .. CounterTop /\ c2 \in 0 .. CounterTop
      BY <1>1, <1>13, <2>5, <3>1 DEF Room
    <3> QED
      BY <3>2, <3>3, <3>4 DEF TimerSet
  <2>11. TicksToOverflow(r) = T - 1
    BY <1>3, <2>5, <2>9, <2>10, TicksMoved
  <2>12. (T - 1) * Prescale = tp - Prescale
    BY <1>1, <1>3, <1>4
  <2>13. y < CyclesToOverflow(r)
    BY <1>1, <1>4, <1>5, <1>12, <2>1, <2>9, <2>11, <2>12 DEF CyclesToOverflow
  <2>14. Room(r, k)
    BY <1>13, <2>4, <2>9, <1>1 DEF Room
  <2>15. AdvanceQuiet(r, y) = IF k = 0 THEN [r EXCEPT !.prescale = rest] ELSE Ahead(r, k, rest)
    BY <2>2, <2>3, <2>9, <2>10, <2>14, AdvanceIsAhead
  <2>16. AdvanceQuiet(s, x) = Ahead(s, k + 1, rest)
    BY <1>11, <2>3
  <2>17. /\ Ahead(r, k, rest) = Ahead(s, k + 1, rest)
         /\ [r EXCEPT !.prescale = rest] = Ahead(s, 1, rest)
    BY <2>4, <2>7, AheadStep, AheadRest
  <2>18. AdvanceQuiet(r, y) = AdvanceQuiet(s, x)
    BY <2>15, <2>16, <2>17
  <2> QED
    BY <1>12, <2>6, <2>8, <2>10, <2>13, <2>18
<1> QED
  BY <1>1, <1>2, <1>14, <1>15

-----------------------------------------------------------------------------
(* The inductive invariant. *)

\* Showing a set of timers makes it the one the guest sees.
LEMMA ShownTimers ==
  ASSUME NEW s \in TimerSet, Show(s), prescale' = s.prescale
  PROVE  onchip_timers' = s
BY DEF TimerSet, Show, onchip_timers

LEMMA ClockTypes ==
  ASSUME NEW s \in TimerSet, RegisterTypes
  PROVE  ClockOnce(s) \in TimerSet /\ ClockOnce(s).prescale = s.prescale
<1>1. PICK u, v, w, st, p :
        /\ s = [t0 |-> u, t1 |-> v, t2 |-> w, status |-> st, prescale |-> p]
        /\ u \in 0 .. CounterTop /\ v \in 0 .. CounterTop /\ w \in 0 .. CounterTop /\ st \in SUBSET Flags
        /\ p \in 0 .. Prescale - 1
  BY DEF TimerSet
<1>2. PICK z, c1, c2, g : /\ z = Next0(s) /\ g = NextFlags(s)
                          /\ c1 = Next12(mode1, s.t1) /\ c2 = Next12(mode2, s.t2)
  OBVIOUS
<1>3. ClockOnce(s) = [s EXCEPT !.t0 = z, !.t1 = c1, !.t2 = c2, !.status = g]
  BY <1>2 DEF ClockOnce
<1>4. ClockOnce(s) = [t0 |-> z, t1 |-> c1, t2 |-> c2, status |-> g, prescale |-> p]
  BY <1>1, <1>3
<1>5. z \in 0 .. CounterTop
  BY <1>1, <1>2, TimersAssumption DEF Next0, RegisterTypes
<1>6. c1 \in 0 .. CounterTop /\ c2 \in 0 .. CounterTop
  BY <1>1, <1>2, TimersAssumption DEF Next12
<1>7. g \in SUBSET Flags
  BY <1>1, <1>2 DEF NextFlags, Flags12, Flags0, Flags
<1> QED
  BY <1>1, <1>4, <1>5, <1>6, <1>7 DEF TimerSet

\* A quiet advance within the limit keeps the types.
LEMMA TimersAdvance ==
  ASSUME NEW s \in TimerSet, NEW x \in Nat, x < CyclesToOverflow(s)
  PROVE  AdvanceQuiet(s, x) \in TimerSet
<1>1. Prescale \in Nat \ {0} /\ CounterTop \in Nat
  BY TimersAssumption
<1>2. PICK u, v, w, st, p :
        /\ s = [t0 |-> u, t1 |-> v, t2 |-> w, status |-> st, prescale |-> p]
        /\ u \in 0 .. CounterTop /\ v \in 0 .. CounterTop /\ w \in 0 .. CounterTop /\ st \in SUBSET Flags
        /\ p \in 0 .. Prescale - 1
  BY DEF TimerSet
<1>3. PICK T \in Nat : T = TicksToOverflow(s)
  BY RoomBelow
<1>4. PICK tp \in Nat : tp = T * Prescale
  BY <1>1
<1>5. PICK a \in Nat : a = p + x
  BY <1>2
<1>6. a < T * Prescale
  BY <1>2, <1>3, <1>4, <1>5, <1>1 DEF CyclesToOverflow
<1>7. PICK ticks \in Nat : ticks = a \div Prescale /\ ticks < T
  BY <1>1, <1>6, Division, TicksBelow
<1>8. PICK rest \in 0 .. Prescale - 1 : rest = a % Prescale
  BY <1>1, Division
<1>9. Room(s, ticks)
  BY <1>3, <1>7, RoomBelow
<1>10. AdvanceQuiet(s, x) = IF ticks = 0 THEN [s EXCEPT !.prescale = rest]
                                         ELSE Ahead(s, ticks, rest)
  BY <1>2, <1>5, <1>7, <1>8, <1>9, AdvanceIsAhead
<1>11. [s EXCEPT !.prescale = rest] \in TimerSet
  BY <1>2 DEF TimerSet
<1>12. Ahead(s, ticks, rest) \in TimerSet
  <2>1. PICK z, c1, c2, g :
          /\ z = s.t0 + ticks
          /\ c1 = IF mode1 = 0 THEN s.t1 ELSE s.t1 + ticks
          /\ c2 = IF mode2 = 0 THEN s.t2 ELSE s.t2 + ticks
          /\ g = Quiet(s, z, c1, c2)
    OBVIOUS
  <2>2. Ahead(s, ticks, rest)
          = [t0 |-> z, t1 |-> c1, t2 |-> c2, status |-> g, prescale |-> rest]
    BY <2>1 DEF Ahead
  <2>3. g \in SUBSET Flags
    BY <2>1, QuietTypes
  <2>4. z \in 0 .. CounterTop /\ c1 \in 0 .. CounterTop /\ c2 \in 0 .. CounterTop
    BY <1>1, <1>2, <1>9, <2>1 DEF Room
  <2> QED
    BY <2>2, <2>3, <2>4 DEF TimerSet
<1> QED
  BY <1>10, <1>11, <1>12

\* The quanta an idle job may take stay short of the overflow.
LEMMA IdleWithin ==
  ASSUME NEW n \in Nat, onchip_timers \in TimerSet, n <= TimersQuietQuanta(TimerIdle)
  PROVE  n * TimerQuantum \in Nat /\ n * TimerQuantum < CyclesToOverflow(onchip_timers)
<1>1. Prescale \in Nat \ {0} /\ TimerQuantum \in Nat \ {0} /\ TimerIdle \in Nat
  BY TimersAssumption
<1>2. PICK T \in Nat : T = TicksToOverflow(onchip_timers) /\ T >= 1
  BY RoomBelow
<1>3. PICK p \in 0 .. Prescale - 1 : p = onchip_timers.prescale
  BY DEF TimerSet
<1>4. PICK c \in Nat : c = CyclesToOverflow(onchip_timers) /\ c >= 1
  <2>1. T * Prescale >= Prescale /\ T * Prescale \in Nat
    BY <1>1, <1>2
  <2> QED
    BY <1>1, <1>2, <1>3, <2>1 DEF CyclesToOverflow
<1>5. PICK e \in Nat : e = c - 1
  BY <1>4
<1>6. PICK q \in Nat : q = e \div TimerQuantum
  BY <1>1, Division
<1>7. n <= q
  BY <1>1, <1>4, <1>5, <1>6 DEF TimersQuietQuanta, Smaller
<1>8. q * TimerQuantum <= e
  BY <1>1, <1>6
<1>9. n * TimerQuantum <= q * TimerQuantum /\ n * TimerQuantum \in Nat
  BY <1>1, <1>7
<1>10. q * TimerQuantum \in Nat
  BY <1>1
<1>11. n * TimerQuantum <= e
  BY <1>8, <1>9, <1>10
<1> QED
  BY <1>4, <1>5, <1>9, <1>11

\* Steps that leave no quanta missing, and move both sets of timers alike.
LEMMA TogetherKeeps ==
  ASSUME TimersInv, RegisterTypes', lag' = 0, onchip_timers' = faithful', onchip_timers' \in TimerSet,
         irq' = faithful_irq'
  PROVE  TimersInv'
BY DEF TimersInv, LagInv

LEMMA IncrementKeeps ==
  ASSUME TimersInv, NEW cycles \in Cycles, IncrementTimer(cycles)
  PROVE  TimersInv'
<1>1. /\ lag = 0 /\ lag' = 0 /\ faithful = onchip_timers /\ irq = faithful_irq
      /\ UNCHANGED <<registers, irq, faithful_irq>>
  BY DEF TimersInv, LagInv, IncrementTimer, Settled
<1>2. prescale \in 0 .. Prescale - 1 /\ cycles \in Nat /\ Prescale \in Nat \ {0}
  BY TimersAssumption DEF TimersInv, TimerSet, onchip_timers
<1>3. PICK p \in 0 .. Prescale - 1 : p = (prescale + cycles) % Prescale
  BY <1>2
<1>4. due' \in Nat
  BY <1>2 DEF IncrementTimer
<1>5. RegisterTypes'
  BY <1>1, <1>4 DEF TimersInv, RegisterTypes, registers
<1>6. onchip_timers' = [onchip_timers EXCEPT !.prescale = p]
  BY <1>3 DEF IncrementTimer, onchip_timers
<1>7. faithful' = [onchip_timers EXCEPT !.prescale = p]
  BY <1>1, <1>3 DEF IncrementTimer, onchip_timers
<1>8. onchip_timers' \in TimerSet
  BY <1>6 DEF TimersInv, TimerSet
<1> QED
  BY <1>1, <1>5, <1>6, <1>7, <1>8, TogetherKeeps

LEMMA ClockKeeps ==
  ASSUME TimersInv, ClockTimer
  PROVE  TimersInv'
<1>1. /\ lag = 0 /\ lag' = 0 /\ faithful = onchip_timers
      /\ UNCHANGED registers
  BY TimersAssumption DEF TimersInv, LagInv, ClockTimer, RegisterTypes
<1>2. onchip_timers \in TimerSet /\ RegisterTypes /\ irq = faithful_irq
  BY DEF TimersInv, LagInv
<1>3. ClockOnce(onchip_timers) \in TimerSet /\ ClockOnce(onchip_timers).prescale = prescale
  BY <1>2, ClockTypes DEF onchip_timers
<1>4. onchip_timers' = ClockOnce(onchip_timers)
  BY <1>3, ShownTimers DEF ClockTimer
<1>5. faithful' = ClockOnce(onchip_timers)
  BY <1>1 DEF ClockTimer
<1>6. irq' = faithful_irq' /\ irq' \in BOOLEAN
  BY <1>1, <1>2 DEF ClockTimer
<1>7. due' \in Nat
  BY <1>2 DEF ClockTimer, RegisterTypes
<1>8. RegisterTypes'
  BY <1>1, <1>2, <1>6, <1>7 DEF RegisterTypes, registers
<1> QED
  BY <1>1, <1>3, <1>4, <1>5, <1>6, <1>8, TogetherKeeps

\* The limit and the advance depend on the modes and the timers alone.
LEMMA Frozen ==
  ASSUME NEW r, faithful' = r, UNCHANGED <<mode1, mode2>>, NEW x, lag' * TimerQuantum = x
  PROVE  /\ CyclesToOverflow(faithful)' = CyclesToOverflow(r)
         /\ AdvanceQuiet(faithful, lag * TimerQuantum)' = AdvanceQuiet(r, x)
BY DEF CyclesToOverflow, TicksToOverflow, AdvanceQuiet, Moved

LEMMA IdleKeeps ==
  ASSUME TimersInv, NEW n \in 2 .. TimerIdle, TimersIdleJob(n)
  PROVE  TimersInv'
<1>1. /\ lag = 0 /\ lag' = n /\ n > 0 /\ faithful = onchip_timers /\ due = 0
      /\ UNCHANGED <<registers, irq, due, faithful, faithful_irq>>
  BY DEF TimersInv, LagInv, TimersIdleJob, Settled
<1>2. onchip_timers \in TimerSet /\ RegisterTypes /\ irq = faithful_irq /\ n \in Nat
  BY DEF TimersInv, LagInv
<1>3. n <= TimersQuietQuanta(TimerIdle)
  BY DEF TimersIdleJob
<1>4. PICK x \in Nat : x = n * TimerQuantum /\ x < CyclesToOverflow(onchip_timers)
  BY <1>2, <1>3, IdleWithin
<1>5. PICK s : s = AdvanceQuiet(onchip_timers, x)
  OBVIOUS
<1>6. s \in TimerSet
  BY <1>2, <1>4, <1>5, TimersAdvance
<1>7. onchip_timers' = s
  BY <1>4, <1>5, <1>6, ShownTimers DEF TimersIdleJob
<1>8. /\ CyclesToOverflow(faithful)' = CyclesToOverflow(onchip_timers)
      /\ AdvanceQuiet(faithful, lag * TimerQuantum)' = s
  BY <1>1, <1>4, <1>5, Frozen DEF registers
<1>9. LagInv'
  BY <1>1, <1>2, <1>4, <1>7, <1>8 DEF LagInv
<1>10. RegisterTypes'
  BY <1>1, <1>2 DEF RegisterTypes, registers
<1>11. faithful' \in TimerSet
  BY <1>1, <1>2
<1> QED
  BY <1>6, <1>7, <1>9, <1>10, <1>11 DEF TimersInv

\* What is missing is at least a quantum, and splits into one and the rest.
LEMMA LagSplit ==
  ASSUME TimersInv, lag > 0
  PROVE  /\ lag * TimerQuantum \in Nat /\ lag * TimerQuantum >= TimerQuantum
         /\ (lag - 1) * TimerQuantum = lag * TimerQuantum - TimerQuantum
<1>1. lag \in Nat /\ TimerQuantum \in Nat \ {0}
  BY TimersAssumption DEF TimersInv, RegisterTypes
<1> QED
  BY <1>1

LEMMA CatchUpKeeps ==
  ASSUME TimersInv, CatchUp
  PROVE  TimersInv'
<1>1. /\ lag > 0 /\ lag' = lag - 1 /\ due = 0 /\ due' = due
      /\ UNCHANGED <<t0, t1, t2, status, prescale, registers, irq>>
  BY DEF TimersInv, LagInv, CatchUp
<1>2. /\ RegisterTypes /\ faithful \in TimerSet /\ onchip_timers \in TimerSet
      /\ irq = faithful_irq
  BY DEF TimersInv, LagInv
<1>3. PICK x \in Nat : x = lag * TimerQuantum /\ x >= TimerQuantum /\ (lag - 1) * TimerQuantum = x - TimerQuantum
  BY <1>1, LagSplit
<1>4. x < CyclesToOverflow(faithful) /\ onchip_timers = AdvanceQuiet(faithful, x)
  BY <1>1, <1>3 DEF TimersInv, LagInv
<1>5. PICK r : r = Singly(faithful)
  OBVIOUS
<1>6. /\ r \in TimerSet
      /\ ~(faithful.prescale + TimerQuantum >= Prescale /\ Overflows(faithful))
      /\ x - TimerQuantum < CyclesToOverflow(r)
      /\ AdvanceQuiet(r, x - TimerQuantum) = AdvanceQuiet(faithful, x)
  BY <1>2, <1>3, <1>4, <1>5, SinglyStep
<1>7. faithful' = r /\ onchip_timers' = onchip_timers
  BY <1>1, <1>5 DEF CatchUp, onchip_timers
<1>8. faithful_irq' = faithful_irq
  BY <1>2, <1>6 DEF CatchUp, Requests, RegisterTypes
<1>9. lag \in 1 .. TimerIdle /\ TimerIdle \in Nat
  BY <1>1, <1>2, TimersAssumption DEF RegisterTypes
<1>10. RegisterTypes'
  BY <1>1, <1>2, <1>8, <1>9 DEF RegisterTypes, registers
<1>11. lag' * TimerQuantum = x - TimerQuantum
  BY <1>1, <1>3
<1>12. /\ CyclesToOverflow(faithful)' = CyclesToOverflow(r)
       /\ AdvanceQuiet(faithful, lag * TimerQuantum)' = onchip_timers
  BY <1>1, <1>4, <1>6, <1>7, <1>11, Frozen DEF registers
<1>13. lag' = 0 => faithful' = onchip_timers'
  <2>1. SUFFICES ASSUME lag' = 0 PROVE r = onchip_timers
    BY <1>7
  <2>2. x - TimerQuantum = 0
    BY <1>11, <2>1, TimersAssumption
  <2>3. onchip_timers = AdvanceQuiet(r, 0)
    BY <1>4, <1>6, <2>2
  <2>4. PICK u, v, w, st, p :
          /\ r = [t0 |-> u, t1 |-> v, t2 |-> w, status |-> st, prescale |-> p]
          /\ p \in 0 .. Prescale - 1
    BY <1>6 DEF TimerSet
  <2>5. (r.prescale + 0) \div Prescale = 0 /\ (r.prescale + 0) % Prescale = p
    <3>1. p \in Nat /\ Prescale \in Nat \ {0} /\ p < Prescale
      BY <2>4, TimersAssumption
    <3>2. r.prescale + 0 = p
      BY <2>4, <3>1
    <3>3. p \div Prescale = 0 /\ p % Prescale = p
      BY <3>1, SMT
    <3> QED
      BY <3>2, <3>3
  <2>6. AdvanceQuiet(r, 0) = [r EXCEPT !.prescale = p]
    BY <2>5 DEF AdvanceQuiet
  <2> QED
    BY <2>3, <2>4, <2>6
<1>14. LagInv'
  BY <1>1, <1>2, <1>6, <1>7, <1>8, <1>11, <1>12, <1>13 DEF LagInv
<1> QED
  BY <1>2, <1>6, <1>7, <1>10, <1>14 DEF TimersInv

LEMMA WriteKeeps ==
  ASSUME TimersInv, NEW s \in TimerSet, WriteCounter(s)
  PROVE  TimersInv'
<1>1. /\ lag = 0 /\ lag' = 0 /\ irq' = irq /\ faithful_irq' = faithful_irq
      /\ UNCHANGED <<registers, due>> /\ faithful' = s /\ irq = faithful_irq
  BY DEF WriteCounter, Settled, Both, TimersInv, LagInv
<1>2. onchip_timers' = s
  BY ShownTimers DEF WriteCounter, Both
<1>3. RegisterTypes'
  BY <1>1 DEF TimersInv, RegisterTypes, registers
<1> QED
  BY <1>1, <1>2, <1>3, TogetherKeeps

LEMMA GuestKeeps ==
  ASSUME TimersInv, Guest
  PROVE  TimersInv'
<1>0. onchip_timers \in TimerSet
  BY DEF TimersInv
<1>1. CASE WriteTimers
  <2>1. PICK v \in Values : \/ WriteCounter([onchip_timers EXCEPT !.t0 = v])
                            \/ WriteCounter([onchip_timers EXCEPT !.t1 = v])
                            \/ WriteCounter([onchip_timers EXCEPT !.t2 = v])
    BY <1>1 DEF WriteTimers
  <2>2. v \in 0 .. CounterTop
    BY TimersAssumption
  <2>3. /\ [onchip_timers EXCEPT !.t0 = v] \in TimerSet /\ [onchip_timers EXCEPT !.t1 = v] \in TimerSet
        /\ [onchip_timers EXCEPT !.t2 = v] \in TimerSet
    BY <1>0, <2>2 DEF TimerSet
  <2> QED
    BY <2>1, <2>3, WriteKeeps
<1>2. ASSUME NEW ones, WriteStatus(ones) PROVE TimersInv'
  <2>1. [onchip_timers EXCEPT !.status = @ \ ones] \in TimerSet
    BY <1>0 DEF TimerSet
  <2> QED
    BY <1>2, <2>1, WriteKeeps DEF WriteStatus
<1>3. CASE WriteTimerRegister
  <2>1. /\ lag = 0 /\ lag' = 0 /\ irq' = irq /\ faithful_irq' = faithful_irq
        /\ due' = due /\ faithful' = faithful /\ onchip_timers' = onchip_timers
        /\ irq = faithful_irq /\ faithful = onchip_timers
    BY <1>3 DEF WriteTimerRegister, Settled, TimersInv, LagInv, onchip_timers
  <2>2. reload' \in 0 .. CounterTop /\ mode1' \in Modes /\ mode2' \in Modes /\ priority' \in {0, 1}
    BY <1>3, TimersAssumption DEF WriteTimerRegister, TimersInv, RegisterTypes
  <2>3. RegisterTypes'
    BY <2>1, <2>2 DEF TimersInv, RegisterTypes
  <2> QED
    BY <1>0, <2>1, <2>3, TogetherKeeps
<1>4. CASE TakeInterrupt
  <2>1. /\ lag = 0 /\ lag' = 0 /\ irq' = faithful_irq' /\ irq' \in BOOLEAN
        /\ UNCHANGED <<registers, due>> /\ faithful' = onchip_timers'
        /\ onchip_timers' = onchip_timers
    BY <1>4 DEF TakeInterrupt, Settled, TimersInv, LagInv, onchip_timers
  <2>2. RegisterTypes'
    BY <2>1 DEF TimersInv, RegisterTypes, registers
  <2> QED
    BY <1>0, <2>1, <2>2, TogetherKeeps
<1> QED
  BY <1>1, <1>2, <1>3, <1>4 DEF Guest

LEMMA InitKeeps == OnchipInit => TimersInv
<1> SUFFICES ASSUME OnchipInit PROVE TimersInv
  OBVIOUS
<1>1. irq \in BOOLEAN /\ faithful_irq \in BOOLEAN /\ irq = faithful_irq
  BY Zenon DEF OnchipInit
<1>2. /\ onchip_timers = [t0 |-> 0, t1 |-> 0, t2 |-> 0, status |-> {}, prescale |-> 0]
      /\ faithful = onchip_timers /\ lag = 0 /\ due = 0
      /\ reload = 0 /\ mode1 = 0 /\ mode2 = 0 /\ priority = 0
  BY DEF OnchipInit, onchip_timers
<1>3. onchip_timers \in TimerSet
  BY <1>2, TimersAssumption DEF TimerSet
<1>4. RegisterTypes
  BY <1>1, <1>2, TimersAssumption DEF RegisterTypes
<1>5. LagInv
  BY <1>1, <1>2 DEF LagInv
<1> QED
  BY <1>2, <1>3, <1>4, <1>5 DEF TimersInv

LEMMA StepKeeps == TimersInv /\ [OnchipNext]_onchip_vars => TimersInv'
<1> SUFFICES ASSUME TimersInv, [OnchipNext]_onchip_vars PROVE TimersInv'
  OBVIOUS
<1>1. CASE Guest
  BY <1>1, GuestKeeps
<1>2. CASE Time
  BY <1>2, IncrementKeeps, ClockKeeps, IdleKeeps, CatchUpKeeps DEF Time
<1>3. CASE UNCHANGED onchip_vars
  <2>1. UNCHANGED <<mode1, mode2, faithful, lag>> /\ onchip_timers' = onchip_timers
    BY <1>3 DEF onchip_vars, registers, onchip_timers
  <2>2. PICK x : x = lag * TimerQuantum
    OBVIOUS
  <2>3. /\ CyclesToOverflow(faithful)' = CyclesToOverflow(faithful)
        /\ AdvanceQuiet(faithful, lag * TimerQuantum)' = AdvanceQuiet(faithful, lag * TimerQuantum)
    BY <2>1, <2>2, Frozen
  <2>4. LagInv'
    BY <1>3, <2>1, <2>3 DEF TimersInv, LagInv, onchip_vars
  <2>5. RegisterTypes'
    BY <1>3 DEF TimersInv, RegisterTypes, onchip_vars, registers
  <2> QED
    BY <2>1, <2>4, <2>5 DEF TimersInv
<1> QED
  BY <1>1, <1>2, <1>3 DEF OnchipNext

LEMMA TimersHold == OnchipSpec => []TimersInv
BY InitKeeps, StepKeeps, PTL DEF OnchipSpec

\* Every register keeps its width (clock_timer_once, periph_advance_quiet).
THEOREM TimersTypeCorrect == OnchipSpec => []OnchipTypeOK
<1>1. TimersInv => OnchipTypeOK
  BY DEF TimersInv, RegisterTypes, TimerSet, onchip_timers, OnchipTypeOK
<1> QED
  BY <1>1, TimersHold, PTL

\* For every width of the counters, prescaler, quantum and length of an idle job, the
\* skip leaves what single quanta leave, and stops before anything overflows
\* (periph_quiet_quanta, periph_advance_quiet).
THEOREM SkipExact == OnchipSpec => []SkipIsTicking
<1>1. ASSUME TimersInv, lag > 0
      PROVE  ~(faithful.prescale + TimerQuantum >= Prescale /\ Overflows(faithful))
  <2>1. PICK x \in Nat : x = lag * TimerQuantum /\ x >= TimerQuantum
    BY <1>1, LagSplit
  <2>2. x < CyclesToOverflow(faithful) /\ faithful \in TimerSet
    BY <1>1, <2>1 DEF TimersInv, LagInv
  <2> QED
    BY <2>1, <2>2, SinglyStep
<1>2. TimersInv => SkipIsTicking
  BY <1>1 DEF TimersInv, LagInv, SkipIsTicking
<1> QED
  BY <1>2, TimersHold, PTL

(***************************************************************************)
(* The battery image: whatever was interrupted, the file holds one whole   *)
(* image.                                                                  *)
(***************************************************************************)
Disk == [file : Int, temporary : Int, saved : Int]

\* A kept image is never the mark of a broken file, and after the write the temporary
\* is the SRAM about to become the file.
Sound ==
    /\ rtc_disk \in Disk
    /\ "ram" \in DOMAIN rtc
    /\ rtc.ram \in Nat
    /\ rtc_disk.file = rtc_disk.saved
    /\ rtc_disk.file \in Nat \cup {Absent}
    /\ rtc_at = "written" => rtc_disk.temporary = rtc.ram

\* Latching the clock's registers leaves the SRAM alone.
LEMMA LatchKeepsRam ==
    ASSUME NEW r, "ram" \in DOMAIN r
    PROVE  /\ "ram" \in DOMAIN latch_clock_registers(r)
           /\ latch_clock_registers(r).ram = r.ram
  <1>1. PICK t : latch_clock_registers(r) = [r EXCEPT !.transfer = t]
    BY ZenonT(60) DEF latch_clock_registers
  <1> QED BY <1>1

\* So does a commit of the registers.
LEMMA CommitKeepsRam ==
    ASSUME NEW r, "ram" \in DOMAIN r
    PROVE  /\ "ram" \in DOMAIN commit_clock_registers(r)
           /\ commit_clock_registers(r).ram = r.ram
  BY DEF commit_clock_registers

\* The processor's reset erases the SRAM.
LEMMA ResetErases == "ram" \in DOMAIN rtc_reset /\ rtc_reset.ram = Erased
  BY LatchKeepsRam DEF rtc_reset

\* A step of a transfer leaves the SRAM alone.
LEMMA TransferKeepsRam ==
    ASSUME NEW r, "ram" \in DOMAIN r
    PROVE  /\ "ram" \in DOMAIN finish_transfer(r)
           /\ finish_transfer(r).ram = r.ram
  <1> DEFINE closed == [r EXCEPT !.transferring = FALSE, !.transfer_reg = 0, !.key_window = NoKey]
  <1>1. CASE LastRegister(r)
    <2>1. "ram" \in DOMAIN closed /\ closed.ram = r.ram
      OBVIOUS
    <2> HIDE DEF closed
    <2>2. "ram" \in DOMAIN commit_clock_registers(closed) /\ commit_clock_registers(closed).ram = closed.ram
      BY <2>1, CommitKeepsRam
    <2>3. finish_transfer(r) = commit_clock_registers(closed)
      BY <1>1 DEF finish_transfer, closed
    <2> QED BY <2>1, <2>2, <2>3
  <1>2. CASE ~LastRegister(r)
    BY <1>2 DEF finish_transfer
  <1> QED BY <1>1, <1>2

\* So does the comparison with the key.
LEMMA KeyKeepsRam ==
    ASSUME NEW r, "ram" \in DOMAIN r, NEW bit
    PROVE  /\ "ram" \in DOMAIN observe_key_bit(r, bit)
           /\ observe_key_bit(r, bit).ram = r.ram
  BY LatchKeepsRam DEF observe_key_bit

\* A start takes over the file's image, if there is one.
LEMMA SeedKeepsRam ==
    ASSUME NEW r, "ram" \in DOMAIN r, NEW t
    PROVE  /\ "ram" \in DOMAIN seed_clock_once(r, t)
           /\ seed_clock_once(r, t).ram = r.ram
  <1> DEFINE seeded == [r EXCEPT !.now = t, !.sub_hundredth = 0, !.startup_seeded = TRUE]
  <1>1. "ram" \in DOMAIN seeded /\ seeded.ram = r.ram
    OBVIOUS
  <1>2. seed_clock_once(r, t) = IF r.startup_seeded THEN r ELSE latch_clock_registers(seeded)
    BY DEF seed_clock_once
  <1> QED BY <1>1, <1>2, LatchKeepsRam

LEMMA LoadIsSound ==
    ASSUME Sound
    PROVE  "ram" \in DOMAIN load_sram(rtc_reset) /\ load_sram(rtc_reset).ram \in Nat
  BY ResetErases DEF Sound, load_sram, Erased, Absent

LEMMA InitSound == NvramInit => Sound
  BY ResetErases DEF NvramInit, Sound, Disk, Erased, Absent

LEMMA NextSound == Sound /\ [NvramNext]_rtc_vars => Sound'
  <1> SUFFICES ASSUME Sound, [NvramNext]_rtc_vars
               PROVE  Sound'
    OBVIOUS
  <1> USE DEF Sound, Disk
  <1>1. ASSUME NEW t \in RtcStarts, Start(t) PROVE Sound'
    BY <1>1, LoadIsSound, SeedKeepsRam DEF Start
  <1>2. CASE StartUnseeded
    BY <1>2, LoadIsSound DEF StartUnseeded
  <1>3. CASE nvram_increment_clock
    <2>1. PICK phase, now : AddUnit(rtc) = [rtc EXCEPT !.sub_hundredth = phase, !.now = now]
      BY DEF AddUnit
    <2> QED BY <1>3, <2>1 DEF nvram_increment_clock
  <1>4. CASE nvram_get_byte
    BY <1>4, TransferKeepsRam DEF nvram_get_byte
  <1>5. ASSUME NEW bit \in {0, 1}, WriteSram(bit) PROVE Sound'
    <2> DEFINE kept == [rtc EXCEPT !.ram = bit]
    <2>1. "ram" \in DOMAIN kept /\ kept.ram = bit
      OBVIOUS
    <2>2. rtc' = observe_key_bit(kept, bit) /\ UNCHANGED <<rtc_disk, rtc_at>> /\ rtc_at = "run"
      BY <1>5 DEF WriteSram
    <2> HIDE DEF kept
    <2> QED BY <2>1, <2>2, KeyKeepsRam
  <1>6. ASSUME NEW v, WriteRegister(v) PROVE Sound'
    <2> DEFINE kept == [rtc EXCEPT !.transfer[rtc.transfer_reg + 1] = v]
    <2>1. "ram" \in DOMAIN kept /\ kept.ram = rtc.ram
      OBVIOUS
    <2>2. rtc' = finish_transfer(kept) /\ UNCHANGED <<rtc_disk, rtc_at>> /\ rtc_at = "run"
      BY <1>6 DEF WriteRegister
    <2> HIDE DEF kept
    <2> QED BY <2>1, <2>2, TransferKeepsRam
  <1>7. CASE SaveOpen
    BY <1>7 DEF SaveOpen, SaveAt, Torn
  <1>8. CASE SaveWrite
    BY <1>8 DEF SaveWrite, SaveAt
  <1>9. CASE SaveRename
    BY <1>9, ResetErases DEF SaveRename, Stop, Erased, Absent
  <1>10. CASE SaveFails
    BY <1>10, ResetErases DEF SaveFails, Stop, Erased, Absent
  <1>11. CASE Crash
    BY <1>11, ResetErases DEF Crash, Stop, Erased
  <1>12. CASE UNCHANGED rtc_vars
    BY <1>12 DEF rtc_vars
  <1> QED BY <1>1, <1>2, <1>3, <1>4, <1>5, <1>6, <1>7, <1>8, <1>9, <1>10, <1>11, <1>12 DEF NvramNext

(* cdi_nvram.c:228: for every key, clock setting and length of a run, the  *)
(* battery file is absent or the whole image of the last completed save,   *)
(* under failures and crashes in every step of a save.                     *)
THEOREM ImageAlwaysWhole == NvramSpec => []BatteryImageWhole
  <1>1. Sound => BatteryImageWhole
    BY DEF Sound, BatteryImageWhole, Torn, Absent
  <1> QED BY <1>1, InitSound, NextSound, PTL DEF NvramSpec

(***************************************************************************)
(* The clock: what is latched into the registers and committed from them   *)
(* is the time, and the time is a date of the calendar.                    *)
(***************************************************************************)
\* A date of the calendar, of any year the counter may reach.
OnCalendar(t) ==
    /\ t \in CdiRtcTime /\ t.year >= 1970 /\ t.month \in 1 .. 12
    /\ t.date \in 1 .. days_in_month(t.year, t.month)
    /\ t.weekday \in 1 .. 7
    /\ t.hour \in 0 .. 23 /\ t.minute \in 0 .. 59
    /\ t.second \in 0 .. 59 /\ t.hundredth \in 0 .. 99

\* The hour register in its two modes.
HourRegister(b, h) ==
    \/ b = bcd_encode(h)
    \/ b = 128 + (IF h >= 12 THEN 32 ELSE 0) + bcd_encode(IF h % 12 = 0 THEN 12 ELSE h % 12)

\* The registers hold time t.
RegistersOf(b, t) ==
    /\ b[1] = bcd_encode(t.hundredth) /\ b[2] = bcd_encode(t.second)
    /\ b[3] = bcd_encode(t.minute) /\ HourRegister(b[4], t.hour)
    /\ b[5] % 8 = t.weekday /\ b[6] = bcd_encode(t.date)
    /\ b[7] = bcd_encode(t.month) /\ b[8] = bcd_encode(t.year % 100)

RtcFields == {"ram", "transfer", "now", "key_window", "sub_hundredth", "transfer_reg",
              "transferring", "startup_seeded"}
Registers == [1 .. 8 -> 0 .. 255]

RtcShape(r) ==
    /\ DOMAIN r = RtcFields /\ OnCalendar(r.now)
    /\ r.transfer \in Registers /\ r.transfer_reg \in 0 .. 7 /\ r.transferring \in BOOLEAN
    /\ r.sub_hundredth \in Nat

CalendarInv ==
    /\ RtcShape(rtc)
    /\ rtc_latched \in [now : CdiRtcTime, written : BOOLEAN] /\ OnCalendar(rtc_latched.now)
    /\ rtc.transferring /\ ~rtc_latched.written => RegistersOf(rtc.transfer, rtc_latched.now)

-----------------------------------------------------------------------------
(* Digits. *)

LEMMA EightBytes ==
    ASSUME NEW B, NEW x1 \in B, NEW x2 \in B, NEW x3 \in B, NEW x4 \in B, NEW x5 \in B,
           NEW x6 \in B, NEW x7 \in B, NEW x8 \in B
    PROVE  <<x1, x2, x3, x4, x5, x6, x7, x8>> \in [1 .. 8 -> B]
  OBVIOUS

LEMMA ByteOfEight ==
    ASSUME NEW B, NEW f \in [1 .. 8 -> B]
    PROVE  /\ f[1] \in B /\ f[2] \in B /\ f[3] \in B /\ f[4] \in B
           /\ f[5] \in B /\ f[6] \in B /\ f[7] \in B /\ f[8] \in B
  OBVIOUS

LEMMA TensAndOnes ==
    ASSUME NEW v \in 0 .. 99
    PROVE  /\ bcd_encode(v) \in 0 .. 153 /\ bcd_decode(bcd_encode(v)) = v
           /\ v <= 59 => bcd_encode(v) < 96
           /\ v <= 31 => bcd_encode(v) < 64
           /\ v <= 12 => bcd_encode(v) < 32
<1>1. PICK d \in 0 .. 9, e \in 0 .. 9 : v \div 10 = d /\ v % 10 = e /\ v = 10 * d + e
  OBVIOUS
<1>2. bcd_encode(v) = 16 * d + e
  BY <1>1 DEF bcd_encode
<1>3. (16 * d + e) \div 16 = d /\ (16 * d + e) % 16 = e
  BY <1>1
<1>4. bcd_decode(bcd_encode(v)) = v
  BY <1>1, <1>2, <1>3 DEF bcd_decode
<1> QED BY <1>1, <1>2, <1>4

\* What is decoded of a byte.
LEMMA DecodedByte ==
    ASSUME NEW b \in 0 .. 255
    PROVE  /\ bcd_decode(b) \in 0 .. 165
           /\ bounded(bcd_decode(b % 32), 1, 12, 1) \in 1 .. 12
           /\ bounded(bcd_decode(b % 128), 0, 59, 0) \in 0 .. 59
           /\ bounded(bcd_decode(b), 0, 99, 0) \in 0 .. 99
           /\ bounded(b % 8, 1, 7, 1) \in 1 .. 7
           /\ \A m \in 28 .. 31 : bounded(bcd_decode(b % 64), 1, m, 1) \in 1 .. m
<1>1. bcd_decode(b) \in 0 .. 165
  BY DEF bcd_decode
<1>2. bounded(bcd_decode(b % 32), 1, 12, 1) \in 1 .. 12
  BY DEF bounded
<1>3. /\ bounded(bcd_decode(b % 128), 0, 59, 0) \in 0 .. 59
      /\ bounded(bcd_decode(b), 0, 99, 0) \in 0 .. 99
      /\ bounded(b % 8, 1, 7, 1) \in 1 .. 7
  BY DEF bounded
<1>4. \A m \in 28 .. 31 : bounded(bcd_decode(b % 64), 1, m, 1) \in 1 .. m
  BY DEF bounded
<1> QED BY <1>1, <1>2, <1>3, <1>4

LEMMA DecodedHour ==
    ASSUME NEW b \in 0 .. 255
    PROVE  CommittedHour(b) \in 0 .. 23
<1>1. PICK v : v = bounded(bcd_decode(b % 32), 1, 12, 12)
  OBVIOUS
<1>2. v \in 1 .. 12
  BY <1>1 DEF bounded
<1>3. bounded(bcd_decode(b % 64), 0, 23, 0) \in 0 .. 23
  BY DEF bounded
<1>4. v % 12 \in 0 .. 11
  BY <1>2
<1> QED BY <1>1, <1>3, <1>4 DEF CommittedHour

LEMMA DaysOfMonth ==
    ASSUME NEW year \in Nat, NEW month \in 1 .. 12
    PROVE  /\ days_in_month(year, month) \in 28 .. 31
           /\ leap_year(year) \in BOOLEAN
           /\ days_in_month(year, month) =
                 days_in_month(IF leap_year(year) THEN 2000 ELSE 2001, month)
<1>1. leap_year(2000) /\ ~leap_year(2001)
  BY DEF leap_year
<1>2. leap_year(year) \in BOOLEAN
  BY DEF leap_year
<1>3. CASE leap_year(year)
  BY <1>1, <1>3 DEF days_in_month
<1>4. CASE ~leap_year(year)
  <2>1. (IF leap_year(year) THEN 2000 ELSE 2001) = 2001
    BY <1>4
  <2>2. days_in_month(2001, month) = IF month = 2 THEN 28 ELSE IF month \in {4, 6, 9, 11} THEN 30 ELSE 31
    BY <1>1 DEF days_in_month
  <2>3. days_in_month(year, month) = IF month = 2 THEN 28 ELSE IF month \in {4, 6, 9, 11} THEN 30 ELSE 31
    BY <1>4 DEF days_in_month
  <2> QED BY <1>2, <2>1, <2>2, <2>3
<1> QED BY <1>2, <1>3, <1>4

-----------------------------------------------------------------------------
(* The calendar. *)

LEMMA CalendarIsValid ==
    ASSUME NEW t, OnCalendar(t)
    PROVE  valid_time([t EXCEPT !.year = IF leap_year(@) THEN 2000 ELSE 2001])
<1>1. t \in CdiRtcTime /\ t.year \in Nat /\ t.month \in 1 .. 12
  BY DEF OnCalendar, CdiRtcTime
<1>2. PICK y \in {2000, 2001} : y = IF leap_year(t.year) THEN 2000 ELSE 2001
  OBVIOUS
<1>3. days_in_month(t.year, t.month) = days_in_month(y, t.month)
  BY <1>1, <1>2, DaysOfMonth
<1> DEFINE u == [t EXCEPT !.year = y]
<1>4. /\ u.year = y /\ u.month = t.month /\ u.date = t.date /\ u.weekday = t.weekday
      /\ u.hour = t.hour /\ u.minute = t.minute /\ u.second = t.second
      /\ u.hundredth = t.hundredth
  BY <1>1 DEF CdiRtcTime
<1> HIDE DEF u
<1>5. u.date \in 1 .. days_in_month(u.year, u.month)
  BY <1>3, <1>4 DEF OnCalendar
<1>6. valid_time(u)
  BY <1>2, <1>4, <1>5 DEF OnCalendar, valid_time
<1>7. u = [t EXCEPT !.year = IF leap_year(@) THEN 2000 ELSE 2001]
  BY <1>2 DEF u
<1> QED BY <1>6, <1>7

LEMMA ValidIsCalendar ==
    ASSUME NEW t \in CdiRtcTime, valid_time(t)
    PROVE  OnCalendar(t)
BY DEF valid_time, OnCalendar, CdiRtcTime

LEMMA SecondKeepsCalendar ==
    ASSUME NEW t, OnCalendar(t)
    PROVE  OnCalendar(advance_one_second(t))
<1>1. /\ t \in CdiRtcTime /\ t.year \in Nat /\ t.month \in 1 .. 12 /\ t.date \in Nat
      /\ t.weekday \in 1 .. 7 /\ t.hour \in 0 .. 23 /\ t.minute \in 0 .. 59
      /\ t.second \in 0 .. 59 /\ t.hundredth \in 0 .. 99 /\ t.year >= 1970
  BY DEF OnCalendar, CdiRtcTime
<1>2. days_in_month(t.year, t.month) \in 28 .. 31 /\ t.date >= 1
      /\ t.date <= days_in_month(t.year, t.month)
  <2>1. days_in_month(t.year, t.month) \in 28 .. 31
    BY <1>1, DaysOfMonth
  <2> QED BY <2>1 DEF OnCalendar
<1> DEFINE u == advance_one_second(t)
           minute == t.second = 59
           hour   == minute /\ t.minute = 59
           day    == hour /\ t.hour = 23
           month  == day /\ t.date + 1 > days_in_month(t.year, t.month)
           year   == month /\ t.month = 12
<1>21. PICK a : a = IF minute THEN 0 ELSE t.second + 1
  OBVIOUS
<1>22. PICK b : b = IF hour THEN 0 ELSE IF minute THEN t.minute + 1 ELSE t.minute
  OBVIOUS
<1>23. PICK c : c = IF day THEN 0 ELSE IF hour THEN t.hour + 1 ELSE t.hour
  OBVIOUS
<1>24. PICK d : d = IF day /\ t.weekday = 7 THEN 1 ELSE IF day THEN t.weekday + 1 ELSE t.weekday
  OBVIOUS
<1>25. PICK e : e = IF month THEN 1 ELSE IF day THEN t.date + 1 ELSE t.date
  OBVIOUS
<1>26. PICK f : f = IF year THEN 1 ELSE IF month THEN t.month + 1 ELSE t.month
  OBVIOUS
<1>27. PICK g : g = IF year THEN t.year + 1 ELSE t.year
  OBVIOUS
<1>28. u = [t EXCEPT !.second = a, !.minute = b, !.hour = c, !.weekday = d, !.date = e,
                    !.month = f, !.year = g]
  BY <1>21, <1>22, <1>23, <1>24, <1>25, <1>26, <1>27, Zenon DEF advance_one_second
<1>3. /\ u \in CdiRtcTime
      /\ u.second = IF minute THEN 0 ELSE t.second + 1
      /\ u.minute = IF hour THEN 0 ELSE IF minute THEN t.minute + 1 ELSE t.minute
      /\ u.hour = IF day THEN 0 ELSE IF hour THEN t.hour + 1 ELSE t.hour
      /\ u.weekday = IF day /\ t.weekday = 7 THEN 1 ELSE IF day THEN t.weekday + 1 ELSE t.weekday
      /\ u.date = IF month THEN 1 ELSE IF day THEN t.date + 1 ELSE t.date
      /\ u.month = IF year THEN 1 ELSE IF month THEN t.month + 1 ELSE t.month
      /\ u.year = IF year THEN t.year + 1 ELSE t.year
      /\ u.hundredth = t.hundredth
  <2> HIDE DEF u, minute, hour, day, month, year
  <2>1. /\ a \in Nat /\ b \in Nat /\ c \in Nat /\ d \in Nat /\ e \in Nat /\ f \in Nat
        /\ g \in Nat
    BY <1>1, <1>21, <1>22, <1>23, <1>24, <1>25, <1>26, <1>27
  <2>2. /\ u.second = a /\ u.minute = b /\ u.hour = c /\ u.weekday = d /\ u.date = e
        /\ u.month = f /\ u.year = g /\ u.hundredth = t.hundredth /\ u \in CdiRtcTime
    <3>1. DOMAIN t = {"year", "month", "date", "weekday", "hour", "minute", "second", "hundredth"}
      BY <1>1 DEF CdiRtcTime
    <3>2. /\ u.second = a /\ u.minute = b /\ u.hour = c /\ u.weekday = d /\ u.date = e
          /\ u.month = f /\ u.year = g /\ u.hundredth = t.hundredth
          /\ DOMAIN u = DOMAIN t
      BY <1>28, <3>1
    <3>3. u = [year |-> g, month |-> f, date |-> e, weekday |-> d, hour |-> c, minute |-> b,
               second |-> a, hundredth |-> t.hundredth]
      BY <1>28, <3>1, <3>2
    <3> QED BY <1>1, <2>1, <3>2, <3>3 DEF CdiRtcTime
  <2> QED BY <1>21, <1>22, <1>23, <1>24, <1>25, <1>26, <1>27, <2>2, Zenon
<1> HIDE DEF u
<1>4. u.month \in 1 .. 12 /\ u.year \in Nat /\ u.year >= 1970
  BY <1>1, <1>3
<1>5. u.date \in 1 .. days_in_month(u.year, u.month)
  <2>1. CASE month
    <3>1. days_in_month(u.year, u.month) \in 28 .. 31
      BY <1>4, DaysOfMonth
    <3> QED BY <1>3, <2>1, <3>1
  <2>2. CASE ~month
    <3>1. u.year = t.year /\ u.month = t.month
      BY <1>3, <2>2
    <3>2. u.date = t.date \/ (u.date = t.date + 1 /\ ~(t.date + 1 > days_in_month(t.year, t.month)))
      BY <1>3, <2>2
    <3> QED BY <1>1, <1>2, <3>1, <3>2
  <2> QED BY <2>1, <2>2
<1>6. /\ u.weekday \in 1 .. 7 /\ u.hour \in 0 .. 23 /\ u.minute \in 0 .. 59
      /\ u.second \in 0 .. 59 /\ u.hundredth \in 0 .. 99
  BY <1>1, <1>3
<1>7. OnCalendar(u)
  BY <1>3, <1>4, <1>5, <1>6 DEF OnCalendar
<1> QED BY <1>7 DEF u

LEMMA AddUnitKeeps ==
    ASSUME NEW r, RtcShape(r)
    PROVE  LET a == AddUnit(r)
           IN  RtcShape(a) /\ a.transfer = r.transfer /\ a.transferring = r.transferring
<1>1. RtcPhase \in Nat \ {0}
  BY RtcAssumption
<1>2. PICK s : s = IF r.sub_hundredth + 1 >= RtcPhase THEN r.sub_hundredth + 1 - RtcPhase
                   ELSE r.sub_hundredth + 1
  OBVIOUS
<1>3. s \in Nat
  BY <1>1, <1>2 DEF RtcShape
<1> DEFINE carried == r.sub_hundredth + 1 >= RtcPhase
<1>4. PICK n : n = IF carried /\ r.now.hundredth = 99
                   THEN advance_one_second([r.now EXCEPT !.hundredth = 0])
                   ELSE IF carried THEN [r.now EXCEPT !.hundredth = @ + 1] ELSE r.now
  OBVIOUS
<1>5. AddUnit(r) = [r EXCEPT !.sub_hundredth = s, !.now = n]
  <2>1. CASE carried /\ r.now.hundredth = 99
    BY <1>2, <1>4, <2>1 DEF AddUnit
  <2>2. CASE carried /\ r.now.hundredth # 99
    <3>1. n = [r.now EXCEPT !.hundredth = r.now.hundredth + 1] /\ s = r.sub_hundredth + 1 - RtcPhase
      BY <1>2, <1>4, <2>2
    <3>2. AddUnit(r) = [r EXCEPT !.sub_hundredth = r.sub_hundredth + 1 - RtcPhase,
                                 !.now = [r.now EXCEPT !.hundredth = r.now.hundredth + 1]]
      BY <2>2 DEF AddUnit
    <3> QED BY <3>1, <3>2
  <2>3. CASE ~carried
    BY <1>2, <1>4, <2>3 DEF AddUnit
  <2> QED BY <2>1, <2>2, <2>3
<1>6. OnCalendar(n)
  <2>1. CASE carried /\ r.now.hundredth = 99
    <3>1. PICK m : m = [r.now EXCEPT !.hundredth = 0]
      OBVIOUS
    <3>2. OnCalendar(m)
      BY <3>1 DEF RtcShape, OnCalendar, CdiRtcTime
    <3> QED BY <1>4, <2>1, <3>1, <3>2, SecondKeepsCalendar
  <2>2. CASE carried /\ r.now.hundredth # 99
    <3>1. n = [r.now EXCEPT !.hundredth = r.now.hundredth + 1]
      BY <1>4, <2>2
    <3> QED BY <2>2, <3>1 DEF RtcShape, OnCalendar, CdiRtcTime
  <2>3. CASE ~carried
    BY <1>4, <2>3 DEF RtcShape
  <2> QED BY <2>1, <2>2, <2>3
<1>7. PICK a : a = [r EXCEPT !.sub_hundredth = s, !.now = n]
  OBVIOUS
<1>8. /\ DOMAIN a = RtcFields /\ a.now = n /\ a.sub_hundredth = s /\ a.transfer = r.transfer
      /\ a.transferring = r.transferring /\ a.transfer_reg = r.transfer_reg
  BY <1>7 DEF RtcShape, RtcFields
<1> QED BY <1>3, <1>5, <1>6, <1>7, <1>8 DEF RtcShape

-----------------------------------------------------------------------------
(* The registers. *)

LEMMA LatchHolds ==
    ASSUME NEW r, RtcShape(r)
    PROVE  LET l == latch_clock_registers(r)
           IN  /\ RtcShape(l) /\ RegistersOf(l.transfer, r.now) /\ l.now = r.now
               /\ l.transferring = r.transferring /\ l.transfer_reg = r.transfer_reg
<1> DEFINE t == r.now
           b4 == IF r.transfer[4] \div 128 = 1
                 THEN 128 + (IF t.hour >= 12 THEN 32 ELSE 0)
                          + bcd_encode(IF t.hour % 12 = 0 THEN 12 ELSE t.hour % 12)
                 ELSE bcd_encode(t.hour)
           b5 == 16 * ((r.transfer[5] \div 16) % 4) + t.weekday
<1>1. /\ t.year \in Nat /\ t.month \in 1 .. 12 /\ t.date \in 1 .. 31 /\ t.weekday \in 1 .. 7
      /\ t.hour \in 0 .. 23 /\ t.minute \in 0 .. 59 /\ t.second \in 0 .. 59
      /\ t.hundredth \in 0 .. 99
  <2>1. t.year \in Nat /\ t.month \in 1 .. 12 /\ t.date \in 1 .. days_in_month(t.year, t.month)
    BY DEF RtcShape, OnCalendar, CdiRtcTime
  <2>2. days_in_month(t.year, t.month) \in 28 .. 31
    BY <2>1, DaysOfMonth
  <2> QED BY <2>1, <2>2 DEF RtcShape, OnCalendar
<1>2. /\ bcd_encode(t.hundredth) \in 0 .. 153 /\ bcd_encode(t.second) \in 0 .. 153
      /\ bcd_encode(t.minute) \in 0 .. 153 /\ bcd_encode(t.date) \in 0 .. 153
      /\ bcd_encode(t.month) \in 0 .. 153 /\ bcd_encode(t.hour) \in 0 .. 153
  <2>1. /\ t.hundredth \in 0 .. 99 /\ t.second \in 0 .. 99 /\ t.minute \in 0 .. 99
        /\ t.date \in 0 .. 99 /\ t.month \in 0 .. 99 /\ t.hour \in 0 .. 99
    BY <1>1
  <2> QED BY <2>1, TensAndOnes, Zenon
<1>3. PICK y \in 0 .. 99 : y = t.year % 100
  BY <1>1
<1>4. bcd_encode(t.year % 100) \in 0 .. 153
  BY <1>3, TensAndOnes
<1>5. b5 \in 0 .. 255 /\ b5 % 8 = t.weekday
  <2>1. PICK c \in 0 .. 3 : c = (r.transfer[5] \div 16) % 4
    <3>1. r.transfer[5] \in 0 .. 255
      BY DEF RtcShape, Registers
    <3> QED BY <3>1
  <2>2. (16 * c + t.weekday) % 8 = t.weekday
    BY <1>1, <2>1
  <2> QED BY <1>1, <2>1, <2>2
<1>6. b4 \in 0 .. 255 /\ HourRegister(b4, t.hour)
  <2>1. PICK h \in 0 .. 12 : h = IF t.hour % 12 = 0 THEN 12 ELSE t.hour % 12
    BY <1>1
  <2>2. bcd_encode(h) \in 0 .. 31
    <3>1. h \in 0 .. 99 /\ h <= 12
      BY <2>1
    <3>2. bcd_encode(h) \in 0 .. 153 /\ bcd_encode(h) < 32
      BY <3>1, TensAndOnes
    <3> QED BY <3>2
  <2>3. b4 \in 0 .. 255
    <3>1. PICK e \in 0 .. 31 : e = bcd_encode(h)
      BY <2>2
    <3>2. PICK p \in {0, 32} : p = IF t.hour >= 12 THEN 32 ELSE 0
      OBVIOUS
    <3>3. PICK g \in 0 .. 153 : g = bcd_encode(t.hour)
      BY <1>2
    <3>4. b4 = IF r.transfer[4] \div 128 = 1 THEN 128 + p + e ELSE g
      BY <2>1, <3>1, <3>2, <3>3
    <3> HIDE DEF b4
    <3> QED BY <3>1, <3>2, <3>3, <3>4
  <2>4. HourRegister(b4, t.hour)
    BY DEF HourRegister
  <2> QED BY <2>3, <2>4
<1> HIDE DEF b4, b5
<1>7. PICK b : b = <<bcd_encode(t.hundredth), bcd_encode(t.second), bcd_encode(t.minute), b4, b5,
                    bcd_encode(t.date), bcd_encode(t.month), bcd_encode(t.year % 100)>>
  OBVIOUS
<1>8. b \in Registers
  <2>1. ASSUME NEW x \in 0 .. 153 PROVE x \in 0 .. 255
    OBVIOUS
  <2> DEFINE B == 0 .. 255
  <2>2. /\ bcd_encode(t.hundredth) \in B /\ bcd_encode(t.second) \in B
        /\ bcd_encode(t.minute) \in B /\ bcd_encode(t.date) \in B
        /\ bcd_encode(t.month) \in B /\ bcd_encode(t.year % 100) \in B
    <3>1. 0 .. 153 \subseteq B
      BY <2>1
    <3> HIDE DEF B
    <3>2. /\ bcd_encode(t.hundredth) \in B /\ bcd_encode(t.second) \in B
          /\ bcd_encode(t.minute) \in B
      BY <1>2, <3>1
    <3>3. bcd_encode(t.date) \in B /\ bcd_encode(t.month) \in B
      BY <1>2, <3>1
    <3>4. bcd_encode(t.year % 100) \in B
      BY <1>4, <3>1
    <3> QED BY <3>2, <3>3, <3>4
  <2>3. b4 \in B /\ b5 \in B
    BY <1>5, <1>6
  <2>4. Registers = [1 .. 8 -> B]
    BY DEF Registers
  <2> HIDE DEF B
  <2> QED BY <1>7, <2>2, <2>3, <2>4, EightBytes
<1>9. RegistersOf(b, t)
  BY <1>5, <1>6, <1>7 DEF RegistersOf
<1>10. latch_clock_registers(r) = [r EXCEPT !.transfer = b]
  BY <1>7 DEF latch_clock_registers, b4, b5
<1>11. PICK l : l = latch_clock_registers(r)
  OBVIOUS
<1>12. /\ DOMAIN l = RtcFields /\ l.transfer = b /\ l.now = r.now /\ l.sub_hundredth = r.sub_hundredth
       /\ l.transferring = r.transferring /\ l.transfer_reg = r.transfer_reg
  BY <1>10, <1>11 DEF RtcShape, RtcFields
<1> QED BY <1>8, <1>9, <1>11, <1>12 DEF RtcShape

\* What a commit makes of the registers ...
CommittedTime(r) ==
    LET b     == r.transfer
        y     == bcd_decode(b[8])
        year  == IF y < 70 THEN 2000 + y ELSE 1900 + y
        month == bounded(bcd_decode(b[7] % 32), 1, 12, 1)
    IN  [year |-> year, month |-> month, date |-> CommittedDate(r, year, month),
         weekday |-> bounded(b[5] % 8, 1, 7, 1), hour |-> CommittedHour(b[4]),
         minute |-> bounded(bcd_decode(b[3] % 128), 0, 59, 0),
         second |-> bounded(bcd_decode(b[2] % 128), 0, 59, 0),
         hundredth |-> bounded(bcd_decode(b[1]), 0, 99, 0)]

\* ... is a date of the calendar, ...
LEMMA CommitIsCalendar ==
    ASSUME NEW r, r.transfer \in Registers
    PROVE  OnCalendar(CommittedTime(r))
<1> DEFINE b == r.transfer
           y == bcd_decode(b[8])
           year == IF y < 70 THEN 2000 + y ELSE 1900 + y
           month == bounded(bcd_decode(b[7] % 32), 1, 12, 1)
<1>1. /\ b[1] \in 0 .. 255 /\ b[2] \in 0 .. 255 /\ b[3] \in 0 .. 255 /\ b[4] \in 0 .. 255
      /\ b[5] \in 0 .. 255 /\ b[6] \in 0 .. 255 /\ b[7] \in 0 .. 255 /\ b[8] \in 0 .. 255
  <2>1. PICK B : B = 0 .. 255
    OBVIOUS
  <2>2. b \in [1 .. 8 -> B]
    BY <2>1 DEF Registers
  <2>3. /\ b[1] \in B /\ b[2] \in B /\ b[3] \in B /\ b[4] \in B
        /\ b[5] \in B /\ b[6] \in B /\ b[7] \in B /\ b[8] \in B
    BY <2>2, ByteOfEight
  <2>4. b[1] \in 0 .. 255 /\ b[2] \in 0 .. 255 /\ b[3] \in 0 .. 255
    BY <2>1, <2>3
  <2>5. b[4] \in 0 .. 255 /\ b[5] \in 0 .. 255
    BY <2>1, <2>3
  <2>6. b[6] \in 0 .. 255 /\ b[7] \in 0 .. 255 /\ b[8] \in 0 .. 255
    BY <2>1, <2>3
  <2> HIDE DEF b
  <2> QED BY <2>4, <2>5, <2>6
<1>3. year \in Nat /\ year >= 1970
  <2>1. y \in 0 .. 165
    BY <1>1, DecodedByte, Zenon
  <2> HIDE DEF y
  <2> QED BY <2>1
<1>4. month \in 1 .. 12
  BY <1>1, DecodedByte, Zenon
<1> HIDE DEF year, month
<1>5. CommittedDate(r, year, month) \in 1 .. days_in_month(year, month)
  <2>1. PICK m \in 28 .. 31 : m = days_in_month(year, month)
    BY <1>3, <1>4, DaysOfMonth
  <2>2. bounded(bcd_decode(b[6] % 64), 1, m, 1) \in 1 .. m
    BY <1>1, DecodedByte, Zenon
  <2> QED BY <2>1, <2>2 DEF CommittedDate
<1>6. bounded(b[5] % 8, 1, 7, 1) \in 1 .. 7
  BY <1>1, DecodedByte, Zenon
<1>7. CommittedHour(b[4]) \in 0 .. 23
  BY <1>1, DecodedHour, Zenon
<1>8. /\ bounded(bcd_decode(b[3] % 128), 0, 59, 0) \in 0 .. 59
      /\ bounded(bcd_decode(b[2] % 128), 0, 59, 0) \in 0 .. 59
      /\ bounded(bcd_decode(b[1]), 0, 99, 0) \in 0 .. 99
  BY <1>1, DecodedByte, ZenonT(60)
<1>9. PICK t : t = CommittedTime(r)
  OBVIOUS
<1>10. /\ t.year = year /\ t.month = month /\ t.date = CommittedDate(r, year, month)
       /\ t.weekday = bounded(b[5] % 8, 1, 7, 1) /\ t.hour = CommittedHour(b[4])
       /\ t.minute = bounded(bcd_decode(b[3] % 128), 0, 59, 0)
       /\ t.second = bounded(bcd_decode(b[2] % 128), 0, 59, 0)
       /\ t.hundredth = bounded(bcd_decode(b[1]), 0, 99, 0)
       /\ t = [year |-> t.year, month |-> t.month, date |-> t.date, weekday |-> t.weekday,
               hour |-> t.hour, minute |-> t.minute, second |-> t.second, hundredth |-> t.hundredth]
  BY <1>9 DEF CommittedTime, year, month
<1>11. t.date \in Nat
  <2>1. days_in_month(year, month) \in 28 .. 31
    BY <1>3, <1>4, DaysOfMonth
  <2> QED BY <1>5, <1>10, <2>1
<1>12. t \in CdiRtcTime
  BY <1>3, <1>4, <1>6, <1>7, <1>8, <1>10, <1>11 DEF CdiRtcTime
<1>13. t.date \in 1 .. days_in_month(t.year, t.month)
  BY <1>5, <1>10
<1>14. t.year >= 1970 /\ t.month \in 1 .. 12
  BY <1>3, <1>4, <1>10
<1>15. t.weekday \in 1 .. 7 /\ t.hour \in 0 .. 23
  BY <1>6, <1>7, <1>10
<1>16. t.minute \in 0 .. 59 /\ t.second \in 0 .. 59
  BY <1>8, <1>10
<1>17. t.hundredth \in 0 .. 99
  BY <1>8, <1>10
<1> QED BY <1>9, <1>12, <1>13, <1>14, <1>15, <1>16, <1>17 DEF OnCalendar

\* ... and is the time the registers were latched from.
LEMMA HourComesBack ==
    ASSUME NEW h \in 0 .. 23, NEW b, HourRegister(b, h)
    PROVE  CommittedHour(b) = h
<1>1. CASE b = bcd_encode(h)
  <2>1. h \in 0 .. 99 /\ h <= 31
    OBVIOUS
  <2>2. PICK e \in 0 .. 153 : e = bcd_encode(h)
    BY <2>1, TensAndOnes
  <2>3. e < 64 /\ bcd_decode(e) = h
    BY <2>1, <2>2, TensAndOnes
  <2>4. e \div 128 = 0 /\ e % 64 = e
    BY <2>2, <2>3
  <2>5. bounded(h, 0, 23, 0) = h
    BY DEF bounded
  <2>6. ~(b \div 128 = 1)
    BY <1>1, <2>2, <2>4
  <2> QED BY <1>1, <2>2, <2>3, <2>4, <2>5, <2>6 DEF CommittedHour
<1>2. CASE b = 128 + (IF h >= 12 THEN 32 ELSE 0) + bcd_encode(IF h % 12 = 0 THEN 12 ELSE h % 12)
  <2>1. PICK g \in 1 .. 12 : g = IF h % 12 = 0 THEN 12 ELSE h % 12
    OBVIOUS
  <2>2. g \in 0 .. 99 /\ g <= 12
    OBVIOUS
  <2>3. PICK e \in 0 .. 153 : e = bcd_encode(g)
    BY <2>2, TensAndOnes
  <2>4. e < 32 /\ bcd_decode(e) = g
    BY <2>2, <2>3, TensAndOnes
  <2>5. b = 128 + (IF h >= 12 THEN 32 ELSE 0) + e
    BY <1>2, <2>1, <2>3
  <2>6. b \div 128 = 1 /\ b % 32 = e /\ ((b \div 32) % 2 = 1) = (h >= 12)
    BY <2>3, <2>4, <2>5
  <2>7. bounded(g, 1, 12, 12) = g
    BY DEF bounded
  <2>8. CommittedHour(b) = (g % 12) + (IF h >= 12 THEN 12 ELSE 0)
    BY <2>4, <2>6, <2>7 DEF CommittedHour
  <2> QED BY <2>1, <2>8
<1> QED BY <1>1, <1>2 DEF HourRegister

LEMMA DigitsComeBack ==
    ASSUME NEW v \in 0 .. 99
    PROVE  /\ bounded(bcd_decode(bcd_encode(v)), 0, 99, 0) = v
           /\ v \in 0 .. 59 => bounded(bcd_decode(bcd_encode(v) % 128), 0, 59, 0) = v
           /\ v \in 1 .. 12 => bounded(bcd_decode(bcd_encode(v) % 32), 1, 12, 1) = v
           /\ \A m \in 28 .. 31 : v \in 1 .. m => bounded(bcd_decode(bcd_encode(v) % 64), 1, m, 1) = v
<1>1. PICK e \in 0 .. 153 : e = bcd_encode(v) /\ bcd_decode(e) = v
  BY TensAndOnes
<1>2. bounded(v, 0, 99, 0) = v
  BY DEF bounded
<1>3. ASSUME v \in 0 .. 59 PROVE bounded(bcd_decode(e % 128), 0, 59, 0) = v
  <2>1. e < 96
    BY <1>1, <1>3, TensAndOnes, SMTT(60)
  <2>2. e % 128 = e
    BY <1>1, <2>1
  <2> QED BY <1>1, <1>3, <2>2 DEF bounded
<1>4. ASSUME v \in 1 .. 12 PROVE bounded(bcd_decode(e % 32), 1, 12, 1) = v
  <2>1. e < 32
    <3>1. v <= 12
      BY <1>4
    <3> QED BY <1>1, <3>1, TensAndOnes
  <2>2. e % 32 = e
    BY <1>1, <2>1
  <2> QED BY <1>1, <1>4, <2>2 DEF bounded
<1>5. ASSUME NEW m \in 28 .. 31, v \in 1 .. m PROVE bounded(bcd_decode(e % 64), 1, m, 1) = v
  <2>1. e < 64
    <3>1. v <= 31
      BY <1>5
    <3> QED BY <1>1, <3>1, TensAndOnes
  <2>2. e % 64 = e
    BY <1>1, <2>1
  <2> QED BY <1>1, <1>5, <2>2 DEF bounded
<1> QED BY <1>1, <1>2, <1>3, <1>4, <1>5

LEMMA YearComesBack ==
    ASSUME NEW y \in 1970 .. 2069
    PROVE  LET d == bcd_decode(bcd_encode(y % 100))
           IN  y = IF d < 70 THEN 2000 + d ELSE 1900 + d
<1>1. PICK v \in 0 .. 99 : v = y % 100
  OBVIOUS
<1>2. \A w \in 0 .. 99 : bcd_decode(bcd_encode(w)) = w
  BY TensAndOnes
<1>3. bcd_decode(bcd_encode(v)) = v
  BY <1>2
<1> QED BY <1>1, <1>3

LEMMA CommitRestores ==
    ASSUME NEW r, NEW t, OnCalendar(t), t.year < 2070, RegistersOf(r.transfer, t)
    PROVE  CommittedTime(r) = t
<1>1. /\ t \in CdiRtcTime /\ t.year \in 1970 .. 2069 /\ t.month \in 1 .. 12
      /\ t.weekday \in 1 .. 7 /\ t.hour \in 0 .. 23 /\ t.minute \in 0 .. 59
      /\ t.second \in 0 .. 59 /\ t.hundredth \in 0 .. 99
  BY DEF OnCalendar, CdiRtcTime
<1>2. PICK m \in 28 .. 31 : m = days_in_month(t.year, t.month)
  BY <1>1, DaysOfMonth
<1>3. t.date \in 1 .. m
  BY <1>2 DEF OnCalendar
<1> DEFINE b == r.transfer
           y == bcd_decode(b[8])
           year == IF y < 70 THEN 2000 + y ELSE 1900 + y
           month == bounded(bcd_decode(b[7] % 32), 1, 12, 1)
<1>4. year = t.year
  <2>1. b[8] = bcd_encode(t.year % 100)
    BY DEF RegistersOf
  <2> QED BY <1>1, <2>1, YearComesBack
<1>5. month = t.month
  <2>1. b[7] = bcd_encode(t.month) /\ t.month \in 0 .. 99
    BY <1>1 DEF RegistersOf
  <2>2. bounded(bcd_decode(bcd_encode(t.month) % 32), 1, 12, 1) = t.month
    <3>1. PICK v \in 0 .. 99 : v = t.month /\ v \in 1 .. 12
      BY <1>1
    <3>2. bounded(bcd_decode(bcd_encode(v) % 32), 1, 12, 1) = v
      BY <3>1, DigitsComeBack
    <3> QED BY <3>1, <3>2
  <2> QED BY <2>1, <2>2
<1>6. bounded(bcd_decode(b[6] % 64), 1, m, 1) = t.date
  <2>1. b[6] = bcd_encode(t.date) /\ t.date \in 0 .. 99
    BY <1>3 DEF RegistersOf
  <2>2. bounded(bcd_decode(bcd_encode(t.date) % 64), 1, m, 1) = t.date
    <3>1. PICK v \in 0 .. 99 : v = t.date /\ v \in 1 .. m
      BY <1>2, <1>3
    <3>2. bounded(bcd_decode(bcd_encode(v) % 64), 1, m, 1) = v
      BY <1>2, <3>1, DigitsComeBack
    <3> QED BY <3>1, <3>2
  <2> QED BY <2>1, <2>2
<1>7. CommittedDate(r, year, month) = t.date
  <2>1. CommittedDate(r, t.year, t.month) = t.date
    BY <1>2, <1>6 DEF CommittedDate
  <2> HIDE DEF year, month
  <2> QED BY <1>4, <1>5, <2>1
<1>8. bounded(b[5] % 8, 1, 7, 1) = t.weekday
  BY <1>1 DEF RegistersOf, bounded
<1>9. CommittedHour(b[4]) = t.hour
  BY <1>1, HourComesBack DEF RegistersOf
<1>10. /\ bounded(bcd_decode(b[3] % 128), 0, 59, 0) = t.minute
       /\ bounded(bcd_decode(b[2] % 128), 0, 59, 0) = t.second
       /\ bounded(bcd_decode(b[1]), 0, 99, 0) = t.hundredth
  <2>1. /\ b[3] = bcd_encode(t.minute) /\ t.minute \in 0 .. 99
        /\ b[2] = bcd_encode(t.second) /\ t.second \in 0 .. 99
        /\ b[1] = bcd_encode(t.hundredth)
    BY <1>1 DEF RegistersOf
  <2>2. /\ bounded(bcd_decode(bcd_encode(t.minute) % 128), 0, 59, 0) = t.minute
        /\ bounded(bcd_decode(bcd_encode(t.second) % 128), 0, 59, 0) = t.second
        /\ bounded(bcd_decode(bcd_encode(t.hundredth)), 0, 99, 0) = t.hundredth
    <3>1. PICK u \in 0 .. 99 : u = t.minute /\ u \in 0 .. 59
      BY <1>1
    <3>2. PICK v \in 0 .. 99 : v = t.second /\ v \in 0 .. 59
      BY <1>1
    <3>3. PICK w \in 0 .. 99 : w = t.hundredth
      BY <1>1
    <3>4. /\ bounded(bcd_decode(bcd_encode(u) % 128), 0, 59, 0) = u
          /\ bounded(bcd_decode(bcd_encode(v) % 128), 0, 59, 0) = v
          /\ bounded(bcd_decode(bcd_encode(w)), 0, 99, 0) = w
      BY <3>1, <3>2, DigitsComeBack
    <3> QED BY <3>1, <3>2, <3>3, <3>4
  <2> QED BY <2>1, <2>2
<1> HIDE DEF year, month
<1>11. CommittedTime(r) = [year |-> t.year, month |-> t.month, date |-> t.date,
                           weekday |-> t.weekday, hour |-> t.hour, minute |-> t.minute,
                           second |-> t.second, hundredth |-> t.hundredth]
  <2>1. CommittedTime(r) =
          [year |-> year, month |-> month, date |-> CommittedDate(r, year, month),
           weekday |-> bounded(b[5] % 8, 1, 7, 1), hour |-> CommittedHour(b[4]),
           minute |-> bounded(bcd_decode(b[3] % 128), 0, 59, 0),
           second |-> bounded(bcd_decode(b[2] % 128), 0, 59, 0),
           hundredth |-> bounded(bcd_decode(b[1]), 0, 99, 0)]
    BY DEF CommittedTime, year, month
  <2> QED BY <1>4, <1>5, <1>7, <1>8, <1>9, <1>10, <2>1
<1> QED BY <1>1, <1>11 DEF CdiRtcTime

LEMMA CommitKeeps ==
    ASSUME NEW r, RtcShape(r)
    PROVE  LET c == commit_clock_registers(r)
           IN  /\ RtcShape(c) /\ c.now = CommittedTime(r) /\ c.transferring = r.transferring
               /\ c.transfer = r.transfer
<1>1. PICK n : n = CommittedTime(r)
  OBVIOUS
<1>2. commit_clock_registers(r) = [r EXCEPT !.now = n, !.sub_hundredth = 0]
  BY <1>1 DEF commit_clock_registers, CommittedTime
<1>3. PICK c : c = commit_clock_registers(r)
  OBVIOUS
<1>4. /\ DOMAIN c = RtcFields /\ c.now = n /\ c.sub_hundredth = 0 /\ c.transfer = r.transfer
      /\ c.transferring = r.transferring /\ c.transfer_reg = r.transfer_reg
  BY <1>2, <1>3 DEF RtcShape, RtcFields
<1>5. OnCalendar(n)
  BY <1>1, CommitIsCalendar DEF RtcShape
<1> QED BY <1>1, <1>3, <1>4, <1>5 DEF RtcShape

-----------------------------------------------------------------------------
(* Steps. *)

\* One register further: the last one ends the transfer with a commit.
LEMMA FinishKeeps ==
    ASSUME NEW r, RtcShape(r), r.transferring
    PROVE  LET f == finish_transfer(r)
           IN  /\ RtcShape(f) /\ f.transfer = r.transfer
               /\ ~f.transferring => f.now = CommittedTime(r)
<1>1. CASE LastRegister(r)
  <2>1. PICK q : q = [r EXCEPT !.transferring = FALSE, !.transfer_reg = 0, !.key_window = NoKey]
    OBVIOUS
  <2>2. /\ DOMAIN q = RtcFields /\ q.now = r.now /\ q.sub_hundredth = r.sub_hundredth
        /\ q.transfer = r.transfer /\ q.transferring = FALSE /\ q.transfer_reg = 0
    BY <2>1 DEF RtcShape, RtcFields
  <2>3. RtcShape(q)
    BY <2>2, 0 \in 0 .. 7, Zenon DEF RtcShape
  <2>4. CommittedTime(q) = CommittedTime(r)
    BY <2>2 DEF CommittedTime, CommittedDate
  <2>5. finish_transfer(r) = commit_clock_registers(q)
    BY <1>1, <2>1 DEF finish_transfer
  <2> QED BY <2>2, <2>3, <2>4, <2>5, CommitKeeps
<1>2. CASE ~LastRegister(r)
  <2>1. PICK f : f = finish_transfer(r)
    OBVIOUS
  <2>2. f = [r EXCEPT !.transfer_reg = @ + 1]
    BY <1>2, <2>1 DEF finish_transfer
  <2>3. /\ DOMAIN f = RtcFields /\ f.now = r.now /\ f.sub_hundredth = r.sub_hundredth
        /\ f.transfer = r.transfer /\ f.transferring = r.transferring
        /\ f.transfer_reg = r.transfer_reg + 1
    BY <2>2 DEF RtcShape, RtcFields
  <2>4. r.transfer_reg + 1 \in 0 .. 7
    BY <1>2 DEF RtcShape, LastRegister
  <2>5. RtcShape(f)
    BY <2>3, <2>4 DEF RtcShape
  <2> QED BY <2>1, <2>3, <2>5
<1> QED BY <1>1, <1>2

LEMMA KeyBitKeeps ==
    ASSUME NEW r, RtcShape(r), ~r.transferring, NEW bit
    PROVE  LET o == observe_key_bit(r, bit)
           IN  RtcShape(o) /\ (o.transferring => RegistersOf(o.transfer, r.now))
<1>1. PICK o : o = observe_key_bit(r, bit)
  OBVIOUS
<1>2. CASE Append(Tail(r.key_window), bit) = RtcKey
  <2>1. PICK l : l = latch_clock_registers(r)
    OBVIOUS
  <2>2. RtcShape(l) /\ RegistersOf(l.transfer, r.now)
    BY <2>1, LatchHolds
  <2>3. o = [l EXCEPT !.key_window = NoKey, !.transfer_reg = 0, !.transferring = TRUE]
    BY <1>1, <1>2, <2>1 DEF observe_key_bit
  <2>4. /\ DOMAIN o = RtcFields /\ o.now = l.now /\ o.sub_hundredth = l.sub_hundredth
        /\ o.transfer = l.transfer /\ o.transferring = TRUE /\ o.transfer_reg = 0
    BY <2>2, <2>3 DEF RtcShape, RtcFields
  <2>5. RtcShape(o)
    BY <2>2, <2>4, 0 \in 0 .. 7, Zenon DEF RtcShape
  <2> QED BY <1>1, <2>2, <2>4, <2>5
<1>3. CASE Append(Tail(r.key_window), bit) # RtcKey
  <2>1. o = [r EXCEPT !.key_window = Append(Tail(r.key_window), bit)]
    BY <1>1, <1>3 DEF observe_key_bit
  <2>2. /\ DOMAIN o = RtcFields /\ o.now = r.now /\ o.sub_hundredth = r.sub_hundredth
        /\ o.transfer = r.transfer /\ o.transferring = r.transferring
        /\ o.transfer_reg = r.transfer_reg
    BY <2>1 DEF RtcShape, RtcFields
  <2>3. RtcShape(o)
    BY <2>2 DEF RtcShape
  <2> QED BY <1>1, <2>2, <2>3
<1> QED BY <1>2, <1>3

LEMMA ResetShape ==
    /\ RtcShape(rtc_reset) /\ ~rtc_reset.transferring
    /\ Fresh \in [now : CdiRtcTime, written : BOOLEAN] /\ OnCalendar(Fresh.now)
<1> DEFINE n == [year |-> 1989, month |-> 1, date |-> 1, weekday |-> 7,
                hour |-> 0, minute |-> 0, second |-> 0, hundredth |-> 0]
<1>1. /\ n.year = 1989 /\ n.month = 1 /\ n.date = 1 /\ n.weekday = 7 /\ n.hour = 0
      /\ n.minute = 0 /\ n.second = 0 /\ n.hundredth = 0 /\ n \in CdiRtcTime
  BY DEF CdiRtcTime
<1> HIDE DEF n
<1>2. n.month \in 1 .. 12 /\ n.year \in Nat /\ n.date = 1
  BY <1>1
<1>3. days_in_month(n.year, n.month) \in 28 .. 31
  BY <1>2, DaysOfMonth
<1>4. n.date \in 1 .. days_in_month(n.year, n.month)
  BY <1>2, <1>3
<1>6. OnCalendar(n)
  BY <1>1, <1>4 DEF OnCalendar
<1>7. PICK z : z = [i \in 1 .. 8 |-> 0]
  OBVIOUS
<1>8. PICK r : r = [ram |-> Erased, transfer |-> z, now |-> n, key_window |-> NoKey,
                   sub_hundredth |-> 0, transfer_reg |-> 0, transferring |-> FALSE,
                   startup_seeded |-> FALSE]
  OBVIOUS
<1>9. /\ DOMAIN r = RtcFields /\ r.transfer = z /\ r.now = n /\ r.sub_hundredth = 0
      /\ r.transfer_reg = 0 /\ r.transferring = FALSE
  BY <1>8 DEF RtcFields
<1>10. RtcShape(r)
  <2>1. z \in Registers
    BY <1>7 DEF Registers
  <2>2. 0 \in Nat /\ 0 \in 0 .. 7
    OBVIOUS
  <2> QED BY <1>6, <1>9, <2>1, <2>2, Zenon DEF RtcShape
<1>11. rtc_reset = latch_clock_registers(r)
  BY <1>7, <1>8 DEF rtc_reset, n
<1>12. RtcShape(rtc_reset) /\ rtc_reset.now = n /\ rtc_reset.transferring = FALSE
  BY <1>9, <1>10, <1>11, LatchHolds
<1> QED BY <1>1, <1>6, <1>12 DEF Fresh

LEMMA SramShape ==
    ASSUME NEW r, RtcShape(r), NEW v
    PROVE  LET s == [r EXCEPT !.ram = v]
           IN  RtcShape(s) /\ s.transferring = r.transferring /\ s.now = r.now
                 /\ s.startup_seeded = r.startup_seeded
<1>1. PICK s : s = [r EXCEPT !.ram = v]
  OBVIOUS
<1>2. /\ DOMAIN s = RtcFields /\ s.now = r.now /\ s.sub_hundredth = r.sub_hundredth
      /\ s.transfer = r.transfer /\ s.transferring = r.transferring
      /\ s.transfer_reg = r.transfer_reg /\ s.startup_seeded = r.startup_seeded
  BY <1>1 DEF RtcShape, RtcFields
<1> QED BY <1>1, <1>2 DEF RtcShape

LEMMA LoadedShape ==
    RtcShape(load_sram(rtc_reset)) /\ ~load_sram(rtc_reset).transferring
BY ResetShape, SramShape DEF load_sram

LEMMA SeedKeeps ==
    ASSUME NEW r, RtcShape(r), ~r.transferring, NEW t, OnCalendar(t)
    PROVE  RtcShape(seed_clock_once(r, t)) /\ ~seed_clock_once(r, t).transferring
<1>1. CASE r.startup_seeded
  BY <1>1 DEF seed_clock_once
<1>2. CASE ~r.startup_seeded
  <2>1. PICK s : s = [r EXCEPT !.now = t, !.sub_hundredth = 0, !.startup_seeded = TRUE]
    OBVIOUS
  <2>2. /\ DOMAIN s = RtcFields /\ s.now = t /\ s.sub_hundredth = 0
        /\ s.transfer = r.transfer /\ s.transferring = r.transferring
        /\ s.transfer_reg = r.transfer_reg
    BY <2>1 DEF RtcShape, RtcFields
  <2>3. RtcShape(s)
    BY <2>2 DEF RtcShape
  <2>4. seed_clock_once(r, t) = latch_clock_registers(s)
    BY <1>2, <2>1 DEF seed_clock_once
  <2> QED BY <2>2, <2>3, <2>4, LatchHolds
<1> QED BY <1>1, <1>2

\* A start, and a stop: nothing is being transferred.
LEMMA AtRest ==
    ASSUME RtcShape(rtc'), ~rtc'.transferring, rtc_latched' = Fresh
    PROVE  CalendarInv'
BY ResetShape DEF CalendarInv

LEMMA ClockStep ==
    ASSUME CalendarInv, [NvramNext]_rtc_vars
    PROVE  CalendarInv' /\ ReadingKeepsTime
<1>1. ASSUME NEW t \in RtcStarts, Start(t)
      PROVE  CalendarInv' /\ ReadingKeepsTime
  <2>1. OnCalendar(t)
    <3>1. t \in CdiRtcTime /\ valid_time(t)
      BY <1>1, RtcAssumption DEF Start
    <3> QED BY <3>1, ValidIsCalendar
  <2>2. RtcShape(rtc') /\ ~rtc'.transferring /\ rtc_latched' = Fresh /\ rtc_at = "off"
    BY <1>1, <2>1, LoadedShape, SeedKeeps DEF Start
  <2> QED BY <2>2, AtRest DEF ReadingKeepsTime
<1>2. CASE StartUnseeded
  <2>1. RtcShape(rtc') /\ ~rtc'.transferring /\ rtc_latched' = Fresh /\ rtc_at = "off"
    BY <1>2, LoadedShape DEF StartUnseeded
  <2> QED BY <2>1, AtRest DEF ReadingKeepsTime
<1>3. CASE nvram_increment_clock
  <2>1. rtc' = AddUnit(rtc) /\ rtc_latched' = rtc_latched
    BY <1>3 DEF nvram_increment_clock
  <2>2. RtcShape(rtc') /\ rtc'.transfer = rtc.transfer /\ rtc'.transferring = rtc.transferring
    BY <2>1, AddUnitKeeps DEF CalendarInv
  <2> QED BY <2>1, <2>2 DEF CalendarInv, ReadingKeepsTime
<1>4. CASE nvram_get_byte
  <2>1. rtc' = finish_transfer(rtc) /\ rtc_latched' = rtc_latched /\ rtc.transferring
    BY <1>4 DEF nvram_get_byte
  <2>2. /\ RtcShape(rtc') /\ rtc'.transfer = rtc.transfer
        /\ ~rtc'.transferring => rtc'.now = CommittedTime(rtc)
    BY <2>1, FinishKeeps DEF CalendarInv
  <2>3. CalendarInv'
    BY <2>1, <2>2 DEF CalendarInv
  <2>4. ReadingKeepsTime
    BY <2>1, <2>2, CommitRestores DEF CalendarInv, ReadingKeepsTime
  <2> QED BY <2>3, <2>4
<1>5. ASSUME NEW bit \in {0, 1}, WriteSram(bit)
      PROVE  CalendarInv' /\ ReadingKeepsTime
  <2>1. PICK s : s = [rtc EXCEPT !.ram = bit]
    OBVIOUS
  <2>2. RtcShape(s) /\ ~s.transferring /\ s.now = rtc.now
    BY <1>5, <2>1, SramShape DEF CalendarInv, WriteSram
  <2>3. rtc' = observe_key_bit(s, bit) /\ ~rtc.transferring
    BY <1>5, <2>1 DEF WriteSram
  <2>4. RtcShape(rtc') /\ (rtc'.transferring => RegistersOf(rtc'.transfer, rtc.now))
    BY <2>2, <2>3, KeyBitKeeps
  <2>5. rtc_latched' = IF rtc'.transferring THEN [now |-> rtc.now, written |-> FALSE] ELSE rtc_latched
    BY <1>5 DEF WriteSram
  <2>6. rtc.now \in CdiRtcTime /\ OnCalendar(rtc.now)
    BY DEF CalendarInv, RtcShape, OnCalendar
  <2>7. CASE rtc'.transferring
    <3>1. rtc_latched' = [now |-> rtc.now, written |-> FALSE]
      BY <2>5, <2>7
    <3>2. /\ rtc_latched' \in [now : CdiRtcTime, written : BOOLEAN]
          /\ rtc_latched'.now = rtc.now /\ rtc_latched'.written = FALSE
      BY <2>6, <3>1
    <3>3. RegistersOf(rtc'.transfer, rtc_latched'.now) /\ OnCalendar(rtc_latched'.now)
      BY <2>4, <2>6, <2>7, <3>2
    <3> QED BY <2>3, <2>4, <3>2, <3>3 DEF CalendarInv, ReadingKeepsTime
  <2>8. CASE ~rtc'.transferring
    <3>1. rtc_latched' = rtc_latched
      BY <2>5, <2>8
    <3> QED BY <2>3, <2>4, <2>8, <3>1 DEF CalendarInv, ReadingKeepsTime
  <2> QED BY <2>7, <2>8
<1>6. ASSUME NEW v \in RtcWrites[rtc.transfer_reg], WriteRegister(v)
      PROVE  CalendarInv' /\ ReadingKeepsTime
  <2>1. PICK k \in 1 .. 8 : k = rtc.transfer_reg + 1
    BY DEF CalendarInv, RtcShape
  <2>2. v \in 0 .. 255
    BY RtcAssumption, ZenonT(60) DEF CalendarInv, RtcShape
  <2>3. PICK s : s = [rtc EXCEPT !.transfer[k] = v]
    OBVIOUS
  <2>4. /\ DOMAIN s = RtcFields /\ s.now = rtc.now /\ s.sub_hundredth = rtc.sub_hundredth
        /\ s.transfer = [rtc.transfer EXCEPT ![k] = v] /\ s.transferring = rtc.transferring
        /\ s.transfer_reg = rtc.transfer_reg
    BY <2>3 DEF CalendarInv, RtcShape, RtcFields
  <2>5. s.transfer \in Registers
    <3>1. rtc.transfer \in Registers
      BY DEF CalendarInv, RtcShape
    <3>2. PICK f \in Registers : f = rtc.transfer
      BY <3>1
    <3>3. [f EXCEPT ![k] = v] \in Registers
      BY <2>2, <3>2 DEF Registers
    <3> QED BY <2>4, <3>2, <3>3
  <2>6. RtcShape(s) /\ s.transferring
    BY <1>6, <2>4, <2>5 DEF CalendarInv, RtcShape, WriteRegister
  <2>7. rtc' = finish_transfer(s)
    BY <1>6, <2>1, <2>3 DEF WriteRegister
  <2>8. RtcShape(rtc')
    BY <2>6, <2>7, FinishKeeps
  <2>9. rtc_latched' = [rtc_latched EXCEPT !.written = TRUE]
    BY <1>6 DEF WriteRegister
  <2>10. /\ rtc_latched' \in [now : CdiRtcTime, written : BOOLEAN]
         /\ rtc_latched'.now = rtc_latched.now /\ rtc_latched'.written
    BY <2>9 DEF CalendarInv
  <2> QED BY <2>8, <2>10 DEF CalendarInv, ReadingKeepsTime
<1>7. ASSUME NEW at \in {"run", "opened", "written"}, Stop(at)
      PROVE  CalendarInv' /\ ReadingKeepsTime
  <2>1. rtc' = rtc_reset /\ rtc_latched' = Fresh /\ rtc_at' = "off"
    BY <1>7 DEF Stop
  <2> QED BY <2>1, ResetShape, AtRest DEF ReadingKeepsTime
<1>8. CASE SaveOpen \/ SaveWrite
  BY <1>8 DEF SaveOpen, SaveWrite, SaveAt, CalendarInv, ReadingKeepsTime
<1>9. CASE SaveRename \/ SaveFails \/ Crash
  BY <1>7, <1>9 DEF SaveRename, SaveFails, Crash
<1>10. CASE UNCHANGED rtc_vars
  BY <1>10 DEF rtc_vars, CalendarInv, ReadingKeepsTime
<1> QED BY <1>1, <1>2, <1>3, <1>4, <1>5, <1>6, <1>8, <1>9, <1>10 DEF NvramNext

(* cdi_nvram.c, commit_clock_registers and advance_one_second: the clock   *)
(* always holds a date of the calendar, whatever bytes the guest shifts    *)
(* into the registers and however long the program runs, and a transfer in *)
(* which it only read leaves the clock at the time that was latched, for   *)
(* every time of the hundred years the registers can tell apart and both   *)
(* modes of the hour.                                                      *)
THEOREM ClockIsKept == NvramSpec => ClockKeepsTime
<1>1. NvramInit => CalendarInv
  BY ResetShape DEF NvramInit, CalendarInv
<1>2. CalendarInv /\ [NvramNext]_rtc_vars => CalendarInv' /\ ReadingKeepsTime
  BY ClockStep
<1>3. CalendarInv => CalendarValid
  <2> SUFFICES ASSUME CalendarInv PROVE CalendarValid
    OBVIOUS
  <2>1. OnCalendar(rtc.now) /\ rtc.now.year >= 1970
    BY DEF CalendarInv, RtcShape, OnCalendar
  <2> QED BY <2>1, CalendarIsValid DEF CalendarValid
<1>4. CalendarInv' => CalendarValid'
  BY <1>3, PTL
<1>5. CalendarInv /\ [NvramNext]_rtc_vars => [CalendarValid' /\ ReadingKeepsTime]_rtc_vars
  BY <1>2, <1>4
<1> QED BY <1>1, <1>2, <1>5, PTL DEF NvramSpec, ClockKeepsTime

(***************************************************************************)
(* The ring: what lies between the two indices is a first-in first-out     *)
(* queue.                                                                  *)
(***************************************************************************)
AudioFields == {"previous", "ring", "write_index", "read_index", "dropped_frames"}

\* What the ring holds does not matter.
IsSeq(s) == \E S : s \in Seq(S)

RingTypes ==
    /\ DOMAIN audio = AudioFields /\ DOMAIN audio.ring = 0 .. RingFrames - 1
    /\ audio.write_index \in 0 .. IndexTop - 1 /\ audio.read_index \in 0 .. IndexTop - 1
    /\ stored \in BOOLEAN /\ IsSeq(queue)

Counted == Distance(audio.write_index, audio.read_index) = Len(queue) /\ Len(queue) <= RingFrames
InSlots == \A i \in 1 .. Len(queue) : audio.ring[Slot(audio.read_index + i - 1)] = queue[i]
Copying == Len(reading) \in 0 .. Len(queue) /\ reading = SubSeq(queue, 1, Len(reading))

\* A frame that is stored is not yet counted, and has its slot for itself.
Storing == stored => /\ Len(queue) < RingFrames /\ emitting # << >>
                     /\ audio.ring[Slot(audio.write_index)] = Head(emitting)

RingInv == RingTypes /\ Counted /\ InSlots /\ Copying /\ Storing

-----------------------------------------------------------------------------
(* Indices. *)

LEMMA RingConstants ==
    /\ RingFrames \in Nat \ {0} /\ IndexTop \in Nat \ {0} /\ RingFrames < IndexTop
    /\ IndexTop % RingFrames = 0
BY AudioAssumption

LEMMA FrameSlotWraps ==
    ASSUME NEW x \in Int
    PROVE  Slot(x - IndexTop) = Slot(x)
<1>1. PICK q \in Int : q = IndexTop \div RingFrames
  BY RingConstants, RemainderDef
<1>2. IndexTop = RingFrames * q
  BY <1>1, RingConstants, RemainderDef
<1>3. PICK p \in Int : p = -q
  OBVIOUS
<1>4. (x + RingFrames * p) % RingFrames = x % RingFrames
  BY RingConstants, RemainderShift
<1>5. x - IndexTop = x + RingFrames * p
  BY <1>2, <1>3, RingConstants
<1> QED BY <1>4, <1>5 DEF Slot

LEMMA SlotType ==
    ASSUME NEW x \in Int
    PROVE  Slot(x) \in 0 .. RingFrames - 1
BY RingConstants, RemainderDef DEF Slot

\* An index moves by at most the length of the ring.
LEMMA Moves ==
    ASSUME NEW k \in 0 .. IndexTop - 1, NEW n \in 0 .. RingFrames
    PROVE  /\ (k + n) % IndexTop \in 0 .. IndexTop - 1
           /\ (k + n) % IndexTop = IF k + n < IndexTop THEN k + n ELSE k + n - IndexTop
<1>1. PICK x \in Int : x = k + n
  OBVIOUS
<1>2. -IndexTop <= x /\ 0 <= x /\ x < 2 * IndexTop /\ IndexTop \in Nat \ {0}
  BY <1>1, RingConstants
<1>3. x % IndexTop = IF x < 0 THEN x + IndexTop ELSE IF x < IndexTop THEN x ELSE x - IndexTop
  BY <1>2, RemainderWraps
<1>4. PICK r \in Int : r = x % IndexTop
  BY <1>2, <1>3
<1>5. r \in 0 .. IndexTop - 1 /\ r = IF x < IndexTop THEN x ELSE x - IndexTop
  BY <1>2, <1>3, <1>4
<1>6. r = IF k + n < IndexTop THEN k + n ELSE k + n - IndexTop
  <2>1. CASE x < IndexTop
    BY <1>1, <1>2, <1>5, <2>1
  <2>2. CASE ~(x < IndexTop)
    BY <1>1, <1>2, <1>5, <2>2
  <2> QED BY <2>1, <2>2
<1>7. (k + n) % IndexTop = r
  BY <1>1, <1>4
<1> QED BY <1>5, <1>6, <1>7, Zenon

LEMMA DistanceIs ==
    ASSUME NEW w \in 0 .. IndexTop - 1, NEW r \in 0 .. IndexTop - 1
    PROVE  Distance(w, r) = IF w >= r THEN w - r ELSE w - r + IndexTop
<1>1. PICK x \in Int : x = w - r
  BY RingConstants
<1>2. -IndexTop <= x /\ x < IndexTop /\ x < 2 * IndexTop /\ IndexTop \in Nat \ {0}
  BY <1>1, RingConstants
<1>3. x % IndexTop = IF x < 0 THEN x + IndexTop ELSE IF x < IndexTop THEN x ELSE x - IndexTop
  BY <1>2, RemainderWraps
<1>4. Distance(w, r) = x % IndexTop
  BY <1>1 DEF Distance
<1>5. Distance(w, r) = IF x < 0 THEN x + IndexTop ELSE x
  BY <1>2, <1>3, <1>4
<1> QED BY <1>1, <1>2, <1>5

LEMMA RingIndices ==
    ASSUME RingTypes, Counted
    PROVE  /\ audio.read_index \in Nat /\ audio.write_index \in Nat /\ Len(queue) \in Nat
           /\ \/ audio.write_index = audio.read_index + Len(queue)
              \/ audio.write_index = audio.read_index + Len(queue) - IndexTop
<1>1. /\ audio.read_index \in Nat /\ audio.write_index \in Nat
      /\ audio.read_index < IndexTop /\ audio.write_index < IndexTop
  BY RingConstants DEF RingTypes
<1>2. Len(queue) = IF audio.write_index >= audio.read_index
                   THEN audio.write_index - audio.read_index
                   ELSE audio.write_index - audio.read_index + IndexTop
  BY DistanceIs DEF RingTypes, Counted
<1> QED BY <1>1, <1>2, RingConstants

\* The slot of the next frame is none of those in use.
LEMMA FreshSlot ==
    ASSUME RingTypes, Counted, Len(queue) < RingFrames, NEW i \in 1 .. Len(queue)
    PROVE  Slot(audio.read_index + i - 1) # Slot(audio.write_index)
<1>1. /\ audio.read_index \in Nat /\ audio.write_index \in Nat /\ Len(queue) \in Nat
      /\ \/ audio.write_index = audio.read_index + Len(queue)
         \/ audio.write_index = audio.read_index + Len(queue) - IndexTop
  BY RingIndices
<1>2. PICK x \in Int : x = audio.read_index + i - 1
  BY <1>1
<1>3. PICK y \in Int : y = audio.read_index + Len(queue)
  BY <1>1
<1>4. x < y /\ y < x + RingFrames
  BY <1>1, <1>2, <1>3, RingConstants
<1>5. Slot(x) # Slot(y)
  BY <1>4, RingConstants, RemainderApart DEF Slot
<1>6. Slot(y) = Slot(audio.write_index)
  <2>1. y = audio.write_index \/ y - IndexTop = audio.write_index
    BY <1>1, <1>3, RingConstants, SMTT(60)
  <2>2. Slot(y - IndexTop) = Slot(y)
    BY FrameSlotWraps
  <2> QED BY <2>1, <2>2
<1> QED BY <1>2, <1>5, <1>6

-----------------------------------------------------------------------------
(* Sequences of whatever. *)

LEMMA Appended ==
    ASSUME NEW s, NEW e, IsSeq(s)
    PROVE  /\ IsSeq(Append(s, e)) /\ Len(s) \in Nat /\ Len(Append(s, e)) = Len(s) + 1
           /\ \A i \in 1 .. Len(s) : Append(s, e)[i] = s[i]
           /\ Append(s, e)[Len(s) + 1] = e
<1>1. PICK S : s \in Seq(S)
  BY DEF IsSeq
<1>2. PICK T : T = S \cup {e}
  OBVIOUS
<1>3. s \in Seq(T) /\ e \in T
  BY <1>1, <1>2, SeqMonotonic
<1>4. /\ Append(s, e) \in Seq(T) /\ Len(Append(s, e)) = Len(s) + 1
      /\ \A i \in 1 .. Len(s) : Append(s, e)[i] = s[i]
      /\ Append(s, e)[Len(s) + 1] = e
  BY <1>3, AppendProperties
<1> QED BY <1>1, <1>4 DEF IsSeq

LEMMA Part ==
    ASSUME NEW s, IsSeq(s), NEW a \in Nat \ {0}, NEW b \in 0 .. Len(s), a <= b + 1
    PROVE  /\ IsSeq(SubSeq(s, a, b)) /\ Len(s) \in Nat /\ Len(SubSeq(s, a, b)) = b - a + 1
           /\ \A i \in 1 .. b - a + 1 : SubSeq(s, a, b)[i] = s[a + i - 1]
<1>1. PICK S : s \in Seq(S)
  BY DEF IsSeq
<1>2. Len(s) \in Nat /\ \A i \in a .. b : s[i] \in S
  BY <1>1, ElementOfSeq
<1>3. /\ SubSeq(s, a, b) \in Seq(S) /\ Len(SubSeq(s, a, b)) = IF a <= b THEN b - a + 1 ELSE 0
      /\ \A i \in 1 .. b - a + 1 : SubSeq(s, a, b)[i] = s[a + i - 1]
  BY <1>2, SubSeqProperties
<1> QED BY <1>2, <1>3 DEF IsSeq

LEMMA SameParts ==
    ASSUME NEW s, NEW t, IsSeq(s), IsSeq(t), NEW n \in Nat, n <= Len(s), n <= Len(t),
           \A i \in 1 .. n : s[i] = t[i]
    PROVE  SubSeq(s, 1, n) = SubSeq(t, 1, n)
<1>0. Len(s) \in Nat /\ Len(t) \in Nat
  BY DEF IsSeq
<1>1. /\ IsSeq(SubSeq(s, 1, n)) /\ Len(SubSeq(s, 1, n)) = n - 1 + 1
      /\ \A i \in 1 .. n - 1 + 1 : SubSeq(s, 1, n)[i] = s[1 + i - 1]
  BY <1>0, Part
<1>2. /\ IsSeq(SubSeq(t, 1, n)) /\ Len(SubSeq(t, 1, n)) = n - 1 + 1
      /\ \A i \in 1 .. n - 1 + 1 : SubSeq(t, 1, n)[i] = t[1 + i - 1]
  BY <1>0, Part
<1>3. PICK S : SubSeq(s, 1, n) \in Seq(S)
  BY <1>1 DEF IsSeq
<1>4. PICK T : SubSeq(t, 1, n) \in Seq(T)
  BY <1>2 DEF IsSeq
<1>5. SubSeq(s, 1, n) \in Seq(S \cup T) /\ SubSeq(t, 1, n) \in Seq(S \cup T)
  BY <1>3, <1>4, SeqMonotonic
<1>6. \A i \in 1 .. n : SubSeq(s, 1, n)[i] = SubSeq(t, 1, n)[i]
  BY <1>1, <1>2
<1> QED BY <1>1, <1>2, <1>5, <1>6, SeqEqual

-----------------------------------------------------------------------------
(* Steps. *)

LEMMA EmptyRing ==
    ASSUME DOMAIN audio' = AudioFields, DOMAIN audio'.ring = 0 .. RingFrames - 1,
           audio'.write_index = 0, audio'.read_index = 0, queue' = << >>, reading' = << >>,
           stored' = FALSE
    PROVE  RingInv'
<1>1. Len(queue') = 0 /\ Len(reading') = 0 /\ IsSeq(queue')
  BY DEF IsSeq
<1>2. RingTypes'
  <2>1. 0 \in 0 .. IndexTop - 1
    BY RingConstants
  <2> QED BY <1>1, <2>1, Zenon DEF RingTypes
<1>3. Distance(audio.write_index, audio.read_index)' = 0
  <2>1. Distance(0, 0) = 0
    BY DistanceIs, RingConstants
  <2> QED BY <2>1 DEF Distance
<1>4. Counted'
  BY <1>1, <1>3, RingConstants DEF Counted
<1>5. \A i \in 1 .. Len(queue') : FALSE
  BY <1>1
<1>6. InSlots'
  BY <1>5 DEF InSlots
<1>7. reading' = SubSeq(queue', 1, Len(reading'))
  BY <1>1
<1>8. Copying'
  BY <1>1, <1>7 DEF Copying
<1> QED BY <1>2, <1>4, <1>6, <1>8 DEF RingInv, Storing

\* Steps that move neither the ring nor what it holds.
LEMMA SameRing ==
    ASSUME RingInv, DOMAIN audio' = AudioFields, audio'.ring = audio.ring,
           audio'.write_index = audio.write_index, audio'.read_index = audio.read_index,
           UNCHANGED <<queue, reading, stored>>, stored => emitting' = emitting
    PROVE  RingInv'
<1>1. RingTypes'
  BY DEF RingInv, RingTypes
<1>2. Counted' /\ InSlots' /\ Copying'
  BY DEF RingInv, Counted, InSlots, Copying
<1>3. Storing'
  BY DEF RingInv, Storing
<1> QED BY <1>1, <1>2, <1>3 DEF RingInv

LEMMA PutKeeps ==
    ASSUME RingInv, Put
    PROVE  RingInv'
<1>1. PICK w : w = Slot(audio.write_index)
  OBVIOUS
<1>2. PICK f : f = Head(emitting)
  OBVIOUS
<1>3. audio' = [audio EXCEPT !.ring[w] = f]
  BY <1>1, <1>2 DEF Put
<1>4. /\ DOMAIN audio' = AudioFields /\ DOMAIN audio'.ring = 0 .. RingFrames - 1
      /\ audio'.write_index = audio.write_index /\ audio'.read_index = audio.read_index
      /\ audio'.ring = [audio.ring EXCEPT ![w] = f]
  BY <1>3 DEF RingInv, RingTypes, AudioFields
<1>5. w \in 0 .. RingFrames - 1
  <2>1. audio.write_index \in Int
    BY RingConstants DEF RingInv, RingTypes
  <2> QED BY <1>1, <2>1, SlotType
<1>6. audio'.ring[w] = f /\ \A j \in 0 .. RingFrames - 1 : j # w => audio'.ring[j] = audio.ring[j]
  BY <1>4, <1>5 DEF RingInv, RingTypes
<1>7. Len(queue) < RingFrames
  <2>1. Len(queue) \in Nat
    BY DEF RingInv, RingTypes, IsSeq
  <2> QED BY <2>1, RingConstants DEF Put, Full, RingInv, Counted
<1>8. RingTypes'
  BY <1>4 DEF Put, RingInv, RingTypes
<1>9. Counted' /\ Copying'
  BY <1>4 DEF Put, RingInv, Counted, Copying
<1>10. InSlots'
  <2> SUFFICES ASSUME NEW i \in 1 .. Len(queue)
               PROVE  audio'.ring[Slot(audio.read_index + i - 1)] = queue[i]
    BY <1>4 DEF Put, InSlots
  <2>1. PICK x \in Int : x = audio.read_index + i - 1
    BY RingConstants DEF RingInv, RingTypes
  <2>2. Slot(x) \in 0 .. RingFrames - 1
    BY SlotType
  <2>3. Slot(x) # w
    BY <1>1, <1>7, <2>1, FreshSlot DEF RingInv
  <2>4. audio'.ring[Slot(x)] = audio.ring[Slot(x)]
    BY <1>6, <2>2, <2>3
  <2>5. audio.ring[Slot(audio.read_index + i - 1)] = queue[i]
    BY DEF RingInv, InSlots
  <2> QED BY <2>1, <2>4, <2>5
<1>11. Storing'
  BY <1>1, <1>2, <1>4, <1>6, <1>7 DEF Put, Storing
<1> QED BY <1>8, <1>9, <1>10, <1>11 DEF RingInv

LEMMA PublishKeeps ==
    ASSUME RingInv, Publish
    PROVE  RingInv'
<1>1. PICK w \in 0 .. IndexTop - 1 : w = audio.write_index
  BY DEF RingInv, RingTypes
<1>2. PICK r \in 0 .. IndexTop - 1 : r = audio.read_index
  BY DEF RingInv, RingTypes
<1>3. PICK n \in Nat : n = Len(queue)
  BY DEF RingInv, RingTypes, IsSeq
<1>4. PICK e : e = Head(emitting)
  OBVIOUS
<1>5. n < RingFrames
  BY <1>3 DEF RingInv, Storing, Publish
<1>6. PICK v \in 0 .. IndexTop - 1 : v = (w + 1) % IndexTop
  BY Moves, RingConstants
<1>7. v = IF w + 1 < IndexTop THEN w + 1 ELSE w + 1 - IndexTop
  BY <1>6, Moves, RingConstants
<1>8. audio' = [audio EXCEPT !.write_index = v]
  BY <1>1, <1>6 DEF Publish
<1>9. /\ DOMAIN audio' = AudioFields /\ audio'.ring = audio.ring
      /\ audio'.write_index = v /\ audio'.read_index = r
  BY <1>2, <1>8 DEF RingInv, RingTypes, AudioFields
<1>10. /\ queue' = Append(queue, e) /\ IsSeq(queue') /\ Len(queue') = n + 1
       /\ (\A i \in 1 .. n : queue'[i] = queue[i]) /\ queue'[n + 1] = e
  <2>1. queue' = Append(queue, e) /\ IsSeq(queue)
    BY <1>4 DEF Publish, RingInv, RingTypes
  <2> QED BY <1>3, <2>1, Appended
<1>11. w = r + n \/ w = r + n - IndexTop
  BY <1>1, <1>2, <1>3, RingIndices DEF RingInv
<1>12. Distance(v, r) = n + 1
  <2>1. v = r + (n + 1) \/ v = r + (n + 1) - IndexTop
    BY <1>5, <1>7, <1>11, RingConstants
  <2> QED BY <1>5, <2>1, DistanceIs, RingConstants
<1>13. RingTypes'
  BY <1>9, <1>10 DEF Publish, RingInv, RingTypes
<1>14. Counted'
  <2>1. Distance(audio.write_index, audio.read_index)' = Distance(v, r)
    BY <1>9 DEF Distance
  <2> QED BY <1>5, <1>10, <1>12, <2>1, RingConstants DEF Counted
<1>15. InSlots'
  <2> SUFFICES ASSUME NEW i \in 1 .. n + 1
               PROVE  audio.ring[Slot(r + i - 1)] = queue'[i]
    BY <1>9, <1>10 DEF InSlots, Slot
  <2>1. CASE i \in 1 .. n
    BY <1>2, <1>3, <1>10, <2>1 DEF RingInv, InSlots
  <2>2. CASE i = n + 1
    <3>1. PICK y \in Int : y = r + i - 1
      BY RingConstants
    <3>2. y = w \/ y - IndexTop = w
      BY <1>11, <2>2, <3>1, RingConstants
    <3>3. Slot(y) = Slot(w)
      <4>1. Slot(y - IndexTop) = Slot(y)
        BY FrameSlotWraps
      <4> QED BY <3>2, <4>1
    <3>4. audio.ring[Slot(w)] = e
      BY <1>1, <1>4 DEF RingInv, Storing, Publish
    <3> QED BY <1>10, <2>2, <3>1, <3>3, <3>4
  <2> QED BY <2>1, <2>2
<1>16. Copying'
  <2>1. PICK k \in 0 .. n : k = Len(reading)
    BY <1>3 DEF RingInv, Copying
  <2>2. SubSeq(queue', 1, k) = SubSeq(queue, 1, k)
    <3>1. k \in Nat /\ k <= Len(queue) /\ k <= Len(queue') /\ \A i \in 1 .. k : queue'[i] = queue[i]
      BY <1>3, <1>10, <2>1
    <3>2. IsSeq(queue) /\ IsSeq(queue')
      BY <1>10 DEF RingInv, RingTypes
    <3> QED BY <3>1, <3>2, SameParts
  <2>3. reading' = reading /\ reading = SubSeq(queue, 1, k)
    BY <2>1 DEF Publish, RingInv, Copying
  <2>4. k \in 0 .. n + 1
    BY <2>1
  <2> QED BY <1>10, <2>1, <2>2, <2>3, <2>4 DEF Copying
<1> QED BY <1>13, <1>14, <1>15, <1>16 DEF RingInv, Storing, Publish

LEMMA LookKeeps ==
    ASSUME RingInv, NEW capacity \in Capacities, Look(capacity)
    PROVE  RingInv'
<1>1. PICK n \in Nat : n = Len(queue)
  BY DEF RingInv, RingTypes, IsSeq
<1>2. Distance(audio.write_index, audio.read_index) = n
  BY <1>1 DEF RingInv, Counted
<1>3. capacity \in Nat
  BY AudioAssumption
<1>4. PICK k \in 1 .. n : k = IF n > capacity THEN capacity ELSE n
  BY <1>2, <1>3 DEF Look
<1>5. reading' = [i \in 1 .. k |-> audio.ring[Slot(audio.read_index + i - 1)]]
  BY <1>2, <1>4 DEF Look
<1>6. \A i \in 1 .. k : audio.ring[Slot(audio.read_index + i - 1)] = queue[i]
  BY <1>1, <1>4 DEF RingInv, InSlots
<1>7. reading' = [i \in 1 .. k |-> queue[i]]
  BY <1>5, <1>6
<1>8. Len(reading') = k /\ reading' = SubSeq(queue, 1, k)
  <2>1. PICK S : queue \in Seq(S)
    BY DEF RingInv, RingTypes, IsSeq
  <2>2. SubSeq(queue, 1, k) = [i \in 1 .. k |-> queue[i]]
    BY <1>1, <1>4, <2>1
  <2>3. reading' \in Seq(S)
    BY <1>1, <1>4, <1>7, <2>1
  <2> QED BY <1>4, <1>7, <2>2, <2>3
<1>9. UNCHANGED <<audio, emitting, stored, queue>>
  BY DEF Look
<1>10. Copying'
  BY <1>1, <1>4, <1>8, <1>9 DEF Copying
<1>11. RingTypes' /\ Counted' /\ InSlots' /\ Storing'
  BY <1>9 DEF RingInv, RingTypes, Counted, InSlots, Storing
<1> QED BY <1>10, <1>11 DEF RingInv

LEMMA TakeKeeps ==
    ASSUME RingInv, Take
    PROVE  RingInv'
<1>1. PICK w \in 0 .. IndexTop - 1 : w = audio.write_index
  BY DEF RingInv, RingTypes
<1>2. PICK r \in 0 .. IndexTop - 1 : r = audio.read_index
  BY DEF RingInv, RingTypes
<1>3. PICK n \in Nat : n = Len(queue)
  BY DEF RingInv, RingTypes, IsSeq
<1>4. PICK k \in 0 .. n : k = Len(reading)
  BY <1>3 DEF RingInv, Copying
<1>5. n <= RingFrames
  BY <1>3 DEF RingInv, Counted
<1>6. k \in 0 .. RingFrames
  BY <1>5, RingConstants
<1>7. PICK s \in 0 .. IndexTop - 1 : s = (r + k) % IndexTop
  BY <1>6, Moves, RingConstants
<1>8. s = IF r + k < IndexTop THEN r + k ELSE r + k - IndexTop
  BY <1>6, <1>7, Moves, RingConstants
<1>9. audio' = [audio EXCEPT !.read_index = s]
  BY <1>2, <1>4, <1>7 DEF Take
<1>10. /\ DOMAIN audio' = AudioFields /\ audio'.ring = audio.ring
       /\ audio'.write_index = w /\ audio'.read_index = s
  BY <1>1, <1>9 DEF RingInv, RingTypes, AudioFields
<1>11. /\ IsSeq(queue') /\ Len(queue') = n - k
       /\ \A i \in 1 .. n - k : queue'[i] = queue[k + i]
  <2>1. PICK a \in Nat \ {0} : a = k + 1
    OBVIOUS
  <2>2. n \in 0 .. Len(queue) /\ a <= n + 1 /\ IsSeq(queue)
    BY <1>3, <2>1 DEF RingInv, RingTypes
  <2>3. /\ IsSeq(SubSeq(queue, a, n)) /\ Len(SubSeq(queue, a, n)) = n - a + 1
        /\ \A i \in 1 .. n - a + 1 : SubSeq(queue, a, n)[i] = queue[a + i - 1]
    BY <2>2, Part
  <2>4. queue' = SubSeq(queue, a, n)
    BY <1>3, <1>4, <2>1 DEF Take
  <2>5. n - a + 1 = n - k /\ \A i \in 1 .. n - k : a + i - 1 = k + i
    BY <2>1
  <2> QED BY <2>3, <2>4, <2>5
<1>12. w = r + n \/ w = r + n - IndexTop
  BY <1>1, <1>2, <1>3, RingIndices DEF RingInv
<1>13. Distance(w, s) = n - k
  <2>1. w = s + (n - k) \/ w = s + (n - k) - IndexTop
    BY <1>5, <1>8, <1>12, RingConstants
  <2> QED BY <1>5, <2>1, DistanceIs, RingConstants
<1>14. RingTypes'
  BY <1>1, <1>10, <1>11 DEF Take, RingInv, RingTypes
<1>15. Counted'
  <2>1. Distance(audio.write_index, audio.read_index)' = Distance(w, s)
    BY <1>10 DEF Distance
  <2> QED BY <1>5, <1>11, <1>13, <2>1, RingConstants DEF Counted
<1>16. InSlots'
  <2> SUFFICES ASSUME NEW i \in 1 .. n - k
               PROVE  audio.ring[Slot(s + i - 1)] = queue'[i]
    BY <1>10, <1>11 DEF InSlots, Slot
  <2>1. PICK j \in 1 .. n : j = k + i
    OBVIOUS
  <2>2. audio.ring[Slot(r + j - 1)] = queue[j]
    BY <1>2, <1>3 DEF RingInv, InSlots
  <2>3. PICK y \in Int : y = r + j - 1
    BY RingConstants
  <2>4. PICK z \in Int : z = s + i - 1
    BY RingConstants
  <2>5. z = y \/ z = y - IndexTop
    BY <1>8, <2>1, <2>3, <2>4, RingConstants
  <2>6. Slot(z) = Slot(y)
    <3>1. Slot(y - IndexTop) = Slot(y)
      BY FrameSlotWraps
    <3> QED BY <2>5, <3>1
  <2>7. queue'[i] = queue[j]
    BY <1>11, <2>1
  <2> QED BY <2>2, <2>3, <2>4, <2>6, <2>7
<1>17. Copying'
  <2>1. reading' = << >> /\ Len(reading') = 0
    BY DEF Take
  <2>2. SubSeq(queue', 1, 0) = << >>
    <3>1. PICK S : queue' \in Seq(S)
      BY <1>11 DEF IsSeq
    <3> QED BY <3>1
  <2> QED BY <1>11, <2>1, <2>2 DEF Copying
<1>18. Storing'
  <2>0. n < RingFrames \/ ~stored
    BY <1>3 DEF RingInv, Storing
  <2>1. n - k < RingFrames \/ ~stored
    BY <2>0, RingConstants
  <2> QED BY <1>1, <1>10, <1>11, <2>1 DEF Take, RingInv, Storing
<1> QED BY <1>14, <1>15, <1>16, <1>17, <1>18 DEF RingInv

LEMMA RingStep ==
    ASSUME RingInv, [AudioNext]_audio_vars
    PROVE  RingInv'
<1>1. CASE cdi_audio_reset
  <2>1. audio' = [AudioReset EXCEPT !.ring = audio.ring]
    BY <1>1 DEF cdi_audio_reset
  <2>2. /\ DOMAIN audio' = AudioFields /\ DOMAIN audio'.ring = 0 .. RingFrames - 1
        /\ audio'.write_index = 0 /\ audio'.read_index = 0
    BY <2>1 DEF AudioReset, AudioFields, RingInv, RingTypes
  <2>3. queue' = << >> /\ reading' = << >> /\ stored' = FALSE
    BY <1>1 DEF cdi_audio_reset, RingInv, RingTypes
  <2> QED BY <2>2, <2>3, EmptyRing
<1>2. ASSUME NEW sector \in AudioSectors, decode_groups(sector)
      PROVE  RingInv'
  <2>1. PICK d : audio' = [audio EXCEPT !.previous = d]
    BY <1>2 DEF decode_groups
  <2>2. /\ DOMAIN audio' = AudioFields /\ audio'.ring = audio.ring
        /\ audio'.write_index = audio.write_index /\ audio'.read_index = audio.read_index
    BY <2>1 DEF AudioFields, RingInv, RingTypes
  <2>3. emitting = << >> /\ UNCHANGED <<queue, reading, stored>>
    BY <1>2 DEF decode_groups
  <2>4. ~stored
    BY <2>3 DEF RingInv, Storing
  <2> QED BY <2>2, <2>3, <2>4, SameRing
<1>3. CASE Drop
  <2>1. /\ DOMAIN audio' = AudioFields /\ audio'.ring = audio.ring
        /\ audio'.write_index = audio.write_index /\ audio'.read_index = audio.read_index
    BY <1>3 DEF Drop, AudioFields, RingInv, RingTypes
  <2>2. ~stored /\ UNCHANGED <<queue, reading, stored>>
    BY <1>3 DEF Drop
  <2> QED BY <2>1, <2>2, SameRing
<1>4. CASE UNCHANGED audio_vars
  <2>1. /\ DOMAIN audio' = AudioFields /\ audio'.ring = audio.ring
        /\ audio'.write_index = audio.write_index /\ audio'.read_index = audio.read_index
    BY <1>4 DEF audio_vars, RingInv, RingTypes
  <2>2. emitting' = emitting /\ UNCHANGED <<queue, reading, stored>>
    BY <1>4 DEF audio_vars
  <2> QED BY <2>1, <2>2, SameRing
<1> QED BY <1>1, <1>2, <1>3, <1>4, PutKeeps, PublishKeeps, LookKeeps, TakeKeeps DEF AudioNext

(* cdi_audio.c, emit_frame and cdi_audio_read_frames: the frames between   *)
(* the two indices are those emitted and neither dropped nor read, in      *)
(* order, for a ring of any length, indices of any width that is a         *)
(* multiple of it, sectors of any contents and reads of any size, with     *)
(* decoder and front end interleaved step by step.                         *)
THEOREM RingInOrder == AudioSpec => []FramesInOrder
<1>1. AudioInit => RingInv
  <2> SUFFICES ASSUME AudioInit PROVE RingInv
    OBVIOUS
  <2>1. Len(queue) = 0 /\ Len(reading) = 0 /\ IsSeq(queue)
    BY DEF AudioInit, IsSeq
  <2>2. RingTypes /\ audio.write_index = 0 /\ audio.read_index = 0
    <3>1. 0 \in 0 .. IndexTop - 1
      BY RingConstants
    <3>2. /\ DOMAIN audio = AudioFields /\ DOMAIN audio.ring = 0 .. RingFrames - 1
          /\ audio.write_index = 0 /\ audio.read_index = 0
      BY DEF AudioInit, AudioReset, AudioFields
    <3>3. stored \in BOOLEAN
      BY DEF AudioInit
    <3> QED BY <2>1, <3>1, <3>2, <3>3, Zenon DEF RingTypes
  <2>3. Distance(0, 0) = 0
    BY DistanceIs, RingConstants
  <2>4. Counted
    BY <2>1, <2>2, <2>3, RingConstants DEF Counted
  <2>5. \A i \in 1 .. Len(queue) : FALSE
    BY <2>1
  <2>6. InSlots
    BY <2>5 DEF InSlots
  <2>7. Copying
    BY <2>1 DEF AudioInit, Copying
  <2> QED BY <2>2, <2>4, <2>6, <2>7 DEF AudioInit, RingInv, Storing
<1>2. RingInv /\ [AudioNext]_audio_vars => RingInv'
  BY RingStep
<1>3. RingInv => FramesInOrder
  <2> SUFFICES ASSUME RingInv PROVE FramesInOrder
    OBVIOUS
  <2>1. DOMAIN queue = 1 .. Len(queue)
    BY DEF RingInv, RingTypes, IsSeq
  <2> QED BY <2>1 DEF RingInv, Counted, InSlots, Copying, FramesInOrder
<1> QED BY <1>1, <1>2, <1>3, PTL DEF AudioSpec

(***************************************************************************)
(* The burst of DMA channel 1: what has been moved after any number of     *)
(* words, by induction over them.                                          *)
(***************************************************************************)
\* A word says where it comes from.
DmaWords == {"aperture", "ram", "control"} \X Nat
ControlWords == [start : BOOLEAN, to_memory : BOOLEAN, offset : 0 .. ApertureWords - 1]
Channels ==
  [mtc : Nat, mar : Nat, active : BOOLEAN, complete : BOOLEAN, enabled : BOOLEAN,
   control : ControlWords, aperture : [0 .. ApertureWords - 1 -> DmaWords],
   ram : [0 .. RamEnd - 1 -> DmaWords], begun : Nat, done : Nat, asked : [mar : Nat, words : Nat]]

\* The channel is programmed as the driver last asked: a burst that a bus error
\* cut short has left the address and the counter alone.
DmaInv == dma \in Channels /\ dma.asked = [mar |-> dma.mar, words |-> dma.mtc]

\* The words moved, one function over a burst of n words.
IsBurst(d, n, f) ==
  f = [k \in 0 .. n |-> IF k = 0 THEN [fault |-> FALSE, state |-> [d EXCEPT !.active = TRUE]]
                        ELSE Transferred(f[k - 1], d.mar + k - 1)]

\* The recursion of periph_ciap_dma_request's loop has a solution, of any length.
LEMMA BurstExists ==
  ASSUME NEW d, NEW m \in Nat
  PROVE  \E f : IsBurst(d, m, f)
<1> DEFINE G == {n \in Nat : \E f : IsBurst(d, n, f)}
<1> DEFINE begin == [fault |-> FALSE, state |-> [d EXCEPT !.active = TRUE]]
<1>1. 0 \in G
  <2>1. PICK f : f = [k \in 0 .. 0 |-> begin]
    OBVIOUS
  <2>2. f = [k \in 0 .. 0 |-> IF k = 0 THEN begin ELSE Transferred(f[k - 1], d.mar + k - 1)]
    <3> HIDE DEF begin
    <3> QED BY <2>1
  <2>3. IsBurst(d, 0, f)
    BY <2>2 DEF IsBurst
  <2> QED BY <2>3
<1>2. ASSUME NEW n \in Nat, n \in G PROVE n + 1 \in G
  <2>1. PICK f : IsBurst(d, n, f)
    BY <1>2
  <2>2. PICK t : t = Transferred(f[n], d.mar + (n + 1) - 1)
    OBVIOUS
  <2>3. PICK g : g = [k \in 0 .. n + 1 |-> IF k = n + 1 THEN t ELSE f[k]]
    OBVIOUS
  <2>4. \A k \in 0 .. n : f[k] = IF k = 0 THEN begin ELSE Transferred(f[k - 1], d.mar + k - 1)
    <3>1. PICK e : e = 0 .. n
      OBVIOUS
    <3>2. f = [k \in e |-> IF k = 0 THEN begin ELSE Transferred(f[k - 1], d.mar + k - 1)]
      BY <2>1, <3>1 DEF IsBurst
    <3> HIDE DEF begin
    <3> QED BY <3>1, <3>2
  <2>5. ASSUME NEW k \in 0 .. n + 1
        PROVE  g[k] = IF k = 0 THEN begin ELSE Transferred(g[k - 1], d.mar + k - 1)
    <3> HIDE DEF begin
    <3>1. CASE k = n + 1
      <4>1. k # 0 /\ k - 1 = n /\ k - 1 \in 0 .. n + 1 /\ k - 1 # n + 1
        BY <3>1
      <4>2. g[k] = t /\ g[k - 1] = f[n]
        BY <2>3, <3>1, <4>1
      <4> QED BY <2>2, <3>1, <4>1, <4>2
    <3>2. CASE k # n + 1
      <4>1. k \in 0 .. n /\ (k # 0 => k - 1 \in 0 .. n + 1 /\ k - 1 # n + 1)
        BY <3>2
      <4>2. g[k] = f[k] /\ (k # 0 => g[k - 1] = f[k - 1])
        BY <2>3, <3>2, <4>1
      <4> QED BY <2>4, <4>1, <4>2
    <3> QED BY <3>1, <3>2
  <2>6. g = [k \in 0 .. n + 1 |-> IF k = 0 THEN begin ELSE Transferred(g[k - 1], d.mar + k - 1)]
    <3> HIDE DEF begin
    <3> QED BY <2>3, <2>5
  <2>7. IsBurst(d, n + 1, g)
    BY <2>6 DEF IsBurst
  <2> QED BY <2>7
<1>3. m \in G
  <2> HIDE DEF G
  <2> QED BY <1>1, <1>2, AllNumbers
<1> QED BY <1>3

LEMMA BurstIs ==
  ASSUME NEW d, d.mtc \in Nat
  PROVE  \E f : IsBurst(d, d.mtc, f) /\ Burst(d) = f[d.mtc]
<1> DEFINE after == CHOOSE f : IsBurst(d, d.mtc, f)
<1>1. IsBurst(d, d.mtc, after)
  BY BurstExists, Zenon
<1>2. Burst(d) = after[d.mtc]
  BY DEF Burst, IsBurst
<1> QED BY <1>1, <1>2

Bursts == [fault : BOOLEAN, state : Channels]

\* What the loop does not touch before its end.
Keeps(d, s) ==
  /\ s.state.mtc = d.mtc /\ s.state.mar = d.mar /\ s.state.done = d.done
  /\ s.state.asked = d.asked /\ s.state.control.to_memory = d.control.to_memory

Passed(d, j) == (d.control.offset + j) % ApertureWords

\* After k words without a bus error: the block filled in RAM, ...
Filled(d, k, s) ==
  /\ s.state.aperture = d.aperture
  /\ \A j \in 0 .. k - 1 :
       /\ d.mar + j < RamEnd
       /\ Passed(d, j) # Dmactl => s.state.ram[d.mar + j] = d.aperture[Passed(d, j)]
  /\ \A a \in 0 .. RamEnd - 1 : a < d.mar \/ a >= d.mar + k => s.state.ram[a] = d.ram[a]

\* ... or in the aperture, where a long burst comes round.
Drained(d, k, s) ==
  /\ s.state.ram = d.ram
  /\ \A j \in 0 .. k - 1 : d.mar + j < RamEnd
  /\ \A i \in (0 .. ApertureWords - 1) \ {Dmactl} :
       /\ \A j \in 0 .. k - 1 : Passed(d, j) = i /\ j + ApertureWords >= k
                               => s.state.aperture[i] = d.ram[d.mar + j]
       /\ \/ \E j \in 0 .. k - 1 : Passed(d, j) = i /\ j + ApertureWords >= k
          \/ s.state.aperture[i] = d.aperture[i]

MovedSoFar(d, k, s) ==
  /\ s \in Bursts /\ Keeps(d, s)
  /\ ~s.fault => /\ s.state.control.offset = Passed(d, k)
                 /\ IF d.control.to_memory THEN Filled(d, k, s) ELSE Drained(d, k, s)

LEMMA PassedType ==
  ASSUME NEW d \in Channels, NEW j \in Nat
  PROVE  Passed(d, j) \in 0 .. ApertureWords - 1
<1>1. d.control.offset \in Int
  BY DmaAssumption DEF Channels, ControlWords
<1>2. d.control.offset + j \in Int
  BY <1>1
<1> QED BY <1>2, DmaAssumption, RemainderDef DEF Passed

LEMMA PassedZero ==
  ASSUME NEW d \in Channels
  PROVE  Passed(d, 0) = d.control.offset
<1>1. d.control.offset \in 0 .. ApertureWords - 1
  BY DmaAssumption DEF Channels, ControlWords
<1>2. PICK w \in Nat \ {0} : w = ApertureWords
  BY DmaAssumption
<1>3. PICK x \in Int : x = d.control.offset + 0 /\ x = d.control.offset /\ 0 <= x /\ x < w
  BY <1>1, <1>2
<1>4. x % w = x
  BY <1>3, RemainderWraps
<1> QED BY <1>2, <1>3, <1>4 DEF Passed

\* The offset moves on by one and wraps.
LEMMA PassedNext ==
  ASSUME NEW d \in Channels, NEW j \in Nat
  PROVE  (Passed(d, j) + 1) % ApertureWords = Passed(d, j + 1)
<1>1. PICK x \in Int : x = d.control.offset + j
  BY DmaAssumption DEF Channels, ControlWords
<1>2. PICK w \in Nat \ {0} : w = ApertureWords
  BY DmaAssumption
<1>3. PICK q \in Int : q = x \div w
  BY <1>1, <1>2, RemainderDef
<1>4. PICK r \in 0 .. w - 1 : r = x % w
  BY <1>1, <1>2, RemainderDef
<1>5. x = w * q + r
  BY <1>3, <1>4, RemainderDef
<1>6. PICK y \in Int : y = r + 1
  OBVIOUS
<1>7. x + 1 = y + w * q
  BY <1>5, <1>6
<1>8. (y + w * q) % w = y % w
  BY RemainderShift
<1>9. d.control.offset + (j + 1) = x + 1
  BY <1>1, DmaAssumption DEF Channels, ControlWords
<1>10. Passed(d, j) = r
  BY <1>1, <1>2, <1>4 DEF Passed
<1>11. Passed(d, j + 1) = (y + w * q) % w
  BY <1>2, <1>7, <1>9 DEF Passed
<1> QED BY <1>2, <1>6, <1>8, <1>10, <1>11

\* Within one turn every word of the aperture is passed once.
LEMMA PassedOnce ==
  ASSUME NEW d \in Channels, NEW j \in Nat, NEW k \in Nat, j < k, k < j + ApertureWords
  PROVE  Passed(d, j) # Passed(d, k)
<1>1. PICK x \in Int : x = d.control.offset + j
  BY DmaAssumption DEF Channels, ControlWords
<1>2. PICK y \in Int : y = d.control.offset + k
  BY DmaAssumption DEF Channels, ControlWords
<1>3. x < y /\ y < x + ApertureWords
  BY <1>1, <1>2, DmaAssumption DEF Channels, ControlWords
<1> QED BY <1>1, <1>2, <1>3, DmaAssumption, RemainderApart DEF Passed

LEMMA PassedAgain ==
  ASSUME NEW d \in Channels, NEW j \in Nat
  PROVE  Passed(d, j + ApertureWords) = Passed(d, j)
<1>1. PICK x \in Int : x = d.control.offset + j
  BY DmaAssumption DEF Channels, ControlWords
<1>2. PICK w \in Nat \ {0} : w = ApertureWords
  BY DmaAssumption
<1>3. PICK e \in Int : e = 1
  OBVIOUS
<1>4. d.control.offset + (j + ApertureWords) = x + w * e
  BY <1>1, <1>2, <1>3, DmaAssumption DEF Channels, ControlWords
<1>5. (x + w * e) % w = x % w
  BY RemainderShift
<1> QED BY <1>1, <1>2, <1>4, <1>5 DEF Passed

LEMMA BurstBegins ==
  ASSUME NEW d \in Channels
  PROVE  MovedSoFar(d, 0, [fault |-> FALSE, state |-> [d EXCEPT !.active = TRUE]])
<1>1. PICK s : s = [fault |-> FALSE, state |-> [d EXCEPT !.active = TRUE]]
  OBVIOUS
<1>2. s \in Bursts /\ ~s.fault
  BY <1>1 DEF Bursts, Channels
<1>3. Keeps(d, s)
  BY <1>1 DEF Keeps, Channels
<1>4. s.state.control.offset = Passed(d, 0)
  BY <1>1, PassedZero DEF Channels
<1>5. Filled(d, 0, s)
  BY <1>1 DEF Filled, Channels
<1>6. Drained(d, 0, s)
  BY <1>1 DEF Drained, Channels
<1> QED BY <1>1, <1>2, <1>3, <1>4, <1>5, <1>6 DEF MovedSoFar

LEMMA AdvancedIs ==
  ASSUME NEW c \in ControlWords
  PROVE  /\ Advanced(c) \in ControlWords /\ Advanced(c).to_memory = c.to_memory
         /\ Advanced(c).offset = (c.offset + 1) % ApertureWords
<1>1. c.offset + 1 \in Int /\ ApertureWords \in Nat \ {0}
  BY DmaAssumption DEF ControlWords
<1>2. (c.offset + 1) % ApertureWords \in 0 .. ApertureWords - 1
  BY <1>1, RemainderDef
<1> QED BY <1>2 DEF Advanced, ControlWords

\* A word pulled into RAM: the offset moves on, and one word of RAM changes.
LEMMA PullStep ==
  ASSUME NEW d \in Channels, NEW k \in Nat, NEW s, MovedSoFar(d, k, s), ~s.fault,
         s.state.control.to_memory
  PROVE  MovedSoFar(d, k + 1, Transferred(s, d.mar + k))
<1>1. PICK c \in Channels : c = s.state
  BY DEF MovedSoFar, Bursts
<1>2. PICK a \in Nat : a = d.mar + k
  BY DEF Channels
<1>3. PICK o \in 0 .. ApertureWords - 1 : o = c.control.offset /\ o = Passed(d, k)
  BY <1>1, PassedType DEF MovedSoFar
<1>4. PICK g \in ControlWords : /\ g = Advanced(c.control) /\ g.to_memory = c.control.to_memory
                               /\ g.offset = Passed(d, k + 1)
  <2>1. c.control \in ControlWords
    BY DEF Channels
  <2>2. (o + 1) % ApertureWords = Passed(d, k + 1)
    BY <1>3, PassedNext
  <2> QED BY <1>3, <2>1, <2>2, AdvancedIs
<1>5. PICK m \in Channels : /\ m = [c EXCEPT !.control = g]
                            /\ m.mtc = c.mtc /\ m.mar = c.mar /\ m.done = c.done
                            /\ m.asked = c.asked /\ m.aperture = c.aperture /\ m.ram = c.ram
                            /\ m.control = g
  <2>1. PICK m : m = [c EXCEPT !.control = g]
    OBVIOUS
  <2>2. m \in Channels
    BY <2>1 DEF Channels
  <2>3. /\ m.mtc = c.mtc /\ m.mar = c.mar /\ m.done = c.done
        /\ m.asked = c.asked /\ m.aperture = c.aperture /\ m.ram = c.ram /\ m.control = g
    BY <2>1 DEF Channels
  <2> QED BY <2>1, <2>2, <2>3
<1>6. PICK v \in DmaWords : /\ v = ApertureWord(m, o)
                            /\ o # Dmactl => v = c.aperture[o]
  <2>1. m.control.offset \in Nat
    BY <1>4, <1>5, DmaAssumption DEF ControlWords
  <2>2. <<"control", m.control.offset>> \in DmaWords
    BY <2>1 DEF DmaWords
  <2>3. c.aperture[o] \in DmaWords
    BY DEF Channels
  <2> QED BY <1>5, <2>2, <2>3 DEF ApertureWord
<1>7. cdic_dma_pull_word(c) = [after |-> m, word |-> v]
  BY <1>3, <1>4, <1>5, <1>6 DEF cdic_dma_pull_word
<1>8. Keeps(d, s) /\ Filled(d, k, s) /\ d.control.to_memory
  BY DEF MovedSoFar, Keeps
<1>9. CASE a < RamEnd
  <2>0. a \in 0 .. RamEnd - 1 /\ c.ram \in [0 .. RamEnd - 1 -> DmaWords] /\ d.mar \in Nat
    BY <1>9, DmaAssumption DEF Channels
  <2>10. PICK n \in [0 .. RamEnd - 1 -> DmaWords] :
            /\ n = [c.ram EXCEPT ![a] = v] /\ n[a] = v
            /\ \A b \in 0 .. RamEnd - 1 : b # a => n[b] = c.ram[b]
    <3>1. [c.ram EXCEPT ![a] = v] \in [0 .. RamEnd - 1 -> DmaWords]
      BY <2>0
    <3> QED BY <2>0, <3>1
  <2>1. PICK u \in Channels : /\ u = [m EXCEPT !.ram[a] = v]
                              /\ u.mtc = c.mtc /\ u.mar = c.mar /\ u.done = c.done
                              /\ u.asked = c.asked /\ u.aperture = c.aperture /\ u.control = g
                              /\ u.ram = n
    <3>1. PICK u : u = [m EXCEPT !.ram = n]
      OBVIOUS
    <3>2. u \in Channels
      BY <3>1 DEF Channels
    <3>3. /\ u.mtc = m.mtc /\ u.mar = m.mar /\ u.done = m.done /\ u.asked = m.asked
          /\ u.aperture = m.aperture /\ u.control = m.control /\ u.ram = n
      BY <3>1 DEF Channels
    <3>4. n = [m.ram EXCEPT ![a] = v]
      BY <1>5, <2>10
    <3>5. u = [m EXCEPT !.ram[a] = v]
      BY <3>1, <3>4
    <3> QED BY <1>5, <3>2, <3>3, <3>5
  <2>2. PICK t : t = [fault |-> FALSE, state |-> u]
    OBVIOUS
  <2>3. Transferred(s, a) = t
    <3>1. s = [fault |-> FALSE, state |-> c]
      BY <1>1 DEF MovedSoFar, Bursts
    <3>2. c.control.to_memory
      BY <1>1
    <3>3. ~s.fault /\ s.state = c /\ a < RamEnd
      BY <1>9, <3>1
    <3>4. Transferred(s, a) = [s EXCEPT !.state = [m EXCEPT !.ram[a] = v]]
      <4>1. PICK p : p = cdic_dma_pull_word(c) /\ p.after = m /\ p.word = v
        BY <1>7
      <4>2. s.state.control.to_memory
        OBVIOUS
      <4>3. Transferred(s, a) = [s EXCEPT !.state = [p.after EXCEPT !.ram[a] = p.word]]
        <5>1. /\ s.fault = FALSE /\ s.state.control.to_memory = TRUE
              /\ (a < RamEnd) = TRUE /\ (a >= RamEnd) = FALSE
          BY <1>1, <3>3, <4>2, DmaAssumption DEF Channels, ControlWords
        <5> QED BY <3>3, <4>1, <5>1, Zenon DEF Transferred
      <4> QED BY <4>1, <4>3
    <3> QED BY <2>1, <2>2, <3>1, <3>4
  <2>4. t \in Bursts /\ ~t.fault
    BY <2>2 DEF Bursts
  <2>5. Keeps(d, t)
    BY <1>1, <1>4, <1>8, <2>1, <2>2 DEF Keeps
  <2>6. Filled(d, k + 1, t)
    <3>1. t.state.aperture = d.aperture
      BY <1>1, <1>8, <2>1, <2>2 DEF Filled
    <3>2. ASSUME NEW j \in 0 .. k
          PROVE  /\ d.mar + j < RamEnd
                 /\ Passed(d, j) # Dmactl => t.state.ram[d.mar + j] = d.aperture[Passed(d, j)]
      <4>1. CASE j = k
        <5>1. t.state.ram[a] = v
          BY <2>1, <2>2, <2>10
        <5> QED BY <1>1, <1>2, <1>3, <1>6, <1>8, <1>9, <4>1, <5>1 DEF Filled
      <4>2. CASE j # k
        <5>1. PICK b \in Nat : b = d.mar + j /\ b # a /\ j \in 0 .. k - 1
          BY <1>2, <2>0, <4>2
        <5>2. b < RamEnd /\ (Passed(d, j) # Dmactl => c.ram[b] = d.aperture[Passed(d, j)])
          BY <1>1, <1>8, <5>1 DEF Filled
        <5>3. b \in 0 .. RamEnd - 1
          BY <5>2, DmaAssumption
        <5>4. t.state.ram[b] = c.ram[b]
          BY <2>1, <2>2, <2>10, <5>1, <5>3
        <5> QED BY <5>1, <5>2, <5>4
      <4> QED BY <4>1, <4>2
    <3>3. ASSUME NEW b \in 0 .. RamEnd - 1, b < d.mar \/ b >= d.mar + (k + 1)
          PROVE  t.state.ram[b] = d.ram[b]
      <4>1. b # a /\ (b < d.mar \/ b >= d.mar + k)
        BY <1>2, <2>0, <3>3, DmaAssumption
      <4>2. c.ram[b] = d.ram[b]
        BY <1>1, <1>8, <4>1 DEF Filled
      <4> QED BY <2>1, <2>2, <2>10, <4>1, <4>2
    <3>4. (k + 1) - 1 = k
      OBVIOUS
    <3> QED BY <3>1, <3>2, <3>3, <3>4 DEF Filled
  <2>7. t.state.control.offset = Passed(d, k + 1)
    BY <1>4, <2>1, <2>2
  <2> QED BY <1>2, <1>8, <2>3, <2>4, <2>5, <2>6, <2>7 DEF MovedSoFar
<1>10. CASE ~(a < RamEnd)
  <2>1. PICK t : t = [fault |-> TRUE, state |-> m]
    OBVIOUS
  <2>2. a >= RamEnd
    BY <1>10, DmaAssumption
  <2>3. Transferred(s, a) = t
    BY <1>1, <1>7, <1>10, <2>1, <2>2 DEF Transferred
  <2>4. t \in Bursts /\ t.fault
    BY <2>1 DEF Bursts
  <2>5. Keeps(d, t)
    BY <1>1, <1>4, <1>5, <1>8, <2>1 DEF Keeps
  <2> QED BY <1>2, <2>3, <2>4, <2>5 DEF MovedSoFar
<1> QED BY <1>9, <1>10

\* A word pushed into the aperture: it replaces the one of the turn before.
LEMMA PushStep ==
  ASSUME NEW d \in Channels, NEW k \in Nat, NEW s, MovedSoFar(d, k, s), ~s.fault,
         ~s.state.control.to_memory
  PROVE  MovedSoFar(d, k + 1, Transferred(s, d.mar + k))
<1>1. PICK c \in Channels : c = s.state
  BY DEF MovedSoFar, Bursts
<1>2. PICK a \in Nat : a = d.mar + k
  BY DEF Channels
<1>3. PICK o \in 0 .. ApertureWords - 1 : o = c.control.offset /\ o = Passed(d, k)
  BY <1>1, PassedType DEF MovedSoFar
<1>4. PICK g \in ControlWords : /\ g = Advanced(c.control) /\ g.to_memory = c.control.to_memory
                               /\ g.offset = Passed(d, k + 1)
  <2>1. c.control \in ControlWords
    BY DEF Channels
  <2>2. (o + 1) % ApertureWords = Passed(d, k + 1)
    BY <1>3, PassedNext
  <2> QED BY <1>3, <2>1, <2>2, AdvancedIs
<1>5. Keeps(d, s) /\ Drained(d, k, s) /\ ~d.control.to_memory
  BY DEF MovedSoFar, Keeps
<1>6. s = [fault |-> FALSE, state |-> c]
  BY <1>1 DEF MovedSoFar, Bursts
<1>7. CASE ~(a < RamEnd)
  <2>1. PICK t : t = [s EXCEPT !.fault = TRUE]
    OBVIOUS
  <2>2. Transferred(s, a) = t
    <3>1. ~s.state.control.to_memory /\ ~(a < RamEnd)
      BY <1>7
    <3> QED BY <2>1, <3>1 DEF Transferred
  <2>3. t \in Bursts /\ t.fault /\ t.state = c
    BY <1>6, <2>1 DEF Bursts
  <2>4. Keeps(d, t)
    BY <1>1, <1>5, <2>3 DEF Keeps
  <2> QED BY <1>2, <2>2, <2>3, <2>4 DEF MovedSoFar
<1>8. CASE a < RamEnd
  <2>0. c.ram = d.ram /\ c.aperture \in [0 .. ApertureWords - 1 -> DmaWords] /\ d.mar \in Nat
    BY <1>1, <1>5 DEF Drained, Channels
  <2>1. PICK v \in DmaWords : v = c.ram[a] /\ v = d.ram[a]
    <3>1. a \in 0 .. RamEnd - 1
      BY <1>8, DmaAssumption
    <3> QED BY <2>0, <3>1 DEF Channels
  <2>2. PICK p \in [0 .. ApertureWords - 1 -> DmaWords] :
           /\ p = IF o = Dmactl THEN c.aperture ELSE [c.aperture EXCEPT ![o] = v]
           /\ o # Dmactl => p[o] = v
           /\ \A i \in 0 .. ApertureWords - 1 : i # o => p[i] = c.aperture[i]
    <3>1. [c.aperture EXCEPT ![o] = v] \in [0 .. ApertureWords - 1 -> DmaWords]
      BY <2>0
    <3> QED BY <2>0, <3>1
  <2>3. PICK u \in Channels : /\ u = cdic_dma_push_word(c, v)
                              /\ u.mtc = c.mtc /\ u.mar = c.mar /\ u.done = c.done
                              /\ u.asked = c.asked /\ u.ram = c.ram /\ u.control = g
                              /\ u.aperture = p
    <3>1. PICK u \in Channels : /\ u = [c EXCEPT !.aperture = p, !.control = g]
                                /\ u.mtc = c.mtc /\ u.mar = c.mar /\ u.done = c.done
                                /\ u.asked = c.asked /\ u.ram = c.ram /\ u.control = g
                                /\ u.aperture = p
      <4>1. PICK u : u = [c EXCEPT !.aperture = p, !.control = g]
        OBVIOUS
      <4>2. u \in Channels
        BY <4>1 DEF Channels
      <4>3. /\ u.mtc = c.mtc /\ u.mar = c.mar /\ u.done = c.done
            /\ u.asked = c.asked /\ u.ram = c.ram /\ u.control = g /\ u.aperture = p
        BY <4>1 DEF Channels
      <4> QED BY <4>1, <4>2, <4>3
    <3>2. CASE o = Dmactl
      <4>1. cdic_dma_push_word(c, v) = [c EXCEPT !.control = g]
        BY <1>3, <1>4, <3>2 DEF cdic_dma_push_word
      <4>2. [c EXCEPT !.control = g] = [c EXCEPT !.aperture = p, !.control = g]
        BY <2>2, <3>2 DEF Channels
      <4> QED BY <3>1, <4>1, <4>2
    <3>3. CASE o # Dmactl
      <4>1. p = [c.aperture EXCEPT ![o] = v]
        BY <2>2, <3>3
      <4>2. cdic_dma_push_word(c, v) = [c EXCEPT !.aperture = p, !.control = g]
        BY <1>3, <1>4, <3>3, <4>1 DEF cdic_dma_push_word
      <4> QED BY <3>1, <4>2
    <3> QED BY <3>2, <3>3
  <2>4. PICK t : t = [fault |-> FALSE, state |-> u]
    OBVIOUS
  <2>5. Transferred(s, a) = t
    <3>1. ~c.control.to_memory
      BY <1>1
    <3> QED BY <1>6, <1>8, <2>1, <2>3, <2>4, <3>1 DEF Transferred
  <2>6. t \in Bursts /\ ~t.fault
    BY <2>4 DEF Bursts
  <2>7. Keeps(d, t)
    BY <1>1, <1>4, <1>5, <2>3, <2>4 DEF Keeps
  <2>8. Drained(d, k + 1, t)
    <3>1. t.state.ram = d.ram
      BY <2>0, <2>3, <2>4
    <3>2. ASSUME NEW j \in 0 .. k PROVE d.mar + j < RamEnd
      BY <1>2, <1>5, <1>8, <2>0 DEF Drained
    <3>3. ASSUME NEW i \in (0 .. ApertureWords - 1) \ {Dmactl},
                 NEW j \in 0 .. k, Passed(d, j) = i, j + ApertureWords >= k + 1
          PROVE  t.state.aperture[i] = d.ram[d.mar + j]
      <4>1. CASE j = k
        <5>1. i = o
          BY <1>3, <3>3, <4>1
        <5> QED BY <1>2, <2>1, <2>2, <2>3, <2>4, <3>3, <4>1, <5>1
      <4>2. CASE j # k
        <5>1. j \in Nat /\ j < k /\ k < j + ApertureWords /\ j \in 0 .. k - 1 /\ j + ApertureWords >= k
          BY <3>3, <4>2, DmaAssumption
        <5>2. i # o
          BY <1>3, <3>3, <5>1, PassedOnce
        <5>3. c.aperture[i] = d.ram[d.mar + j]
          BY <1>1, <1>5, <3>3, <5>1 DEF Drained
        <5> QED BY <2>2, <2>3, <2>4, <5>2, <5>3
      <4> QED BY <4>1, <4>2
    <3>4. ASSUME NEW i \in (0 .. ApertureWords - 1) \ {Dmactl}
          PROVE  \/ \E j \in 0 .. k : Passed(d, j) = i /\ j + ApertureWords >= k + 1
                 \/ t.state.aperture[i] = d.aperture[i]
      <4>1. CASE i = o
        <5>1. k \in 0 .. k /\ k + ApertureWords >= k + 1
          BY DmaAssumption
        <5> QED BY <1>3, <4>1, <5>1
      <4>2. CASE i # o
        <5>1. t.state.aperture[i] = c.aperture[i]
          BY <2>2, <2>3, <2>4, <4>2
        <5>2. CASE c.aperture[i] = d.aperture[i]
          BY <5>1, <5>2
        <5>3. CASE \E j \in 0 .. k - 1 : Passed(d, j) = i /\ j + ApertureWords >= k
          <6>1. PICK j \in 0 .. k - 1 : Passed(d, j) = i /\ j + ApertureWords >= k
            BY <5>3
          <6>2. CASE j + ApertureWords = k
            <7>1. Passed(d, k) = Passed(d, j)
              BY <6>2, PassedAgain
            <7> QED BY <1>3, <4>2, <6>1, <7>1
          <6>3. CASE j + ApertureWords # k
            <7>1. j \in 0 .. k /\ j + ApertureWords >= k + 1
              BY <6>1, <6>3, DmaAssumption
            <7> QED BY <6>1, <7>1
          <6> QED BY <6>2, <6>3
        <5> QED BY <1>1, <1>5, <5>2, <5>3 DEF Drained
      <4> QED BY <4>1, <4>2
    <3>5. (k + 1) - 1 = k
      OBVIOUS
    <3> QED BY <3>1, <3>2, <3>3, <3>4, <3>5 DEF Drained
  <2>9. t.state.control.offset = Passed(d, k + 1)
    BY <1>4, <2>3, <2>4
  <2> QED BY <1>2, <1>5, <2>5, <2>6, <2>7, <2>8, <2>9 DEF MovedSoFar
<1> QED BY <1>7, <1>8

LEMMA BurstSteps ==
  ASSUME NEW d \in Channels, NEW k \in Nat, NEW s, MovedSoFar(d, k, s)
  PROVE  MovedSoFar(d, k + 1, Transferred(s, d.mar + k))
<1>1. CASE s.fault
  <2>1. s.fault = TRUE
    BY <1>1 DEF MovedSoFar, Bursts
  <2>2. Transferred(s, d.mar + k) = s
    BY <2>1, Zenon DEF Transferred
  <2> QED BY <1>1, <2>2 DEF MovedSoFar
<1>2. CASE ~s.fault
  BY <1>2, PullStep, PushStep
<1> QED BY <1>1, <1>2

\* What the whole loop has moved, for bursts of any length.
LEMMA BurstMoves ==
  ASSUME NEW d \in Channels
  PROVE  MovedSoFar(d, d.mtc, Burst(d))
<1>1. d.mtc \in Nat /\ d.mar \in Nat
  BY DEF Channels
<1>2. PICK f : IsBurst(d, d.mtc, f) /\ Burst(d) = f[d.mtc]
  BY <1>1, BurstIs
<1> DEFINE begin == [fault |-> FALSE, state |-> [d EXCEPT !.active = TRUE]]
<1> DEFINE G == {n \in Nat : n <= d.mtc => MovedSoFar(d, n, f[n])}
<1>3. \A k \in 0 .. d.mtc : f[k] = IF k = 0 THEN begin ELSE Transferred(f[k - 1], d.mar + k - 1)
  <2>1. PICK e : e = 0 .. d.mtc
    OBVIOUS
  <2>2. f = [k \in e |-> IF k = 0 THEN begin ELSE Transferred(f[k - 1], d.mar + k - 1)]
    BY <1>2, <2>1 DEF IsBurst
  <2> HIDE DEF begin
  <2> QED BY <2>1, <2>2
<1>4. 0 \in G
  <2>1. MovedSoFar(d, 0, begin)
    BY BurstBegins
  <2> HIDE DEF begin
  <2>2. f[0] = begin
    BY <1>1, <1>3
  <2> QED BY <2>1, <2>2
<1>5. ASSUME NEW n \in Nat, n \in G PROVE n + 1 \in G
  <2> HIDE DEF begin
  <2>1. SUFFICES ASSUME n + 1 <= d.mtc PROVE MovedSoFar(d, n + 1, f[n + 1])
    OBVIOUS
  <2>2. n <= d.mtc /\ n + 1 \in 0 .. d.mtc /\ n + 1 # 0 /\ (n + 1) - 1 = n /\ d.mar + (n + 1) - 1 = d.mar + n
    BY <1>1, <2>1
  <2>3. MovedSoFar(d, n, f[n])
    BY <1>5, <2>2
  <2>4. f[n + 1] = Transferred(f[(n + 1) - 1], d.mar + (n + 1) - 1)
    BY <1>3, <2>2
  <2> QED BY <2>2, <2>3, <2>4, BurstSteps
<1>6. d.mtc \in G
  <2> HIDE DEF G
  <2> QED BY <1>1, <1>4, <1>5, AllNumbers
<1> QED BY <1>1, <1>2, <1>6

\* The offset a burst began at, told from the one it ended at.
LEMMA BeganAt ==
  ASSUME NEW d \in Channels, NEW n \in Nat
  PROVE  (Passed(d, n) + ApertureWords * n - n) % ApertureWords = d.control.offset
<1>1. PICK w \in Nat \ {0} : w = ApertureWords
  BY DmaAssumption
<1>2. PICK o \in 0 .. w - 1 : o = d.control.offset
  BY <1>1 DEF Channels, ControlWords
<1>3. PICK x \in Int : x = o + n
  OBVIOUS
<1>4. PICK q \in Int : q = x \div w
  BY RemainderDef
<1>5. PICK r \in 0 .. w - 1 : r = x % w
  BY RemainderDef
<1>6. x = w * q + r
  BY <1>4, <1>5, RemainderDef
<1>7. Passed(d, n) = r
  BY <1>1, <1>2, <1>3, <1>5 DEF Passed
<1>8. PICK k \in Int : k = n - q
  OBVIOUS
<1>9. w * k = w * n - w * q
  BY <1>8
<1>10. r + w * n - n = w * k + o /\ r + w * n - n \in Int
  BY <1>3, <1>6, <1>9
<1>11. (r + w * n - n) % w = o
  BY <1>10, RemainderUnique
<1> QED BY <1>1, <1>2, <1>7, <1>11

\* What the driver's store that starts a burst does to the channel.
LEMMA BlockMoved ==
  ASSUME NEW from \in Channels, from.asked = [mar |-> from.mar, words |-> from.mtc],
         NEW d \in Channels, d.mtc = from.mtc, d.mar = from.mar,
         d.aperture = from.aperture, d.ram = from.ram,
         NEW s, MovedSoFar(d, d.mtc, s), ~s.fault,
         NEW to \in Channels, to.aperture = s.state.aperture, to.ram = s.state.ram,
         to.control.offset = s.state.control.offset,
         to.control.to_memory = s.state.control.to_memory
  PROVE  MovesBlock(from, to)
<1>1. PICK n \in Nat : n = d.mtc
  BY DEF Channels
<1>2. from.asked.words = n /\ from.asked.mar = d.mar /\ d.mar \in Nat
  BY <1>1 DEF Channels
<1>3. to.control.offset = Passed(d, n)
  BY <1>1 DEF MovedSoFar
<1>4. PICK o \in 0 .. ApertureWords - 1 :
         o = d.control.offset /\ (to.control.offset + ApertureWords * n - n) % ApertureWords = o
  <2>1. d.control.offset \in 0 .. ApertureWords - 1
    BY DEF Channels, ControlWords
  <2>2. (Passed(d, n) + ApertureWords * n - n) % ApertureWords = d.control.offset
    BY BeganAt, Zenon
  <2>3. (to.control.offset + ApertureWords * n - n) % ApertureWords = d.control.offset
    BY <1>3, <2>2, Zenon
  <2> QED BY <2>1, <2>3, Zenon
<1>5. \A k : (o + k) % ApertureWords = Passed(d, k)
  BY <1>4 DEF Passed
<1>6. to.control.to_memory = d.control.to_memory
  BY DEF MovedSoFar, Keeps
<1>7. DOMAIN to.ram = 0 .. RamEnd - 1 /\ DOMAIN to.aperture = 0 .. ApertureWords - 1
  BY DEF Channels
<1>8. CASE d.control.to_memory
  <2>1. Filled(d, n, s)
    BY <1>1, <1>8 DEF MovedSoFar
  <2>2. ASSUME NEW k \in 0 .. n - 1, (o + k) % ApertureWords # Dmactl
        PROVE  to.ram[d.mar + k] = from.aperture[(o + k) % ApertureWords]
    <3>1. Passed(d, k) # Dmactl
      BY <1>5, <2>2
    <3>2. to.ram[d.mar + k] = from.aperture[Passed(d, k)]
      BY <2>1, <2>2, <3>1 DEF Filled
    <3> QED BY <1>5, <3>2
  <2>3. ASSUME NEW a \in 0 .. RamEnd - 1, a \notin {d.mar + k : k \in 0 .. n - 1}
        PROVE  to.ram[a] = from.ram[a]
    <3>1. a < d.mar \/ a >= d.mar + n
      <4>1. SUFFICES ASSUME a >= d.mar, a < d.mar + n PROVE FALSE
        BY <1>2, DmaAssumption
      <4>2. PICK k \in 0 .. n - 1 : a = d.mar + k
        <5>1. a - d.mar \in 0 .. n - 1 /\ a = d.mar + (a - d.mar)
          BY <1>2, <4>1, DmaAssumption
        <5> QED BY <5>1
      <4> QED BY <2>3, <4>2
    <3> QED BY <2>1, <3>1 DEF Filled
  <2> QED BY <1>2, <1>4, <1>6, <1>7, <1>8, <2>2, <2>3 DEF MovesBlock
<1>9. CASE ~d.control.to_memory
  <2>1. Drained(d, n, s)
    BY <1>1, <1>9 DEF MovedSoFar
  <2> DEFINE words == from.asked.words
             Offset(k) == (((to.control.offset + ApertureWords * words - words) % ApertureWords) + k)
                            % ApertureWords
             Last(i) == {k \in 0 .. words - 1 : Offset(k) = i /\ k + ApertureWords >= words}
  <2>2. ASSUME NEW i \in (0 .. ApertureWords - 1) \ {Dmactl}
        PROVE  IF Last(i) = {} THEN to.aperture[i] = from.aperture[i]
               ELSE \A k \in Last(i) : to.aperture[i] = from.ram[from.asked.mar + k]
    <3>1. PICK last : last = {k \in 0 .. n - 1 : Passed(d, k) = i /\ k + ApertureWords >= n}
      OBVIOUS
    <3>2. Last(i) = last
      <4>1. words = n
        BY <1>2
      <4>2. \A k : Offset(k) = Passed(d, k)
        BY <1>4, <1>5, <4>1
      <4> HIDE DEF words, Offset
      <4> QED BY <3>1, <4>1, <4>2
    <3> HIDE DEF Last
    <3>3. CASE last = {}
      <4>1. to.aperture[i] = from.aperture[i]
        BY <2>1, <3>1, <3>3 DEF Drained
      <4> QED BY <3>2, <3>3, <4>1
    <3>4. CASE last # {}
      <4>1. ASSUME NEW k \in last PROVE to.aperture[i] = from.ram[d.mar + k]
        BY <2>1, <3>1, <4>1 DEF Drained
      <4> QED BY <1>2, <3>2, <3>4, <4>1
    <3> QED BY <3>3, <3>4
  <2>3. ~to.control.to_memory
    BY <1>6, <1>9
  <2> QED BY <1>7, <2>2, <2>3, Zenon DEF MovesBlock
<1> QED BY <1>8, <1>9

LEMMA RequestMoves ==
  ASSUME NEW from \in Channels, from.asked = [mar |-> from.mar, words |-> from.mtc],
         NEW c \in ControlWords, NEW e, e = [from EXCEPT !.control = c],
         NEW to, to = periph_ciap_dma_request(e)
  PROVE  /\ to \in Channels /\ to.asked = [mar |-> to.mar, words |-> to.mtc]
         /\ to.done > from.done => MovesBlock(from, to)
<1>1. /\ e \in Channels /\ e.mtc = from.mtc /\ e.mar = from.mar /\ e.asked = from.asked
      /\ e.done = from.done /\ e.aperture = from.aperture /\ e.ram = from.ram
  BY DEF Channels
<1>2. CASE ~e.enabled
  <2>1. to = e
    BY <1>2 DEF periph_ciap_dma_request
  <2>2. from.done \in Nat
    BY DEF Channels
  <2>3. to.asked = [mar |-> to.mar, words |-> to.mtc]
    BY <1>1, <2>1
  <2>4. to.done = from.done
    BY <1>1, <2>1
  <2>5. ~(to.done > from.done)
    BY <2>2, <2>4
  <2> QED BY <1>1, <2>1, <2>3, <2>5
<1>3. CASE e.enabled
  <2>0. PICK b \in Nat : b = e.begun + 1
    BY <1>1 DEF Channels
  <2>1. PICK d : d = [e EXCEPT !.begun = b]
    OBVIOUS
  <2>2. d \in Channels
    BY <1>1, <2>1 DEF Channels
  <2>3. /\ d.mtc = from.mtc /\ d.mar = from.mar /\ d.asked = from.asked
        /\ d.done = from.done /\ d.aperture = from.aperture /\ d.ram = from.ram
    BY <1>1, <2>1 DEF Channels
  <2>4. PICK s : s = Burst(d)
    OBVIOUS
  <2>5. MovedSoFar(d, d.mtc, s)
    BY <2>2, <2>4, BurstMoves
  <2>6. PICK u \in Channels : /\ u = s.state /\ u.mtc = from.mtc /\ u.mar = from.mar
                              /\ u.done = from.done /\ u.asked = from.asked
    BY <2>3, <2>5 DEF MovedSoFar, Keeps, Bursts
  <2>7. to = IF s.fault THEN u ELSE Completed(u)
    BY <1>3, <2>0, <2>1, <2>4, <2>6 DEF periph_ciap_dma_request
  <2>8. CASE s.fault
    <3>1. from.done \in Nat
      BY DEF Channels
    <3> QED BY <2>6, <2>7, <2>8, <3>1
  <2>9. CASE ~s.fault
    <3>1. PICK m \in Nat : m = u.mar + u.mtc
      BY DEF Channels
    <3>2. PICK g \in ControlWords : /\ g = [u.control EXCEPT !.start = FALSE]
                                    /\ g.offset = u.control.offset
                                    /\ g.to_memory = u.control.to_memory
      <4>1. u.control \in ControlWords
        BY DEF Channels
      <4>2. PICK g : g = [u.control EXCEPT !.start = FALSE]
        OBVIOUS
      <4>3. g \in ControlWords /\ g.offset = u.control.offset /\ g.to_memory = u.control.to_memory
        BY <4>1, <4>2 DEF ControlWords
      <4> QED BY <4>2, <4>3
    <3>0. PICK f \in Nat : f = u.done + 1
      BY DEF Channels
    <3>7. PICK q \in [mar : Nat, words : Nat] : q = [mar |-> m, words |-> 0]
      OBVIOUS
    <3>3. to = [u EXCEPT !.mar = m, !.mtc = 0, !.active = FALSE, !.complete = TRUE,
                         !.enabled = FALSE, !.control = g, !.done = f, !.asked = q]
      BY <2>7, <2>9, <3>0, <3>1, <3>2, <3>7 DEF Completed
    <3>4. to \in Channels
      <4>1. PICK h : h = [u EXCEPT !.mar = m, !.mtc = 0, !.done = f]
        OBVIOUS
      <4>2. h \in Channels
        BY <4>1 DEF Channels
      <4>3. PICK i : i = [h EXCEPT !.control = g, !.asked = q]
        OBVIOUS
      <4>4. i \in Channels
        BY <4>2, <4>3 DEF Channels
      <4>5. to = [i EXCEPT !.active = FALSE, !.complete = TRUE, !.enabled = FALSE]
        BY <3>3, <4>1, <4>3 DEF Channels
      <4> QED BY <4>4, <4>5 DEF Channels
    <3>5. /\ to.mar = m /\ to.mtc = 0 /\ to.asked = [mar |-> m, words |-> 0]
          /\ to.aperture = u.aperture /\ to.ram = u.ram /\ to.control = g
      BY <3>3, <3>7 DEF Channels
    <3>6. MovesBlock(from, to)
      <4>1. /\ to.aperture = s.state.aperture /\ to.ram = s.state.ram
            /\ to.control.offset = s.state.control.offset
            /\ to.control.to_memory = s.state.control.to_memory
        BY <2>6, <3>2, <3>5
      <4> QED BY <2>2, <2>3, <2>5, <2>9, <3>4, <4>1, BlockMoved
    <3> QED BY <3>4, <3>5, <3>6
  <2> QED BY <2>8, <2>9
<1> QED BY <1>2, <1>3

LEMMA DmaStep ==
  ASSUME DmaInv, [DmaNext]_dma
  PROVE  DmaInv' /\ (dma'.done > dma.done => MovesBlock(dma, dma'))
<1>0. dma.done \in Nat /\ dma \in Channels /\ dma.asked = [mar |-> dma.mar, words |-> dma.mtc]
  BY DEF DmaInv, Channels
<1>1. ASSUME NEW start \in BOOLEAN, NEW to_memory \in BOOLEAN, NEW offset \in DmaOffsets,
             WriteDmactl(start, to_memory, offset)
      PROVE  DmaInv' /\ (dma'.done > dma.done => MovesBlock(dma, dma'))
  <2>1. PICK c \in ControlWords : c = [start |-> start, to_memory |-> to_memory, offset |-> offset]
    BY DmaAssumption DEF ControlWords
  <2>2. PICK e : e = [dma EXCEPT !.control = c]
    OBVIOUS
  <2>3. dma' = IF start THEN periph_ciap_dma_request(e) ELSE e
    BY <1>1, <2>1, <2>2 DEF WriteDmactl
  <2>4. CASE start
    <3>1. dma' = periph_ciap_dma_request(e)
      BY <2>3, <2>4
    <3>2. /\ dma' \in Channels /\ dma'.asked = [mar |-> dma'.mar, words |-> dma'.mtc]
          /\ dma'.done > dma.done => MovesBlock(dma, dma')
      BY <1>0, <2>2, <3>1, RequestMoves
    <3> QED BY <3>2 DEF DmaInv
  <2>5. CASE ~start
    <3>1. dma' = e
      BY <2>3, <2>5
    <3>2. dma' \in Channels
      BY <1>0, <2>2, <3>1 DEF Channels
    <3>3. /\ dma'.mar = dma.mar /\ dma'.mtc = dma.mtc /\ dma'.asked = dma.asked
          /\ dma'.done = dma.done
      BY <1>0, <2>2, <3>1 DEF Channels
    <3> QED BY <1>0, <3>2, <3>3 DEF DmaInv
  <2> QED BY <2>4, <2>5
<1>2. ASSUME NEW words \in DmaCounts, WriteMtc(words)
      PROVE  DmaInv' /\ dma'.done = dma.done
  <2>1. PICK q \in [mar : Nat, words : Nat] : q = [dma.asked EXCEPT !.words = words] /\ q.words = words /\ q.mar = dma.asked.mar
    <3>1. dma.asked \in [mar : Nat, words : Nat] /\ words \in Nat
      BY <1>0, DmaAssumption DEF Channels
    <3>2. PICK q : q = [dma.asked EXCEPT !.words = words]
      OBVIOUS
    <3>3. q \in [mar : Nat, words : Nat] /\ q.words = words /\ q.mar = dma.asked.mar
      BY <3>1, <3>2
    <3> QED BY <3>2, <3>3
  <2>2. dma' = [dma EXCEPT !.mtc = words, !.asked = q]
    BY <1>2, <2>1 DEF WriteMtc
  <2>3. dma' \in Channels
    BY <1>0, <2>2, DmaAssumption DEF Channels
  <2>4. /\ dma'.mtc = words /\ dma'.mar = dma.mar /\ dma'.asked = q /\ dma'.done = dma.done
    BY <1>0, <2>2 DEF Channels
  <2>5. dma'.asked = [mar |-> dma'.mar, words |-> dma'.mtc]
    BY <1>0, <2>1, <2>4
  <2> QED BY <2>3, <2>4, <2>5 DEF DmaInv
<1>3. ASSUME NEW mar \in DmaStarts, WriteMar(mar)
      PROVE  DmaInv' /\ dma'.done = dma.done
  <2>1. PICK q \in [mar : Nat, words : Nat] : q = [dma.asked EXCEPT !.mar = mar] /\ q.mar = mar /\ q.words = dma.asked.words
    <3>1. dma.asked \in [mar : Nat, words : Nat] /\ mar \in Nat
      BY <1>0, DmaAssumption DEF Channels
    <3>2. PICK q : q = [dma.asked EXCEPT !.mar = mar]
      OBVIOUS
    <3>3. q \in [mar : Nat, words : Nat] /\ q.mar = mar /\ q.words = dma.asked.words
      BY <3>1, <3>2
    <3> QED BY <3>2, <3>3
  <2>2. dma' = [dma EXCEPT !.mar = mar, !.asked = q]
    BY <1>3, <2>1 DEF WriteMar
  <2>3. dma' \in Channels
    BY <1>0, <2>2, DmaAssumption DEF Channels
  <2>4. /\ dma'.mar = mar /\ dma'.mtc = dma.mtc /\ dma'.asked = q /\ dma'.done = dma.done
    BY <1>0, <2>2 DEF Channels
  <2>5. dma'.asked = [mar |-> dma'.mar, words |-> dma'.mtc]
    BY <1>0, <2>1, <2>4
  <2> QED BY <2>3, <2>4, <2>5 DEF DmaInv
<1>4. ASSUME NEW enabled \in BOOLEAN, WriteCcr(enabled)
      PROVE  DmaInv' /\ dma'.done = dma.done
  BY <1>0, <1>4 DEF WriteCcr, DmaInv, Channels
<1>5. ASSUME WriteCsr PROVE DmaInv' /\ dma'.done = dma.done
  BY <1>0, <1>5 DEF WriteCsr, DmaInv, Channels
<1>6. ASSUME dma' = dma PROVE DmaInv' /\ dma'.done = dma.done
  BY <1>6 DEF DmaInv
<1> QED BY <1>0, <1>1, <1>2, <1>3, <1>4, <1>5, <1>6 DEF DmaNext

LEMMA DmaBegins == DmaInit => DmaInv
<1> SUFFICES ASSUME DmaInit PROVE DmaInv
  OBVIOUS
<1>1. [i \in 0 .. ApertureWords - 1 |-> <<"aperture", i>>] \in [0 .. ApertureWords - 1 -> DmaWords]
  BY DmaAssumption DEF DmaWords
<1>2. [a \in 0 .. RamEnd - 1 |-> <<"ram", a>>] \in [0 .. RamEnd - 1 -> DmaWords]
  BY DmaAssumption DEF DmaWords
<1>3. [start |-> FALSE, to_memory |-> FALSE, offset |-> 0] \in ControlWords
  BY DmaAssumption DEF ControlWords
<1> QED BY <1>1, <1>2, <1>3 DEF DmaInit, DmaInv, Channels

\* A burst that completes has moved the block the driver programmed, whole and in
\* order, and nothing else: for every length, also one that goes round the
\* aperture, runs over DMACTL or follows a burst that a bus error cut short.
THEOREM BlockMovesWhole == DmaSpec => DmaBlockWhole
<1>1. DmaInv /\ [DmaNext]_dma => DmaInv'
  BY DmaStep
<1>2. DmaInv /\ [DmaNext]_dma => [dma'.done > dma.done => MovesBlock(dma, dma')]_dma
  BY DmaStep
<1> QED BY <1>1, <1>2, DmaBegins, PTL DEF DmaSpec, DmaBlockWhole
=============================================================================
