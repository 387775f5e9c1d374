----------------------------- MODULE StreamClock ----------------------------
(***************************************************************************)
(* The deferred clock of CDI_STREAMING_HLE (cdic_increment_time,           *)
(* observe_streaming and cdi_streaming_quiet_quanta of runner/src/cdic.c). *)
(* Quanta are only added up until one reaches the nearest of the three     *)
(* events; every access to the device first brings the clocks up to date.  *)
(* The clocks of the device, which StreamTimers declares, lag behind by    *)
(* pending. The refinement says that nobody can tell.                      *)
(***************************************************************************)
EXTENDS StreamTimers

CONSTANT Never    \* UINT64_MAX, the deadline of an idle device

ASSUME NeverAssumption ==
  /\ Never \in Nat
  /\ Never > ApLatency /\ Never > SectorPeriod /\ \A d \in Durations : Never > d

VARIABLES
  pending,          \* pending_ns: time not yet given to the clocks
  deadline,         \* deadline_ns: the nearest event, on the lagging clocks
  deadline_valid,
  observed          \* an access has brought the clocks up to date and now acts

vars == <<timers, fired, pending, deadline, deadline_valid, observed>>

ClockInit ==
  /\ Init
  /\ pending = 0 /\ deadline = 0 /\ deadline_valid = FALSE /\ observed = FALSE

-----------------------------------------------------------------------------
\* The nearest event on the lagging clocks.
ApOrNever == IF ap_completion_pending THEN ap_completion_delay ELSE Never
AudioOr(limit) == IF audio_active /\ audio_remaining < limit THEN audio_remaining ELSE limit
SectorOr(limit) ==
  IF data_running /\ SectorPeriod - sector_elapsed < limit
  THEN SectorPeriod - sector_elapsed ELSE limit
Nearest == SectorOr(AudioOr(ApOrNever))

\* The deadline cdic_increment_time goes by: computed again once dropped.
Deadline == IF deadline_valid THEN deadline ELSE Nearest

Defers(step) == Deadline # Never /\ step < Deadline - pending

\* cdic_increment_time(step).
IncrementTime(step) ==
  /\ ~observed
  /\ \/ /\ Deadline = Never                       \* no active device work
        /\ deadline' = Deadline /\ deadline_valid' = TRUE
        /\ fired' = {}
        /\ UNCHANGED <<timers, pending>>
     \/ /\ Defers(step)
        /\ deadline' = Deadline /\ deadline_valid' = TRUE
        /\ pending' = pending + step
        /\ fired' = {}
        /\ UNCHANGED timers
     \/ /\ Deadline # Never /\ ~Defers(step)
        /\ deadline' = Deadline /\ deadline_valid' = FALSE
        /\ pending' = 0
        /\ Advance(pending + step)
  /\ UNCHANGED observed

\* Faulty variant: the time not yet given is forgotten.
Faulty_QuietQuanta(maximum) ==
  LET quiet == (Nearest - 1) \div Quantum
  IN  IF Nearest = Never THEN maximum ELSE IF quiet < maximum THEN quiet ELSE maximum

\* cdi_streaming_quiet_quanta: how many quanta pass before the next event.
QuietQuanta(maximum) ==
  LET quiet == (Nearest - pending - 1) \div Quantum
  IN  IF Nearest = Never THEN maximum
      ELSE IF Nearest <= pending THEN 0
      ELSE IF quiet < maximum THEN quiet ELSE maximum

\* The idle job gives the quanta it took in one call.
IdleJob(n) == n <= QuietQuanta(MaxIdle) /\ IncrementTime(n * Quantum)

DeadlineAfterAccess == FALSE

\* observe_streaming, the first thing every access does ...
Observe ==
  /\ ~observed /\ observed' = TRUE
  /\ deadline_valid' = DeadlineAfterAccess
  /\ pending' = 0
  /\ IF pending > 0 THEN Advance(pending) ELSE fired' = {} /\ UNCHANGED timers
  /\ UNCHANGED deadline

\* ... and what it then does to the device.
Act ==
  /\ observed /\ observed' = FALSE
  /\ Command \/ Access
  /\ UNCHANGED <<pending, deadline, deadline_valid>>

Next ==
  \/ \E step \in Steps : IncrementTime(step)
  \/ \E n \in 2 .. MaxIdle : IdleJob(n)
  \/ Observe
  \/ Act

Spec == ClockInit /\ [][Next]_vars

-----------------------------------------------------------------------------
(* Properties. *)

\* Every variable holds a value of its type; no clock runs below zero.
TypeOK ==
  /\ ap_completion_pending \in BOOLEAN /\ ap_completion_delay \in 0 .. ApLatency
  /\ audio_active \in BOOLEAN /\ audio_remaining \in Nat
  /\ data_running \in BOOLEAN /\ sector_elapsed \in 0 .. SectorPeriod - 1
  /\ pending \in Nat /\ deadline \in Nat
  /\ deadline_valid \in BOOLEAN /\ observed \in BOOLEAN
  /\ fired \subseteq {"AP", "REFILL", "SECTOR"}

\* "Private elapsed time never crosses an AP completion, audio refill or sector
\* boundary" (cdic.c): what is deferred ends before the nearest event, and a cached
\* deadline is the one the clocks imply.
DeferralStopsShort ==
  /\ pending = 0 \/ pending < Nearest
  /\ deadline_valid => deadline = Nearest
  /\ Nearest = Never => pending = 0

\* The clocks as the guest would see them: brought up to date.
Timers == INSTANCE StreamTimers WITH
  ap_completion_delay <- IF ap_completion_pending THEN ap_completion_delay - pending
                                                  ELSE ap_completion_delay,
  audio_remaining <- IF audio_active THEN audio_remaining - pending ELSE audio_remaining,
  sector_elapsed <- IF data_running THEN sector_elapsed + pending ELSE sector_elapsed

\* The deferred clock implements the faithful one: every event fires in the same
\* quantum, and every access finds the clocks where single quanta would have put them.
ImplementsTimers == Timers!TimersSpec
=============================================================================
