-------------------------------- MODULE Timers --------------------------------
(***************************************************************************)
(* The 16-bit timers of the SCC68070 (runner/src/periph.c): timer 0 with   *)
(* its reload register, timers 1 and 2 that count when their mode is not   *)
(* 0, and their status flags.                                              *)
(*                                                                         *)
(* While the CPU is halted the idle job lets many quanta pass in one call  *)
(* (periph_quiet_quanta, periph_advance_quiet). A second set of timers,    *)
(* faithful, takes the same quanta one at a time: after an idle job it is  *)
(* behind and catches up before anything else happens.                     *)
(***************************************************************************)
EXTENDS Integers

CONSTANTS
  CounterTop,           \* 0xFFFF
  Prescale,      \* 96 cycles to a tick
  TimerQuantum,       \* 25 cycles to a quantum of the halted CPU
  TimerIdle,       \* the most quanta an idle job takes at once
  Cycles,        \* how long an instruction may take
  Values,        \* what the guest stores into the counters
  Modes          \* and into each event field of TCR; 0 is off

ASSUME TimersAssumption ==
  /\ CounterTop \in Nat /\ Prescale \in Nat \ {0} /\ TimerQuantum \in Nat \ {0}
  /\ TimerQuantum <= Prescale /\ TimerIdle \in Nat
  /\ Cycles \subseteq Nat /\ Values \subseteq 0 .. CounterTop
  /\ Modes \subseteq 0 .. 3 /\ 0 \in Modes

Flags == {"OV0", "MA1", "OV1", "MA2", "OV2", "BIT0"}

VARIABLES
  t0, t1, t2, status, prescale,        \* the timers the guest sees
  reload, mode1, mode2, priority,      \* RR, TCR and PICR1
  irq,                                 \* the on-chip request
  due,                                 \* ticks of this call still to be counted
  faithful,                            \* the timers that take every quantum singly
  faithful_irq,
  lag                                  \* the quanta they are behind

registers == <<reload, mode1, mode2, priority>>
onchip_timers == [t0 |-> t0, t1 |-> t1, t2 |-> t2, status |-> status, prescale |-> prescale]
onchip_vars == <<t0, t1, t2, status, prescale, registers, irq, due, faithful, faithful_irq, lag>>

\* periph_reset.
OnchipInit ==
  /\ t0 = 0 /\ t1 = 0 /\ t2 = 0 /\ status = {} /\ prescale = 0
  /\ reload = 0 /\ mode1 = 0 /\ mode2 = 0 /\ priority = 0
  /\ irq = FALSE /\ due = 0
  /\ faithful = onchip_timers /\ faithful_irq = FALSE /\ lag = 0

-----------------------------------------------------------------------------
(* clock_timer_once, on a set s of timers.                                 *)

Next0(s) == IF s.t0 = CounterTop THEN reload ELSE s.t0 + 1

Next12(mode, counter) ==
  IF mode = 0 THEN counter ELSE IF counter = CounterTop THEN 0 ELSE counter + 1

Flags0(s) == IF s.t0 = CounterTop THEN s.status \cup {"OV0"} ELSE s.status

\* An overflow is flagged; otherwise mode 3 takes the flag back. Then the match.
Flags12(mode, counter, zero, flags, overflow, match) ==
  LET counted == IF counter = CounterTop THEN flags \cup {overflow}
                 ELSE IF mode = 3 THEN flags \ {overflow, "BIT0"}
                 ELSE flags
  IN  IF mode = 0 THEN flags
      ELSE IF Next12(mode, counter) = zero THEN counted \cup {match} ELSE counted

\* Timer 1 is looked at before timer 2, and both after timer 0.
NextFlags(s) ==
  Flags12(mode2, s.t2, Next0(s),
          Flags12(mode1, s.t1, Next0(s), Flags0(s), "OV1", "MA1"), "OV2", "MA2")

ClockOnce(s) ==
  [s EXCEPT !.t0 = Next0(s), !.t1 = Next12(mode1, s.t1), !.t2 = Next12(mode2, s.t2),
            !.status = NextFlags(s)]

Overflows(s) ==
  s.t0 = CounterTop \/ (mode1 # 0 /\ s.t1 = CounterTop) \/ (mode2 # 0 /\ s.t2 = CounterTop)

\* request_timer_interrupt.
Requests(s) == priority # 0 /\ Overflows(s)

-----------------------------------------------------------------------------
(* periph_quiet_quanta and periph_advance_quiet. *)

Smaller(a, b) == IF a < b THEN a ELSE b

TicksToOverflow(s) ==
  LET one == IF mode1 # 0 THEN Smaller(CounterTop + 1 - s.t1, CounterTop + 1 - s.t0) ELSE CounterTop + 1 - s.t0
  IN  IF mode2 # 0 THEN Smaller(CounterTop + 1 - s.t2, one) ELSE one

CyclesToOverflow(s) == TicksToOverflow(s) * Prescale - s.prescale

TimersQuietQuanta(maximum) == Smaller((CyclesToOverflow(onchip_timers) - 1) \div TimerQuantum, maximum)

\* Faulty variant: mode 3 is treated as the others.
Faulty_QuietFlags12(mode, counter, zero, flags, overflow, match) ==
  IF mode # 0 /\ counter = zero THEN flags \cup {match} ELSE flags

\* What n quiet ticks leave of the flags.
QuietFlags12(mode, counter, zero, flags, overflow, match) ==
  LET counted == IF mode = 3 THEN flags \ {overflow, "BIT0"} ELSE flags
  IN  IF mode = 0 THEN flags
      ELSE IF counter = zero THEN counted \cup {match} ELSE counted

Wrapped(value) == value % (CounterTop + 1)
Moved(mode, counter, ticks) == IF mode = 0 THEN counter ELSE Wrapped(counter + ticks)

AdvanceQuiet(s, cycles) ==
  LET ticks == (s.prescale + cycles) \div Prescale
      rest == (s.prescale + cycles) % Prescale
      zero == Wrapped(s.t0 + ticks)
      one == Moved(mode1, s.t1, ticks)
      two == Moved(mode2, s.t2, ticks)
      flags == QuietFlags12(mode2, two, zero,
                 QuietFlags12(mode1, one, zero, s.status, "OV1", "MA1"), "OV2", "MA2")
  IN  IF ticks = 0 THEN [s EXCEPT !.prescale = rest]
      ELSE [t0 |-> zero, t1 |-> one, t2 |-> two, status |-> flags, prescale |-> rest]

-----------------------------------------------------------------------------
(* The actions. Outside the loop over the ticks of a call, and caught up. *)

Settled == due = 0 /\ lag = 0

Show(s) == t0' = s.t0 /\ t1' = s.t1 /\ t2' = s.t2 /\ status' = s.status
Both(s) == Show(s) /\ prescale' = s.prescale /\ faithful' = s

\* periph_increment_timer: the prescaler, and then the loop over the ticks.
IncrementTimer(cycles) ==
  /\ Settled
  /\ due' = (prescale + cycles) \div Prescale
  /\ prescale' = (prescale + cycles) % Prescale
  /\ faithful' = [faithful EXCEPT !.prescale = (@ + cycles) % Prescale]
  /\ UNCHANGED <<t0, t1, t2, status, registers, irq, faithful_irq, lag>>

ClockTimer ==
  /\ due > 0 /\ due' = due - 1
  /\ Show(ClockOnce(onchip_timers)) /\ faithful' = ClockOnce(faithful)
  /\ irq' = (irq \/ Requests(onchip_timers)) /\ faithful_irq' = (faithful_irq \/ Requests(faithful))
  /\ UNCHANGED <<prescale, registers, lag>>

\* The idle job, which runs only without a pending interrupt ...
TimersIdleJob(n) ==
  /\ Settled /\ ~irq
  /\ n <= TimersQuietQuanta(TimerIdle)
  /\ LET s == AdvanceQuiet(onchip_timers, n * TimerQuantum) IN Show(s) /\ prescale' = s.prescale
  /\ lag' = n
  /\ UNCHANGED <<registers, irq, due, faithful, faithful_irq>>

\* ... and one of its quanta taken singly.
Singly(s) ==
  IF s.prescale + TimerQuantum >= Prescale
  THEN [ClockOnce(s) EXCEPT !.prescale = s.prescale + TimerQuantum - Prescale]
  ELSE [s EXCEPT !.prescale = s.prescale + TimerQuantum]

CatchUp ==
  /\ lag > 0 /\ lag' = lag - 1
  /\ faithful' = Singly(faithful)
  /\ faithful_irq' = (faithful_irq \/ (faithful.prescale + TimerQuantum >= Prescale /\ Requests(faithful)))
  /\ UNCHANGED <<t0, t1, t2, status, prescale, registers, irq, due>>

\* write_register: the counters, ...
WriteCounter(s) ==
  /\ Settled
  /\ Both(s)
  /\ UNCHANGED <<registers, irq, due, faithful_irq, lag>>

WriteTimers ==
  \E v \in Values :
    \/ WriteCounter([onchip_timers EXCEPT !.t0 = v])
    \/ WriteCounter([onchip_timers EXCEPT !.t1 = v])
    \/ WriteCounter([onchip_timers EXCEPT !.t2 = v])

\* ... the status, where a one clears, ...
WriteStatus(ones) == WriteCounter([onchip_timers EXCEPT !.status = @ \ ones])

\* ... and the registers that only hold what is written.
WriteTimerRegister ==
  /\ Settled
  /\ \/ reload' \in Values /\ UNCHANGED <<mode1, mode2, priority>>
     \/ mode1' \in Modes /\ mode2' \in Modes /\ UNCHANGED <<reload, priority>>
     \/ priority' \in {0, 1} /\ UNCHANGED <<reload, mode1, mode2>>
  /\ UNCHANGED <<t0, t1, t2, status, prescale, irq, due, faithful, faithful_irq, lag>>

\* recomp_take_irq consumes the request.
TakeInterrupt ==
  /\ Settled /\ irq
  /\ irq' = FALSE /\ faithful_irq' = FALSE
  /\ UNCHANGED <<t0, t1, t2, status, prescale, registers, due, faithful, lag>>

Guest ==
  \/ WriteTimers \/ (\E ones \in {{"OV0"}, Flags} : WriteStatus(ones)) \/ WriteTimerRegister
  \/ TakeInterrupt

Time ==
  \/ \E cycles \in Cycles : IncrementTimer(cycles)
  \/ ClockTimer
  \/ \E n \in 2 .. TimerIdle : TimersIdleJob(n)
  \/ CatchUp

OnchipNext == Guest \/ Time

OnchipSpec == OnchipInit /\ [][OnchipNext]_onchip_vars

-----------------------------------------------------------------------------
(* Properties. *)

\* Every variable holds a value of its type; no counter leaves its sixteen bits.
OnchipTypeOK ==
  /\ t0 \in 0 .. CounterTop /\ t1 \in 0 .. CounterTop /\ t2 \in 0 .. CounterTop
  /\ status \subseteq Flags /\ prescale \in 0 .. Prescale - 1
  /\ reload \in 0 .. CounterTop /\ mode1 \in Modes /\ mode2 \in Modes /\ priority \in {0, 1}
  /\ irq \in BOOLEAN /\ faithful_irq \in BOOLEAN
  /\ due \in Nat /\ lag \in 0 .. TimerIdle

\* "Enabled counters move in lock step, so equality either holds at every quiet tick or
\* at none" (periph.c): after an idle job the guest finds counters, flags and request
\* as if every quantum had been taken singly. On the way nothing overflows: it would
\* have woken the CPU in the middle of the job.
SkipIsTicking ==
  /\ lag = 0 => onchip_timers = faithful /\ irq = faithful_irq
  /\ lag > 0 => ~(faithful.prescale + TimerQuantum >= Prescale /\ Overflows(faithful))
=============================================================================
