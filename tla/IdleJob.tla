------------------------------- MODULE IdleJob -------------------------------
(***************************************************************************)
(* The stopped CPU: main's loop pumps the front end and lets the board     *)
(* take one quantum of 25 cycles (mcd212_tick), or lets                    *)
(* cdi_board_idle_quanta of mcd212.c take many quanta in which no device   *)
(* has an event and then advance every device at once.                     *)
(*                                                                         *)
(* A device is a countdown in quanta to its next event; the arithmetic     *)
(* that makes it one is the subject of Timers, StreamClock and Ikat.  The  *)
(* IKAT samples the input at its event and looks at the medium in every    *)
(* quantum; the stream and the timers raise an interrupt.  Beside the      *)
(* board a second one, stepped, takes every quantum when main's loop       *)
(* without the job would take it, between the same pumps.                  *)
(***************************************************************************)
EXTENDS Integers, FiniteSetsExt

CONSTANTS
    Periods,        \* Periods[d]: quanta between two events of device d
    JobLimit,       \* 64
    MaxPumps,       \* bound: effects of the front end and the debug server
    MaxQuanta       \* bound: quanta in all

Devices == {"periph", "slave", "stream", "pacing", "nvram", "raster"}

ASSUME IdleJobAssumption ==
    /\ Periods \in [Devices -> Nat \ {0}]
    /\ JobLimit \in Nat /\ MaxPumps \in Nat /\ MaxQuanta \in Nat

VARIABLES
    board,      \* the devices the guest sees
    stepped,   \* the devices that take every quantum singly
    host,       \* input, medium and debugger, as the pumps leave them
    cpu,        \* halted, and the quanta and pumps spent
    job         \* the idle job in progress

idle_vars == <<board, stepped, host, cpu, job>>

NoJob == [at |-> "none", limit |-> 0, completed |-> 0, epoch |-> 0, media |-> 0]

IdleInit ==
    LET fresh == [left |-> Periods, cycles |-> 0, irq |-> {}, media |-> 0,
                  sampled |-> 0, event |-> <<"none", 0>>]
    IN  /\ board = fresh /\ stepped = fresh
        /\ host = [input |-> 0, media |-> 0, epoch |-> 0, allowed |-> TRUE, quit |-> FALSE]
        /\ cpu = [halted |-> TRUE, at |-> "loop", spent |-> 0]
        /\ job = NoJob

(***************************************************************************)
(* mcd212_tick: every device takes the quantum in turn; the cycle count    *)
(* moves after the devices that see it and before the raster.              *)
(***************************************************************************)
Fires(b, d) == b.left[d] = 1

Tick(b) ==
    [b EXCEPT
        !.left = [d \in Devices |-> IF Fires(b, d) THEN Periods[d] ELSE b.left[d] - 1],
        !.cycles = @ + 1,
        !.irq = @ \cup {d \in {"periph", "stream"} : Fires(b, d)},
        !.media = host.media,
        !.sampled = IF Fires(b, "slave") THEN host.input ELSE @,
        !.event = LET now == {d \in Devices : Fires(b, d)} \cup
                             (IF b.media # host.media THEN {"media"} ELSE {})
                  IN  IF now = {} THEN @ ELSE <<now, b.cycles>>]

\* The quanta before the one in which a device has its event; a new medium is
\* noticed in the next one.
Quiet(d) == IF d = "slave" /\ board.media # host.media THEN 0 ELSE board.left[d] - 1

Limit == Min({JobLimit} \cup {Quiet(d) : d \in Devices})

AdvanceQuanta(b, n) == [b EXCEPT !.left = [d \in Devices |-> b.left[d] - n], !.cycles = @ + n]

(***************************************************************************)
(* The front end's pump and the debug server's thread.                     *)
(***************************************************************************)
Effects == {[host EXCEPT !.input = 1 - @], [host EXCEPT !.media = @ + 1],
            [host EXCEPT !.epoch = @ + 1, !.allowed = ~@], [host EXCEPT !.quit = TRUE]}

Pumped == \/ UNCHANGED <<host, cpu>>
          \/ /\ cpu.spent < MaxPumps
             /\ host' \in Effects
             /\ cpu' = [cpu EXCEPT !.spent = @ + 1]

(***************************************************************************)
(* main's loop.                                                            *)
(***************************************************************************)
Room == stepped.cycles < MaxQuanta /\ ~host.quit

MainPump ==
    /\ cpu.at = "loop" /\ ~host.quit
    /\ \/ cpu' = [cpu EXCEPT !.at = "pumped"] /\ UNCHANGED host
       \/ /\ cpu.spent < MaxPumps /\ host' \in Effects
          /\ cpu' = [cpu EXCEPT !.spent = @ + 1,
                                !.at = IF host'.quit THEN "loop" ELSE "pumped"]
    /\ UNCHANGED <<board, stepped, job>>

BothTick == board' = Tick(board) /\ stepped' = Tick(stepped)

\* Not admitted, or too short: main lets one quantum pass.
MainTick ==
    /\ cpu.at = "pumped" /\ cpu.halted /\ job.at = "none" /\ Room
    /\ ~host.allowed \/ board.irq # {} \/ Limit < 2
    /\ BothTick
    /\ cpu' = [cpu EXCEPT !.at = "irq"]
    /\ UNCHANGED <<host, job>>

JobBegin ==
    /\ cpu.at = "pumped" /\ cpu.halted /\ job.at = "none" /\ Room
    /\ host.allowed /\ board.irq = {} /\ Limit >= 2
    /\ job' = [at |-> "quantum", limit |-> Limit, completed |-> 0,
               epoch |-> host.epoch, media |-> host.media]
    /\ UNCHANGED <<board, stepped, host, cpu>>

\* Faulty variant: a pump may mount a medium unnoticed.
Faulty_Undisturbed == host.allowed /\ host.epoch = job.epoch /\ board.irq = {}

Undisturbed ==
    host.allowed /\ host.epoch = job.epoch /\ host.media = job.media /\ board.irq = {}

JobQuantum ==
    /\ job.at = "quantum" /\ ~host.quit /\ Undisturbed /\ job.completed < job.limit
    /\ stepped' = Tick(stepped)
    /\ job' = [job EXCEPT !.completed = @ + 1, !.at = "pump"]
    /\ UNCHANGED <<board, host, cpu>>

\* Later pumps keep their place; the first was main's.
JobPump ==
    /\ job.at = "pump" /\ job.completed < job.limit
    /\ Pumped
    /\ job' = [job EXCEPT !.at = "quantum"]
    /\ UNCHANGED <<board, stepped>>

\* The prefix ends at the limit or because the pump said to quit ...
JobEnd ==
    /\ \/ job.at = "pump" /\ job.completed = job.limit
       \/ job.at = "quantum" /\ host.quit
    /\ board' = AdvanceQuanta(board, job.completed)
    /\ job' = NoJob /\ cpu' = [cpu EXCEPT !.at = "irq"]
    /\ UNCHANGED <<stepped, host>>

\* ... or the pump disturbed it: its own quantum follows at once, if the prefix
\* is not empty; otherwise main lets it pass.
JobDisturbed ==
    /\ job.at = "quantum" /\ ~host.quit /\ ~Undisturbed
    /\ board' = Tick(AdvanceQuanta(board, job.completed))
    /\ stepped' = Tick(stepped)
    /\ job' = NoJob /\ cpu' = [cpu EXCEPT !.at = "irq"]
    /\ UNCHANGED host

\* recomp_take_irq after the quantum; the handler stops the CPU again.
TakeIrq ==
    /\ cpu.at = "irq"
    /\ board' = [board EXCEPT !.irq = {}] /\ stepped' = [stepped EXCEPT !.irq = {}]
    /\ cpu' = [cpu EXCEPT !.at = "loop"]
    /\ UNCHANGED <<host, job>>

\* While a masked request is pending the CPU sleeps on.
LeaveMasked ==
    /\ cpu.at = "irq" /\ board.irq # {}
    /\ cpu' = [cpu EXCEPT !.at = "loop"]
    /\ UNCHANGED <<board, stepped, host, job>>

IdleNext == \/ MainPump \/ MainTick \/ TakeIrq \/ LeaveMasked
            \/ JobBegin \/ JobQuantum \/ JobPump \/ JobEnd \/ JobDisturbed

IdleSpec == IdleInit /\ [][IdleNext]_idle_vars

(***************************************************************************)
(* Properties.                                                             *)
(***************************************************************************)
(* mcd212.c:329: outside an idle job the devices are where quantum by      *)
(* quantum ticking would have put them: the same countdowns and cycle      *)
(* count, the same events at the same cycle, the same input sampled and    *)
(* the same requests, although the pumps between the quanta ran before the *)
(* devices moved.                                                          *)
JobIsTicking == job.at = "none" => board = stepped
=============================================================================
