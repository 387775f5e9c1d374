----------------------------- MODULE BoardProofs -----------------------------
(***************************************************************************)
(* Theorems about the board around the devices: the idle job, the pixels   *)
(* another thread copies, the frames above the trampoline, the             *)
(* co-simulation of the board with the oracle, and the debug server's      *)
(* stops.                                                                  *)
(***************************************************************************)
EXTENDS IdleJob, FrameShare, Trampoline, Cosim, DebugStop, Remainders, SequenceTheorems,
        WellFoundedInduction, TLAPS

(***************************************************************************)
(* The idle job: quanta at once are quanta one by one.                     *)
(***************************************************************************)
\* The devices that had an event together, and when.
EventSet == ((SUBSET (Devices \cup {"media"})) \cup {"none"}) \X Nat

BoardSet == [left : [Devices -> Nat \ {0}], cycles : Nat, irq : SUBSET Devices, media : Nat,
             sampled : Int, event : EventSet]

HostSet == [input : Int, media : Nat, epoch : Nat, allowed : BOOLEAN, quit : BOOLEAN]
CpuSet == [halted : BOOLEAN, at : {"loop", "pumped", "irq"}, spent : Nat]
JobSet == [at : {"none", "quantum", "pump"}, limit : Nat, completed : Nat, epoch : Nat, media : Nat]

IdleTypes ==
    /\ board \in BoardSet /\ stepped \in BoardSet
    /\ host \in HostSet
    /\ cpu \in CpuSet
    /\ job \in JobSet

\* During a job no device of the board has an event within the limit.
QuietAhead ==
    job.at # "none" =>
        /\ job.completed <= job.limit /\ cpu.at = "pumped"
        /\ \A d \in Devices : job.limit < board.left[d]
        /\ board.irq = {} /\ board.media = job.media
        /\ stepped = AdvanceQuanta(board, job.completed)

IdleInv == IdleTypes /\ QuietAhead /\ JobIsTicking

\* A job is only as long as every device is quiet.
LEMMA LeastOf ==
    ASSUME NEW S \in SUBSET Nat, S # {}
    PROVE  Min(S) \in S /\ \A y \in S : Min(S) <= y
<1>1. \E x \in S : \A y \in S : x <= y
  <2>1. PICK x \in S : \A y \in S : ~(<<y, x>> \in OpToRel(<, Nat))
    BY NatLessThanWellFounded, WFMin
  <2>2. \A y \in S : y < x => <<y, x>> \in OpToRel(<, Nat)
    <3> TAKE y \in S
    <3> HAVE y < x
    <3>1. <<y, x>> \in Nat \X Nat /\ <<y, x>>[1] < <<y, x>>[2]
      OBVIOUS
    <3> QED BY <3>1, Zenon DEF OpToRel
  <2>3. \A y \in S : ~(y < x)
    BY <2>1, <2>2, Zenon
  <2> QED BY <2>3
<1> QED BY <1>1 DEF Min

LEMMA LimitIsQuiet ==
    ASSUME board \in BoardSet, host.media \in Nat
    PROVE  Limit \in Nat /\ \A d \in Devices : Limit <= Quiet(d)
<1>1. JobLimit \in Nat
  BY IdleJobAssumption
<1>2. \A d \in Devices : board.left[d] \in Nat \ {0}
  BY DEF BoardSet
<1>3. \A d \in Devices : Quiet(d) \in Nat
  BY <1>2 DEF Quiet
<1> DEFINE S == {JobLimit} \cup {Quiet(d) : d \in Devices}
<1>4. S \in SUBSET Nat /\ S # {}
  BY <1>1, <1>3
<1>5. Limit = Min(S)
  BY DEF Limit
<1> HIDE DEF S
<1>6. Min(S) \in S /\ \A y \in S : Min(S) <= y
  BY <1>4, LeastOf
<1>7. \A d \in Devices : Quiet(d) \in S
  BY DEF S
<1> QED
  BY <1>4, <1>5, <1>6, <1>7

LEMMA TickTypes ==
    ASSUME NEW b \in BoardSet, host.media \in Nat, host.input \in Int
    PROVE  Tick(b) \in BoardSet
<1>1. /\ b.left \in [Devices -> Nat \ {0}] /\ b.cycles \in Nat /\ b.irq \in SUBSET Devices
      /\ b.sampled \in Int /\ b.event \in EventSet
  BY DEF BoardSet
<1> DEFINE left == [d \in Devices |-> IF Fires(b, d) THEN Periods[d] ELSE b.left[d] - 1]
           irq == b.irq \cup {d \in {"periph", "stream"} : Fires(b, d)}
           sampled == IF Fires(b, "slave") THEN host.input ELSE b.sampled
           now == {d \in Devices : Fires(b, d)} \cup
                             (IF b.media # host.media THEN {"media"} ELSE {})
           event == IF now = {} THEN b.event ELSE <<now, b.cycles>>
<1>2. left \in [Devices -> Nat \ {0}]
  BY <1>1, IdleJobAssumption DEF Fires
<1>3. irq \in SUBSET Devices
  BY <1>1 DEF Devices
<1>4. sampled \in Int
  BY <1>1
<1>5. event \in EventSet
  <2>1. now \in SUBSET (Devices \cup {"media"})
    OBVIOUS
  <2> HIDE DEF now
  <2> QED BY <1>1, <2>1 DEF EventSet
<1>6. Tick(b) = [b EXCEPT !.left = left, !.cycles = b.cycles + 1, !.irq = irq,
                          !.media = host.media, !.sampled = sampled, !.event = event]
  BY DEF Tick
<1> HIDE DEF left, irq, sampled, event
<1>7. Tick(b) = [left |-> left, cycles |-> b.cycles + 1, irq |-> irq, media |-> host.media,
                 sampled |-> sampled, event |-> event]
  BY <1>6 DEF BoardSet
<1> QED
  BY <1>1, <1>2, <1>3, <1>4, <1>5, <1>7 DEF BoardSet

\* An advance, field by field.
LEMMA Advanced ==
    ASSUME NEW b \in BoardSet, NEW n \in Nat
    PROVE  AdvanceQuanta(b, n) =
              [left |-> [d \in Devices |-> b.left[d] - n], cycles |-> b.cycles + n, irq |-> b.irq,
               media |-> b.media, sampled |-> b.sampled, event |-> b.event]
<1> DEFINE left == [d \in Devices |-> b.left[d] - n]
<1>1. AdvanceQuanta(b, n) = [b EXCEPT !.left = left, !.cycles = b.cycles + n]
  BY DEF AdvanceQuanta
<1> HIDE DEF left
<1>2. AdvanceQuanta(b, n) = [left |-> left, cycles |-> b.cycles + n, irq |-> b.irq,
               media |-> b.media, sampled |-> b.sampled, event |-> b.event]
  BY <1>1 DEF BoardSet
<1> QED BY <1>2 DEF left

LEMMA AdvanceTypes ==
    ASSUME NEW b \in BoardSet, NEW n \in Nat, \A d \in Devices : n < b.left[d]
    PROVE  AdvanceQuanta(b, n) \in BoardSet
<1> DEFINE left == [d \in Devices |-> b.left[d] - n]
<1>1. /\ b.left \in [Devices -> Nat \ {0}] /\ b.cycles \in Nat /\ b.irq \in SUBSET Devices
      /\ b.sampled \in Int /\ b.media \in Nat /\ b.event \in EventSet
  BY DEF BoardSet
<1>2. left \in [Devices -> Nat \ {0}] /\ b.cycles + n \in Nat
  BY <1>1
<1>3. AdvanceQuanta(b, n) = [left |-> left, cycles |-> b.cycles + n, irq |-> b.irq,
               media |-> b.media, sampled |-> b.sampled, event |-> b.event]
  BY Advanced
<1> HIDE DEF left
<1> QED BY <1>1, <1>2, <1>3 DEF BoardSet

\* Where nothing happens, one more quantum is one quantum more of the advance.
LEMMA QuietTick ==
    ASSUME NEW b \in BoardSet, NEW n \in Nat, host.media = b.media,
           \A d \in Devices : n + 1 < b.left[d]
    PROVE  Tick(AdvanceQuanta(b, n)) = AdvanceQuanta(b, n + 1)
<1>1. /\ b.left \in [Devices -> Nat \ {0}] /\ b.cycles \in Nat
  BY DEF BoardSet
<1> DEFINE a == AdvanceQuanta(b, n)
           left == [d \in Devices |-> b.left[d] - (n + 1)]
<1>2. /\ a.left = [d \in Devices |-> b.left[d] - n]
      /\ a.cycles = b.cycles + n /\ a.irq = b.irq /\ a.media = b.media
      /\ a.sampled = b.sampled /\ a.event = b.event
  BY Advanced
<1>3. \A d \in Devices : ~Fires(a, d)
  BY <1>1, <1>2 DEF Fires
<1>4. Fires(a, "periph") = FALSE /\ Fires(a, "stream") = FALSE /\ Fires(a, "slave") = FALSE
  BY <1>3 DEF Devices, Fires
<1>5. [d \in Devices |-> IF Fires(a, d) THEN Periods[d] ELSE a.left[d] - 1] = left
  BY <1>1, <1>2, <1>3
<1>6. a.irq \cup {d \in {"periph", "stream"} : Fires(a, d)} = b.irq
  BY <1>2, <1>4
<1>7. {d \in Devices : Fires(a, d)} \cup (IF a.media # host.media THEN {"media"} ELSE {}) = {}
  BY <1>2, <1>3
<1>8. a = [left |-> a.left, cycles |-> b.cycles + n, irq |-> b.irq,
               media |-> b.media, sampled |-> b.sampled, event |-> b.event]
  BY <1>2, Advanced
<1> HIDE DEF a, left
<1>9. Tick(a) = [a EXCEPT !.left = left, !.cycles = a.cycles + 1, !.irq = b.irq,
                          !.media = host.media, !.sampled = a.sampled, !.event = a.event]
  BY <1>4, <1>5, <1>6, <1>7 DEF Tick
<1>10. Tick(a) = [left |-> left, cycles |-> (b.cycles + n) + 1, irq |-> b.irq,
                  media |-> b.media, sampled |-> b.sampled, event |-> b.event]
  BY <1>2, <1>8, <1>9
<1>11. (b.cycles + n) + 1 = b.cycles + (n + 1)
  BY <1>1
<1>12. AdvanceQuanta(b, n + 1) = [left |-> left, cycles |-> b.cycles + (n + 1), irq |-> b.irq,
                  media |-> b.media, sampled |-> b.sampled, event |-> b.event]
  BY Advanced DEF left
<1> QED
  BY <1>10, <1>11, <1>12 DEF a

-----------------------------------------------------------------------------
LEMMA EffectTypes ==
    ASSUME IdleTypes, NEW h \in Effects
    PROVE  h \in HostSet
<1> host \in HostSet
  BY DEF IdleTypes, HostSet, CpuSet, JobSet
<1>1. CASE h = [host EXCEPT !.input = 1 - @]
  BY <1>1 DEF HostSet
<1>2. CASE h = [host EXCEPT !.media = @ + 1]
  BY <1>2 DEF HostSet
<1>3. CASE h = [host EXCEPT !.epoch = @ + 1, !.allowed = ~@]
  <2>1. (~host.allowed) \in BOOLEAN /\ host.epoch + 1 \in Nat
    BY DEF HostSet
  <2> QED BY <1>3, <2>1 DEF HostSet
<1>4. CASE h = [host EXCEPT !.quit = TRUE]
  BY <1>4 DEF HostSet
<1> QED BY <1>1, <1>2, <1>3, <1>4 DEF Effects

LEMMA PumpedTypes ==
    ASSUME IdleTypes, Pumped
    PROVE  /\ host' \in HostSet
           /\ cpu' \in CpuSet
           /\ cpu'.at = cpu.at
<1>1. CASE UNCHANGED <<host, cpu>>
  BY <1>1 DEF IdleTypes, HostSet, CpuSet, JobSet
<1>2. CASE host' \in Effects /\ cpu' = [cpu EXCEPT !.spent = @ + 1]
  BY <1>2, EffectTypes DEF IdleTypes, HostSet, CpuSet, JobSet
<1> QED BY <1>1, <1>2 DEF Pumped

LEMMA InitIdle == IdleInit => IdleInv
<1> SUFFICES ASSUME IdleInit PROVE IdleInv
  OBVIOUS
<1>1. Periods \in [Devices -> Nat \ {0}]
  BY IdleJobAssumption
<1>2. <<"none", 0>> \in EventSet
  <2>1. "none" \in (SUBSET (Devices \cup {"media"})) \cup {"none"}
    BY Zenon
  <2> QED BY <2>1 DEF EventSet
<1>3. board \in BoardSet /\ stepped = board
  BY <1>1, <1>2 DEF IdleInit, BoardSet
<1> QED
  BY <1>3 DEF IdleInit, IdleInv, IdleTypes, HostSet, CpuSet, JobSet, QuietAhead, JobIsTicking, NoJob

LEMMA MainPumpKeeps == ASSUME IdleInv, MainPump PROVE IdleInv'
<1>1. UNCHANGED <<board, stepped, job>> /\ cpu.at = "loop"
  BY DEF MainPump
<1>2. job.at = "none"
  BY <1>1 DEF IdleInv, QuietAhead
<1>3. host' \in HostSet /\ cpu' \in CpuSet
  <2>1. CASE cpu' = [cpu EXCEPT !.at = "pumped"] /\ UNCHANGED host
    BY <2>1 DEF IdleInv, IdleTypes, CpuSet
  <2>2. CASE /\ host' \in Effects
             /\ cpu' = [cpu EXCEPT !.spent = @ + 1,
                                   !.at = IF host'.quit THEN "loop" ELSE "pumped"]
    <3>1. PICK at \in {"loop", "pumped"} : cpu' = [cpu EXCEPT !.spent = @ + 1, !.at = at]
      BY <2>2
    <3>2. cpu' \in CpuSet
      <4>1. cpu \in CpuSet /\ cpu.spent + 1 \in Nat
        BY DEF IdleInv, IdleTypes, CpuSet
      <4> QED BY <3>1, <4>1 DEF CpuSet
    <3> QED BY <2>2, <3>2, EffectTypes DEF IdleInv
  <2> QED BY <2>1, <2>2 DEF MainPump
<1> QED
  BY <1>1, <1>2, <1>3 DEF IdleInv, IdleTypes, HostSet, CpuSet, JobSet, QuietAhead, JobIsTicking

LEMMA MainTickKeeps == ASSUME IdleInv, MainTick PROVE IdleInv'
<1>1. /\ job.at = "none" /\ UNCHANGED <<host, job>>
      /\ board' = Tick(board) /\ stepped' = Tick(stepped) /\ cpu' = [cpu EXCEPT !.at = "irq"]
  BY DEF MainTick, BothTick
<1>2. board = stepped /\ board \in BoardSet /\ host.media \in Nat /\ host.input \in Int
  BY <1>1 DEF IdleInv, IdleTypes, HostSet, CpuSet, JobSet, JobIsTicking
<1>3. board' \in BoardSet /\ board' = stepped'
  BY <1>1, <1>2, TickTypes
<1> QED
  BY <1>1, <1>3 DEF IdleInv, IdleTypes, HostSet, CpuSet, JobSet, QuietAhead, JobIsTicking

LEMMA JobBeginKeeps == ASSUME IdleInv, JobBegin PROVE IdleInv'
<1>1. /\ job.at = "none" /\ UNCHANGED <<board, stepped, host, cpu>> /\ cpu.at = "pumped"
      /\ board.irq = {} /\ Limit >= 2
      /\ job' = [at |-> "quantum", limit |-> Limit, completed |-> 0,
                 epoch |-> host.epoch, media |-> host.media]
  BY DEF JobBegin
<1>2. board = stepped /\ board \in BoardSet /\ host.media \in Nat /\ host.epoch \in Nat
  BY <1>1 DEF IdleInv, IdleTypes, HostSet, CpuSet, JobSet, JobIsTicking
<1>3. Limit \in Nat /\ \A d \in Devices : Limit <= Quiet(d)
  BY <1>2, LimitIsQuiet
<1>4. board.left \in [Devices -> Nat \ {0}] /\ board.cycles \in Nat
  BY <1>2 DEF BoardSet
<1>5. board.media = host.media
  BY <1>1, <1>3 DEF Quiet, Devices
<1>6. \A d \in Devices : Limit < board.left[d]
  BY <1>3, <1>4, <1>5 DEF Quiet
<1>7. board = AdvanceQuanta(board, 0)
  <2>1. [d \in Devices |-> board.left[d] - 0] = board.left /\ board.cycles + 0 = board.cycles
    BY <1>4
  <2>2. AdvanceQuanta(board, 0) =
              [left |-> board.left, cycles |-> board.cycles, irq |-> board.irq,
               media |-> board.media, sampled |-> board.sampled, event |-> board.event]
    BY <1>2, <2>1, Advanced
  <2> QED BY <1>2, <2>2 DEF BoardSet
<1>8. job' \in JobSet
  BY <1>1, <1>2, <1>3 DEF JobSet
<1>9. IdleTypes'
  BY <1>1, <1>8 DEF IdleInv, IdleTypes, HostSet, CpuSet, JobSet
<1>10. QuietAhead'
  <2>1. /\ job'.completed = 0 /\ job'.limit = Limit /\ job'.media = host.media
        /\ board' = board /\ stepped' = stepped /\ cpu' = cpu
    BY <1>1
  <2>2. AdvanceQuanta(board, 0)' = AdvanceQuanta(board, 0)
    BY <2>1 DEF AdvanceQuanta
  <2> QED BY <1>1, <1>2, <1>3, <1>5, <1>6, <1>7, <2>1, <2>2 DEF QuietAhead
<1> QED
  BY <1>1, <1>9, <1>10 DEF IdleInv, JobIsTicking

LEMMA JobQuantumKeeps == ASSUME IdleInv, JobQuantum PROVE IdleInv'
<1>1. /\ job.at = "quantum" /\ UNCHANGED <<board, host, cpu>>
      /\ Undisturbed /\ job.completed < job.limit
      /\ stepped' = Tick(stepped) /\ job' = [job EXCEPT !.completed = @ + 1, !.at = "pump"]
  BY DEF JobQuantum
<1>2. /\ board \in BoardSet /\ stepped \in BoardSet /\ host.media \in Nat /\ host.input \in Int
      /\ job.completed \in Nat /\ job.limit \in Nat
  BY DEF IdleInv, IdleTypes, HostSet, CpuSet, JobSet
<1>3. /\ \A d \in Devices : job.limit < board.left[d]
      /\ host.media = board.media /\ stepped = AdvanceQuanta(board, job.completed)
  BY <1>1 DEF IdleInv, QuietAhead, Undisturbed
<1>4. \A d \in Devices : job.completed + 1 < board.left[d]
  BY <1>1, <1>2, <1>3 DEF BoardSet
<1>5. stepped' = AdvanceQuanta(board, job.completed + 1)
  BY <1>1, <1>2, <1>3, <1>4, QuietTick
<1>6. stepped' \in BoardSet
  BY <1>1, <1>2, TickTypes
<1>7. /\ job'.at = "pump" /\ job'.completed = job.completed + 1 /\ job'.limit = job.limit
      /\ job'.media = job.media
      /\ job' \in JobSet
  <2>1. job \in JobSet /\ job.completed + 1 \in Nat
    BY <1>2 DEF IdleInv, IdleTypes
  <2> QED BY <1>1, <2>1 DEF JobSet
<1>8. QuietAhead'
  BY <1>1, <1>2, <1>5, <1>7 DEF IdleInv, QuietAhead, AdvanceQuanta
<1> QED
  BY <1>1, <1>6, <1>7, <1>8 DEF IdleInv, IdleTypes, HostSet, CpuSet, JobSet, JobIsTicking

LEMMA JobPumpKeeps == ASSUME IdleInv, JobPump PROVE IdleInv'
<1>1. /\ job.at = "pump" /\ Pumped /\ UNCHANGED <<board, stepped>>
      /\ job' = [job EXCEPT !.at = "quantum"]
  BY DEF JobPump
<1>2. /\ host' \in HostSet
      /\ cpu' \in CpuSet
      /\ cpu'.at = cpu.at
  BY <1>1, PumpedTypes DEF IdleInv
<1>3. /\ job'.at = "quantum" /\ job'.completed = job.completed /\ job'.limit = job.limit
      /\ job'.media = job.media
      /\ job' \in JobSet
  BY <1>1 DEF IdleInv, IdleTypes, HostSet, CpuSet, JobSet
<1>4. QuietAhead'
  BY <1>1, <1>2, <1>3 DEF IdleInv, QuietAhead, AdvanceQuanta
<1> QED
  BY <1>1, <1>2, <1>3, <1>4 DEF IdleInv, IdleTypes, HostSet, CpuSet, JobSet, JobIsTicking

LEMMA NoJobTypes ==
    /\ NoJob.at = "none"
    /\ NoJob \in JobSet
BY DEF NoJob, JobSet

LEMMA JobEndKeeps == ASSUME IdleInv, JobEnd PROVE IdleInv'
<1>1. /\ job.at # "none" /\ UNCHANGED <<stepped, host>> /\ job' = NoJob
      /\ board' = AdvanceQuanta(board, job.completed) /\ cpu' = [cpu EXCEPT !.at = "irq"]
  BY DEF JobEnd
<1>2. board' = stepped
  BY <1>1 DEF IdleInv, QuietAhead
<1> QED
  BY <1>1, <1>2, NoJobTypes DEF IdleInv, IdleTypes, HostSet, CpuSet, JobSet, QuietAhead, JobIsTicking

LEMMA JobDisturbedKeeps == ASSUME IdleInv, JobDisturbed PROVE IdleInv'
<1>1. /\ job.at # "none" /\ UNCHANGED host /\ job' = NoJob
      /\ board' = Tick(AdvanceQuanta(board, job.completed)) /\ stepped' = Tick(stepped)
      /\ cpu' = [cpu EXCEPT !.at = "irq"]
  BY DEF JobDisturbed
<1>2. board' = stepped'
  BY <1>1 DEF IdleInv, QuietAhead
<1>3. stepped' \in BoardSet
  BY <1>1, TickTypes DEF IdleInv, IdleTypes, HostSet, CpuSet, JobSet
<1> QED
  BY <1>1, <1>2, <1>3, NoJobTypes DEF IdleInv, IdleTypes, HostSet, CpuSet, JobSet, QuietAhead, JobIsTicking

LEMMA TakeIrqKeeps == ASSUME IdleInv, TakeIrq PROVE IdleInv'
<1>1. /\ cpu.at = "irq" /\ UNCHANGED <<host, job>> /\ cpu' = [cpu EXCEPT !.at = "loop"]
      /\ board' = [board EXCEPT !.irq = {}] /\ stepped' = [stepped EXCEPT !.irq = {}]
  BY DEF TakeIrq
<1>2. job.at = "none"
  BY <1>1 DEF IdleInv, QuietAhead
<1>3. board' = stepped'
  BY <1>1, <1>2 DEF IdleInv, JobIsTicking
<1>4. board' \in BoardSet
  BY <1>1 DEF IdleInv, IdleTypes, HostSet, CpuSet, JobSet, BoardSet
<1> QED
  BY <1>1, <1>2, <1>3, <1>4 DEF IdleInv, IdleTypes, HostSet, CpuSet, JobSet, QuietAhead, JobIsTicking

LEMMA IdleStep == IdleInv /\ [IdleNext]_idle_vars => IdleInv'
<1> SUFFICES ASSUME IdleInv, [IdleNext]_idle_vars PROVE IdleInv'
  OBVIOUS
<1>1. CASE LeaveMasked
  BY <1>1 DEF LeaveMasked, IdleInv, IdleTypes, HostSet, CpuSet, JobSet, QuietAhead, JobIsTicking
<1>2. CASE UNCHANGED idle_vars
  BY <1>2 DEF idle_vars, IdleInv, IdleTypes, HostSet, CpuSet, JobSet, QuietAhead, JobIsTicking, AdvanceQuanta
<1> QED
  BY <1>1, <1>2, MainPumpKeeps, MainTickKeeps, JobBeginKeeps, JobQuantumKeeps, JobPumpKeeps,
     JobEndKeeps, JobDisturbedKeeps, TakeIrqKeeps DEF IdleNext

(* mcd212.c:329 and the idle job of main.c: outside a job the board is     *)
(* where single quanta would have put it, for every set of device periods, *)
(* every limit of the job and every sequence of pumps.                     *)
THEOREM JobExact == IdleSpec => []JobIsTicking
<1>1. IdleInv => JobIsTicking
  BY DEF IdleInv
<1> QED
  BY <1>1, InitIdle, IdleStep, PTL DEF IdleSpec

(***************************************************************************)
(* The copies another thread makes of a field.                             *)
(***************************************************************************)
StoreNames == {"sequence", "buffer", "height", "hash", "content", "generation", "swap",
               "copy1", "copy2"}

\* The three lists of stores, and the place of the generation in them.
Kinds == {"same", "kept", "copied"}
List(kind) ==
    CASE kind = "same" -> Stores(FALSE, FALSE)
      [] kind = "kept" -> Stores(TRUE, FALSE)
      [] kind = "copied"  -> Stores(TRUE, TRUE)
Gen(kind) == IF kind = "same" THEN 4 ELSE 6

\* What the reader is shown, what is drawn, and the record of either.
Shown == Prefix(frame[video.published], video.published_height)
Drawn == Prefix(frame[video.drawing], video.height)

Was == /\ history[video.generation + 1] = [height |-> video.published_height, image |-> Shown,
                                           content |-> video.content]
       /\ video.generation # 0 => video.hash = Shown
Settled == Len(history) = video.generation + 1 /\ Was
Awaited(content) ==
    /\ Len(history) = video.generation + 2
    /\ history[video.generation + 2] = [height |-> video.height, image |-> Drawn,
                                        content |-> content]

\* The publisher before store k of its list.
WriterAt(kind, k) ==
    /\ k <= Gen(kind) =>
          Awaited(IF kind # "same" /\ k <= 5 THEN video.content + 1 ELSE video.content)
    /\ k = 1 => Was /\ video.drawing = 1 - video.published
    /\ k \in 3 .. Gen(kind) => video.published = video.drawing
    /\ k \in 4 .. Gen(kind) => video.published_height = video.height
    /\ k <= Gen(kind) /\ (kind = "same" \/ k > 4) => video.hash = Drawn
    /\ k > Gen(kind) => /\ Settled /\ video.generation # 0
                        /\ video.drawing = IF k <= Gen(kind) + 2 THEN video.published
                                           ELSE 1 - video.published
    /\ video.sequence % 2 = IF k \in 2 .. Gen(kind) + 1 THEN 1 ELSE 0

Resting == /\ ending = << >> /\ Settled
           /\ video.drawing = 1 - video.published /\ video.sequence % 2 = 0
Ending(kind, k) == /\ ending = SubSeq(List(kind), k, Len(List(kind)))
                   /\ WriterAt(kind, k)

VideoSet == [sequence : Nat, published : 0 .. 1, drawing : 0 .. 1, height : Words,
             published_height : Words, generation : Nat, content : Nat, hash : Seq(Shades)]

RecordSet == [height : Words, image : Seq(Shades), content : Nat]

ShareTypes ==
    /\ frame \in [0 .. 1 -> [Words -> Shades]]
    /\ video \in VideoSet
    /\ history \in Seq(RecordSet)

WriterInv ==
    /\ ShareTypes
    /\ Resting \/ \E kind \in Kinds : \E k \in 1 .. Len(List(kind)) : Ending(kind, k)

-----------------------------------------------------------------------------
LEMMA Rest ==
    ASSUME NEW S, NEW s \in Seq(S), NEW k \in 1 .. Len(s)
    PROVE  /\ SubSeq(s, k, Len(s)) # << >> /\ Head(SubSeq(s, k, Len(s))) = s[k]
           /\ Tail(SubSeq(s, k, Len(s))) = SubSeq(s, k + 1, Len(s))
<1>1. Len(s) \in k .. Len(s)
  OBVIOUS
<1>2. Len(SubSeq(s, k, Len(s))) # 0
  OBVIOUS
<1>3. SubSeq(s, k, Len(s)) # << >>
  <2>1. PICK r : r = SubSeq(s, k, Len(s))
    OBVIOUS
  <2>2. Len(r) # 0
    BY <1>2, <2>1
  <2>3. Len(<< >>) = 0
    OBVIOUS
  <2>4. r # << >>
    BY <2>2, <2>3, Zenon
  <2> QED BY <2>1, <2>4, Zenon
<1>4. /\ Head(SubSeq(s, k, Len(s))) = s[k]
      /\ Tail(SubSeq(s, k, Len(s))) = SubSeq(s, k + 1, Len(s))
  BY <1>1, HeadTailOfSubSeq, Zenon
<1> QED BY <1>3, <1>4, Zenon

LEMMA ListSame ==
    /\ List("same") \in Seq(StoreNames) /\ Len(List("same")) = 6
    /\ List("same")[1] = "sequence" /\ List("same")[2] = "buffer" /\ List("same")[3] = "height"
    /\ List("same")[4] = "generation" /\ List("same")[5] = "sequence" /\ List("same")[6] = "swap"
<1> DEFINE l == <<"sequence", "buffer", "height", "generation", "sequence", "swap">>
<1>1. List("same") = l
  BY DEF List, Stores
<1>2. l \in Seq(StoreNames) 
  BY DEF StoreNames
<1>3. /\ Len(l) = 6
      /\ l[1] = "sequence" /\ l[2] = "buffer" /\ l[3] = "height" /\ l[4] = "generation" /\ l[5] = "sequence"
      /\ l[6] = "swap"
  OBVIOUS
<1> HIDE DEF l
<1> QED BY <1>1, <1>2, <1>3, Zenon

LEMMA ListKept ==
    /\ List("kept") \in Seq(StoreNames) /\ Len(List("kept")) = 8
    /\ List("kept")[1] = "sequence" /\ List("kept")[2] = "buffer" /\ List("kept")[3] = "height"
    /\ List("kept")[4] = "hash" /\ List("kept")[5] = "content" /\ List("kept")[6] = "generation"
    /\ List("kept")[7] = "sequence" /\ List("kept")[8] = "swap"
<1> DEFINE l == <<"sequence", "buffer", "height", "hash", "content", "generation", "sequence", "swap">>
<1>1. List("kept") = l
  BY DEF List, Stores
<1>2. l \in Seq(StoreNames)
  BY DEF StoreNames
<1>3. /\ Len(l) = 8
      /\ l[1] = "sequence" /\ l[2] = "buffer" /\ l[3] = "height" /\ l[4] = "hash" /\ l[5] = "content"
      /\ l[6] = "generation" /\ l[7] = "sequence" /\ l[8] = "swap"
  OBVIOUS
<1> HIDE DEF l
<1> QED BY <1>1, <1>2, <1>3, Zenon

LEMMA ListNew ==
    /\ List("copied") \in Seq(StoreNames) /\ Len(List("copied")) = 10
    /\ List("copied")[1] = "sequence" /\ List("copied")[2] = "buffer" /\ List("copied")[3] = "height"
    /\ List("copied")[4] = "hash" /\ List("copied")[5] = "content" /\ List("copied")[6] = "generation"
    /\ List("copied")[7] = "sequence" /\ List("copied")[8] = "swap"
    /\ List("copied")[9] = "copy1" /\ List("copied")[10] = "copy2"
<1> DEFINE l == <<"sequence", "buffer", "height", "hash", "content", "generation", "sequence", "swap",
                  "copy1", "copy2">>
<1>1. List("copied") = l
  BY DEF List, Stores
<1>2. l \in Seq(StoreNames)
  BY DEF StoreNames
<1>3. /\ Len(l) = 10
      /\ l[1] = "sequence" /\ l[2] = "buffer" /\ l[3] = "height" /\ l[4] = "hash" /\ l[5] = "content"
      /\ l[6] = "generation" /\ l[7] = "sequence" /\ l[8] = "swap" /\ l[9] = "copy1" /\ l[10] = "copy2"
  OBVIOUS
<1> HIDE DEF l
<1> QED BY <1>1, <1>2, <1>3, Zenon

\* Where the publisher stands decides its next store.
LEMMA NextStore ==
    ASSUME NEW kind \in Kinds, NEW k \in 1 .. Len(List(kind))
    PROVE  LET g == Gen(kind)
           IN  \/ k \in {1, g + 1} /\ List(kind)[k] = "sequence"
               \/ k = 2 /\ List(kind)[k] = "buffer"
               \/ k = 3 /\ List(kind)[k] = "height"
               \/ kind # "same" /\ k = 4 /\ List(kind)[k] = "hash"
               \/ kind # "same" /\ k = 5 /\ List(kind)[k] = "content"
               \/ k = g /\ List(kind)[k] = "generation"
               \/ k = g + 2 /\ List(kind)[k] = "swap"
               \/ kind = "copied" /\ k = g + 3 /\ List(kind)[k] = "copy1"
               \/ kind = "copied" /\ k = g + 4 /\ List(kind)[k] = "copy2"
<1>1. CASE kind = "same"
  <2>1. k \in 1 .. 6
    BY <1>1, ListSame
  <2>2. k = 1 \/ k = 2 \/ k = 3 \/ k = 4 \/ k = 5 \/ k = 6
    BY <2>1
  <2> QED BY <1>1, <2>2, ListSame DEF Gen
<1>2. CASE kind = "kept"
  <2>1. k \in 1 .. 8
    BY <1>2, ListKept
  <2>2. k = 1 \/ k = 2 \/ k = 3 \/ k = 4 \/ k = 5 \/ k = 6 \/ k = 7 \/ k = 8
    BY <2>1
  <2> QED BY <1>2, <2>2, ListKept DEF Gen
<1>3. CASE kind = "copied"
  <2>1. k \in 1 .. 10
    BY <1>3, ListNew
  <2>2. k = 1 \/ k = 2 \/ k = 3 \/ k = 4 \/ k = 5 \/ k = 6 \/ k = 7 \/ k = 8 \/ k = 9 \/ k = 10
    BY <2>1
  <2>3. Gen(kind) = 6 /\ Gen(kind) + 1 = 7 /\ Gen(kind) + 2 = 8 /\ Gen(kind) + 3 = 9
        /\ Gen(kind) + 4 = 10
    BY <1>3 DEF Gen
  <2>4. kind # "same"
    BY <1>3
  <2>5. List(kind) = List("copied")
    BY <1>3
  <2> QED BY <1>3, <2>2, <2>3, <2>4, <2>5, ListNew, ZenonT(60)
<1> QED BY <1>1, <1>2, <1>3 DEF Kinds

-----------------------------------------------------------------------------
(* The publisher. *)

LEMMA PrefixType ==
    ASSUME NEW b \in [Words -> Shades], NEW h \in Words
    PROVE  Prefix(b, h) \in Seq(Shades)
<1>1. h \in Int /\ 1 \in Int /\ \A i \in 1 .. h : b[i] \in Shades
  BY DEF Words
<1>2. SubSeq(b, 1, h) \in Seq(Shades)
  BY <1>1, SubSeqProperties
<1> QED BY <1>2 DEF Prefix

LEMMA ListType ==
    ASSUME NEW kind \in Kinds
    PROVE  /\ List(kind) \in Seq(StoreNames)
           /\ Len(List(kind)) = IF kind = "same" THEN 6 ELSE IF kind = "kept" THEN 8 ELSE 10
BY ListSame, ListKept, ListNew DEF Kinds

\* A store takes the publisher to the next place of its list, or ends it.
LEMMA StoreMoves ==
    ASSUME NEW kind \in Kinds, NEW k \in 1 .. Len(List(kind)),
           ending = SubSeq(List(kind), k, Len(List(kind))), Store
    PROVE  /\ Head(ending) = List(kind)[k]
           /\ ending' = SubSeq(List(kind), k + 1, Len(List(kind)))
           /\ k = Len(List(kind)) => ending' = << >>
<1>1. /\ Head(ending) = List(kind)[k] /\ Tail(ending) = SubSeq(List(kind), k + 1, Len(List(kind)))
  BY ListType, Rest
<1>2. Len(List(kind)) \in Nat
  BY ListType
<1>3. k = Len(List(kind)) => SubSeq(List(kind), k + 1, Len(List(kind))) = << >>
  <2> HAVE k = Len(List(kind))
  <2>1. k + 1 \in Int /\ Len(List(kind)) \in Int /\ Len(List(kind)) < k + 1
    BY <1>2
  <2> QED BY <2>1, SubSeqEmpty
<1> QED BY <1>1, <1>3 DEF Store

LEMMA Parity ==
    ASSUME NEW n \in Nat
    PROVE  n % 2 \in {0, 1} /\ (n + 1) % 2 = 1 - (n % 2)
OBVIOUS

LEMMA SequenceKeeps ==
    ASSUME ShareTypes, NEW kind \in Kinds, NEW k \in 1 .. Len(List(kind)), WriterAt(kind, k),
           k \in {1, Gen(kind) + 1},
           video' = [video EXCEPT !.sequence = @ + 1], UNCHANGED <<frame, history>>
    PROVE  ShareTypes' /\ WriterAt(kind, k + 1)'
<1>1. /\ video'.published = video.published /\ video'.drawing = video.drawing
      /\ video'.height = video.height /\ video'.published_height = video.published_height
      /\ video'.generation = video.generation /\ video'.content = video.content
      /\ video'.hash = video.hash /\ video'.sequence = video.sequence + 1
      /\ video' \in VideoSet
  BY SMTT(60) DEF ShareTypes, VideoSet
<1>2. video.sequence % 2 \in {0, 1} /\ video'.sequence % 2 = 1 - (video.sequence % 2)
  BY <1>1, Parity DEF ShareTypes, VideoSet
<1>3. Gen(kind) \in {4, 6}
  BY DEF Gen
<1>4. ShareTypes'
  BY <1>1 DEF ShareTypes
<1>5. CASE k = 1
  <2>1. Awaited(IF kind # "same" THEN video.content + 1 ELSE video.content)
        /\ (kind = "same" => video.hash = Drawn) /\ video.sequence % 2 = 0
    BY <1>3, <1>5 DEF WriterAt
  <2>2. Awaited(IF kind # "same" THEN video.content + 1 ELSE video.content)'
        /\ (kind = "same" => video.hash = Drawn)'
    BY <1>1, <2>1 DEF Awaited, Drawn
  <2> QED BY <1>2, <1>3, <1>4, <1>5, <2>1, <2>2 DEF WriterAt
<1>6. CASE k = Gen(kind) + 1
  <2>1. Settled /\ video.generation # 0 /\ video.drawing = video.published /\ video.sequence % 2 = 1
    BY <1>3, <1>6 DEF WriterAt
  <2>2. Settled' /\ video'.generation # 0 /\ video'.drawing = video'.published
    BY <1>1, <2>1 DEF Settled, Was, Shown
  <2> QED BY <1>2, <1>3, <1>4, <1>6, <2>1, <2>2 DEF WriterAt
<1> QED
  BY <1>5, <1>6

LEMMA BufferKeeps ==
    ASSUME ShareTypes, NEW kind \in Kinds, NEW k \in 1 .. Len(List(kind)), WriterAt(kind, k),
           k = 2,
           video' = [video EXCEPT !.published = video.drawing], UNCHANGED <<frame, history>>
    PROVE  ShareTypes' /\ WriterAt(kind, k + 1)'
<1>1. /\ video'.sequence = video.sequence /\ video'.drawing = video.drawing /\ video'.height = video.height
      /\ video'.published_height = video.published_height /\ video'.generation = video.generation
      /\ video'.content = video.content /\ video'.hash = video.hash
      /\ video'.published = video.drawing /\ video' \in VideoSet
  BY DEF ShareTypes, VideoSet
<1>2. Gen(kind) \in {4, 6} /\ (kind # "same" => Gen(kind) = 6)
  BY DEF Gen
<1>3. ShareTypes'
  BY <1>1 DEF ShareTypes
<1>4. Awaited(IF kind # "same" THEN video.content + 1 ELSE video.content)
      /\ (kind = "same" => video.hash = Drawn) /\ video.sequence % 2 = 1
  BY <1>2 DEF WriterAt
<1>5. Awaited(IF kind # "same" THEN video.content + 1 ELSE video.content)'
      /\ (kind = "same" => video.hash = Drawn)'
  BY <1>1, <1>4 DEF Awaited, Drawn
<1> QED BY <1>1, <1>2, <1>3, <1>4, <1>5 DEF WriterAt

LEMMA HeightKeeps ==
    ASSUME ShareTypes, NEW kind \in Kinds, NEW k \in 1 .. Len(List(kind)), WriterAt(kind, k),
           k = 3,
           video' = [video EXCEPT !.published_height = video.height], UNCHANGED <<frame, history>>
    PROVE  ShareTypes' /\ WriterAt(kind, k + 1)'
<1>1. /\ video'.sequence = video.sequence /\ video'.published = video.published /\ video'.drawing = video.drawing
      /\ video'.height = video.height /\ video'.generation = video.generation
      /\ video'.content = video.content /\ video'.hash = video.hash
      /\ video'.published_height = video.height /\ video' \in VideoSet
  BY DEF ShareTypes, VideoSet
<1>2. Gen(kind) \in {4, 6} /\ (kind # "same" => Gen(kind) = 6)
  BY DEF Gen
<1>3. ShareTypes'
  BY <1>1 DEF ShareTypes
<1>4. Awaited(IF kind # "same" THEN video.content + 1 ELSE video.content)
      /\ (kind = "same" => video.hash = Drawn) /\ video.published = video.drawing
      /\ video.sequence % 2 = 1
  BY <1>2 DEF WriterAt
<1>5. Awaited(IF kind # "same" THEN video.content + 1 ELSE video.content)'
      /\ (kind = "same" => video.hash = Drawn)'
  BY <1>1, <1>4 DEF Awaited, Drawn
<1> QED BY <1>1, <1>2, <1>3, <1>4, <1>5 DEF WriterAt

LEMMA HashKeeps ==
    ASSUME ShareTypes, NEW kind \in Kinds, NEW k \in 1 .. Len(List(kind)), WriterAt(kind, k),
           kind # "same", k = 4,
           video' = [video EXCEPT !.hash = Drawn], UNCHANGED <<frame, history>>
    PROVE  ShareTypes' /\ WriterAt(kind, k + 1)'
<1>1. /\ video'.sequence = video.sequence /\ video'.published = video.published /\ video'.drawing = video.drawing
      /\ video'.height = video.height /\ video'.published_height = video.published_height
      /\ video'.generation = video.generation /\ video'.content = video.content
      /\ video'.hash = Drawn /\ video' \in VideoSet
  BY PrefixType DEF ShareTypes, VideoSet, Drawn
<1>2. Gen(kind) \in {4, 6} /\ (kind # "same" => Gen(kind) = 6)
  BY DEF Gen
<1>3. ShareTypes'
  BY <1>1 DEF ShareTypes
<1>4. Awaited(video.content + 1)
      /\ video.published = video.drawing /\ video.published_height = video.height
      /\ video.sequence % 2 = 1
  BY <1>2 DEF WriterAt
<1>5. Awaited(video.content + 1)' /\ video'.hash = Drawn'
  BY <1>1, <1>4 DEF Awaited, Drawn
<1> QED BY <1>1, <1>2, <1>3, <1>4, <1>5 DEF WriterAt

LEMMA ContentKeeps ==
    ASSUME ShareTypes, NEW kind \in Kinds, NEW k \in 1 .. Len(List(kind)), WriterAt(kind, k),
           kind # "same", k = 5,
           video' = [video EXCEPT !.content = @ + 1], UNCHANGED <<frame, history>>
    PROVE  ShareTypes' /\ WriterAt(kind, k + 1)'
<1>1. /\ video'.sequence = video.sequence /\ video'.published = video.published /\ video'.drawing = video.drawing
      /\ video'.height = video.height /\ video'.published_height = video.published_height
      /\ video'.generation = video.generation /\ video'.hash = video.hash
      /\ video'.content = video.content + 1 /\ video' \in VideoSet
  BY SMTT(60) DEF ShareTypes, VideoSet
<1>2. Gen(kind) \in {4, 6} /\ (kind # "same" => Gen(kind) = 6)
  BY DEF Gen
<1>3. ShareTypes'
  BY <1>1 DEF ShareTypes
<1>4. Awaited(video.content + 1)
      /\ video.published = video.drawing /\ video.published_height = video.height
      /\ video.hash = Drawn /\ video.sequence % 2 = 1
  BY <1>2 DEF WriterAt
<1>5. Awaited(video.content)' /\ video'.hash = Drawn'
  BY <1>1, <1>4 DEF Awaited, Drawn
<1> QED BY <1>1, <1>2, <1>3, <1>4, <1>5 DEF WriterAt

LEMMA GenerationKeeps ==
    ASSUME ShareTypes, NEW kind \in Kinds, NEW k \in 1 .. Len(List(kind)), WriterAt(kind, k),
           k = Gen(kind),
           video' = [video EXCEPT !.generation = @ + 1], UNCHANGED <<frame, history>>
    PROVE  ShareTypes' /\ WriterAt(kind, k + 1)'
<1>1. /\ video'.sequence = video.sequence /\ video'.published = video.published /\ video'.drawing = video.drawing
      /\ video'.height = video.height /\ video'.published_height = video.published_height
      /\ video'.content = video.content /\ video'.hash = video.hash
      /\ video'.generation = video.generation + 1 /\ video' \in VideoSet
  <2>1. video \in VideoSet /\ video.generation + 1 \in Nat
    BY DEF ShareTypes, VideoSet
  <2> QED BY <2>1 DEF VideoSet
<1>2. Gen(kind) \in {4, 6} /\ (kind # "same" => Gen(kind) = 6)
  BY DEF Gen
<1>3. ShareTypes'
  BY <1>1 DEF ShareTypes
<1>4. Awaited(video.content)
      /\ video.published = video.drawing /\ video.published_height = video.height
      /\ video.hash = Drawn /\ video.sequence % 2 = 1
  BY <1>2 DEF WriterAt
<1>5. video.generation \in Nat
  BY DEF ShareTypes, VideoSet
<1>6. Shown' = Drawn
  BY <1>1, <1>4 DEF Shown, Drawn
<1>7. Settled' /\ video'.generation # 0
  BY <1>1, <1>4, <1>5, <1>6 DEF Awaited, Settled, Was
<1> QED BY <1>1, <1>2, <1>3, <1>4, <1>7 DEF WriterAt

LEMMA SwapKeeps ==
    ASSUME ShareTypes, NEW kind \in Kinds, NEW k \in 1 .. Len(List(kind)), WriterAt(kind, k),
           k = Gen(kind) + 2,
           video' = [video EXCEPT !.drawing = 1 - @], UNCHANGED <<frame, history>>
    PROVE  ShareTypes' /\ WriterAt(kind, k + 1)'
<1>1. /\ video'.sequence = video.sequence /\ video'.published = video.published /\ video'.height = video.height
      /\ video'.published_height = video.published_height /\ video'.generation = video.generation
      /\ video'.content = video.content /\ video'.hash = video.hash
      /\ video'.drawing = 1 - video.drawing /\ video' \in VideoSet
  <2>1. video \in VideoSet /\ 1 - video.drawing \in 0 .. 1
    BY DEF ShareTypes, VideoSet
  <2> QED BY <2>1 DEF VideoSet
<1>2. Gen(kind) \in {4, 6} /\ (kind # "same" => Gen(kind) = 6)
  BY DEF Gen
<1>3. ShareTypes'
  BY <1>1 DEF ShareTypes
<1>4. Settled /\ video.generation # 0 /\ video.drawing = video.published /\ video.sequence % 2 = 0
  BY <1>2 DEF WriterAt
<1>5. Settled' /\ video'.generation # 0 /\ video'.drawing = 1 - video'.published
  BY <1>1, <1>4 DEF Settled, Was, Shown
<1> QED BY <1>1, <1>2, <1>3, <1>4, <1>5 DEF WriterAt

LEMMA CopyKeeps ==
    ASSUME ShareTypes, NEW kind \in Kinds, NEW k \in 1 .. Len(List(kind)), WriterAt(kind, k),
           k \in {Gen(kind) + 3, Gen(kind) + 4}, NEW w \in Words, frame' = CopyWord(w),
           UNCHANGED <<video, history>>
    PROVE  ShareTypes' /\ WriterAt(kind, k + 1)'
<1>1. Gen(kind) \in {4, 6}
  BY DEF Gen
<1>2. Settled /\ video.generation # 0 /\ video.drawing = 1 - video.published /\ video.sequence % 2 = 0
  BY <1>1 DEF WriterAt
<1>3. /\ video.drawing \in 0 .. 1 /\ video.published \in 0 .. 1
      /\ video.drawing # video.published /\ 1 - video.drawing \in 0 .. 1
  BY <1>2 DEF ShareTypes, VideoSet
<1>4. frame' \in [0 .. 1 -> [Words -> Shades]] /\ frame'[video.published] = frame[video.published]
  BY <1>3 DEF CopyWord, ShareTypes
<1>5. ShareTypes'
  BY <1>4 DEF ShareTypes
<1>6. Settled'
  BY <1>2, <1>4 DEF Settled, Was, Shown
<1> QED BY <1>1, <1>2, <1>5, <1>6 DEF WriterAt

\* What a reader can see of the published field.
View == <<video.published, video.published_height, video.generation, video.content, video.hash,
          frame[video.published]>>

Steady == video'.sequence = video.sequence /\ video.sequence % 2 = 0 => View' = View

LEMMA StoreKeeps ==
    ASSUME WriterInv, Store
    PROVE  WriterInv' /\ video'.sequence \in {video.sequence, video.sequence + 1} /\ Steady
<1>0. PICK kind \in Kinds : \E k \in 1 .. Len(List(kind)) : Ending(kind, k)
  BY DEF WriterInv, Resting, Store
<1>1. PICK k \in 1 .. Len(List(kind)) : Ending(kind, k)
  BY <1>0
<1>2. /\ ShareTypes /\ WriterAt(kind, k) /\ UNCHANGED <<reader, history>>
      /\ ending = SubSeq(List(kind), k, Len(List(kind)))
      /\ video' = Stored(Head(ending))
      /\ frame' = CASE Head(ending) = "copy1" -> CopyWord(1)
                    [] Head(ending) = "copy2" -> CopyWord(2)
                    [] OTHER -> frame
  BY <1>1 DEF WriterInv, Ending, Store
<1> DEFINE x == List(kind)[k]
<1>3. /\ Head(ending) = x
      /\ ending' = SubSeq(List(kind), k + 1, Len(List(kind)))
      /\ k = Len(List(kind)) => ending' = << >>
  BY <1>2, StoreMoves
<1> HIDE DEF x
<1>4. /\ video' = Stored(x)
      /\ frame' = CASE x = "copy1" -> CopyWord(1) [] x = "copy2" -> CopyWord(2) [] OTHER -> frame
  BY <1>2, <1>3
<1>5. video \in VideoSet /\ video.sequence \in Nat
  BY <1>2 DEF ShareTypes, VideoSet
<1>6. Gen(kind) \in {4, 6} /\ (kind # "same" => Gen(kind) = 6)
  BY DEF Gen
<1>7. SUFFICES /\ ShareTypes' /\ WriterAt(kind, k + 1)'
               /\ video'.sequence \in {video.sequence, video.sequence + 1} /\ Steady
  <2> SUFFICES ASSUME ShareTypes', WriterAt(kind, k + 1)' PROVE WriterInv'
    OBVIOUS
  <2>1. Len(List(kind)) \in Nat /\ Len(List(kind)) \in {Gen(kind) + 2, Gen(kind) + 4}
    BY ListType DEF Gen, Kinds
  <2>2. CASE k < Len(List(kind))
    <3>1. k + 1 \in 1 .. Len(List(kind))
      BY <2>1, <2>2
    <3>2. Ending(kind, k + 1)'
      BY <1>3 DEF Ending
    <3> QED BY <3>1, <3>2 DEF WriterInv
  <2>3. CASE k = Len(List(kind))
    <3>1. k + 1 > Gen(kind) + 2
      BY <1>6, <2>1, <2>3
    <3>2. /\ Settled' /\ (video.drawing = 1 - video.published)' /\ video'.sequence % 2 = 0
      BY <1>6, <3>1 DEF WriterAt
    <3>3. Resting'
      BY <1>3, <2>3, <3>2 DEF Resting
    <3> QED BY <3>3 DEF WriterInv
  <2> QED BY <2>1, <2>2, <2>3
<1>7a. /\ k \in 2 .. Gen(kind) => video.sequence % 2 = 1
       /\ k > Gen(kind) + 2 => video.drawing = 1 - video.published
  <2>1. k \in Nat
    BY ListType
  <2>2. k \in 2 .. Gen(kind) => k \in 2 .. Gen(kind) + 1
    BY <1>6, <2>1
  <2>3. k > Gen(kind) + 2 => k > Gen(kind) /\ ~(k <= Gen(kind) + 2)
    BY <1>6, <2>1
  <2> QED BY <1>2, <2>2, <2>3 DEF WriterAt
<1>8. CASE k \in {1, Gen(kind) + 1} /\ x = "sequence"
  <2>1. video' = [video EXCEPT !.sequence = @ + 1] /\ frame' = frame
    BY <1>4, <1>8 DEF Stored
  <2>2. ShareTypes' /\ WriterAt(kind, k + 1)'
    BY <1>2, <1>8, <2>1, SequenceKeeps
  <2> QED BY <1>5, <2>1, <2>2 DEF Steady, VideoSet
<1>9. CASE k = 2 /\ x = "buffer"
  <2>1. video' = [video EXCEPT !.published = video.drawing] /\ frame' = frame
    BY <1>4, <1>9 DEF Stored
  <2>2. ShareTypes' /\ WriterAt(kind, k + 1)'
    BY <1>2, <1>9, <2>1, BufferKeeps
  <2>3. video.sequence % 2 = 1
    BY <1>6, <1>7a, <1>9
  <2> QED BY <1>5, <2>1, <2>2, <2>3 DEF Steady, VideoSet
<1>10. CASE k = 3 /\ x = "height"
  <2>1. video' = [video EXCEPT !.published_height = video.height] /\ frame' = frame
    BY <1>4, <1>10 DEF Stored
  <2>2. ShareTypes' /\ WriterAt(kind, k + 1)'
    BY <1>2, <1>10, <2>1, HeightKeeps
  <2>3. video.sequence % 2 = 1
    BY <1>6, <1>7a, <1>10
  <2> QED BY <1>5, <2>1, <2>2, <2>3 DEF Steady, VideoSet
<1>11. CASE kind # "same" /\ k = 4 /\ x = "hash"
  <2>1. video' = [video EXCEPT !.hash = Drawn] /\ frame' = frame
    BY <1>4, <1>11 DEF Stored, Drawn
  <2>2. ShareTypes' /\ WriterAt(kind, k + 1)'
    BY <1>2, <1>11, <2>1, HashKeeps
  <2>3. video.sequence % 2 = 1
    BY <1>6, <1>7a, <1>11
  <2> QED BY <1>5, <2>1, <2>2, <2>3 DEF Steady, VideoSet
<1>12. CASE kind # "same" /\ k = 5 /\ x = "content"
  <2>1. video' = [video EXCEPT !.content = @ + 1] /\ frame' = frame
    BY <1>4, <1>12 DEF Stored
  <2>2. ShareTypes' /\ WriterAt(kind, k + 1)'
    BY <1>2, <1>12, <2>1, ContentKeeps
  <2>3. video.sequence % 2 = 1
    BY <1>6, <1>7a, <1>12
  <2> QED BY <1>5, <2>1, <2>2, <2>3 DEF Steady, VideoSet
<1>13. CASE k = Gen(kind) /\ x = "generation"
  <2>1. video' = [video EXCEPT !.generation = @ + 1] /\ frame' = frame
    BY <1>4, <1>13 DEF Stored
  <2>2. ShareTypes' /\ WriterAt(kind, k + 1)'
    BY <1>2, <1>13, <2>1, GenerationKeeps
  <2>3. video.sequence % 2 = 1
    BY <1>6, <1>7a, <1>13
  <2> QED BY <1>5, <2>1, <2>2, <2>3 DEF Steady, VideoSet
<1>14. CASE k = Gen(kind) + 2 /\ x = "swap"
  <2>1. video' = [video EXCEPT !.drawing = 1 - @] /\ frame' = frame
    BY <1>4, <1>14 DEF Stored
  <2>2. ShareTypes' /\ WriterAt(kind, k + 1)'
    BY <1>2, <1>14, <2>1, SwapKeeps
  <2> QED BY <1>5, <2>1, <2>2 DEF Steady, VideoSet, View
<1>15. ASSUME NEW w \in Words, k \in {Gen(kind) + 3, Gen(kind) + 4},
              frame' = CopyWord(w), video' = video
       PROVE  /\ ShareTypes' /\ WriterAt(kind, k + 1)'
              /\ video'.sequence \in {video.sequence, video.sequence + 1} /\ Steady
  <2>1. ShareTypes' /\ WriterAt(kind, k + 1)'
    BY <1>2, <1>15, CopyKeeps
  <2>2. video.drawing = 1 - video.published
    BY <1>6, <1>7a, <1>15
  <2>3. /\ video.drawing \in 0 .. 1 /\ video.published \in 0 .. 1 /\ video.drawing # video.published
    BY <1>5, <2>2 DEF VideoSet
  <2>4. frame'[video.published] = frame[video.published]
    BY <1>2, <1>15, <2>3 DEF CopyWord, ShareTypes
  <2> QED BY <1>15, <2>1, <2>4 DEF Steady, View
<1>16. CASE k = Gen(kind) + 3 /\ x = "copy1"
  <2>1. video' = video /\ frame' = CopyWord(1)
    BY <1>4, <1>16 DEF Stored
  <2>2. 1 \in Words
    BY DEF Words
  <2> QED BY <1>15, <1>16, <2>1, <2>2
<1>17. CASE k = Gen(kind) + 4 /\ x = "copy2"
  <2>1. video' = video /\ frame' = CopyWord(2)
    BY <1>4, <1>17 DEF Stored
  <2>2. 2 \in Words
    BY DEF Words
  <2> QED BY <1>15, <1>17, <2>1, <2>2
<1> QED
  BY <1>8, <1>9, <1>10, <1>11, <1>12, <1>13, <1>14, <1>16, <1>17, NextStore, ZenonT(60) DEF x

LEMMA RestingWhenDone ==
    ASSUME WriterInv, ending = << >>
    PROVE  ShareTypes /\ Resting
<1>1. ASSUME NEW kind \in Kinds, NEW k \in 1 .. Len(List(kind)), Ending(kind, k) PROVE FALSE
  BY <1>1, ListType, Rest DEF Ending
<1> QED BY <1>1 DEF WriterInv

LEMMA DrawKeeps ==
    ASSUME WriterInv, NEW w \in Words, NEW shade \in Shades, ShareDraw(w, shade)
    PROVE  WriterInv' /\ video' = video /\ history' = history /\ Steady
<1>1. ShareTypes /\ Resting /\ UNCHANGED <<video, ending, reader, history>>
      /\ frame' = [frame EXCEPT ![video.drawing][w] = shade]
  BY RestingWhenDone DEF ShareDraw, MayDraw
<1>2. /\ video.drawing \in 0 .. 1 /\ video.published \in 0 .. 1 /\ video.drawing # video.published
  BY <1>1 DEF ShareTypes, VideoSet, Resting
<1>3. frame' \in [0 .. 1 -> [Words -> Shades]] /\ frame'[video.published] = frame[video.published]
  BY <1>1, <1>2 DEF ShareTypes
<1>4. ShareTypes' /\ Resting'
  BY <1>1, <1>3 DEF ShareTypes, Resting, Settled, Was, Shown
<1>5. Steady
  BY <1>1, <1>3 DEF Steady, View
<1> QED BY <1>1, <1>4, <1>5 DEF WriterInv

LEMMA GeometryKeeps ==
    ASSUME WriterInv, NEW height \in Words, ShareGeometry(height)
    PROVE  WriterInv' /\ video'.sequence = video.sequence /\ history' = history /\ Steady
<1>1. ShareTypes /\ Resting /\ UNCHANGED <<frame, ending, reader, history>>
      /\ video' = [video EXCEPT !.height = height]
  BY RestingWhenDone DEF ShareGeometry, MayDraw
<1>2. /\ video'.sequence = video.sequence /\ video'.published = video.published
      /\ video'.drawing = video.drawing /\ video'.published_height = video.published_height
      /\ video'.generation = video.generation /\ video'.content = video.content
      /\ video'.hash = video.hash /\ video' \in VideoSet
  BY <1>1 DEF ShareTypes, VideoSet
<1>3. ShareTypes' /\ Resting'
  BY <1>1, <1>2 DEF ShareTypes, Resting, Settled, Was, Shown
<1>4. Steady
  BY <1>1, <1>2 DEF Steady, View
<1> QED BY <1>1, <1>2, <1>3, <1>4 DEF WriterInv

LEMMA EndFrameKeeps ==
    ASSUME WriterInv, EndFrame
    PROVE  /\ WriterInv' /\ video' = video /\ Steady
           /\ \E record \in RecordSet : history' = Append(history, record)
<1> DEFINE content == IF SameField THEN video.content ELSE video.content + 1
           record == Record(video.height, frame[video.drawing], content)
<1>1. /\ ShareTypes /\ Resting /\ UNCHANGED <<frame, video, reader>>
      /\ ending' = Stores(~SameField, ~SamePixels) /\ history' = Append(history, record)
  BY RestingWhenDone DEF EndFrame, MayDraw
<1>2. /\ video \in VideoSet /\ video.drawing \in 0 .. 1 /\ video.published \in 0 .. 1
      /\ video.height \in Words /\ video.content \in Nat /\ video.generation \in Nat
      /\ frame \in [0 .. 1 -> [Words -> Shades]] /\ history \in Seq(RecordSet)
  BY <1>1 DEF ShareTypes, VideoSet
<1>3. record = [height |-> video.height, image |-> Drawn, content |-> content]
  BY DEF Record, Drawn
<1>4. content \in Nat /\ Drawn \in Seq(Shades)
  BY <1>2, PrefixType DEF Drawn
<1> HIDE DEF content, record
<1>5. record \in RecordSet
  BY <1>2, <1>3, <1>4 DEF RecordSet
<1>6. /\ history' \in Seq(RecordSet) /\ Len(history') = Len(history) + 1
      /\ \A i \in 1 .. Len(history) : history'[i] = history[i]
      /\ history'[Len(history) + 1] = record
  BY <1>1, <1>2, <1>5, AppendProperties
<1>7. /\ Len(history) = video.generation + 1 /\ Was
      /\ video.drawing = 1 - video.published /\ video.sequence % 2 = 0
  BY <1>1 DEF Resting, Settled
<1>8. /\ ShareTypes' /\ Steady
  BY <1>1, <1>6 DEF ShareTypes, Steady, View
<1>9. Was' /\ Awaited(content)'
  <2>1. video.generation + 1 \in 1 .. Len(history)
    BY <1>2, <1>7
  <2>2. Shown' = Shown /\ Drawn' = Drawn
    BY <1>1 DEF Shown, Drawn
  <2>3. history'[video.generation + 1] = history[video.generation + 1]
    BY <1>6, <2>1
  <2>4. Len(history') = video.generation + 2 /\ history'[video.generation + 2] = record
    BY <1>2, <1>6, <1>7
  <2>5. Was'
    BY <1>1, <1>7, <2>2, <2>3 DEF Was
  <2>6. content' = content
    BY <1>1 DEF content, SameField, SamePixels
  <2>7. Awaited(content)'
    BY <1>1, <1>3, <2>2, <2>4, <2>6 DEF Awaited
  <2> QED BY <2>5, <2>7
<1>10. ASSUME NEW kind \in Kinds, ending' = List(kind),
              content = (IF kind # "same" THEN video.content + 1 ELSE video.content),
              kind = "same" => video.hash = Drawn
       PROVE  WriterInv'
  <2>1. List(kind) \in Seq(StoreNames) /\ Len(List(kind)) \in Nat /\ 1 \in 1 .. Len(List(kind))
    <3>1. List(kind) \in Seq(StoreNames) /\ Len(List(kind)) \in {6, 8, 10}
      BY ListType
    <3>2. \A n \in {6, 8, 10} : n \in Nat /\ 1 \in 1 .. n
      OBVIOUS
    <3> QED BY <3>1, <3>2, Zenon
  <2>2. ending' = SubSeq(List(kind), 1, Len(List(kind)))
    BY <1>10, <2>1, SubSeqFull
  <2>3. Gen(kind) \in {4, 6}
    BY DEF Gen
  <2>4. /\ Awaited(IF kind # "same" THEN video.content + 1 ELSE video.content)'
        /\ (kind = "same" => video.hash = Drawn)'
    <3>1. content' = content
      BY <1>1 DEF content, SameField, SamePixels
    <3>2. Drawn' = Drawn
      BY <1>1 DEF Drawn
    <3> QED BY <1>1, <1>9, <1>10, <3>1, <3>2
  <2>5. WriterAt(kind, 1)'
    BY <1>1, <1>7, <1>9, <2>3, <2>4 DEF WriterAt
  <2>6. Ending(kind, 1)'
    BY <2>2, <2>5 DEF Ending
  <2> QED BY <1>8, <2>1, <2>6 DEF WriterInv
<1>11. WriterInv'
  <2>1. CASE SameField
    <3>1. ending' = List("same")
      <4>1. (~SameField) = FALSE
        BY <2>1
      <4>2. ending' = Stores(FALSE, ~SamePixels)
        BY <1>1, <4>1
      <4> QED BY <4>2 DEF Stores, List
    <3>2. video.hash = Drawn
      <4>1. /\ video.generation # 0 /\ video.height = video.published_height
            /\ Prefix(frame[0], video.height) = Prefix(frame[1], video.height)
        BY <2>1 DEF SameField, SamePixels
      <4>2. video.hash = Shown
        BY <1>7, <4>1 DEF Was
      <4>3. (video.published = 0 /\ video.drawing = 1) \/ (video.published = 1 /\ video.drawing = 0)
        BY <1>2, <1>7
      <4> QED BY <4>1, <4>2, <4>3 DEF Shown, Drawn
    <3>3. content = video.content
      BY <2>1 DEF content
    <3>4. "same" \in Kinds
      BY DEF Kinds
    <3> QED BY <1>10, <3>1, <3>2, <3>3, <3>4
  <2>2. CASE ~SameField /\ SamePixels
    <3>1. ending' = List("kept")
      <4>1. (~SameField) = TRUE /\ (~SamePixels) = FALSE
        BY <2>2
      <4>2. ending' = Stores(TRUE, FALSE)
        BY <1>1, <4>1
      <4> QED BY <4>2 DEF List
    <3>2. content = video.content + 1
      BY <2>2 DEF content
    <3>3. "kept" \in Kinds /\ "kept" # "same"
      BY DEF Kinds
    <3> QED BY <1>10, <3>1, <3>2, <3>3
  <2>3. CASE ~SameField /\ ~SamePixels
    <3>1. ending' = List("copied")
      <4>1. (~SameField) = TRUE /\ (~SamePixels) = TRUE
        BY <2>3
      <4>2. ending' = Stores(TRUE, TRUE)
        BY <1>1, <4>1
      <4> QED BY <4>2 DEF List
    <3>2. content = video.content + 1
      BY <2>3 DEF content
    <3>3. "copied" \in Kinds /\ "copied" # "same"
      BY DEF Kinds
    <3> QED BY <1>10, <3>1, <3>2, <3>3
  <2> QED BY <2>1, <2>2, <2>3
<1> QED BY <1>1, <1>5, <1>8, <1>11

\* While the counter is even the published field is the one of the record.
LEMMA EvenIsWhole ==
    ASSUME WriterInv, video.sequence % 2 = 0
    PROVE  Was /\ video.generation + 1 \in 1 .. Len(history)
<1>1. video.generation \in Nat /\ Len(history) \in Nat
  BY DEF WriterInv, ShareTypes, VideoSet
<1>2. CASE Resting
  BY <1>1, <1>2 DEF Resting, Settled
<1>3. ASSUME NEW kind \in Kinds, NEW k \in 1 .. Len(List(kind)), Ending(kind, k)
      PROVE  Was /\ video.generation + 1 \in 1 .. Len(history)
  <2>1. WriterAt(kind, k) /\ k \in Nat
    BY <1>3, ListType DEF Ending
  <2>2. Gen(kind) \in {4, 6}
    BY DEF Gen
  <2>3. k = 1 \/ k > Gen(kind)
    BY <2>1, <2>2 DEF WriterAt
  <2>4. CASE k = 1
    <3>1. Was /\ Len(history) = video.generation + 2
      BY <2>1, <2>2, <2>4 DEF WriterAt, Awaited
    <3> QED BY <1>1, <3>1
  <2>5. CASE k > Gen(kind)
    <3>1. Was /\ Len(history) = video.generation + 1
      BY <2>1, <2>5 DEF WriterAt, Settled
    <3> QED BY <1>1, <3>1
  <2> QED BY <2>3, <2>4, <2>5
<1> QED BY <1>2, <1>3 DEF WriterInv

-----------------------------------------------------------------------------
(* The reader. *)

Got(image, buffer, generation, content) ==
    [height |-> video.published_height, image |-> image, buffer |-> buffer,
     generation |-> generation, content |-> content]
First == <<frame[video.published][1]>>

Before(left, got) == reader.left = left /\ reader.got = got

CopyProgress ==
    \/ reader.left = Loads.copy
    \/ Before(<<"buffer", "word1", "word2", "generation">>, Got(<< >>, 0, 0, 0))
    \/ Before(<<"word1", "word2", "generation">>, Got(<< >>, video.published, 0, 0))
    \/ Before(<<"word2", "generation">>, Got(First, video.published, 0, 0))
    \/ Before(<<"generation">>, Got(Shown, video.published, 0, 0))
    \/ Before(<< >>, Got(Shown, video.published, video.generation, 0))

\* The caller of a changed copy has this field already.
Known == video.generation = 0 \/ video.content = reader.previous

ChangedProgress ==
    \/ reader.left = Loads.changed
    \/ Before(<<"generation", "content", "buffer", "word1", "word2">>, Got(<< >>, 0, 0, 0))
    \/ Before(<<"content", "buffer", "word1", "word2">>, Got(<< >>, 0, video.generation, 0))
    \/ Before(<<"buffer", "word1", "word2">>, Got(<< >>, 0, video.generation, video.content))
    \/ ~Known /\ Before(<<"word1", "word2">>,
                        Got(<< >>, video.published, video.generation, video.content))
    \/ ~Known /\ Before(<<"word2">>, Got(First, video.published, video.generation, video.content))
    \/ ~Known /\ Before(<< >>, Got(Shown, video.published, video.generation, video.content))
    \/ Known /\ Before(<< >>, Got(<< >>, 0, video.generation, video.content))

HashProgress ==
    \/ reader.left = Loads.hash
    \/ Before(<<"buffer", "generation", "hash">>, Got(<< >>, 0, 0, 0))
    \/ Before(<<"generation", "hash">>, Got(<< >>, video.published, 0, 0))
    \/ Before(<<"hash">>, Got(<< >>, video.published, video.generation, 0))
    \/ Before(<< >>, Got(Shown, video.published, video.generation, 0))

Progress ==
    /\ reader.call = "copy" => CopyProgress
    /\ reader.call = "changed" => ChangedProgress
    /\ reader.call = "hash" => HashProgress

ReaderInv ==
    /\ reader = [left |-> reader.left, before |-> reader.before, got |-> reader.got,
                 at |-> reader.at, call |-> reader.call, previous |-> reader.previous]
    /\ reader.call \in {"copy", "changed", "hash"}
    /\ reader.at = "load" =>
         /\ reader.before \in Nat /\ reader.before % 2 = 0 /\ reader.before <= video.sequence
         /\ reader.before = video.sequence => Progress
    /\ reader.at = "done" => reader.got.generation + 1 \in 1 .. Len(history)
    /\ CopyIsWhole

LEMMA PrefixIs ==
    ASSUME NEW b \in [Words -> Shades]
    PROVE  /\ Prefix(b, 1) = <<b[1]>>
           /\ Prefix(b, 2) = <<b[1], b[2]>>
           /\ << >> \o <<b[1]>> = <<b[1]>> /\ <<b[1]>> \o << >> = <<b[1]>>
           /\ <<b[1]>> \o <<b[2]>> = <<b[1], b[2]>>
<1>1. b[1] \in Shades /\ b[2] \in Shades
  BY DEF Words
<1>2. <<b[1]>> \in Seq(Shades) /\ <<b[2]>> \in Seq(Shades) /\ << >> \in Seq(Shades)
      /\ <<b[1], b[2]>> \in Seq(Shades)
  BY <1>1
<1>3. \A i \in 1 .. 2 : b[i] \in Shades
  BY DEF Words
<1>4. /\ Prefix(b, 1) \in Seq(Shades) /\ Len(Prefix(b, 1)) = 1 /\ Prefix(b, 1)[1] = b[1]
  BY <1>3, SubSeqProperties DEF Prefix
<1>5. /\ Prefix(b, 2) \in Seq(Shades) /\ Len(Prefix(b, 2)) = 2 /\ Prefix(b, 2)[1] = b[1]
      /\ Prefix(b, 2)[2] = b[2]
  BY <1>3, SubSeqProperties DEF Prefix
<1>6. Prefix(b, 1) = <<b[1]>>
  <2>1. \A i \in 1 .. Len(Prefix(b, 1)) : Prefix(b, 1)[i] = <<b[1]>>[i]
    BY <1>4
  <2>2. Len(<<b[1]>>) = Len(Prefix(b, 1))
    BY <1>4
  <2> QED BY <1>2, <1>4, <2>1, <2>2, SeqEqual
<1>7. Prefix(b, 2) = <<b[1], b[2]>>
  <2>1. \A i \in 1 .. Len(Prefix(b, 2)) : Prefix(b, 2)[i] = <<b[1], b[2]>>[i]
    <3>1. \A i \in 1 .. Len(Prefix(b, 2)) : i = 1 \/ i = 2
      BY <1>5
    <3> QED BY <1>5, <3>1
  <2>2. Len(<<b[1], b[2]>>) = Len(Prefix(b, 2))
    BY <1>5
  <2> QED BY <1>2, <1>5, <2>1, <2>2, SeqEqual
<1>8. << >> \o <<b[1]>> = <<b[1]>> /\ <<b[1]>> \o << >> = <<b[1]>>
  BY <1>2, ConcatEmptySeq
<1>9. <<b[1]>> \o <<b[2]>> = <<b[1], b[2]>>
  <2>1. Append(<<b[1]>>, b[2]) = <<b[1]>> \o <<b[2]>>
    BY <1>1, <1>2, AppendIsConcat
  <2>2. Append(<<b[1]>>, b[2]) = <<b[1], b[2]>>
    <3> DEFINE s == Append(<<b[1]>>, b[2])
               t == <<b[1], b[2]>>
    <3>1. Len(<<b[1]>>) = 1 /\ <<b[1]>>[1] = b[1]
      OBVIOUS
    <3>2. s \in Seq(Shades) /\ Len(s) = 2 /\ s[1] = b[1] /\ s[2] = b[2]
      BY <1>1, <1>2, <3>1, AppendProperties
    <3>3. t \in Seq(Shades) /\ Len(t) = 2 /\ t[1] = b[1] /\ t[2] = b[2]
      BY <1>2
    <3> HIDE DEF s, t
    <3>4. \A i \in 1 .. Len(s) : s[i] = t[i]
      <4>1. \A i \in 1 .. 2 : i = 1 \/ i = 2
        OBVIOUS
      <4> QED BY <3>2, <3>3, <4>1
    <3>5. s = t
      BY <3>2, <3>3, <3>4, SeqEqual
    <3> QED BY <3>5 DEF s, t
  <2> QED BY <2>1, <2>2
<1> QED BY <1>6, <1>7, <1>8, <1>9


\* What each load adds to what the reader has, as long as it looks at one field.
LEMMA LoadedIs ==
    /\ Loaded("buffer") = [reader.got EXCEPT !.buffer = video.published]
    /\ Loaded("generation") = [reader.got EXCEPT !.generation = video.generation]
    /\ Loaded("content") = [reader.got EXCEPT !.content = video.content]
BY DEF Loaded

LEMMA ImageSet ==
    ASSUME NEW old, NEW new, NEW buffer, NEW g, NEW c, reader.got = Got(old, buffer, g, c)
    PROVE  [reader.got EXCEPT !.image = new] = Got(new, buffer, g, c)
BY DEF Got

LEMMA LoadedHeight ==
    Loaded("height") = Got(<< >>, 0, 0, 0)
BY DEF Loaded, Got

LEMMA LoadedWord1 ==
    ASSUME ShareTypes, NEW g, NEW c, reader.got = Got(<< >>, video.published, g, c)
    PROVE  Loaded("word1") = Got(First, video.published, g, c)
<1> DEFINE b == frame[video.published]
           h == video.published_height
<1>1. b \in [Words -> Shades] /\ h \in Words
  BY DEF ShareTypes, VideoSet
<1>2. << >> \o <<b[1]>> = <<b[1]>>
  BY <1>1, PrefixIs
<1>3. reader.got = [height |-> h, image |-> << >>, buffer |-> video.published,
                    generation |-> g, content |-> c]
  BY DEF Got
<1>4. ~(1 > h)
  BY <1>1 DEF Words
<1>5. Word(1) = <<b[1]>>
  BY <1>3, <1>4 DEF Word
<1>6. Loaded("word1") = [reader.got EXCEPT !.image = reader.got.image \o Word(1)]
  BY DEF Loaded
<1>7. reader.got.image = << >>
  BY <1>3
<1>8. reader.got.image \o Word(1) = First
  BY <1>2, <1>5, <1>7 DEF First
<1>9. Loaded("word1") = [reader.got EXCEPT !.image = First]
  BY <1>6, <1>8
<1> HIDE DEF b, h
<1> QED BY <1>9, ImageSet

LEMMA LoadedWord2 ==
    ASSUME ShareTypes, NEW g, NEW c, reader.got = Got(First, video.published, g, c)
    PROVE  Loaded("word2") = Got(Shown, video.published, g, c)
<1> DEFINE b == frame[video.published]
           h == video.published_height
<1>1. b \in [Words -> Shades] /\ h \in Words
  BY DEF ShareTypes, VideoSet
<1>2. /\ Prefix(b, 1) = <<b[1]>> /\ Prefix(b, 2) = <<b[1], b[2]>>
      /\ <<b[1]>> \o << >> = <<b[1]>> /\ <<b[1]>> \o <<b[2]>> = <<b[1], b[2]>>
  BY <1>1, PrefixIs
<1>3. reader.got = [height |-> h, image |-> <<b[1]>>, buffer |-> video.published,
                    generation |-> g, content |-> c]
  BY DEF Got, First
<1>4. reader.got.height = h /\ reader.got.buffer = video.published /\ reader.got.image = <<b[1]>>
  BY <1>3
<1>5. <<b[1]>> \o Word(2) = Prefix(b, h)
  <2>1. CASE h = 1
    <3>1. Word(2) = << >>
      BY <1>4, <2>1 DEF Word
    <3> QED BY <1>2, <2>1, <3>1
  <2>2. CASE h = 2
    <3>1. Word(2) = <<b[2]>>
      BY <1>4, <2>2 DEF Word
    <3> QED BY <1>2, <2>2, <3>1
  <2>3. h = 1 \/ h = 2
    BY <1>1 DEF Words
  <2> QED BY <2>1, <2>2, <2>3
<1>6. Loaded("word2") = [reader.got EXCEPT !.image = reader.got.image \o Word(2)]
  BY DEF Loaded
<1>7. reader.got.image \o Word(2) = Shown
  BY <1>4, <1>5 DEF Shown
<1>8. Loaded("word2") = [reader.got EXCEPT !.image = Shown]
  BY <1>6, <1>7
<1> HIDE DEF b, h
<1> QED BY <1>8, ImageSet

LEMMA LoadedHash ==
    ASSUME ShareTypes, Was, reader.got = Got(<< >>, video.published, video.generation, 0)
    PROVE  Loaded("hash") = Got(Shown, video.published, video.generation, 0)
<1>1. Loaded("hash") = [reader.got EXCEPT !.image =
                           IF reader.got.generation = 0
                           THEN Prefix(frame[reader.got.buffer], reader.got.height)
                           ELSE video.hash]
  BY DEF Loaded
<1>2. reader.got.generation = video.generation /\ reader.got.buffer = video.published
      /\ reader.got.height = video.published_height
  BY DEF Got
<1>3. (IF reader.got.generation = 0 THEN Prefix(frame[reader.got.buffer], reader.got.height)
       ELSE video.hash) = Shown
  BY <1>2 DEF Was, Shown
<1>4. Loaded("hash") = [reader.got EXCEPT !.image = Shown]
  BY <1>1, <1>3
<1> QED BY <1>4 DEF Got


\* A load takes the reader from one place of its list to the next.
LEMMA LoadMoves ==
    ASSUME ReaderInv, Load
    PROVE  reader' = [left |-> Tail(reader.left), before |-> reader.before,
                      got |-> Loaded(Head(reader.left)), at |-> "load", call |-> reader.call,
                      previous |-> reader.previous]
<1>1. reader' = [reader EXCEPT !.left = Tail(reader.left), !.got = Loaded(Head(reader.left))]
      /\ reader.at = "load"
  BY DEF Load
<1> QED BY <1>1 DEF ReaderInv

LEMMA LoadKeepsCopy ==
    ASSUME ShareTypes, ReaderInv, Load, CopyProgress
    PROVE  CopyProgress'
<1>1. UNCHANGED <<frame, video>> /\ reader.left # << >>
  BY DEF Load
<1>2. reader'.left = Tail(reader.left) /\ reader'.got = Loaded(Head(reader.left))
  BY LoadMoves
<1>3. PICK left : left = reader.left
  OBVIOUS
<1> DEFINE Moved(rest, got) == reader'.left = rest /\ reader'.got = got
<1>4. SUFFICES \/ Moved(<<"buffer", "word1", "word2", "generation">>, Got(<< >>, 0, 0, 0))
               \/ Moved(<<"word1", "word2", "generation">>, Got(<< >>, video.published, 0, 0))
               \/ Moved(<<"word2", "generation">>, Got(First, video.published, 0, 0))
               \/ Moved(<<"generation">>, Got(Shown, video.published, 0, 0))
               \/ Moved(<< >>, Got(Shown, video.published, video.generation, 0))
  <2>1. First' = First /\ Shown' = Shown
    BY <1>1 DEF First, Shown
  <2>2. (Got(<< >>, 0, 0, 0))' = Got(<< >>, 0, 0, 0)
    BY <1>1, <2>1 DEF Got
  <2>3. (Got(<< >>, video.published, 0, 0))' = Got(<< >>, video.published, 0, 0)
    BY <1>1, <2>1 DEF Got
  <2>4. (Got(First, video.published, 0, 0))' = Got(First, video.published, 0, 0)
    BY <1>1, <2>1 DEF Got
  <2>5. (Got(Shown, video.published, 0, 0))' = Got(Shown, video.published, 0, 0)
    BY <1>1, <2>1 DEF Got
  <2>6. (Got(Shown, video.published, video.generation, 0))' = Got(Shown, video.published, video.generation, 0)
    BY <1>1, <2>1 DEF Got
  <2> QED BY <2>2, <2>3, <2>4, <2>5, <2>6, Zenon DEF CopyProgress, Before
<1>5. CASE reader.left = Loads.copy
  <2>1. left = <<"height", "buffer", "word1", "word2", "generation">>
    BY <1>3, <1>5 DEF Loads
  <2>2. Loaded("height") = Got(<< >>, 0, 0, 0)
    BY LoadedHeight
  <2>3. Head(left) = "height" /\ Tail(left) = <<"buffer", "word1", "word2", "generation">>
    BY <2>1
  <2> QED BY <1>2, <1>3, <2>2, <2>3, Zenon
<1>6. CASE Before(<<"buffer", "word1", "word2", "generation">>, Got(<< >>, 0, 0, 0))
  <2>1. left = <<"buffer", "word1", "word2", "generation">>
    BY <1>3, <1>6 DEF Before
  <2>2. Loaded("buffer") = Got(<< >>, video.published, 0, 0)
    BY <1>6, LoadedIs DEF Before, Got
  <2>3. Head(left) = "buffer" /\ Tail(left) = <<"word1", "word2", "generation">>
    BY <2>1
  <2> QED BY <1>2, <1>3, <2>2, <2>3, Zenon
<1>7. CASE Before(<<"word1", "word2", "generation">>, Got(<< >>, video.published, 0, 0))
  <2>1. left = <<"word1", "word2", "generation">>
    BY <1>3, <1>7 DEF Before
  <2>2. Loaded("word1") = Got(First, video.published, 0, 0)
    BY <1>7, LoadedWord1 DEF Before
  <2>3. Head(left) = "word1" /\ Tail(left) = <<"word2", "generation">>
    BY <2>1
  <2> QED BY <1>2, <1>3, <2>2, <2>3, Zenon
<1>8. CASE Before(<<"word2", "generation">>, Got(First, video.published, 0, 0))
  <2>1. left = <<"word2", "generation">>
    BY <1>3, <1>8 DEF Before
  <2>2. Loaded("word2") = Got(Shown, video.published, 0, 0)
    BY <1>8, LoadedWord2 DEF Before
  <2>3. Head(left) = "word2" /\ Tail(left) = <<"generation">>
    BY <2>1
  <2> QED BY <1>2, <1>3, <2>2, <2>3, Zenon
<1>9. CASE Before(<<"generation">>, Got(Shown, video.published, 0, 0))
  <2>1. left = <<"generation">>
    BY <1>3, <1>9 DEF Before
  <2>2. Loaded("generation") = Got(Shown, video.published, video.generation, 0)
    BY <1>9, LoadedIs DEF Before, Got
  <2>3. Head(left) = "generation" /\ Tail(left) = << >>
    BY <2>1
  <2> QED BY <1>2, <1>3, <2>2, <2>3, Zenon
<1>10. CASE Before(<< >>, Got(Shown, video.published, video.generation, 0))
  BY <1>1, <1>10 DEF Before
<1> QED BY <1>5, <1>6, <1>7, <1>8, <1>9, <1>10 DEF CopyProgress

LEMMA LoadKeepsChanged ==
    ASSUME ShareTypes, ReaderInv, Load, ChangedProgress
    PROVE  (reader.call = "changed" => ChangedProgress)'
<1>0. SUFFICES ASSUME reader.call = "changed" PROVE ChangedProgress'
  BY LoadMoves
<1>1. UNCHANGED <<frame, video>> /\ reader.left # << >>
  BY DEF Load
<1>2. /\ reader'.left = Tail(reader.left) /\ reader'.got = Loaded(Head(reader.left))
      /\ reader'.previous = reader.previous
  BY LoadMoves
<1>3. PICK left : left = reader.left
  OBVIOUS
<1> DEFINE Moved(rest, got) == reader'.left = rest /\ reader'.got = got
<1>4. SUFFICES \/ Moved(<<"generation", "content", "buffer", "word1", "word2">>, Got(<< >>, 0, 0, 0))
               \/ Moved(<<"content", "buffer", "word1", "word2">>, Got(<< >>, 0, video.generation, 0))
               \/ Moved(<<"buffer", "word1", "word2">>, Got(<< >>, 0, video.generation, video.content))
               \/ ~Known /\ Moved(<<"word1", "word2">>, Got(<< >>, video.published, video.generation, video.content))
               \/ ~Known /\ Moved(<<"word2">>, Got(First, video.published, video.generation, video.content))
               \/ ~Known /\ Moved(<< >>, Got(Shown, video.published, video.generation, video.content))
  <2>1. First' = First /\ Shown' = Shown
    BY <1>1 DEF First, Shown
  <2>2. (Got(<< >>, 0, 0, 0))' = Got(<< >>, 0, 0, 0)
    BY <1>1, <2>1 DEF Got
  <2>3. (Got(<< >>, 0, video.generation, 0))' = Got(<< >>, 0, video.generation, 0)
    BY <1>1, <2>1 DEF Got
  <2>4. (Got(<< >>, 0, video.generation, video.content))' = Got(<< >>, 0, video.generation, video.content)
    BY <1>1, <2>1 DEF Got
  <2>5. (Got(<< >>, video.published, video.generation, video.content))' = Got(<< >>, video.published, video.generation, video.content)
    BY <1>1, <2>1 DEF Got
  <2>6. (Got(First, video.published, video.generation, video.content))' = Got(First, video.published, video.generation, video.content)
    BY <1>1, <2>1 DEF Got
  <2>7. (Got(Shown, video.published, video.generation, video.content))' = Got(Shown, video.published, video.generation, video.content)
    BY <1>1, <2>1 DEF Got
  <2>8. Known' <=> Known
    BY <1>1, <1>2 DEF Known
  <2> QED BY <2>2, <2>3, <2>4, <2>5, <2>6, <2>7, <2>8, Zenon DEF ChangedProgress, Before
<1>5. CASE reader.left = Loads.changed
  <2>1. left = <<"height", "generation", "content", "buffer", "word1", "word2">>
    BY <1>3, <1>5 DEF Loads
  <2>2. Loaded("height") = Got(<< >>, 0, 0, 0)
    BY LoadedHeight
  <2>3. Head(left) = "height" /\ Tail(left) = <<"generation", "content", "buffer", "word1", "word2">>
    BY <2>1
  <2> QED BY <1>2, <1>3, <2>2, <2>3, Zenon
<1>6. CASE Before(<<"generation", "content", "buffer", "word1", "word2">>, Got(<< >>, 0, 0, 0))
  <2>1. left = <<"generation", "content", "buffer", "word1", "word2">>
    BY <1>3, <1>6 DEF Before
  <2>2. Loaded("generation") = Got(<< >>, 0, video.generation, 0)
    BY <1>6, LoadedIs DEF Before, Got
  <2>3. Head(left) = "generation" /\ Tail(left) = <<"content", "buffer", "word1", "word2">>
    BY <2>1
  <2> QED BY <1>2, <1>3, <2>2, <2>3, Zenon
<1>7. CASE Before(<<"content", "buffer", "word1", "word2">>, Got(<< >>, 0, video.generation, 0))
  <2>1. left = <<"content", "buffer", "word1", "word2">>
    BY <1>3, <1>7 DEF Before
  <2>2. Loaded("content") = Got(<< >>, 0, video.generation, video.content)
    BY <1>7, LoadedIs DEF Before, Got
  <2>3. Head(left) = "content" /\ Tail(left) = <<"buffer", "word1", "word2">>
    BY <2>1
  <2> QED BY <1>2, <1>3, <2>2, <2>3, Zenon
<1>8. CASE Before(<<"buffer", "word1", "word2">>, Got(<< >>, 0, video.generation, video.content))
  <2>1. left = <<"buffer", "word1", "word2">>
    BY <1>3, <1>8 DEF Before
  <2>2. Loaded("buffer") = Got(<< >>, video.published, video.generation, video.content)
    BY <1>8, LoadedIs DEF Before, Got
  <2>3. Head(left) = "buffer" /\ Tail(left) = <<"word1", "word2">>
    BY <2>1
  <2>4. reader.got.generation = video.generation /\ reader.got.content = video.content
    BY <1>8 DEF Before, Got
  <2>5. ~Known
    BY <1>0, <1>1, <1>3, <2>3, <2>4 DEF Load, Skips, Known
  <2> QED BY <1>2, <1>3, <2>2, <2>3, <2>5, Zenon
<1>9. CASE ~Known /\ Before(<<"word1", "word2">>, Got(<< >>, video.published, video.generation, video.content))
  <2>1. left = <<"word1", "word2">>
    BY <1>3, <1>9 DEF Before
  <2>2. Loaded("word1") = Got(First, video.published, video.generation, video.content)
    BY <1>9, LoadedWord1 DEF Before
  <2>3. Head(left) = "word1" /\ Tail(left) = <<"word2">>
    BY <2>1
  <2> QED BY <1>2, <1>3, <1>9, <2>2, <2>3, Zenon
<1>10. CASE ~Known /\ Before(<<"word2">>, Got(First, video.published, video.generation, video.content))
  <2>1. left = <<"word2">>
    BY <1>3, <1>10 DEF Before
  <2>2. Loaded("word2") = Got(Shown, video.published, video.generation, video.content)
    BY <1>10, LoadedWord2 DEF Before
  <2>3. Head(left) = "word2" /\ Tail(left) = << >>
    BY <2>1
  <2> QED BY <1>2, <1>3, <1>10, <2>2, <2>3, Zenon
<1>11. CASE reader.left = << >>
  BY <1>1, <1>11
<1> QED BY <1>5, <1>6, <1>7, <1>8, <1>9, <1>10, <1>11 DEF ChangedProgress, Before

LEMMA LoadKeepsHash ==
    ASSUME ShareTypes, Was, ReaderInv, Load, HashProgress
    PROVE  HashProgress'
<1>1. UNCHANGED <<frame, video>> /\ reader.left # << >>
  BY DEF Load
<1>2. reader'.left = Tail(reader.left) /\ reader'.got = Loaded(Head(reader.left))
  BY LoadMoves
<1>3. PICK left : left = reader.left
  OBVIOUS
<1> DEFINE Moved(rest, got) == reader'.left = rest /\ reader'.got = got
<1>4. SUFFICES \/ Moved(<<"buffer", "generation", "hash">>, Got(<< >>, 0, 0, 0))
               \/ Moved(<<"generation", "hash">>, Got(<< >>, video.published, 0, 0))
               \/ Moved(<<"hash">>, Got(<< >>, video.published, video.generation, 0))
               \/ Moved(<< >>, Got(Shown, video.published, video.generation, 0))
  <2>1. First' = First /\ Shown' = Shown
    BY <1>1 DEF First, Shown
  <2>2. (Got(<< >>, 0, 0, 0))' = Got(<< >>, 0, 0, 0)
    BY <1>1, <2>1 DEF Got
  <2>3. (Got(<< >>, video.published, 0, 0))' = Got(<< >>, video.published, 0, 0)
    BY <1>1, <2>1 DEF Got
  <2>4. (Got(<< >>, video.published, video.generation, 0))' = Got(<< >>, video.published, video.generation, 0)
    BY <1>1, <2>1 DEF Got
  <2>5. (Got(Shown, video.published, video.generation, 0))' = Got(Shown, video.published, video.generation, 0)
    BY <1>1, <2>1 DEF Got
  <2> QED BY <2>2, <2>3, <2>4, <2>5, Zenon DEF HashProgress, Before
<1>5. CASE reader.left = Loads.hash
  <2>1. left = <<"height", "buffer", "generation", "hash">>
    BY <1>3, <1>5 DEF Loads
  <2>2. Loaded("height") = Got(<< >>, 0, 0, 0)
    BY LoadedHeight
  <2>3. Head(left) = "height" /\ Tail(left) = <<"buffer", "generation", "hash">>
    BY <2>1
  <2> QED BY <1>2, <1>3, <2>2, <2>3, Zenon
<1>6. CASE Before(<<"buffer", "generation", "hash">>, Got(<< >>, 0, 0, 0))
  <2>1. left = <<"buffer", "generation", "hash">>
    BY <1>3, <1>6 DEF Before
  <2>2. Loaded("buffer") = Got(<< >>, video.published, 0, 0)
    BY <1>6, LoadedIs DEF Before, Got
  <2>3. Head(left) = "buffer" /\ Tail(left) = <<"generation", "hash">>
    BY <2>1
  <2> QED BY <1>2, <1>3, <2>2, <2>3, Zenon
<1>7. CASE Before(<<"generation", "hash">>, Got(<< >>, video.published, 0, 0))
  <2>1. left = <<"generation", "hash">>
    BY <1>3, <1>7 DEF Before
  <2>2. Loaded("generation") = Got(<< >>, video.published, video.generation, 0)
    BY <1>7, LoadedIs DEF Before, Got
  <2>3. Head(left) = "generation" /\ Tail(left) = <<"hash">>
    BY <2>1
  <2> QED BY <1>2, <1>3, <2>2, <2>3, Zenon
<1>8. CASE Before(<<"hash">>, Got(<< >>, video.published, video.generation, 0))
  <2>1. left = <<"hash">>
    BY <1>3, <1>8 DEF Before
  <2>2. Loaded("hash") = Got(Shown, video.published, video.generation, 0)
    BY <1>8, LoadedHash DEF Before
  <2>3. Head(left) = "hash" /\ Tail(left) = << >>
    BY <2>1
  <2> QED BY <1>2, <1>3, <2>2, <2>3, Zenon
<1>9. CASE Before(<< >>, Got(Shown, video.published, video.generation, 0))
  BY <1>1, <1>9 DEF Before
<1> QED BY <1>5, <1>6, <1>7, <1>8, <1>9 DEF HashProgress


\* What the publisher does leaves the reader's progress alone as long as the counter stays even.
LEMMA ViewKeepsProgress ==
    ASSUME Progress, View' = View, reader' = reader
    PROVE  Progress'
<1>1. /\ video'.published = video.published /\ video'.published_height = video.published_height
      /\ video'.generation = video.generation /\ video'.content = video.content
      /\ First' = First /\ Shown' = Shown
  BY DEF View, First, Shown
<1>2. \A image, buffer, g, c : Got(image, buffer, g, c)' = Got(image, buffer, g, c)
  BY <1>1 DEF Got
<1>3. CopyProgress => CopyProgress'
  BY <1>1 DEF CopyProgress, Before, Got, Loads
<1>4. ChangedProgress => ChangedProgress'
  BY <1>1 DEF ChangedProgress, Before, Got, Loads, Known
<1>5. HashProgress => HashProgress'
  BY <1>1 DEF HashProgress, Before, Got, Loads
<1> QED BY <1>3, <1>4, <1>5 DEF Progress

LEMMA WriterKeepsReader ==
    ASSUME ShareTypes, ReaderInv, reader' = reader, Steady,
           video'.sequence \in {video.sequence, video.sequence + 1},
           history' = history \/ \E record \in RecordSet : history' = Append(history, record)
    PROVE  ReaderInv'
<1>1. video.sequence \in Nat /\ history \in Seq(RecordSet)
  BY DEF ShareTypes, VideoSet
<1>2. reader.at = "load" =>
           (/\ reader.before \in Nat /\ reader.before % 2 = 0 /\ reader.before <= video.sequence
            /\ reader.before = video.sequence => Progress)'
  <2> HAVE reader.at = "load"
  <2>1. /\ reader.before \in Nat /\ reader.before % 2 = 0 /\ reader.before <= video.sequence
        /\ reader.before = video.sequence => Progress
    BY DEF ReaderInv
  <2>2. reader.before <= video'.sequence
    BY <1>1, <2>1
  <2>3. ASSUME reader.before = video'.sequence PROVE Progress'
    <3>1. reader.before = video.sequence /\ video'.sequence = video.sequence
      BY <1>1, <2>1, <2>3
    <3>2. View' = View
      BY <2>1, <3>1 DEF Steady
    <3> QED BY <2>1, <3>1, <3>2, ViewKeepsProgress
  <2> QED BY <2>1, <2>2, <2>3
<1>3. Len(history') >= Len(history) /\ Len(history') \in Nat /\ Len(history) \in Nat
      /\ \A i \in 1 .. Len(history) : history'[i] = history[i]
  <2>1. CASE history' = history
    BY <1>1, <2>1
  <2>2. ASSUME NEW record \in RecordSet, history' = Append(history, record)
        PROVE  <1>3!:
    BY <1>1, <2>2, AppendProperties
  <2> QED BY <2>1, <2>2
<1>4. reader.at = "done" => reader.got.generation + 1 \in 1 .. Len(history')
  <2> HAVE reader.at = "done"
  <2>1. reader.got.generation + 1 \in 1 .. Len(history)
    BY DEF ReaderInv
  <2> QED BY <1>3, <2>1
<1>5. CopyIsWhole'
  <2>1. SUFFICES ASSUME reader.at = "done"
                 PROVE  WholeOf(history'[reader.got.generation + 1])
    BY DEF CopyIsWhole, WholeOf
  <2>2. history'[reader.got.generation + 1] = history[reader.got.generation + 1]
    BY <1>3, <2>1 DEF ReaderInv
  <2> QED BY <2>1, <2>2 DEF ReaderInv, CopyIsWhole
<1> QED BY <1>2, <1>4, <1>5 DEF ReaderInv

LEMMA LoadKeeps ==
    ASSUME WriterInv, ReaderInv, Load
    PROVE  ReaderInv'
<1>1. /\ UNCHANGED <<frame, video, ending, history>> /\ reader.at = "load"
  BY DEF Load
<1>2. /\ reader' = [left |-> reader'.left, before |-> reader'.before, got |-> reader'.got,
                    at |-> reader'.at, call |-> reader'.call, previous |-> reader'.previous]
      /\ reader'.before = reader.before /\ reader'.at = "load" /\ reader'.call = reader.call
  BY LoadMoves
<1>3. /\ reader.before \in Nat /\ reader.before % 2 = 0 /\ reader.before <= video.sequence
      /\ reader.before = video.sequence => Progress
      /\ reader.call \in {"copy", "changed", "hash"}
  BY <1>1 DEF ReaderInv
<1>4. ASSUME reader.before = video.sequence
      PROVE  Progress'
  <2>1. ShareTypes /\ Was /\ Progress
    BY <1>3, <1>4, EvenIsWhole DEF WriterInv
  <2>2. reader.call = "copy" => CopyProgress'
    BY <2>1, LoadKeepsCopy DEF Progress
  <2>3. reader.call = "changed" => ChangedProgress'
    BY <1>2, <2>1, LoadKeepsChanged DEF Progress
  <2>4. reader.call = "hash" => HashProgress'
    BY <2>1, LoadKeepsHash DEF Progress
  <2> QED BY <1>2, <2>2, <2>3, <2>4 DEF Progress
<1>5. CopyIsWhole'
  BY <1>2 DEF CopyIsWhole
<1> QED BY <1>1, <1>2, <1>3, <1>4, <1>5 DEF ReaderInv

\* A changed copy of a field the caller has ends with what it has.
LEMMA SkipKeeps ==
    ASSUME WriterInv, ReaderInv, SkipCopy
    PROVE  ReaderInv'
<1>1. /\ UNCHANGED <<frame, video, ending, history>> /\ reader.at = "load"
      /\ reader' = [reader EXCEPT !.left = << >>]
      /\ reader.call = "changed" /\ reader.left # << >> /\ Head(reader.left) = "buffer"
      /\ reader.got.generation = 0 \/ reader.got.content = reader.previous
  BY DEF SkipCopy, Skips
<1>2. reader' = [left |-> << >>, before |-> reader.before, got |-> reader.got,
                 at |-> "load", call |-> "changed", previous |-> reader.previous]
  BY <1>1 DEF ReaderInv
<1>3. /\ reader' = [left |-> reader'.left, before |-> reader'.before, got |-> reader'.got,
                    at |-> reader'.at, call |-> reader'.call, previous |-> reader'.previous]
      /\ reader'.left = << >> /\ reader'.before = reader.before /\ reader'.got = reader.got
      /\ reader'.at = "load" /\ reader'.call = "changed" /\ reader'.previous = reader.previous
  BY <1>2
<1>4. /\ reader.before \in Nat /\ reader.before % 2 = 0 /\ reader.before <= video.sequence
      /\ reader.before = video.sequence => Progress
  BY <1>1 DEF ReaderInv
<1>5. ASSUME reader.before = video.sequence
      PROVE  Progress'
  <2>1. ChangedProgress
    BY <1>1, <1>4, <1>5 DEF Progress
  <2>2. PICK left : left = reader.left /\ Head(left) = "buffer" /\ left # << >>
    BY <1>1
  <2>3. reader.got = Got(<< >>, 0, video.generation, video.content)
    <3>2. left # Loads.changed
      BY <2>2 DEF Loads
    <3>3. left # <<"generation", "content", "buffer", "word1", "word2">>
      BY <2>2
    <3>4. left # <<"content", "buffer", "word1", "word2">>
      BY <2>2
    <3>5. left # <<"word1", "word2">> /\ left # <<"word2">>
      BY <2>2
    <3> QED BY <2>1, <2>2, <3>2, <3>3, <3>4, <3>5, Zenon DEF ChangedProgress, Before
  <2>4. Known'
    BY <1>1, <1>3, <2>3 DEF Known, Got
  <2>5. Got(<< >>, 0, video.generation, video.content)' = Got(<< >>, 0, video.generation, video.content)
    BY <1>1 DEF Got
  <2>6. ChangedProgress'
    BY <1>3, <2>3, <2>4, <2>5 DEF ChangedProgress, Before
  <2> QED BY <1>3, <2>6 DEF Progress
<1>6. CopyIsWhole'
  BY <1>3 DEF CopyIsWhole
<1> QED BY <1>1, <1>3, <1>4, <1>5, <1>6 DEF ReaderInv

\* What the reader has when every load is done, if the counter is what it was.
LEMMA CheckKeeps ==
    ASSUME WriterInv, ReaderInv, CheckSequence
    PROVE  ReaderInv'
<1>1. /\ UNCHANGED <<frame, video, ending, history>> /\ reader.at = "load" /\ reader.left = << >>
      /\ reader' = [reader EXCEPT !.at = IF Again THEN "begin" ELSE "done"]
  BY DEF CheckSequence
<1> DEFINE at == IF Again THEN "begin" ELSE "done"
<1>2. /\ reader' = [left |-> reader.left, before |-> reader.before, got |-> reader.got,
                    at |-> at, call |-> reader.call, previous |-> reader.previous]
  BY <1>1 DEF ReaderInv
<1> HIDE DEF at
<1>3. /\ reader' = [left |-> reader'.left, before |-> reader'.before, got |-> reader'.got,
                    at |-> reader'.at, call |-> reader'.call, previous |-> reader'.previous]
      /\ reader'.at = at /\ reader'.got = reader.got /\ reader'.call = reader.call
      /\ reader'.previous = reader.previous
  BY <1>2
<1>4. reader.call \in {"copy", "changed", "hash"} /\ at \in {"begin", "done"}
  BY DEF ReaderInv, at
<1>5. ASSUME at = "done"
      PROVE  /\ reader'.got.generation + 1 \in 1 .. Len(history')
             /\ WholeOf(history[reader.got.generation + 1])'
  <2>1. video.sequence = reader.before
    BY <1>5 DEF at, Again
  <2>2. Progress /\ video.sequence % 2 = 0
    BY <1>1, <2>1 DEF ReaderInv
  <2>3. /\ video.generation + 1 \in 1 .. Len(history)
        /\ history[video.generation + 1] = [height |-> video.published_height, image |-> Shown,
                                            content |-> video.content]
    BY <2>2, EvenIsWhole DEF Was
  <2>4. /\ reader.call = "changed" =>
              \/ ~Known /\ reader.got = Got(Shown, video.published, video.generation, video.content)
              \/ Known /\ reader.got = Got(<< >>, 0, video.generation, video.content)
        /\ reader.call # "changed" =>
              reader.got = Got(Shown, video.published, video.generation, 0)
    <3>1. ASSUME NEW a, NEW s, s = << >> PROVE s # <<a>>
      BY <3>1
    <3> QED BY <1>1, <1>4, <2>2 DEF Progress, CopyProgress, ChangedProgress, HashProgress, Before,
                                    Loads
  <2>5. /\ reader.got.generation = video.generation /\ reader.got.height = video.published_height
        /\ reader.got.image = IF reader.call = "changed" /\ Known THEN << >> ELSE Shown
        /\ reader.call = "changed" => reader.got.content = video.content
    BY <2>4 DEF Got
  <2>6. PICK of : of = history[video.generation + 1]
    OBVIOUS
  <2>7. of.height = video.published_height /\ of.image = Shown /\ of.content = video.content
    BY <2>3, <2>6
  <2>8. WholeOf(of)
    BY <2>5, <2>7 DEF WholeOf, Known
  <2>9. WholeOf(of)'
    BY <1>3, <2>8 DEF WholeOf
  <2> QED BY <1>1, <1>3, <2>3, <2>5, <2>6, <2>9
<1>6. CopyIsWhole'
  BY <1>3, <1>5 DEF CopyIsWhole
<1> QED BY <1>1, <1>3, <1>4, <1>5, <1>6 DEF ReaderInv

LEMMA CallKeeps ==
    ASSUME WriterInv, ReaderInv,
           (\E call \in DOMAIN Loads, previous \in Nat : Call(call, previous)) \/ LoadSequence \/ Return
    PROVE  ReaderInv'
<1>1. video.sequence \in Nat
  BY DEF WriterInv, ShareTypes, VideoSet
<1>2. ASSUME NEW call \in DOMAIN Loads, NEW previous \in Nat, Call(call, previous)
      PROVE  ReaderInv'
  <2>1. call \in {"copy", "changed", "hash"}
    BY DEF Loads
  <2>2. reader' = [left |-> << >>, before |-> 0, got |-> << >>, at |-> "begin", call |-> call,
                   previous |-> previous]
    BY <1>2 DEF Call, Idle
  <2> QED BY <2>1, <2>2 DEF ReaderInv, CopyIsWhole
<1>3. CASE LoadSequence
  <2>1. /\ UNCHANGED <<frame, video, ending, history>> /\ video.sequence % 2 = 0
        /\ reader' = [reader EXCEPT !.before = video.sequence, !.at = "load",
                                    !.left = Loads[reader.call], !.got = << >>]
    BY <1>3 DEF LoadSequence
  <2>2. /\ reader' = [left |-> Loads[reader.call], before |-> video.sequence, got |-> << >>,
                      at |-> "load", call |-> reader.call, previous |-> reader.previous]
    BY <2>1 DEF ReaderInv
  <2>3. reader.call \in {"copy", "changed", "hash"}
    BY DEF ReaderInv
  <2>4. /\ reader'.call = reader.call /\ reader'.left = Loads[reader.call] /\ reader'.at = "load"
        /\ reader'.before = video.sequence
        /\ reader' = [left |-> reader'.left, before |-> reader'.before, got |-> reader'.got,
                      at |-> reader'.at, call |-> reader'.call, previous |-> reader'.previous]
    BY <2>2
  <2>5. Progress'
    BY <2>3, <2>4 DEF Progress, CopyProgress, ChangedProgress, HashProgress, Loads
  <2> QED BY <1>1, <2>1, <2>3, <2>4, <2>5 DEF ReaderInv, CopyIsWhole
<1>4. CASE Return
  <2>1. reader' = [left |-> << >>, before |-> 0, got |-> << >>, at |-> "idle", call |-> "copy",
                   previous |-> 0]
    BY <1>4 DEF Return, Idle
  <2> QED BY <2>1 DEF ReaderInv, CopyIsWhole
<1> QED BY <1>2, <1>3, <1>4


ShareInv == WriterInv /\ ReaderInv

LEMMA ShareInitInv ==
    ASSUME ShareInit
    PROVE  ShareInv
<1>1. ShareBlank \in [Words -> Shades]
  BY ShareAssumption DEF ShareBlank
<1>2. 2 \in Words /\ 0 \in 0 .. 1
  BY DEF Words
<1>3. Prefix(ShareBlank, 2) \in Seq(Shades)
  BY <1>1, <1>2, PrefixType
<1>4. /\ frame \in [0 .. 1 -> [Words -> Shades]] /\ frame[0] = ShareBlank
      /\ video = [sequence |-> 0, published |-> 0, drawing |-> 1, height |-> 2,
                  published_height |-> 2, generation |-> 0, content |-> 0, hash |-> << >>]
      /\ ending = << >>
      /\ history = <<[height |-> 2, image |-> Prefix(ShareBlank, 2), content |-> 0]>>
  BY <1>1 DEF ShareInit, Record
<1> DEFINE record == [height |-> 2, image |-> Prefix(ShareBlank, 2), content |-> 0]
<1>5. record \in RecordSet
  BY <1>2, <1>3 DEF RecordSet
<1> HIDE DEF record
<1>6. history = <<record>>
  BY <1>4 DEF record
<1>7. history \in Seq(RecordSet) /\ Len(history) = 1 /\ history[1] = record
  BY <1>5, <1>6
<1>8. video \in VideoSet
  <2>1. << >> \in Seq(Shades)
    OBVIOUS
  <2> QED BY <1>2, <1>4, <2>1 DEF VideoSet
<1>9. ShareTypes
  BY <1>4, <1>7, <1>8 DEF ShareTypes
<1>10. Was
  <2>1. Shown = Prefix(ShareBlank, 2)
    BY <1>4 DEF Shown
  <2> QED BY <1>4, <1>7, <2>1 DEF Was, record
<1>11. Resting
  <2>1. 0 % 2 = 0
    OBVIOUS
  <2> QED BY <1>4, <1>7, <1>10, <2>1 DEF Resting, Settled
<1>12. ReaderInv
  BY DEF ShareInit, Idle, ReaderInv, CopyIsWhole
<1> QED BY <1>9, <1>11, <1>12 DEF ShareInv, WriterInv

LEMMA ShareStep ==
    ASSUME ShareInv, [ShareNext]_share_vars
    PROVE  ShareInv'
<1>1. WriterInv /\ ReaderInv /\ ShareTypes
  BY DEF ShareInv, WriterInv
<1>2. video.sequence \in Nat
  BY <1>1 DEF ShareTypes, VideoSet
<1>3. ASSUME NEW height \in Words, ShareGeometry(height) PROVE ShareInv'
  <2>1. reader' = reader
    BY <1>3 DEF ShareGeometry, MayDraw
  <2> QED BY <1>1, <1>3, <2>1, GeometryKeeps, WriterKeepsReader DEF ShareInv
<1>4. ASSUME NEW w \in Words, NEW shade \in Shades, ShareDraw(w, shade) PROVE ShareInv'
  <2>1. reader' = reader
    BY <1>4 DEF ShareDraw, MayDraw
  <2> QED BY <1>1, <1>4, <2>1, DrawKeeps, WriterKeepsReader DEF ShareInv
<1>5. CASE EndFrame
  <2>1. reader' = reader
    BY <1>5 DEF EndFrame, MayDraw
  <2> QED BY <1>1, <1>5, <2>1, EndFrameKeeps, WriterKeepsReader DEF ShareInv
<1>6. CASE Store
  <2>1. reader' = reader /\ history' = history
    BY <1>6 DEF Store
  <2> QED BY <1>1, <1>6, <2>1, StoreKeeps, WriterKeepsReader DEF ShareInv
<1>7. ASSUME UNCHANGED <<frame, video, ending, history>> PROVE WriterInv'
  <2>1. ShareTypes'
    BY <1>1, <1>7 DEF ShareTypes
  <2>2. Was' = Was /\ Shown' = Shown /\ Drawn' = Drawn /\ Settled' = Settled
    BY <1>7 DEF Was, Settled, Shown, Drawn
  <2>3. Resting => Resting'
    BY <1>7, <2>2 DEF Resting
  <2>4. ASSUME NEW kind \in Kinds, NEW k \in 1 .. Len(List(kind)), Ending(kind, k)
        PROVE  Ending(kind, k)'
    <3>1. WriterAt(kind, k)'
      BY <1>7, <2>2, <2>4 DEF Ending, WriterAt, Awaited, Drawn, Was, Shown, Settled
    <3> QED BY <1>7, <2>4, <3>1 DEF Ending
  <2> QED BY <1>1, <2>1, <2>3, <2>4 DEF WriterInv
<1>8. CASE (\E call \in DOMAIN Loads, previous \in Nat : Call(call, previous)) \/ LoadSequence \/ Return
  <2>1. UNCHANGED <<frame, video, ending, history>>
    BY <1>8 DEF Call, LoadSequence, Return
  <2> QED BY <1>1, <1>7, <1>8, <2>1, CallKeeps DEF ShareInv
<1>9. CASE Load
  <2>1. UNCHANGED <<frame, video, ending, history>>
    BY <1>9 DEF Load
  <2> QED BY <1>1, <1>7, <1>9, <2>1, LoadKeeps DEF ShareInv
<1>12. CASE SkipCopy
  <2>1. UNCHANGED <<frame, video, ending, history>>
    BY <1>12 DEF SkipCopy
  <2> QED BY <1>1, <1>7, <1>12, <2>1, SkipKeeps DEF ShareInv
<1>10. CASE CheckSequence
  <2>1. UNCHANGED <<frame, video, ending, history>>
    BY <1>10 DEF CheckSequence
  <2> QED BY <1>1, <1>7, <1>10, <2>1, CheckKeeps DEF ShareInv
<1>11. CASE UNCHANGED share_vars
  <2>1. UNCHANGED <<frame, video, ending, reader, history>>
    BY <1>11 DEF share_vars
  <2>2. ReaderInv'
    <3>1. Steady
      BY <2>1 DEF Steady, View
    <3> QED BY <1>1, <2>1, <3>1, WriterKeepsReader
  <2> QED BY <1>7, <2>1, <2>2 DEF ShareInv
<1>13. ASSUME Call("copy", 0) \/ Call("hash", 0) \/ (\E previous \in 0 .. video.content : Call("changed", previous))
       PROVE  \E call \in DOMAIN Loads, previous \in Nat : Call(call, previous)
  <2>1. {"copy", "hash", "changed"} = DOMAIN Loads /\ video.content \in Nat
    BY <1>1 DEF Loads, ShareTypes, VideoSet
  <2>2. \A n \in 0 .. video.content : n \in Nat
    BY <2>1
  <2> QED BY <1>13, <2>1, <2>2
<1> QED BY <1>3, <1>4, <1>5, <1>6, <1>8, <1>9, <1>10, <1>11, <1>12, <1>13 DEF ShareNext

(* mcd212_video.c:1108: what a reader returns is one published field, for  *)
(* every image, height and number of fields, in whatever order the stores  *)
(* of the publisher and the loads of the reader come.                      *)
THEOREM CopyWhole == ShareSpec => []CopyIsWhole
<1>1. ShareInv => CopyIsWhole
  BY DEF ShareInv, ReaderInv
<1> QED BY <1>1, ShareInitInv, ShareStep, PTL DEF ShareSpec

(***************************************************************************)
(* The trampoline: latches, pads and the recursion guard.                  *)
(***************************************************************************)
Fields == {"frames", "in_hybrid", "step_armed", "bus_armed", "irq_armed", "halted", "redirect",
           "rte_resume", "reset_pending", "ipm", "external", "onchip", "vector", "stuck",
           "progress", "running", "taken", "asked"}
FrameKinds == {"native", "hybrid", "top"}

\* A request that is latched still has the vector its device raised it with.
Latches(m) ==
    /\ DOMAIN m = Fields
    /\ m.external \subseteq Levels /\ m.onchip \subseteq Levels
    /\ m.vector \in [Levels -> Nat] /\ m.asked \in [Levels -> Nat]
    /\ \A l \in m.external : m.vector[l] = m.asked[l]

\* Only the frame that executes may be an interpreter run.
Stack(m) ==
    /\ m.frames \in Seq(FrameKinds)
    /\ \A i \in 1 .. Len(m.frames) : i < Len(m.frames) => m.frames[i] = "native"

Armed(m) == m.running => m.irq_armed /\ m.bus_armed /\ ~m.step_armed
Guard(m) == InGuest(m) => m.in_hybrid = (Here(m) = "hybrid")

TrampolineInv == Latches(main) /\ Stack(main) /\ Armed(main) /\ Guard(main)

\* What devices leave alone.
SameCode(m, r) ==
    /\ r.frames = m.frames /\ r.in_hybrid = m.in_hybrid /\ r.step_armed = m.step_armed
    /\ r.bus_armed = m.bus_armed /\ r.irq_armed = m.irq_armed /\ r.running = m.running
    /\ r.reset_pending = m.reset_pending /\ r.taken = m.taken

\* The delivery of an external request carries its device's vector.
DeliveryOf(m, r) ==
    r.taken # m.taken /\ r.taken[1] = "external" => r.taken[3] = r.asked[r.taken[2]]

-----------------------------------------------------------------------------
(* The latches. *)

LEMMA RaisedLatches ==
    ASSUME NEW m, Latches(m), NEW r \in Raised(m)
    PROVE  Latches(r) /\ SameCode(m, r)
<1>1. ASSUME NEW l \in Levels, NEW v \in Vectors \cup {Autovector}, r = raise(m, l, v)
      PROVE  Latches(r) /\ SameCode(m, r)
  <2>1. v \in Nat
    BY TrampolineAssumption DEF Autovector
  <2>2. /\ DOMAIN r = Fields /\ r.external = m.external \cup {l} /\ r.onchip = m.onchip
        /\ r.vector = [m.vector EXCEPT ![l] = v] /\ r.asked = [m.asked EXCEPT ![l] = v]
    BY <1>1 DEF Latches, Fields, raise
  <2>3. SameCode(m, r)
    BY <1>1 DEF Latches, Fields, raise, SameCode
  <2>4. Latches(r)
    BY <2>1, <2>2 DEF Latches
  <2> QED BY <2>3, <2>4
<1>2. ASSUME NEW l \in Levels, r = cdi_irq_raise_onchip_level(m, l)
      PROVE  Latches(r) /\ SameCode(m, r)
  <2>1. /\ DOMAIN r = Fields /\ r.external = m.external /\ r.onchip = m.onchip \cup {l}
        /\ r.vector = m.vector /\ r.asked = m.asked
    BY <1>2 DEF Latches, Fields, cdi_irq_raise_onchip_level
  <2>2. SameCode(m, r)
    BY <1>2 DEF Latches, Fields, cdi_irq_raise_onchip_level, SameCode
  <2>3. Latches(r)
    BY <2>1 DEF Latches
  <2> QED BY <2>2, <2>3
<1> QED BY <1>1, <1>2 DEF Raised

LEMMA AccessedLatches ==
    ASSUME NEW m, Latches(m), NEW r \in Accessed(m)
    PROVE  Latches(r) /\ SameCode(m, r)
<1>1. ASSUME NEW l \in Levels, r = cdi_irq_clear(m, l)
      PROVE  Latches(r) /\ SameCode(m, r)
  <2>1. /\ DOMAIN r = Fields /\ r.external = m.external \ {l} /\ r.onchip = m.onchip
        /\ r.vector = [m.vector EXCEPT ![l] = Autovector] /\ r.asked = m.asked
    BY <1>1 DEF Latches, Fields, cdi_irq_clear
  <2>2. SameCode(m, r)
    BY <1>1 DEF Latches, Fields, cdi_irq_clear, SameCode
  <2>3. Latches(r)
    BY <2>1 DEF Latches, Autovector
  <2> QED BY <2>2, <2>3
<1>2. CASE r = m
  BY <1>2 DEF SameCode
<1> QED BY <1>1, <1>2, RaisedLatches DEF Accessed, Ticked

LEMMA TickedLatches ==
    ASSUME NEW m, Latches(m), NEW r \in Ticked(m)
    PROVE  Latches(r) /\ SameCode(m, r)
BY AccessedLatches DEF Accessed

-----------------------------------------------------------------------------
(* The landing pads. *)

\* What is true of the loop once a pad was taken from m.
Landed(m, r) ==
    /\ Latches(r) /\ r.frames = << >> /\ r.running = m.running
    /\ r.irq_armed = TRUE /\ r.bus_armed = TRUE
    /\ r.taken = m.taken /\ r.asked = m.asked

LEMMA IrqLands ==
    ASSUME NEW m, Latches(m)
    PROVE  /\ Landed(m, IrqLanding(m))
           /\ IrqLanding(m).step_armed = IF m.reset_pending THEN FALSE ELSE m.step_armed
<1> DEFINE landed == [m EXCEPT !.frames = <<>>, !.bus_armed = TRUE, !.irq_armed = TRUE]
<1>1. /\ DOMAIN landed = Fields /\ landed.frames = << >> /\ landed.running = m.running
      /\ landed.irq_armed = TRUE /\ landed.bus_armed = TRUE /\ landed.taken = m.taken
      /\ landed.asked = m.asked /\ landed.external = m.external /\ landed.onchip = m.onchip
      /\ landed.vector = m.vector /\ landed.step_armed = m.step_armed
  BY DEF Latches, Fields
<1> HIDE DEF landed
<1>2. CASE m.reset_pending
  <2> DEFINE cleared == m68k_interp_abandon_run([landed EXCEPT !.reset_pending = FALSE])
             reset == runtime_reset_cpu_interrupt_state(cleared)
             r == ResetLanding(landed)
  <2>1. IrqLanding(m) = r
    BY <1>2 DEF IrqLanding, landed
  <2>2. /\ DOMAIN cleared = Fields /\ cleared.frames = << >> /\ cleared.running = m.running
        /\ cleared.irq_armed = TRUE /\ cleared.bus_armed = TRUE /\ cleared.taken = m.taken
        /\ cleared.asked = m.asked /\ cleared.step_armed = FALSE
    BY <1>1 DEF m68k_interp_abandon_run, Fields
  <2> HIDE DEF cleared
  <2>3. /\ DOMAIN reset = Fields /\ reset.frames = << >> /\ reset.running = m.running
        /\ reset.irq_armed = TRUE /\ reset.bus_armed = TRUE /\ reset.taken = m.taken
        /\ reset.asked = m.asked /\ reset.step_armed = FALSE
        /\ reset.external = {} /\ reset.onchip = {}
        /\ reset.vector = [l \in Levels |-> Autovector]
    BY <2>2 DEF runtime_reset_cpu_interrupt_state, Fields
  <2>4. r = [reset EXCEPT !.ipm = TopLevel, !.redirect = TRUE, !.stuck = 0, !.progress = TRUE]
    BY DEF ResetLanding, cleared
  <2> HIDE DEF reset, r
  <2>5. /\ DOMAIN r = Fields /\ r.frames = << >> /\ r.running = m.running
        /\ r.irq_armed = TRUE /\ r.bus_armed = TRUE /\ r.taken = m.taken
        /\ r.asked = m.asked /\ r.step_armed = FALSE
        /\ r.external = {} /\ r.onchip = {}
        /\ r.vector = [l \in Levels |-> Autovector]
    BY <2>3, <2>4 DEF Fields
  <2>6. Latches(r)
    BY <2>5 DEF Latches, Autovector
  <2> QED BY <1>2, <2>1, <2>5, <2>6 DEF Landed
<1>3. CASE ~m.reset_pending
  <2> DEFINE r == [landed EXCEPT !.redirect = TRUE]
  <2>1. IrqLanding(m) = r
    BY <1>3 DEF IrqLanding, landed
  <2>2. /\ DOMAIN r = Fields /\ r.frames = << >> /\ r.running = m.running
        /\ r.irq_armed = TRUE /\ r.bus_armed = TRUE /\ r.taken = m.taken
        /\ r.asked = m.asked /\ r.external = m.external /\ r.onchip = m.onchip
        /\ r.vector = m.vector /\ r.step_armed = m.step_armed
    BY <1>1 DEF Fields
  <2> HIDE DEF r
  <2>3. Latches(r)
    BY <2>2 DEF Latches
  <2> QED BY <1>3, <2>1, <2>2, <2>3 DEF Landed
<1> QED BY <1>2, <1>3

LEMMA BusLands ==
    ASSUME NEW m, Latches(m)
    PROVE  /\ Landed(m, BusLanding(m)) /\ BusLanding(m).step_armed = m.step_armed
<1> DEFINE r == BusLanding(m)
<1>1. /\ DOMAIN r = Fields /\ r.frames = << >> /\ r.running = m.running
      /\ r.irq_armed = TRUE /\ r.bus_armed = TRUE /\ r.taken = m.taken
      /\ r.asked = m.asked /\ r.external = m.external /\ r.onchip = m.onchip
      /\ r.vector = m.vector /\ r.step_armed = m.step_armed
  BY DEF BusLanding, Latches, Fields
<1> HIDE DEF r
<1>2. Latches(r)
  BY <1>1 DEF Latches
<1> QED BY <1>1, <1>2 DEF Landed, r

\* In the loop nothing is left to show of the frames above it.
LEMMA LandedInv ==
    ASSUME NEW m, NEW r, Landed(m, r), r.step_armed = FALSE
    PROVE  Latches(r) /\ Stack(r) /\ Armed(r) /\ Guard(r)
<1>1. r.frames \in Seq(FrameKinds) /\ Len(r.frames) = 0
  BY DEF Landed
<1> QED BY <1>1 DEF Landed, Stack, Armed, Guard, InGuest



LEMMA GreatestOf ==
    ASSUME NEW n \in Nat, NEW S \in SUBSET (0 .. n), S # {}
    PROVE  Max(S) \in S
<1> DEFINE T == {n - x : x \in S}
<1>1. T \in SUBSET Nat /\ T # {}
  <2>1. \A x \in S : n - x \in Nat
    OBVIOUS
  <2> QED BY <2>1
<1>2. PICK t \in T : \A y \in T : t <= y
  <2> HIDE DEF T
  <2> QED BY <1>1, LeastOf
<1>3. PICK x \in S : t = n - x
  BY <1>2
<1>4. ASSUME NEW y \in S PROVE x >= y
  <2>1. n - y \in T
    OBVIOUS
  <2>2. t <= n - y
    BY <1>2, <2>1
  <2> QED BY <1>3, <2>2
<1> HIDE DEF T
<1> QED BY <1>4 DEF Max

LEMMA PendingIsLatched ==
    ASSUME NEW m, Latches(m), Deliverable(m)
    PROVE  recomp_pending_irq_level(m) \in m.external \cup m.onchip
<1>1. TopLevel \in Nat
  BY TrampolineAssumption
<1> DEFINE S == {0} \cup m.external \cup m.onchip
<1>2. S \in SUBSET (0 .. TopLevel) /\ S # {}
  BY <1>1 DEF Latches, Levels
<1> HIDE DEF S
<1>3. Max(S) \in S
  BY <1>1, <1>2, GreatestOf
<1>4. recomp_pending_irq_level(m) = Max(S)
  BY DEF recomp_pending_irq_level, S
<1>5. Max(S) # 0
  BY <1>2, <1>3, <1>4 DEF Deliverable
<1> QED BY <1>3, <1>4, <1>5 DEF S

LEMMA ResetLands ==
    ASSUME NEW m, Latches(m), m.irq_armed = TRUE
    PROVE  /\ Landed(m, cdi_request_main_cpu_reset(m))
           /\ cdi_request_main_cpu_reset(m).step_armed = FALSE
<1> DEFINE r == [m EXCEPT !.reset_pending = TRUE]
<1>1. /\ DOMAIN r = Fields /\ r.external = m.external /\ r.onchip = m.onchip
      /\ r.vector = m.vector /\ r.asked = m.asked /\ r.taken = m.taken
      /\ r.running = m.running /\ r.reset_pending = TRUE
  BY DEF Latches, Fields
<1>2. cdi_request_main_cpu_reset(m) = IrqLanding(r)
  BY DEF cdi_request_main_cpu_reset
<1> HIDE DEF r
<1>3. Latches(r)
  BY <1>1 DEF Latches
<1>4. Landed(r, IrqLanding(r)) /\ IrqLanding(r).step_armed = FALSE
  BY <1>1, <1>3, IrqLands
<1> QED BY <1>1, <1>2, <1>4 DEF Landed

LEMMA ConsumedLatches ==
    ASSUME NEW m, Latches(m), Deliverable(m)
    PROVE  LET r == Consumed(m, recomp_pending_irq_level(m))
           IN  /\ Latches(r) /\ DeliveryOf(m, r)
               /\ r.running = m.running /\ r.step_armed = m.step_armed
               /\ r.reset_pending = m.reset_pending
<1> DEFINE level == recomp_pending_irq_level(m)
           r == Consumed(m, level)
<1>1. level \in m.external \cup m.onchip /\ level \in Levels
  BY PendingIsLatched DEF Latches
<1> HIDE DEF level
<1>2. CASE level \in m.onchip
  <2>1. r = [m EXCEPT !.onchip = m.onchip \ {level}, !.taken = <<"onchip", level>>]
    BY <1>2 DEF Consumed
  <2> HIDE DEF r
  <2>2. PICK taken : taken = <<"onchip", level>>
    OBVIOUS
  <2>3. r = [m EXCEPT !.onchip = m.onchip \ {level}, !.taken = taken]
    BY <2>1, <2>2
  <2>4. /\ DOMAIN r = Fields /\ r.external = m.external /\ r.onchip = m.onchip \ {level}
        /\ r.vector = m.vector /\ r.asked = m.asked /\ r.taken = taken
        /\ r.running = m.running /\ r.step_armed = m.step_armed
        /\ r.reset_pending = m.reset_pending
    BY <2>3 DEF Latches, Fields
  <2>5. Latches(r)
    BY <2>4 DEF Latches
  <2>6. r.taken[1] # "external"
    BY <2>2, <2>4
  <2> QED BY <2>4, <2>5, <2>6 DEF DeliveryOf, level, r
<1>3. CASE level \notin m.onchip
  <2>1. r = [m EXCEPT !.external = m.external \ {level},
                      !.vector = [m.vector EXCEPT ![level] = Autovector],
                      !.taken = <<"external", level, m.vector[level]>>]
    <3>1. r = [m EXCEPT !.external = @ \ {level}, !.vector[level] = Autovector,
                        !.taken = <<"external", level, m.vector[level]>>]
      BY <1>3 DEF Consumed
    <3> HIDE DEF r
    <3>2. PICK taken : taken = <<"external", level, m.vector[level]>>
      OBVIOUS
    <3>3. r = [m EXCEPT !.external = @ \ {level}, !.vector[level] = Autovector, !.taken = taken]
      BY <3>1, <3>2
    <3>4. r = [m EXCEPT !.external = m.external \ {level},
                        !.vector = [m.vector EXCEPT ![level] = Autovector], !.taken = taken]
      BY <3>3 DEF Latches, Fields
    <3> QED BY <3>2, <3>4
  <2> HIDE DEF r
  <2>2. PICK taken : taken = <<"external", level, m.vector[level]>>
    OBVIOUS
  <2>3. r = [m EXCEPT !.external = m.external \ {level},
                      !.vector = [m.vector EXCEPT ![level] = Autovector], !.taken = taken]
    BY <2>1, <2>2
  <2>4. /\ DOMAIN r = Fields /\ r.external = m.external \ {level} /\ r.onchip = m.onchip
        /\ r.vector = [m.vector EXCEPT ![level] = Autovector] /\ r.asked = m.asked
        /\ r.taken = taken /\ r.running = m.running /\ r.step_armed = m.step_armed
        /\ r.reset_pending = m.reset_pending
    BY <2>3 DEF Latches, Fields
  <2>5. Latches(r)
    BY <1>1, <2>4 DEF Latches, Autovector
  <2>6. taken[2] = level /\ taken[3] = m.vector[level]
    BY <2>2
  <2>7. m.vector[level] = m.asked[level]
    BY <1>1, <1>3 DEF Latches
  <2>8. DeliveryOf(m, r)
    BY <2>4, <2>6, <2>7 DEF DeliveryOf
  <2> QED BY <2>4, <2>5, <2>8 DEF level, r
<1> QED BY <1>2, <1>3

LEMMA TakeLands ==
    ASSUME NEW m, Latches(m), Deliverable(m), m.step_armed = FALSE
    PROVE  LET r == recomp_take_irq(m)
           IN  /\ Latches(r) /\ Stack(r) /\ Armed(r) /\ Guard(r) /\ DeliveryOf(m, r)
<1> DEFINE c == Consumed(m, recomp_pending_irq_level(m))
           n == [c EXCEPT !.halted = FALSE]
           r == IrqLanding(n)
<1>1. recomp_take_irq(m) = r
  BY DEF recomp_take_irq
<1>2. /\ Latches(c) /\ DeliveryOf(m, c) /\ c.step_armed = FALSE
  BY ConsumedLatches
<1> HIDE DEF c
<1>3. /\ DOMAIN n = Fields /\ n.external = c.external /\ n.onchip = c.onchip
      /\ n.vector = c.vector /\ n.asked = c.asked /\ n.taken = c.taken
      /\ n.step_armed = FALSE
  BY <1>2 DEF Latches, Fields
<1> HIDE DEF n
<1>4. Latches(n)
  BY <1>2, <1>3 DEF Latches
<1>5. Landed(n, r) /\ r.step_armed = FALSE
  BY <1>3, <1>4, IrqLands
<1> HIDE DEF r
<1>6. Latches(r) /\ Stack(r) /\ Armed(r) /\ Guard(r)
  BY <1>5, LandedInv
<1>7. DeliveryOf(m, r)
  BY <1>2, <1>3, <1>5 DEF DeliveryOf, Landed
<1> QED BY <1>1, <1>6, <1>7

-----------------------------------------------------------------------------
(* Guest code. *)

LEMMA Beginning ==
    ASSUME NEW m, Latches(m)
    PROVE  /\ Latches(Begun(m)) /\ Begun(m).frames = m.frames /\ Begun(m).in_hybrid = m.in_hybrid
           /\ Begun(m).bus_armed = m.bus_armed /\ Begun(m).irq_armed = m.irq_armed
           /\ Begun(m).running = m.running /\ Begun(m).taken = m.taken
           /\ Begun(m).asked = m.asked
           /\ Begun(m).step_armed = IF Interpreting(m) THEN TRUE ELSE m.step_armed
<1>1. CASE Interpreting(m)
  <2> DEFINE r == [m EXCEPT !.step_armed = TRUE]
  <2>1. Begun(m) = r
    BY <1>1 DEF Begun
  <2>2. /\ DOMAIN r = Fields /\ r.external = m.external /\ r.onchip = m.onchip
        /\ r.vector = m.vector /\ r.asked = m.asked /\ r.frames = m.frames
        /\ r.in_hybrid = m.in_hybrid /\ r.bus_armed = m.bus_armed /\ r.irq_armed = m.irq_armed
        /\ r.running = m.running /\ r.taken = m.taken /\ r.step_armed = TRUE
    BY DEF Latches, Fields
  <2> HIDE DEF r
  <2>3. Latches(r)
    BY <2>2 DEF Latches
  <2> QED BY <1>1, <2>1, <2>2, <2>3
<1>2. CASE ~Interpreting(m)
  <2> DEFINE r == [m EXCEPT !.progress = TRUE]
  <2>1. Begun(m) = r
    BY <1>2 DEF Begun
  <2>2. /\ DOMAIN r = Fields /\ r.external = m.external /\ r.onchip = m.onchip
        /\ r.vector = m.vector /\ r.asked = m.asked /\ r.frames = m.frames
        /\ r.in_hybrid = m.in_hybrid /\ r.bus_armed = m.bus_armed /\ r.irq_armed = m.irq_armed
        /\ r.running = m.running /\ r.taken = m.taken /\ r.step_armed = m.step_armed
    BY DEF Latches, Fields
  <2> HIDE DEF r
  <2>3. Latches(r)
    BY <2>2 DEF Latches
  <2> QED BY <1>2, <2>1, <2>2, <2>3
<1> QED BY <1>1, <1>2

\* An instruction that stays in its frame.
LEMMA InstructionKeeps ==
    ASSUME TrampolineInv, NEW m, Latches(m), m.frames = main.frames, m.in_hybrid = main.in_hybrid,
           m.bus_armed = main.bus_armed, m.irq_armed = main.irq_armed, m.running = main.running,
           m.taken = main.taken, main' = Ended(m)
    PROVE  TrampolineInv' /\ DeliveryOf(main, main')
<1>1. /\ DOMAIN main' = Fields /\ main'.external = m.external /\ main'.onchip = m.onchip
      /\ main'.vector = m.vector /\ main'.asked = m.asked /\ main'.frames = main.frames
      /\ main'.in_hybrid = main.in_hybrid /\ main'.bus_armed = main.bus_armed
      /\ main'.irq_armed = main.irq_armed /\ main'.running = main.running
      /\ main'.taken = main.taken /\ main'.step_armed = FALSE
  BY DEF Ended, Latches, Fields
<1>2. Latches(main)'
  BY <1>1 DEF Latches
<1>3. Stack(main)' /\ Armed(main)'
  BY <1>1 DEF TrampolineInv, Stack, Armed
<1>4. Guard(main)'
  BY <1>1 DEF TrampolineInv, Guard, InGuest, Here
<1>5. DeliveryOf(main, main')
  BY <1>1 DEF DeliveryOf
<1> QED BY <1>2, <1>3, <1>4, <1>5 DEF TrampolineInv

\* The frames that stay below the one that ends are native.
LEMMA BelowIsNative ==
    ASSUME NEW m, Stack(m), m.frames # << >>
    PROVE  /\ Below(m) \in Seq(FrameKinds) /\ Len(Below(m)) = Len(m.frames) - 1
           /\ Len(m.frames) \in Nat \ {0} /\ Here(m) \in FrameKinds
           /\ \A i \in 1 .. Len(Below(m)) : Below(m)[i] = "native"
<1>1. m.frames \in Seq(FrameKinds) /\ Len(m.frames) \in Nat \ {0}
  BY EmptySeq DEF Stack
<1>2. PICK n \in Nat : n = Len(m.frames) - 1
  <2>1. Len(m.frames) - 1 \in Nat
    BY <1>1
  <2> QED BY <2>1
<1>3. \A i \in 1 .. n : m.frames[i] \in FrameKinds
  BY <1>1, <1>2, ElementOfSeq
<1>4. /\ SubSeq(m.frames, 1, n) \in Seq(FrameKinds) /\ Len(SubSeq(m.frames, 1, n)) = n
      /\ \A i \in 1 .. n : SubSeq(m.frames, 1, n)[i] = m.frames[i]
  BY <1>1, <1>2, <1>3, SubSeqProperties
<1>5. \A i \in 1 .. n : m.frames[i] = "native"
  BY <1>1, <1>2 DEF Stack
<1> QED BY <1>1, <1>2, <1>4, <1>5, ElementOfSeq DEF Below, Here

\* The loop, or a native frame, is on top and the guard is down.
LEMMA NativeOnTop ==
    ASSUME NEW m, Latches(m), Armed(m), m.in_hybrid = FALSE,
           m.frames \in Seq(FrameKinds), \A i \in 1 .. Len(m.frames) : m.frames[i] = "native"
    PROVE  Latches(m) /\ Stack(m) /\ Armed(m) /\ Guard(m)
<1>1. Stack(m)
  BY DEF Stack
<1>2. Guard(m)
  <2> SUFFICES ASSUME m.frames # << >> PROVE m.in_hybrid = (Here(m) = "hybrid")
    BY DEF Guard, InGuest
  <2>1. Len(m.frames) \in 1 .. Len(m.frames)
    BY EmptySeq
  <2>2. Here(m) = "native"
    BY <2>1 DEF Here
  <2> QED BY <2>2
<1> QED BY <1>1, <1>2

\* What a guest step starts from.
LEMMA InGuestIs ==
    ASSUME TrampolineInv, InGuest(main)
    PROVE  /\ Latches(main) /\ Stack(main) /\ main.frames # << >>
           /\ main.running /\ main.irq_armed = TRUE /\ main.bus_armed = TRUE
           /\ main.step_armed = FALSE /\ main.in_hybrid = (Here(main) = "hybrid")
           /\ Here(main) \in FrameKinds
BY BelowIsNative DEF TrampolineInv, InGuest, Armed, Guard

LEMMA GuestStays ==
    ASSUME TrampolineInv, Safepoint \/ BusAccess \/ m68k_set_sr \/ RequestReset
    PROVE  TrampolineInv' /\ DeliveryOf(main, main')
<1>1. InGuest(main) /\ Latches(main) /\ main.irq_armed = TRUE /\ main.step_armed = FALSE
  BY InGuestIs DEF Safepoint, BusAccess, m68k_set_sr, RequestReset, Proceeds
<1>2. CASE Safepoint
  BY <1>1, <1>2, TakeLands DEF Safepoint, TrampolineInv
<1>3. CASE BusAccess
  <2>1. PICK m \in Accessed(Begun(main)) : main' = Ended(m)
    BY <1>3 DEF BusAccess
  <2>2. Latches(m) /\ SameCode(Begun(main), m)
    BY <1>1, AccessedLatches, Beginning
  <2>3. /\ m.frames = main.frames /\ m.in_hybrid = main.in_hybrid
        /\ m.bus_armed = main.bus_armed /\ m.irq_armed = main.irq_armed
        /\ m.running = main.running /\ m.taken = main.taken
    BY <1>1, <2>2, Beginning DEF SameCode
  <2> QED BY <2>1, <2>2, <2>3, InstructionKeeps
<1>4. CASE m68k_set_sr
  <2>1. PICK ipm \in 0 .. TopLevel : main' = Ended([Begun(main) EXCEPT !.ipm = ipm])
    BY <1>4 DEF m68k_set_sr
  <2>2. PICK m : m = [Begun(main) EXCEPT !.ipm = ipm]
    OBVIOUS
  <2>3. Latches(m) /\ SameCode(Begun(main), m)
    <3>1. PICK b : b = Begun(main)
      OBVIOUS
    <3>2. Latches(b) /\ m = [b EXCEPT !.ipm = ipm]
      BY <1>1, <2>2, <3>1, Beginning
    <3>3. /\ DOMAIN m = Fields /\ m.external = b.external /\ m.onchip = b.onchip
          /\ m.vector = b.vector /\ m.asked = b.asked /\ SameCode(b, m)
      BY <3>2 DEF Latches, Fields, SameCode
    <3>4. Latches(m)
      BY <3>2, <3>3 DEF Latches
    <3> QED BY <3>1, <3>3, <3>4
  <2> QED BY <1>1, <2>1, <2>2, <2>3, Beginning, InstructionKeeps DEF SameCode
<1>5. CASE RequestReset
  <2>1. PICK b : b = Begun(main)
    OBVIOUS
  <2>2. Latches(b) /\ b.irq_armed = TRUE /\ b.taken = main.taken
    BY <1>1, <2>1, Beginning
  <2>3. main' = cdi_request_main_cpu_reset(b)
    BY <1>5, <2>1 DEF RequestReset
  <2>4. Landed(b, main') /\ main'.step_armed = FALSE
    BY <2>2, <2>3, ResetLands
  <2>5. TrampolineInv'
    BY <2>4, LandedInv DEF TrampolineInv
  <2> QED BY <2>2, <2>4, <2>5 DEF DeliveryOf, Landed
<1> QED BY <1>2, <1>3, <1>4, <1>5

LEMMA BusErrorKeeps ==
    ASSUME TrampolineInv, BusError
    PROVE  TrampolineInv' /\ DeliveryOf(main, main')
<1>1. InGuest(main) /\ Latches(main) /\ main.bus_armed = TRUE /\ main.step_armed = FALSE
  BY InGuestIs DEF BusError, Proceeds
<1>2. PICK m : m = Begun(main)
  OBVIOUS
<1>3. /\ Latches(m) /\ m.frames = main.frames /\ m.in_hybrid = main.in_hybrid
      /\ m.bus_armed = main.bus_armed /\ m.irq_armed = main.irq_armed
      /\ m.running = main.running /\ m.taken = main.taken
      /\ m.step_armed = IF Interpreting(main) THEN TRUE ELSE main.step_armed
  BY <1>1, <1>2, Beginning
<1>4. CASE Interpreting(main)
  <2>1. m.step_armed
    BY <1>3, <1>4
  <2>2. main' = Ended(m)
    BY <1>2, <2>1 DEF BusError
  <2> QED BY <1>3, <2>2, InstructionKeeps
<1>5. CASE ~Interpreting(main)
  <2>1. ~m.step_armed /\ m.bus_armed /\ m.step_armed = FALSE
    BY <1>1, <1>3, <1>5
  <2>2. PICK b : b = [m EXCEPT !.bus_armed = FALSE]
    OBVIOUS
  <2>3. main' = BusLanding(b)
    BY <1>2, <2>1, <2>2 DEF BusError
  <2>4. /\ DOMAIN b = Fields /\ b.external = m.external /\ b.onchip = m.onchip
        /\ b.vector = m.vector /\ b.asked = m.asked /\ b.taken = m.taken
        /\ b.step_armed = FALSE
    BY <1>3, <2>1, <2>2 DEF Latches, Fields
  <2>5. Latches(b)
    BY <1>3, <2>4 DEF Latches
  <2>6. Landed(b, main') /\ main'.step_armed = FALSE
    BY <2>3, <2>4, <2>5, BusLands
  <2>7. TrampolineInv'
    BY <2>6, LandedInv DEF TrampolineInv
  <2> QED BY <1>3, <2>4, <2>6, <2>7 DEF DeliveryOf, Landed
<1> QED BY <1>4, <1>5

\* The frame that ends takes the guard down if it put it up.
LEMMA LeftIs ==
    ASSUME NEW m, Latches(m), m.in_hybrid = (Here(m) = "hybrid")
    PROVE  /\ Latches(Left(m)) /\ Left(m).in_hybrid = FALSE /\ Left(m).frames = m.frames
           /\ Left(m).bus_armed = m.bus_armed /\ Left(m).irq_armed = m.irq_armed
           /\ Left(m).running = m.running /\ Left(m).taken = m.taken
           /\ Left(m).step_armed = m.step_armed
<1>1. CASE Here(m) = "hybrid"
  <2> DEFINE r == [m EXCEPT !.in_hybrid = FALSE]
  <2>1. Left(m) = r
    BY <1>1 DEF Left
  <2>2. /\ DOMAIN r = Fields /\ r.external = m.external /\ r.onchip = m.onchip
        /\ r.vector = m.vector /\ r.asked = m.asked /\ r.frames = m.frames
        /\ r.in_hybrid = FALSE /\ r.bus_armed = m.bus_armed /\ r.irq_armed = m.irq_armed
        /\ r.running = m.running /\ r.taken = m.taken /\ r.step_armed = m.step_armed
    BY DEF Latches, Fields
  <2> HIDE DEF r
  <2>3. Latches(r)
    BY <2>2 DEF Latches
  <2> QED BY <2>1, <2>2, <2>3
<1>2. CASE Here(m) # "hybrid"
  BY <1>2 DEF Left
<1> QED BY <1>1, <1>2

\* A step that leaves main with native frames only, or with none.
LEMMA UnwindKeeps ==
    ASSUME NEW m, Latches(m), m.in_hybrid = FALSE, m.step_armed = FALSE, m.irq_armed = TRUE,
           m.bus_armed = TRUE, m.taken = main.taken,
           DOMAIN main' = Fields, main'.external = m.external, main'.onchip = m.onchip,
           main'.vector = m.vector, main'.asked = m.asked, main'.taken = m.taken,
           main'.in_hybrid = FALSE, main'.step_armed = FALSE, main'.irq_armed = TRUE,
           main'.bus_armed = TRUE, main'.frames \in Seq(FrameKinds),
           \A i \in 1 .. Len(main'.frames) : main'.frames[i] = "native"
    PROVE  TrampolineInv' /\ DeliveryOf(main, main')
<1>1. Latches(main)'
  BY DEF Latches
<1>2. Armed(main)'
  BY DEF Armed
<1>3. TrampolineInv'
  BY <1>1, <1>2, NativeOnTop DEF TrampolineInv
<1> QED BY <1>3 DEF DeliveryOf

LEMMA StopKeeps ==
    ASSUME TrampolineInv, genesis_stop_until_interrupt
    PROVE  TrampolineInv' /\ DeliveryOf(main, main')
<1>1. /\ Latches(main) /\ main.irq_armed = TRUE /\ main.bus_armed = TRUE
      /\ main.step_armed = FALSE /\ main.in_hybrid = (Here(main) = "hybrid")
  BY InGuestIs DEF genesis_stop_until_interrupt, Proceeds
<1>2. PICK b : b = Begun(main)
  OBVIOUS
<1>3. /\ Latches(b) /\ b.frames = main.frames /\ b.in_hybrid = main.in_hybrid
      /\ b.bus_armed = TRUE /\ b.irq_armed = TRUE /\ b.taken = main.taken
  BY <1>1, <1>2, Beginning
<1>4. PICK e : e = Ended(b)
  OBVIOUS
<1>5. /\ DOMAIN e = Fields /\ e.external = b.external /\ e.onchip = b.onchip
      /\ e.vector = b.vector /\ e.asked = b.asked /\ e.frames = main.frames
      /\ e.in_hybrid = main.in_hybrid /\ e.bus_armed = TRUE /\ e.irq_armed = TRUE
      /\ e.taken = main.taken /\ e.step_armed = FALSE
  BY <1>3, <1>4 DEF Ended, Latches, Fields
<1>6. Latches(e)
  BY <1>3, <1>5 DEF Latches
<1>7. e.in_hybrid = (Here(e) = "hybrid")
  BY <1>1, <1>5 DEF Here
<1>8. PICK m : m = Left(e)
  OBVIOUS
<1>9. /\ Latches(m) /\ m.in_hybrid = FALSE /\ m.bus_armed = TRUE /\ m.irq_armed = TRUE
      /\ m.taken = main.taken /\ m.step_armed = FALSE
  BY <1>5, <1>6, <1>7, <1>8, LeftIs
<1>10. PICK ipm \in 0 .. TopLevel :
          main' = [m EXCEPT !.ipm = ipm, !.halted = TRUE, !.frames = << >>]
  BY <1>2, <1>4, <1>8 DEF genesis_stop_until_interrupt
<1>11. /\ DOMAIN main' = Fields /\ main'.external = m.external /\ main'.onchip = m.onchip
       /\ main'.vector = m.vector /\ main'.asked = m.asked /\ main'.taken = m.taken
       /\ main'.in_hybrid = FALSE /\ main'.step_armed = FALSE /\ main'.irq_armed = TRUE
       /\ main'.bus_armed = TRUE /\ main'.frames = << >>
  BY <1>9, <1>10 DEF Latches, Fields
<1>12. main'.frames \in Seq(FrameKinds) /\ Len(main'.frames) = 0
  BY <1>11
<1>13. \A i \in 1 .. Len(main'.frames) : main'.frames[i] = "native"
  BY <1>12
<1> QED BY <1>9, <1>11, <1>12, <1>13, UnwindKeeps

LEMMA NativeStepKeeps ==
    ASSUME TrampolineInv, NativeRte \/ NativeRewritten \/ NativeReturn \/ NativeCall
    PROVE  TrampolineInv' /\ DeliveryOf(main, main')
<1>1. Proceeds /\ Here(main) = "native"
  BY DEF NativeRte, NativeRewritten, NativeReturn, NativeCall
<1>2. /\ Latches(main) /\ Stack(main) /\ main.frames # << >> /\ main.irq_armed = TRUE
      /\ main.bus_armed = TRUE /\ main.step_armed = FALSE /\ main.in_hybrid = FALSE
  BY <1>1, InGuestIs DEF Proceeds
<1>3. ~Interpreting(main)
  BY <1>1 DEF Interpreting
<1>4. PICK m : m = Begun(main)
  OBVIOUS
<1>5. /\ Latches(m) /\ m.frames = main.frames /\ m.in_hybrid = FALSE /\ m.step_armed = FALSE
      /\ m.bus_armed = TRUE /\ m.irq_armed = TRUE /\ m.taken = main.taken
  BY <1>2, <1>3, <1>4, Beginning
<1>6. /\ Below(main) \in Seq(FrameKinds) /\ Len(Below(main)) = Len(main.frames) - 1
      /\ Len(main.frames) \in Nat \ {0}
      /\ \A i \in 1 .. Len(Below(main)) : Below(main)[i] = "native"
  BY <1>2, BelowIsNative
<1>7. ASSUME NEW frames \in Seq(FrameKinds), \A i \in 1 .. Len(frames) : frames[i] = "native",
             DOMAIN main' = Fields, main'.external = m.external, main'.onchip = m.onchip,
             main'.vector = m.vector, main'.asked = m.asked, main'.taken = m.taken,
             main'.in_hybrid = m.in_hybrid, main'.step_armed = m.step_armed,
             main'.irq_armed = m.irq_armed, main'.bus_armed = m.bus_armed, main'.frames = frames
      PROVE  TrampolineInv' /\ DeliveryOf(main, main')
  BY <1>5, <1>7, UnwindKeeps
<1>8. << >> \in Seq(FrameKinds) /\ Len(<< >>) = 0
  OBVIOUS
<1>8a. \A i \in 1 .. Len(<< >>) : << >>[i] = "native"
  BY <1>8
<1>9. CASE NativeRte
  <2>1. PICK ipm \in 0 .. TopLevel :
          main' = [m EXCEPT !.ipm = ipm, !.rte_resume = TRUE, !.frames = << >>]
    BY <1>4, <1>9 DEF NativeRte
  <2>2. /\ DOMAIN main' = Fields /\ main'.external = m.external /\ main'.onchip = m.onchip
        /\ main'.vector = m.vector /\ main'.asked = m.asked /\ main'.taken = m.taken
        /\ main'.in_hybrid = m.in_hybrid /\ main'.step_armed = m.step_armed
        /\ main'.irq_armed = m.irq_armed /\ main'.bus_armed = m.bus_armed
        /\ main'.frames = << >>
    BY <1>5, <2>1 DEF Latches, Fields
  <2> QED BY <1>7, <1>8, <1>8a, <2>2
<1>10. CASE NativeRewritten
  <2>1. main' = [m EXCEPT !.redirect = TRUE, !.frames = << >>]
    BY <1>4, <1>10 DEF NativeRewritten
  <2>2. /\ DOMAIN main' = Fields /\ main'.external = m.external /\ main'.onchip = m.onchip
        /\ main'.vector = m.vector /\ main'.asked = m.asked /\ main'.taken = m.taken
        /\ main'.in_hybrid = m.in_hybrid /\ main'.step_armed = m.step_armed
        /\ main'.irq_armed = m.irq_armed /\ main'.bus_armed = m.bus_armed
        /\ main'.frames = << >>
    BY <1>5, <2>1 DEF Latches, Fields
  <2> QED BY <1>7, <1>8, <1>8a, <2>2
<1>11. CASE NativeReturn
  <2>1. main' = [m EXCEPT !.frames = Below(main)]
    BY <1>4, <1>11 DEF NativeReturn
  <2>2. /\ DOMAIN main' = Fields /\ main'.external = m.external /\ main'.onchip = m.onchip
        /\ main'.vector = m.vector /\ main'.asked = m.asked /\ main'.taken = m.taken
        /\ main'.in_hybrid = m.in_hybrid /\ main'.step_armed = m.step_armed
        /\ main'.irq_armed = m.irq_armed /\ main'.bus_armed = m.bus_armed
        /\ main'.frames = Below(main)
    BY <1>5, <2>1 DEF Latches, Fields
  <2> QED BY <1>6, <1>7, <2>2
<1>12. CASE NativeCall
  <2>1. PICK frames : frames = Append(main.frames, "native")
    OBVIOUS
  <2>2. main' = [m EXCEPT !.frames = frames]
    BY <1>4, <1>5, <1>12, <2>1 DEF NativeCall
  <2>3. /\ DOMAIN main' = Fields /\ main'.external = m.external /\ main'.onchip = m.onchip
        /\ main'.vector = m.vector /\ main'.asked = m.asked /\ main'.taken = m.taken
        /\ main'.in_hybrid = m.in_hybrid /\ main'.step_armed = m.step_armed
        /\ main'.irq_armed = m.irq_armed /\ main'.bus_armed = m.bus_armed
        /\ main'.frames = frames
    BY <1>5, <2>2 DEF Latches, Fields
  <2>4. "native" \in FrameKinds /\ main.frames \in Seq(FrameKinds)
    BY <1>2 DEF FrameKinds, Stack
  <2>5. /\ frames \in Seq(FrameKinds) /\ Len(frames) = Len(main.frames) + 1
        /\ \A i \in 1 .. Len(main.frames) : frames[i] = main.frames[i]
        /\ frames[Len(main.frames) + 1] = "native"
    BY <2>1, <2>4, AppendProperties
  <2>6. \A i \in 1 .. Len(main.frames) : main.frames[i] = "native"
    BY <1>1, <1>2, <1>6 DEF Stack, Here
  <2>7. \A i \in 1 .. Len(frames) : frames[i] = "native"
    <3>1. \A i \in 1 .. Len(frames) : i \in 1 .. Len(main.frames) \/ i = Len(main.frames) + 1
      BY <1>6, <2>5
    <3> QED BY <2>5, <2>6, <3>1
  <2> QED BY <1>7, <2>3, <2>5, <2>7
<1> QED BY <1>9, <1>10, <1>11, <1>12

LEMMA HybridEnterKeeps ==
    ASSUME TrampolineInv, hybrid_enter
    PROVE  TrampolineInv' /\ DeliveryOf(main, main')
<1>1. Proceeds /\ Here(main) = "native"
  BY DEF hybrid_enter
<1>2. /\ Latches(main) /\ Stack(main) /\ main.frames # << >> /\ main.irq_armed = TRUE
      /\ main.bus_armed = TRUE /\ main.step_armed = FALSE /\ main.in_hybrid = FALSE
  BY <1>1, InGuestIs DEF Proceeds
<1>3. ~Interpreting(main)
  BY <1>1 DEF Interpreting
<1>4. PICK m : m = Begun(main)
  OBVIOUS
<1>5. /\ Latches(m) /\ m.frames = main.frames /\ m.step_armed = FALSE
      /\ m.bus_armed = TRUE /\ m.irq_armed = TRUE /\ m.taken = main.taken
  BY <1>2, <1>3, <1>4, Beginning
<1>6. PICK frames : frames = Append(main.frames, "hybrid")
  OBVIOUS
<1>7. main' = [m EXCEPT !.in_hybrid = TRUE, !.frames = frames]
  BY <1>2, <1>4, <1>5, <1>6 DEF hybrid_enter
<1>8. /\ DOMAIN main' = Fields /\ main'.external = m.external /\ main'.onchip = m.onchip
      /\ main'.vector = m.vector /\ main'.asked = m.asked /\ main'.taken = m.taken
      /\ main'.in_hybrid = TRUE /\ main'.step_armed = m.step_armed
      /\ main'.irq_armed = m.irq_armed /\ main'.bus_armed = m.bus_armed
      /\ main'.frames = frames
  BY <1>5, <1>7 DEF Latches, Fields
<1>9. "hybrid" \in FrameKinds /\ main.frames \in Seq(FrameKinds) /\ Len(main.frames) \in Nat \ {0}
  BY <1>2, BelowIsNative DEF FrameKinds, Stack
<1>10. /\ frames \in Seq(FrameKinds) /\ Len(frames) = Len(main.frames) + 1
       /\ \A i \in 1 .. Len(main.frames) : frames[i] = main.frames[i]
       /\ frames[Len(main.frames) + 1] = "hybrid"
  BY <1>6, <1>9, AppendProperties
<1>11. \A i \in 1 .. Len(main.frames) : main.frames[i] = "native"
  BY <1>1, <1>2, <1>9 DEF Stack, Here
<1>12. Stack(main)'
  <2>1. \A i \in 1 .. Len(frames) : i < Len(frames) => i \in 1 .. Len(main.frames)
    BY <1>9, <1>10
  <2>2. \A i \in 1 .. Len(frames) : i < Len(frames) => frames[i] = "native"
    BY <1>10, <1>11, <2>1
  <2> QED BY <1>8, <1>10, <2>2 DEF Stack
<1>13. Here(main)' = "hybrid"
  BY <1>8, <1>10 DEF Here
<1>14. Latches(main)' /\ Armed(main)'
  BY <1>5, <1>8 DEF Latches, Armed
<1>15. Guard(main)'
  BY <1>8, <1>13 DEF Guard
<1> QED BY <1>5, <1>8, <1>12, <1>14, <1>15 DEF TrampolineInv, DeliveryOf

LEMMA InterpreterEnds ==
    ASSUME TrampolineInv, Reenter \/ Leave
    PROVE  TrampolineInv' /\ DeliveryOf(main, main')
<1>1. /\ Latches(main) /\ Stack(main) /\ main.frames # << >> /\ main.irq_armed = TRUE
      /\ main.bus_armed = TRUE /\ main.step_armed = FALSE
      /\ main.in_hybrid = (Here(main) = "hybrid")
  BY InGuestIs DEF Reenter, Leave
<1>2. PICK m : m = Left(main)
  OBVIOUS
<1>3. /\ Latches(m) /\ m.in_hybrid = FALSE /\ m.step_armed = FALSE
      /\ m.bus_armed = TRUE /\ m.irq_armed = TRUE /\ m.taken = main.taken
  BY <1>1, <1>2, LeftIs
<1>4. /\ Below(main) \in Seq(FrameKinds)
      /\ \A i \in 1 .. Len(Below(main)) : Below(main)[i] = "native"
  BY <1>1, BelowIsNative
<1>5. PICK below : below = Below(main)
  OBVIOUS
<1>6. PICK frames : frames = IF Reenter THEN Append(below, "native") ELSE below
  OBVIOUS
<1>7. main' = [m EXCEPT !.frames = frames]
  BY <1>2, <1>5, <1>6 DEF Reenter, Leave
<1>8. /\ DOMAIN main' = Fields /\ main'.external = m.external /\ main'.onchip = m.onchip
      /\ main'.vector = m.vector /\ main'.asked = m.asked /\ main'.taken = m.taken
      /\ main'.in_hybrid = FALSE /\ main'.step_armed = FALSE
      /\ main'.irq_armed = TRUE /\ main'.bus_armed = TRUE /\ main'.frames = frames
  BY <1>3, <1>7 DEF Latches, Fields
<1>9. frames \in Seq(FrameKinds) /\ \A i \in 1 .. Len(frames) : frames[i] = "native"
  <2>1. CASE Reenter
    <3>1. "native" \in FrameKinds
      BY DEF FrameKinds
    <3>2. /\ frames \in Seq(FrameKinds) /\ Len(frames) = Len(below) + 1 /\ Len(below) \in Nat
          /\ \A i \in 1 .. Len(below) : frames[i] = below[i]
          /\ frames[Len(below) + 1] = "native"
      BY <1>4, <1>5, <1>6, <2>1, <3>1, AppendProperties
    <3>3. \A i \in 1 .. Len(frames) : i \in 1 .. Len(below) \/ i = Len(below) + 1
      BY <3>2
    <3> QED BY <1>4, <1>5, <3>2, <3>3
  <2>2. CASE ~Reenter
    BY <1>4, <1>5, <1>6, <2>2
  <2> QED BY <2>1, <2>2
<1> QED BY <1>3, <1>8, <1>9, UnwindKeeps

-----------------------------------------------------------------------------
(* The loop. *)

LEMMA QuitKeeps ==
    ASSUME TrampolineInv, NEW m, Latches(m), m.frames = main.frames, m.in_hybrid = main.in_hybrid,
           m.taken = main.taken,
           main' = [m EXCEPT !.running = FALSE, !.bus_armed = FALSE, !.irq_armed = FALSE]
    PROVE  TrampolineInv' /\ DeliveryOf(main, main')
<1>1. /\ DOMAIN main' = Fields /\ main'.external = m.external /\ main'.onchip = m.onchip
      /\ main'.vector = m.vector /\ main'.asked = m.asked /\ main'.taken = m.taken
      /\ main'.frames = main.frames /\ main'.running = FALSE
  BY DEF Latches, Fields
<1>2. Latches(main)'
  BY <1>1 DEF Latches
<1>3. Stack(main)' /\ Armed(main)' /\ Guard(main)'
  BY <1>1 DEF TrampolineInv, Stack, Armed, Guard, InGuest
<1> QED BY <1>1, <1>2, <1>3 DEF TrampolineInv, DeliveryOf

LEMMA FollowKeeps ==
    ASSUME TrampolineInv, Follow
    PROVE  TrampolineInv' /\ DeliveryOf(main, main')
<1>1. /\ Latches(main) /\ main.running /\ main.irq_armed = TRUE /\ main.bus_armed = TRUE
      /\ main.step_armed = FALSE
  BY DEF TrampolineInv, Follow, InLoop, Armed
<1>2. PICK m : m = [main EXCEPT !.redirect = FALSE]
  OBVIOUS
<1>3. /\ DOMAIN m = Fields /\ m.external = main.external /\ m.onchip = main.onchip
      /\ m.vector = main.vector /\ m.asked = main.asked /\ m.taken = main.taken
      /\ m.frames = main.frames /\ m.in_hybrid = main.in_hybrid
      /\ m.irq_armed = TRUE /\ m.bus_armed = TRUE /\ m.step_armed = FALSE
  BY <1>1, <1>2 DEF Latches, Fields
<1>4. Latches(m) /\ Dispatch(m)
  BY <1>1, <1>2, <1>3 DEF Latches, Follow
<1>5. PICK stuck : stuck = IF m.progress THEN 0 ELSE m.stuck + 1
  OBVIOUS
<1>6. CASE stuck > StuckLimit
  <2>1. main' = [m EXCEPT !.running = FALSE, !.bus_armed = FALSE, !.irq_armed = FALSE]
    BY <1>4, <1>5, <1>6 DEF Dispatch
  <2> QED BY <1>3, <1>4, <2>1, QuitKeeps
<1>7. CASE ~(stuck > StuckLimit)
  <2>1. PICK known \in BOOLEAN :
           main' = recomp_top_resume([m EXCEPT !.stuck = stuck, !.progress = FALSE,
                                               !.rte_resume = FALSE], known)
    BY <1>4, <1>5, <1>7 DEF Dispatch
  <2>2. PICK d : d = [m EXCEPT !.stuck = stuck, !.progress = FALSE, !.rte_resume = FALSE]
    OBVIOUS
  <2>3. /\ DOMAIN d = Fields /\ d.external = m.external /\ d.onchip = m.onchip
        /\ d.vector = m.vector /\ d.asked = m.asked /\ d.taken = m.taken
        /\ d.irq_armed = TRUE /\ d.bus_armed = TRUE /\ d.step_armed = FALSE
    BY <1>3, <2>2 DEF Fields
  <2>4. PICK frames : frames = IF known THEN <<"native">> ELSE <<"top">>
    OBVIOUS
  <2>5. main' = [d EXCEPT !.in_hybrid = FALSE, !.frames = frames]
    BY <2>1, <2>2, <2>4 DEF recomp_top_resume
  <2>6. /\ DOMAIN main' = Fields /\ main'.external = m.external /\ main'.onchip = m.onchip
        /\ main'.vector = m.vector /\ main'.asked = m.asked /\ main'.taken = m.taken
        /\ main'.in_hybrid = FALSE /\ main'.step_armed = FALSE
        /\ main'.irq_armed = TRUE /\ main'.bus_armed = TRUE /\ main'.frames = frames
    BY <2>3, <2>5 DEF Fields
  <2>7. /\ frames \in Seq(FrameKinds) /\ Len(frames) = 1 /\ frames[1] # "hybrid"
    <3>1. CASE frames = <<"native">>
      BY <3>1 DEF FrameKinds
    <3>2. CASE frames = <<"top">>
      BY <3>2 DEF FrameKinds
    <3> QED BY <2>4, <3>1, <3>2
  <2>8. Latches(main)'
    BY <1>4, <2>6 DEF Latches
  <2>9. Stack(main)' /\ Armed(main)'
    BY <2>6, <2>7 DEF Stack, Armed
  <2>10. Guard(main)'
    BY <2>6, <2>7 DEF Guard, Here
  <2> QED BY <1>3, <2>6, <2>8, <2>9, <2>10 DEF TrampolineInv, DeliveryOf
<1> QED BY <1>6, <1>7

LEMMA StoppedKeeps ==
    ASSUME TrampolineInv, Stopped
    PROVE  TrampolineInv' /\ DeliveryOf(main, main')
<1>1. /\ Latches(main) /\ main.running /\ main.irq_armed = TRUE /\ main.bus_armed = TRUE
      /\ main.step_armed = FALSE /\ main.frames = << >>
  BY DEF TrampolineInv, Stopped, InLoop, Armed
<1>2. ASSUME NEW m \in Ticked(main), main' = recomp_take_irq(m)
      PROVE  TrampolineInv' /\ DeliveryOf(main, main')
  <2>1. Latches(m) /\ SameCode(main, m)
    BY <1>1, TickedLatches
  <2>2. CASE Deliverable(m)
    <3>1. Latches(main') /\ Stack(main') /\ Armed(main') /\ Guard(main') /\ DeliveryOf(m, main')
      BY <1>1, <1>2, <2>1, <2>2, TakeLands DEF SameCode
    <3> QED BY <2>1, <3>1 DEF TrampolineInv, DeliveryOf, SameCode
  <2>3. CASE ~Deliverable(m)
    <3>1. main' = m
      BY <1>2, <2>3 DEF recomp_take_irq
    <3>2. Stack(main)' /\ Armed(main)'
      BY <2>1, <3>1 DEF SameCode, TrampolineInv, Stack, Armed
    <3>3. Guard(main)'
      BY <1>1, <2>1, <3>1 DEF SameCode, Guard, InGuest
    <3> QED BY <2>1, <3>1, <3>2, <3>3 DEF TrampolineInv, DeliveryOf, SameCode
  <2> QED BY <2>2, <2>3
<1>3. CASE main' = cdi_request_main_cpu_reset(main)
  <2>1. Landed(main, main') /\ main'.step_armed = FALSE
    BY <1>1, <1>3, ResetLands
  <2>2. TrampolineInv'
    BY <2>1, LandedInv DEF TrampolineInv
  <2> QED BY <2>1, <2>2 DEF DeliveryOf, Landed
<1> QED BY <1>2, <1>3 DEF Stopped

LEMMA TrampolineStep ==
    TrampolineInv /\ [TrampolineNext]_main => TrampolineInv' /\ DeliveryOf(main, main')
<1> SUFFICES ASSUME TrampolineInv, [TrampolineNext]_main
             PROVE  TrampolineInv' /\ DeliveryOf(main, main')
  OBVIOUS
<1>1. CASE Quit
  BY <1>1, QuitKeeps DEF Quit, TrampolineInv
<1>2. CASE GuestNext
  BY <1>2, GuestStays, BusErrorKeeps, StopKeeps, NativeStepKeeps, HybridEnterKeeps,
     InterpreterEnds DEF GuestNext
<1>3. CASE UNCHANGED main
  BY <1>3 DEF TrampolineInv, Latches, Stack, Armed, Guard, InGuest, Here, DeliveryOf
<1> QED BY <1>1, <1>2, <1>3, FollowKeeps, StoppedKeeps DEF TrampolineNext

LEMMA TrampolineStart == TrampolineInit => TrampolineInv
<1> SUFFICES ASSUME TrampolineInit PROVE TrampolineInv
  OBVIOUS
<1>1. /\ DOMAIN main = Fields /\ main.external = {} /\ main.onchip = {}
      /\ main.vector = [l \in Levels |-> Autovector]
      /\ main.asked = [l \in Levels |-> Autovector] /\ main.frames = << >>
      /\ main.irq_armed = TRUE /\ main.bus_armed = TRUE /\ main.step_armed = FALSE
  BY DEF TrampolineInit, Fields
<1>2. Latches(main)
  BY <1>1 DEF Latches, Autovector
<1>3. main.frames \in Seq(FrameKinds) /\ Len(main.frames) = 0
  BY <1>1
<1> QED BY <1>1, <1>2, <1>3 DEF TrampolineInv, Stack, Armed, Guard, InGuest

(* runtime.c:99, m68k_interp.c:40: the recursion guard is up exactly while *)
(* hybrid_enter's interpreter run is the frame that executes, and the      *)
(* interpreter's pad is not left armed, for stacks of any depth.           *)
THEOREM GuardFollowsStack == TrampolineSpec => []GuardMatchesStack
<1>1. TrampolineInv => GuardMatchesStack
  BY DEF TrampolineInv, GuardMatchesStack, Guard, Armed, InGuest
<1> QED BY <1>1, TrampolineStart, TrampolineStep, PTL DEF TrampolineSpec

(* runtime.c:546-566: an external request is delivered with the vector its *)
(* device raised it with, for every set of levels and vectors.             *)
THEOREM DeliveredWithOwnVector == TrampolineSpec => VectorIsDevices
<1>1. TrampolineInv /\ [TrampolineNext]_main =>
        [main'.taken # main.taken /\ main'.taken[1] = "external" =>
          LET level == main'.taken[2] IN main'.taken[3] = main'.asked[level]]_main
  BY TrampolineStep DEF DeliveryOf
<1> QED BY <1>1, TrampolineStart, TrampolineStep, PTL DEF TrampolineSpec, VectorIsDevices

(***************************************************************************)
(* The co-simulation: what an instruction does is the same to both kinds   *)
(* of machine, a store marks the pages it reaches, and a record holds RAM  *)
(* as it is.                                                               *)
(***************************************************************************)
SideFields == {"kind", "cpu", "pending", "ram", "page_hash", "page_dirty", "ring"}

NativeCpus == [D0 : Int, A7 : Int, USP : Int, SSP : Int, S : BOOLEAN]
OracleCpus == [D0 : Int, USP : Int, SSP : Int, S : BOOLEAN]

CpuOK(s) ==
    /\ s.kind \in {"native", "oracle"}
    /\ s.kind = "native" => s.cpu \in NativeCpus /\ s.pending = "none"
    /\ s.kind = "oracle" => s.cpu \in OracleCpus /\ s.pending \in {"none", "reset", "exception"}

\* A run's machine: a page that is not marked has its hash in the cache.
SideOK(s) ==
    /\ DOMAIN s = SideFields /\ CpuOK(s)
    /\ s.ram \in [RamBytes -> {0, 1}]
    /\ DOMAIN s.page_hash = RamPages /\ s.page_dirty \subseteq RamPages
    /\ DOMAIN s.ring = 0 .. TraceRecords - 1
    /\ \A p \in RamPages : p \in s.page_dirty \/ s.page_hash[p] = PageNow(s, p)

AddrOf(p, i) == RamBase[p[1]] + p[2] * PageBytes + i

\* The pages marks names are all those a store of n bytes at phys reaches.
Covers(marks, phys, n) ==
    \A p \in RamPages, i \in 0 .. PageBytes - 1 : AddrOf(p, i) \in phys .. phys + n - 1 => p \in marks

-----------------------------------------------------------------------------
LEMMA Banks ==
  /\ BankBytes \in Nat \ {0} /\ PageBytes \in Nat \ {0} /\ PagesPerBank \in Nat \ {0}
  /\ BankBytes = PageBytes * PagesPerBank
  /\ RamBase[0] = 0 /\ RamBase[1] = RamBank1Base /\ RamBank1Base \in Nat
  /\ RamBank1Base >= BankBytes
<1>1. BankBytes \in Nat /\ PageBytes >= 1 /\ PagesPerBank >= 1
  BY CosimAssumption DEF BankBytes
<1>2. BankBytes # 0
  BY CosimAssumption, <1>1, SMTT(20) DEF BankBytes
<1> QED BY <1>1, <1>2, CosimAssumption DEF BankBytes, RamBase

\* What a page's bytes are.
LEMMA PageBytesInBank ==
  ASSUME NEW p \in RamPages, NEW i \in 0 .. PageBytes - 1
  PROVE  /\ p[1] \in {0, 1} /\ p[2] \in 0 .. PagesPerBank - 1 /\ p = <<p[1], p[2]>>
         /\ AddrOf(p, i) \in RamBytes /\ InRamBank(p[1], AddrOf(p, i))
         /\ p[2] * PageBytes \in Nat
<1>1. /\ p[1] \in {0, 1} /\ p[2] \in 0 .. PagesPerBank - 1 /\ p = <<p[1], p[2]>>
  BY DEF RamPages
<1>2. PICK q \in 0 .. PagesPerBank - 1 : q = p[2]
  BY <1>1
<1>3. /\ q * PageBytes \in Nat /\ q * PageBytes + PageBytes <= PageBytes * PagesPerBank
  <2>1. q \in Int /\ q >= 0 /\ q + 1 <= PagesPerBank /\ PagesPerBank \in Int /\ PageBytes \in Int /\ PageBytes >= 0
    BY Banks
  <2>2. PICK d \in Nat : PagesPerBank = q + 1 + d
    BY <2>1
  <2>3. PageBytes * PagesPerBank = q * PageBytes + PageBytes + PageBytes * d /\ PageBytes * d >= 0
    BY <2>1, <2>2
  <2>4. q * PageBytes \in Nat
    BY <2>1
  <2> QED BY <2>1, <2>3, <2>4
<1>4. PICK k \in Nat : k = q * PageBytes
  BY <1>3
<1>5. i \in Int /\ 0 <= i /\ i <= PageBytes - 1 /\ PageBytes \in Int
  BY Banks
<1>6. k + i \in Nat /\ k + i < BankBytes
  BY <1>3, <1>4, <1>5, Banks
<1>7. PICK base \in Nat : base = RamBase[p[1]] /\ base <= RamBank1Base
  BY <1>1, Banks
<1>8. AddrOf(p, i) = base + k + i
  BY <1>2, <1>4, <1>7 DEF AddrOf
<1>9. InRamBank(p[1], AddrOf(p, i))
  BY <1>5, <1>6, <1>7, <1>8, Banks DEF InRamBank
<1>10. AddrOf(p, i) \in 0 .. RamBank1Base + BankBytes - 1
  BY <1>5, <1>6, <1>7, <1>8, Banks
<1> QED BY <1>1, <1>2, <1>3, <1>9, <1>10 DEF RamBytes

\* An address lies in one bank only.
LEMMA OneBank ==
  ASSUME NEW a \in Int, NEW b \in {0, 1}, NEW c \in {0, 1}, InRamBank(b, a), InRamBank(c, a)
  PROVE  b = c
BY Banks DEF InRamBank

\* The page of a byte of RAM.
LEMMA PageOf ==
  ASSUME NEW b \in {0, 1}, NEW a \in Int, InRamBank(b, a)
  PROVE  \E p \in RamPages, i \in 0 .. PageBytes - 1 :
            /\ p[1] = b /\ p[2] = (a - RamBase[b]) \div PageBytes /\ AddrOf(p, i) = a
<1>1. PICK base \in Nat : base = RamBase[b]
  BY Banks
<1>2. PICK x \in Nat : x = a - base /\ x < BankBytes
  BY <1>1, Banks DEF InRamBank
<1> x \in Int /\ PageBytes \in Nat \ {0}
  BY Banks
<1>3. PICK q \in Int : q = x \div PageBytes
  BY RemainderDef
<1>4. PICK i \in 0 .. PageBytes - 1 : i = x % PageBytes
  BY RemainderDef
<1>5. x = PageBytes * q + i
  BY <1>3, <1>4, RemainderDef
<1>6. q >= 0
  <2> SUFFICES ASSUME q <= -1 PROVE FALSE
    OBVIOUS
  <2>1. PICK d \in Nat : q = -1 - d
    BY Banks
  <2>2. PageBytes * q = -PageBytes - PageBytes * d /\ PageBytes * d >= 0
    BY <2>1, Banks
  <2> QED BY <1>5, <2>2, Banks
<1>7. q <= PagesPerBank - 1
  <2> SUFFICES ASSUME q >= PagesPerBank PROVE FALSE
    BY Banks
  <2>1. PICK d \in Nat : q = PagesPerBank + d
    BY Banks
  <2>2. PageBytes * q = BankBytes + PageBytes * d /\ PageBytes * d >= 0
    BY <2>1, Banks
  <2> QED BY <1>2, <1>5, <2>2, Banks
<1>8. <<b, q>> \in RamPages
  BY <1>6, <1>7, Banks DEF RamPages
<1>9. AddrOf(<<b, q>>, i) = a
  BY <1>1, <1>2, <1>5, Banks DEF AddrOf
<1> QED BY <1>1, <1>2, <1>3, <1>8, <1>9

\* Dividing keeps the order.
LEMMA PagesInOrder ==
  ASSUME NEW x \in Int, NEW y \in Int, NEW w \in Nat \ {0}, x <= y
  PROVE  x \div w <= y \div w
<1>1. PICK d \in Int : d = x \div w
  BY RemainderDef
<1>2. PICK e \in Int : e = y \div w
  BY RemainderDef
<1>3. PICK r \in 0 .. w - 1 : x = w * d + r
  BY <1>1, RemainderDef
<1>4. PICK s \in 0 .. w - 1 : y = w * e + s
  BY <1>2, RemainderDef
<1> SUFFICES ASSUME e < d PROVE FALSE
  BY <1>1, <1>2
<1>5. PICK k \in Nat : d = e + 1 + k
  BY <1>2
<1>6. w * d = w * e + w + w * k /\ w * k >= 0
  BY <1>5
<1> QED BY <1>3, <1>4, <1>6

\* The quotient of a byte of a page.
LEMMA QuotientOfPage ==
  ASSUME NEW q \in Int, NEW w \in Nat \ {0}, NEW i \in 0 .. w - 1
  PROVE  (w * q + i) \div w = q
<1>1. PICK x \in Int : x = w * q + i
  OBVIOUS
<1>2. PICK d \in Int : d = x \div w
  BY RemainderDef
<1>3. PICK r \in 0 .. w - 1 : x = w * d + r
  BY <1>2, RemainderDef
<1>4. CASE d < q
  <2>1. PICK k \in Nat : q = d + 1 + k
    BY <1>4
  <2>2. w * q = w * d + w + w * k /\ w * k >= 0
    BY <2>1
  <2> QED BY <1>1, <1>3, <2>2
<1>5. CASE q < d
  <2>1. PICK k \in Nat : d = q + 1 + k
    BY <1>5
  <2>2. w * d = w * q + w + w * k /\ w * k >= 0
    BY <2>1
  <2> QED BY <1>1, <1>3, <2>2
<1> QED BY <1>1, <1>2, <1>4, <1>5

\* The oracle's hook marks every page a store reaches.
LEMMA OracleMarksCover ==
  ASSUME NEW phys \in Nat, NEW n \in Nat
  PROVE  Covers(OracleMarks(phys, n), phys, n)
<1> SUFFICES ASSUME NEW p \in RamPages, NEW i \in 0 .. PageBytes - 1,
                    AddrOf(p, i) \in phys .. phys + n - 1
             PROVE  p \in OracleMarks(phys, n)
  BY DEF Covers
<1>1. PICK j \in 0 .. n - 1 : AddrOf(p, i) = phys + j
  <2>1. PICK a \in phys .. phys + n - 1 : a = AddrOf(p, i)
    OBVIOUS
  <2>2. a - phys \in 0 .. n - 1 /\ a = phys + (a - phys)
    OBVIOUS
  <2> QED BY <2>1, <2>2
<1>2. InRamBank(p[1], phys + j)
  BY <1>1, PageBytesInBank
<1>3. PICK base \in Nat : base = RamBase[p[1]]
  BY PageBytesInBank, Banks
<1>4. PICK q \in Int : q = p[2]
  BY PageBytesInBank
<1>5. phys + j - base = PageBytes * q + i
  BY <1>1, <1>3, <1>4, Banks DEF AddrOf
<1>6. p[2] = (phys + j - RamBase[p[1]]) \div PageBytes
  <2>1. (PageBytes * q + i) \div PageBytes = q
    BY QuotientOfPage, Banks
  <2> QED BY <1>3, <1>4, <1>5, <2>1
<1> QED BY <1>2, <1>6 DEF OracleMarks

\* The runner's does as long as the store stays in its bank.
LEMMA NativeMarksCover ==
  ASSUME NEW phys \in Nat, NEW n \in Nat \ {0}, NEW b \in {0, 1},
         \A i \in 0 .. n - 1 : InRamBank(b, phys + i)
  PROVE  Covers(NativeMarks(phys, n), phys, n)
<1> SUFFICES ASSUME NEW p \in RamPages, NEW i \in 0 .. PageBytes - 1,
                    AddrOf(p, i) \in phys .. phys + n - 1
             PROVE  p \in NativeMarks(phys, n)
  BY DEF Covers
<1>1. PICK j \in 0 .. n - 1 : AddrOf(p, i) = phys + j
  <2>1. PICK a \in phys .. phys + n - 1 : a = AddrOf(p, i)
    OBVIOUS
  <2>2. a - phys \in 0 .. n - 1 /\ a = phys + (a - phys)
    OBVIOUS
  <2> QED BY <2>1, <2>2
<1>2. p[1] = b
  <2>1. InRamBank(p[1], phys + j) /\ InRamBank(b, phys + j) /\ phys + j \in Int /\ p[1] \in {0, 1}
    BY <1>1, PageBytesInBank
  <2> QED BY <2>1, OneBank
<1>3. PICK base \in Nat : base = RamBase[p[1]]
  BY PageBytesInBank, Banks
<1>4. PICK q \in Int : q = p[2]
  BY PageBytesInBank
<1>5. phys + j - base = PageBytes * q + i
  BY <1>1, <1>3, <1>4, Banks DEF AddrOf
<1>6. (phys + j - base) \div PageBytes = q
  BY <1>5, QuotientOfPage, Banks
<1>7. PICK lo \in Int : lo = phys - base
  OBVIOUS
<1>8. PICK hi \in Int : hi = phys + n - 1 - base
  OBVIOUS
<1>9. 0 \in 0 .. n - 1 /\ n - 1 \in 0 .. n - 1
  OBVIOUS
<1>10. InRamBank(b, phys) /\ InRamBank(b, phys + n - 1)
  <2>1. phys + 0 = phys /\ phys + (n - 1) = phys + n - 1
    OBVIOUS
  <2> QED BY <1>9, <2>1
<1>11. hi <= BankBytes - 1
  BY <1>2, <1>3, <1>8, <1>10, Banks DEF InRamBank
<1>12. Least(phys + n - 1 - base, BankBytes - 1) = hi
  BY <1>8, <1>11, Banks DEF Least
<1>13. lo \div PageBytes <= q /\ q <= hi \div PageBytes
  <2>1. PICK mid \in Int : mid = phys + j - base
    OBVIOUS
  <2>2. lo <= mid /\ mid <= hi
    BY <1>7, <1>8, <2>1
  <2> QED BY <1>6, <2>1, <2>2, PagesInOrder, Banks
<1>14. q \in lo \div PageBytes .. hi \div PageBytes
  BY <1>13, RemainderDef, Banks
<1> QED BY <1>2, <1>3, <1>4, <1>7, <1>10, <1>12, <1>14 DEF NativeMarks

-----------------------------------------------------------------------------
\* RAM after a store, a bank of it, and the record of an instruction's entry.
Written(ram, phys, bytes) ==
    [a \in RamBytes |-> IF a \in phys .. phys + Len(bytes) - 1 THEN bytes[a - phys + 1] ELSE ram[a]]
BankNow(ram, b) ==
    [q \in 0 .. PagesPerBank - 1 |-> [i \in 0 .. PageBytes - 1 |-> ram[RamBase[b] + q * PageBytes + i]]]
EntryRecord(k, seam, ram, e) ==
    [seq |-> k, seam |-> seam, ram0 |-> BankNow(ram, 0), ram1 |-> BankNow(ram, 1),
     d0 |-> e.d0, a7 |-> e.a7, sr |-> e.sr, usp |-> e.usp, ssp |-> e.ssp]

\* A step of a side that only changes its RAM and the marks.
RamIs(s, t, ram) ==
    /\ SideOK(t) /\ t.kind = s.kind /\ t.ring = s.ring /\ t.pending = s.pending
    /\ t.cpu = s.cpu /\ t.ram = ram

\* A store that marks the pages it reaches keeps the cache sound.
LEMMA RamStoreKeeps ==
  ASSUME NEW s, SideOK(s), NEW phys \in Nat, NEW bytes \in Seq({0, 1}),
         NEW marks \in SUBSET RamPages, Covers(marks, phys, Len(bytes)),
         NEW t, t = StoreBytes(s, phys, bytes, marks)
  PROVE  RamIs(s, t, Written(s.ram, phys, bytes))
<1>1. /\ DOMAIN t = SideFields /\ t.cpu = s.cpu /\ t.ring = s.ring /\ t.page_hash = s.page_hash
      /\ t.kind = s.kind /\ t.pending = s.pending
      /\ t.page_dirty = s.page_dirty \cup marks /\ t.ram = Written(s.ram, phys, bytes)
  BY DEF SideOK, SideFields, StoreBytes, Written
<1>2. \A a \in RamBytes : a \in Nat
  BY DEF RamBytes
<1>3. \A a \in RamBytes : a \in phys .. phys + Len(bytes) - 1 => bytes[a - phys + 1] \in {0, 1}
  BY <1>2
<1>4. t.ram \in [RamBytes -> {0, 1}]
  BY <1>1, <1>3 DEF SideOK, Written
<1>5. ASSUME NEW p \in RamPages PROVE p \in t.page_dirty \/ t.page_hash[p] = PageNow(t, p)
  <2> SUFFICES ASSUME p \notin t.page_dirty PROVE t.page_hash[p] = PageNow(t, p)
    OBVIOUS
  <2>1. p \notin marks /\ s.page_hash[p] = PageNow(s, p)
    BY <1>1 DEF SideOK
  <2>2. ASSUME NEW i \in 0 .. PageBytes - 1
        PROVE  t.ram[AddrOf(p, i)] = s.ram[AddrOf(p, i)]
    BY <1>1, <2>1, PageBytesInBank DEF Covers, Written
  <2>3. PageNow(t, p) = PageNow(s, p)
    BY <2>2 DEF PageNow, AddrOf
  <2> QED BY <1>1, <2>1, <2>3
<1>6. CpuOK(t)
  BY <1>1 DEF SideOK, CpuOK
<1>7. SideOK(t)
  BY <1>1, <1>4, <1>5, <1>6 DEF SideOK
<1> QED BY <1>1, <1>7 DEF RamIs

\* The marks of either kind cover a store inside a bank.
LEMMA MarksCover ==
  ASSUME NEW kind \in {"native", "oracle"}, NEW phys \in Nat, NEW n \in Nat \ {0}, InOneBank(phys, n)
  PROVE  Marks(kind, phys, n) \in SUBSET RamPages /\ Covers(Marks(kind, phys, n), phys, n)
<1>1. PICK b \in {0, 1} : \A i \in 0 .. n - 1 : InRamBank(b, phys + i)
  BY DEF InOneBank
<1>2. Covers(NativeMarks(phys, n), phys, n)
  BY <1>1, NativeMarksCover
<1>3. Covers(OracleMarks(phys, n), phys, n)
  BY OracleMarksCover
<1>4. NativeMarks(phys, n) \in SUBSET RamPages /\ OracleMarks(phys, n) \in SUBSET RamPages
  BY DEF NativeMarks, OracleMarks
<1> QED BY <1>2, <1>3, <1>4 DEF Marks

BusRam(ram, phys, bytes) == IF InOneBank(phys, Len(bytes)) THEN Written(ram, phys, bytes) ELSE ram

LEMMA BusWriteKeeps ==
  ASSUME NEW s, SideOK(s), NEW phys \in Int, NEW bytes \in Seq({0, 1}), Len(bytes) \in Nat \ {0},
         NEW t, t = BusWrite(s, phys, bytes)
  PROVE  RamIs(s, t, BusRam(s.ram, phys, bytes))
<1>1. CASE InOneBank(phys, Len(bytes))
  <2>1. PICK n \in Nat \ {0} : n = Len(bytes)
    OBVIOUS
  <2>2. phys \in Nat
    <3>1. PICK b \in {0, 1} : \A i \in 0 .. n - 1 : InRamBank(b, phys + i)
      BY <1>1, <2>1 DEF InOneBank
    <3>2. InRamBank(b, phys)
      <4>1. 0 \in 0 .. n - 1 /\ phys + 0 = phys
        OBVIOUS
      <4> QED BY <3>1, <4>1
    <3> QED BY <3>2, Banks DEF InRamBank
  <2>3. s.kind \in {"native", "oracle"}
    BY DEF SideOK, CpuOK
  <2>4. PICK marks \in SUBSET RamPages : marks = Marks(s.kind, phys, n) /\ Covers(marks, phys, n)
    BY <1>1, <2>1, <2>2, <2>3, MarksCover
  <2>5. t = StoreBytes(s, phys, bytes, marks)
    BY <1>1, <2>1, <2>4 DEF BusWrite
  <2>6. RamIs(s, t, Written(s.ram, phys, bytes))
    BY <2>1, <2>2, <2>4, <2>5, RamStoreKeeps
  <2> QED BY <1>1, <2>6 DEF BusRam
<1>2. CASE ~InOneBank(phys, Len(bytes))
  <2>1. t = s /\ BusRam(s.ram, phys, bytes) = s.ram
    BY <1>2 DEF BusWrite, BusRam
  <2> QED BY <2>1 DEF RamIs
<1> QED BY <1>1, <1>2

\* Two elements of a sequence.
LEMMA WordOf ==
  ASSUME NEW bytes \in Seq({0, 1}), NEW k \in 1 .. 3, Len(bytes) = 4
  PROVE  \E w \in Seq({0, 1}) : /\ w = SubSeq(bytes, k, k + 1) /\ Len(w) = 2
                               /\ w[1] = bytes[k] /\ w[2] = bytes[k + 1]
<1>1. \A i \in k .. k + 1 : bytes[i] \in {0, 1}
  <2>1. \A i \in k .. k + 1 : i \in 1 .. Len(bytes)
    OBVIOUS
  <2> QED BY <2>1, ElementOfSeq
<1>2. PICK w : w = SubSeq(bytes, k, k + 1)
  OBVIOUS
<1>3. k \in Int /\ k + 1 \in Int /\ k <= k + 1 /\ k + 1 - k + 1 = 2
  OBVIOUS
<1>4. /\ w \in Seq({0, 1}) /\ Len(w) = IF k <= k + 1 THEN k + 1 - k + 1 ELSE 0
      /\ \A i \in 1 .. k + 1 - k + 1 : w[i] = bytes[k + i - 1]
  BY <1>1, <1>2, <1>3, SubSeqProperties
<1>5. 1 \in 1 .. k + 1 - k + 1 /\ 2 \in 1 .. k + 1 - k + 1 /\ k + 1 - 1 = k /\ k + 2 - 1 = k + 1
  OBVIOUS
<1>6. w[1] = bytes[k] /\ w[2] = bytes[k + 1]
  BY <1>4, <1>5
<1> QED BY <1>2, <1>3, <1>4, <1>6


OperandRam(ram, phys, bytes) ==
    IF Len(bytes) < 4 THEN BusRam(ram, phys, bytes)
    ELSE IF InOneBank(phys, 2)
         THEN BusRam(BusRam(ram, phys, SubSeq(bytes, 1, 2)), phys + 2, SubSeq(bytes, 3, 4))
         ELSE ram

LEMMA StoreOperandKeeps ==
  ASSUME NEW s, SideOK(s), NEW op, op.addr \in Nat, IsStore(op),
         NEW t, t = StoreOperand(s, op.addr, op.bytes)
  PROVE  RamIs(s, t, OperandRam(s.ram, op.addr, op.bytes))
<1>1. PICK bytes \in Seq({0, 1}) : bytes = op.bytes
  BY DEF IsStore
<1>2. PICK phys \in Nat : phys = op.addr
  OBVIOUS
<1>3. PICK n \in Nat : n = Len(bytes) /\ (n = 1 \/ n = 2 \/ n = 4)
  BY <1>1 DEF IsStore
<1>4. CASE n < 4
  <2>1. t = BusWrite(s, phys, bytes) /\ OperandRam(s.ram, phys, bytes) = BusRam(s.ram, phys, bytes)
    BY <1>1, <1>2, <1>3, <1>4 DEF StoreOperand, OperandRam
  <2>2. RamIs(s, t, BusRam(s.ram, phys, bytes))
    BY <1>3, <2>1, BusWriteKeeps
  <2> QED BY <1>1, <1>2, <2>1, <2>2
<1>5. CASE n = 4 /\ InOneBank(phys, 2)
  <2>1. PICK hi \in Seq({0, 1}) : hi = SubSeq(bytes, 1, 2) /\ Len(hi) = 2
    <3>1. 1 \in 1 .. 3 /\ 1 + 1 = 2 /\ Len(bytes) = 4
      BY <1>3, <1>5
    <3> QED BY <3>1, WordOf
  <2>2. PICK lo \in Seq({0, 1}) : lo = SubSeq(bytes, 3, 4) /\ Len(lo) = 2
    <3>1. 3 \in 1 .. 3 /\ 3 + 1 = 4 /\ Len(bytes) = 4
      BY <1>3, <1>5
    <3> QED BY <3>1, WordOf
  <2>3. PICK u : u = BusWrite(s, phys, hi)
    OBVIOUS
  <2>4. t = BusWrite(u, phys + 2, lo)
    BY <1>1, <1>2, <1>3, <1>5, <2>1, <2>2, <2>3 DEF StoreOperand
  <2>5. RamIs(s, u, BusRam(s.ram, phys, hi))
    <3>1. Len(hi) \in Nat \ {0} /\ phys \in Int
      BY <2>1
    <3> QED BY <2>3, <3>1, BusWriteKeeps
  <2>6. SideOK(u) /\ phys + 2 \in Int /\ Len(lo) \in Nat \ {0}
    BY <2>2, <2>5 DEF RamIs
  <2>7. RamIs(u, t, BusRam(u.ram, phys + 2, lo))
    BY <2>4, <2>6, BusWriteKeeps
  <2>8. RamIs(s, t, BusRam(BusRam(s.ram, phys, hi), phys + 2, lo))
    BY <2>5, <2>7 DEF RamIs
  <2>9. OperandRam(s.ram, phys, bytes) = BusRam(BusRam(s.ram, phys, hi), phys + 2, lo)
    BY <1>3, <1>5, <2>1, <2>2 DEF OperandRam
  <2> QED BY <1>1, <1>2, <2>8, <2>9
<1>6. CASE n = 4 /\ ~InOneBank(phys, 2)
  <2>1. t = s /\ OperandRam(s.ram, phys, bytes) = s.ram
    BY <1>1, <1>2, <1>3, <1>6 DEF StoreOperand, OperandRam
  <2> QED BY <1>1, <1>2, <2>1 DEF RamIs
<1> QED BY <1>3, <1>4, <1>5, <1>6

\* The record holds the pages of RAM as they are, although only marked ones are hashed.
RecordedIs(s, t) ==
    /\ SideOK(t) /\ t.kind = s.kind /\ t.pending = s.pending /\ t.cpu = s.cpu /\ t.ram = s.ram
    /\ t.ring = [s.ring EXCEPT ![trace_seq % TraceRecords] =
                    EntryRecord(trace_seq, s.pending # "none", s.ram, Emit(s))]

LEMMA RecordedKeeps ==
  ASSUME NEW s, SideOK(s), trace_seq \in Nat, NEW t, t = Recorded(s)
  PROVE  RecordedIs(s, t)
<1>1. PICK now : now = Refreshed(s)
  OBVIOUS
<1>2. /\ DOMAIN now = SideFields /\ now.cpu = s.cpu /\ now.ram = s.ram /\ now.ring = s.ring
      /\ now.kind = s.kind /\ now.pending = s.pending /\ now.page_dirty = {}
      /\ now.page_hash = [p \in RamPages |-> IF p \in s.page_dirty THEN PageNow(s, p) ELSE s.page_hash[p]]
  BY <1>1 DEF SideOK, SideFields, Refreshed
<1>3. \A p \in RamPages : now.page_hash[p] = PageNow(s, p)
  BY <1>2 DEF SideOK
<1>4. ASSUME NEW b \in {0, 1} PROVE fold_bank_hash(now, b) = BankNow(s.ram, b)
  <2>1. \A q \in 0 .. PagesPerBank - 1 : <<b, q>> \in RamPages
    BY DEF RamPages
  <2>2. ASSUME NEW q \in 0 .. PagesPerBank - 1
        PROVE  now.page_hash[<<b, q>>] = [i \in 0 .. PageBytes - 1 |-> s.ram[RamBase[b] + q * PageBytes + i]]
    BY <1>3, <2>1 DEF PageNow
  <2> QED BY <2>2 DEF fold_bank_hash, BankNow
<1>5. PICK record : record = EntryRecord(trace_seq, s.pending # "none", s.ram, Emit(s))
  OBVIOUS
<1>6. t = [now EXCEPT !.ring[trace_seq % TraceRecords] = record]
  BY <1>1, <1>4, <1>5 DEF Recorded, EntryRecord
<1>7. /\ DOMAIN t = SideFields /\ t.cpu = s.cpu /\ t.ram = s.ram /\ t.page_dirty = {}
      /\ t.kind = s.kind /\ t.pending = s.pending /\ t.page_hash = now.page_hash
      /\ t.ring = [s.ring EXCEPT ![trace_seq % TraceRecords] = record]
  BY <1>2, <1>6 DEF SideFields
<1>8. \A p \in RamPages : t.page_hash[p] = PageNow(t, p)
  <2>1. t.ram = s.ram /\ t.page_hash = now.page_hash
    BY <1>7
  <2>2. \A p \in RamPages : PageNow(t, p) = PageNow(s, p)
    BY <2>1 DEF PageNow
  <2> QED BY <1>3, <2>1, <2>2
<1>9. CpuOK(t)
  BY <1>7 DEF SideOK, CpuOK
<1>10. SideOK(t)
  BY <1>2, <1>7, <1>8, <1>9 DEF SideOK
<1> QED BY <1>5, <1>7, <1>10 DEF RecordedIs

-----------------------------------------------------------------------------
(* Machines, whichever way a side keeps its registers. *)

FlipTargets == CosimRegisters \cup {"sr"}

\* The runner's registers in the oracle's form.
Abs(c) == [D0 |-> c.D0, USP |-> IF c.S THEN c.USP ELSE c.A7, SSP |-> IF c.S THEN c.A7 ELSE c.SSP,
           S |-> c.S]
Cpu(s) == IF s.kind = "native" THEN Abs(s.cpu) ELSE s.cpu

LEMMA CpuExt ==
  ASSUME NEW c \in OracleCpus, NEW d \in OracleCpus,
         c.D0 = d.D0, c.USP = d.USP, c.SSP = d.SSP, c.S = d.S
  PROVE  c = d
BY DEF OracleCpus

LEMMA AbsTyped ==
  ASSUME NEW c \in NativeCpus
  PROVE  Abs(c) \in OracleCpus
<1>1. CASE c.S
  BY <1>1 DEF Abs, NativeCpus, OracleCpus
<1>2. CASE ~c.S
  BY <1>2 DEF Abs, NativeCpus, OracleCpus
<1> QED BY <1>1, <1>2

LEMMA CpuTyped ==
  ASSUME NEW s, SideOK(s)
  PROVE  Cpu(s) \in OracleCpus
<1>1. CASE s.kind = "native"
  BY <1>1, AbsTyped DEF Cpu, SideOK, CpuOK
<1>2. CASE s.kind # "native"
  BY <1>2 DEF Cpu, SideOK, CpuOK
<1> QED BY <1>1, <1>2

LEMMA EmitIs ==
  ASSUME NEW s, SideOK(s)
  PROVE  Emit(s) = OracleEmit(Cpu(s))
<1>1. CASE s.kind = "native"
  <2>1. s.cpu \in NativeCpus /\ Emit(s) = NativeEmit(s.cpu) /\ Cpu(s) = Abs(s.cpu)
    BY <1>1 DEF SideOK, CpuOK, Emit, Cpu
  <2>2. PICK c \in NativeCpus : c = s.cpu
    BY <2>1
  <2>3. NativeEmit(c) = OracleEmit(Abs(c))
    <3>1. CASE c.S
      BY <3>1 DEF NativeEmit, OracleEmit, Abs
    <3>2. CASE ~c.S
      BY <3>2 DEF NativeEmit, OracleEmit, Abs
    <3> QED BY <3>1, <3>2
  <2> QED BY <2>1, <2>2, <2>3
<1>2. CASE s.kind # "native"
  BY <1>2 DEF Emit, Cpu
<1> QED BY <1>1, <1>2

LEMMA FlippedInt ==
  ASSUME NEW v \in Int
  PROVE  Flipped(v) \in Int /\ Flipped(v) # v
BY DEF Flipped

LEMMA OracleFlipTyped ==
  ASSUME NEW c \in OracleCpus, NEW r
  PROVE  OracleFlip(c, r) \in OracleCpus
<1>0. /\ c.D0 \in Int /\ c.USP \in Int /\ c.SSP \in Int /\ c.S \in BOOLEAN
  BY DEF OracleCpus
<1>1. /\ [c EXCEPT !.D0 = Flipped(@)] \in OracleCpus /\ [c EXCEPT !.USP = Flipped(@)] \in OracleCpus
      /\ [c EXCEPT !.SSP = Flipped(@)] \in OracleCpus /\ [c EXCEPT !.S = FALSE] \in OracleCpus
  BY <1>0, FlippedInt DEF OracleCpus
<1> QED BY <1>1 DEF OracleFlip

LEMMA NativeFlipTyped ==
  ASSUME NEW c \in NativeCpus, NEW r
  PROVE  NativeFlip(c, r) \in NativeCpus
<1>0. /\ c.D0 \in Int /\ c.A7 \in Int /\ c.USP \in Int /\ c.SSP \in Int /\ c.S \in BOOLEAN
  BY DEF NativeCpus
<1>1. /\ [c EXCEPT !.D0 = Flipped(@)] \in NativeCpus /\ [c EXCEPT !.USP = Flipped(@)] \in NativeCpus
      /\ [c EXCEPT !.SSP = Flipped(@)] \in NativeCpus /\ [c EXCEPT !.A7 = Flipped(@)] \in NativeCpus
  BY <1>0, FlippedInt DEF NativeCpus
<1>2. NativeLeave(c) \in NativeCpus
  BY <1>0 DEF NativeLeave, NativeCpus
<1> QED BY <1>1, <1>2 DEF NativeFlip

\* An instruction changes the same register of both, whichever stack is in use.
LEMMA SameFlip ==
  ASSUME NEW c \in NativeCpus, NEW r \in FlipTargets
  PROVE  Abs(NativeFlip(c, r)) = OracleFlip(Abs(c), r)
<1>0. /\ c.D0 \in Int /\ c.A7 \in Int /\ c.USP \in Int /\ c.SSP \in Int /\ c.S \in BOOLEAN
      /\ DOMAIN c = {"D0", "A7", "USP", "SSP", "S"}
  BY DEF NativeCpus
<1>1. PICK n \in NativeCpus : n = NativeFlip(c, r)
  BY NativeFlipTyped
<1>2. PICK o \in OracleCpus : o = OracleFlip(Abs(c), r)
  BY AbsTyped, OracleFlipTyped
<1>3. CASE r = "d0"
  BY <1>0, <1>1, <1>2, <1>3 DEF NativeFlip, OracleFlip, Abs
<1>4. CASE r = "a7"
  <2>1. CASE c.S = TRUE
    BY <1>0, <1>1, <1>2, <1>4, <2>1 DEF NativeFlip, OracleFlip, Abs
  <2>2. CASE c.S = FALSE
    BY <1>0, <1>1, <1>2, <1>4, <2>2 DEF NativeFlip, OracleFlip, Abs
  <2> QED BY <1>0, <2>1, <2>2
<1>5. CASE r = "usp"
  <2>1. CASE c.S = TRUE
    BY <1>0, <1>1, <1>2, <1>5, <2>1 DEF NativeFlip, OracleFlip, Abs
  <2>2. CASE c.S = FALSE
    BY <1>0, <1>1, <1>2, <1>5, <2>2 DEF NativeFlip, OracleFlip, Abs
  <2> QED BY <1>0, <2>1, <2>2
<1>6. CASE r = "ssp"
  <2>1. CASE c.S = TRUE
    BY <1>0, <1>1, <1>2, <1>6, <2>1 DEF NativeFlip, OracleFlip, Abs
  <2>2. CASE c.S = FALSE
    BY <1>0, <1>1, <1>2, <1>6, <2>2 DEF NativeFlip, OracleFlip, Abs
  <2> QED BY <1>0, <2>1, <2>2
<1>7. CASE r = "sr"
  <2>0. NativeFlip(c, r) = NativeLeave(c) /\ OracleFlip(Abs(c), r) = [Abs(c) EXCEPT !.S = FALSE]
    BY <1>7 DEF NativeFlip, OracleFlip
  <2>1. CASE c.S = TRUE
    BY <1>0, <2>0, <2>1 DEF NativeLeave, Abs
  <2>2. CASE c.S = FALSE
    <3>1. NativeLeave(c) = c
      BY <2>2 DEF NativeLeave
    <3>2. PICK d \in OracleCpus : d = Abs(c) /\ d.S = FALSE
      BY <2>2, AbsTyped DEF Abs
    <3>3. [d EXCEPT !.S = FALSE] = d
      BY <3>2 DEF OracleCpus
    <3> QED BY <2>0, <3>1, <3>2, <3>3
  <2> QED BY <1>0, <2>1, <2>2
<1> QED BY <1>3, <1>4, <1>5, <1>6, <1>7 DEF FlipTargets, CosimRegisters

WithStack(c, v) == [c EXCEPT !.SSP = v, !.S = TRUE]
StackIs(c, v, t) == t \in OracleCpus /\ t.D0 = c.D0 /\ t.USP = c.USP /\ t.SSP = v /\ t.S = TRUE

LEMMA StackSet ==
  ASSUME NEW c \in OracleCpus, NEW v \in Int
  PROVE  StackIs(c, v, WithStack(c, v))
<1>0. PICK t : t = WithStack(c, v)
  OBVIOUS
<1>1. PICK u : u = [c EXCEPT !.SSP = v]
  OBVIOUS
<1>2. u \in OracleCpus /\ u.D0 = c.D0 /\ u.USP = c.USP /\ u.SSP = v
  BY <1>1 DEF OracleCpus
<1>3. t = [u EXCEPT !.S = TRUE]
  BY <1>0, <1>1 DEF WithStack
<1>4. t \in OracleCpus /\ t.D0 = u.D0 /\ t.USP = u.USP /\ t.SSP = u.SSP /\ t.S = TRUE
  BY <1>2, <1>3 DEF OracleCpus
<1> QED BY <1>0, <1>2, <1>4 DEF StackIs

LEMMA SameEnter ==
  ASSUME NEW c \in NativeCpus
  PROVE  NativeEnter(c) \in NativeCpus /\ Abs(NativeEnter(c)) = OracleEnter(Abs(c))
<1>0. /\ c.D0 \in Int /\ c.A7 \in Int /\ c.USP \in Int /\ c.SSP \in Int /\ c.S \in BOOLEAN
      /\ DOMAIN c = {"D0", "A7", "USP", "SSP", "S"}
  BY DEF NativeCpus
<1>1. CASE c.S = TRUE
  <2>1. PICK v \in Int : v = c.A7 - FrameBytes
    BY <1>0 DEF FrameBytes
  <2>2. NativeEnter(c) = [c EXCEPT !.A7 = v] /\ OracleEnter(Abs(c)) = [Abs(c) EXCEPT !.SSP = v, !.S = TRUE]
    BY <1>0, <1>1, <2>1 DEF NativeEnter, OracleEnter, Abs
  <2>3. [c EXCEPT !.A7 = v] \in NativeCpus
    BY <1>0 DEF NativeCpus
  <2>4. Abs([c EXCEPT !.A7 = v]) = [Abs(c) EXCEPT !.SSP = v, !.S = TRUE]
    <3>1. PICK n \in NativeCpus : n = [c EXCEPT !.A7 = v]
      BY <2>3
    <3>2. n.S = TRUE /\ n.USP = c.USP /\ n.A7 = v /\ n.D0 = c.D0
      BY <1>0, <1>1, <3>1
    <3>3. PICK o : o = [Abs(c) EXCEPT !.SSP = v, !.S = TRUE]
      OBVIOUS
    <3>4. o \in OracleCpus /\ o.D0 = c.D0 /\ o.USP = c.USP /\ o.SSP = v /\ o.S = TRUE
      <4>1. Abs(c) \in OracleCpus /\ Abs(c).D0 = c.D0 /\ Abs(c).USP = c.USP
        BY <1>1, AbsTyped DEF Abs
      <4>2. StackIs(Abs(c), v, o)
        BY <3>3, <4>1, StackSet DEF WithStack
      <4> QED BY <4>1, <4>2 DEF StackIs
    <3>5. Abs(n).D0 = c.D0 /\ Abs(n).USP = c.USP /\ Abs(n).SSP = v /\ Abs(n).S = TRUE
      BY <3>2 DEF Abs
    <3>6. Abs(n) = o
      BY <3>1, <3>4, <3>5, AbsTyped, CpuExt
    <3> QED BY <3>1, <3>3, <3>6
  <2> QED BY <2>2, <2>3, <2>4
<1>2. CASE c.S = FALSE
  <2>1. PICK v \in Int : v = c.SSP - FrameBytes
    BY <1>0 DEF FrameBytes
  <2>2. PICK n : n = [c EXCEPT !.S = TRUE, !.USP = c.A7, !.A7 = v]
    OBVIOUS
  <2>3. NativeEnter(c) = n /\ OracleEnter(Abs(c)) = [Abs(c) EXCEPT !.SSP = v, !.S = TRUE]
    BY <1>0, <1>2, <2>1, <2>2 DEF NativeEnter, OracleEnter, Abs
  <2>4. n \in NativeCpus
    BY <1>0, <2>2 DEF NativeCpus
  <2>5. n.S = TRUE /\ n.USP = c.A7 /\ n.A7 = v /\ n.D0 = c.D0
    BY <1>0, <2>2
  <2>6. Abs(n) = [Abs(c) EXCEPT !.SSP = v, !.S = TRUE]
    <3>1. PICK o : o = [Abs(c) EXCEPT !.SSP = v, !.S = TRUE]
      OBVIOUS
    <3>2. o \in OracleCpus /\ o.D0 = c.D0 /\ o.USP = c.A7 /\ o.SSP = v /\ o.S = TRUE
      <4>1. Abs(c) \in OracleCpus /\ Abs(c).D0 = c.D0 /\ Abs(c).USP = c.A7
        BY <1>2, AbsTyped DEF Abs
      <4>2. StackIs(Abs(c), v, o)
        BY <3>1, <4>1, StackSet DEF WithStack
      <4> QED BY <4>1, <4>2 DEF StackIs
    <3>3. Abs(n).D0 = c.D0 /\ Abs(n).USP = c.A7 /\ Abs(n).SSP = v /\ Abs(n).S = TRUE
      BY <2>5 DEF Abs
    <3>4. Abs(n) = o
      BY <2>4, <3>2, <3>3, AbsTyped, CpuExt
    <3> QED BY <3>1, <3>4
  <2> QED BY <2>3, <2>4, <2>6
<1> QED BY <1>0, <1>1, <1>2

LEMMA OracleEnterTyped ==
  ASSUME NEW c \in OracleCpus
  PROVE  OracleEnter(c) \in OracleCpus
<1>1. PICK v \in Int : v = c.SSP - FrameBytes
  BY DEF OracleCpus, FrameBytes
<1>2. OracleEnter(c) = [c EXCEPT !.SSP = v, !.S = TRUE]
  BY <1>1 DEF OracleEnter, OracleCpus
<1>3. StackIs(c, v, OracleEnter(c))
  BY <1>2, StackSet DEF WithStack
<1> QED BY <1>3 DEF StackIs

\* What a step makes of the machine, and that it keeps the ring and what is pending.
Machine(s) == [cpu |-> Cpu(s), ram |-> s.ram]
Goes(s, t, m) ==
    /\ SideOK(t) /\ t.kind = s.kind /\ t.ring = s.ring /\ t.pending = s.pending /\ Machine(t) = m

MFlip(m, r) == [cpu |-> OracleFlip(m.cpu, r), ram |-> m.ram]
MEnter(m) == [cpu |-> OracleEnter(m.cpu),
              ram |-> BusRam(m.ram, m.cpu.SSP - FrameBytes, FrameOf(m.cpu.S))]
MExec(m, op) == IF op.reg # "none" THEN MFlip(m, op.reg)
                ELSE [cpu |-> m.cpu, ram |-> OperandRam(m.ram, op.addr, op.bytes)]
MProcessed(m, pending) ==
    CASE pending = "reset" -> [cpu |-> [m.cpu EXCEPT !.SSP = ResetSsp, !.S = TRUE], ram |-> m.ram]
      [] pending = "exception" -> MEnter(m)
      [] OTHER -> m

\* A side whose registers change.
LEMMA CpuChanges ==
  ASSUME NEW s, SideOK(s), NEW c, s.kind = "native" => c \in NativeCpus,
         s.kind = "oracle" => c \in OracleCpus, NEW t, t = [s EXCEPT !.cpu = c]
  PROVE  Goes(s, t, [cpu |-> IF s.kind = "native" THEN Abs(c) ELSE c, ram |-> s.ram])
<1>1. /\ DOMAIN t = SideFields /\ t.kind = s.kind /\ t.cpu = c /\ t.pending = s.pending
      /\ t.ram = s.ram /\ t.page_hash = s.page_hash /\ t.page_dirty = s.page_dirty /\ t.ring = s.ring
  BY DEF SideOK, SideFields
<1>2. CpuOK(t)
  BY <1>1 DEF SideOK, CpuOK
<1>3. \A p \in RamPages : PageNow(t, p) = PageNow(s, p)
  BY <1>1 DEF PageNow
<1>4. SideOK(t)
  BY <1>1, <1>2, <1>3 DEF SideOK
<1>5. Machine(t) = [cpu |-> IF s.kind = "native" THEN Abs(c) ELSE c, ram |-> s.ram]
  BY <1>1 DEF Machine, Cpu
<1> QED BY <1>1, <1>4, <1>5 DEF Goes

LEMMA FlipKeeps ==
  ASSUME NEW s, SideOK(s), NEW r \in FlipTargets, NEW t, t = Flip(s, r)
  PROVE  Goes(s, t, MFlip(Machine(s), r))
<1>1. PICK c : c = IF s.kind = "native" THEN NativeFlip(s.cpu, r) ELSE OracleFlip(s.cpu, r)
  OBVIOUS
<1>2. t = [s EXCEPT !.cpu = c]
  BY <1>1 DEF Flip
<1>3. s.kind \in {"native", "oracle"}
  BY DEF SideOK, CpuOK
<1>4. /\ s.kind = "native" => c \in NativeCpus
      /\ s.kind = "oracle" => c \in OracleCpus
  BY <1>1, NativeFlipTyped, OracleFlipTyped DEF SideOK, CpuOK
<1>5. (IF s.kind = "native" THEN Abs(c) ELSE c) = OracleFlip(Cpu(s), r)
  <2>1. CASE s.kind = "native"
    BY <1>1, <2>1, SameFlip DEF Cpu, SideOK, CpuOK
  <2>2. CASE s.kind # "native"
    BY <1>1, <2>2 DEF Cpu
  <2> QED BY <2>1, <2>2
<1>6. Goes(s, t, [cpu |-> IF s.kind = "native" THEN Abs(c) ELSE c, ram |-> s.ram])
  BY <1>2, <1>4, CpuChanges
<1>7. MFlip(Machine(s), r) = [cpu |-> OracleFlip(Cpu(s), r), ram |-> s.ram]
  BY DEF MFlip, Machine
<1> QED BY <1>5, <1>6, <1>7

LEMMA RamGoes ==
  ASSUME NEW s, NEW t, NEW ram, RamIs(s, t, ram)
  PROVE  Goes(s, t, [cpu |-> Cpu(s), ram |-> ram])
BY DEF RamIs, Goes, Machine, Cpu

\* An exception's frame, whichever side builds it.
LEMMA EnteredKeeps ==
  ASSUME NEW s, SideOK(s), NEW t, t = Entered(s)
  PROVE  Goes(s, t, MEnter(Machine(s)))
<1>1. PICK c : c = IF s.kind = "native" THEN NativeEnter(s.cpu) ELSE OracleEnter(s.cpu)
  OBVIOUS
<1>2. PICK e : e = [s EXCEPT !.cpu = c]
  OBVIOUS
<1>3. t = BusWrite(e, Emit(e).ssp, FrameOf(s.cpu.S))
  BY <1>1, <1>2 DEF Entered
<1>4. /\ s.kind = "native" => c \in NativeCpus
      /\ s.kind = "oracle" => c \in OracleCpus
  BY <1>1, SameEnter, OracleEnterTyped DEF SideOK, CpuOK
<1>5. (IF s.kind = "native" THEN Abs(c) ELSE c) = OracleEnter(Cpu(s))
  <2>1. CASE s.kind = "native"
    BY <1>1, <2>1, SameEnter DEF Cpu, SideOK, CpuOK
  <2>2. CASE s.kind # "native"
    BY <1>1, <2>2 DEF Cpu
  <2> QED BY <2>1, <2>2
<1>6. Goes(s, e, [cpu |-> OracleEnter(Cpu(s)), ram |-> s.ram])
  BY <1>2, <1>4, <1>5, CpuChanges
<1>7. SideOK(e) /\ Cpu(e) = OracleEnter(Cpu(s)) /\ e.ram = s.ram
  <2>1. Machine(e).cpu = OracleEnter(Cpu(s)) /\ Machine(e).ram = s.ram
    BY <1>6 DEF Goes
  <2> QED BY <1>6, <2>1 DEF Goes, Machine
<1>8. PICK d \in OracleCpus : d = Cpu(s) /\ d.SSP \in Int /\ d.S \in BOOLEAN
  BY CpuTyped DEF OracleCpus
<1>9. Emit(e).ssp = d.SSP - FrameBytes
  <2>1. Emit(e) = OracleEmit(OracleEnter(d))
    BY <1>7, <1>8, EmitIs
  <2>2. OracleEnter(d).SSP = d.SSP - FrameBytes
    BY <1>8 DEF OracleEnter, OracleCpus
  <2> QED BY <2>1, <2>2 DEF OracleEmit
<1>10. s.cpu.S = d.S
  BY <1>8 DEF Cpu, Abs
<1>11. PICK bytes \in Seq({0, 1}) : bytes = FrameOf(d.S) /\ Len(bytes) \in Nat \ {0}
  <2>1. <<1, 1>> \in Seq({0, 1}) /\ <<0, 1>> \in Seq({0, 1}) /\ Len(<<1, 1>>) = 2 /\ Len(<<0, 1>>) = 2
    OBVIOUS
  <2>2. FrameOf(d.S) = <<1, 1>> \/ FrameOf(d.S) = <<0, 1>>
    BY DEF FrameOf
  <2>3. FrameOf(d.S) \in Seq({0, 1}) /\ Len(FrameOf(d.S)) = 2
    BY <2>1, <2>2
  <2> QED BY <2>3
<1>12. PICK phys \in Int : phys = d.SSP - FrameBytes
  BY <1>8 DEF FrameBytes
<1>13. RamIs(e, t, BusRam(s.ram, phys, bytes))
  BY <1>3, <1>7, <1>9, <1>10, <1>11, <1>12, BusWriteKeeps
<1>14. Goes(e, t, [cpu |-> Cpu(e), ram |-> BusRam(s.ram, phys, bytes)])
  BY <1>13, RamGoes
<1>15. MEnter(Machine(s)) = [cpu |-> OracleEnter(Cpu(s)), ram |-> BusRam(s.ram, phys, bytes)]
  BY <1>8, <1>11, <1>12 DEF MEnter, Machine
<1> QED BY <1>6, <1>7, <1>14, <1>15 DEF Goes

SettledIs(s, t, m) ==
    SideOK(t) /\ t.kind = s.kind /\ t.ring = s.ring /\ t.pending = "none" /\ Machine(t) = m
ProcessedIs(s, t) == SettledIs(s, t, MProcessed(Machine(s), s.pending))

\* Nothing is pending any more.
LEMMA SettledNow ==
  ASSUME NEW s, NEW u, NEW m, Goes(s, u, m), s.kind = "oracle", NEW t, t = [u EXCEPT !.pending = "none"]
  PROVE  SettledIs(s, t, m)
<1>1. /\ DOMAIN t = SideFields /\ t.kind = u.kind /\ t.cpu = u.cpu /\ t.pending = "none"
      /\ t.ram = u.ram /\ t.page_hash = u.page_hash /\ t.page_dirty = u.page_dirty /\ t.ring = u.ring
  BY DEF Goes, SideOK, SideFields
<1>2. CpuOK(t)
  BY <1>1 DEF Goes, SideOK, CpuOK
<1>3. \A p \in RamPages : PageNow(t, p) = PageNow(u, p)
  BY <1>1 DEF PageNow
<1>4. SideOK(t)
  BY <1>1, <1>2, <1>3 DEF SideOK, Goes
<1>5. Machine(t) = Machine(u)
  BY <1>1 DEF Machine, Cpu
<1> QED BY <1>1, <1>4, <1>5 DEF Goes, SettledIs

LEMMA ProcessedKeeps ==
  ASSUME NEW s, SideOK(s), NEW t, t = Processed(s)
  PROVE  ProcessedIs(s, t)
<1>0. s.pending \in {"none", "reset", "exception"} /\ (s.pending # "none" => s.kind = "oracle")
  BY DEF SideOK, CpuOK
<1>1. CASE s.pending = "reset"
  <2>1. PICK c : c = [s.cpu EXCEPT !.SSP = ResetSsp, !.S = TRUE]
    OBVIOUS
  <2>2. PICK u : u = [s EXCEPT !.cpu = c]
    OBVIOUS
  <2>3. t = [u EXCEPT !.pending = "none"]
    BY <1>1, <2>1, <2>2 DEF Processed
  <2>4. c \in OracleCpus /\ s.kind = "oracle" /\ Cpu(s) = s.cpu
    <3>1. s.kind = "oracle" /\ s.cpu \in OracleCpus
      BY <1>0, <1>1 DEF SideOK, CpuOK
    <3>2. c \in OracleCpus
      <4>1. PICK d \in OracleCpus : d = s.cpu
        BY <3>1
      <4>2. ResetSsp \in Int /\ c = WithStack(d, ResetSsp)
        BY <2>1, <4>1, CosimAssumption DEF WithStack
      <4>3. StackIs(d, ResetSsp, c)
        BY <4>2, StackSet
      <4> QED BY <4>3 DEF StackIs
    <3> QED BY <3>1, <3>2 DEF Cpu
  <2>5. Goes(s, u, [cpu |-> c, ram |-> s.ram])
    BY <2>2, <2>4, CpuChanges
  <2>6. MProcessed(Machine(s), s.pending) = [cpu |-> c, ram |-> s.ram]
    BY <1>1, <2>1, <2>4 DEF MProcessed, Machine
  <2> QED BY <2>3, <2>4, <2>5, <2>6, SettledNow DEF ProcessedIs
<1>2. CASE s.pending = "exception"
  <2>1. PICK u : u = Entered(s)
    OBVIOUS
  <2>2. Goes(s, u, MEnter(Machine(s)))
    BY <2>1, EnteredKeeps
  <2>3. t = [u EXCEPT !.pending = "none"] /\ MProcessed(Machine(s), s.pending) = MEnter(Machine(s))
    BY <1>2, <2>1 DEF Processed, MProcessed
  <2> QED BY <1>0, <1>2, <2>2, <2>3, SettledNow DEF ProcessedIs
<1>3. CASE s.pending = "none"
  BY <1>3 DEF Processed, MProcessed, ProcessedIs, SettledIs
<1> QED BY <1>0, <1>1, <1>2, <1>3

\* An instruction on a side that has nothing pending.
Raises(op) == op.raises \/ BusFaults(op)
MachineAfter(kind, m, op) == IF kind = "native" /\ Raises(op) THEN MEnter(MExec(m, op)) ELSE MExec(m, op)
PendingAfter(kind, op) == IF kind = "oracle" /\ Raises(op) THEN "exception" ELSE "none"
ExecutedIs(s, t, op) ==
    /\ SideOK(t) /\ t.kind = s.kind /\ t.ring = s.ring
    /\ t.pending = PendingAfter(s.kind, op) /\ Machine(t) = MachineAfter(s.kind, Machine(s), op)

LEMMA ExecutedKeeps ==
  ASSUME NEW s, SideOK(s), s.pending = "none", NEW op \in CosimOps, NEW t, t = Executed(s, op)
  PROVE  ExecutedIs(s, t, op)
<1>1. PICK u : u = IF op.reg # "none" THEN Flip(s, op.reg) ELSE StoreOperand(s, op.addr, op.bytes)
  OBVIOUS
<1>2. PICK m : m = MExec(Machine(s), op)
  OBVIOUS
<1>3. Goes(s, u, m)
  <2>1. CASE op.reg # "none"
    <3>1. op.reg \in FlipTargets
      BY <2>1, CosimInputs DEF FlipTargets
    <3>2. u = Flip(s, op.reg) /\ m = MFlip(Machine(s), op.reg)
      BY <1>1, <1>2, <2>1 DEF MExec
    <3> QED BY <3>1, <3>2, FlipKeeps
  <2>2. CASE op.reg = "none"
    <3>1. op.addr \in Nat /\ IsStore(op) /\ u = StoreOperand(s, op.addr, op.bytes)
      BY <1>1, <2>2, CosimInputs
    <3>2. RamIs(s, u, OperandRam(s.ram, op.addr, op.bytes))
      BY <3>1, StoreOperandKeeps
    <3>3. m = [cpu |-> Cpu(s), ram |-> OperandRam(s.ram, op.addr, op.bytes)]
      BY <1>2, <2>2 DEF MExec, Machine
    <3> QED BY <3>2, <3>3, RamGoes
  <2> QED BY <2>1, <2>2
<1>4. t = IF Raises(op) THEN TakesException(u) ELSE u
  BY <1>1 DEF Executed, Raises
<1>5. s.kind \in {"native", "oracle"} /\ SideOK(u) /\ u.kind = s.kind
  BY <1>3 DEF SideOK, CpuOK, Goes
<1>6. CASE ~Raises(op)
  BY <1>2, <1>3, <1>4, <1>6 DEF ExecutedIs, Goes, PendingAfter, MachineAfter
<1>7. CASE Raises(op) /\ s.kind = "native"
  <2>1. t = Entered(u)
    BY <1>4, <1>5, <1>7 DEF TakesException
  <2>2. Goes(u, t, MEnter(Machine(u)))
    BY <1>5, <2>1, EnteredKeeps
  <2> QED BY <1>2, <1>3, <1>7, <2>2 DEF ExecutedIs, Goes, PendingAfter, MachineAfter
<1>8. CASE Raises(op) /\ s.kind = "oracle"
  <2>1. t = [u EXCEPT !.pending = "exception"]
    BY <1>4, <1>5, <1>8 DEF TakesException
  <2>2. /\ DOMAIN t = SideFields /\ t.kind = u.kind /\ t.cpu = u.cpu /\ t.pending = "exception"
        /\ t.ram = u.ram /\ t.page_hash = u.page_hash /\ t.page_dirty = u.page_dirty /\ t.ring = u.ring
    BY <1>5, <2>1 DEF SideOK, SideFields
  <2>3. CpuOK(t)
    BY <1>5, <1>8, <2>2 DEF SideOK, CpuOK
  <2>4. \A p \in RamPages : PageNow(t, p) = PageNow(u, p)
    BY <2>2 DEF PageNow
  <2>5. SideOK(t)
    BY <1>5, <2>2, <2>3, <2>4 DEF SideOK
  <2>6. Machine(t) = Machine(u)
    BY <2>2 DEF Machine, Cpu
  <2> QED BY <1>2, <1>3, <1>8, <2>2, <2>5, <2>6 DEF ExecutedIs, Goes, PendingAfter, MachineAfter
<1> QED BY <1>5, <1>6, <1>7, <1>8

\* What is pending on the oracle is what the runner has done already.
LEMMA SameAfter ==
  ASSUME NEW kind \in {"native", "oracle"}, NEW m, NEW op
  PROVE  MProcessed(MachineAfter(kind, m, op), PendingAfter(kind, op)) =
            IF Raises(op) THEN MEnter(MExec(m, op)) ELSE MExec(m, op)
<1>1. CASE Raises(op) /\ kind = "oracle"
  BY <1>1 DEF MProcessed, MachineAfter, PendingAfter
<1>2. CASE ~(Raises(op) /\ kind = "oracle")
  BY <1>2 DEF MProcessed, MachineAfter, PendingAfter
<1> QED BY <1>1, <1>2

-----------------------------------------------------------------------------
(* The injected fault. *)

\* Which of the registers in the canonical form two records differ in.
EmitsDiffer(a, b, F) ==
    /\ (a.d0 # b.d0) <=> "d0" \in F
    /\ (a.a7 # b.a7) <=> "a7" \in F
    /\ (a.sr # b.sr) <=> "sr" \in F
    /\ (a.usp # b.usp) <=> "usp" \in F
    /\ (a.ssp # b.ssp) <=> "ssp" \in F

FlippedFields(S, r) ==
    LET active == IF S THEN "ssp" ELSE "usp" IN IF r \in {"a7", active} THEN {"a7", active} ELSE {r}

\* A fault injected into a register shows in the fields of that register.
LEMMA FlipShows ==
  ASSUME NEW c \in OracleCpus, NEW r \in CosimRegisters
  PROVE  EmitsDiffer(OracleEmit(c), OracleEmit(OracleFlip(c, r)), FlippedFields(c.S, r))
<1>0. /\ c.D0 \in Int /\ c.USP \in Int /\ c.SSP \in Int /\ c.S \in BOOLEAN
      /\ DOMAIN c = {"D0", "USP", "SSP", "S"}
  BY DEF OracleCpus
<1>1. PICK d \in Int : d = Flipped(c.D0) /\ d # c.D0
  BY <1>0, FlippedInt
<1>2. PICK u \in Int : u = Flipped(c.USP) /\ u # c.USP
  BY <1>0, FlippedInt
<1>3. PICK v \in Int : v = Flipped(c.SSP) /\ v # c.SSP
  BY <1>0, FlippedInt
<1> USE <1>0, <1>1, <1>2, <1>3 DEF EmitsDiffer, OracleEmit, OracleFlip, FlippedFields
<1>4. CASE c.S = TRUE /\ r = "d0"
  BY <1>4
<1>5. CASE c.S = TRUE /\ r = "a7"
  BY <1>5
<1>6. CASE c.S = TRUE /\ r = "usp"
  BY <1>6
<1>7. CASE c.S = TRUE /\ r = "ssp"
  BY <1>7
<1>8. CASE c.S = FALSE /\ r = "d0"
  BY <1>8
<1>9. CASE c.S = FALSE /\ r = "a7"
  BY <1>9
<1>10. CASE c.S = FALSE /\ r = "usp"
  BY <1>10
<1>11. CASE c.S = FALSE /\ r = "ssp"
  BY <1>11
<1> HIDE DEF EmitsDiffer, OracleEmit, OracleFlip, FlippedFields
<1> QED BY <1>4, <1>5, <1>6, <1>7, <1>8, <1>9, <1>10, <1>11 DEF CosimRegisters

Struck(ram, x) == [a \in RamBytes |-> IF a = x THEN 1 - ram[a] ELSE ram[a]]

IsTarget(target) == target.reg \in CosimRegisters \cup {"none"} /\ target.addr \in Nat

LEMMA StruckOutside ==
  ASSUME NEW ram \in [RamBytes -> {0, 1}], NEW x, x \notin RamBytes
  PROVE  Struck(ram, x) = ram
BY DEF Struck

MStruck(m, target) ==
    IF target.reg # "none" THEN MFlip(m, target.reg)
    ELSE [cpu |-> m.cpu, ram |-> Struck(m.ram, target.addr)]

LEMMA InjectedKeeps ==
  ASSUME NEW s, SideOK(s), NEW target, IsTarget(target), NEW t, t = Injected(s, target)
  PROVE  Goes(s, t, MStruck(Machine(s), target))
<1>1. CASE target.reg # "none"
  <2>1. t = Flip(s, target.reg) /\ target.reg \in FlipTargets
    BY <1>1 DEF Injected, IsTarget, FlipTargets
  <2>2. MStruck(Machine(s), target) = MFlip(Machine(s), target.reg)
    BY <1>1 DEF MStruck
  <2> QED BY <2>1, <2>2, FlipKeeps
<1>2. CASE target.reg = "none" /\ target.addr \in RamBytes
  <2>1. PICK x \in RamBytes : x = target.addr
    BY <1>2
  <2>2. x \in Nat /\ s.ram[x] \in {0, 1} /\ s.kind \in {"native", "oracle"}
    BY DEF RamBytes, SideOK, CpuOK
  <2>3. InOneBank(x, 1)
    <3>1. PICK b \in {0, 1} : InRamBank(b, x)
      BY DEF RamBytes
    <3>2. \A i \in 0 .. 1 - 1 : InRamBank(b, x + i)
      <4>1. \A i \in 0 .. 1 - 1 : x + i = x
        BY <2>2
      <4> QED BY <3>1, <4>1
    <3> QED BY <3>2 DEF InOneBank
  <2>4. PICK marks \in SUBSET RamPages : marks = Marks(s.kind, x, 1) /\ Covers(marks, x, 1)
    <3>1. 1 \in Nat \ {0}
      OBVIOUS
    <3> QED BY <2>2, <2>3, <3>1, MarksCover
  <2>5. PICK bytes : bytes = <<1 - s.ram[x]>>
    OBVIOUS
  <2>6. bytes \in Seq({0, 1}) /\ Len(bytes) = 1 /\ bytes[1] = 1 - s.ram[x]
    BY <2>2, <2>5
  <2>7. t = StoreBytes(s, x, bytes, marks)
    BY <1>2, <2>1, <2>4, <2>5 DEF Injected
  <2>8. RamIs(s, t, Written(s.ram, x, bytes))
    <3>1. Covers(marks, x, Len(bytes))
      BY <2>4, <2>6
    <3> QED BY <2>2, <2>6, <2>7, <3>1, RamStoreKeeps
  <2>9. Written(s.ram, x, bytes) = Struck(s.ram, x)
    <3> SUFFICES ASSUME NEW a \in RamBytes
                 PROVE  (IF a \in x .. x + Len(bytes) - 1 THEN bytes[a - x + 1] ELSE s.ram[a])
                        = IF a = x THEN 1 - s.ram[a] ELSE s.ram[a]
      BY DEF Written, Struck
    <3>1. a \in Nat
      BY DEF RamBytes
    <3> QED BY <2>2, <2>6, <3>1
  <2>10. MStruck(Machine(s), target) = [cpu |-> Cpu(s), ram |-> Struck(s.ram, x)]
    BY <1>2, <2>1 DEF MStruck, Machine
  <2> QED BY <2>8, <2>9, <2>10, RamGoes
<1>3. CASE target.reg = "none" /\ target.addr \notin RamBytes
  <2>1. t = s
    BY <1>3 DEF Injected
  <2>2. Struck(s.ram, target.addr) = s.ram
    BY <1>3, StruckOutside DEF SideOK
  <2>3. MStruck(Machine(s), target) = Machine(s)
    BY <1>3, <2>2 DEF MStruck, Machine
  <2> QED BY <2>1, <2>3 DEF Goes
<1> QED BY <1>1, <1>2, <1>3

\* A flipped byte shows in the hash of its bank and in no other.
LEMMA StrikeShows ==
  ASSUME NEW ram \in [RamBytes -> {0, 1}], NEW x \in Nat, NEW b \in {0, 1}
  PROVE  (BankNow(Struck(ram, x), b) # BankNow(ram, b)) <=> InRamBank(b, x)
<1>1. CASE InRamBank(b, x)
  <2>1. PICK p \in RamPages, i \in 0 .. PageBytes - 1 : p[1] = b /\ AddrOf(p, i) = x
    BY <1>1, PageOf
  <2>2. x \in RamBytes /\ p[2] \in 0 .. PagesPerBank - 1
    BY <2>1, PageBytesInBank
  <2>3. BankNow(ram, b)[p[2]][i] = ram[x] /\ BankNow(Struck(ram, x), b)[p[2]][i] = Struck(ram, x)[x]
    BY <2>1, <2>2 DEF BankNow, AddrOf
  <2>4. Struck(ram, x)[x] # ram[x]
    BY <2>2 DEF Struck
  <2> QED BY <1>1, <2>3, <2>4
<1>2. CASE ~InRamBank(b, x)
  <2>1. ASSUME NEW q \in 0 .. PagesPerBank - 1, NEW i \in 0 .. PageBytes - 1
        PROVE  Struck(ram, x)[RamBase[b] + q * PageBytes + i] = ram[RamBase[b] + q * PageBytes + i]
    <3>1. PICK p \in RamPages : p[1] = b /\ p[2] = q
      <4>1. <<b, q>> \in RamPages /\ <<b, q>>[1] = b /\ <<b, q>>[2] = q
        BY DEF RamPages
      <4> QED BY <4>1
    <3>2. AddrOf(p, i) = RamBase[b] + q * PageBytes + i
      BY <3>1 DEF AddrOf
    <3>3. AddrOf(p, i) \in RamBytes /\ AddrOf(p, i) # x
      BY <1>2, <3>1, PageBytesInBank
    <3> QED BY <3>2, <3>3 DEF Struck
  <2>2. BankNow(Struck(ram, x), b) = BankNow(ram, b)
    BY <2>1 DEF BankNow
  <2> QED BY <1>2, <2>2
<1> QED BY <1>1, <1>2

-----------------------------------------------------------------------------
(* The records. *)

Differs(a, b, F) == \A f \in StateFields : (a[f] # b[f]) <=> f \in F
Within(a, b, F) == \A f \in StateFields : a[f] # b[f] => f \in F

\* The record of a machine.
RecordOf(k, seam, m) == EntryRecord(k, seam, m.ram, OracleEmit(m.cpu))

Seam(a, b) == OneFrameApart(a, b) /\ Within(a, b, FrameSignals(a, b))

\* The records of instruction k in the comparison c.
RecordOK(c, k, a, b) ==
    /\ a.seq = k
    /\ c.left = c.right \/ ~(a.seam \/ b.seam) =>
          /\ k < c.seq => Differs(a, b, {})
          /\ k = c.seq => Differs(a, b, Signals(c.target, a))
    /\ c.left # c.right /\ (a.seam \/ b.seam) /\ 0 < k /\ k < c.seq => Seam(a, b)

IsMachine(m) == m.cpu \in OracleCpus /\ m.ram \in [RamBytes -> {0, 1}]

LEMMA MachineTyped ==
  ASSUME NEW s, SideOK(s)
  PROVE  IsMachine(Machine(s))
BY CpuTyped DEF IsMachine, Machine, SideOK

LEMMA RecordsDiffer ==
  ASSUME NEW k, NEW x, NEW y, NEW e, NEW g, NEW F, EmitsDiffer(e, g, F), "seq" \notin F,
         (BankNow(x, 0) # BankNow(y, 0)) <=> "ram0" \in F,
         (BankNow(x, 1) # BankNow(y, 1)) <=> "ram1" \in F,
         NEW p, NEW q, NEW a, a = EntryRecord(k, p, x, e), NEW b, b = EntryRecord(k, q, y, g)
  PROVE  Differs(a, b, F)
<1>1. /\ a.seq = b.seq /\ a.ram0 = BankNow(x, 0) /\ b.ram0 = BankNow(y, 0)
      /\ a.ram1 = BankNow(x, 1) /\ b.ram1 = BankNow(y, 1)
      /\ a.d0 = e.d0 /\ b.d0 = g.d0 /\ a.a7 = e.a7 /\ b.a7 = g.a7 /\ a.sr = e.sr /\ b.sr = g.sr
      /\ a.usp = e.usp /\ b.usp = g.usp /\ a.ssp = e.ssp /\ b.ssp = g.ssp
  BY DEF EntryRecord
<1> QED BY <1>1 DEF Differs, EmitsDiffer, StateFields

LEMMA SameRecords ==
  ASSUME NEW k, NEW m, NEW p, NEW q
  PROVE  Differs(RecordOf(k, p, m), RecordOf(k, q, m), {})
BY DEF Differs, RecordOf, EntryRecord, StateFields

\* The signals, by the kind of target.
LEMMA SignalsOfRegister ==
  ASSUME NEW target, target.reg \in CosimRegisters, NEW a
  PROVE  Signals(target, a) = FlippedFields(a.sr, target.reg)
BY DEF Signals, FlippedFields, CosimRegisters

LEMMA SignalsOfRam ==
  ASSUME NEW target, target.reg = "none", NEW a
  PROVE  Signals(target, a) = BankSignals(target.addr)
BY DEF Signals

\* At the injected instruction the records differ in the injected signal.
LEMMA InjectionShows ==
  ASSUME NEW m, IsMachine(m), NEW target, IsTarget(target), NEW k, NEW p, NEW q,
         NEW a, a = RecordOf(k, p, m), NEW b, b = RecordOf(k, q, MStruck(m, target))
  PROVE  Differs(a, b, Signals(target, a))
<1>0. PICK c \in OracleCpus : c = m.cpu
  BY DEF IsMachine
<1>1. a = EntryRecord(k, p, m.ram, OracleEmit(c)) /\ a.sr = c.S
  BY <1>0 DEF RecordOf, EntryRecord, OracleEmit
<1>2. CASE target.reg # "none"
  <2>1. PICK r \in CosimRegisters : r = target.reg
    BY <1>2 DEF IsTarget
  <2>2. PICK F : F = FlippedFields(c.S, r)
    OBVIOUS
  <2>3. EmitsDiffer(OracleEmit(c), OracleEmit(OracleFlip(c, r)), F)
    BY <2>2, FlipShows
  <2>4. b = EntryRecord(k, q, m.ram, OracleEmit(OracleFlip(c, r)))
    BY <1>0, <1>2, <2>1 DEF RecordOf, MStruck, MFlip
  <2>5. "seq" \notin F /\ "ram0" \notin F /\ "ram1" \notin F
    BY <2>2 DEF FlippedFields, CosimRegisters
  <2>6. Signals(target, a) = F
    BY <1>1, <2>1, <2>2, SignalsOfRegister
  <2>7. Differs(a, b, F)
    BY <1>1, <2>3, <2>4, <2>5, RecordsDiffer
  <2> QED BY <2>6, <2>7
<1>3. CASE target.reg = "none"
  <2>1. PICK F : F = BankSignals(target.addr)
    OBVIOUS
  <2>2. PICK e : e = OracleEmit(c)
    OBVIOUS
  <2>3. EmitsDiffer(e, e, F) /\ "seq" \notin F
    BY <2>1 DEF EmitsDiffer, BankSignals
  <2>4. target.addr \in Nat /\ m.ram \in [RamBytes -> {0, 1}]
    BY DEF IsTarget, IsMachine
  <2>5. PICK y : y = Struck(m.ram, target.addr)
    OBVIOUS
  <2>6. /\ (BankNow(y, 0) # BankNow(m.ram, 0)) <=> InRamBank(0, target.addr)
        /\ (BankNow(y, 1) # BankNow(m.ram, 1)) <=> InRamBank(1, target.addr)
    BY <2>4, <2>5, StrikeShows
  <2>7. /\ "ram0" \in F <=> InRamBank(0, target.addr)
        /\ "ram1" \in F <=> InRamBank(1, target.addr)
    BY <2>1 DEF BankSignals
  <2>8. b = EntryRecord(k, q, y, e)
    BY <1>0, <1>3, <2>2, <2>5 DEF RecordOf, MStruck
  <2>9. Differs(a, b, F)
    <3>1. /\ (BankNow(m.ram, 0) # BankNow(y, 0)) <=> "ram0" \in F
          /\ (BankNow(m.ram, 1) # BankNow(y, 1)) <=> "ram1" \in F
      BY <2>6, <2>7
    <3> QED BY <1>1, <2>2, <2>3, <2>8, <3>1, RecordsDiffer
  <2> QED BY <1>3, <2>1, <2>9, SignalsOfRam
<1> QED BY <1>2, <1>3

\* A frame changes no bank but its own.
LEMMA FrameInBank ==
  ASSUME NEW ram \in [RamBytes -> {0, 1}], NEW phys \in Int, NEW bytes, Len(bytes) = 2,
         NEW b \in {0, 1}, ~InRamBank(b, phys)
  PROVE  BankNow(BusRam(ram, phys, bytes), b) = BankNow(ram, b)
<1>1. CASE ~InOneBank(phys, Len(bytes))
  BY <1>1 DEF BusRam
<1>2. CASE InOneBank(phys, Len(bytes))
  <2>1. PICK c \in {0, 1} : \A i \in 0 .. 2 - 1 : InRamBank(c, phys + i)
    BY <1>2 DEF InOneBank
  <2>2. InRamBank(c, phys) /\ InRamBank(c, phys + 1) /\ phys + 1 \in Int
    <3>1. 0 \in 0 .. 2 - 1 /\ 1 \in 0 .. 2 - 1 /\ phys + 0 = phys
      OBVIOUS
    <3> QED BY <2>1, <3>1
  <2>3. c # b
    BY <2>2
  <2>4. ASSUME NEW q \in 0 .. PagesPerBank - 1, NEW i \in 0 .. PageBytes - 1
        PROVE  Written(ram, phys, bytes)[RamBase[b] + q * PageBytes + i] = ram[RamBase[b] + q * PageBytes + i]
    <3>1. PICK p \in RamPages : p[1] = b /\ p[2] = q
      <4>1. <<b, q>> \in RamPages /\ <<b, q>>[1] = b /\ <<b, q>>[2] = q
        BY DEF RamPages
      <4> QED BY <4>1
    <3>2. PICK a \in RamBytes : a = AddrOf(p, i) /\ InRamBank(b, a) /\ a \in Nat
      BY <3>1, PageBytesInBank DEF RamBytes
    <3>3. AddrOf(p, i) = RamBase[b] + q * PageBytes + i
      BY <3>1 DEF AddrOf
    <3>4. a # phys /\ a # phys + 1
      BY <2>2, <2>3, <3>2, OneBank
    <3>5. a \notin phys .. phys + Len(bytes) - 1
      BY <3>2, <3>4
    <3>6. Written(ram, phys, bytes)[a] = ram[a]
      BY <3>5 DEF Written
    <3> QED BY <3>2, <3>3, <3>6
  <2>5. BankNow(Written(ram, phys, bytes), b) = BankNow(ram, b)
    BY <2>4 DEF BankNow
  <2> QED BY <1>2, <2>5 DEF BusRam
<1> QED BY <1>1, <1>2

\* A machine and the same one with a frame are a seam.
LEMMA FrameIsSeam ==
  ASSUME NEW m, IsMachine(m), NEW k, NEW p, NEW q,
         NEW a, a = RecordOf(k, p, m), NEW b, b = RecordOf(k, q, MEnter(m))
  PROVE  Seam(a, b) /\ Seam(b, a)
<1>1. PICK c \in OracleCpus : c = m.cpu /\ c.SSP \in Int /\ c.D0 = m.cpu.D0
  BY DEF IsMachine, OracleCpus
<1>2. PICK phys \in Int : phys = c.SSP - FrameBytes
  BY <1>1 DEF FrameBytes
<1>3. PICK w : w = FrameOf(c.S) /\ Len(w) = 2
  <2>1. Len(<<1, 1>>) = 2 /\ Len(<<0, 1>>) = 2
    OBVIOUS
  <2>2. FrameOf(c.S) = <<1, 1>> \/ FrameOf(c.S) = <<0, 1>>
    BY DEF FrameOf
  <2>3. Len(FrameOf(c.S)) = 2
    BY <2>1, <2>2
  <2> QED BY <2>3
<1>4. PICK y : y = BusRam(m.ram, phys, w)
  OBVIOUS
<1>5. PICK d : d = OracleEnter(c)
  OBVIOUS
<1>6. d.D0 = c.D0 /\ d.USP = c.USP /\ d.SSP = phys
  BY <1>2, <1>5 DEF OracleEnter, OracleCpus
<1>7. /\ a = EntryRecord(k, p, m.ram, OracleEmit(c)) /\ b = EntryRecord(k, q, y, OracleEmit(d))
  BY <1>1, <1>2, <1>3, <1>4, <1>5 DEF RecordOf, MEnter
<1>8. /\ a.seq = b.seq /\ a.d0 = b.d0 /\ a.usp = b.usp /\ a.ssp = c.SSP /\ b.ssp = phys
      /\ a.ram0 = BankNow(m.ram, 0) /\ a.ram1 = BankNow(m.ram, 1)
      /\ b.ram0 = BankNow(y, 0) /\ b.ram1 = BankNow(y, 1)
  BY <1>6, <1>7 DEF EntryRecord, OracleEmit
<1>9. OneFrameApart(a, b) /\ OneFrameApart(b, a)
  BY <1>1, <1>2, <1>8 DEF OneFrameApart, FrameBytes
<1>10. Least(a.ssp, b.ssp) = phys /\ Least(b.ssp, a.ssp) = phys
  BY <1>1, <1>2, <1>8 DEF Least, FrameBytes
<1>11. PICK F : F = {"a7", "ssp", "sr"} \cup BankSignals(phys)
  OBVIOUS
<1>12. F = FrameSignals(a, b) /\ F = FrameSignals(b, a)
  BY <1>10, <1>11 DEF FrameSignals
<1>13. /\ a.ram0 # b.ram0 => "ram0" \in F
       /\ a.ram1 # b.ram1 => "ram1" \in F
  <2>1. m.ram \in [RamBytes -> {0, 1}]
    BY DEF IsMachine
  <2>2. /\ ~InRamBank(0, phys) => BankNow(y, 0) = BankNow(m.ram, 0)
        /\ ~InRamBank(1, phys) => BankNow(y, 1) = BankNow(m.ram, 1)
    BY <1>3, <1>4, <2>1, FrameInBank
  <2> QED BY <1>8, <1>11, <2>2 DEF BankSignals
<1>14. "a7" \in F /\ "ssp" \in F /\ "sr" \in F
  BY <1>11
<1>15. Within(a, b, F) /\ Within(b, a, F)
  BY <1>8, <1>13, <1>14 DEF Within, StateFields
<1> QED BY <1>9, <1>12, <1>15 DEF Seam

RefreshOK(q, s) ==
    q = NoQuery \/ (trace_seq = StopSeq /\ q.page \in RamPages /\ q.hash = PageNow(s, q.page))

\* The machine of a run once what is pending is done.
Effective(s) == MProcessed(Machine(s), s.pending)

\* Until the fault is injected both runs are at the same machine, up to what is pending
\* on an oracle; two of one kind have the same pending too.
Agreeing(c, l, r) ==
    /\ Effective(l) = Effective(r)
    /\ c.left = c.right => Machine(l) = Machine(r) /\ l.pending = r.pending

\* The inductive invariant: while the fault is not injected the runs agree, and the records
\* taken do for good.
CosimInv ==
    /\ trace_seq \in 0 .. StopSeq /\ armed \in Comparisons
    /\ DOMAIN pair = Sides /\ SideOK(pair["left"]) /\ SideOK(pair["right"])
    /\ pair["left"].kind = armed.left /\ pair["right"].kind = armed.right
    /\ trace_seq # 0 => pair["left"].pending # "reset" /\ pair["right"].pending # "reset"
    /\ trace_seq < StopSeq /\ trace_seq <= armed.seq => Agreeing(armed, pair["left"], pair["right"])
    /\ \A k \in Nat : OldestRecord <= k /\ k < trace_seq =>
          RecordOK(armed, k, pair["left"].ring[k % TraceRecords], pair["right"].ring[k % TraceRecords])
    /\ DOMAIN refresh = Sides
    /\ RefreshOK(refresh["left"], pair["left"]) /\ RefreshOK(refresh["right"], pair["right"])

LEMMA ResetOK ==
  ASSUME NEW kind \in {"native", "oracle"}, NEW s, s = CosimReset(kind)
  PROVE  SideOK(s) /\ s.kind = kind
<1>1. /\ DOMAIN s = SideFields /\ s.kind = kind /\ s.page_dirty = RamPages /\ DOMAIN s.page_hash = RamPages
      /\ DOMAIN s.ring = 0 .. TraceRecords - 1 /\ s.ram = [a \in RamBytes |-> 0]
  BY DEF CosimReset, SideFields
<1>2. /\ s.cpu = IF kind = "native" THEN NativeReset ELSE OracleReset
      /\ s.pending = IF kind = "native" THEN "none" ELSE "reset"
  BY DEF CosimReset
<1>3. CpuOK(s)
  <2>1. NativeReset \in NativeCpus /\ OracleReset \in OracleCpus
    BY CosimAssumption DEF NativeReset, OracleReset, NativeCpus, OracleCpus
  <2> QED BY <1>1, <1>2, <2>1 DEF CpuOK
<1>4. s.ram \in [RamBytes -> {0, 1}]
  BY <1>1
<1> QED BY <1>1, <1>3, <1>4 DEF SideOK

\* Both kinds begin at the reset vector.
ResetMachine == [cpu |-> [D0 |-> 0, USP |-> 0, SSP |-> ResetSsp, S |-> TRUE], ram |-> [a \in RamBytes |-> 0]]

LEMMA ResetEffective ==
  ASSUME NEW kind \in {"native", "oracle"}
  PROVE  Effective(CosimReset(kind)) = ResetMachine
<1>1. PICK s : s = CosimReset(kind)
  OBVIOUS
<1>2. s.kind = kind /\ s.ram = [a \in RamBytes |-> 0]
  BY <1>1 DEF CosimReset
<1>3. CASE kind = "native"
  <2>1. s.cpu = NativeReset /\ s.pending = "none"
    BY <1>1, <1>3 DEF CosimReset
  <2>2. Effective(s) = [cpu |-> Abs(NativeReset), ram |-> s.ram]
    BY <1>2, <1>3, <2>1 DEF Effective, MProcessed, Machine, Cpu
  <2>3. Abs(NativeReset) = [D0 |-> 0, USP |-> 0, SSP |-> ResetSsp, S |-> TRUE]
    BY DEF Abs, NativeReset
  <2> QED BY <1>1, <1>2, <2>2, <2>3 DEF ResetMachine
<1>4. CASE kind = "oracle"
  <2>1. s.cpu = OracleReset /\ s.pending = "reset"
    BY <1>1, <1>4 DEF CosimReset
  <2>2. Effective(s) = [cpu |-> [OracleReset EXCEPT !.SSP = ResetSsp, !.S = TRUE], ram |-> s.ram]
    BY <1>2, <1>4, <2>1 DEF Effective, MProcessed, Machine, Cpu
  <2>3. [OracleReset EXCEPT !.SSP = ResetSsp, !.S = TRUE] = [D0 |-> 0, USP |-> 0, SSP |-> ResetSsp, S |-> TRUE]
    <3>1. PICK c \in OracleCpus : c = OracleReset /\ c.D0 = 0 /\ c.USP = 0
      <4>1. OracleReset \in OracleCpus /\ OracleReset.D0 = 0 /\ OracleReset.USP = 0
        BY DEF OracleReset, OracleCpus
      <4> QED BY <4>1
    <3>2. ResetSsp \in Int
      BY CosimAssumption
    <3>3. PICK d : d = WithStack(c, ResetSsp)
      OBVIOUS
    <3>4. StackIs(c, ResetSsp, d)
      BY <3>2, <3>3, StackSet
    <3>5. d \in OracleCpus /\ d.D0 = 0 /\ d.USP = 0 /\ d.SSP = ResetSsp /\ d.S = TRUE
      BY <3>1, <3>4 DEF StackIs
    <3>6. d = [D0 |-> 0, USP |-> 0, SSP |-> ResetSsp, S |-> TRUE]
      BY <3>2, <3>5 DEF OracleCpus
    <3> QED BY <3>1, <3>3, <3>6 DEF WithStack
  <2> QED BY <1>1, <1>2, <2>2, <2>3 DEF ResetMachine
<1> QED BY <1>3, <1>4

LEMMA CosimStart == CosimInit => CosimInv
<1> SUFFICES ASSUME CosimInit PROVE CosimInv
  OBVIOUS
<1>1. /\ armed \in Comparisons /\ armed.left \in {"native", "oracle"} /\ armed.right \in {"native", "oracle"}
      /\ pair["left"] = CosimReset(armed.left) /\ pair["right"] = CosimReset(armed.right)
      /\ DOMAIN pair = Sides
  BY CosimInputs DEF CosimInit, Sides
<1>2. /\ SideOK(pair["left"]) /\ SideOK(pair["right"])
      /\ pair["left"].kind = armed.left /\ pair["right"].kind = armed.right
  BY <1>1, ResetOK
<1>3. Agreeing(armed, pair["left"], pair["right"])
  BY <1>1, ResetEffective DEF Agreeing
<1>4. trace_seq = 0 /\ 0 \in 0 .. StopSeq
  BY CosimAssumption DEF CosimInit
<1>5. DOMAIN refresh = Sides /\ refresh["left"] = NoQuery /\ refresh["right"] = NoQuery
  BY DEF CosimInit, Sides
<1>6. \A k \in Nat : ~(k < trace_seq)
  BY <1>4
<1> QED BY <1>1, <1>2, <1>3, <1>4, <1>5, <1>6 DEF CosimInv, RefreshOK

\* A side when its record is taken, and the record.
Faulted(x) == IF x = "right" /\ armed.seq = trace_seq THEN Injected(pair[x], armed.target) ELSE pair[x]
EntryOf(x) == RecordOf(trace_seq, pair[x].pending # "none", Machine(Faulted(x)))

CapturedIs(x, t) ==
    /\ SideOK(t) /\ t.kind = pair[x].kind /\ t.pending = pair[x].pending
    /\ Machine(t) = Machine(Faulted(x))
    /\ t.ring = [pair[x].ring EXCEPT ![trace_seq % TraceRecords] = EntryOf(x)]

LEMMA ArmedIs ==
  ASSUME CosimInv
  PROVE  /\ IsTarget(armed.target) /\ armed.seq \in Nat /\ trace_seq \in Nat
         /\ armed.left \in {"native", "oracle"} /\ armed.right \in {"native", "oracle"}
BY CosimInputs, CosimAssumption DEF CosimInv, IsTarget

LEMMA CapturedKeeps ==
  ASSUME CosimInv, NEW x \in Sides, NEW t, t = Captured(x)
  PROVE  CapturedIs(x, t)
<1>1. SideOK(pair[x])
  BY DEF CosimInv, Sides
<1>2. PICK s : s = Faulted(x)
  OBVIOUS
<1>3. SideOK(s) /\ s.kind = pair[x].kind /\ s.ring = pair[x].ring /\ s.pending = pair[x].pending
  <2>1. Goes(pair[x], Injected(pair[x], armed.target), MStruck(Machine(pair[x]), armed.target))
    BY <1>1, ArmedIs, InjectedKeeps
  <2> QED BY <1>1, <1>2, <2>1 DEF Faulted, Goes
<1>4. t = Recorded(s)
  BY <1>2 DEF Captured, Faulted
<1>5. RecordedIs(s, t)
  BY <1>3, <1>4, ArmedIs, RecordedKeeps
<1>6. Emit(s) = OracleEmit(Cpu(s))
  BY <1>3, EmitIs
<1>7. EntryOf(x) = EntryRecord(trace_seq, s.pending # "none", s.ram, Emit(s))
  BY <1>2, <1>3, <1>6 DEF EntryOf, RecordOf, Machine
<1>8. Machine(t) = Machine(s)
  BY <1>5 DEF RecordedIs, Machine, Cpu
<1> QED BY <1>2, <1>3, <1>5, <1>7, <1>8 DEF RecordedIs, CapturedIs

\* The records of the instruction both runs are at.
LEMMA EntryLocalized ==
  ASSUME CosimInv, trace_seq < StopSeq, NEW a, a = EntryOf("left"), NEW b, b = EntryOf("right")
  PROVE  RecordOK(armed, trace_seq, a, b)
<1> DEFINE l == pair["left"]
           r == pair["right"]
<1>0. /\ SideOK(l) /\ SideOK(r) /\ l.kind = armed.left /\ r.kind = armed.right
      /\ armed.seq \in Nat /\ trace_seq \in Nat
  BY ArmedIs DEF CosimInv
<1>1. /\ a = RecordOf(trace_seq, l.pending # "none", Machine(l))
      /\ trace_seq < armed.seq => b = RecordOf(trace_seq, r.pending # "none", Machine(r))
  BY <1>0 DEF EntryOf, Faulted
<1>2. trace_seq = armed.seq =>
         b = RecordOf(trace_seq, r.pending # "none", MStruck(Machine(r), armed.target))
  <2>1. Goes(r, Injected(r, armed.target), MStruck(Machine(r), armed.target))
    BY <1>0, ArmedIs, InjectedKeeps
  <2> QED BY <2>1 DEF EntryOf, Faulted, Goes
<1>3. a.seq = trace_seq /\ a.seam = (l.pending # "none")
  BY <1>1 DEF RecordOf, EntryRecord
<1>4. b.seam = (r.pending # "none")
  BY DEF EntryOf, RecordOf, EntryRecord
<1>5. ASSUME trace_seq <= armed.seq, armed.left = armed.right \/ ~(a.seam \/ b.seam)
      PROVE  Machine(l) = Machine(r)
  <2>1. Agreeing(armed, l, r)
    BY <1>5 DEF CosimInv
  <2>2. CASE armed.left = armed.right
    BY <2>1, <2>2 DEF Agreeing
  <2>3. CASE l.pending = "none" /\ r.pending = "none"
    BY <2>1, <2>3 DEF Agreeing, Effective, MProcessed
  <2> QED BY <1>3, <1>4, <1>5, <2>2, <2>3
<1>6. ASSUME trace_seq < armed.seq, armed.left = armed.right \/ ~(a.seam \/ b.seam)
      PROVE  Differs(a, b, {})
  <2>1. Machine(l) = Machine(r)
    BY <1>0, <1>5, <1>6
  <2> QED BY <1>1, <1>6, <2>1, SameRecords
<1>7. ASSUME trace_seq = armed.seq, armed.left = armed.right \/ ~(a.seam \/ b.seam)
      PROVE  Differs(a, b, Signals(armed.target, a))
  <2>1. Machine(l) = Machine(r)
    BY <1>0, <1>5, <1>7
  <2>2. IsMachine(Machine(l)) /\ IsTarget(armed.target)
    BY <1>0, MachineTyped, ArmedIs
  <2> QED BY <1>1, <1>2, <1>7, <2>1, <2>2, InjectionShows
<1>8. ASSUME armed.left # armed.right, a.seam \/ b.seam, 0 < trace_seq, trace_seq < armed.seq
      PROVE  Seam(a, b)
  <2>1. Agreeing(armed, l, r) /\ l.pending # "reset" /\ r.pending # "reset"
    BY <1>0, <1>8 DEF CosimInv
  <2>2. b = RecordOf(trace_seq, r.pending # "none", Machine(r))
    BY <1>1, <1>8
  <2>3. IsMachine(Machine(l)) /\ IsMachine(Machine(r))
    BY <1>0, MachineTyped
  <2>4. CASE l.kind = "native" /\ r.kind = "oracle"
    <3>1. l.pending = "none" /\ r.pending = "exception"
      BY <1>0, <1>3, <1>4, <1>8, <2>1, <2>4 DEF SideOK, CpuOK
    <3>2. Machine(l) = MEnter(Machine(r))
      BY <2>1, <3>1 DEF Agreeing, Effective, MProcessed
    <3> QED BY <1>1, <2>2, <2>3, <3>2, FrameIsSeam
  <2>5. CASE l.kind = "oracle" /\ r.kind = "native"
    <3>1. r.pending = "none" /\ l.pending = "exception"
      BY <1>0, <1>3, <1>4, <1>8, <2>1, <2>5 DEF SideOK, CpuOK
    <3>2. Machine(r) = MEnter(Machine(l))
      BY <2>1, <3>1 DEF Agreeing, Effective, MProcessed
    <3> QED BY <1>1, <2>2, <2>3, <3>2, FrameIsSeam
  <2> QED BY <1>0, <1>8, <2>4, <2>5, ArmedIs
<1> QED BY <1>3, <1>6, <1>7, <1>8 DEF RecordOK

\* The rings keep the records that are not evicted.
LEMMA RingKeeps ==
  ASSUME CosimInv, trace_seq < StopSeq, trace_seq' = trace_seq + 1, armed' = armed,
         NEW a, NEW b, RecordOK(armed, trace_seq, a, b),
         pair'["left"].ring = [pair["left"].ring EXCEPT ![trace_seq % TraceRecords] = a],
         pair'["right"].ring = [pair["right"].ring EXCEPT ![trace_seq % TraceRecords] = b],
         NEW k \in Nat, OldestRecord' <= k, k < trace_seq'
  PROVE  RecordOK(armed, k, pair'["left"].ring[k % TraceRecords], pair'["right"].ring[k % TraceRecords])
<1>1. /\ trace_seq \in Nat /\ TraceRecords \in Nat \ {0}
      /\ DOMAIN pair["left"].ring = 0 .. TraceRecords - 1 /\ DOMAIN pair["right"].ring = 0 .. TraceRecords - 1
  BY CosimAssumption DEF CosimInv, SideOK
<1>2. k % TraceRecords \in 0 .. TraceRecords - 1 /\ trace_seq % TraceRecords \in 0 .. TraceRecords - 1
  <2>1. k \in Int /\ trace_seq \in Int /\ TraceRecords \in Nat \ {0}
    BY <1>1
  <2>2. k % TraceRecords \in 0 .. TraceRecords - 1
    BY <2>1, RemainderDef
  <2>3. trace_seq % TraceRecords \in 0 .. TraceRecords - 1
    BY <2>1, RemainderDef
  <2> QED BY <2>2, <2>3
<1>3. CASE k = trace_seq
  BY <1>1, <1>2, <1>3
<1>4. CASE k # trace_seq
  <2>1. k < trace_seq /\ trace_seq < k + TraceRecords /\ OldestRecord <= k
    BY <1>1, <1>4 DEF OldestRecord
  <2>2. k % TraceRecords # trace_seq % TraceRecords
    <3>1. k \in Int /\ trace_seq \in Int
      BY <1>1
    <3> QED BY <1>1, <2>1, <3>1, RemainderApart
  <2>3. /\ pair'["left"].ring[k % TraceRecords] = pair["left"].ring[k % TraceRecords]
        /\ pair'["right"].ring[k % TraceRecords] = pair["right"].ring[k % TraceRecords]
    BY <1>1, <1>2, <2>2
  <2> QED BY <2>1, <2>3 DEF CosimInv
<1> QED BY <1>3, <1>4

\* A run after an instruction, which a parked runner does not execute.
StepIs(x, op) ==
    trace_seq + 1 < StopSeq =>
        /\ pair'[x].pending = PendingAfter(pair[x].kind, op)
        /\ Machine(pair'[x]) = MachineAfter(pair[x].kind,
                                   MProcessed(Machine(Faulted(x)), pair[x].pending), op)

LEMMA SideSteps ==
  ASSUME CosimInv, NEW op \in CosimOps, CosimStep(op), NEW x \in Sides
  PROVE  /\ SideOK(pair'[x]) /\ pair'[x].kind = pair[x].kind /\ pair'[x].pending \in {"none", "exception"}
         /\ pair'[x].ring = [pair[x].ring EXCEPT ![trace_seq % TraceRecords] = EntryOf(x)]
         /\ StepIs(x, op)
<1>1. PICK c : c = Captured(x)
  OBVIOUS
<1>2. CapturedIs(x, c)
  BY <1>1, CapturedKeeps
<1>3. pair'[x] = IF pair[x].kind = "native" /\ trace_seq + 1 = StopSeq THEN c
                 ELSE Executed(Processed(c), op)
  BY <1>1 DEF CosimStep
<1>4. CASE pair[x].kind = "native" /\ trace_seq + 1 = StopSeq
  <2>1. pair'[x] = c /\ ~(trace_seq + 1 < StopSeq)
    BY <1>3, <1>4, ArmedIs
  <2>2. c.pending = "none"
    BY <1>2, <1>4 DEF CapturedIs, SideOK, CpuOK
  <2> QED BY <1>2, <2>1, <2>2 DEF CapturedIs, StepIs
<1>5. CASE ~(pair[x].kind = "native" /\ trace_seq + 1 = StopSeq)
  <2>1. PICK p : p = Processed(c)
    OBVIOUS
  <2>2. pair'[x] = Executed(p, op)
    BY <1>3, <1>5, <2>1
  <2>3. ProcessedIs(c, p)
    BY <1>2, <2>1, ProcessedKeeps DEF CapturedIs
  <2>4. /\ SideOK(p) /\ p.kind = pair[x].kind /\ p.pending = "none" /\ p.ring = c.ring
        /\ Machine(p) = MProcessed(Machine(Faulted(x)), pair[x].pending)
    BY <1>2, <2>3 DEF CapturedIs, ProcessedIs, SettledIs
  <2>5. ExecutedIs(p, pair'[x], op)
    BY <2>2, <2>4, ExecutedKeeps
  <2>6. PendingAfter(p.kind, op) \in {"none", "exception"}
    BY DEF PendingAfter
  <2> QED BY <1>2, <2>4, <2>5, <2>6 DEF ExecutedIs, CapturedIs, StepIs
<1> QED BY <1>4, <1>5

LEMMA CosimStepKeeps ==
  ASSUME CosimInv, QueriesWait, NEW op \in CosimOps, CosimStep(op)
  PROVE  CosimInv'
<1>1. /\ trace_seq < StopSeq /\ trace_seq' = trace_seq + 1 /\ armed' = armed /\ refresh' = refresh
      /\ trace_seq \in Nat /\ StopSeq \in Nat /\ armed.seq \in Nat
      /\ DOMAIN pair' = Sides /\ "left" \in Sides /\ "right" \in Sides
  BY CosimAssumption, ArmedIs DEF CosimStep, Sides
<1> DEFINE l == pair["left"]
           r == pair["right"]
<1>2. /\ SideOK(pair'["left"]) /\ pair'["left"].kind = l.kind /\ pair'["left"].pending # "reset"
      /\ SideOK(pair'["right"]) /\ pair'["right"].kind = r.kind /\ pair'["right"].pending # "reset"
  BY <1>1, SideSteps
<1>3. /\ pair'["left"].ring = [l.ring EXCEPT ![trace_seq % TraceRecords] = EntryOf("left")]
      /\ pair'["right"].ring = [r.ring EXCEPT ![trace_seq % TraceRecords] = EntryOf("right")]
  BY <1>1, SideSteps
<1>4. ASSUME trace_seq' < StopSeq, trace_seq' <= armed'.seq
      PROVE  Agreeing(armed', pair'["left"], pair'["right"])
  <2>1. trace_seq < armed.seq /\ trace_seq + 1 < StopSeq /\ Agreeing(armed, l, r)
    BY <1>1, <1>4 DEF CosimInv
  <2>2. Faulted("left") = l /\ Faulted("right") = r
    BY <1>1, <2>1 DEF Faulted
  <2>3. PICK m : m = Effective(l) /\ m = Effective(r)
    BY <2>1 DEF Agreeing
  <2>4. /\ pair'["left"].pending = PendingAfter(l.kind, op)
        /\ Machine(pair'["left"]) = MachineAfter(l.kind, m, op)
    <3>1. StepIs("left", op)
      BY <1>1, SideSteps
    <3>2. MProcessed(Machine(Faulted("left")), l.pending) = m
      BY <2>2, <2>3 DEF Effective
    <3> QED BY <2>1, <3>1, <3>2 DEF StepIs
  <2>5. /\ pair'["right"].pending = PendingAfter(r.kind, op)
        /\ Machine(pair'["right"]) = MachineAfter(r.kind, m, op)
    <3>1. StepIs("right", op)
      BY <1>1, SideSteps
    <3>2. MProcessed(Machine(Faulted("right")), r.pending) = m
      BY <2>2, <2>3 DEF Effective
    <3> QED BY <2>1, <3>1, <3>2 DEF StepIs
  <2>6. l.kind = armed.left /\ r.kind = armed.right
        /\ l.kind \in {"native", "oracle"} /\ r.kind \in {"native", "oracle"}
    BY ArmedIs DEF CosimInv
  <2>7. PICK n : n = IF Raises(op) THEN MEnter(MExec(m, op)) ELSE MExec(m, op)
    OBVIOUS
  <2>8. Effective(pair'["left"]) = n
    BY <2>4, <2>6, <2>7, SameAfter DEF Effective
  <2>9. Effective(pair'["right"]) = n
    BY <2>5, <2>6, <2>7, SameAfter DEF Effective
  <2> QED BY <1>1, <2>4, <2>5, <2>6, <2>8, <2>9 DEF Agreeing
<1>5. RecordOK(armed, trace_seq, EntryOf("left"), EntryOf("right"))
  BY <1>1, EntryLocalized
<1>6. \A k \in Nat : OldestRecord' <= k /\ k < trace_seq' =>
          RecordOK(armed', k, pair'["left"].ring[k % TraceRecords], pair'["right"].ring[k % TraceRecords])
  BY <1>1, <1>3, <1>5, RingKeeps
<1>7. DOMAIN refresh' = Sides /\ refresh'["left"] = NoQuery /\ refresh'["right"] = NoQuery
  BY <1>1 DEF CosimInv, RefreshOK
<1>8. trace_seq' \in 0 .. StopSeq /\ armed' \in Comparisons
      /\ l.kind = armed.left /\ r.kind = armed.right
  BY <1>1 DEF CosimInv
<1> QED BY <1>1, <1>2, <1>4, <1>6, <1>7, <1>8 DEF CosimInv, RefreshOK

\* A query of a parked run leaves the cache sound, and everything else.
LEMMA QueryStoredKeeps ==
  ASSUME NEW s, SideOK(s), NEW q, q.page \in RamPages, q.hash = PageNow(s, q.page),
         NEW t, t = QueryStored(s, q)
  PROVE  RamIs(s, t, s.ram)
<1>1. /\ DOMAIN t = SideFields /\ t.cpu = s.cpu /\ t.ram = s.ram /\ t.ring = s.ring
      /\ t.kind = s.kind /\ t.pending = s.pending
      /\ t.page_hash = [s.page_hash EXCEPT ![q.page] = q.hash] /\ t.page_dirty = s.page_dirty \ {q.page}
  BY DEF SideOK, SideFields, QueryStored
<1>2. \A p \in RamPages : PageNow(t, p) = PageNow(s, p)
  BY <1>1 DEF PageNow
<1>3. \A p \in RamPages : p \in t.page_dirty \/ t.page_hash[p] = PageNow(t, p)
  BY <1>1, <1>2 DEF SideOK
<1>4. CpuOK(t)
  BY <1>1 DEF SideOK, CpuOK
<1>5. SideOK(t)
  BY <1>1, <1>3, <1>4 DEF SideOK
<1> QED BY <1>1, <1>5 DEF RamIs

\* A step of a server thread, after the runs have parked.
LEMMA QueryKeeps ==
  ASSUME CosimInv, trace_seq = StopSeq, trace_seq' = trace_seq, armed' = armed,
         DOMAIN pair' = Sides, DOMAIN refresh' = Sides,
         RamIs(pair["left"], pair'["left"], pair["left"].ram),
         RamIs(pair["right"], pair'["right"], pair["right"].ram),
         RefreshOK(refresh'["left"], pair["left"]), RefreshOK(refresh'["right"], pair["right"])
  PROVE  CosimInv'
<1>1. /\ SideOK(pair'["left"]) /\ SideOK(pair'["right"])
      /\ pair'["left"].kind = pair["left"].kind /\ pair'["right"].kind = pair["right"].kind
      /\ pair'["left"].pending = pair["left"].pending /\ pair'["right"].pending = pair["right"].pending
      /\ pair'["left"].ring = pair["left"].ring /\ pair'["right"].ring = pair["right"].ring
      /\ pair'["left"].ram = pair["left"].ram /\ pair'["right"].ram = pair["right"].ram
  BY DEF RamIs
<1>2. \A p : PageNow(pair'["left"], p) = PageNow(pair["left"], p)
  BY <1>1 DEF PageNow
<1>3. \A p : PageNow(pair'["right"], p) = PageNow(pair["right"], p)
  BY <1>1 DEF PageNow
<1>4. RefreshOK(refresh["left"], pair["left"])' /\ RefreshOK(refresh["right"], pair["right"])'
  BY <1>2, <1>3 DEF RefreshOK
<1>5. OldestRecord' = OldestRecord
  BY DEF OldestRecord
<1>6. \A k \in Nat : OldestRecord' <= k /\ k < trace_seq' =>
        RecordOK(armed', k, pair'["left"].ring[k % TraceRecords], pair'["right"].ring[k % TraceRecords])
  BY <1>1, <1>5 DEF CosimInv
<1>7. ~(trace_seq' < StopSeq)
  BY CosimAssumption
<1> QED BY <1>1, <1>4, <1>6, <1>7 DEF CosimInv

LEMMA CosimNextKeeps == QueriesWait /\ CosimInv /\ [CosimNext]_cosim_vars => CosimInv'
<1> SUFFICES ASSUME QueriesWait, CosimInv, [CosimNext]_cosim_vars PROVE CosimInv'
  OBVIOUS
<1>0. /\ RamIs(pair["left"], pair["left"], pair["left"].ram)
      /\ RamIs(pair["right"], pair["right"], pair["right"].ram)
      /\ DOMAIN pair = Sides /\ DOMAIN refresh = Sides /\ Sides = {"left", "right"}
      /\ RefreshOK(refresh["left"], pair["left"]) /\ RefreshOK(refresh["right"], pair["right"])
      /\ SideOK(pair["left"]) /\ SideOK(pair["right"])
  BY DEF CosimInv, RamIs, Sides
<1>1. ASSUME NEW x \in Sides, NEW p \in RamPages, QueryHashes(x, p) PROVE CosimInv'
  <2>1. /\ pair' = pair /\ trace_seq' = trace_seq /\ armed' = armed /\ trace_seq = StopSeq
        /\ refresh' = [refresh EXCEPT ![x] = [page |-> p, hash |-> PageNow(pair[x], p)]]
    BY <1>1 DEF QueryHashes, Answers
  <2>2. /\ DOMAIN refresh' = Sides
        /\ \A y \in Sides : refresh'[y] = IF y = x THEN [page |-> p, hash |-> PageNow(pair[x], p)]
                                         ELSE refresh[y]
    BY <1>0, <2>1
  <2>3. RefreshOK([page |-> p, hash |-> PageNow(pair[x], p)], pair[x])
    BY <2>1 DEF RefreshOK
  <2>4. RefreshOK(refresh'["left"], pair["left"]) /\ RefreshOK(refresh'["right"], pair["right"])
    BY <1>0, <2>2, <2>3
  <2> QED BY <1>0, <2>1, <2>2, <2>4, QueryKeeps
<1>2. ASSUME NEW x \in Sides, QueryStores(x) PROVE CosimInv'
  <2>1. /\ pair' = [pair EXCEPT ![x] = QueryStored(pair[x], refresh[x])]
        /\ trace_seq' = trace_seq /\ armed' = armed
        /\ refresh[x] # NoQuery /\ refresh' = [refresh EXCEPT ![x] = NoQuery]
    BY <1>2 DEF QueryStores
  <2>2. /\ SideOK(pair[x]) /\ trace_seq = StopSeq /\ refresh[x].page \in RamPages
        /\ refresh[x].hash = PageNow(pair[x], refresh[x].page)
    BY <1>0, <2>1 DEF RefreshOK
  <2>3. RamIs(pair[x], QueryStored(pair[x], refresh[x]), pair[x].ram)
    BY <2>2, QueryStoredKeeps
  <2>4. /\ DOMAIN pair' = Sides /\ DOMAIN refresh' = Sides
        /\ \A y \in Sides : pair'[y] = IF y = x THEN QueryStored(pair[x], refresh[x]) ELSE pair[y]
        /\ \A y \in Sides : refresh'[y] = IF y = x THEN NoQuery ELSE refresh[y]
    BY <1>0, <2>1
  <2>5. /\ RamIs(pair["left"], pair'["left"], pair["left"].ram)
        /\ RamIs(pair["right"], pair'["right"], pair["right"].ram)
    BY <1>0, <2>3, <2>4
  <2>6. RefreshOK(NoQuery, pair[x])
    BY DEF RefreshOK
  <2>7. RefreshOK(refresh'["left"], pair["left"]) /\ RefreshOK(refresh'["right"], pair["right"])
    BY <1>0, <2>4, <2>6
  <2> QED BY <2>1, <2>2, <2>4, <2>5, <2>7, QueryKeeps
<1>3. CASE UNCHANGED cosim_vars
  BY <1>3 DEF cosim_vars, CosimInv, RefreshOK, OldestRecord
<1> QED BY <1>1, <1>2, <1>3, CosimStepKeeps DEF CosimNext

LEMMA InvLocalizes == CosimInv => DivergenceLocalized
<1> SUFFICES ASSUME CosimInv, trace_seq = StopSeq PROVE DivergenceLocalized
  BY DEF DivergenceLocalized
<1>1. ASSUME NEW k \in OldestRecord .. StopSeq - 1
      PROVE  LET a == trace_range(pair["left"].ring, k, 1)[1]
                 b == trace_range(pair["right"].ring, k, 1)[1]
                 differ == {f \in StateFields : a[f] # b[f]}
             IN  /\ a.seq = k
                 /\ armed.left = armed.right \/ ~(a.seam \/ b.seam) =>
                       /\ k < armed.seq => differ = {}
                       /\ k = armed.seq => differ = Signals(armed.target, a)
                 /\ armed.left # armed.right /\ (a.seam \/ b.seam) /\ 0 < k /\ k < armed.seq =>
                       OneFrameApart(a, b) /\ differ \subseteq FrameSignals(a, b)
  <2>1. trace_seq \in Nat /\ OldestRecord \in Nat /\ k \in Nat /\ OldestRecord <= k /\ k < trace_seq
    BY CosimAssumption DEF CosimInv, OldestRecord
  <2>2. PICK a : a = pair["left"].ring[k % TraceRecords]
    OBVIOUS
  <2>3. PICK b : b = pair["right"].ring[k % TraceRecords]
    OBVIOUS
  <2>4. RecordOK(armed, k, a, b)
    BY <2>1, <2>2, <2>3 DEF CosimInv
  <2>5. ASSUME NEW ring PROVE trace_range(ring, k, 1)[1] = ring[k % TraceRecords]
    <3>1. ~(k < OldestRecord) /\ Least(1, trace_seq - k) = 1 /\ k + 1 - 1 = k /\ 1 \in 1 .. 1
      BY <2>1 DEF Least
    <3> QED BY <3>1 DEF trace_range
  <2>6. Signals(armed.target, a) \subseteq StateFields
    BY ArmedIs DEF IsTarget, Signals, BankSignals, CosimRegisters, StateFields
  <2> DEFINE differ == {f \in StateFields : a[f] # b[f]}
  <2>7. \A F \in SUBSET StateFields : Differs(a, b, F) => differ = F
    BY DEF Differs
  <2>8. Seam(a, b) => OneFrameApart(a, b) /\ differ \subseteq FrameSignals(a, b)
    BY DEF Seam, Within
  <2>9. {} \in SUBSET StateFields /\ Signals(armed.target, a) \in SUBSET StateFields
    BY <2>6
  <2>10. /\ Differs(a, b, {}) => differ = {}
         /\ Differs(a, b, Signals(armed.target, a)) => differ = Signals(armed.target, a)
    BY <2>7, <2>9
  <2> HIDE DEF differ
  <2>11. /\ a.seq = k
         /\ armed.left = armed.right \/ ~(a.seam \/ b.seam) =>
               /\ k < armed.seq => differ = {}
               /\ k = armed.seq => differ = Signals(armed.target, a)
         /\ armed.left # armed.right /\ (a.seam \/ b.seam) /\ 0 < k /\ k < armed.seq =>
               OneFrameApart(a, b) /\ differ \subseteq FrameSignals(a, b)
    BY <2>4, <2>8, <2>10 DEF RecordOK
  <2> QED BY <2>2, <2>3, <2>5, <2>11 DEF differ
<1>2. ASSUME NEW x \in Sides, NEW p \in RamPages
      PROVE  Refreshed(pair[x]).page_hash[p] = PageNow(pair[x], p)
  <2>1. SideOK(pair[x])
    BY DEF CosimInv, Sides
  <2> QED BY <2>1 DEF SideOK, SideFields, Refreshed
<1> QED BY <1>1, <1>2 DEF DivergenceLocalized

(* docs/COSIM-SPEC.md section 7, cosim_state.c:117, cosim_state.cpp:134,   *)
(* cdi_oracle.cpp:727: with queries that wait for the runs to park, the    *)
(* records of two parked runs agree before the injected instruction and    *)
(* differ at it in the injected signal alone: of one kind everywhere, of   *)
(* two kinds outside the seams, where the oracle's record is one exception *)
(* frame behind and differs in the stack, the status and the frame's bank  *)
(* at most.  The oracle's first record, before its reset, is left out.     *)
(* The incremental hashes are those of a full recomputation.  For pages,   *)
(* banks and rings of any size, every sequence of instructions and every   *)
(* injection, if both kinds of machine give an instruction its effect.     *)
THEOREM DivergenceFound == QueriesWait => (CosimSpec => []DivergenceLocalized)
<1> SUFFICES ASSUME QueriesWait PROVE CosimSpec => []DivergenceLocalized
  OBVIOUS
<1>1. CosimInv /\ [CosimNext]_cosim_vars => CosimInv'
  BY CosimNextKeeps
<1> QED BY <1>1, CosimStart, InvLocalizes, PTL DEF CosimSpec

(***************************************************************************)
(* Stops of the debug server: none the client was answered for is run      *)
(* over, except behind the first operation of a span that did not know it. *)
(***************************************************************************)
IsStop(stop) ==
  /\ DOMAIN stop = {"pc", "skip", "delay"}
  /\ stop.pc \in 0 .. LoopLength /\ stop.skip \in Nat /\ stop.delay \in Nat

DebugTypes ==
  /\ DOMAIN dbg = {"stoppc", "stoppc_armed", "epoch_moved", "pause_requested", "pause_at_frame",
                   "answered", "known", "due", "passed"}
  /\ DOMAIN dbg.stoppc = StopSlot
  /\ \A i \in StopSlot : IsStop(dbg.stoppc[i])
  /\ dbg.stoppc_armed \in Int /\ dbg.epoch_moved \in BOOLEAN
  /\ dbg.answered \subseteq StopSlot /\ dbg.known \subseteq dbg.answered
  /\ DOMAIN client = {"at", "slot", "asked", "stop"}
  /\ client.slot \in Nat
  /\ IsStop(client.stop)
  /\ DOMAIN emu = {"at", "pc", "slot", "job", "count", "frame", "stopping", "left", "held", "hit"}
  /\ emu.pc \in 0 .. LoopLength - 1
  /\ emu.stopping \in BOOLEAN /\ emu.hit \in BOOLEAN
  /\ emu.job \in {"none", "job", "span"} /\ emu.count \in Nat

\* The client fills an empty slot, and publishes a PC of the loop in it.
ClientInv ==
  /\ client.at = "look" => client.slot # 0
  /\ client.at \in {"fill", "publish", "count", "tell"} =>
        client.slot \in StopSlot
  /\ client.at \in {"look", "fill", "publish", "count", "tell"} => client.stop.pc # NoPc
  /\ client.at \in {"fill", "publish"} => dbg.stoppc[client.slot].pc = NoPc
  /\ client.at = "clear" => dbg.answered = {} /\ client.slot # 0
  /\ \A i \in dbg.answered : dbg.stoppc[i].pc # NoPc

\* Until a stop is taken, the count shows that there is one.
CountInv ==
  ~emu.stopping /\ emu.at # "delay" =>
    /\ dbg.stoppc_armed >= 0
    /\ client.at = "tell" \/ dbg.answered # {} => dbg.stoppc_armed # 0

\* The stops due are those of the instruction in hand, and the scan is not past them.
DueInv ==
  /\ emu.at \in {"scan", "skip", "uncount", "delay"} => emu.slot \in StopSlot
  /\ emu.at \in {"scan", "skip", "uncount", "delay", "pause", "execute", "ask"} =>
        \A i \in dbg.due : i \in dbg.answered /\ dbg.stoppc[i].pc = emu.pc /\ dbg.stoppc[i].skip = 0
  /\ emu.at \in {"scan", "skip"} => emu.hit = FALSE /\ \A i \in dbg.due : i >= emu.slot
  /\ emu.at \in {"pause", "execute"} /\ ~emu.stopping => dbg.due = {}

\* A job that was not told anything new has no stop in its range.
JobInv ==
  /\ emu.at \in {"enter", "allow"} => emu.job = "none"
  /\ emu.at \in {"observe", "ask"} => emu.job = "job" /\ emu.pc \in Job
  /\ emu.job = "job" /\ emu.at # "ask" /\ ~dbg.epoch_moved /\ ~emu.stopping =>
        \A i \in dbg.answered : dbg.stoppc[i].pc \notin Job

\* A span has none there that it was asked about, and ends before its loop control falls
\* through.
SpanInv ==
  /\ emu.at = "span" => emu.job = "span"
  /\ emu.job = "span" =>
        /\ emu.pc \in SpanFrom .. SpanTo /\ (emu.pc >= SpanAsked => emu.count # 0)
        /\ ~emu.stopping => \A i \in dbg.known : dbg.stoppc[i].pc \notin SpanFrom .. SpanAsked - 1

StopInv ==
  /\ DebugTypes /\ ClientInv /\ CountInv /\ DueInv /\ JobInv /\ SpanInv
  /\ "running" \notin dbg.passed

LEMMA StopInit == DebugInit => StopInv
<1> SUFFICES ASSUME DebugInit PROVE StopInv
  OBVIOUS
<1> USE DebugStopAssumption
<1> QED
  BY DEF DebugInit, IsStop, StopSlot, NoPc, Job, StopInv, DebugTypes, ClientInv,
         CountInv, DueInv, JobInv, SpanInv

LEMMA StopInvKept ==
  ASSUME StopInv, [DebugNext]_debug_vars
  PROVE  StopInv'
<1> USE DebugStopAssumption DEF StopInv, StopSlot, NoPc, Job
<1>1. ASSUME NEW until \in 0 .. MaxStopFrame, AskFrame(until) PROVE StopInv'
  <2>1. DebugTypes' /\ "running" \notin dbg'.passed
    <3>1. /\ dbg' = dbg /\ emu' = emu /\ DOMAIN client' = DOMAIN client
          /\ client'.stop = client.stop /\ client'.slot = until
      BY <1>1 DEF DebugTypes, AskFrame, Received
    <3> QED BY <3>1 DEF DebugTypes
  <2>2. ClientInv'
    BY <1>1 DEF DebugTypes, ClientInv, AskFrame, Receives, Received
  <2>3. CountInv'
    BY <1>1 DEF DebugTypes, ClientInv, CountInv, AskFrame, Receives, Received
  <2>4. DueInv'
    BY <1>1 DEF DebugTypes, ClientInv, DueInv, JobInv, AskFrame, Receives, Received
  <2>5. JobInv'
    BY <1>1 DEF DebugTypes, JobInv, AskFrame, Receives, Received
  <2>6. SpanInv'
    BY <1>1 DEF DebugTypes, SpanInv, AskFrame, Receives, Received
  <2> QED BY <2>1, <2>2, <2>3, <2>4, <2>5, <2>6
<1>2. CASE CountSlot
  <2>1. DebugTypes' /\ "running" \notin dbg'.passed
    <3>1. /\ emu' = emu /\ DOMAIN client' = DOMAIN client
          /\ client'.stop = client.stop /\ client'.slot = client.slot
      BY <1>2 DEF DebugTypes, CountSlot, Posted
    <3>2. /\ DOMAIN dbg' = DOMAIN dbg /\ dbg'.stoppc = dbg.stoppc /\ dbg'.stoppc_armed \in Int
          /\ dbg'.epoch_moved \in BOOLEAN /\ dbg'.known = dbg.known /\ dbg'.passed = dbg.passed
          /\ dbg'.answered = dbg.answered
      BY <1>2 DEF DebugTypes, CountSlot, Posted
    <3> QED BY <3>1, <3>2 DEF DebugTypes
  <2>2. ClientInv'
    BY <1>2 DEF DebugTypes, ClientInv, CountSlot, Posted
  <2>3. CountInv'
    <3>1. emu' = emu /\ dbg'.stoppc_armed = dbg.stoppc_armed + 1 /\ dbg.stoppc_armed \in Int
      BY <1>2 DEF DebugTypes, CountSlot
    <3> QED BY <3>1 DEF CountInv
  <2>4. DueInv'
    BY <1>2 DEF DebugTypes, ClientInv, DueInv, JobInv, CountSlot, Posted
  <2>5. JobInv'
    BY <1>2 DEF DebugTypes, JobInv, CountSlot, Posted
  <2>6. SpanInv'
    BY <1>2 DEF DebugTypes, SpanInv, CountSlot, Posted
  <2> QED BY <2>1, <2>2, <2>3, <2>4, <2>5, <2>6
<1>3. CASE TellJobs
  <2>1. DebugTypes' /\ "running" \notin dbg'.passed
    <3>1. /\ emu' = emu /\ DOMAIN client' = DOMAIN client
          /\ client'.stop = client.stop /\ client'.slot = client.slot
      BY <1>3 DEF DebugTypes, TellJobs, Posted, Told
    <3>2. /\ DOMAIN dbg' = DOMAIN dbg /\ dbg'.stoppc = dbg.stoppc /\ dbg'.stoppc_armed \in Int
          /\ dbg'.epoch_moved \in BOOLEAN /\ dbg'.known = dbg.known /\ dbg'.passed = dbg.passed
          /\ dbg'.answered \in {dbg.answered, dbg.answered \cup {client.slot}} /\ client.slot \in StopSlot
      BY <1>3 DEF DebugTypes, TellJobs, Posted, Told, ClientInv
    <3> QED BY <3>1, <3>2 DEF DebugTypes
  <2>2. ClientInv'
    BY <1>3 DEF DebugTypes, ClientInv, TellJobs, Posted, Told
  <2>3. CountInv'
    BY <1>3 DEF DebugTypes, ClientInv, CountInv, TellJobs, Posted, Told
  <2>4. DueInv'
    BY <1>3 DEF DebugTypes, ClientInv, DueInv, JobInv, TellJobs, Posted, Told
  <2>5. JobInv'
    BY <1>3 DEF DebugTypes, JobInv, TellJobs, Posted, Told
  <2>6. SpanInv'
    BY <1>3 DEF DebugTypes, SpanInv, TellJobs, Posted, Told
  <2> QED BY <2>1, <2>2, <2>3, <2>4, <2>5, <2>6
<1>4. CASE ClearBegin
  <2>1. DebugTypes' /\ "running" \notin dbg'.passed
    BY <1>4 DEF DebugTypes, ClearBegin, Receives, Received
  <2>2. ClientInv'
    BY <1>4 DEF DebugTypes, ClientInv, ClearBegin, Receives, Received
  <2>3. CountInv'
    BY <1>4 DEF DebugTypes, ClientInv, CountInv, ClearBegin, Receives, Received
  <2>4. DueInv'
    BY <1>4 DEF DebugTypes, ClientInv, DueInv, JobInv, ClearBegin, Receives, Received
  <2>5. JobInv'
    BY <1>4 DEF DebugTypes, JobInv, ClearBegin, Receives, Received
  <2>6. SpanInv'
    BY <1>4 DEF DebugTypes, SpanInv, ClearBegin, Receives, Received
  <2> QED BY <2>1, <2>2, <2>3, <2>4, <2>5, <2>6
<1>5. CASE ClearCount
  <2>1. DebugTypes' /\ "running" \notin dbg'.passed
    <3>1. /\ emu' = emu /\ DOMAIN client' = DOMAIN client
          /\ client'.stop = client.stop /\ client'.slot = client.slot
      BY <1>5 DEF DebugTypes, ClearCount, Posted
    <3>2. /\ DOMAIN dbg' = DOMAIN dbg /\ dbg'.stoppc = dbg.stoppc /\ dbg'.stoppc_armed \in Int
          /\ dbg'.epoch_moved \in BOOLEAN /\ dbg'.known = dbg.known /\ dbg'.passed = dbg.passed
          /\ dbg'.answered = dbg.answered
      BY <1>5 DEF DebugTypes, ClearCount, Posted
    <3> QED BY <3>1, <3>2 DEF DebugTypes
  <2>2. ClientInv'
    BY <1>5 DEF DebugTypes, ClientInv, ClearCount, Posted
  <2>3. CountInv'
    BY <1>5 DEF DebugTypes, ClientInv, CountInv, ClearCount, Posted
  <2>4. DueInv'
    BY <1>5 DEF DebugTypes, ClientInv, DueInv, JobInv, ClearCount, Posted
  <2>5. JobInv'
    BY <1>5 DEF DebugTypes, JobInv, ClearCount, Posted
  <2>6. SpanInv'
    BY <1>5 DEF DebugTypes, SpanInv, ClearCount, Posted
  <2> QED BY <2>1, <2>2, <2>3, <2>4, <2>5, <2>6
<1>6. CASE resp_pause
  <2>1. DebugTypes' /\ "running" \notin dbg'.passed
    BY <1>6 DEF DebugTypes, resp_pause, Receives, Received
  <2>2. ClientInv'
    BY <1>6 DEF DebugTypes, ClientInv, resp_pause, Receives, Received
  <2>3. CountInv'
    BY <1>6 DEF DebugTypes, ClientInv, CountInv, resp_pause, Receives, Received
  <2>4. DueInv'
    BY <1>6 DEF DebugTypes, ClientInv, DueInv, JobInv, resp_pause, Receives, Received
  <2>5. JobInv'
    BY <1>6 DEF DebugTypes, JobInv, resp_pause, Receives, Received
  <2>6. SpanInv'
    BY <1>6 DEF DebugTypes, SpanInv, resp_pause, Receives, Received
  <2> QED BY <2>1, <2>2, <2>3, <2>4, <2>5, <2>6
<1>7. CASE StoreFrame
  <2>1. DebugTypes' /\ "running" \notin dbg'.passed
    BY <1>7 DEF DebugTypes, StoreFrame, Posted
  <2>2. ClientInv'
    BY <1>7 DEF DebugTypes, ClientInv, StoreFrame, Posted
  <2>3. CountInv'
    BY <1>7 DEF DebugTypes, ClientInv, CountInv, StoreFrame, Posted
  <2>4. DueInv'
    BY <1>7 DEF DebugTypes, ClientInv, DueInv, JobInv, StoreFrame, Posted
  <2>5. JobInv'
    BY <1>7 DEF DebugTypes, JobInv, StoreFrame, Posted
  <2>6. SpanInv'
    BY <1>7 DEF DebugTypes, SpanInv, StoreFrame, Posted
  <2> QED BY <2>1, <2>2, <2>3, <2>4, <2>5, <2>6
<1>8. CASE TraceGate
  <2>1. DebugTypes' /\ "running" \notin dbg'.passed
    BY <1>8 DEF DebugTypes, TraceGate, At, Due
  <2>2. ClientInv'
    BY <1>8 DEF DebugTypes, ClientInv, TraceGate, At, Due
  <2>3. CountInv'
    BY <1>8 DEF DebugTypes, ClientInv, CountInv, TraceGate, At, Due
  <2>4. DueInv'
    <3>1. /\ dbg'.stoppc = dbg.stoppc /\ dbg'.answered = dbg.answered /\ dbg'.due = Due
          /\ emu'.pc = emu.pc /\ emu'.hit = FALSE /\ emu'.stopping = emu.stopping
      BY <1>8 DEF DebugTypes, TraceGate, At
    <3>2. \A i \in Due : i \in dbg.answered /\ dbg.stoppc[i].pc = emu.pc /\ dbg.stoppc[i].skip = 0
      BY DEF Due
    <3>3. /\ emu'.slot = 1 /\ emu'.at = IF dbg.stoppc_armed # 0 THEN "scan" ELSE "pause"
          /\ emu.at = "gate"
      BY <1>8 DEF DebugTypes, TraceGate, At
    <3>4. emu.stopping \/ dbg.stoppc_armed # 0 \/ Due = {}
      BY <3>2, <3>3 DEF CountInv
    <3>5. \A i \in Due : i >= 1
      BY <3>2 DEF DebugTypes
    <3> QED BY <3>1, <3>2, <3>3, <3>4, <3>5 DEF DueInv
  <2>5. JobInv'
    BY <1>8 DEF DebugTypes, JobInv, TraceGate, At, Due
  <2>6. SpanInv'
    BY <1>8 DEF DebugTypes, SpanInv, TraceGate, At, Due
  <2> QED BY <2>1, <2>2, <2>3, <2>4, <2>5, <2>6
<1>9. CASE TracePause
  <2>1. DebugTypes' /\ "running" \notin dbg'.passed
    BY <1>9 DEF DebugTypes, TracePause, At
  <2>2. ClientInv'
    BY <1>9 DEF DebugTypes, ClientInv, TracePause, At
  <2>3. CountInv'
    BY <1>9 DEF DebugTypes, ClientInv, CountInv, TracePause, At
  <2>4. DueInv'
    BY <1>9 DEF DebugTypes, ClientInv, DueInv, JobInv, TracePause, At
  <2>5. JobInv'
    BY <1>9 DEF DebugTypes, JobInv, TracePause, At
  <2>6. SpanInv'
    BY <1>9 DEF DebugTypes, SpanInv, TracePause, At
  <2> QED BY <2>1, <2>2, <2>3, <2>4, <2>5, <2>6
<1>10. CASE EnterJob
  <2>1. DebugTypes' /\ "running" \notin dbg'.passed
    BY <1>10 DEF DebugTypes, EnterJob, At
  <2>2. ClientInv'
    BY <1>10 DEF DebugTypes, ClientInv, EnterJob, At
  <2>3. CountInv'
    BY <1>10 DEF DebugTypes, ClientInv, CountInv, EnterJob, At
  <2>4. DueInv'
    BY <1>10 DEF DebugTypes, ClientInv, DueInv, JobInv, EnterJob, At
  <2>5. JobInv'
    BY <1>10 DEF DebugTypes, JobInv, EnterJob, At
  <2>6. SpanInv'
    BY <1>10 DEF DebugTypes, SpanInv, EnterJob, At
  <2> QED BY <2>1, <2>2, <2>3, <2>4, <2>5, <2>6
<1>11. CASE AllowJob
  <2>0. dbg.answered \subseteq StopSlot /\ dbg.stoppc_armed \in Int
    BY DEF DebugTypes
  <2>1. PICK kind \in {"none", "job"} :
           /\ emu' = [emu EXCEPT !.at = "gate", !.job = kind]
           /\ kind = "job" => debug_native_job_allowed(JobFrom, JobTo + 1)
    BY <1>11 DEF AllowJob
  <2>2. emu.at = "allow" /\ dbg' = dbg /\ client' = client
    BY <1>11 DEF AllowJob, At
  <2>3. /\ DOMAIN emu' = DOMAIN emu /\ emu'.pc = emu.pc /\ emu'.job = kind /\ emu'.count = emu.count
        /\ emu'.at = "gate" /\ emu'.stopping = emu.stopping /\ emu'.hit = emu.hit
    BY <2>1 DEF DebugTypes
  <2>4. kind = "job" /\ ~emu.stopping => \A i \in dbg.answered : dbg.stoppc[i].pc \notin Job
    BY <2>0, <2>1, <2>2 DEF CountInv, debug_native_job_allowed
  <2>5. DebugTypes'
    BY <2>2, <2>3 DEF DebugTypes
  <2>6. ClientInv' /\ CountInv'
    BY <2>2, <2>3 DEF ClientInv, CountInv
  <2>7. DueInv' /\ SpanInv'
    BY <2>2, <2>3 DEF DueInv, SpanInv
  <2>8. JobInv'
    BY <2>2, <2>3, <2>4 DEF JobInv
  <2> QED BY <2>2, <2>5, <2>6, <2>7, <2>8
<1>12. CASE Frontier
  <2>1. DebugTypes' /\ "running" \notin dbg'.passed
    BY <1>12 DEF DebugTypes, Frontier, At, Due
  <2>2. ClientInv'
    BY <1>12 DEF DebugTypes, ClientInv, Frontier, At, Due
  <2>3. CountInv'
    BY <1>12 DEF DebugTypes, ClientInv, CountInv, Frontier, At, Due
  <2>4. DueInv'
    <3>1. /\ dbg'.stoppc = dbg.stoppc /\ dbg'.answered = dbg.answered /\ dbg'.due = Due
          /\ emu'.pc = emu.pc /\ emu'.hit = FALSE /\ emu'.stopping = emu.stopping
      BY <1>12 DEF DebugTypes, Frontier, At
    <3>2. \A i \in Due : i \in dbg.answered /\ dbg.stoppc[i].pc = emu.pc /\ dbg.stoppc[i].skip = 0
      BY DEF Due
    <3>3. emu.at = "observe" /\ emu'.at = IF dbg.epoch_moved THEN "ask" ELSE "execute"
      BY <1>12 DEF DebugTypes, Frontier, At
    <3>4. emu.stopping \/ dbg.epoch_moved \/ Due = {}
      BY <3>2, <3>3 DEF JobInv
    <3> QED BY <3>1, <3>2, <3>3, <3>4 DEF DueInv
  <2>5. JobInv'
    BY <1>12 DEF DebugTypes, JobInv, Frontier, At, Due
  <2>6. SpanInv'
    BY <1>12 DEF DebugTypes, SpanInv, Frontier, At, Due
  <2> QED BY <2>1, <2>2, <2>3, <2>4, <2>5, <2>6
<1>13. CASE AskAgain
  <2>0. dbg.answered \subseteq StopSlot /\ dbg.stoppc_armed \in Int
    BY DEF DebugTypes
  <2>1. /\ emu.at = "ask" /\ dbg' = dbg /\ client' = client /\ DOMAIN emu' = DOMAIN emu
        /\ emu'.pc = emu.pc /\ emu'.count = emu.count /\ emu'.slot = emu.slot
        /\ emu'.stopping = emu.stopping /\ emu'.hit = emu.hit
        /\ \/ /\ debug_native_job_allowed(JobFrom, JobTo + 1)
              /\ emu'.at = "execute" /\ emu'.job = emu.job
           \/ emu'.at = "gate" /\ emu'.job = "none"
    <3>1. CASE debug_native_job_allowed(JobFrom, JobTo + 1)
      BY <1>13, <3>1 DEF AskAgain, At, DebugTypes
    <3>2. CASE ~debug_native_job_allowed(JobFrom, JobTo + 1)
      BY <1>13, <3>2 DEF AskAgain, At, DebugTypes
    <3> QED BY <3>1, <3>2
  <2>2. emu'.at = "execute" /\ ~emu.stopping =>
           \A i \in dbg.answered : dbg.stoppc[i].pc \notin Job
    BY <2>0, <2>1 DEF CountInv, debug_native_job_allowed
  <2>3. DebugTypes'
    BY <2>1 DEF DebugTypes
  <2>4. ClientInv' /\ CountInv'
    BY <2>1 DEF ClientInv, CountInv
  <2>5. DueInv'
    BY <2>1, <2>2 DEF DueInv, JobInv
  <2>6. JobInv'
    BY <2>1, <2>2 DEF JobInv
  <2>7. SpanInv'
    BY <2>1 DEF JobInv, SpanInv
  <2> QED BY <2>1, <2>3, <2>4, <2>5, <2>6, <2>7
<1>14. ASSUME NEW stop \in StopRequests, AskStop(stop) PROVE StopInv'
  <2>0. /\ dbg.answered \subseteq StopSlot /\ dbg.known \subseteq dbg.answered /\ emu.pc \in Nat
        /\ client.slot \in Nat /\ dbg.stoppc_armed \in Int
    BY DEF DebugTypes
  <2>1. /\ dbg' = dbg /\ emu' = emu /\ stop.pc \in 0 .. LoopLength - 1
        /\ DOMAIN client' = DOMAIN client
        /\ client'.at = "look" /\ client'.slot = 1 /\ IsStop(client'.stop) /\ client'.stop = stop
    <3>1. stop \in [pc : 0 .. LoopLength - 1, skip : Nat, delay : Nat]
      BY <1>14
    <3>2. IsStop(stop) /\ stop.pc \in 0 .. LoopLength - 1
      BY <3>1 DEF IsStop
    <3>3. /\ dbg' = dbg /\ emu' = emu /\ DOMAIN client' = DOMAIN client
          /\ client'.at = "look" /\ client'.slot = 1 /\ client'.stop = stop
      BY <1>14 DEF DebugTypes, AskStop, Received
    <3> QED BY <3>2, <3>3
  <2>2. DebugTypes'
    BY <2>1 DEF DebugTypes
  <2>3. ClientInv'
    BY <2>0, <2>1 DEF ClientInv, DueInv
  <2>4. CountInv'
    BY <2>0, <2>1 DEF ClientInv, CountInv
  <2>5. DueInv'
    BY <2>0, <2>1 DEF ClientInv, DueInv
  <2>6. JobInv'
    BY <2>0, <2>1 DEF ClientInv, DueInv, JobInv
  <2>7. SpanInv'
    BY <2>0, <2>1 DEF ClientInv, DueInv, SpanInv
  <2> QED BY <2>1, <2>2, <2>3, <2>4, <2>5, <2>6, <2>7
<1>15. CASE LookAtSlot
  <2>0. /\ dbg.answered \subseteq StopSlot /\ dbg.known \subseteq dbg.answered /\ emu.pc \in Nat
        /\ client.slot \in Nat /\ dbg.stoppc_armed \in Int
    BY DEF DebugTypes
  <2>1. /\ dbg' = dbg /\ emu' = emu /\ client.at = "look"
        /\ DOMAIN client' = DOMAIN client /\ client'.stop = client.stop
        /\ \/ client'.at = "idle" /\ client'.slot = client.slot
           \/ client'.at = "fill" /\ client'.slot = client.slot /\ client.slot \in StopSlot
              /\ dbg.stoppc[client.slot].pc = NoPc
           \/ client'.at = "look" /\ client'.slot = client.slot + 1
    BY <1>15 DEF IsStop, DebugTypes, ClientInv, DueInv, LookAtSlot
  <2>2. DebugTypes'
    BY <2>1 DEF DebugTypes
  <2>3. ClientInv'
    BY <2>0, <2>1 DEF ClientInv, DueInv
  <2>4. CountInv'
    BY <2>0, <2>1 DEF ClientInv, CountInv
  <2>5. DueInv'
    BY <2>0, <2>1 DEF ClientInv, DueInv
  <2>6. JobInv'
    BY <2>0, <2>1 DEF ClientInv, DueInv, JobInv
  <2>7. SpanInv'
    BY <2>0, <2>1 DEF ClientInv, DueInv, SpanInv
  <2> QED BY <2>1, <2>2, <2>3, <2>4, <2>5, <2>6, <2>7
<1>16. CASE UncountSlot
  <2>0. /\ dbg.answered \subseteq StopSlot /\ dbg.known \subseteq dbg.answered /\ emu.pc \in Nat
        /\ client.slot \in Nat /\ dbg.stoppc_armed \in Int
    BY DEF DebugTypes
  <2>1. /\ client' = client /\ DOMAIN dbg' = DOMAIN dbg /\ dbg'.stoppc_armed = dbg.stoppc_armed - 1
        /\ dbg'.stoppc = dbg.stoppc /\ dbg'.epoch_moved = dbg.epoch_moved
        /\ dbg'.passed = dbg.passed
        /\ dbg'.answered = dbg.answered /\ dbg'.known = dbg.known /\ dbg'.due = dbg.due
        /\ emu.at = "uncount"
        /\ DOMAIN emu' = DOMAIN emu
        /\ emu'.pc = emu.pc /\ emu'.job = emu.job /\ emu'.count = emu.count
        /\ emu'.stopping = emu.stopping /\ emu'.hit = emu.hit /\ emu'.slot = emu.slot
        /\ emu'.at = "delay"
    BY <1>16 DEF IsStop, DebugTypes, ClientInv, DueInv, UncountSlot, At
  <2>2. DebugTypes'
    BY <2>1 DEF DebugTypes
  <2>3. ClientInv'
    BY <2>0, <2>1 DEF ClientInv, DueInv
  <2>4. CountInv'
    BY <2>0, <2>1 DEF ClientInv, CountInv
  <2>5. DueInv'
    BY <2>0, <2>1 DEF ClientInv, DueInv
  <2>6. JobInv'
    BY <2>0, <2>1 DEF ClientInv, DueInv, JobInv
  <2>7. SpanInv'
    BY <2>0, <2>1 DEF ClientInv, DueInv, SpanInv
  <2> QED BY <2>1, <2>2, <2>3, <2>4, <2>5, <2>6, <2>7
<1>17. CASE FillSlot
  <2>0. /\ dbg.answered \subseteq StopSlot /\ dbg.known \subseteq dbg.answered /\ emu.pc \in Nat
        /\ client.slot \in Nat /\ dbg.stoppc_armed \in Int
    BY DEF DebugTypes
  <2>1. /\ DOMAIN dbg' = DOMAIN dbg
        /\ client.slot \in StopSlot /\ DOMAIN dbg'.stoppc = StopSlot
        /\ \A i \in StopSlot : i # client.slot => dbg'.stoppc[i] = dbg.stoppc[i]
        /\ IsStop(dbg'.stoppc[client.slot])
        /\ dbg'.stoppc[client.slot].pc = dbg.stoppc[client.slot].pc
        /\ dbg'.stoppc[client.slot].skip = client.stop.skip
        /\ dbg'.stoppc_armed = dbg.stoppc_armed /\ dbg'.epoch_moved = dbg.epoch_moved
        /\ dbg'.passed = dbg.passed
        /\ dbg'.answered = dbg.answered /\ dbg'.known = dbg.known /\ dbg'.due = dbg.due
        /\ emu' = emu
        /\ client.at = "fill"
        /\ DOMAIN client' = DOMAIN client
        /\ client'.at = "publish" /\ client'.slot = client.slot /\ client'.stop = client.stop
    BY <1>17 DEF IsStop, DebugTypes, ClientInv, DueInv, FillSlot, Posted
  <2>2. DebugTypes'
    BY <2>1 DEF DebugTypes
  <2>3. ClientInv'
    BY <2>0, <2>1 DEF ClientInv, DueInv
  <2>4. CountInv'
    BY <2>0, <2>1 DEF ClientInv, CountInv
  <2>5. DueInv'
    BY <2>0, <2>1 DEF ClientInv, DueInv
  <2>6. JobInv'
    BY <2>0, <2>1 DEF ClientInv, DueInv, JobInv
  <2>7. SpanInv'
    BY <2>0, <2>1 DEF ClientInv, DueInv, SpanInv
  <2> QED BY <2>1, <2>2, <2>3, <2>4, <2>5, <2>6, <2>7
<1>18. CASE PublishSlot
  <2>0. /\ dbg.answered \subseteq StopSlot /\ dbg.known \subseteq dbg.answered /\ emu.pc \in Nat
        /\ client.slot \in Nat /\ dbg.stoppc_armed \in Int
    BY DEF DebugTypes
  <2>1. /\ DOMAIN dbg' = DOMAIN dbg
        /\ client.slot \in StopSlot /\ DOMAIN dbg'.stoppc = StopSlot
        /\ \A i \in StopSlot : i # client.slot => dbg'.stoppc[i] = dbg.stoppc[i]
        /\ IsStop(dbg'.stoppc[client.slot])
        /\ dbg'.stoppc[client.slot].pc = client.stop.pc
        /\ dbg'.stoppc[client.slot].skip = dbg.stoppc[client.slot].skip
        /\ dbg'.stoppc_armed = dbg.stoppc_armed /\ dbg'.epoch_moved = dbg.epoch_moved
        /\ dbg'.passed = dbg.passed
        /\ dbg'.answered = dbg.answered /\ dbg'.known = dbg.known /\ dbg'.due = dbg.due
        /\ emu' = emu
        /\ client.at = "publish"
        /\ DOMAIN client' = DOMAIN client
        /\ client'.at = "count" /\ client'.slot = client.slot /\ client'.stop = client.stop
    BY <1>18 DEF IsStop, DebugTypes, ClientInv, DueInv, PublishSlot, Posted
  <2>2. DebugTypes'
    BY <2>1 DEF DebugTypes
  <2>3. ClientInv'
    BY <2>0, <2>1 DEF ClientInv, DueInv
  <2>4. CountInv'
    BY <2>0, <2>1 DEF ClientInv, CountInv
  <2>5. DueInv'
    BY <2>0, <2>1 DEF ClientInv, DueInv
  <2>6. JobInv'
    BY <2>0, <2>1 DEF ClientInv, DueInv, JobInv
  <2>7. SpanInv'
    BY <2>0, <2>1 DEF ClientInv, DueInv, SpanInv
  <2> QED BY <2>1, <2>2, <2>3, <2>4, <2>5, <2>6, <2>7
<1>19. CASE ClearSlot
  <2>0. /\ dbg.answered \subseteq StopSlot /\ dbg.known \subseteq dbg.answered /\ emu.pc \in Nat
        /\ client.slot \in Nat /\ dbg.stoppc_armed \in Int
    BY DEF DebugTypes
  <2>1. /\ DOMAIN dbg' = DOMAIN dbg
        /\ client.slot \in StopSlot /\ DOMAIN dbg'.stoppc = StopSlot
        /\ \A i \in StopSlot : i # client.slot => dbg'.stoppc[i] = dbg.stoppc[i]
        /\ IsStop(dbg'.stoppc[client.slot])
        /\ dbg'.stoppc[client.slot].pc = NoPc
        /\ dbg'.stoppc[client.slot].skip = dbg.stoppc[client.slot].skip
        /\ dbg'.stoppc_armed = dbg.stoppc_armed /\ dbg'.epoch_moved = dbg.epoch_moved
        /\ dbg'.passed = dbg.passed
        /\ dbg'.answered = dbg.answered /\ dbg'.known = dbg.known /\ dbg'.due = dbg.due
        /\ emu' = emu
        /\ client.at = "clear"
        /\ DOMAIN client' = DOMAIN client
        /\ client'.at = client.at /\ client'.slot = client.slot + 1 /\ client'.stop = client.stop
    <3>1. /\ client.at = "clear" /\ client.slot \in StopSlot /\ emu' = emu
          /\ dbg' = [dbg EXCEPT !.stoppc[client.slot].pc = NoPc]
          /\ client' = [client EXCEPT !.slot = @ + 1]
      <4>1. client.at = "clear" /\ client.slot <= StopSlots
        BY <1>19 DEF ClearSlot
      <4>2. client.slot # 0
        BY <4>1 DEF ClientInv
      <4>3. client.slot \in StopSlot
        BY <2>0, <4>1, <4>2
      <4> QED BY <1>19, <4>3 DEF ClearSlot
    <3>2. IsStop(dbg.stoppc[client.slot])
      BY <3>1 DEF DebugTypes
    <3>3. PICK stop : stop = [dbg.stoppc[client.slot] EXCEPT !.pc = NoPc]
      OBVIOUS
    <3>4. IsStop(stop) /\ stop.pc = NoPc /\ stop.skip = dbg.stoppc[client.slot].skip
      BY <3>2, <3>3 DEF IsStop
    <3>5. dbg' = [dbg EXCEPT !.stoppc = [dbg.stoppc EXCEPT ![client.slot] = stop]]
      BY <3>1, <3>3
    <3>6. /\ DOMAIN dbg' = DOMAIN dbg /\ dbg'.stoppc = [dbg.stoppc EXCEPT ![client.slot] = stop]
          /\ dbg'.stoppc_armed = dbg.stoppc_armed /\ dbg'.epoch_moved = dbg.epoch_moved
          /\ dbg'.passed = dbg.passed
          /\ dbg'.answered = dbg.answered /\ dbg'.known = dbg.known /\ dbg'.due = dbg.due
      BY <3>5 DEF DebugTypes
    <3>7. /\ DOMAIN dbg'.stoppc = StopSlot /\ dbg'.stoppc[client.slot] = stop
          /\ \A i \in StopSlot : i # client.slot => dbg'.stoppc[i] = dbg.stoppc[i]
      BY <3>1, <3>6 DEF DebugTypes
    <3>8. /\ DOMAIN client' = DOMAIN client /\ client'.at = client.at
          /\ client'.slot = client.slot + 1 /\ client'.stop = client.stop
      BY <3>1 DEF DebugTypes
    <3> QED BY <3>1, <3>4, <3>6, <3>7, <3>8
  <2>2. DebugTypes'
    <3>1. \A i \in StopSlot : IsStop(dbg'.stoppc[i])
      BY <2>1 DEF DebugTypes
    <3> QED BY <2>1, <3>1 DEF DebugTypes
  <2>3. ClientInv'
    BY <2>0, <2>1 DEF ClientInv, DueInv
  <2>4. CountInv'
    BY <2>0, <2>1 DEF ClientInv, CountInv
  <2>5. DueInv'
    BY <2>0, <2>1 DEF ClientInv, DueInv
  <2>6. JobInv'
    BY <2>0, <2>1 DEF ClientInv, DueInv, JobInv
  <2>7. SpanInv'
    BY <2>0, <2>1 DEF ClientInv, DueInv, SpanInv
  <2> QED BY <2>1, <2>2, <2>3, <2>4, <2>5, <2>6, <2>7
<1>20. CASE SkipHit
  <2>0. /\ dbg.answered \subseteq StopSlot /\ dbg.known \subseteq dbg.answered /\ emu.pc \in Nat
        /\ client.slot \in Nat /\ dbg.stoppc_armed \in Int
    BY DEF DebugTypes
  <2>1. /\ DOMAIN dbg' = DOMAIN dbg
        /\ emu.slot \in StopSlot /\ DOMAIN dbg'.stoppc = StopSlot
        /\ \A i \in StopSlot : i # emu.slot => dbg'.stoppc[i] = dbg.stoppc[i]
        /\ IsStop(dbg'.stoppc[emu.slot])
        /\ dbg'.stoppc[emu.slot].pc = dbg.stoppc[emu.slot].pc
        /\ dbg'.stoppc[emu.slot].skip = dbg.stoppc[emu.slot].skip - 1
        /\ dbg'.stoppc_armed = dbg.stoppc_armed /\ dbg'.epoch_moved = dbg.epoch_moved
        /\ dbg'.passed = dbg.passed
        /\ dbg'.answered = dbg.answered /\ dbg'.known = dbg.known /\ dbg'.due = dbg.due
        /\ client' = client
        /\ emu.at = "skip" /\ dbg.stoppc[emu.slot].skip > 0
        /\ DOMAIN emu' = DOMAIN emu
        /\ emu'.pc = emu.pc /\ emu'.job = emu.job /\ emu'.count = emu.count
        /\ emu'.stopping = emu.stopping /\ emu'.hit = emu.hit /\ emu'.slot = emu.slot + 1
        /\ \/ emu.slot = StopSlots /\ emu'.at = "pause"
           \/ emu.slot # StopSlots /\ emu'.at = "scan"
    <3>1. /\ emu.at = "skip" /\ emu.slot \in StopSlot /\ dbg.stoppc[emu.slot].skip > 0
          /\ dbg' = [dbg EXCEPT !.stoppc[emu.slot].skip = @ - 1]
          /\ emu' = NextSlot /\ client' = client
      BY <1>20 DEF SkipHit, At, DueInv
    <3>2. IsStop(dbg.stoppc[emu.slot])
      BY <3>1 DEF DebugTypes
    <3>3. PICK stop : stop = [dbg.stoppc[emu.slot] EXCEPT !.skip = @ - 1]
      OBVIOUS
    <3>4. /\ IsStop(stop) /\ stop.pc = dbg.stoppc[emu.slot].pc
          /\ stop.skip = dbg.stoppc[emu.slot].skip - 1
      BY <3>1, <3>2, <3>3 DEF IsStop
    <3>5. dbg' = [dbg EXCEPT !.stoppc = [dbg.stoppc EXCEPT ![emu.slot] = stop]]
      BY <3>1, <3>3
    <3>6. /\ DOMAIN dbg' = DOMAIN dbg /\ dbg'.stoppc = [dbg.stoppc EXCEPT ![emu.slot] = stop]
          /\ dbg'.stoppc_armed = dbg.stoppc_armed /\ dbg'.epoch_moved = dbg.epoch_moved
          /\ dbg'.passed = dbg.passed /\ dbg'.answered = dbg.answered /\ dbg'.known = dbg.known /\ dbg'.due = dbg.due
      BY <3>5 DEF DebugTypes
    <3>7. /\ DOMAIN dbg'.stoppc = StopSlot /\ dbg'.stoppc[emu.slot] = stop
          /\ \A i \in StopSlot : i # emu.slot => dbg'.stoppc[i] = dbg.stoppc[i]
      BY <3>1, <3>6 DEF DebugTypes
    <3>8. /\ DOMAIN emu' = DOMAIN emu /\ emu'.pc = emu.pc /\ emu'.job = emu.job /\ emu'.count = emu.count
          /\ emu'.stopping = emu.stopping /\ emu'.hit = emu.hit /\ emu'.slot = emu.slot + 1
          /\ emu'.at = IF emu.slot = StopSlots THEN "pause" ELSE "scan"
      BY <3>1 DEF NextSlot, DebugTypes
    <3> QED BY <3>1, <3>4, <3>6, <3>7, <3>8
  <2>2. DebugTypes'
    <3>1. \A i \in StopSlot : IsStop(dbg'.stoppc[i])
      BY <2>1 DEF DebugTypes
    <3> QED BY <2>1, <3>1 DEF DebugTypes
  <2>3. ClientInv'
    <3>1. \A i \in dbg.answered : dbg'.stoppc[i].pc = dbg.stoppc[i].pc
      BY <2>0, <2>1
    <3>2. \A i \in StopSlot : dbg'.stoppc[i].pc = dbg.stoppc[i].pc
      BY <2>1
    <3>3. dbg'.answered = dbg.answered /\ client' = client
      BY <2>1
    <3> QED BY <3>1, <3>2, <3>3, Zenon DEF ClientInv
  <2>4. CountInv'
    BY <2>0, <2>1 DEF ClientInv, CountInv
  <2>5. DueInv'
    <3>1. \A i \in dbg.due : i \in StopSlot /\ i >= emu.slot + 1
      BY <2>0, <2>1 DEF DueInv
    <3>2. emu.slot = StopSlots => dbg.due = {}
      BY <3>1
    <3>3. \A i \in dbg.due : i \in dbg.answered /\ dbg'.stoppc[i] = dbg.stoppc[i]
                            /\ dbg.stoppc[i].pc = emu.pc /\ dbg.stoppc[i].skip = 0
      BY <2>0, <2>1, <3>1 DEF DueInv
    <3>4. emu.slot # StopSlots => emu.slot + 1 \in StopSlot
      BY <2>1
    <3> QED BY <2>1, <3>1, <3>2, <3>3, <3>4 DEF DueInv
  <2>6. JobInv'
    BY <2>0, <2>1 DEF ClientInv, DueInv, JobInv
  <2>7. SpanInv'
    BY <2>0, <2>1 DEF ClientInv, DueInv, SpanInv
  <2> QED BY <2>1, <2>2, <2>3, <2>4, <2>5, <2>6, <2>7
<1>21. CASE TakeSlot
  <2>0. /\ dbg.answered \subseteq StopSlot /\ dbg.known \subseteq dbg.answered /\ emu.pc \in Nat
        /\ client.slot \in Nat /\ dbg.stoppc_armed \in Int
    BY DEF DebugTypes
  <2>1. /\ DOMAIN dbg' = DOMAIN dbg
        /\ emu.slot \in StopSlot /\ DOMAIN dbg'.stoppc = StopSlot
        /\ \A i \in StopSlot : i # emu.slot => dbg'.stoppc[i] = dbg.stoppc[i]
        /\ IsStop(dbg'.stoppc[emu.slot])
        /\ dbg'.stoppc[emu.slot].pc = NoPc
        /\ dbg'.stoppc[emu.slot].skip = dbg.stoppc[emu.slot].skip
        /\ dbg'.stoppc_armed = dbg.stoppc_armed /\ dbg'.epoch_moved = dbg.epoch_moved
        /\ dbg'.passed = dbg.passed
        /\ dbg'.answered = dbg.answered \ {emu.slot} /\ dbg'.known = dbg.known \ {emu.slot}
        /\ dbg'.due = dbg.due \ {emu.slot}
        /\ client' = client
        /\ emu.at = "skip"
        /\ DOMAIN emu' = DOMAIN emu
        /\ emu'.pc = emu.pc /\ emu'.job = emu.job /\ emu'.count = emu.count
        /\ emu'.stopping = emu.stopping /\ emu'.hit = TRUE /\ emu'.slot = emu.slot
        /\ emu'.at = "uncount"
    <3>1. /\ emu.at = "skip" /\ emu.slot \in StopSlot
          /\ dbg' = [dbg EXCEPT !.stoppc[emu.slot].pc = NoPc, !.answered = @ \ {emu.slot},
                               !.known = @ \ {emu.slot}, !.due = @ \ {emu.slot}]
          /\ emu' = [emu EXCEPT !.at = "uncount", !.hit = TRUE] /\ client' = client
      BY <1>21 DEF TakeSlot, At, Consume, DueInv
    <3>2. IsStop(dbg.stoppc[emu.slot])
      BY <3>1 DEF DebugTypes
    <3>3. PICK stop : stop = [dbg.stoppc[emu.slot] EXCEPT !.pc = NoPc]
      OBVIOUS
    <3>4. IsStop(stop) /\ stop.pc = NoPc /\ stop.skip = dbg.stoppc[emu.slot].skip
      BY <3>2, <3>3 DEF IsStop
    <3>5. dbg' = [dbg EXCEPT !.stoppc = [dbg.stoppc EXCEPT ![emu.slot] = stop],
                             !.answered = @ \ {emu.slot}, !.known = @ \ {emu.slot}, !.due = @ \ {emu.slot}]
      BY <3>1, <3>3
    <3>6. /\ DOMAIN dbg' = DOMAIN dbg /\ dbg'.stoppc = [dbg.stoppc EXCEPT ![emu.slot] = stop]
          /\ dbg'.stoppc_armed = dbg.stoppc_armed /\ dbg'.epoch_moved = dbg.epoch_moved
          /\ dbg'.passed = dbg.passed
          /\ dbg'.answered = dbg.answered \ {emu.slot} /\ dbg'.known = dbg.known \ {emu.slot}
        /\ dbg'.due = dbg.due \ {emu.slot}
      BY <3>5 DEF DebugTypes
    <3>7. /\ DOMAIN dbg'.stoppc = StopSlot /\ dbg'.stoppc[emu.slot] = stop
          /\ \A i \in StopSlot : i # emu.slot => dbg'.stoppc[i] = dbg.stoppc[i]
      BY <3>1, <3>6 DEF DebugTypes
    <3>8. /\ DOMAIN emu' = DOMAIN emu /\ emu'.pc = emu.pc /\ emu'.job = emu.job /\ emu'.count = emu.count
          /\ emu'.stopping = emu.stopping /\ emu'.hit = TRUE /\ emu'.slot = emu.slot
          /\ emu'.at = "uncount"
      BY <3>1 DEF DebugTypes
    <3> QED BY <3>1, <3>4, <3>6, <3>7, <3>8
  <2>2. DebugTypes'
    <3>1. \A i \in StopSlot : IsStop(dbg'.stoppc[i])
      BY <2>1 DEF DebugTypes
    <3> QED BY <2>1, <3>1 DEF DebugTypes
  <2>3. ClientInv'
    BY <2>0, <2>1, SMTT(60) DEF ClientInv, DueInv
  <2>4. CountInv'
    BY <2>0, <2>1 DEF ClientInv, CountInv
  <2>5. DueInv'
    BY <2>0, <2>1 DEF ClientInv, DueInv
  <2>6. JobInv'
    BY <2>0, <2>1 DEF ClientInv, DueInv, JobInv
  <2>7. SpanInv'
    BY <2>0, <2>1 DEF ClientInv, DueInv, SpanInv
  <2> QED BY <2>1, <2>2, <2>3, <2>4, <2>5, <2>6, <2>7
<1>22. CASE ScanSlot
  <2>0. /\ dbg.answered \subseteq StopSlot /\ dbg.known \subseteq dbg.answered /\ emu.pc \in Nat
        /\ client.slot \in Nat /\ dbg.stoppc_armed \in Int
    BY DEF DebugTypes
  <2>1. /\ dbg' = dbg /\ client' = client /\ emu.at = "scan" /\ DOMAIN emu' = DOMAIN emu
        /\ emu'.pc = emu.pc /\ emu'.job = emu.job /\ emu'.count = emu.count
        /\ emu'.stopping = emu.stopping /\ emu'.hit = emu.hit
        /\ \/ emu'.slot = emu.slot /\ emu'.at = "skip"
           \/ /\ dbg.stoppc[emu.slot].pc # emu.pc /\ emu'.slot = emu.slot + 1
              /\ emu'.at = IF emu.slot = StopSlots THEN "pause" ELSE "scan"
    BY <1>22 DEF IsStop, DebugTypes, ClientInv, DueInv, ScanSlot, At, NextSlot
  <2>2. DebugTypes'
    BY <2>1 DEF DebugTypes
  <2>3. ClientInv'
    BY <2>0, <2>1 DEF ClientInv, DueInv
  <2>4. CountInv'
    BY <2>0, <2>1 DEF ClientInv, CountInv
  <2>5. DueInv'
    BY <2>0, <2>1 DEF ClientInv, DueInv
  <2>6. JobInv'
    BY <2>0, <2>1 DEF ClientInv, DueInv, JobInv
  <2>7. SpanInv'
    BY <2>0, <2>1 DEF ClientInv, DueInv, SpanInv
  <2> QED BY <2>1, <2>2, <2>3, <2>4, <2>5, <2>6, <2>7
<1>23. CASE ReadDelay
  <2>0. /\ dbg.answered \subseteq StopSlot /\ dbg.known \subseteq dbg.answered /\ emu.pc \in Nat
        /\ client.slot \in Nat /\ dbg.stoppc_armed \in Int
    BY DEF DebugTypes
  <2>1. /\ client' = client /\ emu.at = "delay" /\ DOMAIN emu' = DOMAIN emu
        /\ emu'.pc = emu.pc /\ emu'.job = emu.job /\ emu'.count = emu.count /\ emu'.hit = emu.hit /\ emu'.slot = emu.slot
        /\ DOMAIN dbg' = DOMAIN dbg /\ dbg'.stoppc = dbg.stoppc /\ dbg'.stoppc_armed = dbg.stoppc_armed
        /\ dbg'.answered = dbg.answered /\ dbg'.known = dbg.known /\ dbg'.due = dbg.due /\ dbg'.passed = dbg.passed
        /\ \/ emu'.stopping = emu.stopping /\ emu'.at = "delay" /\ dbg'.epoch_moved = dbg.epoch_moved
           \/ emu'.stopping = TRUE /\ emu'.at = "pause" /\ dbg'.epoch_moved = TRUE
    <3>1. CASE dbg.stoppc[emu.slot].delay = 0
      BY <1>23, <3>1 DEF DebugTypes, ReadDelay, At
    <3>2. CASE dbg.stoppc[emu.slot].delay # 0
      BY <1>23, <3>2, ZenonT(60) DEF DebugTypes, ReadDelay, At
    <3> QED BY <3>1, <3>2
  <2>2. DebugTypes'
    BY <2>1 DEF DebugTypes
  <2>3. ClientInv'
    BY <2>0, <2>1 DEF ClientInv, DueInv
  <2>4. CountInv'
    BY <2>0, <2>1 DEF ClientInv, CountInv
  <2>5. DueInv'
    BY <2>0, <2>1 DEF ClientInv, DueInv
  <2>6. JobInv'
    BY <2>0, <2>1 DEF ClientInv, DueInv, JobInv
  <2>7. SpanInv'
    BY <2>0, <2>1 DEF ClientInv, DueInv, SpanInv
  <2> QED BY <2>1, <2>2, <2>3, <2>4, <2>5, <2>6, <2>7
<1>24. CASE Execute
  <2>0. /\ dbg.answered \subseteq StopSlot /\ dbg.known \subseteq dbg.answered
        /\ emu.pc \in 0 .. LoopLength - 1 /\ emu.count \in Nat /\ dbg.stoppc_armed \in Int
        /\ emu.job \in {"none", "job", "span"}
    BY DEF DebugTypes
  <2>1. PICK pc \in 0 .. LoopLength - 1 :
           /\ pc = NextPc
           /\ emu.pc \in SpanFrom .. SpanTo /\ (emu.pc = SpanTo => emu.count # 0) =>
                 pc \in SpanFrom .. SpanTo /\ (pc = emu.pc + 1 \/ pc = SpanFrom)
    <3>1. LoopLength \in Nat \ {0} /\ emu.pc + 1 \in Int
      BY <2>0
    <3>2. emu.pc + 1 < LoopLength => (emu.pc + 1) % LoopLength = emu.pc + 1
      BY <2>0, <3>1
    <3>3. (emu.pc + 1) % LoopLength \in 0 .. LoopLength - 1
      BY <3>1, RemainderDef
    <3> QED BY <2>0, <3>2, <3>3 DEF NextPc
  <2>2. PICK count \in Nat : /\ count = CountAfter /\ (emu.pc # SpanTo => count = emu.count)
    BY <2>0 DEF CountAfter
  <2>3. PICK kind \in {"none", "job", "span"} :
           /\ kind = JobAfter(pc)
           /\ kind = "job" => emu.job = "job" /\ pc \in Job
           /\ kind = "span" => emu.job = "span" /\ (pc = SpanAsked => emu.count # 0)
    <3>1. 0 % YieldEvery = 0
      BY RemainderDef
    <3> QED BY <3>1 DEF JobAfter
  <2>4. PICK at : at = CASE kind = "job" -> "observe"
                         [] kind = "span" /\ pc # SpanFrom -> "span"
                         [] kind = "none" /\ pc \in {JobFrom, SpanFrom} -> "enter"
                         [] OTHER -> "gate"
    OBVIOUS
  <2>5. /\ at \in {"observe", "span", "enter", "gate"}
        /\ at = "observe" => kind = "job"
        /\ at = "span" => kind = "span"
        /\ at = "enter" => kind = "none"
    BY <2>4
  <2>6. /\ emu.at = "execute" /\ client' = client
        /\ DOMAIN emu' = DOMAIN emu /\ emu'.pc = pc /\ emu'.job = kind /\ emu'.count = count
        /\ emu'.at = at /\ emu'.stopping = emu.stopping /\ emu'.hit = emu.hit
    BY <1>24, <2>1, <2>2, <2>3, <2>4 DEF Execute, At, DebugTypes
  <2>7. /\ DOMAIN dbg' = DOMAIN dbg /\ dbg'.stoppc = dbg.stoppc
        /\ dbg'.stoppc_armed = dbg.stoppc_armed /\ dbg'.epoch_moved = dbg.epoch_moved
        /\ dbg'.answered = dbg.answered /\ dbg'.known = dbg.known /\ dbg'.due = dbg.due
    BY <1>24 DEF Execute, DebugTypes
  <2>8. "running" \notin dbg'.passed
    <3>1. dbg'.passed = IF dbg.due # {} /\ ~emu.hit
                        THEN dbg.passed \cup {IF emu.stopping THEN "stopping" ELSE "running"}
                        ELSE dbg.passed
      BY <1>24 DEF Execute, DebugTypes
    <3> QED BY <2>6, <3>1 DEF DueInv
  <2>9. DebugTypes'
    BY <2>0, <2>6, <2>7 DEF DebugTypes
  <2>10. ClientInv'
    BY <2>6, <2>7 DEF ClientInv
  <2>11. CountInv'
    BY <2>5, <2>6, <2>7 DEF CountInv
  <2>12. DueInv'
    BY <2>5, <2>6, <2>7 DEF DueInv
  <2>13. JobInv'
    BY <2>3, <2>5, <2>6, <2>7 DEF JobInv
  <2>14. SpanInv'
    <3>1. kind = "span" => /\ pc \in SpanFrom .. SpanTo /\ (pc >= SpanAsked => count # 0)
      BY <2>0, <2>1, <2>2, <2>3 DEF SpanInv
    <3> QED BY <2>3, <2>5, <2>6, <2>7, <3>1 DEF SpanInv
  <2> QED BY <2>8, <2>9, <2>10, <2>11, <2>12, <2>13, <2>14
<1>26. CASE EnterSpan
  <2>0. dbg.answered \subseteq StopSlot /\ dbg.stoppc_armed \in Int
    BY DEF DebugTypes
  <2>1. PICK kind \in {"none", "span"} :
           /\ emu' = [emu EXCEPT !.at = "gate", !.job = kind]
           /\ kind = "span" => debug_native_job_allowed(SpanFrom, SpanAsked)
    BY <1>26 DEF EnterSpan
  <2>2. /\ emu.at = "enter" /\ emu.pc = SpanFrom /\ client' = client
        /\ dbg' = [dbg EXCEPT !.known = dbg.answered]
    BY <1>26 DEF EnterSpan, At
  <2>3. kind = "span" /\ ~emu.stopping =>
           \A i \in dbg.answered : dbg.stoppc[i].pc \notin SpanFrom .. SpanAsked - 1
    BY <2>0, <2>1, <2>2 DEF CountInv, debug_native_job_allowed
  <2>4. /\ DOMAIN emu' = DOMAIN emu /\ emu'.pc = emu.pc /\ emu'.job = kind /\ emu'.count = emu.count
        /\ emu'.at = "gate" /\ emu'.stopping = emu.stopping /\ emu'.hit = emu.hit
    BY <2>1 DEF DebugTypes
  <2>5. /\ DOMAIN dbg' = DOMAIN dbg /\ dbg'.stoppc = dbg.stoppc
        /\ dbg'.stoppc_armed = dbg.stoppc_armed /\ dbg'.epoch_moved = dbg.epoch_moved
        /\ dbg'.answered = dbg.answered /\ dbg'.known = dbg.answered /\ dbg'.passed = dbg.passed
    BY <2>2 DEF DebugTypes
  <2>6. DebugTypes'
    BY <2>2, <2>4, <2>5 DEF DebugTypes
  <2>7. ClientInv'
    BY <2>2, <2>4, <2>5 DEF ClientInv
  <2>8. CountInv' /\ DueInv'
    BY <2>2, <2>4, <2>5 DEF CountInv, DueInv
  <2>9. JobInv'
    BY <2>2, <2>4, <2>5 DEF JobInv
  <2>10. SpanInv'
    BY <2>2, <2>3, <2>4, <2>5 DEF SpanInv
  <2> QED BY <2>5, <2>6, <2>7, <2>8, <2>9, <2>10
<1>27. CASE SpanInstruction
  <2>0. /\ dbg.answered \subseteq StopSlot /\ dbg.known \subseteq dbg.answered
        /\ emu.pc \in Nat
    BY DEF DebugTypes
  <2>1. PICK due : due = IF emu.pc < SpanAsked THEN Due \cap dbg.known ELSE {}
    OBVIOUS
  <2>2. /\ emu.at = "span" /\ client' = client
        /\ dbg' = [dbg EXCEPT !.due = due] /\ emu' = [emu EXCEPT !.hit = FALSE, !.at = "execute"]
    BY <1>27, <2>1 DEF SpanInstruction, At
  <2>3. /\ DOMAIN emu' = DOMAIN emu /\ emu'.pc = emu.pc /\ emu'.job = emu.job /\ emu'.count = emu.count
        /\ emu'.at = "execute" /\ emu'.stopping = emu.stopping /\ emu'.hit = FALSE
    BY <2>2 DEF DebugTypes
  <2>4. /\ DOMAIN dbg' = DOMAIN dbg /\ dbg'.stoppc = dbg.stoppc
        /\ dbg'.stoppc_armed = dbg.stoppc_armed /\ dbg'.epoch_moved = dbg.epoch_moved
        /\ dbg'.answered = dbg.answered /\ dbg'.known = dbg.known /\ dbg'.passed = dbg.passed
        /\ dbg'.due = due
    BY <2>2 DEF DebugTypes
  <2>5. \A i \in due : /\ i \in dbg.known /\ emu.pc < SpanAsked
                       /\ dbg.stoppc[i].pc = emu.pc /\ dbg.stoppc[i].skip = 0
    BY <2>1 DEF Due
  <2>6. emu.stopping \/ due = {}
    BY <2>0, <2>2, <2>5 DEF SpanInv
  <2>7. DebugTypes'
    BY <2>2, <2>3, <2>4 DEF DebugTypes
  <2>8. ClientInv'
    BY <2>2, <2>4 DEF ClientInv
  <2>9. CountInv'
    BY <2>2, <2>3, <2>4 DEF CountInv
  <2>10. DueInv'
    BY <2>0, <2>3, <2>4, <2>5, <2>6 DEF DueInv
  <2>11. JobInv' /\ SpanInv'
    BY <2>2, <2>3, <2>4 DEF JobInv, SpanInv
  <2> QED BY <2>4, <2>7, <2>8, <2>9, <2>10, <2>11
<1>25. CASE UNCHANGED debug_vars
  BY <1>25 DEF DebugTypes, ClientInv, CountInv, DueInv, JobInv, SpanInv, debug_vars
<1> QED
  BY <1>1, <1>2, <1>3, <1>4, <1>5, <1>6, <1>7, <1>8, <1>9, <1>10, <1>11, <1>12, <1>13,
     <1>14, <1>15, <1>16, <1>17, <1>18, <1>19, <1>20, <1>21, <1>22, <1>23, <1>24, <1>25,
     <1>26, <1>27
  DEF DebugNext, ServerNext, EmulationNext

(* debug_server.c:204, :232, cdi_loader_jobs.c:97: until the first stop is *)
(* taken, no instruction with a stop the client was answered for is run    *)
(* that is traced or an operation of a job with a frontier.  A span of the *)
(* loader's loop, which looks at nothing on its way, runs over none that   *)
(* was answered before it asked, in the range it asks about; those at its  *)
(* loop control and those answered later are not claimed.  For loops, jobs *)
(* and spans of every length.                                              *)
THEOREM AnsweredStopsTaken == DebugSpec => []("running" \notin dbg.passed)
<1>1. DebugInit => StopInv
  BY StopInit
<1>2. StopInv /\ [DebugNext]_debug_vars => StopInv'
  BY StopInvKept
<1>3. StopInv => "running" \notin dbg.passed
  BY DEF StopInv
<1> QED BY <1>1, <1>2, <1>3, PTL DEF DebugSpec
=============================================================================
