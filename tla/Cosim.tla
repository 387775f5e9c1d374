-------------------------------- MODULE Cosim --------------------------------
(***************************************************************************)
(* The differential co-simulation (cosim_state.c and cosim_state.cpp,      *)
(* debug_server.c, cdi_oracle.cpp).  The recompiled machine and the oracle *)
(* record, at the entry of every instruction, the registers and a hash of  *)
(* each RAM bank, which only recomputes the pages written since.  The      *)
(* coordinator compares the trace rings of two parked runs: of one side    *)
(* with itself (gates 1 to 3), or of the runner with the oracle.  A fault  *)
(* is injected into one of them at a chosen instruction.  A server thread  *)
(* may ask for the hash of live RAM.                                       *)
(*                                                                         *)
(* The runner has built an exception's frame when it records the first     *)
(* instruction of the handler.  The oracle builds it, and resets itself,   *)
(* inside the Run that executes that instruction, after the registers and  *)
(* hashes of the record were taken: a seam.                                *)
(*                                                                         *)
(* A page hash is the page itself (no collisions).  Neither run sees the   *)
(* other, so both take an instruction in one step, and the emulator and    *)
(* the runner give instructions the same effect at the same place.  An     *)
(* instruction is one step for the server's thread too: what that thread   *)
(* can do between the stores of one instruction it can do between two.     *)
(***************************************************************************)
EXTENDS Naturals, Integers, Sequences

CONSTANTS PageBytes, PagesPerBank,   \* 4096 and 128
          RamBank1Base,              \* the address of the second bank, past a gap
          ResetSsp,                  \* the stack pointer in the reset vector
          CosimOps,                  \* instructions [reg, addr, bytes, raises]: one that changes
                                     \* reg, or a store; raises if an exception follows
          Comparisons,               \* [left, right, seq, target]: the kinds of the two runs, and
                                     \* the fault of the right one, a target being [reg, addr]
          TraceRecords,              \* length of the trace rings
          StopSeq,                   \* instructions recorded when the runs park
          QueriesWait                \* whether hashes are only asked for when they have

ASSUME CosimAssumption ==
    /\ PageBytes \in Nat \ {0} /\ PagesPerBank \in Nat \ {0}
    /\ TraceRecords \in Nat \ {0} /\ StopSeq \in Nat /\ ResetSsp \in Nat
    /\ RamBank1Base \in Nat /\ RamBank1Base >= PageBytes * PagesPerBank
    /\ QueriesWait \in BOOLEAN

BankBytes == PageBytes * PagesPerBank
RamBase == [b \in {0, 1} |-> IF b = 0 THEN 0 ELSE RamBank1Base]
InRamBank(b, a) == RamBase[b] <= a /\ a < RamBase[b] + BankBytes
RamPages == {0, 1} \X (0 .. PagesPerBank - 1)
RamBytes == {a \in 0 .. RamBank1Base + BankBytes - 1 : \E b \in {0, 1} : InRamBank(b, a)}

\* cdi_cosim_inject_reg knows the data and address registers and both stack pointers.
CosimRegisters == {"d0", "a7", "usp", "ssp"}

\* ram_ptr: n bytes of one bank; outside RAM nothing answers.
InOneBank(phys, n) == \E b \in {0, 1} : \A i \in 0 .. n - 1 : InRamBank(b, phys + i)

\* A byte, a word or a long word.  No word lies over the end of a bank: m68k_write16 looks
\* at the first byte alone and would write behind the array.
IsStore(op) ==
    /\ op.bytes \in Seq({0, 1}) /\ Len(op.bytes) \in {1, 2, 4}
    /\ \A b \in {0, 1}, i \in {0, 2} :
          i < Len(op.bytes) /\ Len(op.bytes) > 1 =>
              (InRamBank(b, op.addr + i) <=> InRamBank(b, op.addr + i + 1))

ASSUME CosimInputs ==
    /\ \A op \in CosimOps : /\ op.reg \in CosimRegisters \cup {"sr", "none"} /\ op.addr \in Nat
                            /\ op.raises \in BOOLEAN
                            /\ op.reg = "none" => IsStore(op)
    /\ \A c \in Comparisons : /\ c.left \in {"native", "oracle"} /\ c.right \in {"native", "oracle"}
                              /\ c.seq \in Nat /\ c.target.addr \in Nat
                              /\ c.target.reg \in CosimRegisters \cup {"none"}

VARIABLES pair,        \* the two runs with their rings
          trace_seq,   \* instructions recorded
          armed,       \* the comparison, and the injection given at startup
          refresh      \* a run's server thread between hashing a page and storing the hash

cosim_vars == <<pair, trace_seq, armed, refresh>>

NoQuery == [page |-> <<>>, hash |-> <<>>]
Sides == {"left", "right"}

\* The runner has loaded the reset vector; the oracle does so in its first Run.
NativeReset == [D0 |-> 0, A7 |-> ResetSsp, USP |-> 0, SSP |-> 0, S |-> TRUE]
OracleReset == [D0 |-> 0, USP |-> 0, SSP |-> 0, S |-> FALSE]

\* Zeroed RAM, no page hashed.
CosimReset(kind) ==
    [kind |-> kind, cpu |-> IF kind = "native" THEN NativeReset ELSE OracleReset,
     pending |-> IF kind = "native" THEN "none" ELSE "reset",
     ram |-> [a \in RamBytes |-> 0], page_hash |-> [p \in RamPages |-> <<>>],
     page_dirty |-> RamPages, ring |-> [i \in 0 .. TraceRecords - 1 |-> <<>>]]

CosimInit ==
    /\ armed \in Comparisons
    /\ pair = [x \in Sides |-> CosimReset(IF x = "left" THEN armed.left ELSE armed.right)]
    /\ trace_seq = 0
    /\ refresh = [x \in Sides |-> NoQuery]

(***************************************************************************)
(* Page hashes.                                                            *)
(***************************************************************************)
PageNow(s, p) == [i \in 0 .. PageBytes - 1 |-> s.ram[RamBase[p[1]] + p[2] * PageBytes + i]]

\* cdi_cosim_ram_hash of both banks.
Refreshed(s) ==
    [s EXCEPT !.page_hash = [p \in RamPages |-> IF p \in s.page_dirty THEN PageNow(s, p)
                                         ELSE s.page_hash[p]],
              !.page_dirty = {}]

fold_bank_hash(s, b) == [p \in 0 .. PagesPerBank - 1 |-> s.page_hash[<<b, p>>]]

Least(x, y) == IF x < y THEN x ELSE y

\* Faulty variant: the page of the first byte only.
Faulty_NativeMarks(phys, n) ==
    {p \in RamPages : InRamBank(p[1], phys) /\ p[2] = (phys - RamBase[p[1]]) \div PageBytes}

\* cdi_cosim_note_ram_write: the runner marks a range of pages of the bank of the first
\* byte, ...
NativeMarks(phys, n) ==
    {p \in RamPages :
        LET base == RamBase[p[1]]
            last == Least(phys + n - 1 - base, BankBytes - 1)
        IN  InRamBank(p[1], phys) /\ p[2] \in (phys - base) \div PageBytes .. last \div PageBytes}

\* ... the oracle the page of every byte.
OracleMarks(phys, n) ==
    {p \in RamPages : \E i \in 0 .. n - 1 :
        /\ InRamBank(p[1], phys + i)
        /\ p[2] = (phys + i - RamBase[p[1]]) \div PageBytes}

\* A store of a byte or a word to RAM, and its hook.
StoreBytes(s, phys, bytes, marks) ==
    [s EXCEPT !.ram = [a \in RamBytes |-> IF a \in phys .. phys + Len(bytes) - 1
                                          THEN bytes[a - phys + 1] ELSE s.ram[a]],
              !.page_dirty = @ \cup marks]

Marks(kind, phys, n) == IF kind = "native" THEN NativeMarks(phys, n) ELSE OracleMarks(phys, n)

\* m68k_write8 and m68k_write16, ...
BusWrite(s, phys, bytes) ==
    IF InOneBank(phys, Len(bytes))
    THEN StoreBytes(s, phys, bytes, Marks(s.kind, phys, Len(bytes))) ELSE s

\* ... and m68k_write32, which is two words; the second is not tried if the first faults.
StoreOperand(s, phys, bytes) ==
    IF Len(bytes) < 4 THEN BusWrite(s, phys, bytes)
    ELSE IF InOneBank(phys, 2)
         THEN BusWrite(BusWrite(s, phys, SubSeq(bytes, 1, 2)), phys + 2, SubSeq(bytes, 3, 4))
         ELSE s

BusFaults(op) ==
    /\ op.reg = "none"
    /\ IF Len(op.bytes) < 4 THEN ~InOneBank(op.addr, Len(op.bytes))
       ELSE ~(InOneBank(op.addr, 2) /\ InOneBank(op.addr + 2, 2))

(***************************************************************************)
(* Registers.  The runner keeps the stack pointer in use in A7 and the     *)
(* other one in its own field, the oracle keeps two and makes A7 an alias. *)
(***************************************************************************)
Flipped(v) == IF v % 4 < 2 THEN v + 2 ELSE v - 2

\* m68k_set_sr without the S bit.
NativeLeave(cpu) ==
    IF cpu.S THEN [cpu EXCEPT !.S = FALSE, !.SSP = cpu.A7, !.A7 = cpu.USP] ELSE cpu

\* cdi_cosim_inject_reg, which also is what an instruction does to its register.
NativeFlip(cpu, r) ==
    CASE r = "d0" -> [cpu EXCEPT !.D0 = Flipped(@)]
      [] r = "a7" \/ (r = "usp" /\ ~cpu.S) \/ (r = "ssp" /\ cpu.S) -> [cpu EXCEPT !.A7 = Flipped(@)]
      [] r = "usp" /\ cpu.S -> [cpu EXCEPT !.USP = Flipped(@)]
      [] r = "ssp" /\ ~cpu.S -> [cpu EXCEPT !.SSP = Flipped(@)]
      [] OTHER -> NativeLeave(cpu)

OracleFlip(cpu, r) ==
    CASE r = "d0" -> [cpu EXCEPT !.D0 = Flipped(@)]
      [] r = "usp" \/ (r = "a7" /\ ~cpu.S) -> [cpu EXCEPT !.USP = Flipped(@)]
      [] r = "ssp" \/ (r = "a7" /\ cpu.S) -> [cpu EXCEPT !.SSP = Flipped(@)]
      [] OTHER -> [cpu EXCEPT !.S = FALSE]

\* The canonical form in which resp_trace gives the registers, and the oracle's capture.
NativeEmit(cpu) ==
    [d0 |-> cpu.D0, a7 |-> cpu.A7, sr |-> cpu.S,
     usp |-> IF cpu.S THEN cpu.USP ELSE cpu.A7, ssp |-> IF cpu.S THEN cpu.A7 ELSE cpu.SSP]

OracleEmit(cpu) ==
    [d0 |-> cpu.D0, a7 |-> IF cpu.S THEN cpu.SSP ELSE cpu.USP, sr |-> cpu.S,
     usp |-> cpu.USP, ssp |-> cpu.SSP]

Emit(s) == IF s.kind = "native" THEN NativeEmit(s.cpu) ELSE OracleEmit(s.cpu)
Flip(s, r) == [s EXCEPT !.cpu = IF s.kind = "native" THEN NativeFlip(@, r) ELSE OracleFlip(@, r)]

(***************************************************************************)
(* Exceptions.  A frame is one word that holds the old S.                  *)
(***************************************************************************)
FrameBytes == 2
FrameOf(S) == IF S THEN <<1, 1>> ELSE <<0, 1>>

\* build_exception_frame: the stacks are swapped and the frame reserved, ...
NativeEnter(cpu) ==
    IF cpu.S THEN [cpu EXCEPT !.A7 = @ - FrameBytes]
    ELSE [cpu EXCEPT !.S = TRUE, !.USP = cpu.A7, !.A7 = cpu.SSP - FrameBytes]
OracleEnter(cpu) == [cpu EXCEPT !.S = TRUE, !.SSP = @ - FrameBytes]

\* ... then written; one that misses RAM is lost (the program gives up there).
Entered(s) ==
    LET e == [s EXCEPT !.cpu = IF s.kind = "native" THEN NativeEnter(@) ELSE OracleEnter(@)]
    IN  BusWrite(e, Emit(e).ssp, FrameOf(s.cpu.S))

\* What the oracle's Run does before it executes an instruction.
Processed(s) ==
    CASE s.pending = "reset" -> [s EXCEPT !.cpu.SSP = ResetSsp, !.cpu.S = TRUE, !.pending = "none"]
      [] s.pending = "exception" -> [Entered(s) EXCEPT !.pending = "none"]
      [] OTHER -> s

\* The runner enters the handler before its next record, the oracle queues the exception.
TakesException(s) == IF s.kind = "native" THEN Entered(s) ELSE [s EXCEPT !.pending = "exception"]

(***************************************************************************)
(* An instruction.                                                         *)
(***************************************************************************)
\* An injected fault, before anything is recorded; outside RAM it does nothing.
Injected(s, target) ==
    CASE target.reg # "none" -> Flip(s, target.reg)
      [] target.reg = "none" /\ target.addr \in RamBytes ->
            StoreBytes(s, target.addr, <<1 - s.ram[target.addr]>>, Marks(s.kind, target.addr, 1))
      [] OTHER -> s

\* The entry state with its hashes is recorded.
Recorded(s) ==
    LET now == Refreshed(s)
        emitted == Emit(s)
    IN  [now EXCEPT !.ring[trace_seq % TraceRecords] =
            [seq |-> trace_seq, seam |-> s.pending # "none",
             ram0 |-> fold_bank_hash(now, 0), ram1 |-> fold_bank_hash(now, 1),
             d0 |-> emitted.d0, a7 |-> emitted.a7, sr |-> emitted.sr,
             usp |-> emitted.usp, ssp |-> emitted.ssp]]

Captured(x) ==
    Recorded(IF x = "right" /\ armed.seq = trace_seq THEN Injected(pair[x], armed.target)
             ELSE pair[x])

Executed(s, op) ==
    LET t == IF op.reg # "none" THEN Flip(s, op.reg) ELSE StoreOperand(s, op.addr, op.bytes)
    IN  IF op.raises \/ BusFaults(op) THEN TakesException(t) ELSE t

\* The runner parks after it has recorded an instruction, the oracle after it has run it.
CosimStep(op) ==
    /\ trace_seq < StopSeq
    /\ pair' = [x \in Sides |->
                   IF pair[x].kind = "native" /\ trace_seq + 1 = StopSeq THEN Captured(x)
                   ELSE Executed(Processed(Captured(x)), op)]
    /\ trace_seq' = trace_seq + 1
    /\ UNCHANGED <<armed, refresh>>

(***************************************************************************)
(* cosim_full_ram_hash on a server thread: a dirty page is hashed, then    *)
(* the hash is stored and the flag cleared.  Hashing live RAM from scratch *)
(* changes nothing.                                                        *)
(***************************************************************************)
Answers == QueriesWait => trace_seq = StopSeq

QueryHashes(x, p) ==
    /\ Answers /\ refresh[x] = NoQuery /\ p \in pair[x].page_dirty
    /\ refresh' = [refresh EXCEPT ![x] = [page |-> p, hash |-> PageNow(pair[x], p)]]
    /\ UNCHANGED <<pair, trace_seq, armed>>

QueryStored(s, q) == [s EXCEPT !.page_hash[q.page] = q.hash, !.page_dirty = @ \ {q.page}]

QueryStores(x) ==
    /\ refresh[x] # NoQuery
    /\ pair' = [pair EXCEPT ![x] = QueryStored(@, refresh[x])]
    /\ refresh' = [refresh EXCEPT ![x] = NoQuery]
    /\ UNCHANGED <<trace_seq, armed>>

CosimNext ==
    \/ \E op \in CosimOps : CosimStep(op)
    \/ \E x \in Sides, p \in RamPages : QueryHashes(x, p)
    \/ \E x \in Sides : QueryStores(x)

CosimSpec == CosimInit /\ [][CosimNext]_cosim_vars

(***************************************************************************)
(* Properties.                                                             *)
(***************************************************************************)
\* trace_range: up to count records from seq on; evicted ones are skipped.
OldestRecord == IF trace_seq > TraceRecords THEN trace_seq - TraceRecords ELSE 0
trace_range(ring, from, count) ==
    LET first == IF from < OldestRecord THEN OldestRecord ELSE from
        n == Least(count, trace_seq - first)
    IN  [i \in 1 .. n |-> ring[(first + i - 1) % TraceRecords]]

BankSignals(addr) == (IF InRamBank(0, addr) THEN {"ram0"} ELSE {})
                     \cup (IF InRamBank(1, addr) THEN {"ram1"} ELSE {})

\* The signals an injection must show in.
Signals(target, record) ==
    LET active == IF record.sr THEN "ssp" ELSE "usp"
    IN  CASE target.reg \in {"a7", active} -> {"a7", active}
          [] target.reg \notin {"a7", active, "none"} -> {target.reg}
          [] OTHER -> BankSignals(target.addr)

\* The fields the coordinator compares, and those it lets a seam disturb (seam_eq).
StateFields == {"seq", "ram0", "ram1", "d0", "a7", "sr", "usp", "ssp"}
OneFrameApart(a, b) == a.ssp = b.ssp + FrameBytes \/ b.ssp = a.ssp + FrameBytes
FrameSignals(a, b) == {"a7", "ssp", "sr"} \cup BankSignals(Least(a.ssp, b.ssp))

(* docs/COSIM-SPEC.md section 7, cosim_state.c:117, cosim_state.cpp:134:   *)
(* once both runs are parked, the records the coordinator pages through    *)
(* agree in every signal before the injected instruction, and at it differ *)
(* in the injected signal and no other.  Runs of one kind do so in every   *)
(* record; a runner and an oracle in all but the seams: there the oracle's *)
(* registers and hashes are those before the frame, so that supervisor     *)
(* stacks are exactly a frame apart and only the stack, the status and the *)
(* bank of the frame may differ, and the oracle's first record is that of  *)
(* a machine before its reset.  The incremental hashes of the parked RAM   *)
(* are those of a full recomputation.                                      *)
DivergenceLocalized ==
    trace_seq = StopSeq =>
        /\ \A k \in OldestRecord .. StopSeq - 1 :
              LET a == trace_range(pair["left"].ring, k, 1)[1]
                  b == trace_range(pair["right"].ring, k, 1)[1]
                  differ == {f \in StateFields : a[f] # b[f]}
              IN  /\ a.seq = k
                  /\ armed.left = armed.right \/ ~(a.seam \/ b.seam) =>
                        /\ k < armed.seq => differ = {}
                        /\ k = armed.seq => differ = Signals(armed.target, a)
                  /\ armed.left # armed.right /\ (a.seam \/ b.seam) /\ 0 < k /\ k < armed.seq =>
                        OneFrameApart(a, b) /\ differ \subseteq FrameSignals(a, b)
        /\ \A x \in Sides, p \in RamPages :
              Refreshed(pair[x]).page_hash[p] = PageNow(pair[x], p)

(* cdi_oracle.cpp:544: "calling it here does not disturb the incremental   *)
(* cache the step loop relies on": a page that is not marked has its hash  *)
(* in the cache.                                                           *)
CacheUndisturbed ==
    \A x \in Sides : \A p \in RamPages \ pair[x].page_dirty :
        pair[x].page_hash[p] = PageNow(pair[x], p)
=============================================================================
