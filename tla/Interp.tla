-------------------------------- MODULE Interp --------------------------------
(***************************************************************************)
(* The interpreter's loop (runner/src/m68k_interp.c, from m68k_cycles on): *)
(* cost at entry, one instruction, the bus error that may cut it short,    *)
(* and the device time that the step hands to mcd212_tick or defers to the *)
(* first instruction of a handler (runtime_defer_exception_cycles).        *)
(*                                                                         *)
(* The bytes at a PC are whatever the guest put there: each step decodes   *)
(* any instruction of Instructions.                                        *)
(***************************************************************************)
EXTENDS M68k, FiniteSets

CONSTANTS
  Instructions,    \* decoded instructions, before their address is known
  Entries,         \* the registers with which the loop may be entered
  Known,           \* addresses that dispatch_has_addr accepts
  EntryPc, StopPc, \* the arguments of m68k_interp_run_until_known
  Guard,           \* M68KI_INSN_GUARD
  Operands,        \* long values on which the arithmetic is tried
  Plain            \* an instruction, to build the ones the properties name

-----------------------------------------------------------------------------
(* M68KState with the memory, and M68KInstr. *)

Sizes == {"B", "W", "L"}
Bytes == 0 .. 2^ByteBits - 1
Longs == 0 .. 2^Bits["L"] - 1
Cells == Ram \cup {a + 1 : a \in Ram}

SrOK(s) == s \in [C : {0, 1}, V : {0, 1}, Z : {0, 1}, N : {0, 1}, X : {0, 1},
                   I : 0 .. TopLevel, S : {0, 1}]

MachineOK(c) ==
  /\ DOMAIN c = {"D", "A", "sr", "USP", "SSP", "mem", "val", "er", "next",
                 "fault", "illegal", "unimpl", "halted"}
  /\ c.D \in [0 .. 7 -> Longs] /\ c.A \in [0 .. 7 -> Longs]
  /\ SrOK(c.sr) /\ c.USP \in Longs /\ c.SSP \in Longs
  /\ c.mem \in [Cells -> Bytes]
  /\ c.val \in Int /\ c.er \in 1 .. 5 /\ c.next \in Int
  /\ c.fault \in BOOLEAN /\ c.illegal \in BOOLEAN
  /\ c.unimpl \in BOOLEAN /\ c.halted \in BOOLEAN

EaOK(ea) == /\ DOMAIN ea = {"mode", "reg"} /\ ea.mode \in 0 .. 7 /\ ea.reg \in 0 .. 7
            /\ ea.mode = 7 => ea.reg <= 4

BriefOK(x) == x.xtype \in {0, 1} /\ x.xreg \in 0 .. 7 /\ x.long \in BOOLEAN /\ x.d8 \in Nat

\* An instruction has at most four extension words.
InstructionOK(ins) ==
  /\ DOMAIN ins = {"mn", "sz", "ea", "dst", "reg", "imm", "ext", "brief", "addr", "len", "cc", "toEa",
                   "bycount", "creg", "predec", "load", "mask", "target", "memshift", "opmode",
                   "static", "toSR", "wide"}
  /\ ins.sz \in Sizes /\ EaOK(ins.ea) /\ EaOK(ins.dst)
  /\ ins.reg \in 0 .. 7 /\ ins.creg \in 0 .. 7 /\ ins.imm \in Nat
  /\ ins.bycount \in BOOLEAN /\ ins.predec \in BOOLEAN /\ ins.load \in BOOLEAN /\ ins.toEa \in BOOLEAN
  /\ ins.memshift \in BOOLEAN /\ ins.static \in BOOLEAN /\ ins.toSR \in BOOLEAN
  /\ ins.toSR => ins.mn \in {"ORI", "ANDI", "EORI"}
  /\ ins.mn \in Shifts => (ins.memshift <=> ins.ea.mode >= 2)
  /\ \A i \in 1 .. 4 : ins.ext[i] \in Nat /\ BriefOK(ins.brief[i])
  /\ ins.addr \in Nat /\ ins.len \in Nat /\ ins.target \in Nat /\ ins.mask \subseteq 0 .. 15
  /\ ins.mn = "TRAP" => 32 + ins.imm \in DOMAIN Handler

ASSUME InterpAssumption ==
  /\ ByteBits \in Nat \ {0} /\ ByteBits % 2 = 0 /\ Ten \in 1 .. Radix
  /\ TopLevel \in Nat \ {0} /\ 64 * (TopLevel + 1) <= 2^Bits["W"]
  /\ Ram \subseteq Longs /\ EntryPc \in Longs /\ Guard \in Nat
  /\ {2, 32} \subseteq DOMAIN Handler /\ \A vec \in DOMAIN Handler : Handler[vec] \in Longs
  /\ \A c \in Entries : MachineOK(c) /\ ~c.fault /\ ~c.illegal /\ ~c.unimpl /\ ~c.halted
  /\ \A ins \in Instructions : InstructionOK(ins)
  /\ InstructionOK(Plain) /\ ~Plain.toEa /\ ~Plain.bycount /\ ~Plain.predec /\ ~Plain.load
  /\ ~Plain.memshift /\ ~Plain.toSR /\ Operands \subseteq Longs

-----------------------------------------------------------------------------
VARIABLES
  cpu,        \* g_cpu with memory, and what exec_one keeps while it runs
  pc,         \* g_cpu.PC
  status,     \* "RUN", or what the loop returned
  count,      \* g_m68ki_insn_count
  acc,        \* g_cycle_accumulator
  ticked,     \* g_total_cycles: all that mcd212_tick was given
  charged     \* the cost of everything executed, and of every exception

vars == <<cpu, pc, status, count, acc, ticked, charged>>

NextPc(a) == a % 2^(3 * ByteBits)      \* & 0xFFFFFF

-----------------------------------------------------------------------------
(* m68k_cycles. *)

EaCost(ea, sz) ==
  LET long == IF sz = "L" THEN 4 ELSE 0
      base == CASE ea.mode \in {0, 1} -> 0 [] ea.mode \in {2, 3} -> 4 [] ea.mode = 4 -> 7
                [] ea.mode = 5 -> 11 [] ea.mode = 6 -> 14
                [] ea.mode = 7 -> <<8, 12, 11, 14, 4>>[ea.reg + 1]
  IN  IF ea.mode < 2 THEN 0 ELSE base + long

Fixed ==
  [NOP |-> 7, RTS |-> 15, RTR |-> 22, STOP |-> 13, RESET |-> 154, MOVEQ |-> 7, EXT |-> 7,
   SWAP |-> 7, LINK |-> 25, UNLK |-> 15, EXG |-> 13, MOVE_USP |-> 7, TRAP |-> 52]

FormatAt(c) == Low(c.A[7] + 6, "L")

m68k_cycles(c, ins) ==
  LET mn == ins.mn
      sz == ins.sz
      mem == ins.ea.mode # 0
      abs == ins.ea \in {EA(7, 0), EA(7, 1)}
      If(p, a, b) == IF p THEN a ELSE b
      ea == EaCost(ins.ea, sz)
      word == EaCost(ins.ea, "W")
      store == If(mem, If(sz = "L", 8, 4), 0)
      fmt == read16(c, FormatAt(c)).val
      Count == If(ins.bycount, c.D[ins.creg] % CountMask, If(ins.imm = 0, 8, ins.imm))
  IN  CASE mn \in DOMAIN Fixed -> Fixed[mn]
        [] mn = "RTE" -> If(fmt >= LongFormat, 146, 39)
        [] mn \in {"BRA", "Bcc"} -> 13 + If(ins.wide, 1, 0)
        [] mn = "BSR" -> If(ins.wide, 22, 17)
        [] mn = "DBcc" -> If(eval_cond(c.sr, ins.cc), 14, 17)
        [] mn = "JMP" -> If(abs, 6, 3) + EaCost(ins.ea, "B")
        [] mn = "JSR" -> If(abs, 17, 14) + EaCost(ins.ea, "B")
        [] mn = "MOVE" -> 7 + ea + EaCost(ins.dst, sz)
        [] mn \in {"MOVEA", "TST", "CLR", "CMP", "ADDA", "SUBA", "CMPA"} -> 7 + ea
        [] mn = "LEA" -> If(abs, 6, 3) + word
        [] mn = "PEA" -> If(abs, 13, 10) + EaCost(ins.ea, "L")
        [] mn = "MOVEM" -> If(abs \/ ins.ea.mode <= 4, 19, 16) + If(ins.load, 3, 0) + ea
                           - If(sz = "L", 4, 0) + Cardinality(ins.mask) * If(sz = "L", 11, 7)
        [] mn \in {"ADD", "SUB", "AND", "OR"} -> 7 + ea + If(ins.toEa, If(sz = "L", 8, 4), 0)
        [] mn \in {"ORI", "ANDI", "EORI"} /\ ins.toSR -> 14
        [] mn \in {"ADDI", "SUBI"} -> 14 + ea + If(mem, If(sz = "L", 12, 4), If(sz = "L", 4, 0))
        [] mn = "CMPI" -> 14 + ea + If(sz = "L", 4, 0)
        [] mn \in {"ANDI", "ORI", "EORI"} /\ ~ins.toSR ->
             14 + ea + If(sz = "L", If(mem, 8, 4), 0) + If(mem, 4, 0)
        [] mn \in {"ADDQ", "SUBQ"} /\ ins.ea.mode = 1 -> 7
        [] \/ mn \in {"EOR", "NEG", "NEGX", "NOT"}
           \/ mn \in {"ADDQ", "SUBQ"} /\ ins.ea.mode # 1 -> 7 + ea + store
        [] mn = "NBCD" -> If(mem, 14, 10) + EaCost(ins.ea, "B")
        [] mn = "TAS" -> If(mem, 11, 10) + EaCost(ins.ea, "B")
        [] mn = "Scc" -> If(mem, 17, 13) + EaCost(ins.ea, "B")
        [] mn \in Shifts -> If(ins.memshift, 14 + word, 13 + 3 * Count)
        [] mn \in {"MULS", "MULU"} -> 76 + word
        [] mn = "DIVS" -> 169 + word
        [] mn = "DIVU" -> 130 + word
        [] mn = "BTST" -> 7 + If(ins.static, 7, 0) + EaCost(ins.ea, "B")
        [] mn \in {"BCHG", "BCLR", "BSET"} ->
             10 + If(ins.static, 7, 0) + If(mem, 4 + EaCost(ins.ea, "B"), 0)
        [] mn \in {"ABCD", "SBCD"} -> If(ins.predec, 31, 10)
        [] mn \in {"ADDX", "SUBX"} -> If(ins.predec, If(sz = "L", 40, 28), 7)
        [] mn \in {"MOVE_SR", "MOVE_CCR"} -> If(ins.toEa, If(mem, 11, 7), 10) + word
        [] mn = "CMPM" -> If(sz = "L", 26, 18)
        [] OTHER -> 14

-----------------------------------------------------------------------------
(* Device time. *)

\* mcd212_tick of everything accumulated, and of the instruction's own cost.
Tick(cycles) ==
  /\ ticked' = ticked + acc + cycles
  /\ acc' = 0
  /\ charged' = charged + cycles

\* Faulty variant: the new batch replaces the older one.
Faulty_runtime_defer_exception_cycles(cycles) ==
  /\ ticked' = ticked
  /\ acc' = cycles
  /\ charged' = charged + cycles

\* An older batch is handed over first.
runtime_defer_exception_cycles(cycles) ==
  /\ ticked' = ticked + acc
  /\ acc' = cycles
  /\ charged' = charged + cycles

-----------------------------------------------------------------------------
(* The loop of m68k_interp_run_until_known. *)

\* runtime_init leaves the 43 cycles of the reset in the accumulator.
Init ==
  /\ cpu \in Entries
  /\ pc = EntryPc
  /\ status = "RUN"
  /\ count = 0
  /\ acc = 43 /\ ticked = 0 /\ charged = 43

\* The tests before each step, in their order.
Leave ==
  IF StopPc # 0 /\ pc = StopPc THEN "OK"
  ELSE IF pc # EntryPc /\ pc \in Known THEN "REENTER"
  ELSE IF pc % 2 = 1 THEN "BADADDR"
  ELSE "STEP"

Return ==
  /\ status = "RUN" /\ Leave # "STEP"
  /\ status' = Leave
  /\ UNCHANGED <<cpu, pc, count, acc, ticked, charged>>

Fetched(ins) == [ins EXCEPT !.addr = pc]
Entered(ins) == [cpu EXCEPT !.next = NextPc(pc + ins.len), !.er = 1]

\* The loop's tests after a step that was OK.
Counted(c) ==
  /\ count' = IF c.halted THEN count ELSE count + 1
  /\ status' = IF c.halted THEN "OK" ELSE IF count + 1 > Guard THEN "GUARD" ELSE "RUN"

\* recomp_bus_error takes an access that faults outside the interpreter's own pad, with
\* the frame g it builds: the trampoline goes on in the handler.  A fault in that frame
\* too ends the program.
recomp_bus_error(g) ==
  \/ /\ ~g.fault
     /\ cpu' = g /\ pc' = g.next /\ status' = "BUS"
     /\ runtime_defer_exception_cycles(158)
     /\ UNCHANGED count
  \/ /\ g.fault
     /\ cpu' = g /\ status' = "ABORT"
     /\ UNCHANGED <<pc, count, acc, ticked, charged>>

\* What it decodes behind an instruction to find the PC it stacks; 0 if it cannot.
Lengths == {0} \cup {i.len : i \in Instructions}

\* A bus error: the frame f is built on what the instruction has left, behind whose end
\* the PC is.  If that faults a second frame is tried, below the first.
BusError(f, end) ==
  \/ /\ ~f.fault
     /\ cpu' = f /\ pc' = f.next
     /\ runtime_defer_exception_cycles(158)
     /\ Counted(f)
  \/ /\ f.fault
     /\ \E len \in Lengths :
           recomp_bus_error(build_exception_frame([f EXCEPT !.fault = FALSE], 2, NextPc(end + len)))

\* What the step does with the machine d that exec_one has left.
InterpStep(ins, d, cost) ==
  \/ d.fault /\ BusError(build_exception_frame([d EXCEPT !.fault = FALSE], 2, NextPc(pc + ins.len)),
                        NextPc(pc + ins.len))
  \/ /\ ~d.fault /\ (d.unimpl \/ d.illegal)
     /\ cpu' = d /\ status' = "UNIMPL"
     /\ UNCHANGED <<pc, count, acc, ticked, charged>>
  \/ /\ ~d.fault /\ ~d.unimpl /\ ~d.illegal
     /\ cpu' = d /\ pc' = NextPc(d.next)
     /\ IF ins.mn = "TRAP" THEN runtime_defer_exception_cycles(cost) ELSE Tick(cost)
     /\ Counted(d)

\* The cost of RTE reads the format word before the pad is set up.
CostFaults(ins) == ins.mn = "RTE" /\ read16(cpu, FormatAt(cpu)).fault

Execute(ins) ==
  /\ status = "RUN" /\ Leave = "STEP"
  /\ \/ /\ CostFaults(ins)
        /\ recomp_bus_error(build_exception_frame(cpu, 2, NextPc(pc + ins.len)))
     \/ /\ ~CostFaults(ins)
        /\ \E d \in {exec_one(Entered(ins), Fetched(ins))} :
              InterpStep(ins, d, m68k_cycles(cpu, ins))

Next ==
  \/ Return
  \/ \E ins \in Instructions : Execute(ins)

Spec == Init /\ [][Next]_vars

-----------------------------------------------------------------------------
(* Properties. The ones about arithmetic try every pair of Operands in the *)
(* entry state, whose flags they inherit.                                  *)

Fresh == count = 0 /\ status = "RUN"
Going == status \in {"RUN", "GUARD"}     \* after a step that was OK
Decoded(mn, sz) == [Plain EXCEPT !.mn = mn, !.sz = sz, !.ea = EA(0, 0), !.reg = 1]
\* mn.sz D0,D1 with b in D0 and a in D1; the one-operand instructions take D1.
Unary == {"NEG", "NEGX", "NBCD"}
Run(c, mn, sz, a, b) ==
  exec_one([c EXCEPT !.D[1] = a, !.D[0] = b],
           [Decoded(mn, sz) EXCEPT !.ea = EA(0, IF mn \in Unary THEN 1 ELSE 0)])

\* After CMP every condition means the comparison it is named for, unsigned
\* (HI LS CC CS) and signed (GE LT GT LE): flags_cmp together with eval_cond.
ConditionsCompare ==
  Fresh => \A sz \in Sizes, a, b \in Operands :
    \A s \in {Run(cpu, "CMP", sz, a, b).sr}, u \in {Low(a, sz) - Low(b, sz)},
       t \in {Signed(a, sz) - Signed(b, sz)} :
      /\ {cc \in {"HI", "LS", "CC", "CS", "EQ", "NE"} : eval_cond(s, cc)} =
           IF u > 0 THEN {"HI", "CC", "NE"} ELSE IF u = 0 THEN {"LS", "CC", "EQ"}
           ELSE {"LS", "CS", "NE"}
      /\ {cc \in {"GE", "LT", "GT", "LE"} : eval_cond(s, cc)} =
           IF t > 0 THEN {"GE", "GT"} ELSE IF t = 0 THEN {"GE", "LE"} ELSE {"LT", "LE"}

\* The wide operation: its exact value, unsigned and signed.
Wide == [ADD |-> [then |-> "ADDX", a |-> 1, b |-> 1], SUB |-> [then |-> "SUBX", a |-> 1, b |-> -1],
         NEG |-> [then |-> "NEGX", a |-> -1, b |-> 0]]

\* A chain of two instructions over the halves of a wider number is the wide
\* operation: result, carry into X and C, overflow, sign, and the sticky Z of
\* ADDX, SUBX and NEGX that makes Z mean the whole.
ExtendedChain ==
  Fresh => \A sz \in {"B", "W"}, a, b \in Operands, mn \in DOMAIN Wide :
    LET w == 2^Bits[sz]
        x == a % (w * w)
        y == b % (w * w)
        Half(v) == IF v >= (w * w) \div 2 THEN v - w * w ELSE v
        Of(u, v) == Wide[mn].a * u + Wide[mn].b * v
        Is(r, s, exact, signed) ==
          /\ r = exact % (w * w)
          /\ s.Z = Flag(r = 0) /\ s.N = Flag(Half(r) < 0)
          /\ s.C = Flag(exact \notin 0 .. w * w - 1) /\ s.X = s.C
          /\ s.V = Flag(signed # Half(r))
    IN  \A l \in {Run(cpu, mn, sz, x % w, y % w)} :
        \A h \in {Run(l, Wide[mn].then, sz, x \div w, y \div w)} :
          Is(Low(h.D[1], sz) * w + Low(l.D[1], sz), h.sr, Of(x, y), Of(Half(x), Half(y)))

\* One bit of a shift: value, X, the bit out, and whether the sign ever moved.
OneBit(mn, sz, s) ==
  LET top == Msb(s.r, sz)
      left == Low(2 * s.r, sz)
      right == s.r \div 2
      In(bit) == bit * 2^(Bits[sz] - 1)
      New(r, c, x) == [r |-> r, c |-> c, x |-> x,
                       v |-> IF mn = "ASL" /\ Msb(r, sz) # top THEN 1 ELSE s.v]
  IN  CASE mn \in {"LSL", "ASL"} -> New(left, top, top)
        [] mn = "LSR" -> New(right, s.r % 2, s.r % 2)
        [] mn = "ASR" -> New(right + In(top), s.r % 2, s.r % 2)
        [] mn = "ROL" -> New(left + top, top, s.x)
        [] mn = "ROR" -> New(right + In(s.r % 2), s.r % 2, s.x)
        [] mn = "ROXL" -> New(left + s.x, top, top)
        [] mn = "ROXR" -> New(right + In(s.x), s.r % 2, s.r % 2)

\* A shift by any count a register can hold, past the operand's width too, is
\* that many one-bit shifts: the closed forms of do_shift, the bit that leaves
\* last, and the overflow of an ASL whose sign moves and comes back. The shift
\* of a word in memory is the one-bit shift.
ShiftsAreBitByBit ==
  Fresh => \A mn \in Shifts, sz \in Sizes, a \in Operands :
    LET start == [r |-> Low(a, sz), c |-> 0, x |-> cpu.sr.X, v |-> 0]
        after[n \in 0 .. CountMask - 1] ==
          IF n = 0 THEN start ELSE OneBit(mn, sz, after[n - 1])
    IN  /\ \A n \in 0 .. CountMask - 1 :
             \A s \in {after[n]},
                k \in {exec_one([cpu EXCEPT !.D[1] = a, !.D[0] = n],
                                [Decoded(mn, sz) EXCEPT !.bycount = TRUE, !.creg = 0])} :
               /\ Low(k.D[1], sz) = s.r /\ k.D[1] - Low(k.D[1], sz) = a - Low(a, sz)
               /\ k.sr.X = s.x /\ k.sr.C = s.c /\ k.sr.V = s.v
        /\ \A m \in {MemShift(mn, Low(a, "W"), cpu.sr.X)},
              o \in {OneBit(mn, "W", [start EXCEPT !.r = Low(a, "W")])} :
             m.r = o.r /\ m.c = o.c /\ m.v = o.v

\* On packed decimal numbers ABCD, SBCD and NBCD are decimal arithmetic with
\* the decimal carry in X and C.
DecimalExact ==
  Fresh =>
    LET Packed == {d \in 0 .. 2^ByteBits - 1 : d % Radix < Ten /\ d \div Radix < Ten}
        Dec(d) == (d \div Radix) * Ten + (d % Radix)
        Exact(mn, a, b) == CASE mn = "ABCD" -> Dec(a) + Dec(b) + cpu.sr.X
                             [] mn = "SBCD" -> Dec(a) - Dec(b) - cpu.sr.X
                             [] mn = "NBCD" -> -Dec(a) - cpu.sr.X
        Is(k, r, exact) ==
          /\ r \in Packed /\ Dec(r) = exact % (Ten * Ten)
          /\ k.sr.X = Flag(exact \notin 0 .. Ten * Ten - 1) /\ k.sr.C = k.sr.X
          /\ (k.sr.Z = 1 <=> cpu.sr.Z = 1 /\ r = 0)
    IN  \A mn \in {"ABCD", "SBCD", "NBCD"}, a, b \in Packed :
          \A k \in {Run(cpu, mn, "B", a, b)} : Is(k, Low(k.D[1], "B"), Exact(mn, a, b))

\* DIVU and DIVS: dividend = quotient * divisor + remainder, the remainder
\* smaller than the divisor and signed as the dividend; V and an untouched
\* register exactly when no such quotient fits a word.
DivideExact ==
  Fresh => \A signed \in BOOLEAN, a \in Operands, b \in {Low(d, "W") : d \in Operands} \ {0} :
    LET Num(v, sz) == IF signed THEN Signed(v, sz) ELSE Low(v, sz)
        Divides(x, y) == /\ Num(a, "L") = x * Num(b, "W") + y
                         /\ Abs(y) < Abs(Num(b, "W")) /\ (y # 0 => (y < 0) = (Num(a, "L") < 0))
        Words(v) == <<Num(v % 2^Bits["W"], "W"), Num(v \div 2^Bits["W"], "W")>>
    IN  \A k \in {Run(cpu, IF signed THEN "DIVS" ELSE "DIVU", "W", a, b)} :
          IF k.sr.V = 0
          THEN \A qr \in {Words(k.D[1])} : Divides(qr[1], qr[2]) /\ k.sr.Z = Flag(qr[1] = 0)
          ELSE /\ k.D[1] = a
               /\ \A x \in {Num(y, "W") : y \in 0 .. 2^Bits["W"] - 1} :
                    ~Divides(x, Num(a, "L") - x * Num(b, "W"))

\* Comparison, extended and decimal arithmetic, division and shifts compute
\* what they are named for, with the flags that let the guest tell.
ArithmeticExact ==
  ConditionsCompare /\ ExtendedChain /\ ShiftsAreBitByBit /\ DecimalExact /\ DivideExact

\* A MOVE whose store faults has set its flags before it was cut short, as the
\* exception frame must show, and has changed no data register and no memory
\* but the half of a long that was written.
FaultedStoreHasFlags ==
  Fresh => \A ins \in {i \in Instructions : i.mn = "MOVE"} :
    \A d \in {exec_one(Entered(ins), Fetched(ins))} : d.fault =>
      \A r \in {exec_one(Entered(ins), [Fetched(ins) EXCEPT !.dst = EA(0, 2)])} :
        ~r.fault => d.sr = r.sr /\ d.D = cpu.D

\* An exception that is returned from at once leaves no trace: RTE undoes the
\* frame, short or long, on the supervisor's stack, and gives back PC, SR and
\* both stack pointers, whatever the mode it interrupted.
ReturnRestores ==
  Going => \A vec \in {2, 32} : \A f \in {build_exception_frame([cpu EXCEPT !.fault = FALSE], vec, pc)} :
    ~f.fault => \A k \in {exec_rte(f)} :
      /\ ~k.fault /\ k.next = pc /\ k.sr = cpu.sr
      /\ k.A = cpu.A /\ k.D = cpu.D
      /\ IF cpu.sr.S = 1 THEN k.USP = cpu.USP ELSE k.SSP = cpu.SSP

\* MOVEM to -(A7) and back from (A7)+ with the reversed mask restores every
\* register of the list (a word comes back sign-extended) and the stack.
MovemRestores ==
  Going => \A sz \in {"W", "L"}, list \in {{0, 1}, {0, 8, 9}, {1, 9, 15}} :
    LET push == [Decoded("MOVEM", sz) EXCEPT !.ea = EA(4, 7), !.mask = {15 - i : i \in list}]
        pull == [Decoded("MOVEM", sz) EXCEPT !.ea = EA(3, 7), !.mask = list, !.load = TRUE]
        Wiped(c) == [c EXCEPT !.D = [i \in 0 .. 7 |-> 0],
                              !.A = [i \in 0 .. 7 |-> IF i = 7 THEN c.A[7] ELSE 0]]
    IN  \A p \in {do_movem([cpu EXCEPT !.fault = FALSE], push)} : ~p.fault =>
          \A k \in {do_movem(Wiped(p), pull)} :
            /\ k.A[7] = cpu.A[7]
            /\ \A i \in list : IF i < 8 THEN k.D[i] = sext(cpu.D[i], sz)
                               ELSE i # 15 => k.A[i - 8] = sext(cpu.A[i - 8], sz)

\* An instruction that reads and writes its operand moves (An)+ or -(An) once,
\* as far as one that only reads it.
OperandSteppedOnce ==
  Fresh => \A ins \in Instructions :
    ins.mn \in {"ADDQ", "NOT", "NEGX", "BSET", "TAS", "ADDI", "ASL"} /\ ins.ea.mode \in {3, 4} =>
      LET sz == IF ins.mn \in {"TAS", "BSET"} THEN "B" ELSE ins.sz
      IN  \A d \in {exec_one(Entered(ins), Fetched(ins))} : ~d.fault =>
            d.A = exec_one(Entered(ins), [Fetched(ins) EXCEPT !.mn = "TST", !.sz = sz]).A

\* What an instruction takes off or puts on a stack, another takes back: frames,
\* register lists, and the one step of a pointer; and a faulted store leaves its
\* frame what the handler needs.
FramesRestore == ReturnRestores /\ MovemRestores /\ OperandSteppedOnce /\ FaultedStoreHasFlags

\* No device time is lost or given twice: what the devices have been ticked and
\* what is deferred add up to the cost of all instructions and exceptions, when
\* a handler's first instruction traps or faults too.
TimeConserved == ticked + acc = charged

\* The comment of do_div says that the vector of a division by zero is
\* delivered by the surrounding instruction path.
ZeroDivideTraps ==
  [][\A ins \in Instructions :
       ins.mn \in {"DIVU", "DIVS"} /\ Execute(ins) /\ ~cpu'.fault
         /\ Low(read_ea(Entered(ins), Fetched(ins), "W").val, "W") = 0
       => pc' = Handler[5]]_vars
=============================================================================
