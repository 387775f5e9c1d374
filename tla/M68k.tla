--------------------------------- MODULE M68k ---------------------------------
(***************************************************************************)
(* The instruction set of the interpreter (runner/src/m68k_interp.c and    *)
(* m68k_arith.c) over the memory accessors of runner/src/cdi_bus.c.        *)
(*                                                                         *)
(* Every operator takes and returns the machine c. An instruction is a     *)
(* sequence of effects, and an access to an unmapped address stops it      *)
(* where it is (the longjmp of m68k_interp_bus_error): c.fault is set, no   *)
(* later effect happens, and the earlier ones stay.                        *)
(*                                                                         *)
(* A byte has ByteBits bits, a word two bytes, a long four. The status     *)
(* register is a record, and packs into one word of any such width: of the *)
(* bits without a meaning, which RTR takes three of and STOP all of and    *)
(* RTE drops, none is kept, and nothing but a copy of SR shows them. What  *)
(* the decoder (external) extracts from the opcode is the record ins; its  *)
(* extension words are the sequence ins.ext, and ins.brief is what each of *)
(* them is as the brief extension word of an index.                        *)
(***************************************************************************)
EXTENDS Integers, Sequences

CONSTANTS
  ByteBits,     \* 8
  Ten,          \* the radix of a packed decimal digit, 10
  TopLevel,     \* the highest interrupt level, 7
  Ram,          \* the addresses that answer
  Handler       \* the vector table: vector -> address of its handler

Bits == [B |-> ByteBits, W |-> 2 * ByteBits, L |-> 4 * ByteBits]
szbytes == [B |-> 1, W |-> 2, L |-> 4]

Low(v, sz) == v % 2^Bits[sz]
Msb(v, sz) == Low(v, sz) \div 2^(Bits[sz] - 1)
Signed(v, sz) == Low(v, sz) - Msb(v, sz) * 2^Bits[sz]
sext(v, sz) == Low(Signed(v, sz), "L")
Flag(p) == IF p THEN 1 ELSE 0

\* SR as the word that is stacked.
PackSR(s) == s.C + 2 * s.V + 4 * s.Z + 8 * s.N + 16 * s.X
             + 32 * s.I + 32 * (TopLevel + 1) * s.S
UnpackSR(w) ==
  [C |-> w % 2, V |-> (w \div 2) % 2, Z |-> (w \div 4) % 2, N |-> (w \div 8) % 2,
   X |-> (w \div 16) % 2, I |-> (w \div 32) % (TopLevel + 1),
   S |-> (w \div (32 * (TopLevel + 1))) % 2]
PackCCR(s) == PackSR([s EXCEPT !.I = 0, !.S = 0])
WithCCR(s, w) == [UnpackSR(w % 32) EXCEPT !.I = s.I, !.S = s.S]

-----------------------------------------------------------------------------
(* Effects. *)

\* An effect of the instruction, unless a bus error has ended it.
Then(c, d) == IF c.fault THEN c ELSE d

SetD(c, r, v) == Then(c, [c EXCEPT !.D[r] = Low(v, "L")])
SetA(c, r, v) == Then(c, [c EXCEPT !.A[r] = Low(v, "L")])
SetSR(c, s) == Then(c, [c EXCEPT !.sr = s])
AddA(c, r, n) == SetA(c, r, c.A[r] + n)
GoTo(c, a) == Then(c, [c EXCEPT !.next = a])

\* .B and .W keep the upper bits of the register.
store_dn(c, r, v, sz) == SetD(c, r, c.D[r] - Low(c.D[r], sz) + Low(v, sz))

-----------------------------------------------------------------------------
(* The bus: big-endian; a long is two words, high word first. *)

Fault(c) == Then(c, [c EXCEPT !.fault = TRUE])

read8(c, a) == IF a \in Ram THEN Then(c, [c EXCEPT !.val = c.mem[a]]) ELSE Fault(c)
read16(c, a) ==
  IF a \in Ram THEN Then(c, [c EXCEPT !.val = c.mem[a] * 2^ByteBits + c.mem[a + 1]])
               ELSE Fault(c)
Joined(hi, lo) == Then(lo, [lo EXCEPT !.val = hi.val * 2^Bits["W"] + lo.val])
LowWord(hi, a) == Joined(hi, read16(hi, Low(a + 2, "L")))
read32(c, a) == LowWord(read16(c, a), a)

write8(c, a, v) == IF a \in Ram THEN Then(c, [c EXCEPT !.mem[a] = Low(v, "B")]) ELSE Fault(c)
write16(c, a, v) ==
  IF a \in Ram
  THEN Then(c, [c EXCEPT !.mem[a] = Low(v \div 2^ByteBits, "B"), !.mem[a + 1] = Low(v, "B")])
  ELSE Fault(c)
write32(c, a, v) ==
  write16(write16(c, a, Low(v \div 2^Bits["W"], "W")), Low(a + 2, "L"), Low(v, "W"))

mem_read(c, sz, a) ==
  CASE sz = "B" -> read8(c, a) [] sz = "W" -> read16(c, a) [] sz = "L" -> read32(c, a)
mem_write(c, sz, a, v) ==
  CASE sz = "B" -> write8(c, a, v) [] sz = "W" -> write16(c, a, Low(v, "W"))
    [] sz = "L" -> write32(c, a, v)

OnStack(c, sz, v) == mem_write(c, sz, c.A[7], v)
push16(c, v) == OnStack(AddA(c, 7, -2), "W", v)
push32(c, v) == OnStack(AddA(c, 7, -4), "L", v)
pop16(c) == AddA(read16(c, c.A[7]), 7, 2)
pop32(c) == AddA(read32(c, c.A[7]), 7, 4)

-----------------------------------------------------------------------------
(* Effective addresses. c.er is the next extension word (ExtReader); the   *)
(* result is left in c.val.                                                *)

EA(mode, reg) == [mode |-> mode, reg |-> reg]
Val(c, v) == Then(c, [c EXCEPT !.val = v])
Skip(c, n) == Then(c, [c EXCEPT !.er = @ + n])
Ext(c, ins) == ins.ext[c.er]

\* The brief extension word: index register, its width, an 8-bit displacement.
Index(c, x, long) ==
  LET r == IF x.xtype = 1 THEN c.A[x.xreg] ELSE c.D[x.xreg]
  IN  (IF long THEN Signed(r, "L") ELSE Signed(r, "W")) + Signed(x.d8, "B")

PcBase(c, ins) == ins.addr + 2 * c.er

er_next_imm(c, ins, sz) ==
  IF sz = "L" THEN Skip(Val(c, Ext(c, ins) * 2^Bits["W"] + ins.ext[c.er + 1]), 2)
              ELSE Skip(Val(c, Low(Ext(c, ins), sz)), 1)

\* addr_ea; do_movem has its own copy, whose index is always a word.
AddrEa(c, ins, ea, longIndex) ==
  LET x == ins.brief[c.er]
      indexed == ea.mode = 6 \/ ea = EA(7, 3)
      base == IF ea.mode # 7 THEN c.A[ea.reg] ELSE IF ea.reg = 0 THEN 0 ELSE PcBase(c, ins)
  IN  CASE ea.mode = 2 -> Val(c, c.A[ea.reg])
        [] ea = EA(7, 1) -> er_next_imm(c, ins, "L")
        [] ea.mode \in {5, 6} \/ ea \in {EA(7, 0), EA(7, 2), EA(7, 3)} ->
             Skip(Val(c, Low(base + IF indexed THEN Index(c, x, longIndex /\ x.long)
                                    ELSE Signed(Ext(c, ins), "W"), "L")), 1)
        [] OTHER -> Val(c, 0)

addr_ea(c, ins) == AddrEa(c, ins, ins.ea, TRUE)

\* A7 stays even.
Step(ea, sz) == IF ea.reg = 7 /\ sz = "B" THEN 2 ELSE szbytes[sz]

\* Where an operand in memory is; back: -(An) steps first.  (An)+ steps last.
AtRegister(c, r) == Val(c, c.A[r])
Located(c, ins, ea, sz, back) ==
  IF ea.mode \in {3, 4}
  THEN AtRegister(IF ea.mode = 4 /\ back THEN AddA(c, ea.reg, -Step(ea, sz)) ELSE c, ea.reg)
  ELSE AddrEa(c, ins, ea, TRUE)
Stepped(c, ea, sz) == IF ea.mode = 3 THEN AddA(c, ea.reg, Step(ea, sz)) ELSE c

ReadAt(c, sz) == mem_read(c, sz, c.val)
WriteAt(c, sz, v) == mem_write(c, sz, c.val, v)

ReadMemory(c, ea, sz, rmw) == IF rmw THEN c ELSE Stepped(c, ea, sz)
read_ea_ex(c, ins, ea, sz, rmw) ==
  CASE ea.mode = 0 -> Val(c, c.D[ea.reg])
    [] ea.mode = 1 -> Val(c, c.A[ea.reg])
    [] ea = EA(7, 4) -> er_next_imm(c, ins, sz)
    [] OTHER -> ReadMemory(ReadAt(Located(c, ins, ea, sz, TRUE), sz), ea, sz, rmw)

read_ea(c, ins, sz) == read_ea_ex(c, ins, ins.ea, sz, FALSE)

write_ea_ex(c, ins, ea, sz, v, rmw) ==
  CASE ea.mode = 0 -> store_dn(c, ea.reg, v, sz)
    [] ea.mode = 1 -> Then(c, [c EXCEPT !.illegal = TRUE])
    [] ea.mode = 7 /\ ea.reg > 1 -> c
    [] OTHER -> Stepped(WriteAt(Located(c, ins, ea, sz, ~rmw), sz, v), ea, sz)

write_ea(c, ins, ea, sz, v) == write_ea_ex(c, ins, ea, sz, v, FALSE)

\* Read, compute (Op sets the flags and leaves the result in val), rewind the
\* extension words, write.
Computed(r, sz, Op(_, _)) == Then(r, Op(r, Low(r.val, sz)))
WrittenBack(f, er, ins, sz) == write_ea_ex([f EXCEPT !.er = er], ins, ins.ea, sz, f.val, TRUE)
Rmw(c, ins, sz, Op(_, _)) ==
  WrittenBack(Computed(read_ea_ex(c, ins, ins.ea, sz, TRUE), sz, Op), c.er, ins, sz)

-----------------------------------------------------------------------------
(* Flags and conditions. *)

flags_logic(c, v, sz) ==
  SetSR(c, [c.sr EXCEPT !.N = Msb(v, sz), !.Z = Flag(Low(v, sz) = 0), !.V = 0, !.C = 0])

flags_add(c, a, b, r, sz) ==
  LET carry == Flag(Low(a, sz) + Low(b, sz) >= 2^Bits[sz])
  IN  SetSR(c, [c.sr EXCEPT !.N = Msb(r, sz), !.Z = Flag(Low(r, sz) = 0),
                            !.C = carry, !.X = carry,
                            !.V = Flag(Msb(a, sz) = Msb(b, sz) /\ Msb(a, sz) # Msb(r, sz))])

flags_cmp(c, a, b, r, sz) ==
  SetSR(c, [c.sr EXCEPT !.N = Msb(r, sz), !.Z = Flag(Low(r, sz) = 0),
                        !.C = Flag(Low(b, sz) > Low(a, sz)),
                        !.V = Flag(Msb(a, sz) # Msb(b, sz) /\ Msb(a, sz) # Msb(r, sz))])

XFromC(c) == SetSR(c, [c.sr EXCEPT !.X = c.sr.C])
flags_sub(c, a, b, r, sz) == XFromC(flags_cmp(c, a, b, r, sz))

eval_cond(s, cc) ==
  CASE cc = "T" -> TRUE                     [] cc = "F" -> FALSE
    [] cc = "HI" -> s.C = 0 /\ s.Z = 0      [] cc = "LS" -> s.C = 1 \/ s.Z = 1
    [] cc = "CC" -> s.C = 0                 [] cc = "CS" -> s.C = 1
    [] cc = "NE" -> s.Z = 0                 [] cc = "EQ" -> s.Z = 1
    [] cc = "VC" -> s.V = 0                 [] cc = "VS" -> s.V = 1
    [] cc = "PL" -> s.N = 0                 [] cc = "MI" -> s.N = 1
    [] cc = "GE" -> s.N = s.V               [] cc = "LT" -> s.N # s.V
    [] cc = "GT" -> s.Z = 0 /\ s.N = s.V    [] cc = "LE" -> s.Z = 1 \/ s.N # s.V

-----------------------------------------------------------------------------
(* Shifts and rotates: the value, the bit shifted out, the overflow. *)

RotateLeft(w, n, period) == (w % 2^(period - n)) * 2^n + w \div 2^(period - n)

ShiftLeft(sv, n, sz) ==
  [r |-> IF n < Bits[sz] THEN Low((sv % 2^(Bits[sz] - n)) * 2^n, sz) ELSE 0,
   c |-> IF n \in 1 .. Bits[sz] THEN (sv \div 2^(Bits[sz] - n)) % 2 ELSE 0,
   v |-> 0]

\* Faulty variant: the sign is compared before and after only, as generated C does.
Faulty_SignMoved(sv, n, sz) == Msb(sv, sz) # Msb(ShiftLeft(sv, n, sz).r, sz)

\* ASL: the top n + 1 bits are neither all 0 nor all 1.
SignMoved(sv, n, sz) ==
  IF n >= Bits[sz] THEN n > 0 /\ sv # 0
  ELSE n > 0 /\ sv \div 2^(Bits[sz] - 1 - n) \notin {0, 2^(n + 1) - 1}

Shift(mn, sv, n, sz, x) ==
  LET b == Bits[sz]
      wide == sv + x * 2^b
      Through(k) == LET w == RotateLeft(wide, k, b + 1)
                    IN  [r |-> Low(w, sz), c |-> w \div 2^b, v |-> 0]
  IN  CASE mn = "LSL" -> ShiftLeft(sv, n, sz)
        [] mn = "ASL" -> [ShiftLeft(sv, n, sz) EXCEPT !.v = Flag(SignMoved(sv, n, sz))]
        [] mn = "LSR" -> [r |-> IF n < b THEN sv \div 2^n ELSE 0,
                          c |-> IF n \in 1 .. b THEN (sv \div 2^(n - 1)) % 2 ELSE 0, v |-> 0]
        [] mn = "ASR" -> [r |-> IF n < b THEN Low(Signed(sv, sz) \div 2^n, sz)
                                ELSE IF Signed(sv, sz) < 0 THEN 2^b - 1 ELSE 0,
                          c |-> IF n = 0 THEN 0
                                ELSE IF n < b THEN (sv \div 2^(n - 1)) % 2 ELSE Msb(sv, sz),
                          v |-> 0]
        [] mn = "ROL" -> LET r == RotateLeft(sv, n % b, b)
                         IN  [r |-> r, c |-> IF n = 0 THEN 0 ELSE r % 2, v |-> 0]
        [] mn = "ROR" -> LET r == RotateLeft(sv, (b - (n % b)) % b, b)
                         IN  [r |-> r, c |-> IF n = 0 THEN 0 ELSE Msb(r, sz), v |-> 0]
        [] mn = "ROXL" -> Through(n % (b + 1))
        [] mn = "ROXR" -> Through((b + 1 - (n % (b + 1))) % (b + 1))

Rotates == {"ROL", "ROR"}
Shifts == Rotates \cup {"LSL", "LSR", "ASL", "ASR", "ROXL", "ROXR"}

\* The tail that every shift shares; a rotate, and a count of zero in a
\* register, leave X alone.
ShiftFlags(c, mn, s, sz, zero) ==
  SetSR(c, [c.sr EXCEPT !.Z = Flag(s.r = 0), !.N = Msb(s.r, sz),
              !.C = IF zero THEN 0 ELSE s.c,
              !.X = IF mn \in Rotates \/ zero THEN @ ELSE s.c,
              !.V = IF mn \in Rotates \/ zero THEN 0 ELSE s.v])

CountMask == 2 * Bits["L"]     \* 64

Shifted(c, ins, s, zero) ==
  ShiftFlags(store_dn(c, ins.reg, s.r, ins.sz), ins.mn, s, ins.sz, zero)

do_shift(c, ins) ==
  LET n == (IF ins.bycount THEN c.D[ins.creg] ELSE ins.imm) % CountMask
  IN  Shifted(c, ins, Shift(ins.mn, Low(c.D[ins.reg], ins.sz), n, ins.sz, c.sr.X),
              ins.mn \notin Rotates /\ ins.bycount /\ n = 0)

\* One bit, of a word in memory.
MemShift(mn, sv, x) ==
  LET top == Msb(sv, "W")
      half == sv \div 2
      left == Low(2 * sv, "W")
      R(r, c) == [r |-> r, c |-> c, v |-> 0]
  IN  CASE mn = "LSL" -> R(left, top)
        [] mn = "ASL" -> [R(left, top) EXCEPT !.v = Flag(top # Msb(left, "W"))]
        [] mn = "LSR" -> R(half, sv % 2)
        [] mn = "ASR" -> R(half + top * 2^(Bits["W"] - 1), sv % 2)
        [] mn = "ROL" -> R(left + top, top)
        [] mn = "ROR" -> R(half + (sv % 2) * 2^(Bits["W"] - 1), sv % 2)
        [] mn = "ROXL" -> R(left + x, top)
        [] mn = "ROXR" -> R(half + x * 2^(Bits["W"] - 1), sv % 2)

MemShifted(c, mn, s) == Val(ShiftFlags(c, mn, s, "W", FALSE), s.r)
do_mem_shift(c, ins) ==
  Rmw(c, ins, "W", LAMBDA k, a : MemShifted(k, ins.mn, MemShift(ins.mn, a, k.sr.X)))

-----------------------------------------------------------------------------
(* Division, extended and decimal arithmetic. *)

Abs(n) == IF n < 0 THEN -n ELSE n
\* C's division: towards zero.
Quotient(a, b) == IF (a < 0) # (b < 0) THEN -(Abs(a) \div Abs(b)) ELSE Abs(a) \div Abs(b)

Division(a, b, q, signed) ==
  IF q \in IF signed THEN -(2^(Bits["W"] - 1)) .. 2^(Bits["W"] - 1) - 1 ELSE 0 .. 2^Bits["W"] - 1
  THEN [status |-> "OK", result |-> Low(a - q * b, "W") * 2^Bits["W"] + Low(q, "W"),
        N |-> Msb(q, "W"), Z |-> Flag(Low(q, "W") = 0), V |-> 0]
  ELSE [status |-> "OVERFLOW", N |-> 1, Z |-> 0, V |-> 1]

m68k_divide_word(dividend, divisor, signed) ==
  LET a == IF signed THEN Signed(dividend, "L") ELSE dividend
      b == IF signed THEN Signed(divisor, "W") ELSE divisor
  IN  IF divisor = 0 THEN [status |-> "BY_ZERO", N |-> 0, Z |-> 0, V |-> 0]
      ELSE Division(a, b, Quotient(a, b), signed)

Divided(c, r, d) ==
  SetSR(IF d.status = "OK" THEN SetD(c, r, d.result) ELSE c,
        [c.sr EXCEPT !.N = d.N, !.Z = d.Z, !.V = d.V, !.C = 0])
do_div(c, r, divisor, signed) == Divided(c, r, m68k_divide_word(c.D[r], divisor, signed))

\* The operands of ADDX, SUBX, ABCD and SBCD: two data registers, or -(Ay),-(Ax)
\* where both registers step back, the source first.
Predecremented(c, r, sz) == ReadAt(AtRegister(AddA(c, r, -Step(EA(4, r), sz)), r), sz)
Pair(c, a, b) == [c |-> c, a |-> a, b |-> b]
Taken(x, y) == Pair(x, x.val, y.val)
FromMemory(y, ins, sz) == Taken(Predecremented(y, ins.reg, sz), y)
OperandPair(c, ins, sz) ==
  IF ins.predec THEN FromMemory(Predecremented(c, ins.ea.reg, sz), ins, sz)
  ELSE Pair(c, c.D[ins.reg], c.D[ins.ea.reg])

\* The result goes where the first operand was.
PairResult(c, ins, sz, r) ==
  IF ins.predec THEN mem_write(c, sz, c.A[ins.reg], r) ELSE store_dn(c, ins.reg, r, sz)

StickyZ(c, r) == IF r = 0 THEN c.sr.Z ELSE 0

ExtendedFlags(c, a, b, r, borrow, adding, sz) ==
  SetSR(c, [c.sr EXCEPT !.Z = StickyZ(c, r), !.N = Msb(r, sz), !.C = borrow, !.X = borrow,
              !.V = Flag(/\ adding <=> Msb(a, sz) = Msb(b, sz)
                         /\ Msb(a, sz) # Msb(r, sz))])

Extended(p, full, ins, adding) ==
  PairResult(ExtendedFlags(p.c, p.a, p.b, Low(full, ins.sz), Flag(full \notin 0 .. 2^Bits[ins.sz] - 1),
                           adding, ins.sz),
             ins, ins.sz, Low(full, ins.sz))

AddedOrSubtracted(p, ins, adding) ==
  LET a == Low(p.a, ins.sz)
      b == Low(p.b, ins.sz)
  IN  Extended(p, IF adding THEN a + b + p.c.sr.X ELSE a - b - p.c.sr.X, ins, adding)

do_addx_subx(c, ins, adding) == AddedOrSubtracted(OperandPair(c, ins, ins.sz), ins, adding)

Radix == 2^(ByteBits \div 2)      \* 16
Adjust == Radix - Ten             \* 6

bcd_add(a, b, x) ==
  LET lo == (a % Radix) + (b % Radix) + x
      lo2 == IF lo >= Ten THEN lo + Adjust ELSE lo
      hi == a \div Radix + b \div Radix + lo2 \div Radix
      full == (IF hi >= Ten THEN hi + Adjust ELSE hi) * Radix + (lo2 % Radix)
  IN  [r |-> Low(full, "B"), c |-> (full \div 2^ByteBits) % 2]

bcd_sub(a, b, x) ==
  LET lo == (a % Radix) - (b % Radix) - x
      hi == a \div Radix - b \div Radix - Flag(lo < 0)
      full == Low(hi, "B") * Radix - (IF hi < 0 THEN Adjust * Radix ELSE 0)
              + ((IF lo < 0 THEN lo - Adjust ELSE lo) % Radix)
  IN  [r |-> Low(full, "B"), c |-> Flag(hi < 0)]

do_bcd_flags(c, s) ==
  SetSR(c, [c.sr EXCEPT !.V = 0, !.Z = StickyZ(c, s.r), !.C = s.c, !.X = s.c,
                        !.N = Msb(s.r, "B")])

\* ABCD and SBCD; NBCD is the subtraction from nothing, of any operand.
DecimalOf(p, ins) ==
  IF ins.mn = "ABCD" THEN bcd_add(Low(p.a, "B"), Low(p.b, "B"), p.c.sr.X)
                     ELSE bcd_sub(Low(p.a, "B"), Low(p.b, "B"), p.c.sr.X)
Decimal(c, ins, s) == PairResult(do_bcd_flags(c, s), ins, "B", s.r)
DecimalPair(p, ins) == Decimal(p.c, ins, DecimalOf(p, ins))
do_bcd(c, ins) == DecimalPair(OperandPair(c, ins, "B"), ins)

Negated(c, s) == Val(do_bcd_flags(c, s), s.r)
do_nbcd(c, ins) == Rmw(c, ins, "B", LAMBDA k, a : Negated(k, bcd_sub(0, a, k.sr.X)))

-----------------------------------------------------------------------------
(* MOVEM: bit i of the mask, in the order of the loop. ins.mask is the set  *)
(* of the bits that are 1; the pair is the machine and the address mb.      *)

MovemBase(c, ins) ==
  IF ins.ea.mode \in {2, 3, 4} THEN Val(c, c.A[ins.ea.reg])
  ELSE AddrEa([c EXCEPT !.er = 2], ins, ins.ea, FALSE)

Reg(c, i) == IF i < 8 THEN c.D[i] ELSE c.A[i - 8]
Reversed(c, i) == IF i < 8 THEN c.A[7 - i] ELSE c.D[15 - i]
LoadedReg(c, i, sz) ==
  IF i < 8 THEN SetD(c, i, sext(c.val, sz)) ELSE SetA(c, i - 8, sext(c.val, sz))

\* A register list to -(An) goes down, and in the reversed order of the mask.
MovemOne(ins, c, mb, i) ==
  LET sz == ins.sz
      down == ins.ea.mode = 4 /\ ~ins.load
      at == Low(mb - szbytes[sz], "L")
  IN  <<IF ins.load THEN LoadedReg(mem_read(c, sz, mb), i, sz)
        ELSE mem_write(c, sz, IF down THEN at ELSE mb, IF down THEN Reversed(c, i) ELSE Reg(c, i)),
        IF down THEN at ELSE Low(mb + szbytes[sz], "L")>>

\* The loop over the sixteen bits, by two, four and eight.
MovemBit(ins, acc, i) == IF i \in ins.mask THEN MovemOne(ins, acc[1], acc[2], i) ELSE acc
Movem2(ins, acc, i) == MovemBit(ins, MovemBit(ins, acc, i), i + 1)
Movem4(ins, acc, i) == Movem2(ins, Movem2(ins, acc, i), i + 2)
Movem8(ins, acc, i) == Movem4(ins, Movem4(ins, acc, i), i + 4)
MovemAll(b, ins) == Movem8(ins, Movem8(ins, <<b, b.val>>, 0), 8)

MovemDone(acc, ins) ==
  IF ins.ea.mode = 3 \/ (ins.ea.mode = 4 /\ ~ins.load) THEN SetA(acc[1], ins.ea.reg, acc[2])
  ELSE acc[1]

do_movem(c, ins) == MovemDone(MovemAll(MovemBase(c, ins), ins), ins)

-----------------------------------------------------------------------------
(* The status register, exceptions and STOP (runtime.c). *)

\* A7 is the stack pointer of the mode: the other is in USP or SSP.
m68k_set_sr(c, s) ==
  Then(c, IF c.sr.S = s.S THEN [c EXCEPT !.sr = s]
          ELSE IF c.sr.S = 1 THEN [c EXCEPT !.sr = s, !.SSP = c.A[7], !.A[7] = c.USP]
          ELSE [c EXCEPT !.sr = s, !.USP = c.A[7], !.A[7] = c.SSP])

LongFormat == (Radix - 1) * (Radix * (Radix * Radix))  \* 0xF000: a format word is a long frame's from here on
LongTail == 26                       \* what a bus-error frame has beyond the short one

Zeros2(c, a) == write16(write16(c, a, 0), a + 2, 0)
Zeros4(c, a) == Zeros2(Zeros2(c, a), a + 4)
Zeros12(c, a) == Zeros4(Zeros4(Zeros4(c, a), a + 8), a + 16)

\* SR, PC and format word; the rest of a bus-error frame is nothing the guest's
\* RTE looks at.
FrameWords(c, a, sr, pc, format) ==
  write16(write32(write16(c, a, PackSR(sr)), a + 2, pc), a + 6, format)
LongRest(c, a, access) == IF access THEN write16(Zeros12(c, a + 8), a + 32, 0) ELSE c
Frame(c, sr, pc, vec, access) ==
  LongRest(FrameWords(c, c.A[7], sr, pc, vec + IF access THEN LongFormat ELSE 0), c.A[7], access)

build_exception_frame(c, vec, pc) ==
  LET access == vec \in {2, 3}
  IN  GoTo(Frame(AddA(m68k_set_sr(c, [c.sr EXCEPT !.S = 1]), 7,
                      IF access THEN -(8 + LongTail) ELSE -8),
                 c.sr, pc, vec, access),
           Handler[vec])

\* The whole frame comes off A7 before the SR may change which A7 that is.
Returned(f, pc, sr) == m68k_set_sr(GoTo(f, pc), UnpackSR(sr))
\* Faulty variant: the long frame is popped as a short one.
Faulty_FrameEnd(f) == f

FrameEnd(f) == IF f.val >= LongFormat THEN AddA(f, 7, LongTail) ELSE f
FrameFormat(p, sr) == Returned(FrameEnd(pop16(p)), p.val, sr)
FramePc(s) == FrameFormat(pop32(s), s.val)

exec_rte(c) == FramePc(pop16(c))

-----------------------------------------------------------------------------
(* exec_one, by group of mnemonics. c.next is the fall-through on entry. *)

\* MOVE sets the flags before it stores, so that the frame of a faulting store has them.
Moved(c, ins) == write_ea(flags_logic(c, c.val, ins.sz), ins, ins.dst, ins.sz, c.val)

FromOperand(v, ins) ==
  CASE ins.mn = "MOVE" -> Moved(v, ins)
    [] ins.mn = "MOVEA" -> SetA(v, ins.reg, sext(v.val, ins.sz))
    [] ins.mn = "TST" -> flags_logic(v, v.val, ins.sz)

FromAddress(a, ins) == IF ins.mn = "LEA" THEN SetA(a, ins.reg, a.val) ELSE push32(a, a.val)

LoadLogic(c, r, v, sz) == flags_logic(store_dn(c, r, v, sz), v, sz)

Exchanged(c, ins) ==
  LET x == IF ins.opmode = "AA" THEN c.A[ins.reg] ELSE c.D[ins.reg]
      y == IF ins.opmode = "DD" THEN c.D[ins.ea.reg] ELSE c.A[ins.ea.reg]
      SetX(k, w) == IF ins.opmode = "AA" THEN SetA(k, ins.reg, w) ELSE SetD(k, ins.reg, w)
      SetY(k, w) == IF ins.opmode = "DD" THEN SetD(k, ins.ea.reg, w) ELSE SetA(k, ins.ea.reg, w)
  IN  SetY(SetX(c, y), x)

ExecMove(c, ins) ==
  LET r == c.D[ins.reg]
  IN  CASE ins.mn \in {"MOVE", "MOVEA", "TST"} -> FromOperand(read_ea(c, ins, ins.sz), ins)
        [] ins.mn \in {"LEA", "PEA"} -> FromAddress(addr_ea(c, ins), ins)
        [] ins.mn = "CLR" -> write_ea(flags_logic(c, 0, ins.sz), ins, ins.ea, ins.sz, 0)
        [] ins.mn = "MOVEQ" -> LoadLogic(c, ins.reg, sext(ins.imm, "B"), "L")
        [] ins.mn = "EXT" -> LoadLogic(c, ins.reg, sext(r, IF ins.sz = "W" THEN "B" ELSE "W"),
                                       IF ins.sz = "W" THEN "W" ELSE "L")
        [] ins.mn = "SWAP" -> LoadLogic(c, ins.reg, RotateLeft(r, Bits["W"], Bits["L"]), "L")
        [] ins.mn = "EXG" -> Exchanged(c, ins)

\* AND, OR and EOR of two numbers of at most 32 bits, half by half.
LogicBit(op, a, b) == CASE op = "AND" -> a * b [] op = "OR" -> a + b - a * b [] op = "EOR" -> (a + b) % 2
Logic2(op, a, b) == 2 * LogicBit(op, a \div 2, b \div 2) + LogicBit(op, a % 2, b % 2)
Logic4(op, a, b) == 4 * Logic2(op, a \div 4, b \div 4) + Logic2(op, a % 4, b % 4)
Logic8(op, a, b) == 16 * Logic4(op, a \div 16, b \div 16) + Logic4(op, a % 16, b % 16)
Logic16(op, a, b) == 256 * Logic8(op, a \div 256, b \div 256) + Logic8(op, a % 256, b % 256)
Logic(op, a, b) == 65536 * Logic16(op, a \div 65536, b \div 65536) + Logic16(op, a % 65536, b % 65536)

\* The result, with the flags of the operation.
Alu(c, op, a, b, sz) ==
  CASE op = "ADD" -> Val(flags_add(c, a, b, a + b, sz), Low(a + b, sz))
    [] op = "SUB" -> Val(flags_sub(c, a, b, a - b, sz), Low(a - b, sz))
    [] op \in {"AND", "OR", "EOR"} -> Val(flags_logic(c, Logic(op, a, b), sz), Logic(op, a, b))

\* Dn <-> EA: ADD, SUB, AND, OR, EOR and CMP. EOR is always towards the EA.
ToRegister(r, ins) == store_dn(r, ins.reg, r.val, ins.sz)
WithOperand(v, ins, d, b) ==
  IF ins.mn = "CMP" THEN flags_cmp(v, d, b, d - b, ins.sz)
  ELSE ToRegister(Then(v, Alu(v, ins.mn, d, b, ins.sz)), ins)
OnRegister(v, ins) == WithOperand(v, ins, Low(v.D[ins.reg], ins.sz), Low(v.val, ins.sz))

ExecAlu(c, ins) ==
  IF ins.mn = "EOR" \/ (ins.toEa /\ ins.mn # "CMP")
  THEN Rmw(c, ins, ins.sz, LAMBDA k, a : Alu(k, ins.mn, a, Low(c.D[ins.reg], ins.sz), ins.sz))
  ELSE OnRegister(read_ea(c, ins, ins.sz), ins)

\* ADDA, SUBA, CMPA and CMPM (Ay)+,(Ax)+.
OnAddress(v, ins, w) ==
  CASE ins.mn = "ADDA" -> SetA(v, ins.reg, v.A[ins.reg] + w)
    [] ins.mn = "SUBA" -> SetA(v, ins.reg, v.A[ins.reg] - w)
    [] ins.mn = "CMPA" -> flags_cmp(v, v.A[ins.reg], w, v.A[ins.reg] - w, "L")
WithSource(v, ins) == OnAddress(v, ins, sext(v.val, ins.sz))

PostIncremented(c, r, sz) == Stepped(ReadAt(AtRegister(c, r), sz), EA(3, r), sz)
Compared(x, y, ins) == flags_cmp(x, x.val, y.val, x.val - y.val, ins.sz)
SecondOperand(y, ins) == Compared(PostIncremented(y, ins.reg, ins.sz), y, ins)

ExecAddress(c, ins) ==
  IF ins.mn = "CMPM" THEN SecondOperand(PostIncremented(c, ins.ea.reg, ins.sz), ins)
  ELSE WithSource(read_ea(c, ins, ins.sz), ins)

\* ADDQ and SUBQ: to an address register, all of it and without flags.
ExecQuick(c, ins) ==
  LET q == IF ins.imm = 0 THEN 8 ELSE ins.imm
      op == IF ins.mn = "ADDQ" THEN "ADD" ELSE "SUB"
  IN  IF ins.ea.mode = 1 THEN AddA(c, ins.ea.reg, IF op = "ADD" THEN q ELSE -q)
      ELSE Rmw(c, ins, ins.sz, LAMBDA k, a : Alu(k, op, a, q, ins.sz))

ImmediateOp == [ADDI |-> "ADD", SUBI |-> "SUB", ANDI |-> "AND", ORI |-> "OR", EORI |-> "EOR"]

\* The immediate comes first in the extension words; CMPI only reads.
ComparedTo(v, ins, i) == flags_cmp(v, Low(v.val, ins.sz), i, Low(v.val, ins.sz) - i, ins.sz)
WithImmediate(c, ins, i) ==
  IF ins.mn = "CMPI" THEN ComparedTo(read_ea(c, ins, ins.sz), ins, i)
  ELSE Rmw(c, ins, ins.sz, LAMBDA k, b : Alu(k, ImmediateOp[ins.mn], b, i, ins.sz))
AfterImmediate(c, ins) == WithImmediate(c, ins, c.val)
ExecImmediate(c, ins) == AfterImmediate(er_next_imm(c, ins, ins.sz), ins)

\* Subroutines: back is the return address, if any is pushed.
ToVal(c) == GoTo(c, c.val)
Called(c, back, to) == GoTo(push32(c, back), to)
Jumped(c, ins, back) == IF ins.mn = "JMP" THEN ToVal(c) ELSE Called(c, back, c.val)
PoppedCCR(p) == ToVal(pop32(SetSR(p, WithCCR(p.sr, p.val))))
Halted(c) == Then(c, [c EXCEPT !.halted = TRUE])

\* The count is a word; -1 ends the loop.
Decremented(c, ins, n) ==
  GoTo(store_dn(c, ins.reg, n, "W"), IF Signed(n, "W") # -1 THEN ins.target ELSE c.next)

ExecBranch(c, ins) ==
  CASE ins.mn \in {"NOP", "RESET"} -> c
    [] ins.mn = "BRA" -> GoTo(c, ins.target)
    [] ins.mn = "Bcc" -> IF eval_cond(c.sr, ins.cc) THEN GoTo(c, ins.target) ELSE c
    [] ins.mn = "BSR" -> Called(c, c.next, ins.target)
    [] ins.mn = "DBcc" -> IF eval_cond(c.sr, ins.cc) THEN c
                          ELSE Decremented(c, ins, Low(Low(c.D[ins.reg], "W") - 1, "W"))
    [] ins.mn \in {"JMP", "JSR"} -> Jumped(addr_ea(c, ins), ins, c.next)
    [] ins.mn = "RTS" -> ToVal(pop32(c))
    [] ins.mn = "RTR" -> PoppedCCR(pop16(c))
    [] ins.mn = "RTE" -> exec_rte(c)
    [] ins.mn = "TRAP" -> build_exception_frame(c, 32 + ins.imm, c.next)
    [] ins.mn = "STOP" -> Halted(m68k_set_sr(c, UnpackSR(ins.imm)))

\* BTST only reads; the bit number wraps at the operand's width.
Bit(v, n) == (v \div 2^n) % 2
Tested(c, v, n) == SetSR(c, [c.sr EXCEPT !.Z = 1 - Bit(v, n)])
NewBit(mn, v, n) ==
  CASE mn = "BCHG" -> 1 - Bit(v, n) [] mn = "BCLR" -> 0 [] mn = "BSET" -> 1
TestedOnly(t, sz, n) == Tested(t, Low(t.val, sz), n)

OnBit(c, ins, sz, n) ==
  IF ins.mn = "BTST" THEN TestedOnly(read_ea(c, ins, sz), sz, n)
  ELSE Rmw(c, ins, sz, LAMBDA m, v :
             Val(Tested(m, v, n), v + (NewBit(ins.mn, v, n) - Bit(v, n)) * 2^n))

ExecBit(c, ins) ==
  LET sz == IF ins.ea.mode = 0 THEN "L" ELSE "B"
  IN  OnBit(IF ins.static THEN [c EXCEPT !.er = 2] ELSE c, ins, sz,
            (IF ins.static THEN ins.imm ELSE c.D[ins.reg]) % Bits[sz])

negx(c, a, sz) ==
  LET r == Low(-(a + c.sr.X), sz)
      borrow == Flag(a + c.sr.X # 0)
  IN  Val(SetSR(c, [c.sr EXCEPT !.Z = StickyZ(c, r), !.N = Msb(r, sz), !.C = borrow,
                      !.X = borrow, !.V = Flag(a = 2^(Bits[sz] - 1) /\ c.sr.X = 0)]), r)

ExecUnary(c, ins) ==
  LET sz == IF ins.mn = "TAS" THEN "B" ELSE ins.sz
      top == 2^(ByteBits - 1)
      Op(k, a) ==
        CASE ins.mn = "NOT" -> LET r == 2^Bits[sz] - 1 - a IN Val(flags_logic(k, r, sz), r)
          [] ins.mn = "NEG" -> Val(flags_sub(k, 0, a, -a, sz), Low(-a, sz))
          [] ins.mn = "NEGX" -> negx(k, a, sz)
          [] ins.mn = "TAS" -> Val(flags_logic(k, a, "B"), (a % top) + top)
  IN  Rmw(c, ins, sz, Op)

Product(v, r, p) == flags_logic(SetD(v, r, p), p, "L")
MulDiv(v, ins, s, u) ==
  CASE ins.mn = "MULU" -> Product(v, ins.reg, u * s)
    [] ins.mn = "MULS" -> Product(v, ins.reg, Signed(u, "W") * Signed(s, "W"))
    [] ins.mn \in {"DIVU", "DIVS"} -> do_div(v, ins.reg, s, ins.mn = "DIVS")
ByOperand(v, ins) == MulDiv(v, ins, Low(v.val, "W"), Low(v.D[ins.reg], "W"))
ExecMulDiv(c, ins) == ByOperand(read_ea(c, ins, "W"), ins)

Linked(p, ins) == AddA(SetA(p, ins.reg, p.A[7]), 7, Signed(ins.ext[1], "W"))
Unlinked(r, ins) == AddA(SetA(r, ins.reg, r.val), 7, 4)
ExecLink(c, ins) ==
  IF ins.mn = "LINK"
  THEN Linked(push32(c, IF ins.reg = 7 THEN Low(c.A[7] - 4, "L") ELSE c.A[ins.reg]), ins)
  ELSE Unlinked(ReadAt(AtRegister(SetA(c, 7, c.A[ins.reg]), 7), "L"), ins)

\* Scc and the moves to and from SR, CCR and USP.
Mixed(ins, w) ==
  Logic(CASE ins.mn = "ORI" -> "OR" [] ins.mn = "ANDI" -> "AND" [] ins.mn = "EORI" -> "EOR", w, ins.imm)

ToStatus(v, ins) ==
  IF ins.mn = "MOVE_SR" THEN m68k_set_sr(v, UnpackSR(Low(v.val, "W")))
  ELSE SetSR(v, WithCCR(v.sr, v.val))

ExecStatus(c, ins) ==
  CASE ins.mn = "Scc" -> write_ea(c, ins, ins.ea, "B",
                                  IF eval_cond(c.sr, ins.cc) THEN 2^ByteBits - 1 ELSE 0)
    [] ins.mn \in {"MOVE_SR", "MOVE_CCR"} ->
         IF ins.toEa THEN write_ea(c, ins, ins.ea, "W",
                                   IF ins.mn = "MOVE_SR" THEN PackSR(c.sr) ELSE PackCCR(c.sr))
         ELSE ToStatus(read_ea(c, ins, "W"), ins)
    [] ins.mn = "MOVE_USP" -> IF ins.load THEN SetA(c, ins.reg, c.USP)
                              ELSE [c EXCEPT !.USP = c.A[ins.reg]]
    [] ins.mn \in {"ORI", "ANDI", "EORI"} /\ ins.sz = "W" ->
         m68k_set_sr(c, UnpackSR(Mixed(ins, PackSR(c.sr))))
    [] OTHER -> SetSR(c, WithCCR(c.sr, Mixed(ins, PackCCR(c.sr))))

exec_one(c, ins) ==
  CASE ins.mn \in {"MOVE", "MOVEA", "MOVEQ", "LEA", "PEA", "TST", "CLR", "EXT", "SWAP", "EXG"}
         -> ExecMove(c, ins)
    [] ins.mn \in {"ADD", "SUB", "AND", "OR", "EOR", "CMP"} -> ExecAlu(c, ins)
    [] ins.mn \in {"ADDA", "SUBA", "CMPA", "CMPM"} -> ExecAddress(c, ins)
    [] ins.mn \in {"ADDQ", "SUBQ"} -> ExecQuick(c, ins)
    [] ins.mn \in {"ORI", "ANDI", "EORI"} /\ ins.toSR -> ExecStatus(c, ins)
    [] ins.mn \in DOMAIN ImmediateOp \cup {"CMPI"} /\ ~ins.toSR -> ExecImmediate(c, ins)
    [] ins.mn \in {"NOP", "RESET", "BRA", "Bcc", "BSR", "DBcc", "JMP", "JSR", "RTS", "RTR", "RTE",
                   "TRAP", "STOP"} -> ExecBranch(c, ins)
    [] ins.mn \in Shifts -> IF ins.memshift THEN do_mem_shift(c, ins) ELSE do_shift(c, ins)
    [] ins.mn \in {"BTST", "BCHG", "BCLR", "BSET"} -> ExecBit(c, ins)
    [] ins.mn \in {"NEG", "NEGX", "NOT", "TAS"} -> ExecUnary(c, ins)
    [] ins.mn \in {"MULU", "MULS", "DIVU", "DIVS"} -> ExecMulDiv(c, ins)
    [] ins.mn = "MOVEM" -> do_movem(c, ins)
    [] ins.mn \in {"LINK", "UNLK"} -> ExecLink(c, ins)
    [] ins.mn \in {"Scc", "MOVE_SR", "MOVE_CCR", "MOVE_USP"} -> ExecStatus(c, ins)
    [] ins.mn \in {"ADDX", "SUBX"} -> do_addx_subx(c, ins, ins.mn = "ADDX")
    [] ins.mn \in {"ABCD", "SBCD"} -> do_bcd(c, ins)
    [] ins.mn = "NBCD" -> do_nbcd(c, ins)
    [] OTHER -> [c EXCEPT !.unimpl = TRUE]
=============================================================================
