--------------------------------- MODULE Jobs ---------------------------------
(***************************************************************************)
(* The native jobs that stand in for firmware routines: the rectangle fill *)
(* (cdi_memory_jobs.c), the process lookup (cdi_service_jobs.c) and the    *)
(* drawing queue (cdi_drawing_jobs.c).  A job does its own arithmetic and  *)
(* materialises CPU state only where someone may look: at an interrupt, a  *)
(* debugger's hold, a fallback to generated code, a callback, its end.     *)
(*                                                                         *)
(* firmware is the same routine run instruction by instruction by the      *)
(* interpreter on the same RAM.  The fill's opcodes are in cdi_memory_reset;*)
(* those of the other two are not in the repository and are read off the   *)
(* jobs' operations, whose costs the interpreter's table confirms.         *)
(* Between two operations a device may write RAM or raise an interrupt,    *)
(* and the debug server may forbid the job.  The number in a PC is that of *)
(* the operation.                                                          *)
(***************************************************************************)
EXTENDS Interp, SequencesExt

CONSTANTS
  JobEntries,     \* [kind, cpu]: a routine and the machine at its ordinary call
  TableOffset,    \* 68: where (A6) keeps the process table
  ErrorCode,      \* 0xE0
  Dma,            \* [at, value]: the bytes a device may write
  MaxEvents       \* bound on what happens between the operations

VARIABLES job, firmware

job_vars == <<job, firmware>>

ram(a, n) == Low(a, "L") \in Ram /\ Low(a, "L") + n - 1 \in Ram
ram_range(a, n) == a % 2 = 0 /\ ram(a, n)

-----------------------------------------------------------------------------
(* The routines as instructions. *)

At(op) == 2 * op
Ins(name, fields) == fields @@ [Plain EXCEPT !.mn = name, !.sz = "L", !.ext = <<0, 0>>]
Disp(reg) == EA(5, reg)
Off(n) == Low(n, "W")
On2(d) == <<Off(d), Off(d)>>

FillCode == <<
  Ins("MOVEM", [ea |-> EA(4, 7), mask |-> {15 - i : i \in {1, 2, 3, 4, 5, 6, 8}}]),
  Ins("MOVEA", [ea |-> EA(0, 0), reg |-> 0]),
  Ins("MOVE", [ea |-> Disp(7), ext |-> On2(32), dst |-> EA(0, 2)]),
  Ins("MOVE", [ea |-> Disp(7), ext |-> On2(40), dst |-> EA(0, 4)]),
  Ins("SUB", [ea |-> EA(0, 1), reg |-> 4]),
  Ins("MOVE", [ea |-> Disp(7), ext |-> On2(36), dst |-> EA(0, 3)]),
  Ins("SUBQ", [ea |-> EA(0, 2), imm |-> 1, sz |-> "W"]),
  Ins("SUBQ", [ea |-> EA(0, 1), imm |-> 1, sz |-> "W"]),
  Ins("MOVE", [ea |-> EA(0, 1), dst |-> EA(0, 5)]),
  Ins("MOVE", [ea |-> EA(0, 3), dst |-> EA(3, 0), sz |-> "B"]),
  Ins("DBcc", [cc |-> "F", reg |-> 1, target |-> At(9)]),
  Ins("ADDA", [ea |-> EA(0, 4), reg |-> 0]),
  Ins("MOVE", [ea |-> EA(0, 5), dst |-> EA(0, 1)]),
  Ins("DBcc", [cc |-> "F", reg |-> 2, target |-> At(9)]),
  Ins("MOVE", [ea |-> EA(1, 0), dst |-> EA(0, 0)]),
  Ins("MOVEM", [ea |-> EA(3, 7), mask |-> {1, 2, 3, 4, 5, 6, 8}, load |-> TRUE]),
  Ins("RTS", <<>>)>>

LookupCode == <<
  Ins("MOVEA", [ea |-> Disp(6), ext |-> On2(TableOffset), reg |-> 0]),
  Ins("CMP", [ea |-> EA(2, 0), reg |-> 0, sz |-> "W"]),
  Ins("Bcc", [cc |-> "HI", target |-> At(13)]),
  Ins("ASL", [reg |-> 0, imm |-> 2, sz |-> "W"]),
  Ins("Bcc", [cc |-> "EQ", target |-> At(13)]),
  Ins("ADDA", [ea |-> EA(0, 0), reg |-> 0, sz |-> "W"]),
  Ins("LSR", [reg |-> 0, imm |-> 2, sz |-> "W"]),
  Ins("Bcc", [cc |-> "EQ", target |-> At(13)]),
  Ins("MOVEA", [ea |-> EA(2, 0), reg |-> 1]),
  Ins("TST", [ea |-> EA(2, 0)]),
  Ins("Bcc", [cc |-> "EQ", target |-> At(13)]),
  Ins("CMP", [ea |-> EA(2, 1), reg |-> 0, sz |-> "W"]),
  Ins("Bcc", [cc |-> "EQ", target |-> At(15)]),
  Ins("MOVE", [ea |-> EA(7, 4), ext |-> <<ErrorCode>>, dst |-> EA(0, 1), sz |-> "W"]),
  Ins("ORI", [imm |-> 1, toSR |-> TRUE, sz |-> "B"]),
  Ins("RTS", <<>>)>>

\* The queue's words under (A6): where it starts, ends, is written, is read.
Start == -16
End == -12
Put == -8
Get == -4

DrawCode == <<
  Ins("LINK", [reg |-> 5]),
  Ins("MOVEM", [ea |-> EA(4, 7), mask |-> {15 - i : i \in {0, 4, 5, 8}}]),
  Ins("MOVE", [ea |-> EA(0, 0), dst |-> EA(0, 4)]),
  Ins("TST", [ea |-> EA(0, 4)]),
  Ins("Bcc", [cc |-> "EQ", target |-> At(24)]),
  Ins("MOVEQ", [imm |-> 0, reg |-> 5]),
  Ins("BRA", [target |-> At(21)]),
  Ins("MOVE", [ea |-> Disp(6), ext |-> On2(Put), dst |-> EA(0, 0)]),
  Ins("CMP", [ea |-> Disp(6), ext |-> On2(Get), reg |-> 0]),
  Ins("Bcc", [cc |-> "EQ", target |-> At(20)]),
  Ins("MOVEA", [ea |-> Disp(6), ext |-> On2(Get), reg |-> 0]),
  Ins("MOVE", [ea |-> Disp(0), ext |-> On2(4), dst |-> EA(0, 0)]),
  Ins("MOVEA", [ea |-> Disp(6), ext |-> On2(Get), reg |-> 0]),
  Ins("MOVEA", [ea |-> EA(2, 0), reg |-> 0]),
  Ins("JSR", [ea |-> EA(2, 0)]),
  Ins("ADDQ", [ea |-> Disp(6), ext |-> On2(Get), imm |-> 8]),
  Ins("MOVE", [ea |-> Disp(6), ext |-> On2(Get), dst |-> EA(0, 0)]),
  Ins("CMP", [ea |-> Disp(6), ext |-> On2(End), reg |-> 0]),
  Ins("Bcc", [cc |-> "LS", target |-> At(20)]),
  Ins("MOVE", [ea |-> Disp(6), dst |-> Disp(6), ext |-> <<Off(Start), Off(Get)>>]),
  Ins("ADDQ", [ea |-> EA(0, 5), imm |-> 1]),
  Ins("CMP", [ea |-> EA(0, 4), reg |-> 5]),
  Ins("Bcc", [cc |-> "LT", target |-> At(7)]),
  Ins("BRA", [target |-> At(26)]),
  Ins("MOVE", [ea |-> Disp(6), dst |-> Disp(6), ext |-> <<Off(Start), Off(Put)>>]),
  Ins("MOVE", [ea |-> Disp(6), dst |-> Disp(6), ext |-> <<Off(Start), Off(Get)>>]),
  Ins("MOVEM", [ea |-> Disp(5), ext |-> On2(-12), mask |-> {4, 5, 8}, load |-> TRUE]),
  Ins("UNLK", [reg |-> 5]),
  Ins("RTS", <<>>)>>

Code == [fill |-> FillCode, lookup |-> LookupCode, draw |-> DrawCode]

\* A flat RTS leaves the return address to the caller.
Went(f, ins, d) ==
  [cpu |-> IF ins.mn = "RTS" THEN f.cpu ELSE d, pc |-> IF ins.mn = "RTS" THEN f.pc ELSE d.next,
   cycles |-> f.cycles + m68k_cycles(f.cpu, ins)]
Obeyed(f, ins) ==
  Went(f, ins, exec_one([f.cpu EXCEPT !.next = f.pc + 2, !.er = 1], [ins EXCEPT !.addr = f.pc]))
Executed(f) == Obeyed(f, Code[job.kind][f.pc \div 2 + 1])

-----------------------------------------------------------------------------
(* The jobs' own flags. *)

logic(c, v, sz) ==
  [c EXCEPT !.sr = [@ EXCEPT !.Z = Flag(Low(v, sz) = 0), !.N = Msb(v, sz), !.V = 0, !.C = 0]]

compare(c, a, b, sz) ==
  LET d == logic(c, a - b, sz)
  IN  [d EXCEPT !.sr.C = Flag(Low(b, sz) > Low(a, sz)),
                !.sr.V = Flag(Msb(a, sz) # Msb(b, sz) /\ Msb(a, sz) # Msb(a - b, sz))]

SetX(c, x) == [c EXCEPT !.sr.X = x]

subtract(c, a, b, sz) == LET d == compare(c, a, b, sz) IN SetX(d, d.sr.C)

add(c, a, b) ==
  LET carry == Flag(Low(a, "L") + Low(b, "L") >= 2^Bits["L"])
      d == SetX(logic(c, a + b, "L"), carry)
  IN  [d EXCEPT !.sr.C = carry,
                !.sr.V = Flag(Msb(a, "L") = Msb(b, "L") /\ Msb(a, "L") # Msb(a + b, "L"))]

Read(c, a) == read32(c, Low(a, "L")).val
Write(c, a, v) == write32(c, Low(a, "L"), v)
WordOf(c, r) == Low(c.D[r], "W")

-----------------------------------------------------------------------------
(* The fill: g_cpu is exact at every frontier. *)

FillCycles == <<103, 7, 22, 22, 7, 22, 7, 7, 7, 11, 17, 7, 7, 17, 7, 103, 15>>

Pushed(c, sp) ==
  FoldLeft(LAMBDA k, r : Write(k, sp - 4 * (8 - r), k.D[r]),
           Write(c, sp - 4, c.A[0]), <<6, 5, 4, 3, 2, 1>>)

Pulled(c, sp) ==
  LET d == FoldLeft(LAMBDA k, r : SetD(k, r, Read(k, sp - 28 + 4 * (r - 1))), c, <<1, 2, 3, 4, 5, 6>>)
  IN  SetA(SetA(d, 0, Read(d, sp - 4)), 7, sp)

\* A register loaded with its flags, and one counted down.
Loaded(c, r, v) == LET w == Low(v, "L") IN logic(SetD(c, r, w), w, "L")
Less(c, r) == LET d == subtract(c, WordOf(c, r), 1, "W") IN store_dn(d, r, WordOf(c, r) - 1, "W")
Counts(c, r) == store_dn(c, r, WordOf(c, r) - 1, "W")

FillOp(c, op, sp) ==
  CASE op = 0 -> SetA(Pushed(c, sp), 7, sp - 28)
    [] op = 1 -> SetA(c, 0, c.D[0])
    [] op = 2 -> Loaded(c, 2, Read(c, sp + 4))
    [] op = 3 -> Loaded(c, 4, Read(c, sp + 12))
    [] op = 4 -> SetD(subtract(c, c.D[4], c.D[1], "L"), 4, c.D[4] - c.D[1])
    [] op = 5 -> Loaded(c, 3, Read(c, sp + 8))
    [] op = 6 -> Less(c, 2)
    [] op = 7 -> Less(c, 1)
    [] op = 8 -> Loaded(c, 5, c.D[1])
    [] op = 9 -> AddA(write8(logic(c, c.D[3], "B"), c.A[0], c.D[3]), 0, 1)
    [] op = 10 -> Counts(c, 1)
    [] op = 11 -> SetA(c, 0, c.A[0] + c.D[4])
    [] op = 12 -> Loaded(c, 1, c.D[5])
    [] op = 13 -> Counts(c, 2)
    [] op = 14 -> Loaded(c, 0, c.A[0])
    [] op = 15 -> Pulled(c, sp)
    [] op = 16 -> c

FillNext(c, op) ==
  LET more == 2^Bits["W"] - 1
  IN  CASE op = 10 /\ WordOf(c, 1) # more -> 9
        [] op = 13 /\ WordOf(c, 2) # more -> 9
        [] OTHER -> op + 1

-----------------------------------------------------------------------------
(* The lookup: what was read is kept, and the CPU is made from it. *)

LookupCycles == <<22, 11, 13, 19, 13, 7, 19, 13, 15, 15, 13, 11, 13, 11, 14, 15>>

\* What operation op does to the registers; read holds what the job has read.
LookupEffect(before, read, s, op) ==
  LET id == WordOf(before, 0)
      shifted == Low(4 * id, "W")
      Word(c, r, v) == logic(store_dn(c, r, v, "W"), v, "W")
      Carry(c, bit) == [c EXCEPT !.sr.C = bit, !.sr.X = bit]
  IN  CASE op = 0 -> SetA(s, 0, read[0])
        [] op = 1 -> compare(s, id, read[1], "W")
        [] op = 3 -> [Carry(Word(s, 0, shifted), (id \div 2^(Bits["W"] - 2)) % 2)
                        EXCEPT !.sr.V = Flag(Msb(id, "W") # Msb(shifted, "W"))]
        [] op = 5 -> SetA(s, 0, read[0] + Signed(shifted, "W"))
        [] op = 6 -> Carry(Word(s, 0, shifted \div 4), (shifted \div 2) % 2)
        [] op = 8 -> SetA(s, 1, read[8])
        [] op = 9 -> logic(s, read[9], "L")
        [] op = 11 -> compare(s, shifted \div 4, read[11], "W")
        [] op = 13 -> Word(s, 1, ErrorCode)
        [] op = 14 -> [s EXCEPT !.sr.C = 1]
        [] OTHER -> s

LookupSlot(before, read) == read[0] + Signed(4 * WordOf(before, 0), "W")

\* Operation -> address and width of what it reads.
LookupRead(j) ==
  CASE j.op = 0 -> <<j.before.A[6] + TableOffset, 4>>
    [] j.op = 1 -> <<j.read[0], 2>>
    [] j.op \in {8, 9} -> <<LookupSlot(j.before, j.read), 4>>
    [] j.op = 11 -> <<j.read[8], 2>>
    [] OTHER -> <<>>

LookupNext(j) ==
  LET id == WordOf(j.before, 0)
      shifted == Low(4 * id, "W")
  IN  IF \/ j.op = 2 /\ id > j.read[1]
         \/ j.op = 4 /\ shifted = 0
         \/ j.op = 7 /\ shifted \div 4 = 0
         \/ j.op = 10 /\ j.read[9] = 0
      THEN 13
      ELSE IF j.op = 12 /\ shifted \div 4 = j.read[11] THEN 15 ELSE j.op + 1

-----------------------------------------------------------------------------
(* The drawing queue: segments of operations; RAM is read and written at    *)
(* each, and the registers are published when the segment is complete.      *)

DrawCycles == <<25, 70, 7, 7, 13, 7, 13, 22, 22, 13, 22, 22, 22, 15, 18, 30, 22, 22, 13, 37,
                7, 7, 13, 13, 37, 37, 63, 15, 15>>

DrawEffect(before, r, s, op) ==
  CASE op = 0 -> SetA(AddA(s, 7, -4), 5, s.A[7] - 4)
    [] op = 1 -> AddA(s, 7, -16)
    [] op = 2 -> Loaded(s, 4, s.D[0])
    [] op = 3 -> logic(s, s.D[4], "L")
    [] op = 5 -> Loaded(s, 5, 0)
    [] op = 7 -> Loaded(s, 0, r[0])
    [] op = 8 -> compare(s, s.D[0], r[1], "L")
    [] op = 10 -> SetA(s, 0, r[0])
    [] op = 11 -> Loaded(s, 0, r[1])
    [] op = 12 -> SetA(s, 0, r[2])
    [] op = 13 -> SetA(s, 0, r[3])
    [] op = 14 -> AddA(s, 7, -4)
    [] op = 15 -> add(s, r[0] - 8, 8)
    [] op = 16 -> Loaded(s, 0, r[1])
    [] op = 17 -> compare(s, s.D[0], r[2], "L")
    [] op = 19 -> logic(s, r[3], "L")
    [] op = 20 -> SetD(add(s, s.D[5], 1), 5, s.D[5] + 1)
    [] op = 21 -> compare(s, s.D[5], s.D[4], "L")
    [] op = 24 -> logic(s, r[0], "L")
    [] op = 25 -> logic(s, r[1], "L")
    [] op = 26 -> SetA(SetD(SetD(s, 4, r[0]), 5, r[1]), 0, r[2])
    [] op = 27 -> SetA(SetA(s, 7, s.A[5] + 4), 5, r[3])
    [] OTHER -> s

\* The carry of the counter's increment.
\* Faulty variant: it is not kept.
Faulty_Wrapped(j) == 0

Wrapped(j) == Flag(j.before.D[5] = 2^Bits["L"] - 1)

\* finish publishes a complete segment at once, without going through its steps.
Published(j, c) ==
  LET b == j.before
      r == j.read
      new == Low(b.D[5] + 1, "L")
  IN  CASE j.first = 0 -> LET k == SetD(SetA(SetA(c, 5, b.A[7] - 4), 7, b.A[7] - 20), 4, b.D[0])
                          IN  IF j.count = 7 THEN Loaded(k, 5, 0) ELSE logic(k, k.D[4], "L")
        [] j.first = 7 -> compare(SetD(c, 0, r[0]), r[0], r[1], "L")
        [] j.first = 10 -> logic(SetA(SetA(SetD(c, 0, r[1]), 0, r[3]), 7, b.A[7] - 4), r[1], "L")
        [] j.first = 15 -> LET k == SetX(SetD(c, 0, r[1]), Flag(r[0] < 8))
                           IN  IF j.count = 5 THEN logic(k, r[3], "L")
                               ELSE compare(k, r[1], r[2], "L")
        [] j.first = 20 -> compare(SetD(SetX(c, Wrapped(j)), 5, new), new, c.D[4], "L")
        [] j.first = 21 -> compare(c, c.D[5], c.D[4], "L")
        [] j.first = 24 -> logic(c, r[1], "L")
        [] j.first = 26 -> SetA(SetA(SetA(SetD(SetD(c, 4, r[0]), 5, r[1]), 0, r[2]),
                                     7, b.A[5] + 4), 5, r[3])
        [] OTHER -> c

\* memory_action: the span that must be RAM, and the reads and writes.
DrawSpan(j) ==
  LET b == j.before
      op == j.op
      q == b.A[6]
  IN  CASE op \in {0, 14} -> <<b.A[7] - 4, 4>>
        [] op = 1 -> <<b.A[7] - 20, 16>>
        [] op = 7 -> <<q + Put, 4>>
        [] op \in {8, 10, 12, 15, 16} -> <<q + Get, 4>>
        [] op = 11 -> <<j.read[0] + 4, 4>>
        [] op = 13 -> <<j.read[2], 4>>
        [] op = 17 -> <<q + End, 4>>
        [] op \in {19, 24, 25} -> <<q + Start, 16>>
        [] op = 26 -> <<b.A[5] - 12, 12>>
        [] op = 27 -> <<b.A[5], 4>>
        [] OTHER -> <<>>

\* Operation -> which read it is.
ReadBy == (7 :> 0) @@ (8 :> 1) @@ (10 :> 0) @@ (11 :> 1) @@ (12 :> 2) @@ (13 :> 3)
          @@ (16 :> 1) @@ (17 :> 2) @@ (27 :> 3)

memory_action(j) ==
  LET b == j.before
      q == b.A[6]
      sp == b.A[7]
      op == j.op
      c == j.cpu
      Stored(k) == [j EXCEPT !.cpu = k]
      start == Read(c, q + Start)
      gotten == Low(Read(c, q + Get) + 8, "L")
  IN  CASE op = 0 -> Stored(Write(c, sp - 4, b.A[5]))
        [] op = 1 -> Stored(Write(Write(Write(Write(c, sp - 8, b.A[0]), sp - 12, b.D[5]),
                                        sp - 16, b.D[4]), sp - 20, b.D[0]))
        [] op = 14 -> Stored(Write(c, sp - 4, At(15)))
        [] op = 15 -> [Stored(Write(c, q + Get, gotten)) EXCEPT !.read[0] = gotten]
        [] op = 19 -> [Stored(Write(c, q + Get, start)) EXCEPT !.read[3] = start]
        [] op = 24 -> [Stored(Write(c, q + Put, start)) EXCEPT !.read[0] = start]
        [] op = 25 -> [Stored(Write(c, q + Get, start)) EXCEPT !.read[1] = start]
        [] op = 26 -> [j EXCEPT !.read = [@ EXCEPT ![0] = Read(c, b.A[5] - 12),
                                                   ![1] = Read(c, b.A[5] - 8),
                                                   ![2] = Read(c, b.A[5] - 4)]]
        [] op \in DOMAIN ReadBy -> [j EXCEPT !.read[ReadBy[op]] = Read(c, DrawSpan(j)[1])]
        [] OTHER -> j

Segment(j, first, n) ==
  [j EXCEPT !.first = first, !.count = n, !.op = first, !.before = j.cpu]

\* cdi_drawing_dispatch's control after a segment has been published.
Follows(j) ==
  LET c == j.cpu
      test == IF Signed(c.D[5], "L") < Signed(c.D[4], "L") THEN Segment(j, 7, 3) ELSE Segment(j, 23, 1)
  IN  CASE j.first = 0 -> IF j.count = 5 THEN Segment(j, 24, 2) ELSE Segment(j, 21, 2)
        [] j.first \in {20, 21} -> test
        [] j.first = 7 -> IF c.sr.Z = 0 THEN Segment(j, 10, 5) ELSE Segment(j, 20, 3)
        [] j.first = 10 -> [j EXCEPT !.at = "callback"]
        [] j.first = 15 -> Segment(j, 20, 3)
        [] j.first \in {23, 24} -> Segment(j, 26, 3)
        [] j.first = 26 -> [j EXCEPT !.at = "done"]

\* After a completed operation; the ring's end cuts the segment of 15 short.
DrawNext(j) ==
  LET n == IF j.first = 15 /\ j.op = 18 /\ j.read[1] <= j.read[2] THEN 4 ELSE j.count
      k == [j EXCEPT !.count = n]
  IN  IF j.op + 1 < j.first + n THEN [k EXCEPT !.op = @ + 1]
      ELSE Follows([k EXCEPT !.cpu = Published(k, k.cpu)])

-----------------------------------------------------------------------------
(* prefix and sync_cpu: the CPU as an observer must see it. *)

Within(j) ==
  CASE j.kind = "fill" -> j.cpu
    [] j.kind = "lookup" ->
         FoldLeft(LAMBDA s, op : IF op \in j.completed THEN LookupEffect(j.before, j.read, s, op) ELSE s,
                  [j.before EXCEPT !.mem = j.cpu.mem], [i \in 1 .. 16 |-> i - 1])
    [] j.kind = "draw" ->
         FoldLeft(LAMBDA s, op : DrawEffect(j.before, j.read, s, op),
                  [j.before EXCEPT !.mem = j.cpu.mem],
                  [i \in 1 .. j.op - j.first |-> j.first + i - 1])

prefix(j) == IF j.at = "run" THEN Within(j) ELSE j.cpu

-----------------------------------------------------------------------------
(* Steps. *)

Begun(e) ==
  /\ job = [kind |-> e.kind, at |-> "run", op |-> 0, cpu |-> e.cpu, before |-> e.cpu,
            read |-> [i \in 0 .. 11 |-> 0], completed |-> {}, cycles |-> 0, sp |-> e.cpu.A[7],
            first |-> 0, count |-> IF e.cpu.D[0] = 0 THEN 5 ELSE 7,
            irq |-> FALSE, allowed |-> TRUE, events |-> 0]
  /\ firmware = [cpu |-> e.cpu, pc |-> 0, cycles |-> 0]

\* The dispatch functions: an ordinary call on a stack in RAM.
Admitted(e) ==
  LET sp == e.cpu.A[7]
  IN  CASE e.kind = "fill" -> sp % 2 = 0 /\ ram(sp - 28, 44)
        [] e.kind = "lookup" -> sp % 2 = 0 /\ ram(sp, 4)
        [] e.kind = "draw" -> ram_range(sp - 20, 24) /\ ram_range(e.cpu.A[6] + Start, 16)

JobsInit == \E e \in JobEntries : Admitted(e) /\ Begun(e)

\* An interrupt, a forbidden job, or an operand outside RAM: the CPU is
\* materialised and the job is over; generated code or the handler goes on.
Refused(j) ==
  CASE j.kind = "fill" -> j.op = 9 /\ ~ram(j.cpu.A[0], 1)
    [] j.kind = "lookup" -> LookupRead(j) # <<>> /\ ~ram_range(LookupRead(j)[1], LookupRead(j)[2])
    [] j.kind = "draw" -> DrawSpan(j) # <<>> /\ ~ram_range(DrawSpan(j)[1], DrawSpan(j)[2])

LeaveJob ==
  /\ job.at = "run"
  /\ job.irq \/ ~job.allowed \/ Refused(job)
  /\ job' = [job EXCEPT !.at = "left", !.cpu = prefix(job)]
  /\ UNCHANGED firmware

FillCompleted(j, c) ==
  [j EXCEPT !.cpu = c, !.cycles = @ + FillCycles[j.op + 1],
            !.op = FillNext(c, j.op), !.at = IF j.op = 16 THEN "done" ELSE "run"]

LookedUp(j, r) ==
  [j EXCEPT !.read[j.op] = IF r = <<>> THEN @
                           ELSE IF r[2] = 4 THEN Read(j.cpu, r[1])
                           ELSE read16(j.cpu, Low(r[1], "L")).val,
            !.completed = @ \cup {j.op}, !.cycles = @ + LookupCycles[j.op + 1]]
LookupCompleted(j) ==
  IF j.op = 15 THEN [j EXCEPT !.cpu = Within(j), !.at = "done"] ELSE [j EXCEPT !.op = LookupNext(j)]

Completed(j) ==
  CASE j.kind = "fill" -> FillCompleted(j, FillOp(j.cpu, j.op, j.sp))
    [] j.kind = "lookup" -> LookupCompleted(LookedUp(j, LookupRead(j)))
    [] j.kind = "draw" -> DrawNext([memory_action(j) EXCEPT !.cycles = @ + DrawCycles[j.op + 1]])

Operate ==
  /\ job.at = "run" /\ ~job.irq /\ job.allowed /\ ~Refused(job)
  /\ job' = Completed(job)
  /\ firmware' = Executed(firmware)

\* What a device does during the account of an operation, and the debug server.
Happens(j) ==
  /\ job.at = "run" /\ job.events < MaxEvents /\ job.cycles > 0
  /\ job' = [j EXCEPT !.events = @ + 1]

Device ==
  \/ \E d \in Dma :
       /\ Happens([job EXCEPT !.cpu.mem[d.at] = d.value])
       /\ firmware' = [firmware EXCEPT !.cpu.mem[d.at] = d.value]
  \/ Happens([job EXCEPT !.irq = TRUE]) /\ UNCHANGED firmware
  \/ Happens([job EXCEPT !.allowed = FALSE]) /\ UNCHANGED firmware

\* The callback is guest code: it comes back with any of these changes, having
\* popped its return address, ...
Effects(c) == {c, SetD(c, 4, 1), SetD(SetX(c, 1), 5, 2^Bits["L"] - 1), SetA(c, 6, c.A[6] + 2)}

Callback ==
  /\ job.at = "callback"
  /\ \E c \in Effects(AddA(job.cpu, 7, 4)) :
       LET events == job.events + Flag(c # AddA(job.cpu, 7, 4))
       IN  /\ events <= MaxEvents
           /\ job' = [Segment([job EXCEPT !.cpu = c, !.events = events], 15, 5) EXCEPT !.at = "run"]
           /\ firmware' = [firmware EXCEPT !.cpu = c, !.pc = At(15)]

\* ... or does not (a stop, a rewritten return): the job is over.
CallbackAway ==
  /\ job.at = "callback"
  /\ job' = [job EXCEPT !.at = "away"]
  /\ UNCHANGED firmware

JobsNext == LeaveJob \/ Operate \/ Device \/ Callback \/ CallbackAway

(***************************************************************************)
(* Properties.                                                             *)
(***************************************************************************)
(* cdi_memory_jobs.c:1, cdi_service_jobs.c:3, cdi_drawing_jobs.c:1:        *)
(* wherever the CPU can be looked at, it is the CPU the firmware's own     *)
(* instructions would have left: the registers, the flags, the RAM with    *)
(* what devices wrote meanwhile, the next instruction and the cycles.      *)
JobIsFirmware ==
  job.at \in {"run", "callback", "left", "done"} =>
    \A c \in {prefix(job)}, f \in {firmware.cpu} :
      /\ c.D = f.D /\ c.A = f.A /\ c.sr = f.sr /\ c.mem = f.mem
      /\ job.cycles = firmware.cycles
      /\ job.at \in {"run", "left"} => firmware.pc = At(job.op)
=============================================================================
