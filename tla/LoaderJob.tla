------------------------------ MODULE LoaderJob ------------------------------
(***************************************************************************)
(* The native checksum span of the module loader (cdi_loader_jobs.c,       *)
(* cdi_loader_math.h).  A word is folded into the checksum at once, while  *)
(* the time of its thirty instructions is accounted one by one; only when  *)
(* an interrupt or a debugger hold falls between two of them are the       *)
(* registers of that moment reconstructed.                                 *)
(*                                                                         *)
(* A 32-bit word is the set of its one bits, so that exclusive or is the   *)
(* symmetric difference.  D3 is a number, A0 counts words, and a program   *)
(* counter is the index of an instruction, 30 being $406C38.               *)
(***************************************************************************)
EXTENDS Naturals, Sequences, FiniteSets

CONSTANTS SpanWords,      \* RAM from the span's first word to the end of the bank
          CrcStarts,      \* checksums a span starts with
          OldWords,       \* what the registers hold otherwise
          CountStarts,    \* D3 at the start: words less one
          YieldWords      \* 256: words between two scheduling checks

ASSUME LoaderAssumption ==
    /\ SpanWords \in Seq(SUBSET (0 .. 31))
    /\ \A w \in CrcStarts \cup OldWords : w \subseteq 0 .. 31
    /\ CountStarts \subseteq Nat /\ YieldWords \in Nat \ {0}

VARIABLES regs,       \* g_cpu
          flight,     \* the word in flight
          stage,      \* where the job stands
          folded,     \* the registers after the word in flight, and its parity
          irq_ready,  \* an interrupt above the mask is pending
          firmware,   \* registers of the firmware that runs instruction by instruction
          checksum    \* the checksum of the words so far, from its definition

loader_vars == <<regs, flight, stage, folded, irq_ready, firmware, checksum>>

(***************************************************************************)
(* Words and flags.                                                        *)
(***************************************************************************)
Xor(v, w) == (v \ w) \cup (w \ v)
Low(v, n) == v \cap (0 .. n - 1)
Shl(v, n) == {b + n : b \in Low(v, 32 - n)}
Shr(v, n) == {b - n : b \in {c \in v : c >= n}}
LowPart(old, new, n) == (old \ (0 .. n - 1)) \cup Low(new, n)

logical(SR, v, bits) ==
    (SR \ {"N", "Z", "V", "C"}) \cup (IF Low(v, bits) = {} THEN {"Z"} ELSE {})
                                \cup (IF bits - 1 \in v THEN {"N"} ELSE {})

\* The flags after a shift, and X and C from the last bit shifted out.
Shifted(SR, result, bits, out) ==
    logical(SR \ {"X"}, result, bits) \cup (IF out THEN {"X", "C"} ELSE {})

\* The firmware's table, a bit for each value of a byte, and the value that a byte and a
\* bit in it select.
parity(p) == Cardinality(p) % 2 = 1
Entry(byte, bit) == Shl(Low(byte, 16), 3) \cup Low(bit, 3)

(***************************************************************************)
(* The instructions of a word, and what prefix makes of the first ones.    *)
(***************************************************************************)
Gets(s, r, v, bits) == [s EXCEPT ![r] = v, !.SR = logical(@, v, bits)]
LeftBy(s, r, n) ==
    LET v == Shl(s[r], n) IN [s EXCEPT ![r] = v, !.SR = Shifted(@, v, 32, 32 - n \in s[r])]
RightBy(s, r, n, bits) ==
    LET v == Shr(Low(s[r], bits), n)
    IN  [s EXCEPT ![r] = LowPart(@, v, bits), !.SR = Shifted(@, v, bits, n - 1 \in s[r])]

\* D1 is added to itself.
Doubled(s) ==
    LET v == Shl(s.D1, 1)
    IN  [s EXCEPT !.D1 = v, !.SR = Shifted(@, v, 32, 31 \in s.D1)
                                   \cup (IF (31 \in s.D1) # (30 \in s.D1) THEN {"V"} ELSE {})]

Instruction(i, s, word) ==
    CASE i = 0  -> LeftBy(s, "D1", 8)
      [] i = 1  -> [Gets(s, "D0", word, 32) EXCEPT !.A0 = @ + 1]
      [] i = 2  -> Gets(s, "D1", Xor(s.D1, s.D0), 32)
      [] i = 3  -> Gets(s, "D2", s.D1, 32)
      [] i = 4  -> Gets(s, "D4", LowPart(s.D4, s.D1, 16), 16)
      [] i = 5  -> [s EXCEPT !.D2 = @ \cap (16 .. 31), !.SR = (@ \ {"N", "V", "C"}) \cup {"Z"}]
      [] i = 6  -> Gets(s, "D2", Shr(s.D2, 16) \cup Shl(s.D2, 16), 32)
      [] i = 7  -> Gets(s, "D0", {0, 1} \cup (7 .. 31), 32)
      [] i = 8  -> Gets(s, "D0", LowPart(s.D0, s.D0 \cap s.D2, 16), 16)
      [] i = 9  -> Gets(s, "D4", Xor(s.D4, Low(s.D0, 16)), 16)
      [] i = 10 -> Gets(s, "D0", 0 .. 22, 32)
      [] i = 11 -> Gets(s, "D0", s.D0 \cap s.D1, 32)
      [] i = 12 -> LeftBy(s, "D0", 5)
      [] i = 13 -> Gets(s, "D1", Xor(s.D1, s.D0), 32)
      [] i = 14 -> Gets(s, "D0", s.D1, 32)
      [] i = 15 -> Gets(s, "D2", LowPart(s.D2, s.D2 \ {0, 1}, 16), 16)
      [] i = 16 -> LeftBy(s, "D2", 3)
      [] i = 17 -> Gets(s, "D1", Xor(s.D1, s.D2), 32)
      [] i = 18 -> Gets(s, "D2", {0, 1, 2, 4}, 32)
      [] i = 19 -> RightBy(s, "D0", 23, 32)
      [] i = 20 -> Gets(s, "D1", Xor(s.D1, s.D0), 32)
      [] i = 21 -> Doubled(s)
      [] i = 22 -> Gets(s, "D0", LowPart(s.D0, s.D4, 16), 16)
      [] i = 23 -> RightBy(s, "D0", 8, 16)
      [] i = 24 -> Gets(s, "D0", Xor(s.D0, Low(s.D4, 8)), 8)
      [] i = 25 -> Gets(s, "D4", LowPart(s.D4, s.D0, 16), 16)
      [] i = 26 -> RightBy(s, "D4", 3, 8)
      [] i = 27 -> [s EXCEPT !.SR = (@ \ {"Z"}) \cup (IF parity(Entry(s.D4, s.D0)) THEN {} ELSE {"Z"})]
      [] i = 28 -> s
      [] i = 29 -> Gets(s, "D1", Xor(s.D1, s.D5), 32)

prefix(f) ==
    LET run[n \in 0 .. 30] == IF n = 0 THEN f.before ELSE Instruction(n - 1, run[n - 1], f.word)
    IN  [run[f.completed] EXCEPT !.PC = f.pc]

\* fold_word: the whole word at once, and whether its last instruction runs.
fold_word(s, word) ==
    LET t == Xor(Shl(s.D1, 8), word)
        high == Shr(t, 16)
        parity_word == Xor(Low(t, 16), high \ (2 .. 6))
        u == Xor(t, Shl(Low(t, 23), 5))
        crc == Shl(Xor(Xor(u, Shl(high \ {0, 1}, 3)), Shr(u, 23)), 1)
        p == Low(Xor(Shr(parity_word, 8), parity_word), 8)
        odd == parity(p)
        last == IF odd THEN Xor(crc, s.D5) ELSE crc
        X == IF 2 \in p THEN {"X"} ELSE {}
    IN  [odd |-> odd,
         cpu |-> [s EXCEPT !.A0 = @ + 1, !.D0 = p, !.D1 = last, !.D2 = {0, 1, 2, 4},
                           !.D4 = (@ \cap (16 .. 31)) \cup Shr(p, 3), !.PC = 30,
                           !.SR = IF odd THEN logical(X, last, 32)
                                  ELSE X \cup {"Z"} \cup (IF 2 \in p THEN {"C"} ELSE {})]]

(***************************************************************************)
(* The span.                                                               *)
(***************************************************************************)
NoFlight == [active |-> FALSE]

LoaderInit ==
    /\ \E d1 \in CrcStarts, old \in OldWords, d3 \in CountStarts :
          regs = [D0 |-> old, D1 |-> d1, D2 |-> old, D3 |-> d3, D4 |-> old, D5 |-> {0, 5, 23},
                  A0 |-> 1, SR |-> {}, PC |-> 0]
    /\ flight = NoFlight /\ stage = "entry" /\ folded = <<>>
    /\ irq_ready \in BOOLEAN
    /\ firmware = regs /\ checksum = Low(regs.D1, 24)

supported_span(s) == s.A0 + s.D3 <= Len(SpanWords)

\* cdi_loader_dispatch: a count of one word, an even address and the whole span in its bank,
\* and no debugger in the way; otherwise the firmware runs.  A0 counts words here, so that
\* whether the address is even is open.
LoaderDispatch ==
    /\ stage = "entry"
    /\ \E even, debug_native_job_allowed \in BOOLEAN :
          stage' = IF even /\ regs.D3 < 2^16 /\ supported_span(regs) /\ debug_native_job_allowed
                   THEN "word" ELSE "firmware"
    /\ UNCHANGED <<regs, flight, folded, irq_ready, firmware, checksum>>

\* Taking the interrupt leaves the job.
Interrupted == irq_ready /\ stage' = "left"

\* The safepoint at the first instruction of a word.
BeginWord ==
    /\ stage = "word"
    /\ \/ /\ Interrupted /\ UNCHANGED flight
       \/ /\ ~irq_ready
          /\ flight' = [before |-> regs, completed |-> 0, pc |-> 0, word |-> {}, active |-> TRUE]
          /\ stage' = "next"
    /\ UNCHANGED <<regs, folded, irq_ready, firmware, checksum>>

\* Faulty variant: every instruction is accounted after its result is written.
Faulty_CompletedAt(i) == i + 1

\* An instruction of the word up to its accounting.  The firmware's register shift, number
\* 19, is accounted before its result is written.
CompletedAt(i) == IF i = 19 THEN i ELSE i + 1

WordInstruction ==
    LET i == flight.pc
    IN  /\ stage = "next" /\ i < 30 /\ (i = 29 => folded.odd)
        /\ \/ /\ Interrupted
              /\ regs' = prefix([flight EXCEPT !.completed = i]) /\ flight' = NoFlight
              /\ UNCHANGED <<folded, firmware>>
           \/ /\ ~irq_ready /\ stage' = "account"
              /\ LET word == IF i = 1 THEN SpanWords[flight.before.A0] ELSE flight.word
                 IN  /\ flight' = [flight EXCEPT !.completed = CompletedAt(i), !.word = word]
                     /\ folded' = IF i = 1 THEN fold_word(flight.before, word) ELSE folded
                     /\ firmware' = IF i = 19 THEN firmware ELSE Instruction(i, firmware, word)
              /\ UNCHANGED regs
        /\ UNCHANGED <<irq_ready, checksum>>

\* account: devices tick and may raise a line.
WordAccounted ==
    LET i == flight.pc
    IN  /\ stage = "account"
        /\ irq_ready' \in BOOLEAN
        /\ flight' = [flight EXCEPT !.pc = i + 1]
        /\ firmware' = [IF i = 19 THEN Instruction(i, firmware, flight.word) ELSE firmware
                        EXCEPT !.PC = IF i = 28 /\ "Z" \in firmware.SR THEN 30 ELSE i + 1]
        /\ stage' = "next"
        /\ UNCHANGED <<regs, folded, checksum>>

\* cdi_loader_math_test.c: a checksum of 24 bits is shifted by one bit after another.
Polynomial == {0, 1, 5, 6, 23}
ShiftedOut(crc) == Low(IF 23 \in crc THEN Xor(Shl(crc, 1), Polynomial) ELSE Shl(crc, 1), 24)
bitwise(crc, word) ==
    LET byte(n) == Shl(Low(Shr(word, 8 * (3 - n)), 8), 16)
        run[n \in 0 .. 32] ==
            IF n = 0 THEN crc
            ELSE ShiftedOut(IF (n - 1) % 8 = 0 THEN Xor(run[n - 1], byte((n - 1) \div 8)) ELSE run[n - 1])
    IN  run[32]

\* The word is complete.  Every YieldWords words the kernel's scheduling check is due, which
\* stays with the firmware.
WordDone ==
    /\ stage = "next" /\ flight.pc >= 29 /\ (flight.pc = 29 => ~folded.odd)
    /\ regs' = folded.cpu /\ flight' = NoFlight
    /\ checksum' = bitwise(checksum, flight.word)
    /\ stage' = IF regs'.D3 % YieldWords = 0 THEN "yielded" ELSE "loop"
    /\ UNCHANGED <<folded, irq_ready, firmware>>

\* The three instructions at $406C38: the low byte of the count is tested, the scheduling
\* check skipped, the count lowered.
LoopFlags(SR, n) ==
    (SR \ {"N", "Z", "V", "C"}) \cup (IF n % 256 = 0 THEN {"Z"} ELSE {})
                                \cup (IF n % 256 >= 128 THEN {"N"} ELSE {})
LoopInstruction(s) ==
    CASE s.PC = 30 -> [s EXCEPT !.SR = LoopFlags(@, s.D3), !.PC = 31]
      [] s.PC = 31 -> [s EXCEPT !.PC = 32]
      [] s.PC = 32 -> [s EXCEPT !.D3 = @ - 1, !.PC = 0]

LoopControl ==
    /\ stage = "loop"
    /\ \/ Interrupted /\ UNCHANGED <<regs, irq_ready, firmware>>
       \/ /\ ~irq_ready /\ irq_ready' \in BOOLEAN
          /\ regs' = LoopInstruction(regs) /\ firmware' = LoopInstruction(firmware)
          /\ stage' = IF regs'.PC = 0 THEN "word" ELSE "loop"
    /\ UNCHANGED <<flight, folded, checksum>>

\* The firmware does the scheduling check and loops, or has seen the last word.
FirmwareLoops ==
    /\ stage = "yielded"
    /\ IF regs.D3 = 0 THEN stage' = "done" /\ UNCHANGED <<regs, firmware>>
       ELSE /\ stage' = "entry"
            /\ regs' = [regs EXCEPT !.SR = LoopFlags(@, regs.D3), !.D3 = @ - 1, !.PC = 0]
            /\ firmware' = regs'
    /\ irq_ready' \in BOOLEAN
    /\ UNCHANGED <<flight, folded, checksum>>

LoaderNext ==
    LoaderDispatch \/ BeginWord \/ WordInstruction \/ WordAccounted \/ WordDone
    \/ LoopControl \/ FirmwareLoops

LoaderSpec == LoaderInit /\ [][LoaderNext]_loader_vars

(***************************************************************************)
(* Properties.                                                             *)
(***************************************************************************)
(* cdi_loader_jobs.c:53, cdi_loader_math.h:30, :70: wherever an interrupt  *)
(* or a hold looks into a span, and wherever the span gives control back,  *)
(* the registers and flags are those of the firmware executed instruction  *)
(* by instruction; a span reads no word past the end of its bank; and the  *)
(* checksum after each word is that of the polynomial.                     *)
SpanIsFirmware ==
    /\ stage = "account" => prefix(flight) = firmware
    /\ ~flight.active => regs = firmware
    /\ flight.active => flight.before.A0 <= Len(SpanWords)
    /\ ~flight.active /\ regs.PC \notin 1 .. 29 => Low(regs.D1, 24) = checksum
=============================================================================
