------------------------------- MODULE MCInterp -------------------------------
EXTENDS Jobs

MCRam == 0 .. 63

MCHandler == [v \in {2, 5, 32} |-> 100 + 2 * v]

Brief(long) == [xtype |-> 0, xreg |-> 2, long |-> long, d8 |-> 1]

MCPlain ==
  [mn |-> "NOP", sz |-> "W", ea |-> EA(0, 0), dst |-> EA(0, 1), reg |-> 1, imm |-> 1,
   ext |-> <<2, 4, 2, 4>>, brief |-> [i \in 1 .. 4 |-> Brief(FALSE)], addr |-> 0, len |-> 2, cc |-> "EQ", toEa |-> FALSE, bycount |-> FALSE,
   creg |-> 0, predec |-> FALSE, load |-> FALSE, mask |-> {}, target |-> 120,
   memshift |-> FALSE, opmode |-> "DD", static |-> FALSE, toSR |-> FALSE, wide |-> FALSE]

Of(names) == {[MCPlain EXCEPT !.mn = m] : m \in names}
On(ins, eas) == {[i EXCEPT !.ea = e] : i \in ins, e \in eas}
Sized(ins, sizes) == {[i EXCEPT !.sz = z] : i \in ins, z \in sizes}
Indexed == {[MCPlain EXCEPT !.mn = "MOVE", !.ea = EA(m, IF m = 7 THEN 3 ELSE 0),
                            !.brief = [i \in 1 .. 4 |-> Brief(l)]] : m \in {6, 7}, l \in BOOLEAN}

MCInstructions ==
       Sized(On(Of({"MOVE"}), {EA(0, 0), EA(3, 0), EA(4, 1), EA(7, 4)}), {"B", "L"})
  \cup Indexed
  \cup {[MCPlain EXCEPT !.mn = "MOVE", !.dst = d, !.sz = z] :
          d \in {EA(2, 1), EA(4, 0), EA(7, 1), EA(1, 2), EA(5, 1)}, z \in {"W", "L"}}
  \cup On(Of({"MOVEA", "TST", "CMP", "ADDA", "MULS", "DIVU", "DIVS"}), {EA(0, 0), EA(3, 0)})
  \cup On(Of({"LEA", "PEA", "JSR", "JMP"}), {EA(2, 0), EA(7, 1), EA(7, 2)})
  \cup Of({"MOVEQ", "EXT", "SWAP", "EXG", "SUBA", "CMPA", "CMPM", "MULU", "NOP", "RESET",
           "BRA", "Bcc", "BSR", "DBcc", "RTS", "RTR", "RTE", "LINK", "UNLK", "MOVE_USP", "MOVEP"})
  \cup Sized(On(Of({"ADDQ", "NOT", "NEGX", "BSET", "TAS", "ADDI"}), {EA(0, 1), EA(3, 0), EA(4, 0)}),
             {"B", "L"})
  \cup {[i EXCEPT !.memshift = TRUE] : i \in On(Of({"ASL", "ROXR"}), {EA(3, 0), EA(4, 0)})}
  \cup {[i EXCEPT !.bycount = TRUE] : i \in Of({"ASR", "ROL"})}
  \cup On(Of({"SUB", "AND", "OR", "EOR", "ADD"}), {EA(0, 0), EA(2, 0)})
  \cup {[i EXCEPT !.toEa = TRUE] : i \in On(Of({"ADD", "OR", "MOVE_SR", "MOVE_CCR"}), {EA(2, 0)})}
  \cup Of({"MOVE_SR", "MOVE_CCR", "SUBQ", "CLR", "SUBI", "CMPI", "ANDI", "ORI", "EORI", "NEG",
           "BTST", "BCHG", "BCLR", "NBCD", "ABCD", "SBCD", "ADDX", "SUBX"})
  \cup On(Of({"ADDQ", "CLR"}), {EA(1, 0)})
  \cup {[i EXCEPT !.predec = TRUE, !.reg = 0, !.ea = EA(4, 1)] : i \in Of({"ABCD", "ADDX"})}
  \cup {[i EXCEPT !.toSR = TRUE] : i \in Sized(Of({"ORI", "ANDI", "EORI"}), {"B", "W"})}
  \cup {[MCPlain EXCEPT !.mn = "MOVEM", !.ea = EA(4, 7), !.mask = {0, 15}],
        [MCPlain EXCEPT !.mn = "MOVEM", !.ea = EA(3, 0), !.mask = {0, 8}, !.load = TRUE],
        [MCPlain EXCEPT !.mn = "MOVEM", !.ea = EA(5, 0), !.mask = {1, 9}, !.sz = "L"],
        [MCPlain EXCEPT !.mn = "TRAP", !.imm = 0], [MCPlain EXCEPT !.mn = "STOP", !.imm = 0]}
  \cup On(Of({"Scc"}), {EA(0, 0), EA(2, 0)})

PlainEntries ==
  {[D |-> [i \in 0 .. 7 |-> <<2 * x, 9, 3, 0, 0, 0, 0, 0>>[i + 1]],
    A |-> [i \in 0 .. 7 |-> <<8, 64, 0, 0, 0, 0, 0, IF s = 1 THEN 60 ELSE 20>>[i + 1]],
    sr |-> [S |-> s, I |-> 0, X |-> x, N |-> 0, Z |-> z, V |-> 0, C |-> 0],
    USP |-> 20, SSP |-> 60, mem |-> [a \in 0 .. 64 |-> (7 * a) % 16],
    val |-> 0, er |-> 1, next |-> 0, fault |-> FALSE, illegal |-> FALSE,
    unimpl |-> FALSE, halted |-> FALSE] : s, x, z \in {0, 1}}

\* User or supervisor, X and Z either way; A1 is the first address past the RAM,
\* where a word access to the last byte of the array ends.  And a supervisor whose
\* bus-error frame lies over the end of RAM.
MCEntries == PlainEntries \cup
  {[e EXCEPT !.A[7] = 90] : e \in {p \in PlainEntries : p.sr.S = 1 /\ p.sr.X = 0 /\ p.sr.Z = 0}}

MCOperands == {0, 1, 7, 8, 15, 16, 100, 127, 128, 129, 255, 256, 4095, 32767, 32768, 32897, 65408, 65535}

-----------------------------------------------------------------------------
(* The routines' entries. Longs are four bytes of ByteBits = 4 bits. *)

Long(v) == <<v \div 4096, (v \div 256) % 16, (v \div 16) % 16, v % 16>>
Lay(m, a, v) == [i \in DOMAIN m |-> IF i \in a .. a + 3 THEN Long(v)[i - a + 1] ELSE m[i]]
Blank == [a \in 0 .. 64 |-> (7 * a) % 16]

Machine(d, a, x, m) ==
  [D |-> [i \in 0 .. 7 |-> d[i + 1]], A |-> [i \in 0 .. 7 |-> a[i + 1]],
   sr |-> [S |-> 1, I |-> 0, X |-> x, N |-> 0, Z |-> 0, V |-> 0, C |-> x],
   USP |-> 20, SSP |-> 60, mem |-> m, val |-> 0, er |-> 1, next |-> 0, fault |-> FALSE,
   illegal |-> FALSE, unimpl |-> FALSE, halted |-> FALSE]

\* At the start of RAM, over the saved registers, and across the end of RAM;
\* a width of 0 is a whole word's count.
Fills ==
  {[kind |-> "fill", cpu |->
      Machine(<<to, w, 5, 6, 7, 8, 9, 0>>, <<11, 0, 0, 0, 0, 0, 0, 32>>, x,
              Lay(Lay(Lay(Blank, 36, h), 40, 300), 44, pitch))] :
     to \in {0, 27, 61}, w \in {0, 2}, h \in {1, 2}, pitch \in {1, 5}, x \in {0, 1}}

\* The table is at 16, with n processes; the slots of 1 and 2 hold desc or nothing.
Lookups ==
  {[kind |-> "lookup", cpu |->
      Machine(<<id, 300, 0, 0, 0, 0, 0, 0>>, <<0, 0, 0, 0, 0, 0, 0, 60>>, x,
         Lay(Lay([Lay(Blank, 4, 16) EXCEPT ![16] = 0, ![17] = n, ![desc] = 0, ![desc + 1] = 2],
                 20, desc), 24, IF null THEN 0 ELSE desc))] :
     id \in {0, 1, 2, 3, 65}, n \in {2, 15}, desc \in {32, 33}, null \in BOOLEAN, x \in {0, 1}}

\* The queue's words are at 32, its two entries at 48; the read pointer may be
\* past the end and at the top of the address space.
Draws ==
  {[kind |-> "draw", cpu |->
      Machine(<<n, 0, 0, 0, 3, 4, 0, 0>>, <<7, 0, 0, 0, 0, 77, 48, 28>>, x,
         Lay(Lay(Lay(Lay(Lay(Lay(Blank, 32, 48), 36, lim), 40, put), 44, get), 48, 80), 56, 80))] :
     n \in {0, 1, 2}, lim \in {48, 56, 65000}, put \in {48, 56}, get \in {48, 56, 65532}, x \in {0, 1}}

MCJobEntries == Fills \cup Lookups \cup Draws

\* In the saved registers, the queue's read pointer, a slot of the table.
MCDma == {[at |-> 31, value |-> 3], [at |-> 47, value |-> 8], [at |-> 27, value |-> 0]}

-----------------------------------------------------------------------------
(* One run for both: the interpreter, or a job beside a resting interpreter. *)

NoJob == job = [at |-> "none"] /\ firmware = [pc |-> 0]
Resting == /\ cpu = CHOOSE e \in Entries : TRUE
           /\ pc = EntryPc /\ status = "REST" /\ count = 0
           /\ acc = 0 /\ ticked = 0 /\ charged = 0

MCInit == (Init /\ NoJob) \/ (JobsInit /\ Resting)
MCNext == (Next /\ UNCHANGED job_vars) \/ (JobsNext /\ UNCHANGED vars)
MCSpec == MCInit /\ [][MCNext]_<<vars, job_vars>>
=============================================================================
