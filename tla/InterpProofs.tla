---------------------------- MODULE InterpProofs ----------------------------
(***************************************************************************)
(* Theorems about the interpreter: whatever the instruction, the operand   *)
(* and the fault that cuts it short, the machine stays a machine; the loop *)
(* goes on only with one that nothing has cut short; the time that the     *)
(* devices are given and the time deferred add up to what was executed;    *)
(* CMP with the conditions, DIVU and DIVS, the chains of two through X,    *)
(* shifts and decimal instructions compute what they are named for.        *)
(***************************************************************************)
EXTENDS Interp, Remainders, FiniteSetTheorems, TLAPS

\* A set of n elements has 2^n subsets, so 2^n is a number.
LEMMA PowerNat ==
  ASSUME NEW n \in Nat
  PROVE  2^n \in Nat \ {0}
<1>1. IsFiniteSet(1 .. n) /\ Cardinality(1 .. n) = n
  <2>1. IsFiniteSet(1 .. n) /\ Cardinality(1 .. n) = IF 1 > n THEN 0 ELSE n - 1 + 1
    BY FS_Interval
  <2> QED BY <2>1
<1>2. IsFiniteSet(SUBSET (1 .. n)) /\ Cardinality(SUBSET (1 .. n)) = 2^n
  BY <1>1, FS_SUBSET
<1>3. SUBSET (1 .. n) # {}
  OBVIOUS
<1> QED BY <1>2, <1>3, FS_CardinalityType, FS_EmptySet

\* The subsets of m + n elements are pairs of subsets of the two parts.
LEMMA PowerAdd ==
  ASSUME NEW m \in Nat, NEW n \in Nat
  PROVE  2^(m + n) = 2^m * 2^n
<1> DEFINE S == 1 .. m
           T == m + 1 .. m + n
           U == 1 .. m + n
<1>1. IsFiniteSet(S) /\ Cardinality(S) = m
  <2>1. IsFiniteSet(1 .. m) /\ Cardinality(1 .. m) = IF 1 > m THEN 0 ELSE m - 1 + 1
    BY FS_Interval
  <2> QED BY <2>1
<1>2. IsFiniteSet(T) /\ Cardinality(T) = n
  <2>1. IsFiniteSet(m + 1 .. m + n)
        /\ Cardinality(m + 1 .. m + n) = IF m + 1 > m + n THEN 0 ELSE m + n - (m + 1) + 1
    BY FS_Interval
  <2> QED BY <2>1
<1>3. IsFiniteSet(U) /\ Cardinality(U) = m + n
  <2>1. IsFiniteSet(1 .. m + n) /\ Cardinality(1 .. m + n) = IF 1 > m + n THEN 0 ELSE m + n - 1 + 1
    BY FS_Interval
  <2> QED BY <2>1
<1>4. U = S \cup T /\ S \cap T = {}
  OBVIOUS
<1> HIDE DEF S, T, U
<1>5. /\ IsFiniteSet(SUBSET S) /\ Cardinality(SUBSET S) = 2^m
      /\ IsFiniteSet(SUBSET T) /\ Cardinality(SUBSET T) = 2^n
      /\ IsFiniteSet(SUBSET U) /\ Cardinality(SUBSET U) = 2^(m + n)
  BY <1>1, <1>2, <1>3, FS_SUBSET
<1>6. /\ IsFiniteSet((SUBSET S) \X (SUBSET T))
      /\ Cardinality((SUBSET S) \X (SUBSET T)) = 2^m * 2^n
  <2>1. PICK P : P = SUBSET S
    OBVIOUS
  <2>2. PICK Q : Q = SUBSET T
    OBVIOUS
  <2>3. IsFiniteSet(P) /\ IsFiniteSet(Q)
    BY <1>5, <2>1, <2>2
  <2>4. IsFiniteSet(P \X Q) /\ Cardinality(P \X Q) = Cardinality(P) * Cardinality(Q)
    BY <2>3, FS_Product
  <2> QED BY <1>5, <2>1, <2>2, <2>4
<1> DEFINE split == [x \in SUBSET U |-> <<x \cap S, x \cap T>>]
<1>7. split \in [SUBSET U -> (SUBSET S) \X (SUBSET T)]
  OBVIOUS
<1>8. ASSUME NEW x \in SUBSET U, NEW y \in SUBSET U, split[x] = split[y] PROVE x = y
  <2>1. x \cap S = y \cap S /\ x \cap T = y \cap T
    BY <1>8
  <2> QED BY <1>4, <2>1
<1>9. ASSUME NEW p \in (SUBSET S) \X (SUBSET T) PROVE \E x \in SUBSET U : split[x] = p
  <2>1. PICK a \in SUBSET S, b \in SUBSET T : p = <<a, b>>
    OBVIOUS
  <2>2. a \cup b \in SUBSET U /\ (a \cup b) \cap S = a /\ (a \cup b) \cap T = b
    BY <1>4
  <2>3. split[a \cup b] = p
    BY <2>1, <2>2
  <2> QED BY <2>2, <2>3
<1> HIDE DEF split
<1>10. split \in Bijection(SUBSET U, (SUBSET S) \X (SUBSET T))
  <2>1. \A x, y \in SUBSET U : split[x] = split[y] => x = y
    BY <1>8
  <2>2. \A p \in (SUBSET S) \X (SUBSET T) : \E x \in SUBSET U : split[x] = p
    BY <1>9
  <2>3. split \in Injection(SUBSET U, (SUBSET S) \X (SUBSET T))
    BY <1>7, <2>1 DEF Injection, IsInjective
  <2>4. split \in Surjection(SUBSET U, (SUBSET S) \X (SUBSET T))
    BY <1>7, <2>2, Zenon DEF Surjection
  <2> QED BY <2>3, <2>4 DEF Bijection
<1>11. ExistsBijection(SUBSET U, (SUBSET S) \X (SUBSET T))
  BY <1>10 DEF ExistsBijection
<1> QED BY <1>5, <1>6, <1>11, FS_Bijection

LEMMA PowerStep ==
  ASSUME NEW n \in Nat
  PROVE  2^(n + 1) = 2 * 2^n
<1>1. 2^(n + 1) = 2^n * 2^1
  BY PowerAdd
<1>2. 2^1 = 2
  OBVIOUS
<1> QED BY <1>1, <1>2, PowerNat

(***************************************************************************)
(* Widths.                                                                 *)
(***************************************************************************)
LEMMA Widths ==
  ASSUME NEW sz \in Sizes
  PROVE  /\ Bits[sz] \in Nat \ {0} /\ Bits[sz] - 1 \in Nat
         /\ 2^Bits[sz] \in Nat \ {0} /\ 2^(Bits[sz] - 1) \in Nat \ {0}
         /\ 2^Bits[sz] = 2 * 2^(Bits[sz] - 1)
<1>1. Bits[sz] \in Nat \ {0} /\ Bits[sz] - 1 \in Nat
  BY InterpAssumption DEF Bits, Sizes
<1>2. 2^Bits[sz] \in Nat \ {0} /\ 2^(Bits[sz] - 1) \in Nat \ {0}
  BY <1>1, PowerNat
<1>3. PICK n \in Nat : n = Bits[sz] - 1
  BY <1>1
<1>4. 2^(n + 1) = 2 * 2^n
  BY PowerStep
<1>5. n + 1 = Bits[sz]
  BY <1>1, <1>3
<1> QED BY <1>1, <1>2, <1>3, <1>4, <1>5

\* A size's half, so that the sign is the quotient by it.
LEMMA WholeIsTwice ==
  ASSUME NEW sz \in Sizes
  PROVE  \E h \in Nat \ {0} : 2^(Bits[sz] - 1) = h /\ 2^Bits[sz] = 2 * h
BY Widths

LEMMA LowType ==
  ASSUME NEW v \in Int, NEW sz \in Sizes
  PROVE  /\ Low(v, sz) \in 0 .. 2^Bits[sz] - 1 /\ Low(v, sz) \in Nat
         /\ Msb(v, sz) \in {0, 1} /\ Signed(v, sz) \in Int /\ sext(v, sz) \in Longs
<1>1. PICK h \in Nat \ {0} : 2^(Bits[sz] - 1) = h /\ 2^Bits[sz] = 2 * h
  BY WholeIsTwice
<1>2. PICK r \in 0 .. 2 * h - 1 : r = Low(v, sz)
  <2>1. 2 * h \in Nat \ {0}
    OBVIOUS
  <2>2. v % (2 * h) \in 0 .. 2 * h - 1
    BY <2>1, RemainderDef
  <2> QED BY <1>1, <2>2 DEF Low
<1>3. r \div h \in {0, 1}
  <2>1. r \div h \in Int /\ r % h \in 0 .. h - 1 /\ r = h * (r \div h) + (r % h)
    BY RemainderDef
  <2>2. PICK q \in Int : q = r \div h
    BY <2>1
  <2>3. PICK s \in 0 .. h - 1 : s = r % h
    BY <2>1
  <2>4. r = h * q + s
    BY <2>1, <2>2, <2>3
  <2>5. q < 2
    <3>1. SUFFICES ASSUME q >= 2 PROVE FALSE
      OBVIOUS
    <3>2. h * q >= h * 2
      BY <3>1
    <3> QED BY <2>4, <3>2
  <2>6. q >= 0
    <3>1. SUFFICES ASSUME q <= -1 PROVE FALSE
      OBVIOUS
    <3>2. h * q <= -h
      BY <3>1
    <3> QED BY <2>4, <3>2
  <2> QED BY <2>2, <2>5, <2>6
<1>4. Msb(v, sz) \in {0, 1}
  BY <1>1, <1>2, <1>3 DEF Msb
<1>5. Signed(v, sz) \in Int
  BY <1>1, <1>2, <1>4 DEF Signed
<1>6. sext(v, sz) \in Longs
  <2>1. "L" \in Sizes
    BY DEF Sizes
  <2>2. 2^Bits["L"] \in Nat \ {0}
    BY <2>1, Widths
  <2>3. PICK w \in Nat \ {0} : w = 2^Bits["L"]
    BY <2>2
  <2>4. PICK x \in Int : x = Signed(v, sz)
    BY <1>5
  <2>5. x % w \in 0 .. w - 1
    BY RemainderDef
  <2> QED BY <2>3, <2>4, <2>5 DEF sext, Low, Longs
<1>7. 0 .. 2 * h - 1 \subseteq Nat
  OBVIOUS
<1> QED BY <1>1, <1>2, <1>4, <1>5, <1>6, <1>7

LEMMA LowLong ==
  ASSUME NEW v \in Int
  PROVE  Low(v, "L") \in Longs
BY LowType DEF Longs, Sizes

LEMMA LowByte ==
  ASSUME NEW v \in Int
  PROVE  Low(v, "B") \in Bytes
<1>1. Low(v, "B") \in 0 .. 2^Bits["B"] - 1
  BY LowType DEF Sizes
<1> QED BY <1>1 DEF Bytes, Bits

LEMMA LongsInt == Longs \subseteq Nat /\ Bytes \subseteq Nat
<1>1. 2^Bits["L"] \in Nat \ {0} /\ 2^ByteBits \in Nat \ {0}
  BY InterpAssumption, PowerNat, Widths DEF Sizes
<1> QED BY <1>1 DEF Longs, Bytes

LEMMA SextNat ==
  ASSUME NEW v \in Int, NEW sz \in Sizes
  PROVE  sext(v, sz) \in Nat
<1>1. sext(v, sz) \in Longs
  BY LowType
<1> QED BY <1>1, LongsInt

LEMMA FlagType == ASSUME NEW p PROVE Flag(p) \in {0, 1}
BY DEF Flag

(***************************************************************************)
(* Every effect keeps the machine one.                                     *)
(***************************************************************************)
Kept(c, d) == MachineOK(d) /\ d.er = c.er

LEMMA KeptSelf == ASSUME NEW c, MachineOK(c) PROVE Kept(c, c)
BY DEF Kept

LEMMA KeptOn ==
  ASSUME NEW c, NEW d, NEW e, Kept(c, d), Kept(d, e)
  PROVE  Kept(c, e)
BY DEF Kept

LEMMA ThenKept ==
  ASSUME NEW c, MachineOK(c), NEW d, Kept(c, d)
  PROVE  Kept(c, Then(c, d))
BY DEF Kept, Then

LEMMA SetDKept ==
  ASSUME NEW c, MachineOK(c), NEW r \in 0 .. 7, NEW v \in Int
  PROVE  Kept(c, SetD(c, r, v))
<1>1. PICK l \in Longs : l = Low(v, "L")
  BY LowLong
<1>2. PICK d : d = [c EXCEPT !.D[r] = l]
  OBVIOUS
<1>3. MachineOK(d) /\ d.er = c.er
  BY <1>2 DEF MachineOK
<1> QED BY <1>1, <1>2, <1>3 DEF SetD, Then, Kept

LEMMA SetAKept ==
  ASSUME NEW c, MachineOK(c), NEW r \in 0 .. 7, NEW v \in Int
  PROVE  Kept(c, SetA(c, r, v))
<1>1. PICK l \in Longs : l = Low(v, "L")
  BY LowLong
<1>2. PICK d : d = [c EXCEPT !.A[r] = l]
  OBVIOUS
<1>3. MachineOK(d) /\ d.er = c.er
  BY <1>2 DEF MachineOK
<1> QED BY <1>1, <1>2, <1>3 DEF SetA, Then, Kept

LEMMA SetSRKept ==
  ASSUME NEW c, MachineOK(c), NEW s, SrOK(s)
  PROVE  Kept(c, SetSR(c, s))
<1>1. PICK d : d = [c EXCEPT !.sr = s]
  OBVIOUS
<1>2. MachineOK(d) /\ d.er = c.er
  BY <1>1 DEF MachineOK
<1> QED BY <1>1, <1>2 DEF SetSR, Then, Kept

LEMMA RegisterType ==
  ASSUME NEW c, MachineOK(c), NEW r \in 0 .. 7
  PROVE  c.D[r] \in Nat /\ c.A[r] \in Nat /\ c.D[r] \in Longs /\ c.A[r] \in Longs
BY LongsInt DEF MachineOK

LEMMA AddAKept ==
  ASSUME NEW c, MachineOK(c), NEW r \in 0 .. 7, NEW n \in Int
  PROVE  Kept(c, AddA(c, r, n))
<1>1. PICK a \in Int : a = c.A[r]
  BY RegisterType
<1>2. a + n \in Int
  OBVIOUS
<1> QED BY <1>1, <1>2, SetAKept DEF AddA

LEMMA GoToKept ==
  ASSUME NEW c, MachineOK(c), NEW a \in Int
  PROVE  Kept(c, GoTo(c, a))
<1>1. PICK d : d = [c EXCEPT !.next = a]
  OBVIOUS
<1>2. MachineOK(d) /\ d.er = c.er
  BY <1>1 DEF MachineOK
<1> QED BY <1>1, <1>2 DEF GoTo, Then, Kept

LEMMA FaultKept ==
  ASSUME NEW c, MachineOK(c)
  PROVE  Kept(c, Fault(c))
<1>1. PICK d : d = [c EXCEPT !.fault = TRUE]
  OBVIOUS
<1>2. MachineOK(d) /\ d.er = c.er
  BY <1>1 DEF MachineOK
<1> QED BY <1>1, <1>2 DEF Fault, Then, Kept

LEMMA ValKept ==
  ASSUME NEW c, MachineOK(c), NEW v \in Int
  PROVE  Kept(c, Val(c, v))
<1>1. PICK d : d = [c EXCEPT !.val = v]
  OBVIOUS
<1>2. MachineOK(d) /\ d.er = c.er
  BY <1>1 DEF MachineOK
<1> QED BY <1>1, <1>2 DEF Val, Then, Kept

LEMMA HaltedKept ==
  ASSUME NEW c, MachineOK(c)
  PROVE  Kept(c, Halted(c))
<1>1. PICK d : d = [c EXCEPT !.halted = TRUE]
  OBVIOUS
<1>2. MachineOK(d) /\ d.er = c.er
  BY <1>1 DEF MachineOK
<1> QED BY <1>1, <1>2 DEF Halted, Then, Kept

LEMMA IllegalKept ==
  ASSUME NEW c, MachineOK(c)
  PROVE  Kept(c, Then(c, [c EXCEPT !.illegal = TRUE])) /\ Kept(c, [c EXCEPT !.unimpl = TRUE])
<1>1. PICK d : d = [c EXCEPT !.illegal = TRUE]
  OBVIOUS
<1>2. PICK e : e = [c EXCEPT !.unimpl = TRUE]
  OBVIOUS
<1>3. MachineOK(d) /\ d.er = c.er
  BY <1>1 DEF MachineOK
<1>4. MachineOK(e) /\ e.er = c.er
  BY <1>2 DEF MachineOK
<1> QED BY <1>1, <1>2, <1>3, <1>4 DEF Then, Kept

\* The extension words are at most four.
LEMMA SkipKept ==
  ASSUME NEW c, MachineOK(c), NEW n \in 1 .. 2, c.er <= 3
  PROVE  MachineOK(Skip(c, n)) /\ Skip(c, n).er \in c.er .. c.er + n
<1>1. PICK d : d = [c EXCEPT !.er = @ + n]
  OBVIOUS
<1>2. MachineOK(d) /\ d.er = c.er + n
  BY <1>1 DEF MachineOK
<1>3. c.er \in Nat
  BY DEF MachineOK
<1> QED BY <1>1, <1>2, <1>3 DEF Skip, Then

LEMMA RewindKept ==
  ASSUME NEW c, MachineOK(c), NEW k \in 1 .. 5
  PROVE  MachineOK([c EXCEPT !.er = k]) /\ [c EXCEPT !.er = k].er = k
<1>1. PICK d : d = [c EXCEPT !.er = k]
  OBVIOUS
<1>2. MachineOK(d) /\ d.er = k
  BY <1>1 DEF MachineOK
<1> QED BY <1>1, <1>2

LEMMA StoreKept ==
  ASSUME NEW c, MachineOK(c), NEW r \in 0 .. 7, NEW v \in Int, NEW sz \in Sizes
  PROVE  Kept(c, store_dn(c, r, v, sz))
<1>1. PICK d \in Int : d = c.D[r]
  BY RegisterType
<1>2. Low(d, sz) \in Int /\ Low(v, sz) \in Int
  BY LowType
<1>3. d - Low(d, sz) + Low(v, sz) \in Int
  BY <1>2
<1> QED BY <1>1, <1>3, SetDKept DEF store_dn

(***************************************************************************)
(* The bus.                                                                *)
(***************************************************************************)
LEMMA CellOf ==
  ASSUME NEW a, a \in Ram
  PROVE  a \in Longs /\ a \in Nat /\ a \in Cells /\ a + 1 \in Cells
<1>1. Ram \subseteq Longs
  BY InterpAssumption
<1>2. a \in Longs /\ a \in Nat
  BY <1>1, LongsInt
<1> QED BY <1>2 DEF Cells

LEMMA HandlerType ==
  ASSUME NEW vec \in DOMAIN Handler
  PROVE  Handler[vec] \in Longs /\ Handler[vec] \in Nat
<1>1. Handler[vec] \in Longs
  BY InterpAssumption
<1> QED BY <1>1, LongsInt

LEMMA CellType ==
  ASSUME NEW c, MachineOK(c), NEW a, a \in Ram
  PROVE  c.mem[a] \in Bytes /\ c.mem[a + 1] \in Bytes /\ c.mem[a] \in Nat /\ c.mem[a + 1] \in Nat
<1>1. \A x \in Cells : c.mem[x] \in Bytes
  BY DEF MachineOK
<1>2. c.mem[a] \in Bytes /\ c.mem[a + 1] \in Bytes
  BY <1>1, CellOf
<1> QED BY <1>2, LongsInt

LEMMA Read8Kept ==
  ASSUME NEW c, MachineOK(c), NEW a
  PROVE  Kept(c, read8(c, a))
<1>1. CASE a \in Ram
  <2>1. c.mem[a] \in Int
    BY <1>1, CellType
  <2> QED BY <1>1, <2>1, ValKept DEF read8, Val
<1>2. CASE a \notin Ram
  BY <1>2, FaultKept DEF read8
<1> QED BY <1>1, <1>2

LEMMA Read16Kept ==
  ASSUME NEW c, MachineOK(c), NEW a
  PROVE  Kept(c, read16(c, a))
<1>1. CASE a \in Ram
  <2>1. PICK x \in Int : x = c.mem[a]
    BY <1>1, CellType
  <2>2. PICK y \in Int : y = c.mem[a + 1]
    BY <1>1, CellType
  <2>3. PICK w \in Int : w = 2^ByteBits
    BY InterpAssumption, PowerNat
  <2>4. x * w + y \in Int
    OBVIOUS
  <2> QED BY <1>1, <2>1, <2>2, <2>3, <2>4, ValKept DEF read16, Val
<1>2. CASE a \notin Ram
  BY <1>2, FaultKept DEF read16
<1> QED BY <1>1, <1>2

LEMMA ValType == ASSUME NEW c, MachineOK(c) PROVE c.val \in Int /\ c.next \in Int /\ c.fault \in BOOLEAN
BY DEF MachineOK

LEMMA Read32Kept ==
  ASSUME NEW c, MachineOK(c), NEW a
  PROVE  Kept(c, read32(c, a))
<1>1. PICK h : h = read16(c, a)
  OBVIOUS
<1>2. MachineOK(h) /\ h.er = c.er
  BY <1>1, Read16Kept DEF Kept
<1>3. PICK l : l = read16(h, Low(a + 2, "L"))
  OBVIOUS
<1>4. MachineOK(l) /\ l.er = c.er
  BY <1>2, <1>3, Read16Kept DEF Kept
<1>5. PICK v \in Int : v = h.val * 2^Bits["W"] + l.val
  <2>1. h.val \in Int /\ l.val \in Int /\ 2^Bits["W"] \in Int
    BY <1>2, <1>4, ValType, Widths DEF Sizes
  <2> QED BY <2>1
<1>6. read32(c, a) = Then(l, [l EXCEPT !.val = h.val * 2^Bits["W"] + l.val])
  BY <1>1, <1>3 DEF read32, LowWord, Joined
<1>7. read32(c, a) = Val(l, v)
  BY <1>5, <1>6 DEF Val
<1> QED BY <1>4, <1>7, ValKept DEF Kept

LEMMA Write8Kept ==
  ASSUME NEW c, MachineOK(c), NEW a, NEW v \in Int
  PROVE  Kept(c, write8(c, a, v))
<1>1. PICK b \in Bytes : b = Low(v, "B")
  BY LowByte
<1>2. PICK d : d = [c EXCEPT !.mem[a] = b]
  OBVIOUS
<1>3. a \in Ram => MachineOK(d) /\ d.er = c.er
  BY <1>2, CellOf DEF MachineOK
<1> QED BY <1>1, <1>2, <1>3, FaultKept DEF write8, Then, Kept

LEMMA Write16Kept ==
  ASSUME NEW c, MachineOK(c), NEW a, NEW v \in Int
  PROVE  Kept(c, write16(c, a, v))
<1>1. PICK b \in Bytes : b = Low(v, "B")
  BY LowByte
<1>2. PICK h \in Bytes : h = Low(v \div 2^ByteBits, "B")
  <2>1. v \div 2^ByteBits \in Int
    BY InterpAssumption, PowerNat, RemainderDef
  <2> QED BY <2>1, LowByte
<1>3. PICK m : m = [c.mem EXCEPT ![a] = h]
  OBVIOUS
<1>4. PICK n : n = [m EXCEPT ![a + 1] = b]
  OBVIOUS
<1>5. PICK d : d = [c EXCEPT !.mem = n]
  OBVIOUS
<1>6. ASSUME a \in Ram PROVE MachineOK(d) /\ d.er = c.er
  <2>1. n \in [Cells -> Bytes]
    BY <1>3, <1>4 DEF MachineOK
  <2> QED BY <1>5, <2>1 DEF MachineOK
<1>7. d = [c EXCEPT !.mem[a] = h, !.mem[a + 1] = b]
  BY <1>3, <1>4, <1>5 DEF MachineOK
<1> QED BY <1>1, <1>2, <1>6, <1>7, FaultKept DEF write16, Then, Kept

LEMMA Write32Kept ==
  ASSUME NEW c, MachineOK(c), NEW a, NEW v \in Int
  PROVE  Kept(c, write32(c, a, v))
<1>1. PICK h \in Int : h = Low(v \div 2^Bits["W"], "W")
  <2>1. v \div 2^Bits["W"] \in Int
    BY Widths, RemainderDef DEF Sizes
  <2> QED BY <2>1, LowType DEF Sizes
<1>2. PICK l \in Int : l = Low(v, "W")
  BY LowType DEF Sizes
<1>3. PICK d : d = write16(c, a, h)
  OBVIOUS
<1>4. MachineOK(d) /\ d.er = c.er
  BY <1>3, Write16Kept DEF Kept
<1> QED BY <1>1, <1>2, <1>3, <1>4, Write16Kept DEF write32, Kept

LEMMA MemReadKept ==
  ASSUME NEW c, MachineOK(c), NEW sz \in Sizes, NEW a
  PROVE  Kept(c, mem_read(c, sz, a))
BY Read8Kept, Read16Kept, Read32Kept DEF mem_read, Sizes

LEMMA MemWriteKept ==
  ASSUME NEW c, MachineOK(c), NEW sz \in Sizes, NEW a, NEW v \in Int
  PROVE  Kept(c, mem_write(c, sz, a, v))
<1>1. Low(v, "W") \in Int
  BY LowType DEF Sizes
<1> QED BY <1>1, Write8Kept, Write16Kept, Write32Kept DEF mem_write, Sizes

LEMMA PushKept ==
  ASSUME NEW c, MachineOK(c), NEW v \in Int
  PROVE  Kept(c, push16(c, v)) /\ Kept(c, push32(c, v))
<1>1. PICK d : d = AddA(c, 7, -2)
  OBVIOUS
<1>2. PICK e : e = AddA(c, 7, -4)
  OBVIOUS
<1>3. MachineOK(d) /\ d.er = c.er /\ MachineOK(e) /\ e.er = c.er
  <2>1. -2 \in Int /\ -4 \in Int /\ 7 \in 0 .. 7
    OBVIOUS
  <2>2. Kept(c, AddA(c, 7, -2)) /\ Kept(c, AddA(c, 7, -4))
    BY <2>1, AddAKept
  <2> QED BY <1>1, <1>2, <2>2 DEF Kept
<1>4. Kept(d, mem_write(d, "W", d.A[7], v)) /\ Kept(e, mem_write(e, "L", e.A[7], v))
  BY <1>3, MemWriteKept DEF Sizes
<1> QED BY <1>1, <1>2, <1>3, <1>4 DEF push16, push32, OnStack, Kept

LEMMA PopKept ==
  ASSUME NEW c, MachineOK(c)
  PROVE  Kept(c, pop16(c)) /\ Kept(c, pop32(c))
<1>1. PICK d : d = read16(c, c.A[7])
  OBVIOUS
<1>2. PICK e : e = read32(c, c.A[7])
  OBVIOUS
<1>3. MachineOK(d) /\ d.er = c.er /\ MachineOK(e) /\ e.er = c.er
  BY <1>1, <1>2, Read16Kept, Read32Kept DEF Kept
<1>4. Kept(d, AddA(d, 7, 2)) /\ Kept(e, AddA(e, 7, 4))
  BY <1>3, AddAKept
<1> QED BY <1>1, <1>2, <1>3, <1>4 DEF pop16, pop32, Kept

(***************************************************************************)
(* Effective addresses: at most two extension words each.                  *)
(***************************************************************************)
Ranged(c, d) == MachineOK(d) /\ d.er <= c.er + 2

LEMMA KeptRanged ==
  ASSUME NEW c, MachineOK(c), NEW d, Kept(c, d)
  PROVE  Ranged(c, d)
BY DEF Kept, Ranged, MachineOK

LEMMA KeptThenRanged ==
  ASSUME NEW c, NEW d, NEW e, Kept(c, d), Ranged(d, e)
  PROVE  Ranged(c, e)
BY DEF Kept, Ranged

LEMMA RangedThenKept ==
  ASSUME NEW c, NEW d, NEW e, Ranged(c, d), Kept(d, e)
  PROVE  Ranged(c, e)
BY DEF Kept, Ranged

LEMMA ExtType ==
  ASSUME NEW c, MachineOK(c), c.er <= 3, NEW ins, InstructionOK(ins)
  PROVE  /\ c.er \in Nat /\ Ext(c, ins) \in Nat /\ ins.ext[c.er + 1] \in Nat /\ BriefOK(ins.brief[c.er])
<1>1. c.er \in 1 .. 4 /\ c.er + 1 \in 1 .. 4
  BY DEF MachineOK
<1>2. \A i \in 1 .. 4 : ins.ext[i] \in Nat /\ BriefOK(ins.brief[i])
  BY DEF InstructionOK
<1> QED BY <1>1, <1>2 DEF Ext

LEMMA SkipValKept ==
  ASSUME NEW c, MachineOK(c), c.er <= 3, NEW v \in Int, NEW n \in 1 .. 2
  PROVE  Ranged(c, Skip(Val(c, v), n))
<1>1. PICK d : d = Val(c, v)
  OBVIOUS
<1>2. MachineOK(d) /\ d.er = c.er /\ d.er <= 3
  BY <1>1, ValKept DEF Kept
<1>3. MachineOK(Skip(d, n)) /\ Skip(d, n).er \in d.er .. d.er + n
  BY <1>2, SkipKept
<1>4. d.er \in Nat
  BY <1>2 DEF MachineOK
<1> QED BY <1>1, <1>2, <1>3, <1>4 DEF Ranged

LEMMA ImmediateRanged ==
  ASSUME NEW c, MachineOK(c), c.er <= 3, NEW ins, InstructionOK(ins), NEW sz \in Sizes
  PROVE  Ranged(c, er_next_imm(c, ins, sz))
<1>1. PICK x \in Int : x = Ext(c, ins)
  BY ExtType
<1>2. PICK y \in Int : y = ins.ext[c.er + 1]
  BY ExtType
<1>3. PICK w \in Int : w = 2^Bits["W"]
  BY Widths DEF Sizes
<1>4. x * w + y \in Int /\ Low(x, sz) \in Int
  BY LowType
<1> QED BY <1>1, <1>2, <1>3, <1>4, SkipValKept DEF er_next_imm

LEMMA IndexType ==
  ASSUME NEW c, MachineOK(c), NEW x, BriefOK(x), NEW long
  PROVE  Index(c, x, long) \in Int
<1>1. PICK r \in Int : r = IF x.xtype = 1 THEN c.A[x.xreg] ELSE c.D[x.xreg]
  BY RegisterType DEF BriefOK
<1>2. PICK p \in Int : p = Signed(r, "L")
  BY LowType DEF Sizes
<1>3. PICK q \in Int : q = Signed(r, "W")
  BY LowType DEF Sizes
<1>4. PICK d \in Int : d = Signed(x.d8, "B")
  <2>1. x.d8 \in Int
    BY DEF BriefOK
  <2> QED BY <2>1, LowType DEF Sizes
<1> QED BY <1>1, <1>2, <1>3, <1>4 DEF Index

LEMMA AddrRanged ==
  ASSUME NEW c, MachineOK(c), c.er <= 3, NEW ins, InstructionOK(ins), NEW ea, EaOK(ea), NEW long
  PROVE  Ranged(c, AddrEa(c, ins, ea, long))
<1> DEFINE x == ins.brief[c.er]
           indexed == ea.mode = 6 \/ ea = EA(7, 3)
           base == IF ea.mode # 7 THEN c.A[ea.reg] ELSE IF ea.reg = 0 THEN 0 ELSE PcBase(c, ins)
           off == IF indexed THEN Index(c, x, long /\ x.long) ELSE Signed(Ext(c, ins), "W")
<1>1. base \in Int
  <2>1. c.er \in Nat /\ ins.addr \in Nat /\ ea.reg \in 0 .. 7
    BY ExtType DEF InstructionOK, EaOK
  <2>2. c.A[ea.reg] \in Int
    BY <2>1, RegisterType
  <2> QED BY <2>1, <2>2 DEF PcBase
<1>2. off \in Int
  <2>1. BriefOK(x) /\ Ext(c, ins) \in Int
    BY ExtType
  <2>2. Index(c, x, long /\ x.long) \in Int
    BY <2>1, IndexType
  <2>3. Signed(Ext(c, ins), "W") \in Int
    BY <2>1, LowType DEF Sizes
  <2> QED BY <2>2, <2>3
<1> HIDE DEF x, indexed, base, off
<1>3. Low(base + off, "L") \in Int
  <2>1. base + off \in Int
    BY <1>1, <1>2
  <2> QED BY <2>1, LowType DEF Sizes
<1>4. Ranged(c, Skip(Val(c, Low(base + off, "L")), 1))
  BY <1>3, SkipValKept
<1>5. Ranged(c, er_next_imm(c, ins, "L"))
  BY ImmediateRanged DEF Sizes
<1>6. Ranged(c, Val(c, c.A[ea.reg])) /\ Ranged(c, Val(c, 0))
  <2>1. c.A[ea.reg] \in Int
    BY RegisterType DEF EaOK
  <2> QED BY <2>1, ValKept, KeptRanged
<1>7. AddrEa(c, ins, ea, long) \in
        {Val(c, c.A[ea.reg]), er_next_imm(c, ins, "L"), Skip(Val(c, Low(base + off, "L")), 1), Val(c, 0)}
  BY Zenon DEF AddrEa, x, indexed, base, off
<1> QED BY <1>4, <1>5, <1>6, <1>7

LEMMA StepType ==
  ASSUME NEW ea, NEW sz \in Sizes
  PROVE  Step(ea, sz) \in Int /\ -Step(ea, sz) \in Int
<1>1. szbytes[sz] \in Int
  BY DEF szbytes, Sizes
<1>2. Step(ea, sz) \in Int
  BY <1>1 DEF Step
<1> QED BY <1>2

LEMMA AtRegisterKept ==
  ASSUME NEW c, MachineOK(c), NEW r \in 0 .. 7
  PROVE  Kept(c, AtRegister(c, r))
BY RegisterType, ValKept DEF AtRegister

LEMMA LocatedRanged ==
  ASSUME NEW c, MachineOK(c), c.er <= 3, NEW ins, InstructionOK(ins), NEW ea, EaOK(ea),
         NEW sz \in Sizes, NEW back
  PROVE  Ranged(c, Located(c, ins, ea, sz, back))
<1>0. ea.reg \in 0 .. 7
  BY DEF EaOK
<1>1. PICK d : d = IF ea.mode = 4 /\ back THEN AddA(c, ea.reg, -Step(ea, sz)) ELSE c
  OBVIOUS
<1>2. Kept(c, d)
  <2>1. Kept(c, AddA(c, ea.reg, -Step(ea, sz)))
    BY <1>0, StepType, AddAKept
  <2> QED BY <1>1, <2>1, KeptSelf
<1>3. Kept(d, AtRegister(d, ea.reg))
  BY <1>0, <1>2, AtRegisterKept DEF Kept
<1>4. Ranged(c, AtRegister(d, ea.reg))
  BY <1>2, <1>3, KeptOn, KeptRanged
<1>5. Ranged(c, AddrEa(c, ins, ea, TRUE))
  BY AddrRanged
<1> QED BY <1>1, <1>4, <1>5 DEF Located

LEMMA SteppedKept ==
  ASSUME NEW c, MachineOK(c), NEW ea, EaOK(ea), NEW sz \in Sizes
  PROVE  Kept(c, Stepped(c, ea, sz))
<1>1. ea.reg \in 0 .. 7
  BY DEF EaOK
<1>2. Kept(c, AddA(c, ea.reg, Step(ea, sz)))
  BY <1>1, StepType, AddAKept
<1> QED BY <1>2, KeptSelf DEF Stepped

LEMMA AtKept ==
  ASSUME NEW c, MachineOK(c), NEW sz \in Sizes, NEW v \in Int
  PROVE  Kept(c, ReadAt(c, sz)) /\ Kept(c, WriteAt(c, sz, v))
BY MemReadKept, MemWriteKept DEF ReadAt, WriteAt

LEMMA ReadRanged ==
  ASSUME NEW c, MachineOK(c), c.er <= 3, NEW ins, InstructionOK(ins), NEW ea, EaOK(ea),
         NEW sz \in Sizes, NEW rmw
  PROVE  Ranged(c, read_ea_ex(c, ins, ea, sz, rmw))
<1>1. ea.reg \in 0 .. 7
  BY DEF EaOK
<1>2. Ranged(c, Val(c, c.D[ea.reg])) /\ Ranged(c, Val(c, c.A[ea.reg]))
  BY <1>1, RegisterType, ValKept, KeptRanged
<1>3. Ranged(c, er_next_imm(c, ins, sz))
  BY ImmediateRanged
<1>4. PICK d : d = Located(c, ins, ea, sz, TRUE)
  OBVIOUS
<1>5. Ranged(c, d)
  BY <1>4, LocatedRanged
<1>6. PICK e : e = ReadAt(d, sz)
  OBVIOUS
<1>7. Kept(d, e)
  BY <1>5, <1>6, AtKept DEF Ranged
<1>8. Kept(e, ReadMemory(e, ea, sz, rmw))
  <2>1. MachineOK(e)
    BY <1>7 DEF Kept
  <2> QED BY <2>1, SteppedKept, KeptSelf DEF ReadMemory
<1>9. Ranged(c, ReadMemory(e, ea, sz, rmw))
  BY <1>5, <1>7, <1>8, RangedThenKept
<1> QED BY <1>2, <1>3, <1>4, <1>6, <1>9, Zenon DEF read_ea_ex

LEMMA WriteRanged ==
  ASSUME NEW c, MachineOK(c), c.er <= 3, NEW ins, InstructionOK(ins), NEW ea, EaOK(ea),
         NEW sz \in Sizes, NEW v \in Int, NEW rmw
  PROVE  Ranged(c, write_ea_ex(c, ins, ea, sz, v, rmw))
<1>1. ea.reg \in 0 .. 7
  BY DEF EaOK
<1>2. Ranged(c, store_dn(c, ea.reg, v, sz))
  BY <1>1, StoreKept, KeptRanged
<1>3. Ranged(c, Then(c, [c EXCEPT !.illegal = TRUE])) /\ Ranged(c, c)
  BY IllegalKept, KeptSelf, KeptRanged
<1>4. PICK d : d = Located(c, ins, ea, sz, ~rmw)
  OBVIOUS
<1>5. Ranged(c, d)
  BY <1>4, LocatedRanged
<1>6. PICK e : e = WriteAt(d, sz, v)
  OBVIOUS
<1>7. Kept(d, e)
  BY <1>5, <1>6, AtKept DEF Ranged
<1>8. Kept(e, Stepped(e, ea, sz))
  BY <1>7, SteppedKept DEF Kept
<1>9. Ranged(c, Stepped(e, ea, sz))
  BY <1>5, <1>7, <1>8, RangedThenKept
<1> QED BY <1>2, <1>3, <1>4, <1>6, <1>9, Zenon DEF write_ea_ex

\* Read, compute and write back: what is left to show is that the computation
\* keeps the machine.
LEMMA WrittenBackKept ==
  ASSUME NEW c, MachineOK(c), c.er <= 3, NEW ins, InstructionOK(ins), NEW sz \in Sizes,
         NEW f, MachineOK(f)
  PROVE  MachineOK(WrittenBack(f, c.er, ins, sz))
<1>1. c.er \in 1 .. 5
  BY DEF MachineOK
<1>2. PICK g : g = [f EXCEPT !.er = c.er]
  OBVIOUS
<1>3. MachineOK(g) /\ g.er <= 3
  BY <1>1, <1>2, RewindKept
<1>4. f.val \in Int /\ EaOK(ins.ea)
  BY ValType DEF InstructionOK
<1>5. Ranged(g, write_ea_ex(g, ins, ins.ea, sz, f.val, TRUE))
  BY <1>3, <1>4, WriteRanged
<1> QED BY <1>2, <1>5 DEF WrittenBack, Ranged

LEMMA ReadForWrite ==
  ASSUME NEW c, MachineOK(c), c.er <= 3, NEW ins, InstructionOK(ins), NEW sz \in Sizes, NEW rmw,
         NEW r, r = read_ea_ex(c, ins, ins.ea, sz, rmw)
  PROVE  MachineOK(r) /\ r.er <= c.er + 2 /\ r.val \in Int /\ Low(r.val, sz) \in Nat
         /\ Low(r.val, sz) \in 0 .. 2^Bits[sz] - 1
<1>1. EaOK(ins.ea)
  BY DEF InstructionOK
<1>2. MachineOK(r) /\ r.er <= c.er + 2
  BY <1>1, ReadRanged DEF Ranged
<1>3. r.val \in Int
  BY <1>2, ValType
<1> QED BY <1>2, <1>3, LowType

LEMMA ThenOK ==
  ASSUME NEW c, MachineOK(c), NEW d, MachineOK(d)
  PROVE  MachineOK(Then(c, d))
BY DEF Then

(***************************************************************************)
(* Flags and the status register.                                          *)
(***************************************************************************)
LEMMA SrFields ==
  ASSUME NEW c, MachineOK(c)
  PROVE  /\ SrOK(c.sr) /\ c.sr.X \in {0, 1} /\ c.sr.Z \in {0, 1} /\ c.sr.C \in {0, 1}
         /\ c.sr.N \in {0, 1} /\ c.sr.V \in {0, 1} /\ c.sr.S \in {0, 1} /\ c.sr.I \in 0 .. TopLevel
BY DEF MachineOK, SrOK

LEMMA LogicFlagsKept ==
  ASSUME NEW c, MachineOK(c), NEW v \in Int, NEW sz \in Sizes
  PROVE  Kept(c, flags_logic(c, v, sz))
<1>1. PICK a \in {0, 1} : a = Msb(v, sz)
  BY LowType
<1>2. PICK b \in {0, 1} : b = Flag(Low(v, sz) = 0)
  BY FlagType
<1>3. SrOK([c.sr EXCEPT !.N = a, !.Z = b, !.V = 0, !.C = 0])
  BY SrFields DEF SrOK
<1> QED BY <1>1, <1>2, <1>3, SetSRKept DEF flags_logic

LEMMA AddFlagsKept ==
  ASSUME NEW c, MachineOK(c), NEW a, NEW b, NEW r \in Int, NEW sz \in Sizes
  PROVE  Kept(c, flags_add(c, a, b, r, sz))
<1>1. PICK n \in {0, 1} : n = Msb(r, sz)
  BY LowType
<1>2. PICK z \in {0, 1} : z = Flag(Low(r, sz) = 0)
  BY FlagType
<1>3. PICK k \in {0, 1} : k = Flag(Low(a, sz) + Low(b, sz) >= 2^Bits[sz])
  BY FlagType
<1>4. PICK v \in {0, 1} : v = Flag(Msb(a, sz) = Msb(b, sz) /\ Msb(a, sz) # Msb(r, sz))
  BY FlagType
<1>5. SrOK([c.sr EXCEPT !.N = n, !.Z = z, !.C = k, !.X = k, !.V = v])
  BY SrFields DEF SrOK
<1> QED BY <1>1, <1>2, <1>3, <1>4, <1>5, SetSRKept DEF flags_add

LEMMA CmpFlagsKept ==
  ASSUME NEW c, MachineOK(c), NEW a, NEW b, NEW r \in Int, NEW sz \in Sizes
  PROVE  Kept(c, flags_cmp(c, a, b, r, sz))
<1>1. PICK n \in {0, 1} : n = Msb(r, sz)
  BY LowType
<1>2. PICK z \in {0, 1} : z = Flag(Low(r, sz) = 0)
  BY FlagType
<1>3. PICK k \in {0, 1} : k = Flag(Low(b, sz) > Low(a, sz))
  BY FlagType
<1>4. PICK v \in {0, 1} : v = Flag(Msb(a, sz) # Msb(b, sz) /\ Msb(a, sz) # Msb(r, sz))
  BY FlagType
<1>5. SrOK([c.sr EXCEPT !.N = n, !.Z = z, !.C = k, !.V = v])
  BY SrFields DEF SrOK
<1> QED BY <1>1, <1>2, <1>3, <1>4, <1>5, SetSRKept DEF flags_cmp

LEMMA XFromCKept ==
  ASSUME NEW c, MachineOK(c)
  PROVE  Kept(c, XFromC(c))
<1>1. SrOK([c.sr EXCEPT !.X = c.sr.C])
  BY SrFields DEF SrOK
<1> QED BY <1>1, SetSRKept DEF XFromC

LEMMA SubFlagsKept ==
  ASSUME NEW c, MachineOK(c), NEW a, NEW b, NEW r \in Int, NEW sz \in Sizes
  PROVE  Kept(c, flags_sub(c, a, b, r, sz))
<1>1. PICK d : d = flags_cmp(c, a, b, r, sz)
  OBVIOUS
<1>2. Kept(c, d)
  BY <1>1, CmpFlagsKept
<1>3. Kept(d, XFromC(d))
  BY <1>2, XFromCKept DEF Kept
<1> QED BY <1>1, <1>2, <1>3, KeptOn DEF flags_sub

LEMMA StickyType ==
  ASSUME NEW c, MachineOK(c), NEW r
  PROVE  StickyZ(c, r) \in {0, 1}
BY SrFields DEF StickyZ

\* A bit of a number, and the status register out of one.
LEMMA BitOf ==
  ASSUME NEW w \in Int, NEW n \in Nat \ {0}
  PROVE  (w \div n) % 2 \in {0, 1} /\ w % 2 \in {0, 1}
<1>1. PICK q \in Int : q = w \div n
  BY RemainderDef
<1>2. q % 2 \in {0, 1} /\ w % 2 \in {0, 1}
  OBVIOUS
<1> QED BY <1>1, <1>2

LEMMA UnpackType ==
  ASSUME NEW w \in Int
  PROVE  SrOK(UnpackSR(w))
<1>0. TopLevel \in Nat /\ TopLevel + 1 \in Nat \ {0} /\ 32 * (TopLevel + 1) \in Nat \ {0}
  BY InterpAssumption
<1>1. PICK c \in {0, 1} : c = w % 2
  BY BitOf
<1>2. PICK v \in {0, 1} : v = (w \div 2) % 2
  BY BitOf
<1>3. PICK z \in {0, 1} : z = (w \div 4) % 2
  BY BitOf
<1>4. PICK n \in {0, 1} : n = (w \div 8) % 2
  BY BitOf
<1>5. PICK x \in {0, 1} : x = (w \div 16) % 2
  BY BitOf
<1>6. PICK s \in {0, 1} : s = (w \div (32 * (TopLevel + 1))) % 2
  BY <1>0, BitOf
<1>7. PICK i \in 0 .. TopLevel : i = (w \div 32) % (TopLevel + 1)
  <2>1. PICK q \in Int : q = w \div 32
    BY RemainderDef
  <2>2. q % (TopLevel + 1) \in 0 .. TopLevel + 1 - 1
    BY <1>0, RemainderDef
  <2> QED BY <1>0, <2>1, <2>2
<1>8. UnpackSR(w) = [C |-> c, V |-> v, Z |-> z, N |-> n, X |-> x, I |-> i, S |-> s]
  BY <1>1, <1>2, <1>3, <1>4, <1>5, <1>6, <1>7 DEF UnpackSR
<1> QED BY <1>8 DEF SrOK

LEMMA WithCCRType ==
  ASSUME NEW s, SrOK(s), NEW w \in Int
  PROVE  SrOK(WithCCR(s, w))
<1>1. PICK k \in Int : k = w % 32
  BY RemainderDef
<1>2. PICK u : u = UnpackSR(k)
  OBVIOUS
<1>3. SrOK(u)
  BY <1>2, UnpackType
<1>4. SrOK([u EXCEPT !.I = s.I, !.S = s.S])
  BY <1>3 DEF SrOK
<1> QED BY <1>1, <1>2, <1>4 DEF WithCCR

LEMMA PackType ==
  ASSUME NEW s, SrOK(s)
  PROVE  PackSR(s) \in Nat /\ PackCCR(s) \in Nat
<1>0. TopLevel \in Nat
  BY InterpAssumption
<1>1. ASSUME NEW t, SrOK(t) PROVE PackSR(t) \in Nat
  <2>1. t.C \in Nat /\ t.V \in Nat /\ t.Z \in Nat /\ t.N \in Nat /\ t.X \in Nat /\ t.I \in Nat
        /\ t.S \in {0, 1}
    BY <1>0, <1>1 DEF SrOK
  <2>2. 32 * (TopLevel + 1) * t.S \in Nat
    BY <1>0, <2>1
  <2> QED BY <2>1, <2>2 DEF PackSR
<1>2. SrOK([s EXCEPT !.I = 0, !.S = 0])
  <2>1. 0 \in 0 .. TopLevel
    BY <1>0
  <2> QED BY <2>1 DEF SrOK
<1> QED BY <1>1, <1>2 DEF PackCCR

LEMMA SetStatusKept ==
  ASSUME NEW c, MachineOK(c), NEW s, SrOK(s)
  PROVE  Kept(c, m68k_set_sr(c, s))
<1>1. c.A[7] \in Longs /\ c.USP \in Longs /\ c.SSP \in Longs
  BY DEF MachineOK
<1>2. PICK d : d = [c EXCEPT !.sr = s]
  OBVIOUS
<1>3. PICK e : e = [c EXCEPT !.sr = s, !.SSP = c.A[7], !.A[7] = c.USP]
  OBVIOUS
<1>4. PICK f : f = [c EXCEPT !.sr = s, !.USP = c.A[7], !.A[7] = c.SSP]
  OBVIOUS
<1>5. MachineOK(d) /\ d.er = c.er
  BY <1>2 DEF MachineOK
<1>6. MachineOK(e) /\ e.er = c.er
  BY <1>1, <1>3 DEF MachineOK
<1>7. MachineOK(f) /\ f.er = c.er
  BY <1>1, <1>4 DEF MachineOK
<1> QED BY <1>2, <1>3, <1>4, <1>5, <1>6, <1>7 DEF m68k_set_sr, Then, Kept

(***************************************************************************)
(* Shifts and division.                                                    *)
(***************************************************************************)
\* The quotient of a product-bounded number.
LEMMA QuotientRange ==
  ASSUME NEW p \in Nat \ {0}, NEW q \in Nat \ {0}, NEW w \in 0 .. p * q - 1
  PROVE  w \div p \in 0 .. q - 1 /\ w % p \in 0 .. p - 1 /\ w = p * (w \div p) + (w % p)
<1>1. w \in Int
  OBVIOUS
<1>2. PICK d \in Int : d = w \div p
  BY <1>1, RemainderDef
<1>3. PICK r \in 0 .. p - 1 : r = w % p
  BY <1>1, RemainderDef
<1>4. w = p * d + r
  BY <1>1, <1>2, <1>3, RemainderDef
<1>5. d < q
  <2>1. SUFFICES ASSUME d >= q PROVE FALSE
    OBVIOUS
  <2>2. p * d >= p * q
    BY <2>1
  <2> QED BY <1>4, <2>2
<1>6. d >= 0
  <2>1. SUFFICES ASSUME d <= -1 PROVE FALSE
    OBVIOUS
  <2>2. p * d <= -p
    BY <2>1
  <2> QED BY <1>4, <2>2
<1> QED BY <1>2, <1>3, <1>4, <1>5, <1>6

LEMMA RotateRange ==
  ASSUME NEW p \in Nat, NEW n \in 0 .. p, NEW w \in 0 .. 2^p - 1
  PROVE  RotateLeft(w, n, p) \in 0 .. 2^p - 1
<1>0. p - n \in Nat /\ n \in Nat /\ (p - n) + n = p
  OBVIOUS
<1>1. PICK a \in Nat \ {0} : a = 2^(p - n)
  BY <1>0, PowerNat
<1>2. PICK b \in Nat \ {0} : b = 2^n
  BY <1>0, PowerNat
<1>3. 2^p = a * b
  BY <1>0, <1>1, <1>2, PowerAdd
<1>4. w \in 0 .. a * b - 1
  BY <1>3
<1>5. PICK d \in 0 .. b - 1 : d = w \div a
  BY <1>4, QuotientRange
<1>6. PICK r \in 0 .. a - 1 : r = w % a
  BY <1>4, QuotientRange
<1>7. r * b <= (a - 1) * b
  BY <1>6
<1>8. r * b + d \in 0 .. a * b - 1
  BY <1>5, <1>6, <1>7
<1> QED BY <1>1, <1>2, <1>3, <1>5, <1>6, <1>8 DEF RotateLeft

\* What a shift leaves.
ShiftOK(s) == s.r \in Int /\ s.c \in {0, 1} /\ s.v \in {0, 1}

LEMMA ShiftLeftOK ==
  ASSUME NEW sv \in Int, NEW n \in Nat, NEW sz \in Sizes
  PROVE  /\ ShiftOK(ShiftLeft(sv, n, sz)) /\ DOMAIN ShiftLeft(sv, n, sz) = {"r", "c", "v"}
<1>1. PICK b \in Nat \ {0} : b = Bits[sz]
  BY Widths
<1>2. PICK r : r = IF n < b THEN Low((sv % 2^(b - n)) * 2^n, sz) ELSE 0
  OBVIOUS
<1>3. r \in Int
  <2>1. CASE n < b
    <3>1. b - n \in Nat
      BY <2>1
    <3>2. PICK x \in Nat \ {0} : x = 2^(b - n)
      BY <3>1, PowerNat
    <3>3. PICK y \in Nat \ {0} : y = 2^n
      BY PowerNat
    <3>4. PICK z \in Int : z = sv % x
      BY RemainderDef
    <3>5. z * y \in Int
      OBVIOUS
    <3> QED BY <1>2, <2>1, <3>2, <3>3, <3>4, <3>5, LowType
  <2>2. CASE ~(n < b)
    BY <1>2, <2>2
  <2> QED BY <2>1, <2>2
<1>4. PICK c : c = IF n \in 1 .. b THEN (sv \div 2^(b - n)) % 2 ELSE 0
  OBVIOUS
<1>5. c \in {0, 1}
  <2>1. CASE n \in 1 .. b
    <3>1. 2^(b - n) \in Nat \ {0}
      BY <2>1, PowerNat
    <3> QED BY <1>4, <2>1, <3>1, BitOf
  <2> QED BY <1>4, <2>1
<1>6. ShiftLeft(sv, n, sz) = [r |-> r, c |-> c, v |-> 0]
  BY <1>1, <1>2, <1>4 DEF ShiftLeft
<1> QED BY <1>3, <1>5, <1>6 DEF ShiftOK

LEMMA ShiftOut ==
  ASSUME NEW sv \in Int, NEW n \in Nat, NEW m, m = n - 1
  PROVE  n >= 1 => (sv \div 2^m) % 2 \in {0, 1}
<1>1. ASSUME n >= 1 PROVE (sv \div 2^m) % 2 \in {0, 1}
  <2>1. m \in Nat
    BY <1>1
  <2> QED BY <2>1, PowerNat, BitOf
<1> QED BY <1>1

LEMMA ThroughOK ==
  ASSUME NEW sz \in Sizes, NEW sv \in 0 .. 2^Bits[sz] - 1, NEW x \in {0, 1}, NEW k \in 0 .. Bits[sz],
         NEW w, w = RotateLeft(sv + x * 2^Bits[sz], k, Bits[sz] + 1)
  PROVE  Low(w, sz) \in Int /\ w \div 2^Bits[sz] \in {0, 1}
<1>1. PICK b \in Nat \ {0} : b = Bits[sz]
  BY Widths
<1>2. PICK p \in Nat \ {0} : p = 2^b
  BY PowerNat
<1>3. 2^(b + 1) = 2 * p
  BY <1>2, PowerStep
<1>4. sv + x * p \in 0 .. 2 * p - 1
  <2>1. sv \in 0 .. p - 1
    BY <1>1, <1>2
  <2>2. CASE x = 0
    BY <2>1, <2>2
  <2>3. CASE x = 1
    BY <2>1, <2>3
  <2> QED BY <2>2, <2>3
<1>5. w \in 0 .. 2 * p - 1
  <2>0. k \in 0 .. b
    BY <1>1
  <2>1. b + 1 \in Nat /\ k \in 0 .. b + 1
    BY <2>0
  <2>2. PICK v : v = sv + x * p
    OBVIOUS
  <2>3. v \in 0 .. 2^(b + 1) - 1
    BY <1>3, <1>4, <2>2
  <2>4. RotateLeft(v, k, b + 1) \in 0 .. 2^(b + 1) - 1
    BY <2>1, <2>3, RotateRange
  <2>5. w = RotateLeft(v, k, b + 1)
    BY <1>1, <1>2, <2>2
  <2> QED BY <1>3, <2>4, <2>5
<1>6. w \div p \in 0 .. 2 - 1
  <2>1. w \in 0 .. p * 2 - 1
    BY <1>5
  <2>2. 2 \in Nat \ {0}
    OBVIOUS
  <2> QED BY <2>1, <2>2, QuotientRange
<1>7. w \in Int
  BY <1>5
<1>8. Low(w, sz) \in Int
  BY <1>7, LowType
<1> QED BY <1>1, <1>2, <1>6, <1>8

LEMMA CountRange ==
  ASSUME NEW n \in Nat, NEW b \in Nat \ {0}
  PROVE  n % b \in 0 .. b - 1
<1>1. n \in Int
  OBVIOUS
<1> QED BY <1>1, RemainderDef

LEMMA ShiftType ==
  ASSUME NEW mn \in Shifts, NEW sz \in Sizes, NEW sv \in 0 .. 2^Bits[sz] - 1, NEW n \in Nat,
         NEW x \in {0, 1}
  PROVE  ShiftOK(Shift(mn, sv, n, sz, x))
<1>1. PICK b \in Nat \ {0} : b = Bits[sz]
  BY Widths
<1>2. PICK p \in Nat \ {0} : p = 2^b
  BY PowerNat
<1>3. sv \in Int /\ sv \in 0 .. p - 1
  BY <1>1, <1>2
<1>4. CASE mn = "LSL"
  <2>1. ShiftOK(ShiftLeft(sv, n, sz))
    BY <1>3, ShiftLeftOK
  <2> QED BY <1>4, <2>1 DEF Shift
<1>5. CASE mn = "ASL"
  <2>1. PICK s : s = ShiftLeft(sv, n, sz)
    OBVIOUS
  <2>2. ShiftOK(s) /\ DOMAIN s = {"r", "c", "v"}
    BY <1>3, <2>1, ShiftLeftOK
  <2>3. PICK f \in {0, 1} : f = Flag(SignMoved(sv, n, sz))
    BY FlagType
  <2>4. ShiftOK([s EXCEPT !.v = f])
    BY <2>2 DEF ShiftOK
  <2> QED BY <1>5, <2>1, <2>3, <2>4 DEF Shift
<1>6. CASE mn = "LSR"
  <2>1. PICK r : r = IF n < b THEN sv \div 2^n ELSE 0
    OBVIOUS
  <2>2. r \in Int
    BY <1>3, <2>1, PowerNat, RemainderDef
  <2>3. PICK c : c = IF n \in 1 .. b THEN (sv \div 2^(n - 1)) % 2 ELSE 0
    OBVIOUS
  <2>4. c \in {0, 1}
    BY <1>3, <2>3, ShiftOut
  <2>5. Shift(mn, sv, n, sz, x) = [r |-> r, c |-> c, v |-> 0]
    BY <1>1, <1>6, <2>1, <2>3 DEF Shift
  <2> QED BY <2>2, <2>4, <2>5 DEF ShiftOK
<1>7. CASE mn = "ASR"
  <2>1. PICK r : r = IF n < b THEN Low(Signed(sv, sz) \div 2^n, sz)
                     ELSE IF Signed(sv, sz) < 0 THEN 2^b - 1 ELSE 0
    OBVIOUS
  <2>2. r \in Int
    <3>1. Signed(sv, sz) \div 2^n \in Int
      BY <1>3, LowType, PowerNat, RemainderDef
    <3> QED BY <1>2, <2>1, <3>1, LowType
  <2>3. PICK c : c = IF n = 0 THEN 0
                     ELSE IF n < b THEN (sv \div 2^(n - 1)) % 2 ELSE Msb(sv, sz)
    OBVIOUS
  <2>4. c \in {0, 1}
    BY <1>3, <2>3, ShiftOut, LowType
  <2>5. Shift(mn, sv, n, sz, x) = [r |-> r, c |-> c, v |-> 0]
    BY <1>1, <1>7, <2>1, <2>3 DEF Shift
  <2> QED BY <2>2, <2>4, <2>5 DEF ShiftOK
<1>8. CASE mn = "ROL"
  <2>1. PICK k \in 0 .. b - 1 : k = n % b
    BY CountRange
  <2>2. PICK r : r = RotateLeft(sv, k, b)
    OBVIOUS
  <2>3. r \in Int
    <3>1. k \in 0 .. b /\ sv \in 0 .. 2^b - 1
      BY <1>2, <1>3
    <3>2. r \in 0 .. 2^b - 1
      BY <2>2, <3>1, RotateRange
    <3> QED BY <1>2, <3>2
  <2>4. PICK c \in {0, 1} : c = IF n = 0 THEN 0 ELSE r % 2
    BY <2>3, BitOf
  <2>5. Shift(mn, sv, n, sz, x) = [r |-> r, c |-> c, v |-> 0]
    BY <1>1, <1>8, <2>1, <2>2, <2>4 DEF Shift
  <2> QED BY <2>3, <2>5 DEF ShiftOK
<1>9. CASE mn = "ROR"
  <2>1. PICK k \in 0 .. b - 1 : k = (b - (n % b)) % b
    <3>1. PICK m \in 0 .. b - 1 : m = n % b
      BY CountRange
    <3>2. b - m \in Nat
      OBVIOUS
    <3>3. (b - m) % b \in 0 .. b - 1
      BY <3>2, CountRange
    <3> QED BY <3>1, <3>3
  <2>2. PICK r : r = RotateLeft(sv, k, b)
    OBVIOUS
  <2>3. r \in Int
    <3>1. k \in 0 .. b /\ sv \in 0 .. 2^b - 1
      BY <1>2, <1>3
    <3>2. r \in 0 .. 2^b - 1
      BY <2>2, <3>1, RotateRange
    <3> QED BY <1>2, <3>2
  <2>4. PICK c \in {0, 1} : c = IF n = 0 THEN 0 ELSE Msb(r, sz)
    BY <2>3, LowType
  <2>5. Shift(mn, sv, n, sz, x) = [r |-> r, c |-> c, v |-> 0]
    BY <1>1, <1>9, <2>1, <2>2, <2>4 DEF Shift
  <2> QED BY <2>3, <2>5 DEF ShiftOK
<1>10. CASE mn = "ROXL"
  <2>1. PICK k \in 0 .. b : k = n % (b + 1)
    <3>1. PICK d \in Nat \ {0} : d = b + 1
      OBVIOUS
    <3>2. n % d \in 0 .. d - 1
      BY CountRange
    <3> QED BY <3>1, <3>2
  <2>2. PICK w : w = RotateLeft(sv + x * 2^Bits[sz], k, Bits[sz] + 1)
    OBVIOUS
  <2>3. Low(w, sz) \in Int /\ w \div 2^Bits[sz] \in {0, 1}
    BY <1>1, <2>1, <2>2, ThroughOK
  <2>4. Shift(mn, sv, n, sz, x) = [r |-> Low(w, sz), c |-> w \div 2^Bits[sz], v |-> 0]
    BY <1>1, <1>10, <2>1, <2>2 DEF Shift
  <2> QED BY <2>3, <2>4 DEF ShiftOK
<1>11. CASE mn = "ROXR"
  <2>1. PICK k \in 0 .. b : k = (b + 1 - (n % (b + 1))) % (b + 1)
    <3>1. PICK d \in Nat \ {0} : d = b + 1
      OBVIOUS
    <3>2. PICK m \in 0 .. d - 1 : m = n % d
      BY CountRange
    <3>3. d - m \in Nat
      OBVIOUS
    <3>4. (d - m) % d \in 0 .. d - 1
      BY <3>3, CountRange
    <3> QED BY <3>1, <3>2, <3>4
  <2>2. PICK w : w = RotateLeft(sv + x * 2^Bits[sz], k, Bits[sz] + 1)
    OBVIOUS
  <2>3. Low(w, sz) \in Int /\ w \div 2^Bits[sz] \in {0, 1}
    BY <1>1, <2>1, <2>2, ThroughOK
  <2>4. Shift(mn, sv, n, sz, x) = [r |-> Low(w, sz), c |-> w \div 2^Bits[sz], v |-> 0]
    BY <1>1, <1>11, <2>1, <2>2 DEF Shift
  <2> QED BY <2>3, <2>4 DEF ShiftOK
<1> QED BY <1>4, <1>5, <1>6, <1>7, <1>8, <1>9, <1>10, <1>11 DEF Shifts, Rotates

LEMMA ShiftFlagsKept ==
  ASSUME NEW c, MachineOK(c), NEW mn, NEW s, ShiftOK(s), NEW sz \in Sizes, NEW zero
  PROVE  Kept(c, ShiftFlags(c, mn, s, sz, zero))
<1>1. PICK z \in {0, 1} : z = Flag(s.r = 0)
  BY FlagType
<1>2. PICK n \in {0, 1} : n = Msb(s.r, sz)
  BY LowType DEF ShiftOK
<1>3. PICK k \in {0, 1} : k = IF zero THEN 0 ELSE s.c
  BY DEF ShiftOK
<1>4. PICK x \in {0, 1} : x = IF mn \in Rotates \/ zero THEN c.sr.X ELSE s.c
  BY SrFields DEF ShiftOK
<1>5. PICK v \in {0, 1} : v = IF mn \in Rotates \/ zero THEN 0 ELSE s.v
  BY DEF ShiftOK
<1>6. PICK t : t = [c.sr EXCEPT !.Z = z, !.N = n, !.C = k, !.X = x, !.V = v]
  OBVIOUS
<1>7. SrOK(t)
  <2>1. PICK q : q = c.sr
    OBVIOUS
  <2>2. SrOK(q)
    BY <2>1, SrFields
  <2>3. SrOK([q EXCEPT !.Z = z, !.N = n, !.C = k, !.X = x, !.V = v])
    BY <2>2 DEF SrOK
  <2> QED BY <1>6, <2>1, <2>3
<1>8. t = [c.sr EXCEPT !.Z = Flag(s.r = 0), !.N = Msb(s.r, sz), !.C = IF zero THEN 0 ELSE s.c,
             !.X = IF mn \in Rotates \/ zero THEN @ ELSE s.c,
             !.V = IF mn \in Rotates \/ zero THEN 0 ELSE s.v]
  BY <1>1, <1>2, <1>3, <1>4, <1>5, <1>6
<1> QED BY <1>7, <1>8, SetSRKept DEF ShiftFlags

LEMMA DoShiftKept ==
  ASSUME NEW c, MachineOK(c), NEW ins, InstructionOK(ins), ins.mn \in Shifts
  PROVE  Kept(c, do_shift(c, ins))
<1>0. ins.sz \in Sizes /\ ins.reg \in 0 .. 7 /\ ins.creg \in 0 .. 7 /\ ins.imm \in Int
  BY DEF InstructionOK
<1>1. PICK n \in Nat : n = (IF ins.bycount THEN c.D[ins.creg] ELSE ins.imm) % CountMask
  <2>1. PICK v \in Int : v = IF ins.bycount THEN c.D[ins.creg] ELSE ins.imm
    BY <1>0, RegisterType
  <2>2. CountMask \in Nat \ {0}
    BY Widths DEF CountMask, Sizes
  <2>3. PICK w \in Nat \ {0} : w = CountMask
    BY <2>2
  <2>4. v % w \in 0 .. w - 1
    BY RemainderDef
  <2> QED BY <2>1, <2>3, <2>4
<1>2. PICK sv \in 0 .. 2^Bits[ins.sz] - 1 : sv = Low(c.D[ins.reg], ins.sz)
  BY <1>0, RegisterType, LowType
<1>3. PICK s : s = Shift(ins.mn, sv, n, ins.sz, c.sr.X)
  OBVIOUS
<1>4. ShiftOK(s)
  BY <1>0, <1>3, SrFields, ShiftType
<1>5. PICK d : d = store_dn(c, ins.reg, s.r, ins.sz)
  OBVIOUS
<1>6. Kept(c, d)
  BY <1>0, <1>4, <1>5, StoreKept DEF ShiftOK
<1>7. PICK zero : zero = (ins.mn \notin Rotates /\ ins.bycount /\ n = 0)
  OBVIOUS
<1>8. Kept(d, ShiftFlags(d, ins.mn, s, ins.sz, zero))
  BY <1>0, <1>4, <1>6, ShiftFlagsKept DEF Kept
<1>9. do_shift(c, ins) = ShiftFlags(d, ins.mn, s, ins.sz, zero)
  BY <1>1, <1>2, <1>3, <1>5, <1>7 DEF do_shift, Shifted
<1> QED BY <1>6, <1>8, <1>9, KeptOn

LEMMA MemShiftType ==
  ASSUME NEW mn \in Shifts, NEW sv \in 0 .. 2^Bits["W"] - 1, NEW x \in {0, 1}
  PROVE  ShiftOK(MemShift(mn, sv, x))
<1>0. "W" \in Sizes
  BY DEF Sizes
<1>1. PICK h \in Nat \ {0} : h = 2^(Bits["W"] - 1)
  BY <1>0, Widths
<1>2. sv \in Int
  BY <1>0, Widths
<1>3. PICK top \in {0, 1} : top = Msb(sv, "W")
  BY <1>0, <1>2, LowType
<1>4. PICK half \in Int : half = sv \div 2
  BY <1>2, RemainderDef
<1>5. PICK left \in Int : left = Low(2 * sv, "W")
  <2>1. 2 * sv \in Int
    BY <1>2
  <2> QED BY <1>0, <2>1, LowType
<1>6. PICK out \in {0, 1} : out = sv % 2
  BY <1>2, BitOf
<1>7. PICK f \in {0, 1} : f = Flag(top # Msb(left, "W"))
  BY FlagType
<1>10. mn = "LSL" => MemShift(mn, sv, x) = [r |-> left, c |-> top, v |-> 0]
  BY <1>3, <1>5 DEF MemShift
<1>11. mn = "ASL" => MemShift(mn, sv, x) = [r |-> left, c |-> top, v |-> f]
  BY <1>3, <1>5, <1>7 DEF MemShift
<1>12. mn = "LSR" => MemShift(mn, sv, x) = [r |-> half, c |-> out, v |-> 0]
  BY <1>4, <1>6 DEF MemShift
<1>13. mn = "ASR" => MemShift(mn, sv, x) = [r |-> half + top * h, c |-> out, v |-> 0]
  BY <1>1, <1>3, <1>4, <1>6 DEF MemShift
<1>14. mn = "ROL" => MemShift(mn, sv, x) = [r |-> left + top, c |-> top, v |-> 0]
  BY <1>3, <1>5 DEF MemShift
<1>15. mn = "ROR" => MemShift(mn, sv, x) = [r |-> half + out * h, c |-> out, v |-> 0]
  BY <1>1, <1>4, <1>6 DEF MemShift
<1>16. mn = "ROXL" => MemShift(mn, sv, x) = [r |-> left + x, c |-> top, v |-> 0]
  BY <1>3, <1>5 DEF MemShift
<1>17. mn = "ROXR" => MemShift(mn, sv, x) = [r |-> half + x * h, c |-> out, v |-> 0]
  BY <1>1, <1>4, <1>6 DEF MemShift
<1>8. h \in Int /\ top \in Int /\ out \in Int /\ x \in Int /\ half \in Int /\ left \in Int
  BY <1>1, <1>3, <1>4, <1>5, <1>6
<1>9. half + top * h \in Int /\ left + top \in Int /\ half + out * h \in Int /\ left + x \in Int
      /\ half + x * h \in Int
  <2>1. top * h \in Int /\ out * h \in Int /\ x * h \in Int
    BY <1>8
  <2> QED BY <1>8, <2>1
<1> QED BY <1>9, <1>10, <1>11, <1>12, <1>13, <1>14, <1>15, <1>16, <1>17 DEF ShiftOK, Shifts, Rotates

LEMMA DoMemShiftKept ==
  ASSUME NEW c, MachineOK(c), c.er <= 3, NEW ins, InstructionOK(ins), ins.mn \in Shifts
  PROVE  MachineOK(do_mem_shift(c, ins))
<1>0. "W" \in Sizes
  BY DEF Sizes
<1>1. PICK r : r = read_ea_ex(c, ins, ins.ea, "W", TRUE)
  OBVIOUS
<1>2. MachineOK(r) /\ Low(r.val, "W") \in 0 .. 2^Bits["W"] - 1
  BY <1>0, <1>1, ReadForWrite
<1>3. PICK s : s = MemShift(ins.mn, Low(r.val, "W"), r.sr.X)
  OBVIOUS
<1>4. ShiftOK(s)
  BY <1>2, <1>3, SrFields, MemShiftType
<1>5. PICK d : d = ShiftFlags(r, ins.mn, s, "W", FALSE)
  OBVIOUS
<1>6. MachineOK(d)
  BY <1>0, <1>2, <1>4, <1>5, ShiftFlagsKept DEF Kept
<1>7. MachineOK(Val(d, s.r))
  BY <1>4, <1>6, ValKept DEF Kept, ShiftOK
<1>8. PICK f : f = Then(r, Val(d, s.r))
  OBVIOUS
<1>9. MachineOK(f)
  BY <1>2, <1>7, <1>8, ThenOK
<1>10. do_mem_shift(c, ins) = WrittenBack(f, c.er, ins, "W")
  BY <1>1, <1>3, <1>5, <1>8 DEF do_mem_shift, Rmw, Computed, MemShifted
<1> QED BY <1>0, <1>9, <1>10, WrittenBackKept

LEMMA AbsType == ASSUME NEW n \in Int PROVE Abs(n) \in Nat /\ (n # 0 => Abs(n) \in Nat \ {0})
BY DEF Abs

LEMMA QuotientType ==
  ASSUME NEW a \in Int, NEW b \in Int, b # 0
  PROVE  Quotient(a, b) \in Int
<1>1. PICK x \in Int : x = Abs(a)
  BY AbsType
<1>2. PICK y \in Nat \ {0} : y = Abs(b)
  BY AbsType
<1>3. PICK q \in Int : q = x \div y
  BY RemainderDef
<1> QED BY <1>1, <1>2, <1>3 DEF Quotient

\* What a division leaves.
DivisionOK(d) ==
  /\ d.N \in {0, 1} /\ d.Z \in {0, 1} /\ d.V \in {0, 1}
  /\ d.status = "OK" => d.result \in Int

LEMMA DivisionType ==
  ASSUME NEW a \in Int, NEW b \in Int, NEW q \in Int, NEW signed
  PROVE  DivisionOK(Division(a, b, q, signed))
<1>0. "W" \in Sizes
  BY DEF Sizes
<1>1. PICK w \in Int : w = 2^Bits["W"]
  BY <1>0, Widths
<1>2. PICK r \in Int : r = Low(a - q * b, "W")
  <2>1. a - q * b \in Int
    OBVIOUS
  <2> QED BY <1>0, <2>1, LowType
<1>3. PICK l \in Int : l = Low(q, "W")
  BY <1>0, LowType
<1>4. PICK n \in {0, 1} : n = Msb(q, "W")
  BY <1>0, LowType
<1>5. PICK z \in {0, 1} : z = Flag(Low(q, "W") = 0)
  BY FlagType
<1>6. Division(a, b, q, signed) \in
        {[status |-> "OK", result |-> r * w + l, N |-> n, Z |-> z, V |-> 0],
         [status |-> "OVERFLOW", N |-> 1, Z |-> 0, V |-> 1]}
  BY <1>1, <1>2, <1>3, <1>4, <1>5, Zenon DEF Division
<1>7. r * w + l \in Int
  OBVIOUS
<1> QED BY <1>6, <1>7 DEF DivisionOK

LEMMA SignedNonZero ==
  ASSUME NEW v \in 0 .. 2^Bits["W"] - 1, v # 0
  PROVE  Signed(v, "W") # 0 /\ v \in Int /\ Signed(v, "W") \in Int
<1>0. "W" \in Sizes
  BY DEF Sizes
<1>1. PICK w \in Nat \ {0} : w = 2^Bits["W"]
  BY <1>0, Widths
<1>2. v \in 0 .. w - 1 /\ v \in Int
  BY <1>1
<1>3. v % w = v
  <2>1. v = w * 0 + v
    BY <1>2
  <2> QED BY <1>2, <2>1, RemainderUnique
<1>4. PICK m \in {0, 1} : m = Msb(v, "W")
  BY <1>0, <1>2, LowType
<1>5. v - m * w # 0
  BY <1>2
<1>6. Signed(v, "W") = v - m * w
  BY <1>1, <1>3, <1>4 DEF Signed, Low
<1> QED BY <1>0, <1>2, <1>5, <1>6, LowType

LEMMA DivideType ==
  ASSUME NEW a \in Int, NEW v \in 0 .. 2^Bits["W"] - 1, NEW signed
  PROVE  DivisionOK(m68k_divide_word(a, v, signed))
<1>1. CASE v = 0
  BY <1>1 DEF m68k_divide_word, DivisionOK
<1>2. CASE v # 0
  <2>1. PICK x \in Int : x = IF signed THEN Signed(a, "L") ELSE a
    BY LowType DEF Sizes
  <2>2. PICK y \in Int : y = IF signed THEN Signed(v, "W") ELSE v
    BY <1>2, SignedNonZero
  <2>3. y # 0
    BY <1>2, <2>2, SignedNonZero
  <2>4. PICK q \in Int : q = Quotient(x, y)
    BY <2>3, QuotientType
  <2>5. m68k_divide_word(a, v, signed) = Division(x, y, q, signed)
    BY <1>2, <2>1, <2>2, <2>4 DEF m68k_divide_word
  <2> QED BY <2>5, DivisionType
<1> QED BY <1>1, <1>2

LEMMA DoDivKept ==
  ASSUME NEW c, MachineOK(c), NEW r \in 0 .. 7, NEW v \in 0 .. 2^Bits["W"] - 1, NEW signed
  PROVE  Kept(c, do_div(c, r, v, signed))
<1>1. PICK d : d = m68k_divide_word(c.D[r], v, signed)
  OBVIOUS
<1>2. DivisionOK(d)
  BY <1>1, RegisterType, DivideType
<1>3. PICK e : e = IF d.status = "OK" THEN SetD(c, r, d.result) ELSE c
  OBVIOUS
<1>4. Kept(c, e)
  BY <1>2, <1>3, SetDKept, KeptSelf DEF DivisionOK
<1>5. PICK s : s = [c.sr EXCEPT !.N = d.N, !.Z = d.Z, !.V = d.V, !.C = 0]
  OBVIOUS
<1>6. SrOK(s)
  <2>1. PICK q : q = c.sr
    OBVIOUS
  <2>2. SrOK(q)
    BY <2>1, SrFields
  <2>3. SrOK([q EXCEPT !.N = d.N, !.Z = d.Z, !.V = d.V, !.C = 0])
    BY <1>2, <2>2 DEF DivisionOK, SrOK
  <2> QED BY <1>5, <2>1, <2>3
<1>7. Kept(e, SetSR(e, s))
  BY <1>4, <1>6, SetSRKept DEF Kept
<1>8. do_div(c, r, v, signed) = SetSR(e, s)
  BY <1>1, <1>3, <1>5 DEF do_div, Divided
<1> QED BY <1>4, <1>7, <1>8, KeptOn

(***************************************************************************)
(* Extended and decimal arithmetic.                                        *)
(***************************************************************************)
LEMMA PredecrementedKept ==
  ASSUME NEW c, MachineOK(c), NEW r \in 0 .. 7, NEW sz \in Sizes
  PROVE  Kept(c, Predecremented(c, r, sz))
<1>1. PICK d : d = AddA(c, r, -Step(EA(4, r), sz))
  OBVIOUS
<1>2. Kept(c, d)
  BY <1>1, StepType, AddAKept
<1>3. PICK e : e = AtRegister(d, r)
  OBVIOUS
<1>4. Kept(d, e)
  BY <1>2, <1>3, AtRegisterKept DEF Kept
<1>5. Kept(e, ReadAt(e, sz))
  BY <1>4, AtKept DEF Kept
<1> QED BY <1>1, <1>2, <1>3, <1>4, <1>5, KeptOn DEF Predecremented

LEMMA PairType ==
  ASSUME NEW c, MachineOK(c), NEW ins, InstructionOK(ins), NEW sz \in Sizes,
         NEW p, p = OperandPair(c, ins, sz)
  PROVE  Kept(c, p.c) /\ p.a \in Int /\ p.b \in Int
<1>0. ins.reg \in 0 .. 7 /\ ins.ea.reg \in 0 .. 7
  BY DEF InstructionOK, EaOK
<1>1. CASE ins.predec
  <2>1. PICK y : y = Predecremented(c, ins.ea.reg, sz)
    OBVIOUS
  <2>2. Kept(c, y)
    BY <1>0, <2>1, PredecrementedKept
  <2>3. PICK x : x = Predecremented(y, ins.reg, sz)
    OBVIOUS
  <2>4. Kept(y, x)
    BY <1>0, <2>2, <2>3, PredecrementedKept DEF Kept
  <2>5. p = [c |-> x, a |-> x.val, b |-> y.val]
    BY <1>1, <2>1, <2>3 DEF OperandPair, FromMemory, Taken, Pair
  <2>6. x.val \in Int /\ y.val \in Int
    BY <2>2, <2>4, ValType DEF Kept
  <2>7. Kept(c, x)
    BY <2>2, <2>4, KeptOn
  <2> QED BY <2>5, <2>6, <2>7
<1>2. CASE ~ins.predec
  <2>1. p = [c |-> c, a |-> c.D[ins.reg], b |-> c.D[ins.ea.reg]]
    BY <1>2 DEF OperandPair, Pair
  <2>2. c.D[ins.reg] \in Int /\ c.D[ins.ea.reg] \in Int
    BY <1>0, RegisterType
  <2> QED BY <2>1, <2>2, KeptSelf
<1> QED BY <1>1, <1>2

LEMMA PairResultKept ==
  ASSUME NEW c, MachineOK(c), NEW ins, InstructionOK(ins), NEW sz \in Sizes, NEW r \in Int
  PROVE  Kept(c, PairResult(c, ins, sz, r))
<1>0. ins.reg \in 0 .. 7
  BY DEF InstructionOK
<1> QED BY <1>0, MemWriteKept, StoreKept DEF PairResult

LEMMA ExtendedFlagsKept ==
  ASSUME NEW c, MachineOK(c), NEW a, NEW b, NEW r \in Int, NEW k \in {0, 1}, NEW adding, NEW sz \in Sizes
  PROVE  Kept(c, ExtendedFlags(c, a, b, r, k, adding, sz))
<1>1. PICK z \in {0, 1} : z = StickyZ(c, r)
  BY StickyType
<1>2. PICK n \in {0, 1} : n = Msb(r, sz)
  BY LowType
<1>3. PICK v \in {0, 1} : v = Flag(/\ adding <=> Msb(a, sz) = Msb(b, sz)
                                   /\ Msb(a, sz) # Msb(r, sz))
  BY FlagType
<1>4. PICK q : q = c.sr
  OBVIOUS
<1>5. SrOK(q)
  BY <1>4, SrFields
<1>6. SrOK([q EXCEPT !.Z = z, !.N = n, !.C = k, !.X = k, !.V = v])
  BY <1>5 DEF SrOK
<1> QED BY <1>1, <1>2, <1>3, <1>4, <1>6, SetSRKept DEF ExtendedFlags

LEMMA AddxKept ==
  ASSUME NEW c, MachineOK(c), NEW ins, InstructionOK(ins), NEW adding
  PROVE  Kept(c, do_addx_subx(c, ins, adding))
<1>0. ins.sz \in Sizes
  BY DEF InstructionOK
<1>1. PICK p : p = OperandPair(c, ins, ins.sz)
  OBVIOUS
<1>2. Kept(c, p.c) /\ p.a \in Int /\ p.b \in Int
  BY <1>0, <1>1, PairType
<1>3. PICK d : d = p.c
  OBVIOUS
<1>4. MachineOK(d) /\ d.sr.X \in Int
  BY <1>2, <1>3, SrFields DEF Kept
<1>5. PICK full \in Int : full = IF adding THEN Low(p.a, ins.sz) + Low(p.b, ins.sz) + d.sr.X
                                 ELSE Low(p.a, ins.sz) - Low(p.b, ins.sz) - d.sr.X
  <2>1. PICK x \in Int : x = Low(p.a, ins.sz)
    BY <1>0, <1>2, LowType
  <2>2. PICK y \in Int : y = Low(p.b, ins.sz)
    BY <1>0, <1>2, LowType
  <2> QED BY <1>4, <2>1, <2>2
<1>6. PICK r \in Int : r = Low(full, ins.sz)
  BY <1>0, LowType
<1>7. PICK k \in {0, 1} : k = Flag(full \notin 0 .. 2^Bits[ins.sz] - 1)
  BY FlagType
<1>8. PICK e : e = ExtendedFlags(d, p.a, p.b, r, k, adding, ins.sz)
  OBVIOUS
<1>9. Kept(d, e)
  BY <1>0, <1>4, <1>8, ExtendedFlagsKept
<1>10. Kept(e, PairResult(e, ins, ins.sz, r))
  BY <1>0, <1>9, PairResultKept DEF Kept
<1>11. do_addx_subx(c, ins, adding) = PairResult(e, ins, ins.sz, r)
  BY <1>1, <1>3, <1>5, <1>6, <1>7, <1>8 DEF do_addx_subx, AddedOrSubtracted, Extended
<1> QED BY <1>2, <1>3, <1>9, <1>10, <1>11, KeptOn

LEMMA RadixType == Radix \in Nat \ {0} /\ Adjust \in Int /\ Ten \in Nat /\ 2^ByteBits \in Nat \ {0}
<1>1. ByteBits \div 2 \in Nat /\ ByteBits \in Nat
  BY InterpAssumption
<1>2. Radix \in Nat \ {0} /\ 2^ByteBits \in Nat \ {0}
  BY <1>1, PowerNat DEF Radix
<1> QED BY <1>2, InterpAssumption DEF Adjust

\* What a decimal operation leaves.
DecimalOK(s) == s.r \in Int /\ s.c \in {0, 1}

LEMMA BcdAddType ==
  ASSUME NEW a \in Int, NEW b \in Int, NEW x \in Int
  PROVE  DecimalOK(bcd_add(a, b, x))
<1>1. PICK rx \in Nat \ {0} : rx = Radix
  BY RadixType
<1>2. PICK lo \in Int : lo = (a % Radix) + (b % Radix) + x
  <2>1. PICK p \in Int : p = a % rx
    BY RemainderDef
  <2>2. PICK q \in Int : q = b % rx
    BY RemainderDef
  <2>3. p + q + x \in Int
    OBVIOUS
  <2> QED BY <1>1, <2>1, <2>2, <2>3
<1>3. PICK lo2 \in Int : lo2 = IF lo >= Ten THEN lo + Adjust ELSE lo
  BY RadixType
<1>4. PICK hi \in Int : hi = a \div Radix + b \div Radix + lo2 \div Radix
  <2>1. a \div rx \in Int /\ b \div rx \in Int /\ lo2 \div rx \in Int
    BY RemainderDef
  <2> QED BY <1>1, <2>1
<1>5. PICK h2 \in Int : h2 = IF hi >= Ten THEN hi + Adjust ELSE hi
  BY RadixType
<1>6. PICK m \in Int : m = lo2 % Radix
  BY <1>1, RemainderDef
<1>7. PICK full \in Int : full = h2 * Radix + m
  BY <1>1
<1>8. Low(full, "B") \in Int /\ (full \div 2^ByteBits) % 2 \in {0, 1}
  <2>1. 2^ByteBits \in Nat \ {0}
    BY RadixType
  <2>2. (full \div 2^ByteBits) % 2 \in {0, 1}
    BY <2>1, BitOf
  <2>3. Low(full, "B") \in Int
    BY LowType DEF Sizes
  <2> QED BY <2>2, <2>3
<1>9. bcd_add(a, b, x) = [r |-> Low(full, "B"), c |-> (full \div 2^ByteBits) % 2]
  BY <1>2, <1>3, <1>4, <1>5, <1>6, <1>7 DEF bcd_add
<1> QED BY <1>8, <1>9 DEF DecimalOK

LEMMA BcdSubType ==
  ASSUME NEW a \in Int, NEW b \in Int, NEW x \in Int
  PROVE  DecimalOK(bcd_sub(a, b, x))
<1>1. PICK rx \in Nat \ {0} : rx = Radix
  BY RadixType
<1>2. PICK lo \in Int : lo = (a % Radix) - (b % Radix) - x
  <2>1. PICK p \in Int : p = a % rx
    BY RemainderDef
  <2>2. PICK q \in Int : q = b % rx
    BY RemainderDef
  <2>3. p - q - x \in Int
    OBVIOUS
  <2> QED BY <1>1, <2>1, <2>2, <2>3
<1>3. PICK f \in {0, 1} : f = Flag(lo < 0)
  BY FlagType
<1>4. PICK hi \in Int : hi = a \div Radix - b \div Radix - Flag(lo < 0)
  <2>1. a \div rx \in Int /\ b \div rx \in Int
    BY RemainderDef
  <2> QED BY <1>1, <1>3, <2>1
<1>5. PICK h2 \in Int : h2 = Low(hi, "B")
  BY LowType DEF Sizes
<1>6. PICK g \in Int : g = IF hi < 0 THEN Adjust * Radix ELSE 0
  BY <1>1, RadixType
<1>7. PICK m \in Int : m = (IF lo < 0 THEN lo - Adjust ELSE lo) % Radix
  <2>1. PICK n \in Int : n = IF lo < 0 THEN lo - Adjust ELSE lo
    BY RadixType
  <2>2. n % rx \in Int
    BY <2>1, RemainderDef
  <2> QED BY <1>1, <2>1, <2>2
<1>8. PICK full \in Int : full = h2 * Radix - g + m
  BY <1>1
<1>9. Low(full, "B") \in Int
  BY LowType DEF Sizes
<1>10. bcd_sub(a, b, x) = [r |-> Low(full, "B"), c |-> Flag(hi < 0)]
  BY <1>2, <1>4, <1>5, <1>6, <1>7, <1>8 DEF bcd_sub
<1> QED BY <1>9, <1>10, FlagType DEF DecimalOK

LEMMA BcdFlagsKept ==
  ASSUME NEW c, MachineOK(c), NEW s, DecimalOK(s)
  PROVE  Kept(c, do_bcd_flags(c, s))
<1>1. PICK z \in {0, 1} : z = StickyZ(c, s.r)
  BY StickyType
<1>2. PICK n \in {0, 1} : n = Msb(s.r, "B")
  BY LowType DEF DecimalOK, Sizes
<1>3. PICK k \in {0, 1} : k = s.c
  BY DEF DecimalOK
<1>4. PICK q : q = c.sr
  OBVIOUS
<1>5. SrOK(q)
  BY <1>4, SrFields
<1>6. SrOK([q EXCEPT !.V = 0, !.Z = z, !.C = k, !.X = k, !.N = n])
  BY <1>5 DEF SrOK
<1> QED BY <1>1, <1>2, <1>3, <1>4, <1>6, SetSRKept DEF do_bcd_flags

LEMMA BcdKept ==
  ASSUME NEW c, MachineOK(c), NEW ins, InstructionOK(ins)
  PROVE  Kept(c, do_bcd(c, ins))
<1>0. "B" \in Sizes
  BY DEF Sizes
<1>1. PICK p : p = OperandPair(c, ins, "B")
  OBVIOUS
<1>2. Kept(c, p.c) /\ p.a \in Int /\ p.b \in Int
  BY <1>0, <1>1, PairType
<1>3. PICK d : d = p.c
  OBVIOUS
<1>4. MachineOK(d) /\ d.sr.X \in Int
  BY <1>2, <1>3, SrFields DEF Kept
<1>5. PICK s : s = DecimalOf(p, ins)
  OBVIOUS
<1>6. DecimalOK(s)
  <2>1. Low(p.a, "B") \in Int /\ Low(p.b, "B") \in Int
    BY <1>0, <1>2, LowType
  <2> QED BY <1>3, <1>4, <1>5, <2>1, BcdAddType, BcdSubType DEF DecimalOf
<1>7. PICK e : e = do_bcd_flags(d, s)
  OBVIOUS
<1>8. Kept(d, e)
  BY <1>4, <1>6, <1>7, BcdFlagsKept
<1>9. Kept(e, PairResult(e, ins, "B", s.r))
  BY <1>0, <1>6, <1>8, PairResultKept DEF Kept, DecimalOK
<1>10. do_bcd(c, ins) = PairResult(e, ins, "B", s.r)
  BY <1>1, <1>3, <1>5, <1>7 DEF do_bcd, DecimalPair, Decimal
<1> QED BY <1>2, <1>3, <1>8, <1>9, <1>10, KeptOn

LEMMA NbcdKept ==
  ASSUME NEW c, MachineOK(c), c.er <= 3, NEW ins, InstructionOK(ins)
  PROVE  MachineOK(do_nbcd(c, ins))
<1>0. "B" \in Sizes
  BY DEF Sizes
<1>1. PICK r : r = read_ea_ex(c, ins, ins.ea, "B", TRUE)
  OBVIOUS
<1>2. MachineOK(r) /\ Low(r.val, "B") \in Int /\ r.sr.X \in Int
  <2>1. MachineOK(r) /\ Low(r.val, "B") \in Nat
    BY <1>0, <1>1, ReadForWrite
  <2>2. r.sr.X \in {0, 1}
    BY <2>1, SrFields
  <2> QED BY <2>1, <2>2
<1>3. PICK s : s = bcd_sub(0, Low(r.val, "B"), r.sr.X)
  OBVIOUS
<1>4. DecimalOK(s)
  BY <1>2, <1>3, BcdSubType
<1>5. PICK d : d = do_bcd_flags(r, s)
  OBVIOUS
<1>6. MachineOK(d)
  BY <1>2, <1>4, <1>5, BcdFlagsKept DEF Kept
<1>7. MachineOK(Val(d, s.r))
  BY <1>4, <1>6, ValKept DEF Kept, DecimalOK
<1>8. PICK f : f = Then(r, Val(d, s.r))
  OBVIOUS
<1>9. MachineOK(f)
  BY <1>2, <1>7, <1>8, ThenOK
<1>10. do_nbcd(c, ins) = WrittenBack(f, c.er, ins, "B")
  BY <1>1, <1>3, <1>5, <1>8 DEF do_nbcd, Rmw, Computed, Negated
<1> QED BY <1>0, <1>9, <1>10, WrittenBackKept

(***************************************************************************)
(* MOVEM.                                                                  *)
(***************************************************************************)
LEMMA MovemBaseOK ==
  ASSUME NEW c, MachineOK(c), NEW ins, InstructionOK(ins)
  PROVE  MachineOK(MovemBase(c, ins))
<1>0. EaOK(ins.ea) /\ ins.ea.reg \in 0 .. 7
  BY DEF InstructionOK, EaOK
<1>1. PICK d : d = [c EXCEPT !.er = 2]
  OBVIOUS
<1>2. MachineOK(d) /\ d.er <= 3
  <2>1. 2 \in 1 .. 5
    OBVIOUS
  <2>2. MachineOK(d) /\ d.er = 2
    BY <1>1, <2>1, RewindKept
  <2> QED BY <2>2
<1>3. MachineOK(AddrEa(d, ins, ins.ea, FALSE))
  BY <1>0, <1>2, AddrRanged DEF Ranged
<1>4. MachineOK(Val(c, c.A[ins.ea.reg]))
  <2>1. PICK v \in Int : v = c.A[ins.ea.reg]
    BY <1>0, RegisterType
  <2>2. MachineOK(Val(c, v))
    BY ValKept DEF Kept
  <2> QED BY <2>1, <2>2
<1> QED BY <1>1, <1>3, <1>4 DEF MovemBase

\* The machine and the address of the loop.
AccOK(p) == MachineOK(p[1]) /\ p[2] \in Int

LEMMA LoadedKept ==
  ASSUME NEW c, MachineOK(c), NEW i \in 0 .. 15, NEW sz \in Sizes
  PROVE  MachineOK(LoadedReg(c, i, sz))
<1>1. PICK v \in Int : v = sext(c.val, sz)
  <2>1. c.val \in Int
    BY ValType
  <2>2. sext(c.val, sz) \in Nat
    BY <2>1, SextNat
  <2> QED BY <2>2
<1>2. CASE i < 8
  <2>1. i \in 0 .. 7
    BY <1>2
  <2>2. MachineOK(SetD(c, i, v))
    BY <2>1, SetDKept DEF Kept
  <2> QED BY <1>1, <1>2, <2>2 DEF LoadedReg
<1>3. CASE ~(i < 8)
  <2>1. i - 8 \in 0 .. 7
    BY <1>3
  <2>2. MachineOK(SetA(c, i - 8, v))
    BY <2>1, SetAKept DEF Kept
  <2> QED BY <1>1, <1>3, <2>2 DEF LoadedReg
<1> QED BY <1>2, <1>3

LEMMA RegsType ==
  ASSUME NEW c, MachineOK(c), NEW i \in 0 .. 15
  PROVE  Reg(c, i) \in Longs /\ Reversed(c, i) \in Longs /\ Reg(c, i) \in Int /\ Reversed(c, i) \in Int
<1>1. CASE i < 8
  <2>1. i \in 0 .. 7 /\ 7 - i \in 0 .. 7
    BY <1>1
  <2> QED BY <1>1, <2>1, RegisterType DEF Reg, Reversed
<1>2. CASE ~(i < 8)
  <2>1. i - 8 \in 0 .. 7 /\ 15 - i \in 0 .. 7
    BY <1>2
  <2> QED BY <1>2, <2>1, RegisterType DEF Reg, Reversed
<1> QED BY <1>1, <1>2

LEMMA MovemOneOK ==
  ASSUME NEW c, MachineOK(c), NEW mb \in Int, NEW i \in 0 .. 15, NEW ins, InstructionOK(ins)
  PROVE  AccOK(MovemOne(ins, c, mb, i))
<1>0. ins.sz \in Sizes
  BY DEF InstructionOK
<1>1. PICK n \in Int : n = szbytes[ins.sz]
  BY <1>0 DEF szbytes, Sizes
<1>2. PICK at \in Int : at = Low(mb - szbytes[ins.sz], "L")
  <2>1. mb - n \in Int
    OBVIOUS
  <2> QED BY <1>1, <2>1, LowType DEF Sizes
<1>3. Low(mb + szbytes[ins.sz], "L") \in Int
  <2>1. mb + n \in Int
    OBVIOUS
  <2> QED BY <1>1, <2>1, LowType DEF Sizes
<1>4. PICK d : d = mem_read(c, ins.sz, mb)
  OBVIOUS
<1>5. MachineOK(LoadedReg(d, i, ins.sz))
  BY <1>0, <1>4, MemReadKept, LoadedKept DEF Kept
<1>6. ASSUME NEW a, NEW v \in Int PROVE MachineOK(mem_write(c, ins.sz, a, v))
  BY <1>0, MemWriteKept DEF Kept
<1> DEFINE down == ins.ea.mode = 4 /\ ~ins.load
<1>7. MachineOK(mem_write(c, ins.sz, IF down THEN at ELSE mb, IF down THEN Reversed(c, i) ELSE Reg(c, i)))
  BY <1>6, RegsType
<1>8. MovemOne(ins, c, mb, i) =
        <<IF ins.load THEN LoadedReg(d, i, ins.sz)
          ELSE mem_write(c, ins.sz, IF down THEN at ELSE mb, IF down THEN Reversed(c, i) ELSE Reg(c, i)),
          IF down THEN at ELSE Low(mb + szbytes[ins.sz], "L")>>
  BY <1>2, <1>4 DEF MovemOne
<1> HIDE DEF down
<1> QED BY <1>2, <1>3, <1>5, <1>7, <1>8 DEF AccOK

LEMMA MovemBitOK ==
  ASSUME NEW acc_, AccOK(acc_), NEW i \in 0 .. 15, NEW ins, InstructionOK(ins)
  PROVE  AccOK(MovemBit(ins, acc_, i))
BY MovemOneOK DEF MovemBit, AccOK

LEMMA Movem2OK ==
  ASSUME NEW acc_, AccOK(acc_), NEW i \in 0 .. 14, NEW ins, InstructionOK(ins)
  PROVE  AccOK(Movem2(ins, acc_, i))
<1>1. i \in 0 .. 15 /\ i + 1 \in 0 .. 15
  OBVIOUS
<1> QED BY <1>1, MovemBitOK DEF Movem2

LEMMA Movem4OK ==
  ASSUME NEW acc_, AccOK(acc_), NEW i \in 0 .. 12, NEW ins, InstructionOK(ins)
  PROVE  AccOK(Movem4(ins, acc_, i))
<1>1. i \in 0 .. 14 /\ i + 2 \in 0 .. 14
  OBVIOUS
<1> QED BY <1>1, Movem2OK DEF Movem4

LEMMA Movem8OK ==
  ASSUME NEW acc_, AccOK(acc_), NEW i \in 0 .. 8, NEW ins, InstructionOK(ins)
  PROVE  AccOK(Movem8(ins, acc_, i))
<1>1. i \in 0 .. 12 /\ i + 4 \in 0 .. 12
  OBVIOUS
<1> QED BY <1>1, Movem4OK DEF Movem8

LEMMA MovemOK ==
  ASSUME NEW c, MachineOK(c), NEW ins, InstructionOK(ins)
  PROVE  MachineOK(do_movem(c, ins))
<1>1. PICK b : b = MovemBase(c, ins)
  OBVIOUS
<1>2. MachineOK(b) /\ b.val \in Int
  BY <1>1, MovemBaseOK, ValType
<1>3. PICK x : x = <<b, b.val>>
  OBVIOUS
<1>4. AccOK(x)
  BY <1>2, <1>3 DEF AccOK
<1>5. PICK y : y = Movem8(ins, x, 0)
  OBVIOUS
<1>6. AccOK(y)
  BY <1>4, <1>5, Movem8OK
<1>7. PICK z : z = Movem8(ins, y, 8)
  OBVIOUS
<1>8. AccOK(z)
  BY <1>6, <1>7, Movem8OK
<1>9. do_movem(c, ins) = MovemDone(z, ins)
  BY <1>1, <1>3, <1>5, <1>7 DEF do_movem, MovemAll
<1>10. ins.ea.reg \in 0 .. 7
  BY DEF InstructionOK, EaOK
<1> QED BY <1>8, <1>9, <1>10, SetAKept DEF MovemDone, AccOK, Kept

(***************************************************************************)
(* Frames.                                                                 *)
(***************************************************************************)
LEMMA ZerosKept ==
  ASSUME NEW c, MachineOK(c), NEW a
  PROVE  Kept(c, Zeros2(c, a)) /\ Kept(c, Zeros4(c, a)) /\ Kept(c, Zeros12(c, a))
<1>1. ASSUME NEW d, MachineOK(d), NEW b PROVE Kept(d, Zeros2(d, b))
  <2>1. PICK e : e = write16(d, b, 0)
    OBVIOUS
  <2>2. Kept(d, e)
    BY <1>1, <2>1, Write16Kept
  <2>3. Kept(e, write16(e, b + 2, 0))
    BY <2>2, Write16Kept DEF Kept
  <2> QED BY <2>1, <2>2, <2>3, KeptOn DEF Zeros2
<1>2. ASSUME NEW d, MachineOK(d), NEW b PROVE Kept(d, Zeros4(d, b))
  <2>1. PICK e : e = Zeros2(d, b)
    OBVIOUS
  <2>2. Kept(d, e)
    BY <1>1, <1>2, <2>1
  <2>3. Kept(e, Zeros2(e, b + 4))
    BY <1>1, <2>2 DEF Kept
  <2> QED BY <2>1, <2>2, <2>3, KeptOn DEF Zeros4
<1>3. Kept(c, Zeros12(c, a))
  <2>1. PICK d : d = Zeros4(c, a)
    OBVIOUS
  <2>2. Kept(c, d)
    BY <1>2, <2>1
  <2>3. PICK e : e = Zeros4(d, a + 8)
    OBVIOUS
  <2>4. Kept(d, e)
    BY <1>2, <2>2, <2>3 DEF Kept
  <2>5. Kept(e, Zeros4(e, a + 16))
    BY <1>2, <2>4 DEF Kept
  <2> QED BY <2>1, <2>2, <2>3, <2>4, <2>5, KeptOn DEF Zeros12
<1> QED BY <1>1, <1>2, <1>3

LEMMA LongRestKept ==
  ASSUME NEW c, MachineOK(c), NEW a, NEW access
  PROVE  Kept(c, LongRest(c, a, access))
<1>1. PICK d : d = Zeros12(c, a + 8)
  OBVIOUS
<1>2. Kept(c, d)
  BY <1>1, ZerosKept
<1>3. Kept(d, write16(d, a + 32, 0))
  BY <1>2, Write16Kept DEF Kept
<1> QED BY <1>1, <1>2, <1>3, KeptOn, KeptSelf DEF LongRest

LEMMA FrameWordsKept ==
  ASSUME NEW c, MachineOK(c), NEW a, NEW sr, SrOK(sr), NEW to \in Int, NEW format \in Int
  PROVE  Kept(c, FrameWords(c, a, sr, to, format))
<1>1. PICK d : d = write16(c, a, PackSR(sr))
  OBVIOUS
<1>2. Kept(c, d)
  BY <1>1, PackType, Write16Kept
<1>3. PICK e : e = write32(d, a + 2, to)
  OBVIOUS
<1>4. Kept(d, e)
  BY <1>2, <1>3, Write32Kept DEF Kept
<1>5. Kept(e, write16(e, a + 6, format))
  BY <1>4, Write16Kept DEF Kept
<1> QED BY <1>1, <1>2, <1>3, <1>4, <1>5, KeptOn DEF FrameWords

LEMMA LongFormatType == LongFormat \in Nat
<1>1. PICK n \in Nat \ {0} : n = Radix
  BY RadixType
<1>2. PICK k \in Nat : k = n * n
  OBVIOUS
<1>3. PICK l \in Nat : l = n * k
  OBVIOUS
<1>4. PICK m \in Nat : m = n - 1
  OBVIOUS
<1>5. m * l \in Nat
  OBVIOUS
<1> QED BY <1>1, <1>2, <1>3, <1>4, <1>5 DEF LongFormat

LEMMA FrameKept ==
  ASSUME NEW c, MachineOK(c), NEW sr, SrOK(sr), NEW to \in Int, NEW vec \in Int, NEW access
  PROVE  Kept(c, Frame(c, sr, to, vec, access))
<1>1. PICK format \in Int : format = vec + IF access THEN LongFormat ELSE 0
  BY LongFormatType
<1>2. PICK d : d = FrameWords(c, c.A[7], sr, to, format)
  OBVIOUS
<1>3. Kept(c, d)
  BY <1>2, FrameWordsKept
<1>4. Kept(d, LongRest(d, c.A[7], access))
  BY <1>3, LongRestKept DEF Kept
<1> QED BY <1>1, <1>2, <1>3, <1>4, KeptOn DEF Frame

LEMMA ExceptionKept ==
  ASSUME NEW c, MachineOK(c), NEW vec \in Nat, vec \in DOMAIN Handler, NEW to \in Int
  PROVE  Kept(c, build_exception_frame(c, vec, to))
<1>1. PICK access : access = (vec \in {2, 3})
  OBVIOUS
<1>2. PICK s : s = [c.sr EXCEPT !.S = 1]
  OBVIOUS
<1>3. SrOK(s)
  <2>1. PICK q : q = c.sr
    OBVIOUS
  <2>2. SrOK(q)
    BY <2>1, SrFields
  <2>3. SrOK([q EXCEPT !.S = 1])
    BY <2>2 DEF SrOK
  <2> QED BY <1>2, <2>1, <2>3
<1>4. PICK d : d = m68k_set_sr(c, s)
  OBVIOUS
<1>5. Kept(c, d)
  BY <1>3, <1>4, SetStatusKept
<1>6. PICK n \in Int : n = IF access THEN -(8 + LongTail) ELSE -8
  BY DEF LongTail
<1>7. PICK e : e = AddA(d, 7, n)
  OBVIOUS
<1>8. Kept(d, e)
  <2>1. MachineOK(d) /\ 7 \in 0 .. 7
    BY <1>5 DEF Kept
  <2> QED BY <1>7, <2>1, AddAKept
<1>9. PICK f : f = Frame(e, c.sr, to, vec, access)
  OBVIOUS
<1>10. Kept(e, f)
  <2>1. MachineOK(e) /\ SrOK(c.sr)
    BY <1>8, SrFields DEF Kept
  <2> QED BY <1>9, <2>1, FrameKept
<1>11. Kept(f, GoTo(f, Handler[vec]))
  <2>1. Handler[vec] \in Nat
    BY HandlerType
  <2>2. Handler[vec] \in Int
    BY <2>1
  <2> QED BY <1>10, <2>2, GoToKept DEF Kept
<1>12. build_exception_frame(c, vec, to) = GoTo(f, Handler[vec])
  BY <1>1, <1>2, <1>4, <1>6, <1>7, <1>9 DEF build_exception_frame
<1> QED BY <1>5, <1>8, <1>10, <1>11, <1>12, KeptOn

LEMMA RteKept ==
  ASSUME NEW c, MachineOK(c)
  PROVE  Kept(c, exec_rte(c))
<1>1. PICK s : s = pop16(c)
  OBVIOUS
<1>2. Kept(c, s) /\ s.val \in Int
  BY <1>1, PopKept, ValType DEF Kept
<1>3. PICK p : p = pop32(s)
  OBVIOUS
<1>4. Kept(s, p) /\ p.val \in Int
  BY <1>2, <1>3, PopKept, ValType DEF Kept
<1>5. PICK f : f = pop16(p)
  OBVIOUS
<1>6. Kept(p, f)
  BY <1>4, <1>5, PopKept DEF Kept
<1>7. PICK g : g = FrameEnd(f)
  OBVIOUS
<1>8. Kept(f, g)
  <2>1. LongTail \in Int
    BY DEF LongTail
  <2> QED BY <1>6, <1>7, <2>1, AddAKept, KeptSelf DEF FrameEnd, Kept
<1>9. PICK h : h = GoTo(g, p.val)
  OBVIOUS
<1>10. Kept(g, h)
  BY <1>4, <1>8, <1>9, GoToKept DEF Kept
<1>11. Kept(h, m68k_set_sr(h, UnpackSR(s.val)))
  BY <1>2, <1>10, UnpackType, SetStatusKept DEF Kept
<1>12. exec_rte(c) = m68k_set_sr(h, UnpackSR(s.val))
  BY <1>1, <1>3, <1>5, <1>7, <1>9 DEF exec_rte, FramePc, FrameFormat, Returned
<1> QED BY <1>2, <1>4, <1>6, <1>8, <1>10, <1>11, <1>12, KeptOn

(***************************************************************************)
(* exec_one, by group.                                                     *)
(***************************************************************************)
LogicOps == {"AND", "OR", "EOR"}

LEMMA LogicBitType ==
  ASSUME NEW op \in LogicOps, NEW a \in Int, NEW b \in Int
  PROVE  LogicBit(op, a, b) \in Int
<1>1. a * b \in Int /\ a + b - a * b \in Int /\ (a + b) % 2 \in Int
  OBVIOUS
<1> QED BY <1>1 DEF LogicBit, LogicOps

LEMMA LogicType ==
  ASSUME NEW op \in LogicOps, NEW a \in Int, NEW b \in Int
  PROVE  Logic(op, a, b) \in Int
<1>1. ASSUME NEW x \in Int, NEW y \in Int PROVE Logic2(op, x, y) \in Int
  <2>1. x \div 2 \in Int /\ y \div 2 \in Int /\ x % 2 \in Int /\ y % 2 \in Int
    OBVIOUS
  <2>2. LogicBit(op, x \div 2, y \div 2) \in Int /\ LogicBit(op, x % 2, y % 2) \in Int
    BY <2>1, LogicBitType
  <2> QED BY <2>2 DEF Logic2
<1>2. ASSUME NEW x \in Int, NEW y \in Int PROVE Logic4(op, x, y) \in Int
  <2>1. x \div 4 \in Int /\ y \div 4 \in Int /\ x % 4 \in Int /\ y % 4 \in Int
    OBVIOUS
  <2>2. Logic2(op, x \div 4, y \div 4) \in Int /\ Logic2(op, x % 4, y % 4) \in Int
    BY <1>1, <2>1
  <2> QED BY <2>2 DEF Logic4
<1>3. ASSUME NEW x \in Int, NEW y \in Int PROVE Logic8(op, x, y) \in Int
  <2>1. x \div 16 \in Int /\ y \div 16 \in Int /\ x % 16 \in Int /\ y % 16 \in Int
    OBVIOUS
  <2>2. Logic4(op, x \div 16, y \div 16) \in Int /\ Logic4(op, x % 16, y % 16) \in Int
    BY <1>2, <2>1
  <2> QED BY <2>2 DEF Logic8
<1>4. ASSUME NEW x \in Int, NEW y \in Int PROVE Logic16(op, x, y) \in Int
  <2>1. x \div 256 \in Int /\ y \div 256 \in Int /\ x % 256 \in Int /\ y % 256 \in Int
    OBVIOUS
  <2>2. Logic8(op, x \div 256, y \div 256) \in Int /\ Logic8(op, x % 256, y % 256) \in Int
    BY <1>3, <2>1
  <2> QED BY <2>2 DEF Logic16
<1>5. a \div 65536 \in Int /\ b \div 65536 \in Int /\ a % 65536 \in Int /\ b % 65536 \in Int
  OBVIOUS
<1>6. Logic16(op, a \div 65536, b \div 65536) \in Int /\ Logic16(op, a % 65536, b % 65536) \in Int
  BY <1>4, <1>5
<1> QED BY <1>6 DEF Logic

AluOps == {"ADD", "SUB"} \cup LogicOps

LEMMA AluKept ==
  ASSUME NEW c, MachineOK(c), NEW op \in AluOps, NEW a \in Int, NEW b \in Int, NEW sz \in Sizes
  PROVE  Kept(c, Alu(c, op, a, b, sz))
<1>1. CASE op = "ADD"
  <2>1. PICK r \in Int : r = a + b
    OBVIOUS
  <2>2. PICK d : d = flags_add(c, a, b, r, sz)
    OBVIOUS
  <2>3. Kept(c, d)
    BY <2>2, AddFlagsKept
  <2>4. PICK l \in Int : l = Low(r, sz)
    BY LowType
  <2>5. Kept(d, Val(d, l))
    BY <2>3, ValKept DEF Kept
  <2>6. Alu(c, op, a, b, sz) = Val(d, l)
    BY <1>1, <2>1, <2>2, <2>4 DEF Alu
  <2> QED BY <2>3, <2>5, <2>6, KeptOn
<1>2. CASE op = "SUB"
  <2>1. PICK r \in Int : r = a - b
    OBVIOUS
  <2>2. PICK d : d = flags_sub(c, a, b, r, sz)
    OBVIOUS
  <2>3. Kept(c, d)
    BY <2>2, SubFlagsKept
  <2>4. PICK l \in Int : l = Low(r, sz)
    BY LowType
  <2>5. Kept(d, Val(d, l))
    BY <2>3, ValKept DEF Kept
  <2>6. Alu(c, op, a, b, sz) = Val(d, l)
    BY <1>2, <2>1, <2>2, <2>4 DEF Alu
  <2> QED BY <2>3, <2>5, <2>6, KeptOn
<1>3. CASE op \in LogicOps
  <2>1. PICK r \in Int : r = Logic(op, a, b)
    BY <1>3, LogicType
  <2>2. PICK d : d = flags_logic(c, r, sz)
    OBVIOUS
  <2>3. Kept(c, d)
    BY <2>2, LogicFlagsKept
  <2>4. Kept(d, Val(d, r))
    BY <2>3, ValKept DEF Kept
  <2>5. Alu(c, op, a, b, sz) = Val(d, r)
    BY <1>3, <2>1, <2>2 DEF Alu, LogicOps
  <2> QED BY <2>3, <2>4, <2>5, KeptOn
<1> QED BY <1>1, <1>2, <1>3 DEF AluOps

LEMMA InstructionFields ==
  ASSUME NEW ins, InstructionOK(ins)
  PROVE  /\ ins.sz \in Sizes /\ EaOK(ins.ea) /\ EaOK(ins.dst)
         /\ ins.reg \in 0 .. 7 /\ ins.ea.reg \in 0 .. 7 /\ ins.imm \in Int
         /\ ins.target \in Int /\ ins.ext[1] \in Int
BY DEF InstructionOK, EaOK

\* Reading the operand of an instruction that has read at most two words.
LEMMA OperandOK ==
  ASSUME NEW c, MachineOK(c), c.er <= 3, NEW ins, InstructionOK(ins), NEW sz \in Sizes,
         NEW v, v = read_ea(c, ins, sz)
  PROVE  MachineOK(v) /\ v.er <= c.er + 2 /\ v.val \in Int /\ Low(v.val, sz) \in Nat
         /\ Low(v.val, sz) \in 0 .. 2^Bits[sz] - 1
BY ReadForWrite DEF read_ea

LEMMA WriteOK ==
  ASSUME NEW c, MachineOK(c), c.er <= 3, NEW ins, InstructionOK(ins), NEW ea, EaOK(ea),
         NEW sz \in Sizes, NEW v \in Int
  PROVE  MachineOK(write_ea(c, ins, ea, sz, v))
BY WriteRanged DEF write_ea, Ranged

LEMMA MovedOK ==
  ASSUME NEW c, MachineOK(c), c.er <= 3, NEW ins, InstructionOK(ins)
  PROVE  MachineOK(Moved(c, ins))
<1>1. PICK d : d = flags_logic(c, c.val, ins.sz)
  OBVIOUS
<1>2. Kept(c, d)
  BY <1>1, ValType, InstructionFields, LogicFlagsKept
<1>3. MachineOK(d) /\ d.er <= 3
  BY <1>2 DEF Kept
<1> QED BY <1>1, <1>3, ValType, InstructionFields, WriteOK DEF Moved

LEMMA LoadLogicKept ==
  ASSUME NEW c, MachineOK(c), NEW r \in 0 .. 7, NEW v \in Int, NEW sz \in Sizes
  PROVE  Kept(c, LoadLogic(c, r, v, sz))
<1>1. PICK d : d = store_dn(c, r, v, sz)
  OBVIOUS
<1>2. Kept(c, d)
  BY <1>1, StoreKept
<1>3. Kept(d, flags_logic(d, v, sz))
  BY <1>2, LogicFlagsKept DEF Kept
<1> QED BY <1>1, <1>2, <1>3, KeptOn DEF LoadLogic

LEMMA ExchangedKept ==
  ASSUME NEW c, MachineOK(c), NEW ins, InstructionOK(ins)
  PROVE  Kept(c, Exchanged(c, ins))
<1>0. ins.reg \in 0 .. 7 /\ ins.ea.reg \in 0 .. 7
  BY InstructionFields
<1>1. PICK x \in Int : x = IF ins.opmode = "AA" THEN c.A[ins.reg] ELSE c.D[ins.reg]
  BY <1>0, RegisterType
<1>2. PICK y \in Int : y = IF ins.opmode = "DD" THEN c.D[ins.ea.reg] ELSE c.A[ins.ea.reg]
  BY <1>0, RegisterType
<1>3. PICK d : d = IF ins.opmode = "AA" THEN SetA(c, ins.reg, y) ELSE SetD(c, ins.reg, y)
  OBVIOUS
<1>4. Kept(c, d)
  BY <1>0, <1>3, SetAKept, SetDKept
<1>5. PICK e : e = IF ins.opmode = "DD" THEN SetD(d, ins.ea.reg, x) ELSE SetA(d, ins.ea.reg, x)
  OBVIOUS
<1>6. Kept(d, e)
  BY <1>0, <1>4, <1>5, SetAKept, SetDKept DEF Kept
<1>7. Exchanged(c, ins) = e
  BY <1>1, <1>2, <1>3, <1>5 DEF Exchanged
<1> QED BY <1>4, <1>6, <1>7, KeptOn

LEMMA AddressOK ==
  ASSUME NEW c, MachineOK(c), c.er <= 3, NEW ins, InstructionOK(ins), NEW a, a = addr_ea(c, ins)
  PROVE  MachineOK(a) /\ a.val \in Int
<1>1. MachineOK(a)
  BY InstructionFields, AddrRanged DEF addr_ea, Ranged
<1> QED BY <1>1, ValType

LEMMA ExecMoveOK ==
  ASSUME NEW c, MachineOK(c), c.er = 1, NEW ins, InstructionOK(ins),
         ins.mn \in {"MOVE", "MOVEA", "MOVEQ", "LEA", "PEA", "TST", "CLR", "EXT", "SWAP", "EXG"}
  PROVE  MachineOK(ExecMove(c, ins))
<1>0. c.er <= 3
  OBVIOUS
<1>1. CASE ins.mn \in {"MOVE", "MOVEA", "TST"}
  <2>1. PICK v : v = read_ea(c, ins, ins.sz)
    OBVIOUS
  <2>2. MachineOK(v) /\ v.er <= c.er + 2 /\ v.val \in Int
    BY <1>0, <2>1, InstructionFields, OperandOK
  <2>3. v.er <= 3
    BY <2>2
  <2>4. MachineOK(Moved(v, ins))
    BY <2>2, <2>3, MovedOK
  <2>5. MachineOK(SetA(v, ins.reg, sext(v.val, ins.sz)))
    <3>1. PICK w \in Nat : w = sext(v.val, ins.sz)
      BY <2>2, InstructionFields, SextNat
    <3>2. w \in Int /\ ins.reg \in 0 .. 7
      BY InstructionFields
    <3> QED BY <2>2, <3>1, <3>2, SetAKept DEF Kept
  <2>6. MachineOK(flags_logic(v, v.val, ins.sz))
    BY <2>2, InstructionFields, LogicFlagsKept DEF Kept
  <2>7. ExecMove(c, ins) = FromOperand(v, ins)
    BY <1>1, <2>1 DEF ExecMove
  <2> QED BY <1>1, <2>4, <2>5, <2>6, <2>7 DEF FromOperand
<1>2. CASE ins.mn \in {"LEA", "PEA"}
  <2>1. PICK a : a = addr_ea(c, ins)
    OBVIOUS
  <2>2. MachineOK(a) /\ a.val \in Int
    BY <1>0, <2>1, AddressOK
  <2>3. MachineOK(SetA(a, ins.reg, a.val)) /\ MachineOK(push32(a, a.val))
    BY <2>2, InstructionFields, SetAKept, PushKept DEF Kept
  <2>4. ExecMove(c, ins) = FromAddress(a, ins)
    BY <1>2, <2>1 DEF ExecMove
  <2> QED BY <2>3, <2>4 DEF FromAddress
<1>3. CASE ins.mn = "CLR"
  <2>1. PICK d : d = flags_logic(c, 0, ins.sz)
    OBVIOUS
  <2>2. MachineOK(d) /\ d.er <= 3
    BY <1>0, <2>1, InstructionFields, LogicFlagsKept DEF Kept
  <2>3. MachineOK(write_ea(d, ins, ins.ea, ins.sz, 0))
    BY <2>2, InstructionFields, WriteOK
  <2> QED BY <1>3, <2>1, <2>3 DEF ExecMove
<1>4. CASE ins.mn = "MOVEQ"
  <2>1. PICK w \in Nat : w = sext(ins.imm, "B")
    BY InstructionFields, SextNat DEF Sizes
  <2>2. w \in Int /\ "L" \in Sizes /\ ins.reg \in 0 .. 7
    BY InstructionFields DEF Sizes
  <2>3. MachineOK(LoadLogic(c, ins.reg, w, "L"))
    BY <2>2, LoadLogicKept DEF Kept
  <2> QED BY <1>4, <2>1, <2>3 DEF ExecMove
<1>5. CASE ins.mn = "EXT"
  <2>1. PICK s \in Sizes : s = IF ins.sz = "W" THEN "B" ELSE "W"
    BY DEF Sizes
  <2>2. PICK t \in Sizes : t = IF ins.sz = "W" THEN "W" ELSE "L"
    BY DEF Sizes
  <2>3. c.D[ins.reg] \in Int /\ ins.reg \in 0 .. 7
    BY InstructionFields, RegisterType
  <2>4. PICK w \in Nat : w = sext(c.D[ins.reg], s)
    BY <2>3, SextNat
  <2>5. w \in Int
    OBVIOUS
  <2>6. MachineOK(LoadLogic(c, ins.reg, w, t))
    BY <2>3, <2>5, LoadLogicKept DEF Kept
  <2> QED BY <1>5, <2>1, <2>2, <2>4, <2>6 DEF ExecMove
<1>6. CASE ins.mn = "SWAP"
  <2>1. c.D[ins.reg] \in Longs /\ ins.reg \in 0 .. 7
    BY InstructionFields, RegisterType
  <2>2. Bits["L"] \in Nat /\ Bits["W"] \in 0 .. Bits["L"] /\ 2^Bits["L"] \in Nat
    <3>1. Bits["L"] \in Nat /\ 2^Bits["L"] \in Nat
      BY Widths DEF Sizes
    <3> QED BY <3>1, InterpAssumption DEF Bits
  <2>3. RotateLeft(c.D[ins.reg], Bits["W"], Bits["L"]) \in 0 .. 2^Bits["L"] - 1
    BY <2>1, <2>2, RotateRange DEF Longs
  <2>4. PICK w \in Int : w = RotateLeft(c.D[ins.reg], Bits["W"], Bits["L"])
    BY <2>2, <2>3
  <2>5. MachineOK(LoadLogic(c, ins.reg, w, "L"))
    BY <2>1, LoadLogicKept DEF Kept, Sizes
  <2> QED BY <1>6, <2>4, <2>5 DEF ExecMove
<1>7. CASE ins.mn = "EXG"
  BY <1>7, ExchangedKept DEF ExecMove, Kept
<1> QED BY <1>1, <1>2, <1>3, <1>4, <1>5, <1>6, <1>7

\* An instruction that computes on what it has read and writes it back.
LEMMA AluBackOK ==
  ASSUME NEW c, MachineOK(c), c.er <= 3, NEW ins, InstructionOK(ins), NEW sz \in Sizes,
         NEW op \in AluOps, NEW b \in Int
  PROVE  MachineOK(Rmw(c, ins, sz, LAMBDA k, a : Alu(k, op, a, b, sz)))
<1>1. PICK r : r = read_ea_ex(c, ins, ins.ea, sz, TRUE)
  OBVIOUS
<1>2. MachineOK(r) /\ Low(r.val, sz) \in Nat
  BY <1>1, ReadForWrite
<1>3. PICK a \in Int : a = Low(r.val, sz)
  BY <1>2
<1>4. MachineOK(Alu(r, op, a, b, sz))
  BY <1>2, AluKept DEF Kept
<1>5. PICK f : f = Then(r, Alu(r, op, a, b, sz))
  OBVIOUS
<1>6. MachineOK(f)
  BY <1>2, <1>4, <1>5, ThenOK
<1>7. Rmw(c, ins, sz, LAMBDA k, x : Alu(k, op, x, b, sz)) = WrittenBack(f, c.er, ins, sz)
  BY <1>1, <1>3, <1>5 DEF Rmw, Computed
<1>8. MachineOK(WrittenBack(f, c.er, ins, sz))
  BY <1>6, WrittenBackKept
<1> QED BY <1>7, <1>8

LEMMA ExecAluOK ==
  ASSUME NEW c, MachineOK(c), c.er = 1, NEW ins, InstructionOK(ins),
         ins.mn \in {"ADD", "SUB", "AND", "OR", "EOR", "CMP"}
  PROVE  MachineOK(ExecAlu(c, ins))
<1>0. c.er <= 3 /\ ins.sz \in Sizes /\ ins.reg \in 0 .. 7
  BY InstructionFields
<1>1. CASE ins.mn = "EOR" \/ (ins.toEa /\ ins.mn # "CMP")
  <2>1. ins.mn \in AluOps
    BY <1>1 DEF AluOps, LogicOps
  <2>2. Low(c.D[ins.reg], ins.sz) \in Nat
    BY <1>0, RegisterType, LowType
  <2>3. PICK b \in Int : b = Low(c.D[ins.reg], ins.sz)
    BY <2>2
  <2>4. MachineOK(Rmw(c, ins, ins.sz, LAMBDA k, a : Alu(k, ins.mn, a, b, ins.sz)))
    BY <1>0, <2>1, AluBackOK
  <2> QED BY <1>1, <2>3, <2>4 DEF ExecAlu, Rmw, Computed
<1>2. CASE ~(ins.mn = "EOR" \/ (ins.toEa /\ ins.mn # "CMP"))
  <2>1. PICK v : v = read_ea(c, ins, ins.sz)
    OBVIOUS
  <2>2. MachineOK(v) /\ Low(v.val, ins.sz) \in Nat
    BY <1>0, <2>1, OperandOK
  <2>3. PICK b \in Int : b = Low(v.val, ins.sz)
    BY <2>2
  <2>4. Low(v.D[ins.reg], ins.sz) \in Nat
    BY <1>0, <2>2, RegisterType, LowType
  <2>5. PICK d \in Int : d = Low(v.D[ins.reg], ins.sz)
    BY <2>4
  <2>6. MachineOK(flags_cmp(v, d, b, d - b, ins.sz))
    <3>1. d - b \in Int
      OBVIOUS
    <3> QED BY <1>0, <2>2, <3>1, CmpFlagsKept DEF Kept
  <2>7. ASSUME ins.mn # "CMP" PROVE MachineOK(ToRegister(Then(v, Alu(v, ins.mn, d, b, ins.sz)), ins))
    <3>1. ins.mn \in AluOps
      BY <2>7 DEF AluOps, LogicOps
    <3>2. MachineOK(Alu(v, ins.mn, d, b, ins.sz))
      BY <1>0, <2>2, <3>1, AluKept DEF Kept
    <3>3. PICK f : f = Then(v, Alu(v, ins.mn, d, b, ins.sz))
      OBVIOUS
    <3>4. MachineOK(f) /\ f.val \in Int
      BY <2>2, <3>2, <3>3, ThenOK, ValType
    <3>5. MachineOK(store_dn(f, ins.reg, f.val, ins.sz))
      BY <1>0, <3>4, StoreKept DEF Kept
    <3> QED BY <3>3, <3>5 DEF ToRegister
  <2>8. ExecAlu(c, ins) = WithOperand(v, ins, d, b)
    BY <1>2, <2>1, <2>3, <2>5 DEF ExecAlu, OnRegister
  <2> QED BY <2>6, <2>7, <2>8 DEF WithOperand
<1> QED BY <1>1, <1>2

LEMMA PostIncrementedKept ==
  ASSUME NEW c, MachineOK(c), NEW r \in 0 .. 7, NEW sz \in Sizes
  PROVE  Kept(c, PostIncremented(c, r, sz))
<1>1. PICK d : d = AtRegister(c, r)
  OBVIOUS
<1>2. Kept(c, d)
  BY <1>1, AtRegisterKept
<1>3. PICK e : e = ReadAt(d, sz)
  OBVIOUS
<1>4. Kept(d, e)
  BY <1>2, <1>3, AtKept DEF Kept
<1>5. EaOK(EA(3, r))
  BY DEF EaOK, EA
<1>6. Kept(e, Stepped(e, EA(3, r), sz))
  BY <1>4, <1>5, SteppedKept DEF Kept
<1> QED BY <1>1, <1>2, <1>3, <1>4, <1>6, KeptOn DEF PostIncremented

LEMMA ExecAddressOK ==
  ASSUME NEW c, MachineOK(c), c.er = 1, NEW ins, InstructionOK(ins),
         ins.mn \in {"ADDA", "SUBA", "CMPA", "CMPM"}
  PROVE  MachineOK(ExecAddress(c, ins))
<1>0. c.er <= 3 /\ ins.sz \in Sizes /\ ins.reg \in 0 .. 7 /\ ins.ea.reg \in 0 .. 7 /\ "L" \in Sizes
  BY InstructionFields DEF Sizes
<1>1. CASE ins.mn = "CMPM"
  <2>1. PICK y : y = PostIncremented(c, ins.ea.reg, ins.sz)
    OBVIOUS
  <2>2. MachineOK(y) /\ y.val \in Int
    BY <1>0, <2>1, PostIncrementedKept, ValType DEF Kept
  <2>3. PICK x : x = PostIncremented(y, ins.reg, ins.sz)
    OBVIOUS
  <2>4. MachineOK(x) /\ x.val \in Int
    BY <1>0, <2>2, <2>3, PostIncrementedKept, ValType DEF Kept
  <2>5. x.val - y.val \in Int
    BY <2>2, <2>4
  <2>6. MachineOK(flags_cmp(x, x.val, y.val, x.val - y.val, ins.sz))
    BY <1>0, <2>4, <2>5, CmpFlagsKept DEF Kept
  <2> QED BY <1>1, <2>1, <2>3, <2>6 DEF ExecAddress, SecondOperand, Compared
<1>2. CASE ins.mn # "CMPM"
  <2>1. PICK v : v = read_ea(c, ins, ins.sz)
    OBVIOUS
  <2>2. MachineOK(v) /\ v.val \in Int
    BY <1>0, <2>1, OperandOK
  <2>3. sext(v.val, ins.sz) \in Nat /\ v.A[ins.reg] \in Nat
    BY <1>0, <2>2, SextNat, RegisterType
  <2>4. PICK w \in Int : w = sext(v.val, ins.sz)
    BY <2>3
  <2>5. v.A[ins.reg] + w \in Int /\ v.A[ins.reg] - w \in Int
    BY <2>3
  <2>6. MachineOK(SetA(v, ins.reg, v.A[ins.reg] + w)) /\ MachineOK(SetA(v, ins.reg, v.A[ins.reg] - w))
    BY <1>0, <2>2, <2>5, SetAKept DEF Kept
  <2>7. MachineOK(flags_cmp(v, v.A[ins.reg], w, v.A[ins.reg] - w, "L"))
    BY <1>0, <2>2, <2>5, CmpFlagsKept DEF Kept
  <2>8. ExecAddress(c, ins) = OnAddress(v, ins, w)
    BY <1>2, <2>1, <2>4 DEF ExecAddress, WithSource
  <2> QED BY <1>2, <2>6, <2>7, <2>8 DEF OnAddress
<1> QED BY <1>1, <1>2

LEMMA ExecQuickOK ==
  ASSUME NEW c, MachineOK(c), c.er = 1, NEW ins, InstructionOK(ins), ins.mn \in {"ADDQ", "SUBQ"}
  PROVE  MachineOK(ExecQuick(c, ins))
<1>0. c.er <= 3 /\ ins.sz \in Sizes /\ ins.ea.reg \in 0 .. 7
  BY InstructionFields
<1>1. PICK q \in Int : q = IF ins.imm = 0 THEN 8 ELSE ins.imm
  BY InstructionFields
<1>2. PICK op \in AluOps : op = IF ins.mn = "ADDQ" THEN "ADD" ELSE "SUB"
  BY DEF AluOps
<1>3. PICK n \in Int : n = IF op = "ADD" THEN q ELSE -q
  OBVIOUS
<1>4. MachineOK(AddA(c, ins.ea.reg, n))
  BY <1>0, AddAKept DEF Kept
<1>5. MachineOK(Rmw(c, ins, ins.sz, LAMBDA k, a : Alu(k, op, a, q, ins.sz)))
  BY <1>0, AluBackOK
<1>6. ExecQuick(c, ins) = IF ins.ea.mode = 1 THEN AddA(c, ins.ea.reg, n)
                          ELSE Rmw(c, ins, ins.sz, LAMBDA k, a : Alu(k, op, a, q, ins.sz))
  BY <1>1, <1>2, <1>3 DEF ExecQuick
<1> QED BY <1>4, <1>5, <1>6

LEMMA ExecImmediateOK ==
  ASSUME NEW c, MachineOK(c), c.er = 1, NEW ins, InstructionOK(ins),
         ins.mn \in DOMAIN ImmediateOp \cup {"CMPI"}
  PROVE  MachineOK(ExecImmediate(c, ins))
<1>0. ins.sz \in Sizes /\ c.er <= 3
  BY InstructionFields
<1>1. PICK d : d = er_next_imm(c, ins, ins.sz)
  OBVIOUS
<1>2. MachineOK(d) /\ d.er <= 3 /\ d.val \in Int
  <2>1. Ranged(c, d)
    BY <1>0, <1>1, ImmediateRanged
  <2> QED BY <2>1, ValType DEF Ranged
<1>3. PICK i \in Int : i = d.val
  BY <1>2
<1>4. CASE ins.mn = "CMPI"
  <2>1. PICK v : v = read_ea(d, ins, ins.sz)
    OBVIOUS
  <2>2. MachineOK(v) /\ Low(v.val, ins.sz) \in Nat
    BY <1>0, <1>2, <2>1, OperandOK
  <2>3. Low(v.val, ins.sz) - i \in Int
    BY <2>2
  <2>4. MachineOK(flags_cmp(v, Low(v.val, ins.sz), i, Low(v.val, ins.sz) - i, ins.sz))
    BY <1>0, <2>2, <2>3, CmpFlagsKept DEF Kept
  <2> QED BY <1>1, <1>3, <1>4, <2>1, <2>4 DEF ExecImmediate, AfterImmediate, WithImmediate, ComparedTo
<1>5. CASE ins.mn # "CMPI"
  <2>1. PICK op \in AluOps : op = ImmediateOp[ins.mn]
    BY <1>5 DEF ImmediateOp, AluOps, LogicOps
  <2>2. MachineOK(Rmw(d, ins, ins.sz, LAMBDA k, b : Alu(k, op, b, i, ins.sz)))
    BY <1>0, <1>2, AluBackOK
  <2> QED BY <1>1, <1>3, <1>5, <2>1, <2>2
           DEF ExecImmediate, AfterImmediate, WithImmediate, Rmw, Computed
<1> QED BY <1>4, <1>5

LEMMA CalledKept ==
  ASSUME NEW c, MachineOK(c), NEW back \in Int, NEW to \in Int
  PROVE  Kept(c, Called(c, back, to))
<1>1. PICK d : d = push32(c, back)
  OBVIOUS
<1>2. Kept(c, d)
  BY <1>1, PushKept
<1>3. Kept(d, GoTo(d, to))
  BY <1>2, GoToKept DEF Kept
<1> QED BY <1>1, <1>2, <1>3, KeptOn DEF Called

LEMMA ToValKept == ASSUME NEW c, MachineOK(c) PROVE Kept(c, ToVal(c))
BY ValType, GoToKept DEF ToVal

LEMMA ExecBranchOK ==
  ASSUME NEW c, MachineOK(c), c.er = 1, NEW ins, InstructionOK(ins),
         ins.mn \in {"NOP", "RESET", "BRA", "Bcc", "BSR", "DBcc", "JMP", "JSR", "RTS", "RTR", "RTE",
                     "TRAP", "STOP"}
  PROVE  MachineOK(ExecBranch(c, ins))
<1>0. c.er <= 3 /\ ins.target \in Int /\ c.next \in Int /\ ins.imm \in Int /\ ins.reg \in 0 .. 7
  BY InstructionFields, ValType
<1>1. CASE ins.mn \in {"NOP", "RESET"}
  BY <1>1 DEF ExecBranch
<1>2. CASE ins.mn \in {"BRA", "Bcc"}
  <2>1. MachineOK(GoTo(c, ins.target))
    BY <1>0, GoToKept DEF Kept
  <2> QED BY <1>2, <2>1 DEF ExecBranch
<1>3. CASE ins.mn = "BSR"
  <2>1. MachineOK(Called(c, c.next, ins.target))
    BY <1>0, CalledKept DEF Kept
  <2> QED BY <1>3, <2>1 DEF ExecBranch
<1>4. CASE ins.mn = "DBcc"
  <2>1. PICK n \in Int : n = Low(Low(c.D[ins.reg], "W") - 1, "W")
    <3>0. "W" \in Sizes
      BY DEF Sizes
    <3>1. Low(c.D[ins.reg], "W") \in Nat
      BY <1>0, <3>0, RegisterType, LowType
    <3>2. Low(c.D[ins.reg], "W") - 1 \in Int
      BY <3>1
    <3> QED BY <3>0, <3>2, LowType
  <2>2. PICK d : d = store_dn(c, ins.reg, n, "W")
    OBVIOUS
  <2>3. MachineOK(d)
    BY <1>0, <2>2, StoreKept DEF Kept, Sizes
  <2>4. PICK to \in Int : to = IF Signed(n, "W") # -1 THEN ins.target ELSE c.next
    BY <1>0
  <2>5. MachineOK(GoTo(d, to))
    BY <2>3, GoToKept DEF Kept
  <2>6. ExecBranch(c, ins) = IF eval_cond(c.sr, ins.cc) THEN c ELSE GoTo(d, to)
    BY <1>4, <2>1, <2>2, <2>4 DEF ExecBranch, Decremented
  <2> QED BY <2>5, <2>6
<1>5. CASE ins.mn \in {"JMP", "JSR"}
  <2>1. PICK a : a = addr_ea(c, ins)
    OBVIOUS
  <2>2. MachineOK(a) /\ a.val \in Int
    BY <1>0, <2>1, AddressOK
  <2>3. MachineOK(ToVal(a)) /\ MachineOK(Called(a, c.next, a.val))
    BY <1>0, <2>2, ToValKept, CalledKept DEF Kept
  <2>4. ExecBranch(c, ins) = Jumped(a, ins, c.next)
    BY <1>5, <2>1 DEF ExecBranch
  <2> QED BY <2>3, <2>4 DEF Jumped
<1>6. CASE ins.mn = "RTS"
  <2>1. PICK p : p = pop32(c)
    OBVIOUS
  <2>2. MachineOK(p)
    BY <2>1, PopKept DEF Kept
  <2>3. MachineOK(ToVal(p))
    BY <2>2, ToValKept DEF Kept
  <2> QED BY <1>6, <2>1, <2>3 DEF ExecBranch
<1>7. CASE ins.mn = "RTR"
  <2>1. PICK p : p = pop16(c)
    OBVIOUS
  <2>2. MachineOK(p)
    BY <2>1, PopKept DEF Kept
  <2>3. SrOK(WithCCR(p.sr, p.val))
    BY <2>2, SrFields, ValType, WithCCRType
  <2>4. PICK q : q = SetSR(p, WithCCR(p.sr, p.val))
    OBVIOUS
  <2>5. MachineOK(q)
    BY <2>2, <2>3, <2>4, SetSRKept DEF Kept
  <2>6. PICK r : r = pop32(q)
    OBVIOUS
  <2>7. MachineOK(r)
    BY <2>5, <2>6, PopKept DEF Kept
  <2>8. MachineOK(ToVal(r))
    BY <2>7, ToValKept DEF Kept
  <2> QED BY <1>7, <2>1, <2>4, <2>6, <2>8 DEF ExecBranch, PoppedCCR
<1>8. CASE ins.mn = "RTE"
  BY <1>8, RteKept DEF ExecBranch, Kept
<1>9. CASE ins.mn = "TRAP"
  <2>1. PICK vec \in Nat : vec = 32 + ins.imm
    BY DEF InstructionOK
  <2>2. vec \in DOMAIN Handler
    BY <1>9, <2>1 DEF InstructionOK
  <2>3. MachineOK(build_exception_frame(c, vec, c.next))
    BY <1>0, <2>2, ExceptionKept DEF Kept
  <2> QED BY <1>9, <2>1, <2>3 DEF ExecBranch
<1>10. CASE ins.mn = "STOP"
  <2>1. SrOK(UnpackSR(ins.imm))
    BY <1>0, UnpackType
  <2>2. PICK d : d = m68k_set_sr(c, UnpackSR(ins.imm))
    OBVIOUS
  <2>3. MachineOK(d)
    BY <2>1, <2>2, SetStatusKept DEF Kept
  <2>4. MachineOK(Halted(d))
    BY <2>3, HaltedKept DEF Kept
  <2> QED BY <1>10, <2>2, <2>4 DEF ExecBranch
<1> QED BY <1>1, <1>2, <1>3, <1>4, <1>5, <1>6, <1>7, <1>8, <1>9, <1>10

LEMMA BitType == ASSUME NEW v \in Int, NEW n \in Nat PROVE Bit(v, n) \in {0, 1}
BY PowerNat, BitOf DEF Bit

LEMMA TestedKept ==
  ASSUME NEW c, MachineOK(c), NEW v \in Int, NEW n \in Nat
  PROVE  Kept(c, Tested(c, v, n))
<1>1. PICK z \in {0, 1} : z = 1 - Bit(v, n)
  BY BitType
<1>2. PICK q : q = c.sr
  OBVIOUS
<1>3. SrOK(q)
  BY <1>2, SrFields
<1>4. SrOK([q EXCEPT !.Z = z])
  BY <1>3 DEF SrOK
<1> QED BY <1>1, <1>2, <1>4, SetSRKept DEF Tested

LEMMA OnBitOK ==
  ASSUME NEW c, MachineOK(c), c.er <= 3, NEW ins, InstructionOK(ins), NEW sz \in Sizes, NEW n \in Nat,
         ins.mn \in {"BTST", "BCHG", "BCLR", "BSET"}
  PROVE  MachineOK(OnBit(c, ins, sz, n))
<1>1. CASE ins.mn = "BTST"
  <2>1. PICK t : t = read_ea(c, ins, sz)
    OBVIOUS
  <2>2. MachineOK(t) /\ Low(t.val, sz) \in Nat
    BY <2>1, OperandOK
  <2>3. Low(t.val, sz) \in Int
    BY <2>2
  <2>4. MachineOK(Tested(t, Low(t.val, sz), n))
    BY <2>2, <2>3, TestedKept DEF Kept
  <2> QED BY <1>1, <2>1, <2>4 DEF OnBit, TestedOnly
<1>2. CASE ins.mn # "BTST"
  <2>1. PICK r : r = read_ea_ex(c, ins, ins.ea, sz, TRUE)
    OBVIOUS
  <2>2. MachineOK(r) /\ Low(r.val, sz) \in Nat
    BY <2>1, ReadForWrite
  <2>3. PICK v \in Int : v = Low(r.val, sz)
    BY <2>2
  <2>4. PICK k \in Int : k = NewBit(ins.mn, v, n) - Bit(v, n)
    <3>1. PICK b \in {0, 1} : b = Bit(v, n)
      BY BitType
    <3>2. NewBit(ins.mn, v, n) \in {0, 1, 1 - b}
      BY <1>2, <3>1 DEF NewBit
    <3> QED BY <3>1, <3>2
  <2>5. PICK w \in Int : w = 2^n
    BY PowerNat
  <2>6. v + k * w \in Int
    OBVIOUS
  <2>7. PICK d : d = Tested(r, v, n)
    OBVIOUS
  <2>8. MachineOK(d)
    BY <2>2, <2>7, TestedKept DEF Kept
  <2>9. MachineOK(Val(d, v + k * w))
    BY <2>6, <2>8, ValKept DEF Kept
  <2>10. PICK f : f = Then(r, Val(d, v + k * w))
    OBVIOUS
  <2>11. MachineOK(f)
    BY <2>2, <2>9, <2>10, ThenOK
  <2>12. OnBit(c, ins, sz, n) = WrittenBack(f, c.er, ins, sz)
    BY <1>2, <2>1, <2>3, <2>4, <2>5, <2>7, <2>10 DEF OnBit, Rmw, Computed
  <2> QED BY <2>11, <2>12, WrittenBackKept
<1> QED BY <1>1, <1>2

LEMMA ExecBitOK ==
  ASSUME NEW c, MachineOK(c), c.er = 1, NEW ins, InstructionOK(ins),
         ins.mn \in {"BTST", "BCHG", "BCLR", "BSET"}
  PROVE  MachineOK(ExecBit(c, ins))
<1>0. c.er <= 3 /\ ins.imm \in Int /\ ins.reg \in 0 .. 7
  BY InstructionFields
<1>1. PICK sz \in Sizes : sz = IF ins.ea.mode = 0 THEN "L" ELSE "B"
  BY DEF Sizes
<1>2. PICK d : d = IF ins.static THEN [c EXCEPT !.er = 2] ELSE c
  OBVIOUS
<1>3. MachineOK(d) /\ d.er <= 3
  <2>1. 2 \in 1 .. 5
    OBVIOUS
  <2>2. MachineOK([c EXCEPT !.er = 2]) /\ [c EXCEPT !.er = 2].er = 2
    BY <2>1, RewindKept
  <2> QED BY <1>0, <1>2, <2>2
<1>4. PICK n \in Nat : n = (IF ins.static THEN ins.imm ELSE c.D[ins.reg]) % Bits[sz]
  <2>1. PICK v \in Int : v = IF ins.static THEN ins.imm ELSE c.D[ins.reg]
    BY <1>0, RegisterType
  <2>2. PICK b \in Nat \ {0} : b = Bits[sz]
    BY Widths
  <2>3. v % b \in 0 .. b - 1
    BY RemainderDef
  <2> QED BY <2>1, <2>2, <2>3
<1>5. ExecBit(c, ins) = OnBit(d, ins, sz, n)
  BY <1>1, <1>2, <1>4 DEF ExecBit
<1> QED BY <1>3, <1>5, OnBitOK

LEMMA NegxKept ==
  ASSUME NEW c, MachineOK(c), NEW a \in Int, NEW sz \in Sizes
  PROVE  Kept(c, negx(c, a, sz))
<1>1. c.sr.X \in {0, 1}
  BY SrFields
<1>2. PICK r \in Int : r = Low(-(a + c.sr.X), sz)
  <2>1. -(a + c.sr.X) \in Int
    BY <1>1
  <2> QED BY <2>1, LowType
<1>3. PICK k \in {0, 1} : k = Flag(a + c.sr.X # 0)
  BY FlagType
<1>4. PICK v \in {0, 1} : v = Flag(a = 2^(Bits[sz] - 1) /\ c.sr.X = 0)
  BY FlagType
<1>5. PICK z \in {0, 1} : z = StickyZ(c, r)
  BY StickyType
<1>6. PICK n \in {0, 1} : n = Msb(r, sz)
  BY LowType
<1>7. PICK q : q = c.sr
  OBVIOUS
<1>8. SrOK(q)
  BY <1>7, SrFields
<1>9. PICK s : s = [q EXCEPT !.Z = z, !.N = n, !.C = k, !.X = k, !.V = v]
  OBVIOUS
<1>10. SrOK(s)
  BY <1>8, <1>9 DEF SrOK
<1>11. PICK d : d = SetSR(c, s)
  OBVIOUS
<1>12. Kept(c, d)
  BY <1>10, <1>11, SetSRKept
<1>13. Kept(d, Val(d, r))
  BY <1>12, ValKept DEF Kept
<1>14. negx(c, a, sz) = Val(d, r)
  BY <1>2, <1>3, <1>4, <1>5, <1>6, <1>7, <1>9, <1>11 DEF negx
<1> QED BY <1>12, <1>13, <1>14, KeptOn

LEMMA ExecUnaryOK ==
  ASSUME NEW c, MachineOK(c), c.er = 1, NEW ins, InstructionOK(ins),
         ins.mn \in {"NEG", "NEGX", "NOT", "TAS"}
  PROVE  MachineOK(ExecUnary(c, ins))
<1>0. c.er <= 3
  OBVIOUS
<1>1. PICK sz \in Sizes : sz = IF ins.mn = "TAS" THEN "B" ELSE ins.sz
  BY InstructionFields DEF Sizes
<1>2. PICK top \in Nat \ {0} : top = 2^(ByteBits - 1)
  <2>1. ByteBits - 1 \in Nat
    BY InterpAssumption
  <2> QED BY <2>1, PowerNat
<1>3. PICK r : r = read_ea_ex(c, ins, ins.ea, sz, TRUE)
  OBVIOUS
<1>4. MachineOK(r) /\ Low(r.val, sz) \in Nat
  BY <1>0, <1>3, ReadForWrite
<1>5. PICK a \in Int : a = Low(r.val, sz)
  BY <1>4
<1> DEFINE Op(k, v) ==
      CASE ins.mn = "NOT" -> LET w == 2^Bits[sz] - 1 - v IN Val(flags_logic(k, w, sz), w)
        [] ins.mn = "NEG" -> Val(flags_sub(k, 0, v, -v, sz), Low(-v, sz))
        [] ins.mn = "NEGX" -> negx(k, v, sz)
        [] ins.mn = "TAS" -> Val(flags_logic(k, v, "B"), (v % top) + top)
<1>6. MachineOK(Op(r, a))
  <2>1. CASE ins.mn = "NOT"
    <3>1. 2^Bits[sz] \in Nat
      BY Widths
    <3>2. PICK w \in Int : w = 2^Bits[sz] - 1 - a
      BY <3>1
    <3>3. PICK d : d = flags_logic(r, w, sz)
      OBVIOUS
    <3>4. MachineOK(d)
      BY <1>4, <3>3, LogicFlagsKept DEF Kept
    <3>5. MachineOK(Val(d, w))
      BY <3>4, ValKept DEF Kept
    <3> QED BY <2>1, <3>2, <3>3, <3>5
  <2>2. CASE ins.mn = "NEG"
    <3>1. PICK m \in Int : m = -a
      OBVIOUS
    <3>2. PICK d : d = flags_sub(r, 0, a, m, sz)
      OBVIOUS
    <3>3. MachineOK(d)
      BY <1>4, <3>2, SubFlagsKept DEF Kept
    <3>4. PICK l \in Int : l = Low(m, sz)
      BY LowType
    <3>5. MachineOK(Val(d, l))
      BY <3>3, ValKept DEF Kept
    <3> QED BY <2>2, <3>1, <3>2, <3>4, <3>5
  <2>3. CASE ins.mn = "NEGX"
    BY <1>4, <2>3, NegxKept DEF Kept
  <2>4. CASE ins.mn = "TAS"
    <3>1. PICK d : d = flags_logic(r, a, "B")
      OBVIOUS
    <3>2. MachineOK(d)
      BY <1>4, <3>1, LogicFlagsKept DEF Kept, Sizes
    <3>3. PICK m \in Int : m = a % top
      BY RemainderDef
    <3>4. m + top \in Int
      OBVIOUS
    <3>5. MachineOK(Val(d, m + top))
      BY <3>2, <3>4, ValKept DEF Kept
    <3> QED BY <2>4, <3>1, <3>3, <3>5
  <2> QED BY <2>1, <2>2, <2>3, <2>4
<1>7. PICK f : f = Then(r, Op(r, a))
  OBVIOUS
<1>8. MachineOK(f)
  BY <1>4, <1>6, <1>7, ThenOK
<1>9. ExecUnary(c, ins) = WrittenBack(f, c.er, ins, sz)
  BY <1>1, <1>2, <1>3, <1>5, <1>7 DEF ExecUnary, Rmw, Computed
<1> QED BY <1>0, <1>8, <1>9, WrittenBackKept

LEMMA ProductKept ==
  ASSUME NEW c, MachineOK(c), NEW r \in 0 .. 7, NEW p \in Int
  PROVE  Kept(c, Product(c, r, p))
<1>1. PICK d : d = SetD(c, r, p)
  OBVIOUS
<1>2. Kept(c, d)
  BY <1>1, SetDKept
<1>3. Kept(d, flags_logic(d, p, "L"))
  BY <1>2, LogicFlagsKept DEF Kept, Sizes
<1> QED BY <1>1, <1>2, <1>3, KeptOn DEF Product

LEMMA ExecMulDivOK ==
  ASSUME NEW c, MachineOK(c), c.er = 1, NEW ins, InstructionOK(ins),
         ins.mn \in {"MULU", "MULS", "DIVU", "DIVS"}
  PROVE  MachineOK(ExecMulDiv(c, ins))
<1>0. c.er <= 3 /\ ins.reg \in 0 .. 7 /\ "W" \in Sizes
  BY InstructionFields DEF Sizes
<1>1. PICK v : v = read_ea(c, ins, "W")
  OBVIOUS
<1>2. MachineOK(v) /\ Low(v.val, "W") \in 0 .. 2^Bits["W"] - 1 /\ Low(v.val, "W") \in Nat
  BY <1>0, <1>1, OperandOK
<1>3. PICK s \in 0 .. 2^Bits["W"] - 1 : s = Low(v.val, "W")
  BY <1>2
<1>4. Low(v.D[ins.reg], "W") \in Nat
  BY <1>0, <1>2, RegisterType, LowType
<1>5. PICK u \in Int : u = Low(v.D[ins.reg], "W")
  BY <1>4
<1>6. s \in Int
  BY <1>2, <1>3
<1>7. PICK x \in Int : x = Signed(u, "W")
  BY <1>0, LowType
<1>8. PICK y \in Int : y = Signed(s, "W")
  BY <1>0, <1>6, LowType
<1>9. u * s \in Int /\ x * y \in Int
  BY <1>6
<1>10. MachineOK(Product(v, ins.reg, u * s)) /\ MachineOK(Product(v, ins.reg, x * y))
  BY <1>0, <1>2, <1>9, ProductKept DEF Kept
<1>11. MachineOK(do_div(v, ins.reg, s, ins.mn = "DIVS"))
  BY <1>0, <1>2, DoDivKept DEF Kept
<1>12. ExecMulDiv(c, ins) = MulDiv(v, ins, s, u)
  BY <1>1, <1>3, <1>5 DEF ExecMulDiv, ByOperand
<1> QED BY <1>7, <1>8, <1>10, <1>11, <1>12 DEF MulDiv

LEMMA ExecLinkOK ==
  ASSUME NEW c, MachineOK(c), NEW ins, InstructionOK(ins)
  PROVE  MachineOK(ExecLink(c, ins))
<1>0. ins.reg \in 0 .. 7 /\ "L" \in Sizes /\ "W" \in Sizes /\ 7 \in 0 .. 7
  BY InstructionFields DEF Sizes
<1>1. PICK v \in Int : v = IF ins.reg = 7 THEN Low(c.A[7] - 4, "L") ELSE c.A[ins.reg]
  <2>1. c.A[7] \in Nat /\ c.A[ins.reg] \in Nat
    BY <1>0, RegisterType
  <2>2. c.A[7] - 4 \in Int
    BY <2>1
  <2>3. Low(c.A[7] - 4, "L") \in Nat
    BY <1>0, <2>2, LowType
  <2> QED BY <2>1, <2>3
<1>2. PICK p : p = push32(c, v)
  OBVIOUS
<1>3. MachineOK(p)
  BY <1>2, PushKept DEF Kept
<1>4. MachineOK(Linked(p, ins))
  <2>1. PICK a \in Int : a = p.A[7]
    BY <1>0, <1>3, RegisterType
  <2>2. PICK d : d = SetA(p, ins.reg, a)
    OBVIOUS
  <2>3. MachineOK(d)
    BY <1>0, <1>3, <2>2, SetAKept DEF Kept
  <2>4. PICK n \in Int : n = Signed(ins.ext[1], "W")
    BY <1>0, InstructionFields, LowType
  <2>5. MachineOK(AddA(d, 7, n))
    BY <1>0, <2>3, AddAKept DEF Kept
  <2> QED BY <2>1, <2>2, <2>4, <2>5 DEF Linked
<1>5. PICK w \in Int : w = c.A[ins.reg]
  BY <1>0, RegisterType
<1>6. PICK e : e = SetA(c, 7, w)
  OBVIOUS
<1>7. MachineOK(e)
  BY <1>0, <1>6, SetAKept DEF Kept
<1>8. PICK g : g = AtRegister(e, 7)
  OBVIOUS
<1>9. MachineOK(g)
  BY <1>0, <1>7, <1>8, AtRegisterKept DEF Kept
<1>10. PICK r : r = ReadAt(g, "L")
  OBVIOUS
<1>11. MachineOK(r) /\ r.val \in Int
  BY <1>0, <1>9, <1>10, AtKept, ValType DEF Kept
<1>12. MachineOK(Unlinked(r, ins))
  <2>1. PICK d : d = SetA(r, ins.reg, r.val)
    OBVIOUS
  <2>2. MachineOK(d)
    BY <1>0, <1>11, <2>1, SetAKept DEF Kept
  <2>3. MachineOK(AddA(d, 7, 4))
    BY <1>0, <2>2, AddAKept DEF Kept
  <2> QED BY <2>1, <2>3 DEF Unlinked
<1>13. ExecLink(c, ins) \in {Linked(p, ins), Unlinked(r, ins)}
  BY <1>1, <1>2, <1>5, <1>6, <1>8, <1>10 DEF ExecLink
<1> QED BY <1>4, <1>12, <1>13

LEMMA MixedType ==
  ASSUME NEW ins, InstructionOK(ins), ins.mn \in {"ORI", "ANDI", "EORI"}, NEW w \in Int
  PROVE  Mixed(ins, w) \in Int
<1>1. PICK op \in LogicOps :
        op = CASE ins.mn = "ORI" -> "OR" [] ins.mn = "ANDI" -> "AND" [] ins.mn = "EORI" -> "EOR"
  BY DEF LogicOps
<1>2. ins.imm \in Int
  BY InstructionFields
<1>3. Logic(op, w, ins.imm) \in Int
  BY <1>2, LogicType
<1> QED BY <1>1, <1>3 DEF Mixed

LEMMA UspKept ==
  ASSUME NEW c, MachineOK(c), NEW r \in 0 .. 7
  PROVE  MachineOK([c EXCEPT !.USP = c.A[r]]) /\ MachineOK(SetA(c, r, c.USP))
<1>1. PICK a \in Longs : a = c.A[r]
  BY RegisterType
<1>2. PICK d : d = [c EXCEPT !.USP = a]
  OBVIOUS
<1>3. MachineOK(d)
  BY <1>2 DEF MachineOK
<1>4. c.USP \in Longs
  BY DEF MachineOK
<1>5. c.USP \in Nat
  BY <1>4, LongsInt
<1>6. MachineOK(SetA(c, r, c.USP))
  <2>1. c.USP \in Int
    BY <1>5
  <2> QED BY <2>1, SetAKept DEF Kept
<1> QED BY <1>1, <1>2, <1>3, <1>6

LEMMA ExecStatusOK ==
  ASSUME NEW c, MachineOK(c), c.er = 1, NEW ins, InstructionOK(ins),
         ins.mn \in {"Scc", "MOVE_SR", "MOVE_CCR", "MOVE_USP", "ORI", "ANDI", "EORI"}
  PROVE  MachineOK(ExecStatus(c, ins))
<1>0. c.er <= 3 /\ ins.reg \in 0 .. 7 /\ EaOK(ins.ea) /\ "B" \in Sizes /\ "W" \in Sizes
  BY InstructionFields DEF Sizes
<1>1. SrOK(c.sr) /\ PackSR(c.sr) \in Int /\ PackCCR(c.sr) \in Int
  BY SrFields, PackType
<1>2. CASE ins.mn = "Scc"
  <2>1. 2^ByteBits \in Nat
    BY RadixType
  <2>2. PICK v \in Int : v = IF eval_cond(c.sr, ins.cc) THEN 2^ByteBits - 1 ELSE 0
    BY <2>1
  <2>3. MachineOK(write_ea(c, ins, ins.ea, "B", v))
    BY <1>0, WriteOK
  <2> QED BY <1>2, <2>2, <2>3 DEF ExecStatus
<1>3. CASE ins.mn \in {"MOVE_SR", "MOVE_CCR"}
  <2>1. PICK v \in Int : v = IF ins.mn = "MOVE_SR" THEN PackSR(c.sr) ELSE PackCCR(c.sr)
    BY <1>1
  <2>2. MachineOK(write_ea(c, ins, ins.ea, "W", v))
    BY <1>0, WriteOK
  <2>3. PICK r : r = read_ea(c, ins, "W")
    OBVIOUS
  <2>4. MachineOK(r) /\ r.val \in Int /\ Low(r.val, "W") \in Nat
    BY <1>0, <2>3, OperandOK
  <2>5. Low(r.val, "W") \in Int
    BY <2>4
  <2>6. SrOK(UnpackSR(Low(r.val, "W"))) /\ SrOK(WithCCR(r.sr, r.val))
    <3>1. SrOK(UnpackSR(Low(r.val, "W")))
      BY <2>5, UnpackType
    <3>2. SrOK(WithCCR(r.sr, r.val))
      BY <2>4, SrFields, WithCCRType
    <3> QED BY <3>1, <3>2
  <2>7. MachineOK(ToStatus(r, ins))
    <3>0. PICK s : s = UnpackSR(Low(r.val, "W"))
      OBVIOUS
    <3>3. Kept(r, m68k_set_sr(r, s))
      BY <2>4, <2>6, <3>0, SetStatusKept
    <3>1. MachineOK(m68k_set_sr(r, UnpackSR(Low(r.val, "W"))))
      BY <3>0, <3>3 DEF Kept
    <3>2. MachineOK(SetSR(r, WithCCR(r.sr, r.val)))
      BY <2>4, <2>6, SetSRKept DEF Kept
    <3> QED BY <3>1, <3>2 DEF ToStatus
  <2>8. ExecStatus(c, ins) = IF ins.toEa THEN write_ea(c, ins, ins.ea, "W", v) ELSE ToStatus(r, ins)
    BY <1>3, <2>1, <2>3 DEF ExecStatus
  <2> QED BY <2>2, <2>7, <2>8
<1>4. CASE ins.mn = "MOVE_USP"
  <2>1. ExecStatus(c, ins) = IF ins.load THEN SetA(c, ins.reg, c.USP) ELSE [c EXCEPT !.USP = c.A[ins.reg]]
    BY <1>4 DEF ExecStatus
  <2>2. MachineOK([c EXCEPT !.USP = c.A[ins.reg]]) /\ MachineOK(SetA(c, ins.reg, c.USP))
    <3>1. PICK r \in 0 .. 7 : r = ins.reg
      BY <1>0
    <3>2. MachineOK([c EXCEPT !.USP = c.A[r]]) /\ MachineOK(SetA(c, r, c.USP))
      BY UspKept
    <3> QED BY <3>1, <3>2
  <2> QED BY <2>1, <2>2
<1>5. CASE ins.mn \in {"ORI", "ANDI", "EORI"}
  <2>1. PICK x \in Int : x = Mixed(ins, PackSR(c.sr))
    BY <1>1, <1>5, MixedType
  <2>2. PICK y \in Int : y = Mixed(ins, PackCCR(c.sr))
    BY <1>1, <1>5, MixedType
  <2>3. MachineOK(m68k_set_sr(c, UnpackSR(x)))
    BY UnpackType, SetStatusKept DEF Kept
  <2>4. MachineOK(SetSR(c, WithCCR(c.sr, y)))
    BY <1>1, WithCCRType, SetSRKept DEF Kept
  <2>5. ExecStatus(c, ins) \in {m68k_set_sr(c, UnpackSR(x)), SetSR(c, WithCCR(c.sr, y))}
    BY <1>5, <2>1, <2>2 DEF ExecStatus
  <2> QED BY <2>3, <2>4, <2>5
<1> QED BY <1>2, <1>3, <1>4, <1>5

(***************************************************************************)
(* One instruction leaves the machine a machine: registers of 32 bits, a   *)
(* status register whose fields are in range, bytes in memory, whatever    *)
(* the instruction, the operand and the fault that cuts it short.          *)
(***************************************************************************)
THEOREM ExecOneKeepsMachine ==
  ASSUME NEW c, MachineOK(c), c.er = 1, NEW ins, InstructionOK(ins)
  PROVE  MachineOK(exec_one(c, ins))
<1>0. c.er <= 3
  OBVIOUS
<1>1. CASE ins.mn \in {"MOVE", "MOVEA", "MOVEQ", "LEA", "PEA", "TST", "CLR", "EXT", "SWAP", "EXG"}
  <2>1. exec_one(c, ins) = ExecMove(c, ins)
    BY <1>1, SMTT(60) DEF exec_one, Shifts, Rotates, ImmediateOp
  <2> QED BY <1>0, <1>1, <2>1, ExecMoveOK
<1>2. CASE ins.mn \in {"ADD", "SUB", "AND", "OR", "EOR", "CMP"}
  <2>1. exec_one(c, ins) = ExecAlu(c, ins)
    BY <1>2, SMTT(60) DEF exec_one, Shifts, Rotates, ImmediateOp
  <2> QED BY <1>0, <1>2, <2>1, ExecAluOK
<1>3. CASE ins.mn \in {"ADDA", "SUBA", "CMPA", "CMPM"}
  <2>1. exec_one(c, ins) = ExecAddress(c, ins)
    BY <1>3, SMTT(60) DEF exec_one, Shifts, Rotates, ImmediateOp
  <2> QED BY <1>0, <1>3, <2>1, ExecAddressOK
<1>4. CASE ins.mn \in {"ADDQ", "SUBQ"}
  <2>1. exec_one(c, ins) = ExecQuick(c, ins)
    BY <1>4, SMTT(60) DEF exec_one, Shifts, Rotates, ImmediateOp
  <2> QED BY <1>0, <1>4, <2>1, ExecQuickOK
<1>5. CASE ins.mn \in {"ORI", "ANDI", "EORI"} /\ ins.toSR
  <2>1. exec_one(c, ins) = ExecStatus(c, ins)
    BY <1>5, SMTT(60) DEF exec_one, Shifts, Rotates, ImmediateOp
  <2> QED BY <1>0, <1>5, <2>1, ExecStatusOK
<1>6. CASE ins.mn \in DOMAIN ImmediateOp \cup {"CMPI"} /\ ~ins.toSR
  <2>1. exec_one(c, ins) = ExecImmediate(c, ins)
    BY <1>6, SMTT(60) DEF exec_one, Shifts, Rotates, ImmediateOp
  <2> QED BY <1>0, <1>6, <2>1, ExecImmediateOK
<1>7. CASE ins.mn \in {"NOP", "RESET", "BRA", "Bcc", "BSR", "DBcc", "JMP", "JSR", "RTS", "RTR", "RTE",
                       "TRAP", "STOP"}
  <2>1. exec_one(c, ins) = ExecBranch(c, ins)
    BY <1>7, SMTT(60) DEF exec_one, Shifts, Rotates, ImmediateOp
  <2> QED BY <1>0, <1>7, <2>1, ExecBranchOK
<1>8. CASE ins.mn \in Shifts
  <2>1. exec_one(c, ins) = IF ins.memshift THEN do_mem_shift(c, ins) ELSE do_shift(c, ins)
    BY <1>8, SMTT(60) DEF exec_one, Shifts, Rotates, ImmediateOp
  <2>2. MachineOK(do_mem_shift(c, ins)) /\ MachineOK(do_shift(c, ins))
    BY <1>0, <1>8, DoMemShiftKept, DoShiftKept DEF Kept
  <2> QED BY <2>1, <2>2
<1>9. CASE ins.mn \in {"BTST", "BCHG", "BCLR", "BSET"}
  <2>1. exec_one(c, ins) = ExecBit(c, ins)
    BY <1>9, SMTT(60) DEF exec_one, Shifts, Rotates, ImmediateOp
  <2> QED BY <1>0, <1>9, <2>1, ExecBitOK
<1>10. CASE ins.mn \in {"NEG", "NEGX", "NOT", "TAS"}
  <2>1. exec_one(c, ins) = ExecUnary(c, ins)
    BY <1>10, SMTT(60) DEF exec_one, Shifts, Rotates, ImmediateOp
  <2> QED BY <1>0, <1>10, <2>1, ExecUnaryOK
<1>11. CASE ins.mn \in {"MULU", "MULS", "DIVU", "DIVS"}
  <2>1. exec_one(c, ins) = ExecMulDiv(c, ins)
    BY <1>11, SMTT(60) DEF exec_one, Shifts, Rotates, ImmediateOp
  <2> QED BY <1>0, <1>11, <2>1, ExecMulDivOK
<1>12. CASE ins.mn = "MOVEM"
  <2>1. exec_one(c, ins) = do_movem(c, ins)
    BY <1>12, SMTT(60) DEF exec_one, Shifts, Rotates, ImmediateOp
  <2> QED BY <1>0, <1>12, <2>1, MovemOK
<1>13. CASE ins.mn \in {"LINK", "UNLK"}
  <2>1. exec_one(c, ins) = ExecLink(c, ins)
    BY <1>13, SMTT(60) DEF exec_one, Shifts, Rotates, ImmediateOp
  <2> QED BY <1>0, <1>13, <2>1, ExecLinkOK
<1>14. CASE ins.mn \in {"Scc", "MOVE_SR", "MOVE_CCR", "MOVE_USP"}
  <2>1. exec_one(c, ins) = ExecStatus(c, ins)
    BY <1>14, SMTT(60) DEF exec_one, Shifts, Rotates, ImmediateOp
  <2> QED BY <1>0, <1>14, <2>1, ExecStatusOK
<1>15. CASE ins.mn \in {"ADDX", "SUBX"}
  <2>1. exec_one(c, ins) = do_addx_subx(c, ins, ins.mn = "ADDX")
    BY <1>15, SMTT(60) DEF exec_one, Shifts, Rotates, ImmediateOp
  <2> QED BY <1>0, <1>15, <2>1, AddxKept DEF Kept
<1>16. CASE ins.mn \in {"ABCD", "SBCD"}
  <2>1. exec_one(c, ins) = do_bcd(c, ins)
    BY <1>16, SMTT(60) DEF exec_one, Shifts, Rotates, ImmediateOp
  <2> QED BY <1>0, <1>16, <2>1, BcdKept DEF Kept
<1>17. CASE ins.mn = "NBCD"
  <2>1. exec_one(c, ins) = do_nbcd(c, ins)
    BY <1>17, SMTT(60) DEF exec_one, Shifts, Rotates, ImmediateOp
  <2> QED BY <1>0, <1>17, <2>1, NbcdKept
<1> DEFINE known == \/ ins.mn \in {"MOVE", "MOVEA", "MOVEQ", "LEA", "PEA", "TST", "CLR", "EXT", "SWAP", "EXG"}
                    \/ ins.mn \in {"ADD", "SUB", "AND", "OR", "EOR", "CMP"}
                    \/ ins.mn \in {"ADDA", "SUBA", "CMPA", "CMPM"}
                    \/ ins.mn \in {"ADDQ", "SUBQ"}
                    \/ ins.mn \in {"ORI", "ANDI", "EORI"} /\ ins.toSR
                    \/ ins.mn \in DOMAIN ImmediateOp \cup {"CMPI"} /\ ~ins.toSR
                    \/ ins.mn \in {"NOP", "RESET", "BRA", "Bcc", "BSR", "DBcc", "JMP", "JSR", "RTS", "RTR", "RTE",
                        "TRAP", "STOP"}
                    \/ ins.mn \in Shifts
                    \/ ins.mn \in {"BTST", "BCHG", "BCLR", "BSET"}
                    \/ ins.mn \in {"NEG", "NEGX", "NOT", "TAS"}
                    \/ ins.mn \in {"MULU", "MULS", "DIVU", "DIVS"}
                    \/ ins.mn = "MOVEM"
                    \/ ins.mn \in {"LINK", "UNLK"}
                    \/ ins.mn \in {"Scc", "MOVE_SR", "MOVE_CCR", "MOVE_USP"}
                    \/ ins.mn \in {"ADDX", "SUBX"}
                    \/ ins.mn \in {"ABCD", "SBCD"}
                    \/ ins.mn = "NBCD"
<1>18. CASE known
  BY <1>18, <1>1, <1>2, <1>3, <1>4, <1>5, <1>6, <1>7, <1>8, <1>9, <1>10, <1>11, <1>12, <1>13, <1>14, <1>15, <1>16, <1>17
<1>19. CASE ~known
  <2>1. exec_one(c, ins) = [c EXCEPT !.unimpl = TRUE]
    BY <1>19, ZenonT(60) DEF exec_one
  <2> QED BY <2>1, IllegalKept DEF Kept
<1> QED BY <1>18, <1>19

(***************************************************************************)
(* The cost of an instruction.                                             *)
(***************************************************************************)
LEMMA EaCostType ==
  ASSUME NEW ea, EaOK(ea), NEW sz
  PROVE  EaCost(ea, sz) \in Nat
<1>1. ea.mode = 7 => <<8, 12, 11, 14, 4>>[ea.reg + 1] \in Nat
  <2>1. ASSUME ea.mode = 7 PROVE ea.reg \in {0, 1, 2, 3, 4}
    BY <2>1 DEF EaOK
  <2> QED BY <2>1
<1>2. ea.mode \in 0 .. 7
  BY DEF EaOK
<1> QED BY <1>1, <1>2 DEF EaCost

LEMMA CyclesType ==
  ASSUME NEW c, MachineOK(c), NEW ins, InstructionOK(ins)
  PROVE  m68k_cycles(c, ins) \in Int
<1>1. /\ EaCost(ins.ea, ins.sz) \in Nat /\ EaCost(ins.ea, "W") \in Nat /\ EaCost(ins.ea, "B") \in Nat
      /\ EaCost(ins.ea, "L") \in Nat /\ EaCost(ins.dst, ins.sz) \in Nat
  BY InstructionFields, EaCostType
<1>2. c.D[ins.creg] % CountMask \in Nat /\ ins.imm \in Nat
  <2>1. ins.creg \in 0 .. 7 /\ ins.imm \in Nat
    BY DEF InstructionOK
  <2>2. CountMask \in Nat \ {0}
    BY Widths DEF CountMask, Sizes
  <2>3. PICK w \in Nat \ {0} : w = CountMask
    BY <2>2
  <2>4. PICK v \in Nat : v = c.D[ins.creg]
    BY <2>1, RegisterType
  <2>5. v % w \in 0 .. w - 1
    BY CountRange
  <2> QED BY <2>1, <2>3, <2>4, <2>5
<1>3. Cardinality(ins.mask) \in Nat
  <2>1. IsFiniteSet(0 .. 15)
    <3>1. 0 \in Int /\ 15 \in Int
      OBVIOUS
    <3> QED BY <3>1, FS_Interval
  <2>2. ins.mask \subseteq 0 .. 15
    BY DEF InstructionOK
  <2>3. IsFiniteSet(ins.mask)
    BY <2>1, <2>2, FS_Subset
  <2> QED BY <2>3, FS_CardinalityType
<1>4. \A mn \in DOMAIN Fixed : Fixed[mn] \in Int
  BY DEF Fixed
<1>5. Cardinality(ins.mask) * 11 \in Int /\ Cardinality(ins.mask) * 7 \in Int
  BY <1>3
<1>6. CASE ins.mn \in DOMAIN Fixed
  BY <1>1, <1>2, <1>3, <1>4, <1>5, <1>6, SMTT(40), ZenonT(40) DEF m68k_cycles
<1>7. CASE ins.mn = "MOVEM"
  BY <1>1, <1>2, <1>3, <1>4, <1>5, <1>7, SMTT(40), ZenonT(40) DEF m68k_cycles
<1>8. CASE ins.mn \in Shifts
  BY <1>1, <1>2, <1>3, <1>4, <1>5, <1>8, SMTT(40), ZenonT(40) DEF m68k_cycles
<1>9. CASE ins.mn \notin DOMAIN Fixed /\ ins.mn # "MOVEM" /\ ins.mn \notin Shifts
  BY <1>1, <1>9, SMTT(60), ZenonT(60) DEF m68k_cycles
<1> QED BY <1>6, <1>7, <1>8, <1>9

(***************************************************************************)
(* The loop.                                                               *)
(***************************************************************************)
Statuses == {"RUN", "OK", "REENTER", "BADADDR", "UNIMPL", "GUARD", "BUS", "ABORT"}

\* The inductive invariant: the machine is one, the loop goes on only with a
\* machine that nothing has cut short, and the device time adds up.
InterpInv ==
  /\ MachineOK(cpu) /\ pc \in Longs /\ status \in Statuses
  /\ count \in 0 .. Guard + 1 /\ (status = "RUN" => count <= Guard)
  /\ (status # "ABORT" => ~cpu.fault) /\ (status = "RUN" => ~cpu.halted)
  /\ acc \in Int /\ ticked \in Int /\ charged \in Int
  /\ TimeConserved

LEMMA NextPcType == ASSUME NEW a \in Int PROVE NextPc(a) \in Longs /\ NextPc(a) \in Nat
<1>1. 3 * ByteBits \in Nat /\ ByteBits \in Nat /\ 3 * ByteBits + ByteBits = 4 * ByteBits
  BY InterpAssumption
<1>2. PICK w \in Nat \ {0} : w = 2^(3 * ByteBits)
  BY <1>1, PowerNat
<1>3. a % w \in 0 .. w - 1
  BY RemainderDef
<1>4. PICK b \in Nat \ {0} : b = 2^ByteBits
  BY <1>1, PowerNat
<1>5. 2^Bits["L"] = w * b
  <2>1. 2^(3 * ByteBits + ByteBits) = w * b
    BY <1>1, <1>2, <1>4, PowerAdd
  <2> QED BY <1>1, <2>1 DEF Bits
<1>6. w * b >= w /\ w * b \in Nat
  OBVIOUS
<1>7. a % w \in Nat /\ a % w \in 0 .. w * b - 1
  BY <1>3, <1>6
<1> QED BY <1>2, <1>5, <1>7 DEF NextPc, Longs

\* An exception that is built without a fault goes to its handler.
LEMMA ExceptionGoes ==
  ASSUME NEW c, NEW vec, NEW to, NEW f, f = build_exception_frame(c, vec, to), MachineOK(f), ~f.fault
  PROVE  f.next = Handler[vec]
<1>1. PICK x : f = GoTo(x, Handler[vec])
  BY DEF build_exception_frame
<1>2. CASE x.fault
  BY <1>1, <1>2 DEF GoTo, Then
<1>3. CASE ~x.fault
  <2>1. f = [x EXCEPT !.next = Handler[vec]]
    BY <1>1, <1>3 DEF GoTo, Then
  <2>2. "next" \in DOMAIN f /\ DOMAIN f = DOMAIN x
    BY <2>1 DEF MachineOK
  <2> QED BY <2>1, <2>2
<1> QED BY <1>2, <1>3

LEMMA InterpInit == Init => InterpInv
<1> SUFFICES ASSUME Init PROVE InterpInv
  OBVIOUS
<1>1. MachineOK(cpu) /\ ~cpu.fault /\ ~cpu.halted
  BY InterpAssumption DEF Init
<1>2. EntryPc \in Longs /\ Guard \in Nat
  BY InterpAssumption
<1> QED BY <1>1, <1>2 DEF Init, InterpInv, Statuses, TimeConserved

LEMMA EnteredOK ==
  ASSUME InterpInv, NEW ins \in Instructions
  PROVE  MachineOK(Entered(ins)) /\ Entered(ins).er = 1 /\ InstructionOK(Fetched(ins))
         /\ NextPc(pc + ins.len) \in Nat /\ InstructionOK(ins)
<1>1. InstructionOK(ins)
  BY InterpAssumption
<1>2. pc \in Nat /\ MachineOK(cpu)
  BY LongsInt DEF InterpInv
<1>3. ins.len \in Nat
  BY <1>1 DEF InstructionOK
<1>4. PICK n \in Nat : n = NextPc(pc + ins.len)
  <2>1. pc + ins.len \in Int
    BY <1>2, <1>3
  <2> QED BY <2>1, NextPcType
<1>5. PICK d : d = [cpu EXCEPT !.next = n, !.er = 1]
  OBVIOUS
<1>6. MachineOK(d) /\ d.er = 1
  BY <1>2, <1>5 DEF MachineOK
<1>7. PICK i : i = [ins EXCEPT !.addr = pc]
  OBVIOUS
<1>8. InstructionOK(i)
  BY <1>1, <1>2, <1>7 DEF InstructionOK
<1> QED BY <1>1, <1>4, <1>5, <1>6, <1>7, <1>8 DEF Entered, Fetched

LEMMA CountedOK ==
  ASSUME InterpInv, NEW c, Counted(c), status = "RUN"
  PROVE  /\ count' \in 0 .. Guard + 1 /\ status' \in {"RUN", "OK", "GUARD"}
         /\ (status' = "RUN" => count' <= Guard) /\ (status' = "RUN" => ~c.halted)
<1>1. Guard \in Nat /\ count \in Nat /\ count <= Guard
  BY InterpAssumption DEF InterpInv
<1> QED BY <1>1 DEF Counted

LEMMA TimeKept ==
  ASSUME InterpInv, NEW n \in Int, Tick(n) \/ runtime_defer_exception_cycles(n)
  PROVE  acc' \in Int /\ ticked' \in Int /\ charged' \in Int /\ TimeConserved'
BY DEF InterpInv, Tick, runtime_defer_exception_cycles, TimeConserved

\* An access that faults outside the interpreter's pad: one more frame, or the end.
LEMMA RecompBusErrorOK ==
  ASSUME InterpInv, status = "RUN", NEW e, MachineOK(e), NEW n \in Int,
         recomp_bus_error(build_exception_frame(e, 2, n))
  PROVE  InterpInv'
<1>1. 2 \in Nat /\ 2 \in DOMAIN Handler
  BY InterpAssumption
<1>2. PICK g : g = build_exception_frame(e, 2, n)
  OBVIOUS
<1>3. MachineOK(g)
  BY <1>1, <1>2, ExceptionKept DEF Kept
<1>4. recomp_bus_error(g)
  BY <1>2
<1>5. CASE /\ ~g.fault
           /\ cpu' = g /\ pc' = g.next /\ status' = "BUS"
           /\ runtime_defer_exception_cycles(158)
           /\ UNCHANGED count
  <2>1. g.next = Handler[2]
    BY <1>2, <1>3, <1>5, ExceptionGoes
  <2>2. pc' \in Longs
    BY <1>1, <1>5, <2>1, HandlerType
  <2>3. acc' \in Int /\ ticked' \in Int /\ charged' \in Int /\ TimeConserved'
    BY <1>5, TimeKept
  <2> QED BY <1>3, <1>5, <2>2, <2>3 DEF InterpInv, Statuses
<1>6. CASE /\ g.fault
           /\ cpu' = g /\ status' = "ABORT"
           /\ UNCHANGED <<pc, count, acc, ticked, charged>>
  BY <1>3, <1>6 DEF InterpInv, Statuses, TimeConserved
<1> QED BY <1>4, <1>5, <1>6 DEF recomp_bus_error

LEMMA LengthsNat == Lengths \subseteq Nat
<1>1. \A i \in Instructions : i.len \in Nat
  BY InterpAssumption DEF InstructionOK
<1> QED BY <1>1 DEF Lengths

LEMMA InterpNext == InterpInv /\ [Next]_vars => InterpInv'
<1> SUFFICES ASSUME InterpInv, [Next]_vars PROVE InterpInv'
  OBVIOUS
<1>1. CASE UNCHANGED vars
  BY <1>1 DEF InterpInv, vars, TimeConserved
<1>2. CASE Return
  <2>1. status' \in Statuses /\ status' # "RUN" /\ status' # "ABORT" /\ status # "ABORT"
    BY <1>2 DEF Return, Leave, Statuses
  <2>2. cpu' = cpu /\ pc' = pc /\ count' = count /\ acc' = acc /\ ticked' = ticked /\ charged' = charged
    BY <1>2 DEF Return
  <2> QED BY <2>1, <2>2 DEF InterpInv, TimeConserved
<1>3. ASSUME NEW ins \in Instructions, Execute(ins) PROVE InterpInv'
  <2>1. status = "RUN"
    BY <1>3 DEF Execute
  <2>2. PICK c : c = Entered(ins)
    OBVIOUS
  <2>3. PICK i : i = Fetched(ins)
    OBVIOUS
  <2>4. MachineOK(c) /\ c.er = 1 /\ InstructionOK(i) /\ InstructionOK(ins)
    BY <2>2, <2>3, EnteredOK
  <2>5. PICK cost \in Int : cost = m68k_cycles(cpu, ins)
    BY <2>4, CyclesType DEF InterpInv
  <2>11. CASE CostFaults(ins)
    <3>1. recomp_bus_error(build_exception_frame(cpu, 2, NextPc(pc + ins.len)))
      BY <1>3, <2>11 DEF Execute
    <3>2. PICK n \in Int : n = NextPc(pc + ins.len)
      BY EnteredOK
    <3>3. MachineOK(cpu)
      BY DEF InterpInv
    <3> QED BY <2>1, <3>1, <3>2, <3>3, RecompBusErrorOK
  <2> SUFFICES ASSUME ~CostFaults(ins) PROVE InterpInv'
    BY <2>11
  <2>6. PICK d : d = exec_one(c, i) /\ InterpStep(ins, d, cost)
    BY <1>3, <2>2, <2>3, <2>5 DEF Execute
  <2>7. MachineOK(d)
    BY <2>4, <2>6, ExecOneKeepsMachine
  <2>8. CASE /\ ~d.fault /\ (d.unimpl \/ d.illegal)
             /\ cpu' = d /\ status' = "UNIMPL"
             /\ UNCHANGED <<pc, count, acc, ticked, charged>>
    BY <2>7, <2>8 DEF InterpInv, Statuses, TimeConserved
  <2>9. CASE /\ ~d.fault /\ ~d.unimpl /\ ~d.illegal
             /\ cpu' = d /\ pc' = NextPc(d.next)
             /\ IF ins.mn = "TRAP" THEN runtime_defer_exception_cycles(cost) ELSE Tick(cost)
             /\ Counted(d)
    <3>1. pc' \in Longs
      BY <2>7, <2>9, ValType, NextPcType
    <3>2. acc' \in Int /\ ticked' \in Int /\ charged' \in Int /\ TimeConserved'
      BY <2>9, TimeKept
    <3>3. /\ count' \in 0 .. Guard + 1 /\ status' \in {"RUN", "OK", "GUARD"}
          /\ (status' = "RUN" => count' <= Guard) /\ (status' = "RUN" => ~d.halted)
      BY <2>1, <2>9, CountedOK
    <3> QED BY <2>7, <2>9, <3>1, <3>2, <3>3 DEF InterpInv, Statuses
  <2>10. CASE d.fault /\ BusError(build_exception_frame([d EXCEPT !.fault = FALSE], 2, NextPc(pc + ins.len)),
                                 NextPc(pc + ins.len))
    <3>1. PICK e : e = [d EXCEPT !.fault = FALSE]
      OBVIOUS
    <3>2. MachineOK(e)
      BY <2>7, <3>1 DEF MachineOK
    <3>3. PICK n \in Nat : n = NextPc(pc + ins.len)
      BY EnteredOK
    <3>4. PICK f : f = build_exception_frame(e, 2, n)
      OBVIOUS
    <3>5. MachineOK(f)
      <4>1. 2 \in Nat /\ 2 \in DOMAIN Handler /\ n \in Int
        BY InterpAssumption
      <4> QED BY <3>2, <3>4, <4>1, ExceptionKept DEF Kept
    <3>6. BusError(f, n)
      BY <2>10, <3>1, <3>3, <3>4
    <3>7. CASE /\ ~f.fault
               /\ cpu' = f /\ pc' = f.next
               /\ runtime_defer_exception_cycles(158)
               /\ Counted(f)
      <4>1. pc' \in Longs
        <5>1. f.next = Handler[2]
          BY <3>4, <3>5, <3>7, ExceptionGoes
        <5>2. 2 \in DOMAIN Handler
          BY InterpAssumption
        <5> QED BY <3>7, <5>1, <5>2, HandlerType
      <4>2. acc' \in Int /\ ticked' \in Int /\ charged' \in Int /\ TimeConserved'
        BY <3>7, TimeKept
      <4>3. /\ count' \in 0 .. Guard + 1 /\ status' \in {"RUN", "OK", "GUARD"}
            /\ (status' = "RUN" => count' <= Guard) /\ (status' = "RUN" => ~f.halted)
        BY <2>1, <3>7, CountedOK
      <4> QED BY <3>5, <3>7, <4>1, <4>2, <4>3 DEF InterpInv, Statuses
    <3>8. CASE \E len \in Lengths :
                  recomp_bus_error(build_exception_frame([f EXCEPT !.fault = FALSE], 2, NextPc(n + len)))
      <4>1. PICK len \in Lengths :
              recomp_bus_error(build_exception_frame([f EXCEPT !.fault = FALSE], 2, NextPc(n + len)))
        BY <3>8
      <4>2. n + len \in Int
        BY LengthsNat
      <4>3. PICK to \in Int : to = NextPc(n + len)
        BY <4>2, NextPcType
      <4>4. PICK g : g = [f EXCEPT !.fault = FALSE]
        OBVIOUS
      <4>5. MachineOK(g)
        BY <3>5, <4>4 DEF MachineOK
      <4> QED BY <2>1, <4>1, <4>3, <4>4, <4>5, RecompBusErrorOK
    <3> QED BY <3>6, <3>7, <3>8 DEF BusError
  <2> QED BY <2>6, <2>8, <2>9, <2>10 DEF InterpStep
<1> QED BY <1>1, <1>2, <1>3 DEF Next

\* The loop keeps the machine a machine: the registers are 32-bit numbers, the
\* status register's fields are in range and memory holds bytes in every state
\* that m68k_interp_run_until_known reaches, and it goes on only with a machine
\* that no bus error has cut short and no STOP has halted.
THEOREM InterpInvariant == Spec => []InterpInv
<1>1. Init => InterpInv
  BY InterpInit
<1>2. InterpInv /\ [Next]_vars => InterpInv'
  BY InterpNext
<1> QED BY <1>1, <1>2, PTL DEF Spec

\* Device time is conserved: what mcd212_tick has been given and what
\* runtime_defer_exception_cycles holds back add up to the cost of every
\* instruction and exception, whatever the program.
THEOREM TimeIsConserved == Spec => []TimeConserved
<1>1. InterpInv => TimeConserved
  BY DEF InterpInv
<1> QED BY <1>1, InterpInvariant, PTL

(***************************************************************************)
(* The numbers of a size: h is the half, what Low, Msb and Signed are.     *)
(***************************************************************************)
LEMMA HalfOf ==
  ASSUME NEW sz \in Sizes, NEW h, h = 2^(Bits[sz] - 1)
  PROVE  h \in Nat \ {0} /\ 2^Bits[sz] = 2 * h /\ 2 * h \in Nat \ {0}
<1>1. h \in Nat \ {0} /\ 2^Bits[sz] = 2 * h
  BY Widths
<1> QED BY <1>1

LEMMA LowWraps ==
  ASSUME NEW sz \in Sizes, NEW h, h = 2^(Bits[sz] - 1), NEW v \in Int, -(2 * h) <= v, v < 4 * h
  PROVE  Low(v, sz) = IF v < 0 THEN v + 2 * h ELSE IF v < 2 * h THEN v ELSE v - 2 * h
<1>1. h \in Nat \ {0} /\ 2^Bits[sz] = 2 * h
  BY HalfOf
<1>2. PICK w \in Nat \ {0} : w = 2 * h
  BY <1>1
<1>3. -w <= v /\ v < 2 * w
  BY <1>1, <1>2
<1>4. v % w = IF v < 0 THEN v + w ELSE IF v < w THEN v ELSE v - w
  BY <1>3, RemainderWraps
<1> QED BY <1>1, <1>2, <1>4 DEF Low

\* A number's low part, and the sign of it.
LEMMA LowParts ==
  ASSUME NEW sz \in Sizes, NEW h, h = 2^(Bits[sz] - 1), NEW v \in Int, NEW r, r = Low(v, sz)
  PROVE  /\ r \in 0 .. 2 * h - 1 /\ Low(r, sz) = r
         /\ Msb(v, sz) = (IF r >= h THEN 1 ELSE 0) /\ Msb(r, sz) = (IF r >= h THEN 1 ELSE 0)
         /\ Signed(v, sz) = (IF r >= h THEN r - 2 * h ELSE r)
         /\ Signed(r, sz) = (IF r >= h THEN r - 2 * h ELSE r)
<1>1. h \in Nat \ {0} /\ 2^Bits[sz] = 2 * h
  BY HalfOf
<1>2. r \in 0 .. 2 * h - 1
  BY <1>1, LowType
<1>3. Low(r, sz) = r
  <2>1. r \in Int /\ -(2 * h) <= r /\ r < 4 * h /\ 0 <= r /\ r < 2 * h
    BY <1>1, <1>2
  <2> QED BY <2>1, LowWraps
<1>4. r \div h = IF r >= h THEN 1 ELSE 0
  <2>0. r \in Int
    BY <1>1, <1>2
  <2>1. PICK q \in Int : q = r \div h
    BY <1>1, <2>0, RemainderDef, ZenonT(40)
  <2>2. r \div h \in 0 .. 2 - 1 /\ r % h \in 0 .. h - 1 /\ r = h * (r \div h) + (r % h)
    <3>1. 2 \in Nat \ {0} /\ r \in 0 .. h * 2 - 1
      BY <1>1, <1>2
    <3> QED BY <1>1, <3>1, QuotientRange
  <2>3. PICK s \in 0 .. h - 1 : s = r % h
    BY <2>2
  <2>4. q \in {0, 1}
    BY <2>1, <2>2
  <2>5. r = h * q + s
    BY <2>1, <2>2, <2>3
  <2>6. CASE q = 0
    <3>1. r = s
      BY <1>1, <2>3, <2>5, <2>6
    <3> QED BY <1>1, <2>1, <2>3, <2>6, <3>1, SMTT(40)
  <2>7. CASE q = 1
    <3>1. r = h + s
      BY <1>1, <2>3, <2>5, <2>7
    <3> QED BY <1>1, <2>1, <2>3, <2>7, <3>1, SMTT(40)
  <2> QED BY <2>4, <2>6, <2>7
<1>5. Msb(v, sz) = (IF r >= h THEN 1 ELSE 0)
  BY <1>4 DEF Msb
<1>6. Msb(r, sz) = (IF r >= h THEN 1 ELSE 0)
  BY <1>3, <1>4 DEF Msb
<1>7. Signed(v, sz) = (IF r >= h THEN r - 2 * h ELSE r)
  BY <1>1, <1>2, <1>5 DEF Signed
<1>8. Signed(r, sz) = (IF r >= h THEN r - 2 * h ELSE r)
  BY <1>1, <1>2, <1>3, <1>6 DEF Signed
<1> QED BY <1>2, <1>3, <1>5, <1>6, <1>7, <1>8

\* ... of one that is less than a whole away.
LEMMA NearParts ==
  ASSUME NEW sz \in Sizes, NEW h, h = 2^(Bits[sz] - 1), NEW v \in Int, -(2 * h) <= v, v < 4 * h
  PROVE  \E r \in 0 .. 2 * h - 1 :
           /\ r = (IF v < 0 THEN v + 2 * h ELSE IF v < 2 * h THEN v ELSE v - 2 * h)
           /\ Low(v, sz) = r /\ Msb(v, sz) = (IF r >= h THEN 1 ELSE 0)
<1>1. PICK r : r = Low(v, sz)
  OBVIOUS
<1>2. r \in 0 .. 2 * h - 1 /\ Msb(v, sz) = (IF r >= h THEN 1 ELSE 0)
  BY <1>1, LowParts
<1>3. r = (IF v < 0 THEN v + 2 * h ELSE IF v < 2 * h THEN v ELSE v - 2 * h)
  BY <1>1, LowWraps
<1> QED BY <1>1, <1>2, <1>3

(***************************************************************************)
(* The instructions that the properties name.                              *)
(***************************************************************************)
\* mn.sz D0,D1 as the properties run it: the operands are in the registers.
LoadedWith(m, c, a, b) ==
  MachineOK(m) /\ ~m.fault /\ m.sr = c.sr /\ m.er = c.er /\ m.D[1] = a /\ m.D[0] = b
RegisterForm(ins, mn, sz) ==
  /\ ins.mn = mn /\ ins.sz = sz /\ ins.reg = 1
  /\ ins.ea.mode = 0 /\ ins.ea.reg = (IF mn \in Unary THEN 1 ELSE 0)
  /\ ~ins.toEa /\ ~ins.bycount /\ ~ins.predec /\ ~ins.load /\ ~ins.memshift /\ ~ins.toSR
Prepared(c, mn, sz, a, b, m, ins) ==
  Run(c, mn, sz, a, b) = exec_one(m, ins) /\ LoadedWith(m, c, a, b) /\ RegisterForm(ins, mn, sz)

LEMMA RunIs ==
  ASSUME NEW c, MachineOK(c), ~c.fault, NEW mn, NEW sz \in Sizes, NEW a \in Longs, NEW b \in Longs
  PROVE  \E m, ins : Prepared(c, mn, sz, a, b, m, ins)
<1>0. PICK k \in {0, 1} : k = IF mn \in Unary THEN 1 ELSE 0
  OBVIOUS
<1>1. PICK x : x = [c.D EXCEPT ![1] = a]
  OBVIOUS
<1>2. PICK y : y = [x EXCEPT ![0] = b]
  OBVIOUS
<1>3. y \in [0 .. 7 -> Longs] /\ y[1] = a /\ y[0] = b
  BY <1>1, <1>2 DEF MachineOK
<1>4. PICK m : m = [c EXCEPT !.D = y]
  OBVIOUS
<1>5. MachineOK(m) /\ ~m.fault /\ m.sr = c.sr /\ m.D[1] = a /\ m.D[0] = b /\ m.er = c.er
  BY <1>3, <1>4 DEF MachineOK
<1>6. [c EXCEPT !.D[1] = a, !.D[0] = b] = m
  BY <1>1, <1>2, <1>4 DEF MachineOK
<1>7. /\ InstructionOK(Plain) /\ ~Plain.toEa /\ ~Plain.bycount /\ ~Plain.predec /\ ~Plain.load
      /\ ~Plain.memshift /\ ~Plain.toSR
  BY InterpAssumption
<1>8. PICK ins : ins = [Decoded(mn, sz) EXCEPT !.ea = EA(0, k)]
  OBVIOUS
<1>9. /\ ins.mn = mn /\ ins.sz = sz /\ ins.ea = EA(0, k) /\ ins.reg = 1
      /\ ~ins.toEa /\ ~ins.bycount /\ ~ins.predec /\ ~ins.load /\ ~ins.memshift /\ ~ins.toSR
  BY <1>7, <1>8 DEF InstructionOK, Decoded
<1>10. ins.ea.mode = 0 /\ ins.ea.reg = k
  BY <1>9 DEF EA
<1>11. Run(c, mn, sz, a, b) = exec_one(m, ins)
  BY <1>0, <1>6, <1>8 DEF Run
<1>12. LoadedWith(m, c, a, b)
  BY <1>5 DEF LoadedWith
<1>13. RegisterForm(ins, mn, sz)
  BY <1>0, <1>9, <1>10 DEF RegisterForm
<1>14. Prepared(c, mn, sz, a, b, m, ins)
  BY <1>11, <1>12, <1>13 DEF Prepared
<1> QED BY <1>14

LEMMA ReadRegister ==
  ASSUME NEW c, NEW ins, NEW ea, ea.mode = 0, NEW sz, NEW rmw
  PROVE  read_ea_ex(c, ins, ea, sz, rmw) = Val(c, c.D[ea.reg])
<1>1. ea # EA(7, 4)
  BY DEF EA
<1> QED BY <1>1 DEF read_ea_ex

LEMMA ValIs ==
  ASSUME NEW c, MachineOK(c), ~c.fault, NEW v \in Int, NEW d, d = Val(c, v)
  PROVE  MachineOK(d) /\ ~d.fault /\ d.val = v /\ d.D = c.D /\ d.A = c.A /\ d.sr = c.sr /\ d.er = c.er
<1>1. d = [c EXCEPT !.val = v]
  BY DEF Val, Then
<1> QED BY <1>1 DEF MachineOK

LoadedVal(c, v, d) ==
  MachineOK(d) /\ ~d.fault /\ d.val = v /\ d.D = c.D /\ d.A = c.A /\ d.sr = c.sr /\ d.er = c.er

LEMMA ValLoads ==
  ASSUME NEW c, MachineOK(c), ~c.fault, NEW v \in Int
  PROVE  LoadedVal(c, v, Val(c, v))
<1>1. PICK d : d = Val(c, v)
  OBVIOUS
<1> QED BY <1>1, ValIs DEF LoadedVal

LEMMA SetSRIs ==
  ASSUME NEW c, MachineOK(c), ~c.fault, NEW s, SrOK(s), NEW d, d = SetSR(c, s)
  PROVE  MachineOK(d) /\ ~d.fault /\ d.sr = s /\ d.D = c.D /\ d.A = c.A /\ d.val = c.val /\ d.er = c.er
<1>1. d = [c EXCEPT !.sr = s]
  BY DEF SetSR, Then
<1> QED BY <1>1 DEF MachineOK

\* A long is a whole number of each size.
LEMMA SizeDivides ==
  ASSUME NEW sz \in Sizes
  PROVE  \E m \in Nat \ {0} : 2^Bits["L"] = 2^Bits[sz] * m
<1>1. PICK n \in Nat : n = Bits["L"] - Bits[sz]
  BY InterpAssumption DEF Bits, Sizes
<1>2. Bits[sz] \in Nat /\ Bits["L"] = Bits[sz] + n
  BY <1>1, Widths DEF Sizes
<1>3. 2^(Bits[sz] + n) = 2^Bits[sz] * 2^n
  BY <1>2, PowerAdd
<1>4. 2^n \in Nat \ {0}
  BY PowerNat
<1> QED BY <1>2, <1>3, <1>4

LEMMA LongLow ==
  ASSUME NEW x \in Longs
  PROVE  Low(x, "L") = x
<1>1. PICK w \in Nat \ {0} : w = 2^Bits["L"]
  BY Widths DEF Sizes
<1>2. x \in 0 .. w - 1 /\ x \in Int /\ x = w * 0 + x /\ 0 \in Int
  BY <1>1 DEF Longs
<1>3. x % w = x
  BY <1>2, RemainderUnique
<1> QED BY <1>1, <1>3 DEF Low

\* The low part of a register replaced: still a long, the upper bits stay.
LEMMA Replaced ==
  ASSUME NEW x \in Longs, NEW v \in Int, NEW sz \in Sizes, NEW y, y = x - Low(x, sz) + Low(v, sz)
  PROVE  y \in Longs /\ Low(y, sz) = Low(v, sz) /\ y - Low(y, sz) = x - Low(x, sz)
<1>1. PICK w \in Nat \ {0} : w = 2^Bits[sz]
  BY Widths
<1>2. PICK m \in Nat \ {0} : 2^Bits["L"] = w * m
  BY <1>1, SizeDivides
<1>3. x \in 0 .. w * m - 1 /\ x \in Int
  BY <1>2 DEF Longs
<1>4. PICK q \in 0 .. m - 1 : q = x \div w
  BY <1>3, QuotientRange
<1>5. PICK r \in 0 .. w - 1 : r = x % w
  BY <1>3, QuotientRange
<1>6. x = w * q + r
  BY <1>3, <1>4, <1>5, QuotientRange
<1>7. PICK l \in 0 .. w - 1 : l = Low(v, sz)
  BY <1>1, LowType
<1>8. y = w * q + l
  BY <1>1, <1>5, <1>6, <1>7 DEF Low
<1>9. w * q <= w * (m - 1)
  BY <1>4
<1>10. w * (m - 1) = w * m - w /\ w * q >= 0
  BY <1>4
<1>11. y \in 0 .. w * m - 1 /\ y \in Int
  BY <1>8, <1>9, <1>10
<1>14. y \in Int /\ q \in Int /\ w \in Nat \ {0} /\ l \in 0 .. w - 1 /\ y = w * q + l
  BY <1>4, <1>8, <1>11
<1>12. y % w = l
  BY <1>14, RemainderUnique
<1>13. Low(y, sz) = l /\ Low(x, sz) = r
  BY <1>1, <1>5, <1>12 DEF Low
<1> QED BY <1>2, <1>6, <1>7, <1>8, <1>11, <1>13 DEF Longs

Stored(c, r, v, sz, d) ==
  /\ MachineOK(d) /\ ~d.fault /\ d.sr = c.sr /\ d.A = c.A /\ d.er = c.er
  /\ Low(d.D[r], sz) = Low(v, sz) /\ d.D[r] - Low(d.D[r], sz) = c.D[r] - Low(c.D[r], sz)

LEMMA Stores ==
  ASSUME NEW c, MachineOK(c), ~c.fault, NEW r \in 0 .. 7, NEW v \in Int, NEW sz \in Sizes
  PROVE  Stored(c, r, v, sz, store_dn(c, r, v, sz))
<1>0. PICK d : d = store_dn(c, r, v, sz)
  OBVIOUS
<1>1. PICK x \in Longs : x = c.D[r]
  BY RegisterType
<1>2. PICK y : y = x - Low(x, sz) + Low(v, sz)
  OBVIOUS
<1>3. y \in Longs /\ Low(y, sz) = Low(v, sz) /\ y - Low(y, sz) = x - Low(x, sz)
  BY <1>2, Replaced
<1>4. Low(y, "L") = y
  BY <1>3, LongLow
<1>5. d = [c EXCEPT !.D[r] = y]
  BY <1>0, <1>1, <1>2, <1>4 DEF store_dn, SetD, Then
<1>6. MachineOK(d) /\ ~d.fault /\ d.sr = c.sr /\ d.A = c.A /\ d.er = c.er /\ d.D[r] = y
  BY <1>3, <1>5 DEF MachineOK
<1> QED BY <1>0, <1>1, <1>3, <1>6 DEF Stored

LEMMA WithinParts ==
  ASSUME NEW sz \in Sizes, NEW h, h = 2^(Bits[sz] - 1), NEW r \in 0 .. 2 * h - 1
  PROVE  /\ r \in Int /\ Low(r, sz) = r /\ Msb(r, sz) = (IF r >= h THEN 1 ELSE 0)
         /\ Signed(r, sz) = (IF r >= h THEN r - 2 * h ELSE r)
<1>1. h \in Nat \ {0}
  BY HalfOf
<1>2. r \in Int /\ -(2 * h) <= r /\ r < 4 * h /\ 0 <= r /\ r < 2 * h
  BY <1>1
<1>3. Low(r, sz) = r
  BY <1>2, LowWraps
<1> QED BY <1>2, <1>3, LowParts

\* What flags_cmp finds, for operands of a size whose half is h.
LEMMA CmpIs ==
  ASSUME NEW c, MachineOK(c), ~c.fault, NEW sz \in Sizes, NEW h, h = 2^(Bits[sz] - 1),
         NEW a \in 0 .. 2 * h - 1, NEW b \in 0 .. 2 * h - 1, NEW d, d = flags_cmp(c, a, b, a - b, sz)
  PROVE  \E n \in {0, 1} :
           /\ MachineOK(d) /\ ~d.fault /\ d.D = c.D /\ d.A = c.A /\ d.er = c.er
           /\ n = (IF a - b >= h \/ (a < b /\ a - b >= -h) THEN 1 ELSE 0)
           /\ d.sr.N = n /\ d.sr.Z = Flag(a = b) /\ d.sr.C = Flag(b > a) /\ d.sr.X = c.sr.X
           /\ d.sr.V = Flag((a >= h) # (b >= h) /\ (a >= h) # (n = 1))
           /\ Low(a - b, sz) = (IF a < b THEN a - b + 2 * h ELSE a - b)
<1>1. h \in Nat \ {0}
  BY HalfOf
<1>2. a \in Int /\ b \in Int /\ a - b \in Int /\ -(2 * h) <= a - b /\ a - b < 4 * h
  BY <1>1
<1>3. PICK r \in 0 .. 2 * h - 1 :
        /\ r = (IF a - b < 0 THEN a - b + 2 * h ELSE IF a - b < 2 * h THEN a - b ELSE a - b - 2 * h)
        /\ Low(a - b, sz) = r /\ Msb(a - b, sz) = (IF r >= h THEN 1 ELSE 0)
  <2>1. PICK v \in Int : v = a - b
    BY <1>2
  <2>2. -(2 * h) <= v /\ v < 4 * h
    BY <1>2, <2>1
  <2>3. \E r \in 0 .. 2 * h - 1 :
           /\ r = (IF v < 0 THEN v + 2 * h ELSE IF v < 2 * h THEN v ELSE v - 2 * h)
           /\ Low(v, sz) = r /\ Msb(v, sz) = (IF r >= h THEN 1 ELSE 0)
    BY <2>2, NearParts
  <2> QED BY <2>1, <2>3
<1>4. Low(a, sz) = a /\ Msb(a, sz) = (IF a >= h THEN 1 ELSE 0)
  BY <1>1, <1>2, WithinParts
<1>5. Low(b, sz) = b /\ Msb(b, sz) = (IF b >= h THEN 1 ELSE 0)
  BY <1>1, <1>2, WithinParts
<1>6. PICK n \in {0, 1} : n = (IF r >= h THEN 1 ELSE 0)
  OBVIOUS
<1>7. n = (IF a - b >= h \/ (a < b /\ a - b >= -h) THEN 1 ELSE 0)
  BY <1>1, <1>2, <1>3, <1>6
<1>8. r = (IF a < b THEN a - b + 2 * h ELSE a - b) /\ (r = 0 <=> a = b)
  BY <1>1, <1>2, <1>3
<1>9. PICK z \in {0, 1} : z = Flag(a = b)
  BY FlagType
<1>10. PICK k \in {0, 1} : k = Flag(b > a)
  BY FlagType
<1>11. PICK w \in {0, 1} : w = Flag((a >= h) # (b >= h) /\ (a >= h) # (n = 1))
  BY FlagType
<1>12. PICK q : q = c.sr
  OBVIOUS
<1>13. SrOK(q)
  BY <1>12, SrFields
<1>14. PICK s : s = [q EXCEPT !.N = n, !.Z = z, !.C = k, !.V = w]
  OBVIOUS
<1>15. SrOK(s)
  BY <1>13, <1>14 DEF SrOK
<1>16. d = SetSR(c, s)
  <2>1. Flag(Low(a - b, sz) = 0) = z
    BY <1>3, <1>8, <1>9 DEF Flag
  <2>2. Flag(Low(b, sz) > Low(a, sz)) = k
    BY <1>4, <1>5, <1>10
  <2>3. (Msb(a, sz) # Msb(b, sz)) <=> ((a >= h) # (b >= h))
    BY <1>4, <1>5
  <2>4. (Msb(a, sz) # Msb(a - b, sz)) <=> ((a >= h) # (n = 1))
    BY <1>3, <1>4, <1>6
  <2>5. Flag(Msb(a, sz) # Msb(b, sz) /\ Msb(a, sz) # Msb(a - b, sz)) = w
    BY <1>11, <2>3, <2>4 DEF Flag
  <2>6. Msb(a - b, sz) = n
    BY <1>3, <1>6
  <2> QED BY <1>12, <1>14, <2>1, <2>2, <2>5, <2>6 DEF flags_cmp
<1>17. MachineOK(d) /\ ~d.fault /\ d.sr = s /\ d.D = c.D /\ d.A = c.A /\ d.er = c.er
  BY <1>15, <1>16, SetSRIs
<1>18. s.N = n /\ s.Z = z /\ s.C = k /\ s.V = w /\ s.X = c.sr.X
  BY <1>12, <1>13, <1>14 DEF SrOK
<1> QED BY <1>3, <1>7, <1>8, <1>9, <1>10, <1>11, <1>17, <1>18

\* What ADD, SUB and CMP find in their registers.
LEMMA RunOnRegister ==
  ASSUME NEW c, MachineOK(c), ~c.fault, NEW mn \in {"ADD", "SUB", "CMP"}, NEW sz \in Sizes,
         NEW a \in Longs, NEW b \in Longs
  PROVE  \E v : /\ MachineOK(v) /\ ~v.fault /\ v.sr = c.sr /\ v.D[1] = a /\ v.er = c.er
                /\ Run(c, mn, sz, a, b) =
                     IF mn = "CMP" THEN flags_cmp(v, Low(a, sz), Low(b, sz), Low(a, sz) - Low(b, sz), sz)
                     ELSE LET r == Alu(v, mn, Low(a, sz), Low(b, sz), sz) IN store_dn(r, 1, r.val, sz)
<1>0. PICK m, ins : Prepared(c, mn, sz, a, b, m, ins)
  BY RunIs
<1>1. /\ ins.mn = mn /\ ins.sz = sz /\ ins.reg = 1 /\ ins.ea.mode = 0
      /\ ins.ea.reg = (IF mn \in Unary THEN 1 ELSE 0) /\ ~ins.toEa
  BY <1>0 DEF Prepared, RegisterForm
<1>11. MachineOK(m) /\ ~m.fault /\ m.sr = c.sr /\ m.er = c.er /\ m.D[1] = a /\ m.D[0] = b
  BY <1>0 DEF Prepared, LoadedWith
<1>12. Run(c, mn, sz, a, b) = exec_one(m, ins)
  BY <1>0 DEF Prepared
<1>2. ins.ea.reg = 0
  BY <1>1 DEF Unary
<1>3. exec_one(m, ins) = ExecAlu(m, ins)
  BY <1>1 DEF exec_one, Shifts, Rotates, ImmediateOp
<1>4. ExecAlu(m, ins) = OnRegister(read_ea(m, ins, sz), ins)
  BY <1>1 DEF ExecAlu
<1>5. PICK e \in Int : e = b
  BY LongsInt
<1>6. PICK v : v = Val(m, e)
  OBVIOUS
<1>7. MachineOK(v) /\ ~v.fault /\ v.val = e /\ v.D = m.D /\ v.sr = m.sr /\ v.er = m.er
  <2>1. MachineOK(m) /\ ~m.fault /\ e \in Int
    BY <1>5, <1>11
  <2>2. LoadedVal(m, e, Val(m, e))
    BY <2>1, ValLoads, Zenon
  <2> QED BY <1>6, <2>2 DEF LoadedVal
<1>8. read_ea(m, ins, sz) = v
  <2>1. read_ea_ex(m, ins, ins.ea, sz, FALSE) = Val(m, m.D[ins.ea.reg])
    BY <1>1, ReadRegister
  <2> QED BY <1>2, <1>5, <1>6, <1>11, <2>1 DEF read_ea
<1>9. OnRegister(v, ins) = WithOperand(v, ins, Low(a, sz), Low(b, sz))
  BY <1>1, <1>5, <1>7, <1>11 DEF OnRegister
<1>10. WithOperand(v, ins, Low(a, sz), Low(b, sz)) =
         IF mn = "CMP" THEN flags_cmp(v, Low(a, sz), Low(b, sz), Low(a, sz) - Low(b, sz), sz)
         ELSE LET r == Alu(v, mn, Low(a, sz), Low(b, sz), sz) IN store_dn(r, 1, r.val, sz)
  BY <1>1, <1>7 DEF WithOperand, ToRegister, Then
<1> QED BY <1>3, <1>4, <1>7, <1>8, <1>9, <1>10, <1>11, <1>12

\* Every condition after CMP means the comparison it is named for.
LEMMA ConditionsHold ==
  ASSUME InterpInv
  PROVE  ConditionsCompare
<1> SUFFICES ASSUME Fresh, NEW sz \in Sizes, NEW a \in Operands, NEW b \in Operands,
                    NEW s, s = Run(cpu, "CMP", sz, a, b).sr, NEW u, u = Low(a, sz) - Low(b, sz),
                    NEW t, t = Signed(a, sz) - Signed(b, sz)
             PROVE  /\ {cc \in {"HI", "LS", "CC", "CS", "EQ", "NE"} : eval_cond(s, cc)} =
                         IF u > 0 THEN {"HI", "CC", "NE"} ELSE IF u = 0 THEN {"LS", "CC", "EQ"}
                         ELSE {"LS", "CS", "NE"}
                    /\ {cc \in {"GE", "LT", "GT", "LE"} : eval_cond(s, cc)} =
                         IF t > 0 THEN {"GE", "GT"} ELSE IF t = 0 THEN {"GE", "LE"} ELSE {"LT", "LE"}
  BY DEF ConditionsCompare
<1>1. MachineOK(cpu) /\ ~cpu.fault /\ a \in Longs /\ b \in Longs /\ a \in Int /\ b \in Int
  BY InterpAssumption, LongsInt DEF InterpInv, Fresh
<1>2. PICK h : h = 2^(Bits[sz] - 1)
  OBVIOUS
<1>3. h \in Nat \ {0}
  BY <1>2, HalfOf
<1>4. PICK x \in Int : x = Low(a, sz)
  BY <1>1, LowType
<1>5. PICK y \in Int : y = Low(b, sz)
  BY <1>1, LowType
<1>6. x \in 0 .. 2 * h - 1 /\ Signed(a, sz) = (IF x >= h THEN x - 2 * h ELSE x)
  BY <1>1, <1>2, <1>4, LowParts
<1>7. y \in 0 .. 2 * h - 1 /\ Signed(b, sz) = (IF y >= h THEN y - 2 * h ELSE y)
  BY <1>1, <1>2, <1>5, LowParts
<1>8. PICK v : /\ MachineOK(v) /\ ~v.fault /\ v.sr = cpu.sr
               /\ Run(cpu, "CMP", sz, a, b) = flags_cmp(v, x, y, x - y, sz)
  BY <1>1, <1>4, <1>5, RunOnRegister
<1>9. PICK d : d = flags_cmp(v, x, y, x - y, sz)
  OBVIOUS
<1>10. PICK n \in {0, 1} :
           /\ n = (IF x - y >= h \/ (x < y /\ x - y >= -h) THEN 1 ELSE 0)
           /\ d.sr.N = n /\ d.sr.Z = Flag(x = y) /\ d.sr.C = Flag(y > x) /\ d.sr.X = v.sr.X
           /\ d.sr.V = Flag((x >= h) # (y >= h) /\ (x >= h) # (n = 1))
  BY <1>2, <1>6, <1>7, <1>8, <1>9, CmpIs
<1>12. /\ s.N = n /\ s.Z = Flag(x = y) /\ s.C = Flag(y > x)
       /\ s.V = Flag((x >= h) # (y >= h) /\ (x >= h) # (n = 1))
  BY <1>8, <1>9, <1>10
<1>13. u = x - y /\ u \in Int
  BY <1>3, <1>4, <1>5, <1>6, <1>7
<1>14. t = (IF x >= h THEN x - 2 * h ELSE x) - (IF y >= h THEN y - 2 * h ELSE y) /\ t \in Int
  BY <1>3, <1>6, <1>7
<1>15. /\ (s.Z = 1 <=> u = 0) /\ (s.Z = 0 <=> u # 0) /\ (s.C = 1 <=> u < 0) /\ (s.C = 0 <=> u >= 0)
  BY <1>3, <1>6, <1>7, <1>12, <1>13 DEF Flag
<1>16. /\ (s.N = s.V <=> t >= 0) /\ (s.Z = 1 <=> t = 0) /\ (s.Z = 0 <=> t # 0)
  <2>1. (s.V = 1 <=> (x >= h) # (y >= h) /\ (x >= h) # (n = 1)) /\ s.V \in {0, 1}
    BY <1>12 DEF Flag
  <2>2. (n = 1 <=> x - y >= h \/ (x < y /\ x - y >= -h)) /\ s.N = n
    BY <1>10, <1>12
  <2>3. t = 0 <=> x = y
    BY <1>3, <1>6, <1>7, <1>14
  <2>4. (s.Z = 1 <=> x = y) /\ (s.Z = 0 <=> x # y)
    BY <1>12 DEF Flag
  <2>5. CASE x >= h /\ y >= h
    BY <1>3, <1>6, <1>7, <1>14, <2>1, <2>2, <2>3, <2>4, <2>5
  <2>6. CASE x < h /\ y < h
    BY <1>3, <1>6, <1>7, <1>14, <2>1, <2>2, <2>3, <2>4, <2>6
  <2>7. CASE x >= h /\ y < h
    BY <1>3, <1>6, <1>7, <1>14, <2>1, <2>2, <2>3, <2>4, <2>7
  <2>8. CASE x < h /\ y >= h
    BY <1>3, <1>6, <1>7, <1>14, <2>1, <2>2, <2>3, <2>4, <2>8
  <2> QED BY <1>3, <1>6, <1>7, <2>5, <2>6, <2>7, <2>8
<1>17. /\ (eval_cond(s, "HI") <=> s.C = 0 /\ s.Z = 0) /\ (eval_cond(s, "LS") <=> s.C = 1 \/ s.Z = 1)
       /\ (eval_cond(s, "CC") <=> s.C = 0) /\ (eval_cond(s, "CS") <=> s.C = 1)
       /\ (eval_cond(s, "EQ") <=> s.Z = 1) /\ (eval_cond(s, "NE") <=> s.Z = 0)
  BY DEF eval_cond
<1>18. /\ (eval_cond(s, "GE") <=> s.N = s.V) /\ (eval_cond(s, "LT") <=> s.N # s.V)
       /\ (eval_cond(s, "GT") <=> s.Z = 0 /\ s.N = s.V) /\ (eval_cond(s, "LE") <=> s.Z = 1 \/ s.N # s.V)
  BY DEF eval_cond
<1>19. {cc \in {"HI", "LS", "CC", "CS", "EQ", "NE"} : eval_cond(s, cc)} =
          IF u > 0 THEN {"HI", "CC", "NE"} ELSE IF u = 0 THEN {"LS", "CC", "EQ"} ELSE {"LS", "CS", "NE"}
  <2>1. CASE u > 0
    <3>1. eval_cond(s, "HI") /\ ~eval_cond(s, "LS") /\ eval_cond(s, "CC") /\ ~eval_cond(s, "CS") /\ ~eval_cond(s, "EQ") /\ eval_cond(s, "NE")
      BY <1>13, <1>15, <1>17, <2>1
    <3> QED BY <1>13, <2>1, <3>1
  <2>2. CASE u = 0
    <3>1. ~eval_cond(s, "HI") /\ eval_cond(s, "LS") /\ eval_cond(s, "CC") /\ ~eval_cond(s, "CS") /\ eval_cond(s, "EQ") /\ ~eval_cond(s, "NE")
      BY <1>13, <1>15, <1>17, <2>2
    <3> QED BY <1>13, <2>2, <3>1
  <2>3. CASE u < 0
    <3>1. ~eval_cond(s, "HI") /\ eval_cond(s, "LS") /\ ~eval_cond(s, "CC") /\ eval_cond(s, "CS") /\ ~eval_cond(s, "EQ") /\ eval_cond(s, "NE")
      BY <1>13, <1>15, <1>17, <2>3
    <3> QED BY <1>13, <2>3, <3>1
  <2> QED BY <1>13, <2>1, <2>2, <2>3
<1>20. {cc \in {"GE", "LT", "GT", "LE"} : eval_cond(s, cc)} =
          IF t > 0 THEN {"GE", "GT"} ELSE IF t = 0 THEN {"GE", "LE"} ELSE {"LT", "LE"}
  <2>1. CASE t > 0
    <3>1. eval_cond(s, "GE") /\ ~eval_cond(s, "LT") /\ eval_cond(s, "GT") /\ ~eval_cond(s, "LE")
      BY <1>14, <1>16, <1>18, <2>1
    <3> QED BY <1>14, <2>1, <3>1
  <2>2. CASE t = 0
    <3>1. eval_cond(s, "GE") /\ ~eval_cond(s, "LT") /\ ~eval_cond(s, "GT") /\ eval_cond(s, "LE")
      BY <1>14, <1>16, <1>18, <2>2
    <3> QED BY <1>14, <2>2, <3>1
  <2>3. CASE t < 0
    <3>1. ~eval_cond(s, "GE") /\ eval_cond(s, "LT") /\ ~eval_cond(s, "GT") /\ eval_cond(s, "LE")
      BY <1>14, <1>16, <1>18, <2>3
    <3> QED BY <1>14, <2>3, <3>1
  <2> QED BY <1>14, <2>1, <2>2, <2>3
<1> QED BY <1>19, <1>20

\* After a CMP of any size and of any operands, in the entry state of every
\* program, flags_cmp and eval_cond agree on what the ten conditions mean: HI,
\* LS, CC, CS, EQ and NE compare the operands as unsigned numbers, GE, LT, GT
\* and LE as signed ones, the overflow of the subtraction included.
THEOREM ConditionsAreComparisons == Spec => []ConditionsCompare
<1>1. InterpInv => ConditionsCompare
  BY ConditionsHold
<1> QED BY <1>1, InterpInvariant, PTL

(***************************************************************************)
(* Division.                                                               *)
(***************************************************************************)
LEMMA QuotientUnique ==
  ASSUME NEW x \in Int, NEW w \in Nat \ {0}, NEW k \in Int, NEW r \in 0 .. w - 1, x = w * k + r
  PROVE  x % w = r /\ x \div w = k
<1>1. x % w = r
  BY RemainderUnique
<1>2. PICK d \in Int : d = x \div w
  BY RemainderDef
<1>3. x = w * d + r
  BY <1>1, <1>2, RemainderDef
<1>4. w * d = w * k
  BY <1>3
<1>5. CASE d > k
  <2>1. PICK e \in Nat \ {0} : d = k + e
    <3>1. d - k \in Nat \ {0} /\ d = k + (d - k)
      BY <1>5
    <3> QED BY <3>1
  <2>2. w * d = w * k + w * e /\ w * e >= w
    BY <2>1
  <2> QED BY <1>4, <2>2
<1>6. CASE d < k
  <2>1. PICK e \in Nat \ {0} : k = d + e
    <3>1. k - d \in Nat \ {0} /\ k = d + (k - d)
      BY <1>6
    <3> QED BY <3>1
  <2>2. w * k = w * d + w * e /\ w * e >= w
    BY <2>1
  <2> QED BY <1>4, <2>2
<1> QED BY <1>1, <1>2, <1>5, <1>6

\* A division whose remainder is smaller than the divisor and has the sign of
\* the dividend, which is towards zero ...
Truncates(n, d, x, y) == n = x * d + y /\ Abs(y) < Abs(d) /\ (y # 0 => (y < 0) = (n < 0))

\* ... is what m68k_divide_word computes ...
LEMMA QuotientTruncates ==
  ASSUME NEW n \in Int, NEW d \in Int, d # 0, NEW q \in Int, q = Quotient(n, d)
  PROVE  Truncates(n, d, q, n - q * d)
<1>1. PICK m \in Int : m = Abs(n) /\ m >= 0
  BY AbsType
<1>2. PICK w \in Nat \ {0} : w = Abs(d)
  BY AbsType
<1>3. PICK e \in Int : e = m \div w
  BY RemainderDef
<1>4. PICK f \in 0 .. w - 1 : f = m % w
  BY RemainderDef
<1>5. m = w * e + f
  BY <1>3, <1>4, RemainderDef
<1>6. PICK p \in Int : p = w * e
  OBVIOUS
<1>7. CASE n >= 0 /\ d > 0
  <2>1. q = e /\ n = m /\ d = w
    BY <1>1, <1>2, <1>3, <1>7 DEF Quotient, Abs
  <2>2. q * d = p
    BY <1>6, <2>1
  <2>3. n - q * d = f /\ n = q * d + (n - q * d)
    BY <1>5, <1>6, <2>1, <2>2
  <2>4. PICK r \in Int : r = f
    OBVIOUS
  <2>5. Abs(r) < Abs(d) /\ (r # 0 => (r < 0) = (n < 0))
    BY <1>2, <1>4, <1>7, <2>4 DEF Abs
  <2> QED BY <2>3, <2>4, <2>5 DEF Truncates
<1>8. CASE n >= 0 /\ d < 0
  <2>1. q = -e /\ n = m /\ d = -w
    BY <1>1, <1>2, <1>3, <1>8 DEF Quotient, Abs
  <2>2. q * d = p
    BY <1>6, <2>1
  <2>3. n - q * d = f /\ n = q * d + (n - q * d)
    BY <1>5, <1>6, <2>1, <2>2
  <2>4. PICK r \in Int : r = f
    OBVIOUS
  <2>5. Abs(r) < Abs(d) /\ (r # 0 => (r < 0) = (n < 0))
    BY <1>2, <1>4, <1>8, <2>4 DEF Abs
  <2> QED BY <2>3, <2>4, <2>5 DEF Truncates
<1>9. CASE n < 0 /\ d > 0
  <2>1. q = -e /\ n = -m /\ d = w
    BY <1>1, <1>2, <1>3, <1>9 DEF Quotient, Abs
  <2>2. q * d = -p
    BY <1>6, <2>1
  <2>3. n - q * d = -f /\ n = q * d + (n - q * d)
    BY <1>5, <1>6, <2>1, <2>2
  <2>4. PICK r \in Int : r = -f
    OBVIOUS
  <2>5. Abs(r) < Abs(d) /\ (r # 0 => (r < 0) = (n < 0))
    BY <1>2, <1>4, <1>9, <2>4 DEF Abs
  <2> QED BY <2>3, <2>4, <2>5 DEF Truncates
<1>10. CASE n < 0 /\ d < 0
  <2>1. q = e /\ n = -m /\ d = -w
    BY <1>1, <1>2, <1>3, <1>10 DEF Quotient, Abs
  <2>2. q * d = -p
    BY <1>6, <2>1
  <2>3. n - q * d = -f /\ n = q * d + (n - q * d)
    BY <1>5, <1>6, <2>1, <2>2
  <2>4. PICK r \in Int : r = -f
    OBVIOUS
  <2>5. Abs(r) < Abs(d) /\ (r # 0 => (r < 0) = (n < 0))
    BY <1>2, <1>4, <1>10, <2>4 DEF Abs
  <2> QED BY <2>3, <2>4, <2>5 DEF Truncates
<1> QED BY <1>7, <1>8, <1>9, <1>10

\* ... and there is no other.
LEMMA TruncationUnique ==
  ASSUME NEW n \in Int, NEW d \in Int, d # 0, NEW x \in Int, NEW y \in Int, NEW q \in Int, NEW r \in Int,
         Truncates(n, d, x, y), Truncates(n, d, q, r)
  PROVE  x = q
<1>1. n = x * d + y /\ n = q * d + r
  BY DEF Truncates
<1>2. PICK w \in Nat \ {0} : w = Abs(d)
  BY AbsType
<1>3. -w < y - r /\ y - r < w
  <2>1. -w < y /\ y < w /\ -w < r /\ r < w
    BY <1>2 DEF Truncates, Abs
  <2>2. CASE n < 0
    <3>1. y <= 0 /\ r <= 0
      BY <2>2 DEF Truncates
    <3> QED BY <2>1, <3>1
  <2>3. CASE n >= 0
    <3>1. y >= 0 /\ r >= 0
      BY <2>3 DEF Truncates
    <3> QED BY <2>1, <3>1
  <2> QED BY <2>2, <2>3
<1>4. PICK e \in Int : q = x + e
  <2>1. q - x \in Int /\ q = x + (q - x)
    OBVIOUS
  <2> QED BY <2>1
<1>5. q * d = x * d + e * d
  BY <1>4
<1>6. e * d = y - r
  BY <1>1, <1>5
<1>7. e * w = e * d \/ e * w = -(e * d)
  <2>1. CASE d > 0
    BY <1>2, <2>1 DEF Abs
  <2>2. CASE d < 0
    <3>1. w = -d
      BY <1>2, <2>2 DEF Abs
    <3>2. e * w = -(e * d)
      BY <3>1
    <3> QED BY <3>2
  <2> QED BY <2>1, <2>2
<1>8. PICK p \in Int : p = e * w
  OBVIOUS
<1>9. -w < p /\ p < w
  BY <1>3, <1>6, <1>7, <1>8
<1>10. e >= 1 => p >= w
  BY <1>8
<1>11. e <= -1 => p <= -w
  BY <1>8
<1>12. e = 0
  BY <1>9, <1>10, <1>11
<1> QED BY <1>4, <1>12

Num(v, sz, signed) == IF signed THEN Signed(v, sz) ELSE Low(v, sz)

\* The numbers a word can be.
LEMMA WordNumbers ==
  ASSUME NEW h \in Nat \ {0}, h = 2^(Bits["W"] - 1), NEW v \in Int, NEW l, l = Low(v, "W")
  PROVE  /\ l \in 0 .. 2 * h - 1 /\ h \in Nat \ {0}
         /\ Num(l, "W", TRUE) \in -h .. h - 1 /\ Num(l, "W", FALSE) \in 0 .. 2 * h - 1
         /\ (v \in -h .. h - 1 => Num(l, "W", TRUE) = v /\ (l = 0 <=> v = 0))
         /\ (v \in 0 .. 2 * h - 1 => Num(l, "W", FALSE) = v /\ (l = 0 <=> v = 0))
<1>0. "W" \in Sizes
  BY DEF Sizes
<1>1. h \in Nat \ {0}
  BY <1>0, HalfOf
<1>2. l \in 0 .. 2 * h - 1 /\ Low(l, "W") = l /\ Signed(l, "W") = (IF l >= h THEN l - 2 * h ELSE l)
  BY <1>0, LowParts
<1>3. v \in -h .. 2 * h - 1 => l = (IF v < 0 THEN v + 2 * h ELSE v)
  <2> SUFFICES ASSUME v \in -h .. 2 * h - 1 PROVE l = (IF v < 0 THEN v + 2 * h ELSE v)
    OBVIOUS
  <2>1. -(2 * h) <= v /\ v < 4 * h /\ v < 2 * h
    BY <1>1
  <2>2. l = (IF v < 0 THEN v + 2 * h ELSE IF v < 2 * h THEN v ELSE v - 2 * h)
    BY <1>0, <2>1, LowWraps
  <2> QED BY <2>1, <2>2
<1>4. PICK j \in Int : j = l
  BY <1>1, <1>2
<1>5. PICK t \in Int : t = (IF j >= h THEN j - 2 * h ELSE j)
  BY <1>1
<1>6. Num(l, "W", TRUE) = t /\ Num(l, "W", FALSE) = j
  BY <1>2, <1>4, <1>5 DEF Num
<1>7. j \in 0 .. 2 * h - 1 /\ t \in -h .. h - 1
  BY <1>1, <1>2, <1>4, <1>5
<1>8. v \in -h .. 2 * h - 1 => j = (IF v < 0 THEN v + 2 * h ELSE v)
  BY <1>3, <1>4
<1>9. v \in -h .. h - 1 => t = v /\ (j = 0 <=> v = 0)
  BY <1>1, <1>5, <1>7, <1>8
<1>10. v \in 0 .. 2 * h - 1 => j = v /\ (j = 0 <=> v = 0)
  BY <1>1, <1>8
<1> QED BY <1>1, <1>2, <1>4, <1>6, <1>7, <1>9, <1>10

InWord(x, h, signed) == IF signed THEN x \in -h .. h - 1 ELSE x \in 0 .. 2 * h - 1

Fits(k, n, d, q, h, signed) ==
  /\ k.status = "OK" /\ k.V = 0 /\ k.Z = Flag(q = 0)
  /\ \E l, m \in 0 .. 2 * h - 1 : /\ k.result = l * (2 * h) + m /\ k.result \in Int
                                 /\ Num(m, "W", signed) = q /\ Num(l, "W", signed) = n - q * d
Overflows(k, q, h, signed) == k.status = "OVERFLOW" /\ k.V = 1 /\ ~InWord(q, h, signed)

\* Division leaves the words of quotient and remainder, or says that the
\* quotient is not a word.
LEMMA DivisionIs ==
  ASSUME NEW signed \in BOOLEAN, NEW n \in Int, NEW d \in Int, d # 0, NEW h \in Nat \ {0}, h = 2^(Bits["W"] - 1),
         InWord(d, h, signed), ~signed => n >= 0, NEW q \in Int, q = Quotient(n, d),
         NEW k, k = Division(n, d, q, signed)
  PROVE  Fits(k, n, d, q, h, signed) \/ Overflows(k, q, h, signed)
<1>0. "W" \in Sizes
  BY DEF Sizes
<1>1. h \in Nat \ {0} /\ 2^Bits["W"] = 2 * h
  BY <1>0, HalfOf
<1>2. PICK r \in Int : r = n - q * d
  OBVIOUS
<1>3. Truncates(n, d, q, r)
  BY <1>2, QuotientTruncates
<1>4. Abs(r) < Abs(d) /\ (r # 0 => (r < 0) = (n < 0))
  BY <1>3 DEF Truncates
<1>5. CASE ~InWord(q, h, signed)
  <2>1. k = [status |-> "OVERFLOW", N |-> 1, Z |-> 0, V |-> 1]
    BY <1>1, <1>5 DEF Division, InWord
  <2> QED BY <1>5, <2>1 DEF Overflows
<1>6. CASE InWord(q, h, signed)
  <2>1. PICK l : l = Low(r, "W")
    OBVIOUS
  <2>2. PICK m : m = Low(q, "W")
    OBVIOUS
  <2>3. /\ l \in 0 .. 2 * h - 1
        /\ (r \in -h .. h - 1 => Num(l, "W", TRUE) = r)
        /\ (r \in 0 .. 2 * h - 1 => Num(l, "W", FALSE) = r)
    BY <2>1, WordNumbers, ZenonT(40)
  <2>4. /\ m \in 0 .. 2 * h - 1
        /\ (q \in -h .. h - 1 => Num(m, "W", TRUE) = q /\ (m = 0 <=> q = 0))
        /\ (q \in 0 .. 2 * h - 1 => Num(m, "W", FALSE) = q /\ (m = 0 <=> q = 0))
    BY <2>2, WordNumbers, ZenonT(40)
  <2>5. InWord(r, h, signed)
    BY <1>1, <1>4 DEF InWord, Abs
  <2>6. Num(l, "W", signed) = r /\ Num(m, "W", signed) = q /\ (m = 0 <=> q = 0)
    BY <1>6, <2>3, <2>4, <2>5 DEF InWord
  <2>7. k = [status |-> "OK", result |-> l * (2 * h) + m, N |-> Msb(q, "W"), Z |-> Flag(m = 0), V |-> 0]
    BY <1>1, <1>2, <1>6, <2>1, <2>2 DEF Division, InWord
  <2>8. Flag(m = 0) = Flag(q = 0)
    BY <2>6 DEF Flag
  <2>9. l * (2 * h) + m \in Int
    BY <1>1, <2>3, <2>4
  <2> QED BY <1>2, <2>3, <2>4, <2>6, <2>7, <2>8, <2>9 DEF Fits
<1> QED BY <1>5, <1>6

LEMMA DivRuns ==
  ASSUME NEW c, MachineOK(c), ~c.fault, NEW signed \in BOOLEAN, NEW a \in Longs, NEW b \in Longs
  PROVE  \E v : /\ MachineOK(v) /\ ~v.fault /\ v.sr = c.sr /\ v.D[1] = a
                /\ Run(c, IF signed THEN "DIVS" ELSE "DIVU", "W", a, b) = do_div(v, 1, Low(b, "W"), signed)
<1>1. PICK mn : mn = IF signed THEN "DIVS" ELSE "DIVU"
  OBVIOUS
<1>2. mn \in {"DIVU", "DIVS"} /\ (mn = "DIVS") = signed /\ mn \notin Unary
  BY <1>1 DEF Unary
<1>3. PICK m, ins : Prepared(c, mn, "W", a, b, m, ins)
  BY RunIs DEF Sizes
<1>4. ins.mn = mn /\ ins.reg = 1 /\ ins.ea.mode = 0 /\ ins.ea.reg = 0
  BY <1>2, <1>3 DEF Prepared, RegisterForm
<1>5. MachineOK(m) /\ ~m.fault /\ m.sr = c.sr /\ m.er = c.er /\ m.D[1] = a /\ m.D[0] = b
  BY <1>3 DEF Prepared, LoadedWith
<1>6. Run(c, mn, "W", a, b) = exec_one(m, ins)
  BY <1>3 DEF Prepared
<1>7. exec_one(m, ins) = ExecMulDiv(m, ins)
  BY <1>2, <1>4 DEF exec_one, Shifts, Rotates, ImmediateOp
<1>8. PICK e \in Int : e = b
  BY LongsInt
<1>9. PICK v : v = Val(m, e)
  OBVIOUS
<1>10. MachineOK(v) /\ ~v.fault /\ v.val = e /\ v.D = m.D /\ v.sr = m.sr
  <2>1. MachineOK(m) /\ ~m.fault /\ e \in Int
    BY <1>5, <1>8
  <2>2. LoadedVal(m, e, Val(m, e))
    BY <2>1, ValLoads, Zenon
  <2> QED BY <1>9, <2>2 DEF LoadedVal
<1>11. read_ea(m, ins, "W") = v
  <2>1. read_ea_ex(m, ins, ins.ea, "W", FALSE) = Val(m, m.D[ins.ea.reg])
    BY <1>4, ReadRegister
  <2> QED BY <1>4, <1>5, <1>8, <1>9, <2>1 DEF read_ea
<1>12. ExecMulDiv(m, ins) = MulDiv(v, ins, Low(b, "W"), Low(a, "W"))
  BY <1>4, <1>5, <1>8, <1>10, <1>11 DEF ExecMulDiv, ByOperand
<1>13. MulDiv(v, ins, Low(b, "W"), Low(a, "W")) = do_div(v, 1, Low(b, "W"), signed)
  BY <1>2, <1>4 DEF MulDiv
<1> QED BY <1>1, <1>5, <1>6, <1>7, <1>10, <1>12, <1>13

LEMMA DividedIs ==
  ASSUME NEW c, MachineOK(c), ~c.fault, NEW d, DivisionOK(d), NEW k, k = Divided(c, 1, d)
  PROVE  /\ k.sr.V = d.V /\ k.sr.Z = d.Z
         /\ d.status = "OK" => k.D[1] = Low(d.result, "L")
         /\ d.status # "OK" => k.D[1] = c.D[1]
<1>1. PICK q : q = c.sr
  OBVIOUS
<1>2. SrOK(q)
  BY <1>1, SrFields
<1>3. PICK s : s = [q EXCEPT !.N = d.N, !.Z = d.Z, !.V = d.V, !.C = 0]
  OBVIOUS
<1>4. SrOK(s) /\ s.V = d.V /\ s.Z = d.Z
  BY <1>2, <1>3 DEF SrOK, DivisionOK
<1>5. CASE d.status = "OK"
  <2>1. PICK r \in Int : r = d.result
    BY <1>5 DEF DivisionOK
  <2>2. PICK e : e = SetD(c, 1, r)
    OBVIOUS
  <2>3. MachineOK(e) /\ ~e.fault /\ e.D[1] = Low(r, "L")
    <3>1. PICK l \in Longs : l = Low(r, "L")
      BY LowLong
    <3>2. e = [c EXCEPT !.D[1] = l]
      BY <2>2, <3>1 DEF SetD, Then
    <3> QED BY <3>1, <3>2 DEF MachineOK
  <2>4. k = SetSR(e, s)
    BY <1>1, <1>3, <1>5, <2>1, <2>2 DEF Divided
  <2>5. k.sr = s /\ k.D = e.D
    BY <1>4, <2>3, <2>4, SetSRIs
  <2> QED BY <1>4, <1>5, <2>1, <2>3, <2>5
<1>6. CASE d.status # "OK"
  <2>1. k = SetSR(c, s)
    BY <1>1, <1>3, <1>6 DEF Divided
  <2>2. k.sr = s /\ k.D = c.D
    BY <1>4, <2>1, SetSRIs
  <2> QED BY <1>4, <1>6, <2>2
<1> QED BY <1>5, <1>6

\* Two words make a long, and come back from it.
LEMMA WordsOfLong ==
  ASSUME NEW h \in Nat \ {0}, h = 2^(Bits["W"] - 1), NEW l \in 0 .. 2 * h - 1, NEW m \in 0 .. 2 * h - 1,
         NEW r, r = l * (2 * h) + m
  PROVE  r \in Longs /\ Low(r, "L") = r /\ r % 2^Bits["W"] = m /\ r \div 2^Bits["W"] = l
<1>0. "W" \in Sizes
  BY DEF Sizes
<1>1. PICK w \in Nat \ {0} : w = 2 * h
  OBVIOUS
<1>2. 2^Bits["W"] = w
  BY <1>0, <1>1, HalfOf
<1>3. 2^Bits["L"] = w * w
  <2>1. Bits["W"] \in Nat /\ Bits["W"] + Bits["W"] = Bits["L"]
    BY InterpAssumption DEF Bits
  <2>2. 2^(Bits["W"] + Bits["W"]) = 2^Bits["W"] * 2^Bits["W"]
    BY <2>1, PowerAdd
  <2> QED BY <1>2, <2>1, <2>2
<1>4. l \in 0 .. w - 1 /\ m \in 0 .. w - 1 /\ l \in Int /\ m \in Int
  BY <1>1
<1>5. r = w * l + m /\ r \in Int
  BY <1>1, <1>4
<1>6. w * l <= w * (w - 1) /\ w * (w - 1) = w * w - w /\ w * l >= 0
  BY <1>4
<1>7. r \in 0 .. w * w - 1
  BY <1>4, <1>5, <1>6
<1>8. r \in Longs
  BY <1>3, <1>7 DEF Longs
<1>9. r % w = m /\ r \div w = l
  <2>1. PICK e \in Int : e = r
    BY <1>5
  <2>2. e = w * l + m
    BY <1>5, <2>1
  <2>3. e % w = m /\ e \div w = l
    BY <1>4, <2>2, QuotientUnique
  <2> QED BY <2>1, <2>3
<1> QED BY <1>2, <1>8, <1>9, LongLow

\* DIVU and DIVS compute the quotient and the remainder, or find that there is
\* none that fits.
LEMMA DivisionHolds ==
  ASSUME InterpInv
  PROVE  DivideExact
<1> DEFINE N(a, signed) == Num(a, "L", signed)
           D(b, signed) == Num(b, "W", signed)
           Is(signed, a, b, k) ==
             IF k.sr.V = 0
             THEN /\ Truncates(N(a, signed), D(b, signed), Num(k.D[1] % 2^Bits["W"], "W", signed),
                               Num(k.D[1] \div 2^Bits["W"], "W", signed))
                  /\ k.sr.Z = Flag(Num(k.D[1] % 2^Bits["W"], "W", signed) = 0)
             ELSE /\ k.D[1] = a
                  /\ \A y \in 0 .. 2^Bits["W"] - 1 :
                       ~Truncates(N(a, signed), D(b, signed), Num(y, "W", signed),
                                  N(a, signed) - Num(y, "W", signed) * D(b, signed))
<1> SUFFICES ASSUME Fresh, NEW signed \in BOOLEAN, NEW a \in Operands,
                    NEW b \in {Low(d, "W") : d \in Operands} \ {0}, NEW k,
                    k = Run(cpu, IF signed THEN "DIVS" ELSE "DIVU", "W", a, b)
             PROVE  Is(signed, a, b, k)
  BY DEF DivideExact, Truncates, Num
<1> HIDE DEF Is
<1>0. "W" \in Sizes /\ "L" \in Sizes
  BY DEF Sizes
<1>1. MachineOK(cpu) /\ ~cpu.fault /\ a \in Longs
  BY InterpAssumption DEF InterpInv, Fresh
<1>2. PICK h \in Nat \ {0} : h = 2^(Bits["W"] - 1)
  BY <1>0, Widths
<1>3. 2^Bits["W"] = 2 * h
  BY <1>0, <1>2, HalfOf
<1>4. PICK g \in Operands : b = Low(g, "W")
  OBVIOUS
<1>5. g \in Int
  BY InterpAssumption, LongsInt
<1>6. b # 0 /\ b \in 0 .. 2 * h - 1 /\ Low(b, "W") = b
  BY <1>0, <1>2, <1>4, <1>5, LowParts
<1>7. b \in Longs
  <2>1. 0 \in 0 .. 2 * h - 1 /\ b = 0 * (2 * h) + b
    BY <1>6
  <2> QED BY <1>2, <1>6, <2>1, WordsOfLong
<1>8. PICK v : /\ MachineOK(v) /\ ~v.fault /\ v.sr = cpu.sr /\ v.D[1] = a
               /\ k = do_div(v, 1, b, signed)
  BY <1>1, <1>6, <1>7, DivRuns
<1>9. PICK n \in Int : n = N(a, signed)
  <2>1. PICK y \in Int : y = a
    BY <1>1, LongsInt
  <2>2. Signed(y, "L") \in Int /\ Low(y, "L") \in Int
    BY <1>0, LowType
  <2> QED BY <2>1, <2>2 DEF Num
<1>10. PICK d \in Int : d = D(b, signed)
  <2>1. PICK y \in Int : y = b
    BY <1>6
  <2>2. Signed(y, "W") \in Int /\ Low(y, "W") \in Int
    BY <1>0, LowType
  <2> QED BY <2>1, <2>2 DEF Num
<1>11. InWord(d, h, signed) /\ d # 0
  <2>1. b \in 0 .. 2^Bits["W"] - 1
    BY <1>3, <1>6
  <2>2. Signed(b, "W") # 0
    BY <1>6, <2>1, SignedNonZero
  <2>3. /\ Num(b, "W", TRUE) \in -h .. h - 1 /\ Num(b, "W", FALSE) \in 0 .. 2 * h - 1
    BY <1>2, <1>4, <1>5, WordNumbers
  <2> QED BY <1>6, <1>10, <2>2, <2>3 DEF InWord, Num
<1>12. (~signed => n >= 0) /\ n = (IF signed THEN Signed(a, "L") ELSE a)
  <2>1. Low(a, "L") = a
    BY <1>1, LongLow
  <2>2. a >= 0
    BY <1>1, LongsInt
  <2> QED BY <1>9, <2>1, <2>2 DEF Num
<1>13. d = (IF signed THEN Signed(b, "W") ELSE b)
  BY <1>6, <1>10 DEF Num
<1>14. PICK q \in Int : q = Quotient(n, d)
  BY <1>11, QuotientType
<1>15. PICK e : e = Division(n, d, q, signed)
  OBVIOUS
<1>16. m68k_divide_word(a, b, signed) = e
  BY <1>6, <1>12, <1>13, <1>14, <1>15 DEF m68k_divide_word
<1>17. k = Divided(v, 1, e)
  BY <1>8, <1>16 DEF do_div
<1>18. DivisionOK(e)
  BY <1>15, DivisionType
<1>19. /\ k.sr.V = e.V /\ k.sr.Z = e.Z
       /\ e.status = "OK" => k.D[1] = Low(e.result, "L")
       /\ e.status # "OK" => k.D[1] = v.D[1]
  BY <1>8, <1>17, <1>18, DividedIs
<1>20. Truncates(n, d, q, n - q * d)
  BY <1>11, <1>14, QuotientTruncates
<1>21. CASE Fits(e, n, d, q, h, signed)
  <2>1. PICK l, m \in 0 .. 2 * h - 1 : /\ e.result = l * (2 * h) + m /\ e.result \in Int
                                      /\ Num(m, "W", signed) = q /\ Num(l, "W", signed) = n - q * d
    BY <1>21 DEF Fits
  <2>0. e.status = "OK" /\ e.V = 0 /\ e.Z = Flag(q = 0)
    BY <1>21 DEF Fits
  <2>2. PICK r : r = l * (2 * h) + m
    OBVIOUS
  <2>3. Low(r, "L") = r /\ r % 2^Bits["W"] = m /\ r \div 2^Bits["W"] = l
    BY <1>2, <2>2, WordsOfLong
  <2>4. k.D[1] = r
    BY <1>19, <2>0, <2>1, <2>2, <2>3
  <2>5. Num(k.D[1] % 2^Bits["W"], "W", signed) = q /\ Num(k.D[1] \div 2^Bits["W"], "W", signed) = n - q * d
    BY <2>1, <2>3, <2>4
  <2> QED BY <1>9, <1>10, <1>19, <1>20, <2>0, <2>5 DEF Is
<1>22. CASE Overflows(e, q, h, signed)
  <2>1. ASSUME NEW y \in 0 .. 2^Bits["W"] - 1
        PROVE  ~Truncates(n, d, Num(y, "W", signed), n - Num(y, "W", signed) * d)
    <3>1. y \in 0 .. 2 * h - 1 /\ y \in Int
      BY <1>3
    <3>2. Low(y, "W") = y
      BY <1>0, <1>2, <3>1, WithinParts
    <3>3. Num(y, "W", TRUE) \in -h .. h - 1 /\ Num(y, "W", FALSE) \in 0 .. 2 * h - 1
      BY <1>2, <3>1, <3>2, WordNumbers
    <3>4. PICK x \in Int : x = Num(y, "W", signed)
      <4>1. Signed(y, "W") \in Int /\ Low(y, "W") \in Int
        BY <1>0, <3>1, LowType
      <4> QED BY <4>1 DEF Num
    <3>5. InWord(x, h, signed)
      BY <3>3, <3>4 DEF InWord
    <3>6. x # q
      BY <1>22, <3>5 DEF Overflows
    <3>7. PICK z \in Int : z = n - x * d
      OBVIOUS
    <3>8. PICK r \in Int : r = n - q * d
      OBVIOUS
    <3>9. ~Truncates(n, d, x, z)
      BY <1>11, <1>20, <3>6, <3>8, TruncationUnique
    <3> QED BY <3>4, <3>7, <3>9
  <2>2. k.D[1] = a /\ k.sr.V = 1
    BY <1>8, <1>19, <1>22 DEF Overflows
  <2> QED BY <1>9, <1>10, <2>1, <2>2 DEF Is
<1>23. Fits(e, n, d, q, h, signed) \/ Overflows(e, q, h, signed)
  BY <1>2, <1>11, <1>12, <1>14, <1>15, DivisionIs
<1> QED BY <1>21, <1>22, <1>23

\* DIVU and DIVS divide: for every dividend and every divisor but zero, the
\* quotient and the remainder they leave in the two words of the register are
\* the truncating division, and V with the register untouched means that no
\* quotient of it fits a word, for the most negative dividend too.
THEOREM DivisionIsExact == Spec => []DivideExact
<1>1. InterpInv => DivideExact
  BY DivisionHolds
<1> QED BY <1>1, InterpInvariant, PTL

(***************************************************************************)
(* Chains of two: the low halves, then the high ones with X.               *)
(***************************************************************************)
LEMMA WriteRegister ==
  ASSUME NEW c, NEW ins, NEW ea, ea.mode = 0, NEW sz, NEW v, NEW rmw
  PROVE  write_ea_ex(c, ins, ea, sz, v, rmw) = store_dn(c, ea.reg, v, sz)
BY DEF write_ea_ex

LEMMA RewindIs ==
  ASSUME NEW c, MachineOK(c), ~c.fault, NEW k \in 1 .. 5, NEW d, d = [c EXCEPT !.er = k]
  PROVE  MachineOK(d) /\ ~d.fault /\ d.D = c.D /\ d.sr = c.sr /\ d.val = c.val
BY DEF MachineOK

\* What the second instruction finds of the first: the low half r and X.
LowHalf(l, sz, r, x) ==
  /\ MachineOK(l) /\ ~l.fault /\ l.sr.X = x /\ l.sr.Z = Flag(r = 0) /\ Low(l.D[1], sz) = r

\* The flags of a result e, which is r a carry or a borrow away.
Worked(sz, h, e, d) ==
  \E r \in 0 .. 2 * h - 1 : \E t \in {-1, 0, 1} :
    /\ MachineOK(d) /\ ~d.fault /\ d.sr.X = (IF t = 0 THEN 0 ELSE 1) /\ d.sr.Z = Flag(r = 0)
    /\ Low(e, sz) = r /\ e = r + 2 * h * t

LEMMA AddIs ==
  ASSUME NEW c, MachineOK(c), ~c.fault, NEW sz \in Sizes, NEW h \in Nat \ {0}, h = 2^(Bits[sz] - 1),
         NEW a \in Int, 0 <= a, a < 2 * h, NEW b \in Int, 0 <= b, b < 2 * h
  PROVE  Worked(sz, h, a + b, flags_add(c, a, b, a + b, sz))
<1>0. PICK d : d = flags_add(c, a, b, a + b, sz)
  OBVIOUS
<1>1. 2^Bits[sz] = 2 * h
  BY HalfOf
<1>2. a \in Int /\ b \in Int
  OBVIOUS
<1>3. PICK v \in Int : v = a + b
  BY <1>2
<1>4. -(2 * h) <= v /\ v < 4 * h /\ v >= 0
  BY <1>2, <1>3
<1>5. PICK r \in 0 .. 2 * h - 1 :
           /\ r = (IF v < 0 THEN v + 2 * h ELSE IF v < 2 * h THEN v ELSE v - 2 * h)
           /\ Low(v, sz) = r /\ Msb(v, sz) = (IF r >= h THEN 1 ELSE 0)
  BY <1>4, NearParts
<1>6. r = (IF v >= 2 * h THEN v - 2 * h ELSE v)
  BY <1>4, <1>5
<1>7. PICK n \in {0, 1} : n = Msb(v, sz)
  BY <1>5
<1>8. PICK z \in {0, 1} : z = Flag(r = 0)
  BY FlagType
<1>9. PICK k \in {0, 1} : k = Flag(v >= 2 * h)
  BY FlagType
<1>10. PICK o \in {0, 1} : o = Flag(Msb(a, sz) = Msb(b, sz) /\ Msb(a, sz) # Msb(v, sz))
  BY FlagType
<1>11. PICK q : q = c.sr
  OBVIOUS
<1>12. SrOK(q)
  BY <1>11, SrFields
<1>13. PICK s : s = [q EXCEPT !.N = n, !.Z = z, !.C = k, !.X = k, !.V = o]
  OBVIOUS
<1>14. SrOK(s) /\ s.X = k /\ s.Z = z
  BY <1>12, <1>13 DEF SrOK
<1>15. Low(a, sz) = a /\ Low(b, sz) = b
  <2>1. a \in 0 .. 2 * h - 1 /\ b \in 0 .. 2 * h - 1
    OBVIOUS
  <2> QED BY <2>1, WithinParts
<1>16. d = SetSR(c, s)
  BY <1>0, <1>1, <1>3, <1>5, <1>7, <1>8, <1>9, <1>10, <1>11, <1>13, <1>15 DEF flags_add
<1>17. MachineOK(d) /\ ~d.fault /\ d.sr = s /\ d.D = c.D
  BY <1>14, <1>16, SetSRIs
<1>18. PICK t \in {-1, 0, 1} : (t = 0 <=> k = 0) /\ v = r + 2 * h * t
  <2>1. CASE v >= 2 * h
    <3>1. k = 1 /\ v = r + 2 * h * 1
      BY <1>6, <1>9, <2>1 DEF Flag
    <3> QED BY <3>1
  <2>2. CASE ~(v >= 2 * h)
    <3>1. k = 0 /\ v = r + 2 * h * 0
      BY <1>6, <1>9, <2>2 DEF Flag
    <3> QED BY <3>1
  <2> QED BY <2>1, <2>2
<1>19. /\ MachineOK(d) /\ ~d.fault /\ d.sr.X = (IF t = 0 THEN 0 ELSE 1) /\ d.sr.Z = Flag(r = 0)
       /\ Low(v, sz) = r
  BY <1>5, <1>8, <1>14, <1>17, <1>18
<1>20. Worked(sz, h, v, d)
  BY <1>18, <1>19 DEF Worked
<1> QED BY <1>0, <1>3, <1>20

LEMMA SubIs ==
  ASSUME NEW c, MachineOK(c), ~c.fault, NEW sz \in Sizes, NEW h \in Nat \ {0}, h = 2^(Bits[sz] - 1),
         NEW a \in Int, 0 <= a, a < 2 * h, NEW b \in Int, 0 <= b, b < 2 * h
  PROVE  Worked(sz, h, a - b, flags_sub(c, a, b, a - b, sz))
<1>0. a \in 0 .. 2 * h - 1 /\ b \in 0 .. 2 * h - 1
  OBVIOUS
<1>1. PICK e : e = flags_cmp(c, a, b, a - b, sz)
  OBVIOUS
<1>2. /\ MachineOK(e) /\ ~e.fault /\ e.D = c.D /\ e.sr.Z = Flag(a = b) /\ e.sr.C = Flag(b > a)
      /\ Low(a - b, sz) = (IF a < b THEN a - b + 2 * h ELSE a - b)
  BY <1>0, <1>1, CmpIs
<1>3. PICK r \in 0 .. 2 * h - 1 : r = (IF a < b THEN a - b + 2 * h ELSE a - b)
  OBVIOUS
<1>4. Flag(a = b) = Flag(r = 0)
  BY <1>3 DEF Flag
<1>5. PICK k \in {0, 1} : k = e.sr.C
  BY <1>2, FlagType
<1>6. PICK q : q = e.sr
  OBVIOUS
<1>7. SrOK(q)
  BY <1>2, <1>6, SrFields
<1>8. PICK s : s = [q EXCEPT !.X = k]
  OBVIOUS
<1>9. SrOK(s) /\ s.X = k /\ s.Z = q.Z
  BY <1>7, <1>8 DEF SrOK
<1>10. PICK d : d = flags_sub(c, a, b, a - b, sz)
  OBVIOUS
<1>11. d = SetSR(e, s)
  BY <1>1, <1>5, <1>6, <1>8, <1>10 DEF flags_sub, XFromC
<1>12. MachineOK(d) /\ ~d.fault /\ d.sr = s
  BY <1>2, <1>9, <1>11, SetSRIs
<1>13. PICK v \in Int : v = a - b
  OBVIOUS
<1>14. PICK t \in {-1, 0, 1} : (t = 0 <=> k = 0) /\ v = r + 2 * h * t
  <2>1. CASE a < b
    <3>1. k = 1 /\ v = r + 2 * h * (-1)
      BY <1>2, <1>3, <1>5, <1>13, <2>1 DEF Flag
    <3> QED BY <3>1
  <2>2. CASE ~(a < b)
    <3>1. k = 0 /\ v = r + 2 * h * 0
      BY <1>2, <1>3, <1>5, <1>13, <2>2 DEF Flag
    <3> QED BY <3>1
  <2> QED BY <2>1, <2>2
<1>15. /\ MachineOK(d) /\ ~d.fault /\ d.sr.X = (IF t = 0 THEN 0 ELSE 1) /\ d.sr.Z = Flag(r = 0)
       /\ Low(v, sz) = r
  BY <1>2, <1>3, <1>4, <1>6, <1>9, <1>12, <1>13, <1>14
<1>16. Worked(sz, h, v, d)
  BY <1>14, <1>15 DEF Worked
<1> QED BY <1>10, <1>13, <1>16

\* A result put into its register.
Placed(c, sz, r, d) == MachineOK(d) /\ ~d.fault /\ d.sr = c.sr /\ Low(d.D[1], sz) = r

LEMMA Places ==
  ASSUME NEW c, MachineOK(c), ~c.fault, NEW sz \in Sizes, NEW r \in Int, Low(r, sz) = r
  PROVE  Placed(c, sz, r, store_dn(c, 1, r, sz))
<1>1. PICK j \in 0 .. 7 : j = 1
  <2>1. 1 \in 0 .. 7
    OBVIOUS
  <2> QED BY <2>1
<1>2. Stored(c, j, r, sz, store_dn(c, j, r, sz))
  BY Stores, Zenon
<1> QED BY <1>1, <1>2 DEF Stored, Placed

LEMMA ValPlaces ==
  ASSUME NEW c, MachineOK(c), ~c.fault, NEW sz \in Sizes, NEW r \in Int, Low(r, sz) = r
  PROVE  Placed(c, sz, r, store_dn(Val(c, r), 1, r, sz)) /\ Val(c, r).val = r /\ ~Val(c, r).fault
<1>1. PICK g : g = Val(c, r)
  OBVIOUS
<1>2. LoadedVal(c, r, Val(c, r))
  BY ValLoads, Zenon
<1>3. MachineOK(g) /\ ~g.fault /\ g.sr = c.sr /\ g.val = r
  BY <1>1, <1>2 DEF LoadedVal
<1>4. Placed(g, sz, r, store_dn(g, 1, r, sz))
  BY <1>3, Places, Zenon
<1> QED BY <1>1, <1>3, <1>4 DEF Placed

\* The low half done: result, X and Z are those of the exact value e.
FirstHalf(l, sz, h, e) ==
  \E r \in 0 .. 2 * h - 1 : \E t \in {-1, 0, 1} :
    LowHalf(l, sz, r, IF t = 0 THEN 0 ELSE 1) /\ e = r + 2 * h * t

LEMMA WorkedPlaces ==
  ASSUME NEW sz \in Sizes, NEW h \in Nat \ {0}, h = 2^(Bits[sz] - 1), NEW e \in Int, NEW d,
         Worked(sz, h, e, d), NEW g, g = Val(d, Low(e, sz))
  PROVE  g.val = Low(e, sz) /\ ~g.fault /\ FirstHalf(store_dn(g, 1, Low(e, sz), sz), sz, h, e)
<1>1. PICK r \in 0 .. 2 * h - 1 : \E t \in {-1, 0, 1} :
        /\ MachineOK(d) /\ ~d.fault /\ d.sr.X = (IF t = 0 THEN 0 ELSE 1) /\ d.sr.Z = Flag(r = 0)
        /\ Low(e, sz) = r /\ e = r + 2 * h * t
  BY DEF Worked
<1>2. PICK t \in {-1, 0, 1} :
        /\ MachineOK(d) /\ ~d.fault /\ d.sr.X = (IF t = 0 THEN 0 ELSE 1) /\ d.sr.Z = Flag(r = 0)
        /\ Low(e, sz) = r /\ e = r + 2 * h * t
  BY <1>1
<1>3. PICK v \in Int : v = r
  OBVIOUS
<1>4. Low(v, sz) = v
  BY <1>3, WithinParts
<1>5. MachineOK(d) /\ ~d.fault
  BY <1>2
<1>6. Placed(d, sz, v, store_dn(Val(d, v), 1, v, sz)) /\ Val(d, v).val = v /\ ~Val(d, v).fault
  BY <1>4, <1>5, ValPlaces, Zenon
<1>7. PICK k : k = store_dn(g, 1, Low(e, sz), sz)
  OBVIOUS
<1>8. g = Val(d, v) /\ Low(e, sz) = v
  BY <1>2, <1>3
<1>9. MachineOK(k) /\ ~k.fault /\ k.sr = d.sr /\ Low(k.D[1], sz) = v
  BY <1>6, <1>7, <1>8 DEF Placed
<1>10. LowHalf(k, sz, r, IF t = 0 THEN 0 ELSE 1)
  BY <1>2, <1>3, <1>9 DEF LowHalf
<1>11. FirstHalf(k, sz, h, e)
  BY <1>2, <1>10 DEF FirstHalf
<1> QED BY <1>6, <1>7, <1>8, <1>11

LEMMA AddRuns ==
  ASSUME NEW c, MachineOK(c), ~c.fault, NEW sz \in Sizes, NEW h \in Nat \ {0}, h = 2^(Bits[sz] - 1),
         NEW a \in Int, 0 <= a, a < 2 * h, NEW b \in Int, 0 <= b, b < 2 * h, a \in Longs, b \in Longs
  PROVE  FirstHalf(Run(c, "ADD", sz, a, b), sz, h, a + b)
<1>0. PICK l : l = Run(c, "ADD", sz, a, b)
  OBVIOUS
<1>1. PICK v : /\ MachineOK(v) /\ ~v.fault /\ v.sr = c.sr /\ v.D[1] = a
               /\ l = LET r == Alu(v, "ADD", Low(a, sz), Low(b, sz), sz) IN store_dn(r, 1, r.val, sz)
  BY <1>0, RunOnRegister
<1>2. Low(a, sz) = a /\ Low(b, sz) = b
  <2>1. a \in 0 .. 2 * h - 1 /\ b \in 0 .. 2 * h - 1
    OBVIOUS
  <2> QED BY <2>1, WithinParts
<1>3. PICK e \in Int : e = a + b
  OBVIOUS
<1>4. PICK d : d = flags_add(v, a, b, e, sz)
  OBVIOUS
<1>5. MachineOK(v) /\ ~v.fault
  BY <1>1
<1>6. Worked(sz, h, a + b, flags_add(v, a, b, a + b, sz))
  BY <1>5, AddIs
<1>7. Worked(sz, h, e, d)
  BY <1>3, <1>4, <1>6
<1>8. PICK g : g = Val(d, Low(e, sz))
  OBVIOUS
<1>9. g.val = Low(e, sz) /\ ~g.fault /\ FirstHalf(store_dn(g, 1, Low(e, sz), sz), sz, h, e)
  BY <1>7, <1>8, WorkedPlaces
<1>10. Alu(v, "ADD", Low(a, sz), Low(b, sz), sz) = g
  BY <1>2, <1>3, <1>4, <1>8 DEF Alu
<1>11. l = store_dn(g, 1, Low(e, sz), sz)
  BY <1>1, <1>9, <1>10
<1> QED BY <1>0, <1>3, <1>9, <1>11

LEMMA SubRuns ==
  ASSUME NEW c, MachineOK(c), ~c.fault, NEW sz \in Sizes, NEW h \in Nat \ {0}, h = 2^(Bits[sz] - 1),
         NEW a \in Int, 0 <= a, a < 2 * h, NEW b \in Int, 0 <= b, b < 2 * h, a \in Longs, b \in Longs
  PROVE  FirstHalf(Run(c, "SUB", sz, a, b), sz, h, a - b)
<1>0. PICK l : l = Run(c, "SUB", sz, a, b)
  OBVIOUS
<1>1. PICK v : /\ MachineOK(v) /\ ~v.fault /\ v.sr = c.sr /\ v.D[1] = a
               /\ l = LET r == Alu(v, "SUB", Low(a, sz), Low(b, sz), sz) IN store_dn(r, 1, r.val, sz)
  BY <1>0, RunOnRegister
<1>2. Low(a, sz) = a /\ Low(b, sz) = b
  <2>1. a \in 0 .. 2 * h - 1 /\ b \in 0 .. 2 * h - 1
    OBVIOUS
  <2> QED BY <2>1, WithinParts
<1>3. PICK e \in Int : e = a - b
  OBVIOUS
<1>4. PICK d : d = flags_sub(v, a, b, e, sz)
  OBVIOUS
<1>5. MachineOK(v) /\ ~v.fault
  BY <1>1
<1>6. Worked(sz, h, a - b, flags_sub(v, a, b, a - b, sz))
  BY <1>5, SubIs
<1>7. Worked(sz, h, e, d)
  BY <1>3, <1>4, <1>6
<1>8. PICK g : g = Val(d, Low(e, sz))
  OBVIOUS
<1>9. g.val = Low(e, sz) /\ ~g.fault /\ FirstHalf(store_dn(g, 1, Low(e, sz), sz), sz, h, e)
  BY <1>7, <1>8, WorkedPlaces
<1>10. Alu(v, "SUB", Low(a, sz), Low(b, sz), sz) = g
  BY <1>2, <1>3, <1>4, <1>8 DEF Alu
<1>11. l = store_dn(g, 1, Low(e, sz), sz)
  BY <1>1, <1>9, <1>10
<1> QED BY <1>0, <1>3, <1>9, <1>11

Rewound(g, k) == [g EXCEPT !.er = k]

LEMMA RewoundPlaces ==
  ASSUME NEW g, MachineOK(g), ~g.fault, NEW k \in 1 .. 5, NEW sz \in Sizes, NEW r \in Int, Low(r, sz) = r
  PROVE  Placed(g, sz, r, store_dn(Rewound(g, k), 1, r, sz))
<1>1. PICK f : f = Rewound(g, k)
  OBVIOUS
<1>2. MachineOK(f) /\ ~f.fault /\ f.sr = g.sr
  BY <1>1 DEF MachineOK, Rewound
<1>3. Placed(f, sz, r, store_dn(f, 1, r, sz))
  BY <1>2, Places, Zenon
<1> QED BY <1>1, <1>2, <1>3 DEF Placed

\* NEG and NEGX of a register.
Unaried(c, mn, sz, a, l, v, k) ==
  /\ MachineOK(v) /\ ~v.fault /\ v.sr = c.sr /\ k \in 1 .. 5
  /\ \A g : g = (IF mn = "NEG" THEN Val(flags_sub(v, 0, a, -a, sz), Low(-a, sz)) ELSE negx(v, a, sz))
            => l = store_dn(Rewound(g, k), 1, g.val, sz)

LEMMA UnaryRuns ==
  ASSUME NEW c, MachineOK(c), ~c.fault, NEW mn \in {"NEG", "NEGX"}, NEW sz \in Sizes,
         NEW a \in Int, Low(a, sz) = a, a \in Longs, NEW b \in Longs
  PROVE  \E v, k : Unaried(c, mn, sz, a, Run(c, mn, sz, a, b), v, k)
<1>0. PICK m, ins : Prepared(c, mn, sz, a, b, m, ins)
  BY RunIs
<1>1. /\ ins.mn = mn /\ ins.sz = sz /\ ins.ea.mode = 0
      /\ ins.ea.reg = (IF mn \in Unary THEN 1 ELSE 0)
  BY <1>0 DEF Prepared, RegisterForm
<1>2. ins.ea.reg = 1
  BY <1>1 DEF Unary
<1>3. MachineOK(m) /\ ~m.fault /\ m.sr = c.sr /\ m.D[1] = a
  BY <1>0 DEF Prepared, LoadedWith
<1>4. Run(c, mn, sz, a, b) = exec_one(m, ins)
  BY <1>0 DEF Prepared
<1>5. exec_one(m, ins) = ExecUnary(m, ins)
  BY <1>1 DEF exec_one, Shifts, Rotates, ImmediateOp
<1>6. PICK v : v = Val(m, a)
  OBVIOUS
<1>7. LoadedVal(m, a, Val(m, a))
  <2>1. MachineOK(m) /\ ~m.fault
    BY <1>3
  <2> QED BY <2>1, ValLoads, Zenon
<1>8. MachineOK(v) /\ ~v.fault /\ v.sr = c.sr /\ v.val = a
  BY <1>3, <1>6, <1>7 DEF LoadedVal
<1>9. read_ea_ex(m, ins, ins.ea, sz, TRUE) = v
  <2>1. read_ea_ex(m, ins, ins.ea, sz, TRUE) = Val(m, m.D[ins.ea.reg])
    BY <1>1, ReadRegister
  <2> QED BY <1>2, <1>3, <1>6, <2>1
<1>10. PICK k \in 1 .. 5 : k = m.er
  BY <1>3 DEF MachineOK
<1>11. ASSUME NEW g, g = (IF mn = "NEG" THEN Val(flags_sub(v, 0, a, -a, sz), Low(-a, sz)) ELSE negx(v, a, sz))
       PROVE  ExecUnary(m, ins) = store_dn(Rewound(g, k), 1, g.val, sz)
  <2>1. ExecUnary(m, ins) = write_ea_ex(Rewound(g, k), ins, ins.ea, sz, g.val, TRUE)
    BY <1>1, <1>8, <1>9, <1>10, <1>11 DEF ExecUnary, Rmw, Computed, WrittenBack, Then, Rewound
  <2>2. write_ea_ex(Rewound(g, k), ins, ins.ea, sz, g.val, TRUE) = store_dn(Rewound(g, k), ins.ea.reg, g.val, sz)
    BY <1>1 DEF write_ea_ex
  <2> QED BY <1>2, <2>1, <2>2
<1>12. Unaried(c, mn, sz, a, Run(c, mn, sz, a, b), v, k)
  BY <1>4, <1>5, <1>8, <1>10, <1>11 DEF Unaried
<1> QED BY <1>12

LEMMA NegRuns ==
  ASSUME NEW c, MachineOK(c), ~c.fault, NEW sz \in Sizes, NEW h \in Nat \ {0}, h = 2^(Bits[sz] - 1),
         NEW a \in Int, 0 <= a, a < 2 * h, a \in Longs, NEW b \in Longs
  PROVE  FirstHalf(Run(c, "NEG", sz, a, b), sz, h, -a)
<1>0. PICK l : l = Run(c, "NEG", sz, a, b)
  OBVIOUS
<1>1. Low(a, sz) = a
  <2>1. a \in 0 .. 2 * h - 1
    OBVIOUS
  <2> QED BY <2>1, WithinParts
<1>2. PICK v, k : Unaried(c, "NEG", sz, a, l, v, k)
  BY <1>0, <1>1, UnaryRuns
<1>3. MachineOK(v) /\ ~v.fault /\ k \in 1 .. 5
  BY <1>2 DEF Unaried
<1>4. PICK z \in Int : z = 0
  OBVIOUS
<1>5. PICK e \in Int : e = z - a /\ e = -a
  BY <1>4
<1>6. PICK d : d = flags_sub(v, 0, a, e, sz)
  OBVIOUS
<1>7. Worked(sz, h, z - a, flags_sub(v, z, a, z - a, sz))
  <2>1. 0 <= z /\ z < 2 * h
    BY <1>4
  <2> QED BY <1>3, <2>1, SubIs
<1>8. Worked(sz, h, e, d)
  BY <1>4, <1>5, <1>6, <1>7
<1>9. PICK g : g = Val(d, Low(e, sz))
  OBVIOUS
<1>10. l = store_dn(Rewound(g, k), 1, g.val, sz)
  BY <1>2, <1>5, <1>6, <1>9 DEF Unaried
<1>11. PICK r \in 0 .. 2 * h - 1 : \E t \in {-1, 0, 1} :
        /\ MachineOK(d) /\ ~d.fault /\ d.sr.X = (IF t = 0 THEN 0 ELSE 1) /\ d.sr.Z = Flag(r = 0)
        /\ Low(e, sz) = r /\ e = r + 2 * h * t
  BY <1>8 DEF Worked
<1>12. PICK t \in {-1, 0, 1} :
        /\ MachineOK(d) /\ ~d.fault /\ d.sr.X = (IF t = 0 THEN 0 ELSE 1) /\ d.sr.Z = Flag(r = 0)
        /\ Low(e, sz) = r /\ e = r + 2 * h * t
  BY <1>11
<1>13. PICK w \in Int : w = r
  OBVIOUS
<1>14. Low(w, sz) = w
  BY <1>13, WithinParts
<1>15. MachineOK(d) /\ ~d.fault /\ Low(e, sz) = w
  BY <1>12, <1>13
<1>16. LoadedVal(d, w, Val(d, w))
  BY <1>15, ValLoads, Zenon
<1>17. MachineOK(g) /\ ~g.fault /\ g.sr = d.sr /\ g.val = w
  BY <1>9, <1>15, <1>16 DEF LoadedVal
<1>18. Placed(g, sz, w, store_dn(Rewound(g, k), 1, w, sz))
  BY <1>3, <1>14, <1>17, RewoundPlaces, Zenon
<1>19. MachineOK(l) /\ ~l.fault /\ l.sr = d.sr /\ Low(l.D[1], sz) = w
  BY <1>10, <1>17, <1>18 DEF Placed
<1>20. LowHalf(l, sz, r, IF t = 0 THEN 0 ELSE 1)
  BY <1>12, <1>13, <1>19 DEF LowHalf
<1>21. FirstHalf(l, sz, h, e)
  BY <1>12, <1>20 DEF FirstHalf
<1> QED BY <1>0, <1>5, <1>21

\* A half read as a signed number.
Sg(v, h) == IF v >= h THEN v - 2 * h ELSE v

\* The overflow that ADDX and SUBX see in the signs is the overflow.
AddShows(h, a, b, x, g) ==
  (a >= h <=> b >= h) /\ ~(a >= h <=> g >= h) <=> Sg(a, h) + Sg(b, h) + x # Sg(g, h)

LEMMA AddOverflow ==
  ASSUME NEW h \in Nat \ {0}, NEW a \in Int, 0 <= a, a < 2 * h, NEW b \in Int, 0 <= b, b < 2 * h,
         NEW x \in Int, 0 <= x, x <= 1, NEW g \in Int, 0 <= g, g < 2 * h,
         NEW k \in Int, k = -(2 * h) \/ k = 0 \/ k = 2 * h, a + b + x = g + k
  PROVE  AddShows(h, a, b, x, g)
<1>4. CASE a >= h /\ b >= h
  BY <1>4 DEF Sg, AddShows
<1>5. CASE a >= h /\ ~(b >= h)
  BY <1>5 DEF Sg, AddShows
<1>6. CASE ~(a >= h) /\ b >= h
  BY <1>6 DEF Sg, AddShows
<1>7. CASE ~(a >= h) /\ ~(b >= h)
  BY <1>7 DEF Sg, AddShows
<1> QED BY <1>4, <1>5, <1>6, <1>7

SubShows(h, a, b, x, g) ==
  ~(a >= h <=> b >= h) /\ ~(a >= h <=> g >= h) <=> Sg(a, h) - Sg(b, h) - x # Sg(g, h)

LEMMA SubOverflow ==
  ASSUME NEW h \in Nat \ {0}, NEW a \in Int, 0 <= a, a < 2 * h, NEW b \in Int, 0 <= b, b < 2 * h,
         NEW x \in Int, 0 <= x, x <= 1, NEW g \in Int, 0 <= g, g < 2 * h,
         NEW k \in Int, k = -(2 * h) \/ k = 0 \/ k = 2 * h, a - b - x = g + k
  PROVE  SubShows(h, a, b, x, g)
<1>4. CASE a >= h /\ b >= h
  BY <1>4 DEF Sg, SubShows
<1>5. CASE a >= h /\ ~(b >= h)
  BY <1>5 DEF Sg, SubShows
<1>6. CASE ~(a >= h) /\ b >= h
  BY <1>6 DEF Sg, SubShows
<1>7. CASE ~(a >= h) /\ ~(b >= h)
  BY <1>7 DEF Sg, SubShows
<1> QED BY <1>4, <1>5, <1>6, <1>7

\* Every value within a carry or a borrow of a half is a half and the carry.
Wraps(sz, h, f) ==
  \E g \in 0 .. 2 * h - 1 : \E t \in {-1, 0, 1} :
    Low(f, sz) = g /\ f = g + 2 * h * t /\ (t = 0 <=> f \in 0 .. 2 * h - 1)

LEMMA Wrapped ==
  ASSUME NEW sz \in Sizes, NEW h \in Nat \ {0}, h = 2^(Bits[sz] - 1), NEW f \in Int, -(2 * h) <= f, f < 4 * h
  PROVE  Wraps(sz, h, f)
<1>1. PICK g \in 0 .. 2 * h - 1 :
           /\ g = (IF f < 0 THEN f + 2 * h ELSE IF f < 2 * h THEN f ELSE f - 2 * h)
           /\ Low(f, sz) = g /\ Msb(f, sz) = (IF g >= h THEN 1 ELSE 0)
  BY NearParts
<1>2. CASE f < 0
  <2>1. PICK t \in {-1, 0, 1} : t = -1
    OBVIOUS
  <2>2. f = g + 2 * h * t /\ ~(f \in 0 .. 2 * h - 1)
    BY <1>1, <1>2, <2>1
  <2>3. Low(f, sz) = g /\ f = g + 2 * h * t /\ (t = 0 <=> f \in 0 .. 2 * h - 1)
    BY <1>1, <2>1, <2>2
  <2> QED BY <2>3 DEF Wraps
<1>3. CASE 0 <= f /\ f < 2 * h
  <2>1. PICK t \in {-1, 0, 1} : t = 0
    OBVIOUS
  <2>2. f = g + 2 * h * t /\ f \in 0 .. 2 * h - 1
    BY <1>1, <1>3, <2>1
  <2>3. Low(f, sz) = g /\ f = g + 2 * h * t /\ (t = 0 <=> f \in 0 .. 2 * h - 1)
    BY <1>1, <2>1, <2>2
  <2> QED BY <2>3 DEF Wraps
<1>4. CASE f >= 2 * h
  <2>1. PICK t \in {-1, 0, 1} : t = 1
    OBVIOUS
  <2>2. f = g + 2 * h * t /\ ~(f \in 0 .. 2 * h - 1)
    BY <1>1, <1>4, <2>1
  <2>3. Low(f, sz) = g /\ f = g + 2 * h * t /\ (t = 0 <=> f \in 0 .. 2 * h - 1)
    BY <1>1, <2>1, <2>2
  <2> QED BY <2>3 DEF Wraps
<1> QED BY <1>2, <1>3, <1>4

\* The flags of ADDX, SUBX and NEGX for the exact value f and the signed value s.
ExtWorked(z, sz, h, f, s, d) ==
  \E g \in 0 .. 2 * h - 1 : \E t \in {-1, 0, 1} :
    /\ MachineOK(d) /\ ~d.fault
    /\ Low(f, sz) = g /\ f = g + 2 * h * t
    /\ d.sr.C = (IF t = 0 THEN 0 ELSE 1) /\ d.sr.X = (IF t = 0 THEN 0 ELSE 1)
    /\ d.sr.Z = (IF g = 0 THEN z ELSE 0) /\ d.sr.N = Flag(g >= h) /\ d.sr.V = Flag(s # Sg(g, h))

LEMMA ExtendedIs ==
  ASSUME NEW c, MachineOK(c), ~c.fault, NEW sz \in Sizes, NEW h \in Nat \ {0}, h = 2^(Bits[sz] - 1),
         NEW a \in Int, 0 <= a, a < 2 * h, NEW b \in Int, 0 <= b, b < 2 * h,
         NEW adding \in BOOLEAN, NEW x \in {0, 1}, NEW f \in Int, NEW s \in Int,
         f = (IF adding THEN a + b + x ELSE a - b - x),
         s = (IF adding THEN Sg(a, h) + Sg(b, h) + x ELSE Sg(a, h) - Sg(b, h) - x)
  PROVE  ExtWorked(c.sr.Z, sz, h, f, s,
                   ExtendedFlags(c, a, b, Low(f, sz), Flag(f \notin 0 .. 2^Bits[sz] - 1), adding, sz))
<1>1. -(2 * h) <= f /\ f < 4 * h
  BY DEF Sg
<1>2. PICK g \in 0 .. 2 * h - 1 : \E t \in {-1, 0, 1} : Low(f, sz) = g /\ f = g + 2 * h * t /\ (t = 0 <=> f \in 0 .. 2 * h - 1)
  <2>1. Wraps(sz, h, f)
    BY <1>1, Wrapped
  <2> QED BY <2>1 DEF Wraps
<1>3. PICK t \in {-1, 0, 1} : Low(f, sz) = g /\ f = g + 2 * h * t /\ (t = 0 <=> f \in 0 .. 2 * h - 1)
  BY <1>2
<1>4. 2^Bits[sz] = 2 * h
  BY HalfOf
<1>5. PICK k \in {0, 1} : k = Flag(f \notin 0 .. 2^Bits[sz] - 1)
  BY FlagType
<1>6. k = (IF t = 0 THEN 0 ELSE 1)
  BY <1>3, <1>4, <1>5 DEF Flag
<1>7. a \in 0 .. 2 * h - 1 /\ b \in 0 .. 2 * h - 1
  OBVIOUS
<1>8. Msb(a, sz) = (IF a >= h THEN 1 ELSE 0) /\ Msb(b, sz) = (IF b >= h THEN 1 ELSE 0) /\ Msb(g, sz) = (IF g >= h THEN 1 ELSE 0)
  BY <1>7, WithinParts
<1>9. PICK o \in {0, 1} : o = Flag((adding <=> Msb(a, sz) = Msb(b, sz)) /\ Msb(a, sz) # Msb(g, sz))
  BY FlagType
<1>10. o = Flag(s # Sg(g, h))
  <2>3. PICK i \in Int : i = g /\ 0 <= i /\ i < 2 * h
    OBVIOUS
  <2>4. PICK j \in Int : j = 2 * h * t /\ (j = -(2 * h) \/ j = 0 \/ j = 2 * h)
    <3>1. CASE t = -1
      BY <3>1
    <3>2. CASE t = 0
      BY <3>2
    <3>3. CASE t = 1
      BY <3>3
    <3> QED BY <3>1, <3>2, <3>3
  <2>5. f = i + j
    BY <1>3, <2>3, <2>4
  <2>6. PICK y \in Int : y = x /\ 0 <= y /\ y <= 1
    OBVIOUS
  <2>1. CASE adding
    <3>0. a + b + y = i + j
      BY <2>5, <2>6, <2>1
    <3>1. AddShows(h, a, b, y, i)
      BY <2>3, <2>4, <2>6, <3>0, AddOverflow
    <3>2. (adding <=> Msb(a, sz) = Msb(b, sz)) /\ Msb(a, sz) # Msb(g, sz) <=> s # Sg(g, h)
      BY <1>8, <2>3, <2>6, <2>1, <3>1 DEF AddShows
    <3> QED BY <1>9, <3>2 DEF Flag
  <2>2. CASE ~adding
    <3>0. a - b - y = i + j
      BY <2>5, <2>6, <2>2
    <3>1. SubShows(h, a, b, y, i)
      BY <2>3, <2>4, <2>6, <3>0, SubOverflow
    <3>2. (adding <=> Msb(a, sz) = Msb(b, sz)) /\ Msb(a, sz) # Msb(g, sz) <=> s # Sg(g, h)
      BY <1>8, <2>3, <2>6, <2>2, <3>1 DEF SubShows
    <3> QED BY <1>9, <3>2 DEF Flag
  <2> QED BY <2>1, <2>2
<1>11. PICK n \in {0, 1} : n = Msb(g, sz) /\ n = Flag(g >= h)
  BY <1>8 DEF Flag
<1>12. PICK q : q = c.sr
  OBVIOUS
<1>13. SrOK(q)
  BY <1>12, SrFields
<1>14. PICK z \in {0, 1} : z = (IF g = 0 THEN q.Z ELSE 0)
  BY <1>13 DEF SrOK
<1>15. PICK y : y = [q EXCEPT !.Z = z, !.N = n, !.C = k, !.X = k, !.V = o]
  OBVIOUS
<1>16. SrOK(y) /\ y.Z = z /\ y.N = n /\ y.C = k /\ y.X = k /\ y.V = o
  BY <1>13, <1>15 DEF SrOK
<1>17. PICK d : d = ExtendedFlags(c, a, b, Low(f, sz), Flag(f \notin 0 .. 2^Bits[sz] - 1), adding, sz)
  OBVIOUS
<1>18. d = SetSR(c, y)
  BY <1>3, <1>5, <1>9, <1>11, <1>12, <1>14, <1>15, <1>17 DEF ExtendedFlags, StickyZ
<1>19. MachineOK(d) /\ ~d.fault /\ d.sr = y
  BY <1>16, <1>18, SetSRIs
<1>20. /\ d.sr.C = (IF t = 0 THEN 0 ELSE 1) /\ d.sr.X = (IF t = 0 THEN 0 ELSE 1)
       /\ d.sr.Z = (IF g = 0 THEN c.sr.Z ELSE 0) /\ d.sr.N = Flag(g >= h) /\ d.sr.V = Flag(s # Sg(g, h))
  BY <1>6, <1>10, <1>11, <1>12, <1>14, <1>16, <1>19
<1>21. ExtWorked(c.sr.Z, sz, h, f, s, d)
  BY <1>3, <1>19, <1>20 DEF ExtWorked
<1> QED BY <1>17, <1>21

\* The high half done.
HighHalf(d, z, sz, h, f, s) ==
  \E g \in 0 .. 2 * h - 1 : \E t \in {-1, 0, 1} :
    /\ Low(d.D[1], sz) = g /\ f = g + 2 * h * t
    /\ d.sr.C = (IF t = 0 THEN 0 ELSE 1) /\ d.sr.X = (IF t = 0 THEN 0 ELSE 1)
    /\ d.sr.Z = (IF g = 0 THEN z ELSE 0) /\ d.sr.N = Flag(g >= h) /\ d.sr.V = Flag(s # Sg(g, h))

LEMMA ExtPlaces ==
  ASSUME NEW sz \in Sizes, NEW h \in Nat \ {0}, h = 2^(Bits[sz] - 1), NEW f \in Int, NEW s, NEW z, NEW d,
         ExtWorked(z, sz, h, f, s, d), NEW l, Placed(d, sz, Low(f, sz), l)
  PROVE  HighHalf(l, z, sz, h, f, s)
<1>1. l.sr = d.sr /\ Low(l.D[1], sz) = Low(f, sz)
  BY DEF Placed
<1> QED BY <1>1 DEF ExtWorked, HighHalf

LEMMA ExtendedRuns ==
  ASSUME NEW c, MachineOK(c), ~c.fault, NEW sz \in Sizes, NEW h \in Nat \ {0}, h = 2^(Bits[sz] - 1),
         NEW a \in Int, 0 <= a, a < 2 * h, NEW b \in Int, 0 <= b, b < 2 * h, a \in Longs, b \in Longs,
         NEW adding \in BOOLEAN, NEW mn, mn = (IF adding THEN "ADDX" ELSE "SUBX"),
         NEW x \in {0, 1}, x = c.sr.X, NEW f \in Int, NEW s \in Int,
         f = (IF adding THEN a + b + x ELSE a - b - x),
         s = (IF adding THEN Sg(a, h) + Sg(b, h) + x ELSE Sg(a, h) - Sg(b, h) - x)
  PROVE  HighHalf(Run(c, mn, sz, a, b), c.sr.Z, sz, h, f, s)
<1>0. PICK m, ins : Prepared(c, mn, sz, a, b, m, ins)
  BY RunIs
<1>1. /\ ins.mn = mn /\ ins.sz = sz /\ ins.ea.mode = 0 /\ ins.reg = 1 /\ ~ins.predec
      /\ ins.ea.reg = (IF mn \in Unary THEN 1 ELSE 0)
  BY <1>0 DEF Prepared, RegisterForm
<1>2. ins.ea.reg = 0
  BY <1>1 DEF Unary
<1>3. MachineOK(m) /\ ~m.fault /\ m.sr = c.sr /\ m.D[1] = a /\ m.D[0] = b
  BY <1>0 DEF Prepared, LoadedWith
<1>4. Run(c, mn, sz, a, b) = exec_one(m, ins)
  BY <1>0 DEF Prepared
<1>5. exec_one(m, ins) = do_addx_subx(m, ins, adding)
  BY <1>1 DEF exec_one, Shifts, Rotates, ImmediateOp
<1>6. Low(a, sz) = a /\ Low(b, sz) = b
  <2>1. a \in 0 .. 2 * h - 1 /\ b \in 0 .. 2 * h - 1
    OBVIOUS
  <2> QED BY <2>1, WithinParts
<1>7. PICK p : p = Pair(m, a, b)
  OBVIOUS
<1>8. p.c = m /\ p.a = a /\ p.b = b
  BY <1>7 DEF Pair
<1>9. do_addx_subx(m, ins, adding) = AddedOrSubtracted(p, ins, adding)
  BY <1>1, <1>2, <1>3, <1>7 DEF do_addx_subx, OperandPair
<1>10. AddedOrSubtracted(p, ins, adding) = Extended(p, f, ins, adding)
  BY <1>1, <1>3, <1>6, <1>8 DEF AddedOrSubtracted
<1>11. PICK d : d = ExtendedFlags(m, a, b, Low(f, sz), Flag(f \notin 0 .. 2^Bits[sz] - 1), adding, sz)
  OBVIOUS
<1>12. Extended(p, f, ins, adding) = store_dn(d, 1, Low(f, sz), sz)
  BY <1>1, <1>8, <1>11 DEF Extended, PairResult
<1>13. ExtWorked(m.sr.Z, sz, h, f, s, d)
  <2>1. MachineOK(m) /\ ~m.fault
    BY <1>3
  <2> QED BY <1>11, <2>1, ExtendedIs, SMTT(40), ZenonT(30)
<1>14. PICK v \in Int : v = Low(f, sz) /\ Low(v, sz) = v
  <2>1. PICK g \in 0 .. 2 * h - 1 : Low(f, sz) = g
    BY <1>13 DEF ExtWorked
  <2> QED BY <2>1, WithinParts
<1>15. MachineOK(d) /\ ~d.fault
  BY <1>13 DEF ExtWorked
<1>16. Placed(d, sz, v, store_dn(d, 1, v, sz))
  BY <1>14, <1>15, Places, Zenon
<1>17. PICK l : l = store_dn(d, 1, v, sz)
  OBVIOUS
<1>18. Placed(d, sz, Low(f, sz), l)
  BY <1>14, <1>16, <1>17
<1>19. PICK z : z = m.sr.Z
  OBVIOUS
<1>20. HighHalf(l, z, sz, h, f, s)
  BY <1>13, <1>18, <1>19, ExtPlaces
<1> QED BY <1>3, <1>4, <1>5, <1>9, <1>10, <1>12, <1>14, <1>17, <1>19, <1>20

\* NEGX subtracts from zero, with the borrow.
NegShows(h, a, x, g) == a = h /\ x = 0 <=> -Sg(a, h) - x # Sg(g, h)

LEMMA NegOverflow ==
  ASSUME NEW h \in Nat \ {0}, NEW a \in Int, 0 <= a, a < 2 * h, NEW x \in Int, 0 <= x, x <= 1,
         NEW g \in Int, 0 <= g, g < 2 * h,
         NEW k \in Int, k = -(2 * h) \/ k = 0 \/ k = 2 * h, -(a + x) = g + k
  PROVE  NegShows(h, a, x, g)
<1>1. CASE a >= h
  BY <1>1 DEF Sg, NegShows
<1>2. CASE ~(a >= h)
  BY <1>2 DEF Sg, NegShows
<1> QED BY <1>1, <1>2

NegBorrow(h, a, x, f) == f \in 0 .. 2 * h - 1 <=> a + x = 0

LEMMA NegBorrows ==
  ASSUME NEW h \in Nat \ {0}, NEW a \in Int, 0 <= a, NEW x \in Int, 0 <= x, NEW f \in Int, f = -(a + x)
  PROVE  NegBorrow(h, a, x, f)
<1>1. 0 <= 2 * h - 1
  OBVIOUS
<1> QED BY <1>1 DEF NegBorrow

LEMMA NegxIs ==
  ASSUME NEW c, MachineOK(c), ~c.fault, NEW sz \in Sizes, NEW h \in Nat \ {0}, h = 2^(Bits[sz] - 1),
         NEW a \in Int, 0 <= a, a < 2 * h, NEW x \in {0, 1}, x = c.sr.X, NEW f \in Int, NEW s \in Int,
         f = -(a + x), s = -Sg(a, h) - x
  PROVE  \E d : ExtWorked(c.sr.Z, sz, h, f, s, d) /\ negx(c, a, sz) = Val(d, Low(f, sz))
<1>1. -(2 * h) <= f /\ f < 4 * h
  OBVIOUS
<1>2. PICK g \in 0 .. 2 * h - 1 : \E t \in {-1, 0, 1} : Low(f, sz) = g /\ f = g + 2 * h * t /\ (t = 0 <=> f \in 0 .. 2 * h - 1)
  <2>1. Wraps(sz, h, f)
    BY <1>1, Wrapped
  <2> QED BY <2>1 DEF Wraps
<1>3. PICK t \in {-1, 0, 1} : Low(f, sz) = g /\ f = g + 2 * h * t /\ (t = 0 <=> f \in 0 .. 2 * h - 1)
  BY <1>2
<1>5. PICK k \in {0, 1} : k = Flag(a + x # 0)
  BY FlagType
<1>4. t = 0 <=> f \in 0 .. 2 * h - 1
  BY <1>3
<1>6. k = (IF t = 0 THEN 0 ELSE 1)
  <2>1. x \in Int /\ 0 <= x
    OBVIOUS
  <2>2. NegBorrow(h, a, x, f)
    BY <2>1, NegBorrows
  <2>3. a + x # 0 <=> t # 0
    BY <1>4, <2>2 DEF NegBorrow
  <2> QED BY <1>5, <2>3 DEF Flag
<1>8. Msb(g, sz) = (IF g >= h THEN 1 ELSE 0)
  BY WithinParts
<1>9. PICK o \in {0, 1} : o = Flag(a = h /\ x = 0)
  BY FlagType
<1>10. o = Flag(s # Sg(g, h))
  <2>3. PICK i \in Int : i = g /\ 0 <= i /\ i < 2 * h
    OBVIOUS
  <2>4. PICK j \in Int : j = 2 * h * t /\ (j = -(2 * h) \/ j = 0 \/ j = 2 * h)
    <3>1. CASE t = -1
      BY <3>1
    <3>2. CASE t = 0
      BY <3>2
    <3>3. CASE t = 1
      BY <3>3
    <3> QED BY <3>1, <3>2, <3>3
  <2>5. f = i + j
    BY <1>3, <2>3, <2>4
  <2>6. PICK y \in Int : y = x /\ 0 <= y /\ y <= 1
    OBVIOUS
  <2>7. -(a + y) = i + j
    BY <2>5, <2>6
  <2>8. NegShows(h, a, y, i)
    BY <2>3, <2>4, <2>6, <2>7, NegOverflow
  <2>9. a = h /\ x = 0 <=> s # Sg(g, h)
    BY <2>3, <2>6, <2>8 DEF NegShows
  <2> QED BY <1>9, <2>9 DEF Flag
<1>11. PICK n \in {0, 1} : n = Msb(g, sz) /\ n = Flag(g >= h)
  BY <1>8 DEF Flag
<1>12. PICK q : q = c.sr
  OBVIOUS
<1>13. SrOK(q)
  BY <1>12, SrFields
<1>14. PICK z \in {0, 1} : z = (IF g = 0 THEN q.Z ELSE 0)
  BY <1>13 DEF SrOK
<1>15. PICK y : y = [q EXCEPT !.Z = z, !.N = n, !.C = k, !.X = k, !.V = o]
  OBVIOUS
<1>16. SrOK(y) /\ y.Z = z /\ y.N = n /\ y.C = k /\ y.X = k /\ y.V = o
  BY <1>13, <1>15 DEF SrOK
<1>17. PICK d : d = SetSR(c, y)
  OBVIOUS
<1>18. negx(c, a, sz) = Val(d, Low(f, sz))
  BY <1>3, <1>5, <1>9, <1>11, <1>12, <1>14, <1>15, <1>17 DEF negx, StickyZ
<1>19. MachineOK(d) /\ ~d.fault /\ d.sr = y
  BY <1>16, <1>17, SetSRIs
<1>20. /\ d.sr.C = (IF t = 0 THEN 0 ELSE 1) /\ d.sr.X = (IF t = 0 THEN 0 ELSE 1)
       /\ d.sr.Z = (IF g = 0 THEN c.sr.Z ELSE 0) /\ d.sr.N = Flag(g >= h) /\ d.sr.V = Flag(s # Sg(g, h))
  BY <1>6, <1>10, <1>11, <1>12, <1>14, <1>16, <1>19
<1>21. ExtWorked(c.sr.Z, sz, h, f, s, d)
  BY <1>3, <1>19, <1>20 DEF ExtWorked
<1> QED BY <1>18, <1>21

LEMMA NegxRuns ==
  ASSUME NEW c, MachineOK(c), ~c.fault, NEW sz \in Sizes, NEW h \in Nat \ {0}, h = 2^(Bits[sz] - 1),
         NEW a \in Int, 0 <= a, a < 2 * h, a \in Longs, NEW b \in Longs,
         NEW x \in {0, 1}, x = c.sr.X, NEW f \in Int, NEW s \in Int,
         f = -(a + x), s = -Sg(a, h) - x
  PROVE  HighHalf(Run(c, "NEGX", sz, a, b), c.sr.Z, sz, h, f, s)
<1>0. PICK l : l = Run(c, "NEGX", sz, a, b)
  OBVIOUS
<1>1. Low(a, sz) = a
  <2>1. a \in 0 .. 2 * h - 1
    OBVIOUS
  <2> QED BY <2>1, WithinParts
<1>2. PICK v, k : Unaried(c, "NEGX", sz, a, l, v, k)
  BY <1>0, <1>1, UnaryRuns
<1>3. MachineOK(v) /\ ~v.fault /\ k \in 1 .. 5 /\ v.sr = c.sr
  BY <1>2 DEF Unaried
<1>4. PICK d : ExtWorked(v.sr.Z, sz, h, f, s, d) /\ negx(v, a, sz) = Val(d, Low(f, sz))
  <2>1. x = v.sr.X /\ MachineOK(v) /\ ~v.fault
    BY <1>3
  <2> QED BY <2>1, NegxIs
<1>5. PICK g : g = Val(d, Low(f, sz))
  OBVIOUS
<1>6. l = store_dn(Rewound(g, k), 1, g.val, sz)
  BY <1>2, <1>4, <1>5 DEF Unaried
<1>7. PICK w \in Int : w = Low(f, sz) /\ Low(w, sz) = w
  <2>1. PICK i \in 0 .. 2 * h - 1 : Low(f, sz) = i
    BY <1>4 DEF ExtWorked
  <2> QED BY <2>1, WithinParts
<1>8. MachineOK(d) /\ ~d.fault
  BY <1>4 DEF ExtWorked
<1>9. LoadedVal(d, w, Val(d, w))
  BY <1>8, ValLoads, Zenon
<1>10. MachineOK(g) /\ ~g.fault /\ g.sr = d.sr /\ g.val = w
  BY <1>5, <1>7, <1>9 DEF LoadedVal
<1>11. Placed(g, sz, w, store_dn(Rewound(g, k), 1, w, sz))
  BY <1>3, <1>7, <1>10, RewoundPlaces, Zenon
<1>12. Placed(d, sz, Low(f, sz), l)
  BY <1>6, <1>7, <1>10, <1>11 DEF Placed
<1>13. PICK z : z = v.sr.Z
  OBVIOUS
<1>14. HighHalf(l, z, sz, h, f, s)
  BY <1>4, <1>12, <1>13, ExtPlaces
<1> QED BY <1>0, <1>3, <1>13, <1>14

(***************************************************************************)
(* The two halves as one number.                                           *)
(***************************************************************************)

\* A number of two halves; w is the size of one, h half of it.
WholeIs(h, w, g, r, q, e) ==
  /\ 0 <= e /\ e < q /\ q \in Nat \ {0}
  /\ (e = 0 <=> g = 0 /\ r = 0)
  /\ (e >= w * h <=> g >= h)

LEMMA TwoHalves ==
  ASSUME NEW h \in Nat \ {0}, NEW w \in Nat \ {0}, w = 2 * h, NEW g \in Int, 0 <= g, g < w,
         NEW r \in Int, 0 <= r, r < w, NEW q \in Int, q = w * w, NEW e \in Int, e = g * w + r
  PROVE  WholeIs(h, w, g, r, q, e)
<1>1. PICK p \in Int : p = g * w
  OBVIOUS
<1>2. 0 <= p
  BY <1>1
<1>3. p <= q - w
  <2>1. PICK j \in Nat : j = w - 1 - g
    OBVIOUS
  <2>2. q = p + w + j * w
    BY <1>1, <2>1
  <2>3. j * w >= 0 /\ j * w \in Int
    BY <2>1
  <2> QED BY <2>2, <2>3
<1>4. g # 0 => p >= w
  <2>1. ASSUME g # 0 PROVE p >= w
    <3>1. PICK j \in Nat : j = g - 1
      BY <2>1
    <3>2. p = w + j * w
      BY <1>1, <3>1
    <3>3. j * w >= 0 /\ j * w \in Int
      BY <3>1
    <3> QED BY <3>2, <3>3
  <2> QED BY <2>1
<1>5. g = 0 => p = 0
  BY <1>1
<1>6. PICK k \in Int : k = w * h
  OBVIOUS
<1>7. g >= h => p >= k
  <2>1. ASSUME g >= h PROVE p >= k
    <3>1. PICK j \in Nat : j = g - h
      BY <2>1
    <3>2. p = k + j * w
      BY <1>1, <1>6, <3>1
    <3>3. j * w >= 0 /\ j * w \in Int
      BY <3>1
    <3> QED BY <3>2, <3>3
  <2> QED BY <2>1
<1>8. g < h => p <= k - w
  <2>1. ASSUME g < h PROVE p <= k - w
    <3>1. PICK j \in Nat : j = h - 1 - g
      BY <2>1
    <3>2. k = p + w + j * w
      BY <1>1, <1>6, <3>1
    <3>3. j * w >= 0 /\ j * w \in Int
      BY <3>1
    <3> QED BY <3>2, <3>3
  <2> QED BY <2>1
<1>9. q >= w
  BY <1>2, <1>3
<1> QED BY <1>1, <1>2, <1>3, <1>4, <1>5, <1>6, <1>7, <1>8, <1>9 DEF WholeIs

\* Half of the square, where the sign of the whole begins.
LEMMA HalfOfSquare ==
  ASSUME NEW h \in Nat \ {0}, NEW w \in Nat \ {0}, w = 2 * h
  PROVE  (w * w) \div 2 = w * h
<1>1. PICK p \in Int : p = w * h
  OBVIOUS
<1>2. PICK q \in Int : q = w * w
  OBVIOUS
<1>3. q = 2 * p
  BY <1>1, <1>2
<1>4. q \div 2 = p
  BY <1>3
<1> QED BY <1>1, <1>2, <1>4

\* The sign of the whole, and what the chain must leave: the conjuncts of
\* ExtendedChain.
Halved(v, w) == IF v >= (w * w) \div 2 THEN v - w * w ELSE v
Chained(r, s, exact, signed, w) ==
  /\ r = exact % (w * w)
  /\ s.Z = Flag(r = 0) /\ s.N = Flag(Halved(r, w) < 0)
  /\ s.C = Flag(exact \notin 0 .. w * w - 1) /\ s.X = s.C
  /\ s.V = Flag(signed # Halved(r, w))

SignIs(h, w, g, r, e) == Halved(e, w) = w * Sg(g, h) + r /\ (Halved(e, w) < 0 <=> g >= h)

LEMMA SignedHalves ==
  ASSUME NEW h \in Nat \ {0}, NEW w \in Nat \ {0}, w = 2 * h, NEW g \in Int, 0 <= g, g < w,
         NEW r \in Int, 0 <= r, r < w, NEW e \in Int, e = g * w + r
  PROVE  SignIs(h, w, g, r, e)
<1>1. PICK q \in Int : q = w * w
  OBVIOUS
<1>2. 0 <= e /\ e < q /\ (e >= w * h <=> g >= h)
  BY <1>1, TwoHalves DEF WholeIs
<1>3. (w * w) \div 2 = w * h
  BY HalfOfSquare
<1>4. PICK p \in Int : p = w * g
  OBVIOUS
<1>5. e = p + r
  BY <1>4
<1>6. CASE g >= h
  <2>1. Halved(e, w) = e - q
    BY <1>1, <1>2, <1>3, <1>6 DEF Halved
  <2>2. w * Sg(g, h) = p - q
    BY <1>1, <1>4, <1>6 DEF Sg
  <2> QED BY <1>2, <1>5, <1>6, <2>1, <2>2 DEF SignIs
<1>7. CASE ~(g >= h)
  <2>1. Halved(e, w) = e
    BY <1>2, <1>3, <1>7 DEF Halved
  <2>2. w * Sg(g, h) = p
    BY <1>4, <1>7 DEF Sg
  <2> QED BY <1>2, <1>5, <1>7, <2>1, <2>2 DEF SignIs
<1> QED BY <1>6, <1>7

\* The exact value of the chain and the number that its halves make.
ExactIs(w, q, g, r, e, lo, hi, t, u, exact) == e = exact % q /\ (exact \in 0 .. q - 1 <=> u = 0)

LEMMA ExactHalves ==
  ASSUME NEW w \in Nat \ {0}, NEW q \in Int, q > 0, q = w * w, NEW g \in Int, NEW r \in Int,
         NEW e \in Int, e = g * w + r, 0 <= e, e < q,
         NEW lo \in Int, NEW hi \in Int, NEW t \in Int, NEW u \in Int, u = -1 \/ u = 0 \/ u = 1,
         lo = r + w * t, hi + t = g + w * u, NEW exact \in Int, exact = w * hi + lo
  PROVE  ExactIs(w, q, g, r, e, lo, hi, t, u, exact)
<1>1. PICK k \in Int : k = q * u
  OBVIOUS
<1>2. exact = e + k
  <2>1. hi = g + w * u - t
    OBVIOUS
  <2>2. PICK m \in Int : m = w * u
    OBVIOUS
  <2>3. hi = g + m - t
    BY <2>1, <2>2
  <2>4. w * hi = w * g + w * m - w * t
    BY <2>3
  <2>5. w * m = k
    <3>1. CASE u = -1
      BY <1>1, <2>2, <3>1
    <3>2. CASE u = 0
      BY <1>1, <2>2, <3>2
    <3>3. CASE u = 1
      BY <1>1, <2>2, <3>3
    <3> QED BY <3>1, <3>2, <3>3
  <2>6. PICK a \in Int : a = w * g
    OBVIOUS
  <2>7. PICK b \in Int : b = w * t
    OBVIOUS
  <2>8. w * hi = a + k - b /\ lo = r + b /\ e = a + r
    BY <2>4, <2>5, <2>6, <2>7
  <2> QED BY <2>8
<1>3. exact % q = e
  <2>1. e \in 0 .. q - 1 /\ exact = q * u + e /\ q \in Nat \ {0}
    BY <1>1, <1>2
  <2> QED BY <2>1, RemainderUnique
<1>4. CASE u = -1
  <2>1. k = -q
    BY <1>1, <1>4
  <2> QED BY <1>2, <1>3, <1>4, <2>1 DEF ExactIs
<1>5. CASE u = 0
  <2>1. k = 0
    BY <1>1, <1>5
  <2> QED BY <1>2, <1>3, <1>5, <2>1 DEF ExactIs
<1>6. CASE u = 1
  <2>1. k = q
    BY <1>1, <1>6
  <2> QED BY <1>2, <1>3, <1>6, <2>1 DEF ExactIs
<1> QED BY <1>4, <1>5, <1>6

LEMMA SameMultiple ==
  ASSUME NEW w \in Nat \ {0}, NEW a \in Int, NEW b \in Int
  PROVE  w * a = w * b <=> a = b
<1>1. CASE a < b
  <2>1. PICK j \in Nat : b = a + 1 + j
    <3>1. b - a - 1 \in Nat /\ b = a + 1 + (b - a - 1)
      BY <1>1
    <3> QED BY <3>1
  <2>2. w * b = w * a + w + w * j
    BY <2>1
  <2>3. w * j >= 0 /\ w * j \in Int /\ w * a \in Int
    BY <2>1
  <2> QED BY <1>1, <2>2, <2>3
<1>2. CASE b < a
  <2>1. PICK j \in Nat : a = b + 1 + j
    <3>1. a - b - 1 \in Nat /\ a = b + 1 + (a - b - 1)
      BY <1>2
    <3> QED BY <3>1
  <2>2. w * a = w * b + w + w * j
    BY <2>1
  <2>3. w * j >= 0 /\ w * j \in Int /\ w * b \in Int
    BY <2>1
  <2> QED BY <1>2, <2>2, <2>3
<1>3. CASE a = b
  BY <1>3
<1> QED BY <1>1, <1>2, <1>3

\* The two halves together are the wide operation.
Halves(l, d, sz, h, w, r, t, lo, hi, si, exact, signed) ==
  /\ r \in 0 .. 2 * h - 1 /\ t \in {-1, 0, 1} /\ lo \in Int /\ hi \in Int /\ si \in Int
  /\ LowHalf(l, sz, r, IF t = 0 THEN 0 ELSE 1) /\ lo = r + 2 * h * t
  /\ HighHalf(d, l.sr.Z, sz, h, hi + t, si + t)
  /\ exact \in Int /\ exact = w * hi + lo /\ signed \in Int /\ signed = w * si + lo

LEMMA ChainIs ==
  ASSUME NEW sz \in Sizes, NEW h \in Nat \ {0}, h = 2^(Bits[sz] - 1), NEW w \in Nat \ {0}, w = 2 * h,
         NEW l, NEW d, NEW r, NEW t, NEW lo, NEW hi, NEW si, NEW exact, NEW signed,
         Halves(l, d, sz, h, w, r, t, lo, hi, si, exact, signed)
  PROVE  Chained(Low(d.D[1], sz) * w + Low(l.D[1], sz), d.sr, exact, signed, w)
<1>0. /\ r \in 0 .. 2 * h - 1 /\ t \in {-1, 0, 1} /\ lo \in Int /\ hi \in Int /\ si \in Int
      /\ lo = r + 2 * h * t
      /\ exact \in Int /\ exact = w * hi + lo /\ signed \in Int /\ signed = w * si + lo
  BY DEF Halves
<1>1. PICK g \in 0 .. 2 * h - 1 : \E u \in {-1, 0, 1} :
        /\ Low(d.D[1], sz) = g /\ hi + t = g + 2 * h * u
        /\ d.sr.C = (IF u = 0 THEN 0 ELSE 1) /\ d.sr.X = (IF u = 0 THEN 0 ELSE 1)
        /\ d.sr.Z = (IF g = 0 THEN l.sr.Z ELSE 0) /\ d.sr.N = Flag(g >= h) /\ d.sr.V = Flag(si + t # Sg(g, h))
  BY <1>0 DEF HighHalf, Halves
<1>2. PICK u \in {-1, 0, 1} :
        /\ Low(d.D[1], sz) = g /\ hi + t = g + 2 * h * u
        /\ d.sr.C = (IF u = 0 THEN 0 ELSE 1) /\ d.sr.X = (IF u = 0 THEN 0 ELSE 1)
        /\ d.sr.Z = (IF g = 0 THEN l.sr.Z ELSE 0) /\ d.sr.N = Flag(g >= h) /\ d.sr.V = Flag(si + t # Sg(g, h))
  BY <1>0, <1>1
<1>3. Low(l.D[1], sz) = r /\ l.sr.Z = Flag(r = 0)
  BY <1>0 DEF LowHalf, Halves
<1>4. PICK gi \in Int : gi = g /\ 0 <= gi /\ gi < w
  BY <1>0
<1>5. PICK ri \in Int : ri = r /\ 0 <= ri /\ ri < w
  BY <1>0
<1>6. PICK q \in Int : q = w * w
  BY <1>0
<1>7. PICK e \in Int : e = gi * w + ri
  BY <1>0
<1>8. /\ 0 <= e /\ e < q /\ q \in Nat \ {0} /\ (e = 0 <=> gi = 0 /\ ri = 0)
  <2>1. WholeIs(h, w, gi, ri, q, e)
    BY <1>0, <1>4, <1>5, <1>6, <1>7, TwoHalves
  <2> QED BY <1>0, <2>1 DEF WholeIs
<1>9. Halved(e, w) = w * Sg(gi, h) + ri /\ (Halved(e, w) < 0 <=> gi >= h)
  <2>1. SignIs(h, w, gi, ri, e)
    BY <1>0, <1>4, <1>5, <1>7, SignedHalves
  <2> QED BY <1>0, <2>1 DEF SignIs
<1>10. PICK ti \in Int : ti = t
  BY <1>0
<1>19. PICK ui \in Int : ui = u /\ (ui = -1 \/ ui = 0 \/ ui = 1)
  BY <1>0
<1>11. lo = ri + w * ti /\ hi + ti = gi + w * ui
  BY <1>0, <1>2, <1>4, <1>5, <1>10, <1>19 DEF Halves
<1>12. e = exact % q /\ (exact \in 0 .. q - 1 <=> u = 0)
  <2>1. 0 <= e /\ e < q /\ q > 0
    BY <1>0, <1>8
  <2>2. ExactIs(w, q, gi, ri, e, lo, hi, ti, ui, exact)
    BY <1>0, <1>6, <1>7, <1>11, <1>19, <2>1, ExactHalves
  <2> QED BY <1>0, <1>19, <2>2 DEF ExactIs
<1>13. signed # Halved(e, w) <=> si + t # Sg(g, h)
  <2>1. PICK s \in Int : s = si + ti
    BY <1>0
  <2>2. PICK k \in Int : k = Sg(gi, h)
    BY <1>0 DEF Sg
  <2>3. signed = w * s + ri
    <3>1. w * s = w * si + w * ti
      BY <1>0, <2>1
    <3> QED BY <1>0, <1>11, <3>1
  <2>4. w * s = w * k <=> s = k
    BY SameMultiple
  <2>5. Halved(e, w) = w * k + ri
    BY <1>0, <1>9, <2>2
  <2>6. signed = Halved(e, w) <=> w * s = w * k
    <3>1. PICK m \in Int : m = w * s
      BY <1>0
    <3>2. PICK n \in Int : n = w * k
      BY <1>0
    <3>3. signed = m + ri /\ Halved(e, w) = n + ri
      BY <1>0, <2>3, <2>5, <3>1, <3>2
    <3>4. m + ri = n + ri <=> m = n
      BY <1>0
    <3> QED BY <1>0, <3>1, <3>2, <3>3, <3>4
  <2> QED BY <1>0, <1>4, <1>10, <2>1, <2>2, <2>4, <2>6
<1>14. Low(d.D[1], sz) * w + Low(l.D[1], sz) = e
  BY <1>0, <1>2, <1>3, <1>4, <1>5, <1>7
<1>15. d.sr.Z = Flag(e = 0) /\ d.sr.N = Flag(Halved(e, w) < 0)
  BY <1>0, <1>2, <1>3, <1>4, <1>5, <1>8, <1>9 DEF Flag
<1>16. d.sr.C = Flag(exact \notin 0 .. w * w - 1) /\ d.sr.X = d.sr.C
  BY <1>0, <1>2, <1>6, <1>12 DEF Flag
<1>17. d.sr.V = Flag(signed # Halved(e, w))
  BY <1>0, <1>2, <1>13 DEF Flag
<1>18. Chained(e, d.sr, exact, signed, w)
  BY <1>0, <1>6, <1>12, <1>15, <1>16, <1>17 DEF Chained
<1> QED BY <1>0, <1>14, <1>18

\* An operand of the chain and its halves.
PartsOf(sz, h, w, x, hi, lo) ==
  /\ x \in Int /\ hi \in Int /\ lo \in Int /\ x = hi * w + lo
  /\ 0 <= hi /\ hi < 2 * h /\ 0 <= lo /\ lo < 2 * h /\ hi \in Longs /\ lo \in Longs
  /\ Halved(x, w) = w * Sg(hi, h) + lo /\ Sg(hi, h) \in Int

LEMMA ChainParts ==
  ASSUME NEW sz \in Sizes, NEW h \in Nat \ {0}, h = 2^(Bits[sz] - 1), NEW w \in Nat \ {0}, w = 2 * h,
         w = 2^Bits[sz], NEW a \in Int, NEW x, x = a % (w * w)
  PROVE  PartsOf(sz, h, w, x, x \div w, x % w)
<1>1. PICK q \in Nat \ {0} : q = w * w
  OBVIOUS
<1>2. x \in 0 .. q - 1 /\ x \in Int
  <2>1. a % q \in 0 .. q - 1
    BY RemainderDef
  <2>2. x = a % q
    BY <1>1
  <2> QED BY <2>1, <2>2
<1>3. PICK hi \in Int : hi = x \div w
  BY <1>2, RemainderDef
<1>4. PICK lo \in 0 .. w - 1 : lo = x % w
  BY <1>2, RemainderDef
<1>5. x = hi * w + lo
  <2>1. x = w * hi + lo
    BY <1>2, <1>3, <1>4, RemainderDef
  <2> QED BY <2>1
<1>6. 0 <= hi /\ hi < w
  <2>1. x \in 0 .. w * w - 1
    BY <1>1, <1>2
  <2>2. x \div w \in 0 .. w - 1
    BY <2>1, QuotientRange
  <2> QED BY <1>3, <2>2
<1>7. PICK li \in Int : li = lo /\ 0 <= li /\ li < w
  OBVIOUS
<1>8. SignIs(h, w, hi, li, x)
  BY <1>2, <1>5, <1>6, <1>7, SignedHalves
<1>9. Halved(x, w) = w * Sg(hi, h) + li /\ Sg(hi, h) \in Int
  BY <1>8 DEF SignIs, Sg
<1>10. hi \in Longs /\ li \in Longs
  <2>1. PICK m \in Nat \ {0} : 2^Bits["L"] = w * m
    BY SizeDivides
  <2>2. w * m >= w /\ w * m \in Int
    BY <2>1
  <2> QED BY <1>6, <1>7, <2>1, <2>2 DEF Longs
<1> QED BY <1>2, <1>3, <1>4, <1>5, <1>6, <1>7, <1>9, <1>10 DEF PartsOf

LEMMA AddChain ==
  ASSUME NEW c, MachineOK(c), ~c.fault, NEW sz \in Sizes, NEW h \in Nat \ {0}, h = 2^(Bits[sz] - 1),
         NEW w \in Nat \ {0}, w = 2 * h, NEW x, NEW y, NEW xh, NEW xl, NEW yh, NEW yl,
         PartsOf(sz, h, w, x, xh, xl), PartsOf(sz, h, w, y, yh, yl),
         NEW l, l = Run(c, "ADD", sz, xl, yl), NEW d, d = Run(l, "ADDX", sz, xh, yh)
  PROVE  Chained(Low(d.D[1], sz) * w + Low(l.D[1], sz), d.sr, x + y, Halved(x, w) + Halved(y, w), w)
<1>1. /\ xh \in Int /\ 0 <= xh /\ xh < 2 * h /\ xl \in Int /\ 0 <= xl /\ xl < 2 * h
      /\ yh \in Int /\ 0 <= yh /\ yh < 2 * h /\ yl \in Int /\ 0 <= yl /\ yl < 2 * h
      /\ xh \in Longs /\ xl \in Longs /\ yh \in Longs /\ yl \in Longs
  BY DEF PartsOf
<1>2. PICK lo \in Int : lo = xl + yl
  BY <1>1
<1>3. FirstHalf(l, sz, h, lo)
  <2>1. FirstHalf(Run(c, "ADD", sz, xl, yl), sz, h, xl + yl)
    BY <1>1, AddRuns
  <2> QED BY <1>2, <2>1
<1>4. PICK r \in 0 .. 2 * h - 1 : \E t \in {-1, 0, 1} :
        LowHalf(l, sz, r, IF t = 0 THEN 0 ELSE 1) /\ lo = r + 2 * h * t
  BY <1>3 DEF FirstHalf
<1>5. PICK t \in {-1, 0, 1} : LowHalf(l, sz, r, IF t = 0 THEN 0 ELSE 1) /\ lo = r + 2 * h * t
  BY <1>4
<1>6. MachineOK(l) /\ ~l.fault
  BY <1>5 DEF LowHalf
<1>7. PICK i \in {0, 1} : i = l.sr.X /\ i = t
  <2>1. t # -1
    <3>1. CASE t = -1
      <4>1. lo = r - 2 * h
        BY <1>5, <3>1
      <4> QED BY <1>1, <1>2, <4>1
    <3> QED BY <3>1
  <2>2. l.sr.X = (IF t = 0 THEN 0 ELSE 1)
    BY <1>5 DEF LowHalf
  <2> QED BY <2>1, <2>2
<1>15. Sg(xh, h) \in Int /\ Sg(yh, h) \in Int
  BY DEF PartsOf
<1>18. PICK f \in Int : f = xh + yh + i
  BY <1>1, <1>7
<1>19. PICK s \in Int : s = Sg(xh, h) + Sg(yh, h) + i
  BY <1>7, <1>15
<1>8. f = xh + yh + i /\ s = Sg(xh, h) + Sg(yh, h) + i
  BY <1>18, <1>19
<1>9. HighHalf(d, l.sr.Z, sz, h, f, s)
  <2>1. i \in {0, 1} /\ i = l.sr.X
    BY <1>7
  <2>2. PICK adding \in BOOLEAN : adding = TRUE
    OBVIOUS
  <2>3. PICK mn : mn = (IF adding THEN "ADDX" ELSE "SUBX") /\ mn = "ADDX"
    BY <2>2
  <2>4. /\ f = (IF adding THEN xh + yh + i ELSE xh - yh - i)
        /\ s = (IF adding THEN Sg(xh, h) + Sg(yh, h) + i ELSE Sg(xh, h) - Sg(yh, h) - i)
    BY <1>8, <2>2
  <2>5. HighHalf(Run(l, mn, sz, xh, yh), l.sr.Z, sz, h, f, s)
    BY <1>1, <1>6, <2>1, <2>3, <2>4, ExtendedRuns
  <2> QED BY <2>3, <2>5
<1>10. PICK hi \in Int : hi = xh + yh
  BY <1>1
<1>11. PICK si \in Int : si = Sg(xh, h) + Sg(yh, h)
  BY <1>15
<1>12. f = hi + t /\ s = si + t
  BY <1>7, <1>8, <1>10, <1>11, <1>15, <1>1
<1>13. PICK exact \in Int : exact = x + y /\ exact = w * hi + lo
  <2>1. x \in Int /\ y \in Int /\ x = xh * w + xl /\ y = yh * w + yl
    BY DEF PartsOf
  <2>2. PICK p \in Int : p = xh * w
    BY <1>1
  <2>3. PICK m \in Int : m = yh * w
    BY <1>1
  <2>4. w * hi = p + m
    BY <1>1, <1>10, <2>2, <2>3
  <2> QED BY <1>1, <1>2, <2>1, <2>2, <2>3, <2>4
<1>14. PICK signed \in Int : signed = Halved(x, w) + Halved(y, w) /\ signed = w * si + lo
  <2>1. PICK a \in Int : a = Sg(xh, h)
    BY <1>15
  <2>2. PICK b \in Int : b = Sg(yh, h)
    BY <1>15
  <2>3. PICK n \in Int : n = w * a
    OBVIOUS
  <2>4. PICK o \in Int : o = w * b
    OBVIOUS
  <2>5. Halved(x, w) = n + xl /\ Halved(y, w) = o + yl
    BY <2>1, <2>2, <2>3, <2>4 DEF PartsOf
  <2>6. w * si = n + o
    BY <1>11, <2>1, <2>2, <2>3, <2>4
  <2> QED BY <1>1, <1>2, <2>3, <2>4, <2>5, <2>6
<1>16. Halves(l, d, sz, h, w, r, t, lo, hi, si, exact, signed)
  BY <1>5, <1>9, <1>12, <1>13, <1>14 DEF Halves
<1>17. Chained(Low(d.D[1], sz) * w + Low(l.D[1], sz), d.sr, exact, signed, w)
  BY <1>16, ChainIs
<1> QED BY <1>13, <1>14, <1>17

LEMMA SubChain ==
  ASSUME NEW c, MachineOK(c), ~c.fault, NEW sz \in Sizes, NEW h \in Nat \ {0}, h = 2^(Bits[sz] - 1),
         NEW w \in Nat \ {0}, w = 2 * h, NEW x, NEW y, NEW xh, NEW xl, NEW yh, NEW yl,
         PartsOf(sz, h, w, x, xh, xl), PartsOf(sz, h, w, y, yh, yl),
         NEW l, l = Run(c, "SUB", sz, xl, yl), NEW d, d = Run(l, "SUBX", sz, xh, yh)
  PROVE  Chained(Low(d.D[1], sz) * w + Low(l.D[1], sz), d.sr, x - y, Halved(x, w) - Halved(y, w), w)
<1>1. /\ xh \in Int /\ 0 <= xh /\ xh < 2 * h /\ xl \in Int /\ 0 <= xl /\ xl < 2 * h
      /\ yh \in Int /\ 0 <= yh /\ yh < 2 * h /\ yl \in Int /\ 0 <= yl /\ yl < 2 * h
      /\ xh \in Longs /\ xl \in Longs /\ yh \in Longs /\ yl \in Longs
  BY DEF PartsOf
<1>2. PICK lo \in Int : lo = xl - yl
  BY <1>1
<1>3. FirstHalf(l, sz, h, lo)
  <2>1. FirstHalf(Run(c, "SUB", sz, xl, yl), sz, h, xl - yl)
    BY <1>1, SubRuns
  <2> QED BY <1>2, <2>1
<1>4. PICK r \in 0 .. 2 * h - 1 : \E t \in {-1, 0, 1} :
        LowHalf(l, sz, r, IF t = 0 THEN 0 ELSE 1) /\ lo = r + 2 * h * t
  BY <1>3 DEF FirstHalf
<1>5. PICK t \in {-1, 0, 1} : LowHalf(l, sz, r, IF t = 0 THEN 0 ELSE 1) /\ lo = r + 2 * h * t
  BY <1>4
<1>6. MachineOK(l) /\ ~l.fault
  BY <1>5 DEF LowHalf
<1>7. PICK i \in {0, 1} : i = l.sr.X /\ i = -t
  <2>1. t # 1
    <3>1. CASE t = 1
      <4>1. lo = r + 2 * h
        BY <1>5, <3>1
      <4> QED BY <1>1, <1>2, <4>1
    <3> QED BY <3>1
  <2>2. l.sr.X = (IF t = 0 THEN 0 ELSE 1)
    BY <1>5 DEF LowHalf
  <2> QED BY <2>1, <2>2
<1>15. Sg(xh, h) \in Int /\ Sg(yh, h) \in Int
  BY DEF PartsOf
<1>18. PICK f \in Int : f = xh - yh - i
  BY <1>1, <1>7
<1>19. PICK s \in Int : s = Sg(xh, h) - Sg(yh, h) - i
  BY <1>7, <1>15
<1>8. f = xh - yh - i /\ s = Sg(xh, h) - Sg(yh, h) - i
  BY <1>18, <1>19
<1>9. HighHalf(d, l.sr.Z, sz, h, f, s)
  <2>1. i \in {0, 1} /\ i = l.sr.X
    BY <1>7
  <2>2. PICK adding \in BOOLEAN : adding = FALSE
    OBVIOUS
  <2>3. PICK mn : mn = (IF adding THEN "ADDX" ELSE "SUBX") /\ mn = "SUBX"
    BY <2>2
  <2>4. /\ f = (IF adding THEN xh + yh + i ELSE xh - yh - i)
        /\ s = (IF adding THEN Sg(xh, h) + Sg(yh, h) + i ELSE Sg(xh, h) - Sg(yh, h) - i)
    BY <1>8, <2>2
  <2>5. HighHalf(Run(l, mn, sz, xh, yh), l.sr.Z, sz, h, f, s)
    BY <1>1, <1>6, <2>1, <2>3, <2>4, ExtendedRuns
  <2> QED BY <2>3, <2>5
<1>10. PICK hi \in Int : hi = xh - yh
  BY <1>1
<1>11. PICK si \in Int : si = Sg(xh, h) - Sg(yh, h)
  BY <1>15
<1>12. f = hi + t /\ s = si + t
  BY <1>7, <1>8, <1>10, <1>11, <1>15, <1>1
<1>13. PICK exact \in Int : exact = x - y /\ exact = w * hi + lo
  <2>1. x \in Int /\ y \in Int /\ x = xh * w + xl /\ y = yh * w + yl
    BY DEF PartsOf
  <2>2. PICK p \in Int : p = xh * w
    BY <1>1
  <2>3. PICK m \in Int : m = yh * w
    BY <1>1
  <2>4. w * hi = p - m
    BY <1>1, <1>10, <2>2, <2>3
  <2> QED BY <1>1, <1>2, <2>1, <2>2, <2>3, <2>4
<1>14. PICK signed \in Int : signed = Halved(x, w) - Halved(y, w) /\ signed = w * si + lo
  <2>1. PICK a \in Int : a = Sg(xh, h)
    BY <1>15
  <2>2. PICK b \in Int : b = Sg(yh, h)
    BY <1>15
  <2>3. PICK n \in Int : n = w * a
    OBVIOUS
  <2>4. PICK o \in Int : o = w * b
    OBVIOUS
  <2>5. Halved(x, w) = n + xl /\ Halved(y, w) = o + yl
    BY <2>1, <2>2, <2>3, <2>4 DEF PartsOf
  <2>6. w * si = n - o
    BY <1>11, <2>1, <2>2, <2>3, <2>4
  <2> QED BY <1>1, <1>2, <2>3, <2>4, <2>5, <2>6
<1>16. Halves(l, d, sz, h, w, r, t, lo, hi, si, exact, signed)
  BY <1>5, <1>9, <1>12, <1>13, <1>14 DEF Halves
<1>17. Chained(Low(d.D[1], sz) * w + Low(l.D[1], sz), d.sr, exact, signed, w)
  BY <1>16, ChainIs
<1> QED BY <1>13, <1>14, <1>17

LEMMA NegChain ==
  ASSUME NEW c, MachineOK(c), ~c.fault, NEW sz \in Sizes, NEW h \in Nat \ {0}, h = 2^(Bits[sz] - 1),
         NEW w \in Nat \ {0}, w = 2 * h, NEW x, NEW y, NEW xh, NEW xl, NEW yh, NEW yl,
         PartsOf(sz, h, w, x, xh, xl), PartsOf(sz, h, w, y, yh, yl),
         NEW l, l = Run(c, "NEG", sz, xl, yl), NEW d, d = Run(l, "NEGX", sz, xh, yh)
  PROVE  Chained(Low(d.D[1], sz) * w + Low(l.D[1], sz), d.sr, -x, -Halved(x, w), w)
<1>1. /\ xh \in Int /\ 0 <= xh /\ xh < 2 * h /\ xl \in Int /\ 0 <= xl /\ xl < 2 * h
      /\ yh \in Int /\ 0 <= yh /\ yh < 2 * h /\ yl \in Int /\ 0 <= yl /\ yl < 2 * h
      /\ xh \in Longs /\ xl \in Longs /\ yh \in Longs /\ yl \in Longs
  BY DEF PartsOf
<1>2. PICK lo \in Int : lo = -xl
  BY <1>1
<1>3. FirstHalf(l, sz, h, lo)
  <2>1. FirstHalf(Run(c, "NEG", sz, xl, yl), sz, h, -xl)
    BY <1>1, NegRuns
  <2> QED BY <1>2, <2>1
<1>4. PICK r \in 0 .. 2 * h - 1 : \E t \in {-1, 0, 1} :
        LowHalf(l, sz, r, IF t = 0 THEN 0 ELSE 1) /\ lo = r + 2 * h * t
  BY <1>3 DEF FirstHalf
<1>5. PICK t \in {-1, 0, 1} : LowHalf(l, sz, r, IF t = 0 THEN 0 ELSE 1) /\ lo = r + 2 * h * t
  BY <1>4
<1>6. MachineOK(l) /\ ~l.fault
  BY <1>5 DEF LowHalf
<1>7. PICK i \in {0, 1} : i = l.sr.X /\ i = -t
  <2>1. t # 1
    <3>1. CASE t = 1
      <4>1. lo = r + 2 * h
        BY <1>5, <3>1
      <4> QED BY <1>1, <1>2, <4>1
    <3> QED BY <3>1
  <2>2. l.sr.X = (IF t = 0 THEN 0 ELSE 1)
    BY <1>5 DEF LowHalf
  <2> QED BY <2>1, <2>2
<1>15. Sg(xh, h) \in Int /\ Sg(yh, h) \in Int
  BY DEF PartsOf
<1>18. PICK f \in Int : f = -(xh + i)
  BY <1>1, <1>7
<1>19. PICK s \in Int : s = -Sg(xh, h) - i
  BY <1>7, <1>15
<1>8. f = -(xh + i) /\ s = -Sg(xh, h) - i
  BY <1>18, <1>19
<1>9. HighHalf(d, l.sr.Z, sz, h, f, s)
  <2>1. i \in {0, 1} /\ i = l.sr.X
    BY <1>7
  <2> QED BY <1>1, <1>6, <1>8, <2>1, NegxRuns
<1>10. PICK hi \in Int : hi = -xh
  BY <1>1
<1>11. PICK si \in Int : si = -Sg(xh, h)
  BY <1>15
<1>12. f = hi + t /\ s = si + t
  BY <1>7, <1>8, <1>10, <1>11, <1>15, <1>1
<1>13. PICK exact \in Int : exact = -x /\ exact = w * hi + lo
  <2>1. x \in Int /\ y \in Int /\ x = xh * w + xl /\ y = yh * w + yl
    BY DEF PartsOf
  <2>2. PICK p \in Int : p = xh * w
    BY <1>1
  <2>3. PICK m \in Int : m = yh * w
    BY <1>1
  <2>4. w * hi = -p
    BY <1>1, <1>10, <2>2, <2>3
  <2> QED BY <1>1, <1>2, <2>1, <2>2, <2>3, <2>4
<1>14. PICK signed \in Int : signed = -Halved(x, w) /\ signed = w * si + lo
  <2>1. PICK a \in Int : a = Sg(xh, h)
    BY <1>15
  <2>2. PICK b \in Int : b = Sg(yh, h)
    BY <1>15
  <2>3. PICK n \in Int : n = w * a
    OBVIOUS
  <2>4. PICK o \in Int : o = w * b
    OBVIOUS
  <2>5. Halved(x, w) = n + xl /\ Halved(y, w) = o + yl
    BY <2>1, <2>2, <2>3, <2>4 DEF PartsOf
  <2>6. w * si = -n
    BY <1>11, <2>1, <2>2, <2>3, <2>4
  <2> QED BY <1>1, <1>2, <2>3, <2>4, <2>5, <2>6
<1>16. Halves(l, d, sz, h, w, r, t, lo, hi, si, exact, signed)
  BY <1>5, <1>9, <1>12, <1>13, <1>14 DEF Halves
<1>17. Chained(Low(d.D[1], sz) * w + Low(l.D[1], sz), d.sr, exact, signed, w)
  BY <1>16, ChainIs
<1> QED BY <1>13, <1>14, <1>17

LEMMA ChainHolds ==
  ASSUME InterpInv
  PROVE  ExtendedChain
<1> DEFINE W(sz) == 2^Bits[sz]
           X(sz, a) == a % (W(sz) * W(sz))
           Q(mn, u, v) == Wide[mn].a * u + Wide[mn].b * v
<1> SUFFICES ASSUME Fresh, NEW sz \in {"B", "W"}, NEW a \in Operands, NEW b \in Operands, NEW mn \in DOMAIN Wide
             PROVE  \A l \in {Run(cpu, mn, sz, X(sz, a) % W(sz), X(sz, b) % W(sz))} :
                    \A d \in {Run(l, Wide[mn].then, sz, X(sz, a) \div W(sz), X(sz, b) \div W(sz))} :
                      Chained(Low(d.D[1], sz) * W(sz) + Low(l.D[1], sz), d.sr, Q(mn, X(sz, a), X(sz, b)),
                              Q(mn, Halved(X(sz, a), W(sz)), Halved(X(sz, b), W(sz))), W(sz))
  BY Zenon DEF ExtendedChain, Chained, Halved
<1> SUFFICES ASSUME NEW l, l = Run(cpu, mn, sz, X(sz, a) % W(sz), X(sz, b) % W(sz)),
                    NEW d, d = Run(l, Wide[mn].then, sz, X(sz, a) \div W(sz), X(sz, b) \div W(sz))
             PROVE  Chained(Low(d.D[1], sz) * W(sz) + Low(l.D[1], sz), d.sr, Q(mn, X(sz, a), X(sz, b)),
                            Q(mn, Halved(X(sz, a), W(sz)), Halved(X(sz, b), W(sz))), W(sz))
  OBVIOUS
<1>1. MachineOK(cpu) /\ ~cpu.fault
  BY DEF InterpInv, Fresh
<1>2. sz \in Sizes
  BY DEF Sizes
<1>3. PICK h : h = 2^(Bits[sz] - 1)
  OBVIOUS
<1>4. h \in Nat \ {0} /\ 2^Bits[sz] = 2 * h /\ 2 * h \in Nat \ {0}
  BY <1>2, <1>3, HalfOf
<1>5. PICK w \in Nat \ {0} : w = 2 * h /\ w = 2^Bits[sz]
  BY <1>4
<1>6. a \in Int /\ b \in Int
  BY InterpAssumption, LongsInt
<1>7. PICK x : x = a % (w * w)
  OBVIOUS
<1>8. PICK y : y = b % (w * w)
  OBVIOUS
<1>9. PartsOf(sz, h, w, x, x \div w, x % w) /\ PartsOf(sz, h, w, y, y \div w, y % w)
  BY <1>2, <1>3, <1>4, <1>5, <1>6, <1>7, <1>8, ChainParts
<1>10. PICK xh : xh = x \div w
  OBVIOUS
<1>11. PICK xl : xl = x % w
  OBVIOUS
<1>12. PICK yh : yh = y \div w
  OBVIOUS
<1>13. PICK yl : yl = y % w
  OBVIOUS
<1>14. PartsOf(sz, h, w, x, xh, xl) /\ PartsOf(sz, h, w, y, yh, yl)
  BY <1>9, <1>10, <1>11, <1>12, <1>13
<1>15. x = X(sz, a) /\ y = X(sz, b) /\ w = W(sz)
  BY <1>5, <1>7, <1>8
<1>16. l = Run(cpu, mn, sz, xl, yl) /\ d = Run(l, Wide[mn].then, sz, xh, yh)
  BY <1>10, <1>11, <1>12, <1>13, <1>15
<1> HIDE DEF W, X, Q
<1>17. PICK p \in Int : p = Halved(x, w)
  BY <1>14 DEF PartsOf
<1>18. PICK q \in Int : q = Halved(y, w)
  BY <1>14 DEF PartsOf
<1>19. x \in Int /\ y \in Int
  BY <1>14 DEF PartsOf
<1>20. CASE mn = "ADD"
  <2>1. Wide[mn].then = "ADDX" /\ Wide[mn].a = 1 /\ Wide[mn].b = 1
    BY <1>20 DEF Wide
  <2>2. Q(mn, x, y) = x + y /\ Q(mn, p, q) = p + q
    BY <1>19, <2>1 DEF Q
  <2>3. l = Run(cpu, "ADD", sz, xl, yl) /\ d = Run(l, "ADDX", sz, xh, yh)
    BY <1>16, <1>20, <2>1
  <2>4. Chained(Low(d.D[1], sz) * w + Low(l.D[1], sz), d.sr, x + y, Halved(x, w) + Halved(y, w), w)
    BY <1>1, <1>2, <1>3, <1>4, <1>5, <1>14, <2>3, AddChain
  <2> QED BY <1>15, <1>17, <1>18, <2>2, <2>4
<1>21. CASE mn = "SUB"
  <2>1. Wide[mn].then = "SUBX" /\ Wide[mn].a = 1 /\ Wide[mn].b = -1
    BY <1>21 DEF Wide
  <2>2. Q(mn, x, y) = x - y /\ Q(mn, p, q) = p - q
    BY <1>19, <2>1 DEF Q
  <2>3. l = Run(cpu, "SUB", sz, xl, yl) /\ d = Run(l, "SUBX", sz, xh, yh)
    BY <1>16, <1>21, <2>1
  <2>4. Chained(Low(d.D[1], sz) * w + Low(l.D[1], sz), d.sr, x - y, Halved(x, w) - Halved(y, w), w)
    BY <1>1, <1>2, <1>3, <1>4, <1>5, <1>14, <2>3, SubChain
  <2> QED BY <1>15, <1>17, <1>18, <2>2, <2>4
<1>22. CASE mn = "NEG"
  <2>1. Wide[mn].then = "NEGX" /\ Wide[mn].a = -1 /\ Wide[mn].b = 0
    BY <1>22 DEF Wide
  <2>2. Q(mn, x, y) = -x /\ Q(mn, p, q) = -p
    BY <1>19, <2>1 DEF Q
  <2>3. l = Run(cpu, "NEG", sz, xl, yl) /\ d = Run(l, "NEGX", sz, xh, yh)
    BY <1>16, <1>22, <2>1
  <2>4. Chained(Low(d.D[1], sz) * w + Low(l.D[1], sz), d.sr, -x, -Halved(x, w), w)
    BY <1>1, <1>2, <1>3, <1>4, <1>5, <1>14, <2>3, NegChain
  <2> QED BY <1>15, <1>17, <1>18, <2>2, <2>4
<1>23. mn \in {"ADD", "SUB", "NEG"}
  BY DEF Wide
<1> QED BY <1>20, <1>21, <1>22, <1>23

\* A chain of two over the halves of a number is the wide operation: ADD then
\* ADDX, SUB then SUBX and NEG then NEGX, on bytes and on words, leave the two
\* halves of the exact sum, difference or negation and the flags of the whole:
\* carry and borrow, overflow, sign, and Z through both instructions.
THEOREM ChainsAreWide == Spec => []ExtendedChain
<1>1. InterpInv => ExtendedChain
  BY ChainHolds
<1> QED BY <1>1, InterpInvariant, PTL

(***************************************************************************)
(* Decimal arithmetic.                                                     *)
(***************************************************************************)
LEMMA ByteIsTwoDigits ==
  /\ "B" \in Sizes /\ 2^Bits["B"] = 2^ByteBits /\ 2^ByteBits = Radix * Radix
<1>1. PICK n \in Nat : ByteBits = n + n /\ n = ByteBits \div 2
  <2>1. PICK b \in Nat : b = ByteBits /\ b % 2 = 0
    BY InterpAssumption
  <2>2. PICK n \in Int : n = b \div 2
    BY RemainderDef
  <2>3. b = 2 * n + 0
    BY <2>1, <2>2, RemainderDef
  <2>4. n \in Nat /\ b = n + n
    BY <2>3
  <2> QED BY <2>1, <2>2, <2>4
<1>2. 2^(n + n) = 2^n * 2^n
  BY PowerAdd
<1> QED BY <1>1, <1>2 DEF Radix, Bits, Sizes

\* A packed number and its two digits.
Digits(v, x, y) == /\ x \in Int /\ y \in Int /\ 0 <= x /\ x < Ten /\ 0 <= y /\ y < Ten
                   /\ v = x * Radix + y

LEMMA DigitsPacked ==
  ASSUME NEW v, NEW x, NEW y, Digits(v, x, y)
  PROVE  /\ v \in Int /\ v \in 0 .. 2^ByteBits - 1 /\ v % Radix = y /\ v \div Radix = x
         /\ Low(v, "B") = v /\ (v = 0 <=> x = 0 /\ y = 0)
<1>1. PICK w \in Nat \ {0} : w = Radix
  BY RadixType
<1>2. Ten \in Int /\ Ten <= w
  BY <1>1, InterpAssumption
<1>3. /\ x \in Int /\ y \in Int /\ 0 <= x /\ x < w /\ 0 <= y /\ y < w /\ v = x * w + y
  BY <1>1, <1>2 DEF Digits
<1>4. v = w * x + y /\ v \in Int /\ y \in 0 .. w - 1
  BY <1>3
<1>5. v % w = y /\ v \div w = x
  BY <1>3, <1>4, QuotientUnique
<1>6. PICK q \in Int : q = w * w
  OBVIOUS
<1>7. PICK p \in Int : p = w * x
  BY <1>3
<1>8. 0 <= p /\ p <= q - w /\ (x # 0 => p >= w) /\ (x = 0 => p = 0)
  <2>1. PICK j \in Nat : j = w - 1 - x
    BY <1>3
  <2>2. q = p + w + w * j
    BY <1>3, <1>6, <1>7, <2>1
  <2>3. w * j >= 0 /\ w * j \in Int
    BY <2>1
  <2>4. x # 0 => p >= w
    <3>1. ASSUME x # 0 PROVE p >= w
      <4>1. PICK i \in Nat : i = x - 1
        BY <1>3, <3>1
      <4>2. p = w + w * i
        BY <1>3, <1>7, <4>1
      <4>3. w * i >= 0 /\ w * i \in Int
        BY <4>1
      <4> QED BY <4>2, <4>3
    <3> QED BY <3>1
  <2>5. x = 0 => p = 0
    BY <1>7
  <2>6. 0 <= p
    BY <1>3, <2>4, <2>5
  <2> QED BY <2>2, <2>3, <2>4, <2>5, <2>6
<1>9. v = p + y /\ v \in 0 .. q - 1
  BY <1>3, <1>4, <1>7, <1>8
<1>10. v = 0 <=> x = 0 /\ y = 0
  BY <1>3, <1>8, <1>9
<1>11. 2^ByteBits = q /\ 2^Bits["B"] = q /\ q \in Nat \ {0}
  BY <1>1, <1>6, <1>8, <1>9, ByteIsTwoDigits
<1>12. v % q = v
  <2>1. v = q * 0 + v /\ 0 \in Int
    BY <1>4
  <2> QED BY <1>4, <1>9, <1>11, <2>1, RemainderUnique
<1> QED BY <1>1, <1>4, <1>5, <1>9, <1>10, <1>11, <1>12 DEF Low

LEMMA PackedDigits ==
  ASSUME NEW v \in 0 .. 2^ByteBits - 1, v % Radix < Ten, v \div Radix < Ten
  PROVE  Digits(v, v \div Radix, v % Radix)
<1>1. PICK w \in Nat \ {0} : w = Radix
  BY RadixType
<1>2. v \in Int /\ v \in 0 .. w * w - 1
  BY <1>1, ByteIsTwoDigits, RadixType
<1>3. v \div w \in 0 .. w - 1 /\ v % w \in 0 .. w - 1 /\ v = w * (v \div w) + (v % w)
  BY <1>2, QuotientRange
<1>4. PICK x \in Int : x = v \div w
  BY <1>3
<1>5. PICK y \in Int : y = v % w
  BY <1>3
<1>6. v = x * w + y /\ 0 <= x /\ 0 <= y
  BY <1>3, <1>4, <1>5
<1> QED BY <1>1, <1>4, <1>5, <1>6 DEF Digits

\* What a decimal operation must compute: the digits of the exact value, with
\* a carry or a borrow of a hundred.
DecimalIs(s, e) ==
  \E x, y : \E t \in {-1, 0, 1} :
    /\ Digits(s.r, x, y) /\ s.c = (IF t = 0 THEN 0 ELSE 1)
    /\ e = (x * Ten + y) + (Ten * Ten) * t

\* One digit, with the carry out of it.
LEMMA CarryDigit ==
  ASSUME NEW w \in Nat \ {0}, NEW n \in Nat \ {0}, n <= w, NEW v \in Int, 0 <= v, v < 2 * n,
         NEW z, z = (IF v >= n THEN v + (w - n) ELSE v)
  PROVE  \E k \in {0, 1}, y \in Int : /\ 0 <= y /\ y < n /\ v = y + n * k /\ z = y + w * k /\ z \in Int
                                      /\ z \div w = k /\ z % w = y /\ (k = 1 <=> v >= n)
<1>1. CASE v >= n
  <2>1. PICK y \in Int : y = v - n
    OBVIOUS
  <2>2. z \in Int /\ y \in 0 .. w - 1 /\ z = w * 1 + y /\ 1 \in Int
    BY <1>1, <2>1
  <2>3. z \div w = 1 /\ z % w = y
    BY <2>2, QuotientUnique
  <2>4. 0 <= y /\ y < n /\ v = y + n * 1 /\ z = y + w * 1
    BY <1>1, <2>1, <2>2
  <2> QED BY <1>1, <2>2, <2>3, <2>4
<1>2. CASE ~(v >= n)
  <2>2. z \in Int /\ v \in 0 .. w - 1 /\ z = w * 0 + v /\ 0 \in Int
    BY <1>2
  <2>3. z \div w = 0 /\ z % w = v
    BY <2>2, QuotientUnique
  <2>4. 0 <= v /\ v < n /\ v = v + n * 0 /\ z = v + w * 0
    BY <1>2, <2>2
  <2> QED BY <1>2, <2>2, <2>3, <2>4
<1> QED BY <1>1, <1>2

LEMMA BcdAddIs ==
  ASSUME NEW a, NEW a1, NEW a0, Digits(a, a1, a0), NEW b, NEW b1, NEW b0, Digits(b, b1, b0),
         NEW x \in {0, 1}, NEW e, e = (a1 * Ten + a0) + (b1 * Ten + b0) + x
  PROVE  DecimalIs(bcd_add(a, b, x), e)
<1>1. PICK w \in Nat \ {0} : w = Radix
  BY RadixType
<1>2. PICK n \in Nat \ {0} : n = Ten /\ n <= w
  BY <1>1, InterpAssumption
<1>3. /\ a1 \in Int /\ a0 \in Int /\ 0 <= a1 /\ a1 < n /\ 0 <= a0 /\ a0 < n
      /\ b1 \in Int /\ b0 \in Int /\ 0 <= b1 /\ b1 < n /\ 0 <= b0 /\ b0 < n
  BY <1>2 DEF Digits
<1>4. a % w = a0 /\ a \div w = a1 /\ b % w = b0 /\ b \div w = b1
  BY <1>1, DigitsPacked
<1>5. PICK lo \in Int : lo = a0 + b0 + x
  BY <1>3
<1>6. PICK lo2 : lo2 = (IF lo >= n THEN lo + (w - n) ELSE lo)
  OBVIOUS
<1>7. PICK k \in {0, 1}, y \in Int : /\ 0 <= y /\ y < n /\ lo = y + n * k /\ lo2 = y + w * k /\ lo2 \in Int
                                     /\ lo2 \div w = k /\ lo2 % w = y /\ (k = 1 <=> lo >= n)
  <2>1. 0 <= lo /\ lo < 2 * n
    BY <1>3, <1>5
  <2> QED BY <1>2, <1>6, <2>1, CarryDigit
<1>8. PICK hi \in Int : hi = a1 + b1 + k
  BY <1>3
<1>9. PICK h2 : h2 = (IF hi >= n THEN hi + (w - n) ELSE hi)
  OBVIOUS
<1>10. PICK u \in {0, 1}, z \in Int : /\ 0 <= z /\ z < n /\ hi = z + n * u /\ h2 = z + w * u /\ h2 \in Int
                                      /\ h2 \div w = u /\ h2 % w = z /\ (u = 1 <=> hi >= n)
  <2>1. 0 <= hi /\ hi < 2 * n
    BY <1>3, <1>8
  <2> QED BY <1>2, <1>9, <2>1, CarryDigit
<1>11. PICK r \in Int : r = z * w + y
  OBVIOUS
<1>12. Digits(r, z, y)
  BY <1>1, <1>2, <1>7, <1>10, <1>11 DEF Digits
<1>13. PICK full \in Int : full = h2 * w + y
  BY <1>10
<1>14. PICK q \in Nat \ {0} : q = w * w /\ q = 2^ByteBits /\ q = 2^Bits["B"]
  BY <1>1, ByteIsTwoDigits, RadixType
<1>15. full = q * u + r /\ u \in Int
  <2>1. CASE u = 0
    BY <1>10, <1>11, <1>13, <1>14, <2>1
  <2>2. CASE u = 1
    <3>1. h2 = z + w
      BY <1>10, <2>2
    <3>2. h2 * w = z * w + q
      BY <1>10, <1>14, <3>1
    <3> QED BY <1>11, <1>13, <1>14, <2>2, <3>2
  <2> QED BY <2>1, <2>2
<1>16. r \in 0 .. q - 1
  BY <1>12, <1>14, DigitsPacked
<1>17. full % q = r /\ full \div q = u
  BY <1>15, <1>16, QuotientUnique
<1>18. Low(full, "B") = r /\ (full \div 2^ByteBits) % 2 = u
  <2>1. u % 2 = u
    BY <1>15
  <2> QED BY <1>14, <1>17, <2>1 DEF Low
<1>19. PICK s : s = bcd_add(a, b, x)
  OBVIOUS
<1>20. s = [r |-> r, c |-> u]
  BY <1>1, <1>2, <1>4, <1>5, <1>6, <1>7, <1>8, <1>9, <1>10, <1>13, <1>18, <1>19 DEF bcd_add, Adjust
<1>21. e = (z * n + y) + (n * n) * u
  <2>1. PICK p \in Int : p = a1 * n + b1 * n
    BY <1>3
  <2>2. e = p + lo
    BY <1>2, <1>3, <1>5, <2>1
  <2>3. n * hi = p + n * k
    BY <1>3, <1>8, <2>1
  <2>4. PICK i \in Int : i = n * k
    BY <1>7
  <2>5. e = n * hi + y
    BY <1>7, <2>1, <2>2, <2>3, <2>4
  <2>6. n * hi = n * z + n * (n * u)
    BY <1>10
  <2>7. n * (n * u) = (n * n) * u
    BY <1>10
  <2> QED BY <1>7, <1>10, <2>5, <2>6, <2>7
<1>22. PICK t \in {-1, 0, 1} : t = u
  BY <1>10
<1>23. Digits(s.r, z, y) /\ s.c = (IF t = 0 THEN 0 ELSE 1) /\ e = (z * Ten + y) + (Ten * Ten) * t
  BY <1>2, <1>12, <1>20, <1>21, <1>22
<1>24. DecimalIs(s, e)
  BY <1>23 DEF DecimalIs
<1> QED BY <1>19, <1>24

LEMMA BorrowDigit ==
  ASSUME NEW w \in Nat \ {0}, NEW n \in Nat \ {0}, n <= w, NEW v \in Int, -n <= v, v < n,
         NEW z, z = (IF v < 0 THEN v - (w - n) ELSE v)
  PROVE  \E k \in {0, 1}, y \in Int : /\ 0 <= y /\ y < n /\ v = y - n * k /\ z \in Int
                                      /\ z % w = y /\ (k = 1 <=> v < 0)
<1>1. CASE v < 0
  <2>1. PICK y \in Int : y = v + n
    OBVIOUS
  <2>2. z \in Int /\ y \in 0 .. w - 1 /\ z = w * (-1) + y /\ -1 \in Int
    BY <1>1, <2>1
  <2>3. z % w = y
    BY <2>2, RemainderUnique
  <2>4. 0 <= y /\ y < n /\ v = y - n * 1
    BY <1>1, <2>1, <2>2
  <2> QED BY <1>1, <2>2, <2>3, <2>4
<1>2. CASE ~(v < 0)
  <2>2. z \in Int /\ v \in 0 .. w - 1 /\ z = w * 0 + v /\ 0 \in Int
    BY <1>2
  <2>3. z % w = v
    BY <2>2, RemainderUnique
  <2>4. 0 <= v /\ v < n /\ v = v - n * 0
    BY <1>2, <2>2
  <2> QED BY <1>2, <2>2, <2>3, <2>4
<1> QED BY <1>1, <1>2

LEMMA BcdSubIs ==
  ASSUME NEW a, NEW a1, NEW a0, Digits(a, a1, a0), NEW b, NEW b1, NEW b0, Digits(b, b1, b0),
         NEW x \in {0, 1}, NEW e, e = (a1 * Ten + a0) - (b1 * Ten + b0) - x
  PROVE  DecimalIs(bcd_sub(a, b, x), e)
<1>1. PICK w \in Nat \ {0} : w = Radix
  BY RadixType
<1>2. PICK n \in Nat \ {0} : n = Ten /\ n <= w
  BY <1>1, InterpAssumption
<1>3. /\ a1 \in Int /\ a0 \in Int /\ 0 <= a1 /\ a1 < n /\ 0 <= a0 /\ a0 < n
      /\ b1 \in Int /\ b0 \in Int /\ 0 <= b1 /\ b1 < n /\ 0 <= b0 /\ b0 < n
  BY <1>2 DEF Digits
<1>4. a % w = a0 /\ a \div w = a1 /\ b % w = b0 /\ b \div w = b1
  BY <1>1, DigitsPacked
<1>5. PICK lo \in Int : lo = a0 - b0 - x
  BY <1>3
<1>6. PICK lo2 : lo2 = (IF lo < 0 THEN lo - (w - n) ELSE lo)
  OBVIOUS
<1>7. PICK k \in {0, 1}, y \in Int : /\ 0 <= y /\ y < n /\ lo = y - n * k /\ lo2 \in Int
                                     /\ lo2 % w = y /\ (k = 1 <=> lo < 0)
  <2>1. -n <= lo /\ lo < n
    BY <1>3, <1>5
  <2> QED BY <1>2, <1>6, <2>1, BorrowDigit
<1>8. PICK hi \in Int : hi = a1 - b1 - k
  BY <1>3
<1>9. PICK h2 : h2 = (IF hi < 0 THEN hi - (w - n) ELSE hi)
  OBVIOUS
<1>10. PICK u \in {0, 1}, z \in Int : /\ 0 <= z /\ z < n /\ hi = z - n * u /\ (u = 1 <=> hi < 0)
  <2>1. -n <= hi /\ hi < n
    BY <1>3, <1>8
  <2> QED BY <1>2, <1>9, <2>1, BorrowDigit
<1>11. PICK r \in Int : r = z * w + y
  OBVIOUS
<1>12. Digits(r, z, y)
  BY <1>1, <1>2, <1>7, <1>10, <1>11 DEF Digits
<1>14. PICK q \in Nat \ {0} : q = w * w /\ q = 2^ByteBits /\ q = 2^Bits["B"]
  BY <1>1, ByteIsTwoDigits, RadixType
<1>25. PICK g \in Int : g = Low(hi, "B") /\ g = (IF u = 1 THEN hi + q ELSE hi)
  <2>1. w <= q
    <3>1. PICK j \in Nat : j = w - 1
      OBVIOUS
    <3>2. q = w + w * j
      BY <1>14, <3>1
    <3>3. w * j >= 0 /\ w * j \in Int
      BY <3>1
    <3> QED BY <3>2, <3>3
  <2>2. -q <= hi /\ hi < q /\ hi < 2 * q
    BY <1>2, <1>3, <1>8, <2>1
  <2>3. hi % q = IF hi < 0 THEN hi + q ELSE IF hi < q THEN hi ELSE hi - q
    BY <2>2, RemainderWraps
  <2> QED BY <1>10, <1>14, <2>2, <2>3 DEF Low
<1>26. PICK j \in Int : j = (IF hi < 0 THEN (w - n) * w ELSE 0)
  OBVIOUS
<1>13. PICK full \in Int : full = g * w - j + y
  OBVIOUS
<1>15. \E i \in Int : full = q * i + r
  <2>1. CASE u = 0
    <3>1. g = z /\ j = 0
      BY <1>10, <1>25, <1>26, <2>1
    <3>2. full = q * 0 + r
      BY <1>11, <1>13, <3>1
    <3> QED BY <3>2
  <2>2. CASE u = 1
    <3>1. g = z - n + q /\ j = (w - n) * w
      BY <1>10, <1>25, <1>26, <2>2
    <3>2. PICK i \in Int : i = w - 1
      OBVIOUS
    <3>3. g * w = z * w - n * w + q * w
      BY <1>10, <3>1
    <3>4. j = q - n * w
      BY <1>14, <3>1
    <3>5. q * i = q * w - q
      BY <3>2
    <3>6. PICK m \in Int : m = n * w
      OBVIOUS
    <3>7. PICK l \in Int : l = q * w
      OBVIOUS
    <3>8. full = q * i + r
      BY <1>11, <1>13, <3>3, <3>4, <3>5, <3>6, <3>7
    <3> QED BY <3>8
  <2> QED BY <2>1, <2>2
<1>16. r \in 0 .. q - 1
  BY <1>12, <1>14, DigitsPacked
<1>17. full % q = r
  BY <1>15, <1>16, RemainderUnique
<1>18. Low(full, "B") = r /\ Flag(hi < 0) = u /\ Flag(lo < 0) = k
  BY <1>7, <1>10, <1>14, <1>17 DEF Low, Flag
<1>19. PICK s : s = bcd_sub(a, b, x)
  OBVIOUS
<1>20. s = [r |-> r, c |-> u]
  BY <1>1, <1>2, <1>4, <1>5, <1>6, <1>7, <1>8, <1>13, <1>18, <1>19, <1>25, <1>26 DEF bcd_sub, Adjust
<1>22. PICK t \in {-1, 0, 1} : t = -u
  BY <1>10
<1>21. e = (z * n + y) + (n * n) * t
  <2>1. PICK p \in Int : p = a1 * n - b1 * n
    BY <1>3
  <2>2. e = p + lo
    BY <1>2, <1>3, <1>5, <2>1
  <2>3. n * hi = p - n * k
    BY <1>3, <1>8, <2>1
  <2>4. PICK i \in Int : i = n * k
    BY <1>7
  <2>5. e = n * hi + y
    BY <1>7, <2>1, <2>2, <2>3, <2>4
  <2>6. n * hi = n * z - n * (n * u)
    BY <1>10
  <2>7. (n * n) * t = -(n * (n * u))
    <3>1. CASE u = 0
      BY <1>22, <3>1
    <3>2. CASE u = 1
      BY <1>22, <3>2
    <3> QED BY <3>1, <3>2
  <2> QED BY <1>7, <1>10, <2>5, <2>6, <2>7
<1>23. Digits(s.r, z, y) /\ s.c = (IF t = 0 THEN 0 ELSE 1) /\ e = (z * Ten + y) + (Ten * Ten) * t
  BY <1>2, <1>12, <1>20, <1>21, <1>22
<1>24. DecimalIs(s, e)
  BY <1>23 DEF DecimalIs
<1> QED BY <1>19, <1>24

\* What the flags of a decimal operation are, and where its result goes.
DecimalFlags(c, s, d) ==
  /\ MachineOK(d) /\ ~d.fault /\ d.sr.X = s.c /\ d.sr.C = s.c /\ d.sr.Z = (IF s.r = 0 THEN c.sr.Z ELSE 0)
DecimalRun(l, z, e) ==
  \E s : /\ DecimalIs(s, e) /\ Low(l.D[1], "B") = s.r
         /\ l.sr.X = s.c /\ l.sr.C = s.c /\ l.sr.Z = (IF s.r = 0 THEN z ELSE 0)

LEMMA DecimalParts ==
  ASSUME NEW s, NEW e, DecimalIs(s, e)
  PROVE  s.r \in Int /\ Low(s.r, "B") = s.r /\ s.c \in {0, 1}
<1>1. PICK x, y : \E t \in {-1, 0, 1} :
        /\ Digits(s.r, x, y) /\ s.c = (IF t = 0 THEN 0 ELSE 1) /\ e = (x * Ten + y) + (Ten * Ten) * t
  BY DEF DecimalIs
<1>2. Digits(s.r, x, y) /\ s.c \in {0, 1}
  BY <1>1
<1>3. s.r \in Int /\ Low(s.r, "B") = s.r
  BY <1>2, DigitsPacked
<1> QED BY <1>2, <1>3

LEMMA DecimalFlagged ==
  ASSUME NEW c, MachineOK(c), ~c.fault, NEW s, NEW e, DecimalIs(s, e)
  PROVE  DecimalFlags(c, s, do_bcd_flags(c, s))
<1>1. s.r \in Int /\ Low(s.r, "B") = s.r /\ s.c \in {0, 1}
  BY DecimalParts
<1>2. PICK n \in {0, 1} : n = Msb(s.r, "B")
  BY <1>1, LowType DEF Sizes
<1>3. PICK q : q = c.sr
  OBVIOUS
<1>4. SrOK(q)
  BY <1>3, SrFields
<1>5. PICK z \in {0, 1} : z = (IF s.r = 0 THEN q.Z ELSE 0)
  BY <1>4 DEF SrOK
<1>6. PICK k \in {0, 1} : k = s.c
  BY <1>1
<1>7. PICK y : y = [q EXCEPT !.V = 0, !.Z = z, !.C = k, !.X = k, !.N = n]
  OBVIOUS
<1>8. SrOK(y) /\ y.Z = z /\ y.C = k /\ y.X = k
  BY <1>4, <1>7 DEF SrOK
<1>9. PICK d : d = do_bcd_flags(c, s)
  OBVIOUS
<1>10. d = SetSR(c, y)
  BY <1>2, <1>3, <1>5, <1>6, <1>7, <1>9 DEF do_bcd_flags, StickyZ
<1>11. MachineOK(d) /\ ~d.fault /\ d.sr = y
  BY <1>8, <1>10, SetSRIs
<1> QED BY <1>3, <1>5, <1>6, <1>8, <1>9, <1>11 DEF DecimalFlags

LEMMA DecimalPlaced ==
  ASSUME NEW c, NEW s, NEW e, DecimalIs(s, e), NEW d, DecimalFlags(c, s, d), NEW l, Placed(d, "B", s.r, l)
  PROVE  DecimalRun(l, c.sr.Z, e)
<1>1. l.sr = d.sr /\ Low(l.D[1], "B") = s.r
  BY DEF Placed
<1>2. /\ DecimalIs(s, e) /\ Low(l.D[1], "B") = s.r
      /\ l.sr.X = s.c /\ l.sr.C = s.c /\ l.sr.Z = (IF s.r = 0 THEN c.sr.Z ELSE 0)
  BY <1>1 DEF DecimalFlags
<1> QED BY <1>2 DEF DecimalRun

LEMMA BcdRuns ==
  ASSUME NEW c, MachineOK(c), ~c.fault, NEW mn \in {"ABCD", "SBCD"},
         NEW a, NEW a1, NEW a0, Digits(a, a1, a0), NEW b, NEW b1, NEW b0, Digits(b, b1, b0),
         a \in Longs, b \in Longs, NEW x \in {0, 1}, x = c.sr.X,
         NEW e, e = (IF mn = "ABCD" THEN (a1 * Ten + a0) + (b1 * Ten + b0) + x
                     ELSE (a1 * Ten + a0) - (b1 * Ten + b0) - x)
  PROVE  DecimalRun(Run(c, mn, "B", a, b), c.sr.Z, e)
<1>0. PICK m, ins : Prepared(c, mn, "B", a, b, m, ins)
  BY RunIs DEF Sizes
<1>1. /\ ins.mn = mn /\ ins.sz = "B" /\ ins.ea.mode = 0 /\ ins.reg = 1 /\ ~ins.predec
      /\ ins.ea.reg = (IF mn \in Unary THEN 1 ELSE 0)
  BY <1>0 DEF Prepared, RegisterForm
<1>2. ins.ea.reg = 0
  BY <1>1 DEF Unary
<1>3. MachineOK(m) /\ ~m.fault /\ m.sr = c.sr /\ m.D[1] = a /\ m.D[0] = b
  BY <1>0 DEF Prepared, LoadedWith
<1>4. Run(c, mn, "B", a, b) = exec_one(m, ins)
  BY <1>0 DEF Prepared
<1>5. exec_one(m, ins) = do_bcd(m, ins)
  BY <1>1 DEF exec_one, Shifts, Rotates, ImmediateOp
<1>6. Low(a, "B") = a /\ Low(b, "B") = b
  BY DigitsPacked
<1>7. PICK p : p = Pair(m, a, b)
  OBVIOUS
<1>8. p.c = m /\ p.a = a /\ p.b = b
  BY <1>7 DEF Pair
<1>9. do_bcd(m, ins) = DecimalPair(p, ins)
  BY <1>1, <1>2, <1>3, <1>7 DEF do_bcd, OperandPair
<1>10. PICK s : s = (IF mn = "ABCD" THEN bcd_add(a, b, x) ELSE bcd_sub(a, b, x))
  OBVIOUS
<1>11. DecimalOf(p, ins) = s
  BY <1>1, <1>3, <1>6, <1>8, <1>10 DEF DecimalOf
<1>12. DecimalIs(s, e)
  <2>1. CASE mn = "ABCD"
    <3>1. e = (a1 * Ten + a0) + (b1 * Ten + b0) + x
      BY <2>1
    <3>2. DecimalIs(bcd_add(a, b, x), e)
      BY <3>1, BcdAddIs
    <3> QED BY <1>10, <2>1, <3>2
  <2>2. CASE mn = "SBCD"
    <3>1. e = (a1 * Ten + a0) - (b1 * Ten + b0) - x
      BY <2>2
    <3>2. DecimalIs(bcd_sub(a, b, x), e)
      BY <3>1, BcdSubIs
    <3> QED BY <1>10, <2>2, <3>2
  <2> QED BY <2>1, <2>2
<1>13. PICK d : d = do_bcd_flags(m, s)
  OBVIOUS
<1>14. DecimalFlags(m, s, d)
  <2>1. MachineOK(m) /\ ~m.fault
    BY <1>3
  <2> QED BY <1>12, <1>13, <2>1, DecimalFlagged
<1>15. DecimalPair(p, ins) = store_dn(d, 1, s.r, "B")
  BY <1>1, <1>8, <1>11, <1>13 DEF DecimalPair, Decimal, PairResult
<1>16. PICK v \in Int : v = s.r /\ Low(v, "B") = v
  BY <1>12, DecimalParts
<1>17. MachineOK(d) /\ ~d.fault /\ "B" \in Sizes
  BY <1>14 DEF DecimalFlags, Sizes
<1>18. Placed(d, "B", v, store_dn(d, 1, v, "B"))
  BY <1>16, <1>17, Places, Zenon
<1>19. PICK l : l = store_dn(d, 1, v, "B")
  OBVIOUS
<1>20. Placed(d, "B", s.r, l)
  BY <1>16, <1>18, <1>19
<1>21. DecimalRun(l, m.sr.Z, e)
  BY <1>12, <1>14, <1>20, DecimalPlaced
<1> QED BY <1>3, <1>4, <1>5, <1>9, <1>15, <1>16, <1>19, <1>21

LEMMA NbcdRuns ==
  ASSUME NEW c, MachineOK(c), ~c.fault, NEW a, NEW a1, NEW a0, Digits(a, a1, a0), a \in Longs, NEW b \in Longs,
         NEW x \in {0, 1}, x = c.sr.X, NEW e, e = -(a1 * Ten + a0) - x
  PROVE  DecimalRun(Run(c, "NBCD", "B", a, b), c.sr.Z, e)
<1>0. PICK m, ins : Prepared(c, "NBCD", "B", a, b, m, ins)
  BY RunIs DEF Sizes
<1>1. /\ ins.mn = "NBCD" /\ ins.sz = "B" /\ ins.ea.mode = 0 /\ ins.ea.reg = (IF "NBCD" \in Unary THEN 1 ELSE 0)
  BY <1>0 DEF Prepared, RegisterForm
<1>2. ins.ea.reg = 1
  BY <1>1 DEF Unary
<1>3. MachineOK(m) /\ ~m.fault /\ m.sr = c.sr /\ m.D[1] = a
  BY <1>0 DEF Prepared, LoadedWith
<1>4. Run(c, "NBCD", "B", a, b) = exec_one(m, ins)
  BY <1>0 DEF Prepared
<1>5. exec_one(m, ins) = do_nbcd(m, ins)
  BY <1>1 DEF exec_one, Shifts, Rotates, ImmediateOp
<1>6. a \in Int /\ Low(a, "B") = a
  BY DigitsPacked
<1>7. PICK i \in Int : i = a
  BY <1>6
<1>8. PICK v : v = Val(m, i)
  OBVIOUS
<1>9. LoadedVal(m, i, Val(m, i))
  <2>1. MachineOK(m) /\ ~m.fault
    BY <1>3
  <2> QED BY <2>1, ValLoads, Zenon
<1>10. MachineOK(v) /\ ~v.fault /\ v.sr = c.sr /\ v.val = a
  BY <1>3, <1>7, <1>8, <1>9 DEF LoadedVal
<1>11. read_ea_ex(m, ins, ins.ea, "B", TRUE) = v
  <2>1. read_ea_ex(m, ins, ins.ea, "B", TRUE) = Val(m, m.D[ins.ea.reg])
    BY <1>1, ReadRegister
  <2> QED BY <1>2, <1>3, <1>7, <1>8, <2>1
<1>12. PICK k \in 1 .. 5 : k = m.er
  BY <1>3 DEF MachineOK
<1>13. PICK s : s = bcd_sub(0, a, x)
  OBVIOUS
<1>14. DecimalIs(s, e)
  <2>1. Digits(0, 0, 0)
    BY InterpAssumption, RadixType DEF Digits
  <2>2. e = (0 * Ten + 0) - (a1 * Ten + a0) - x
    BY InterpAssumption, RadixType DEF Digits
  <2> QED BY <1>13, <2>1, <2>2, BcdSubIs
<1>15. PICK d : d = do_bcd_flags(v, s)
  OBVIOUS
<1>16. DecimalFlags(v, s, d)
  <2>1. MachineOK(v) /\ ~v.fault
    BY <1>10
  <2> QED BY <1>14, <1>15, <2>1, DecimalFlagged
<1>17. PICK y \in Int : y = s.r /\ Low(y, "B") = y
  BY <1>14, DecimalParts
<1>18. PICK g : g = Val(d, y)
  OBVIOUS
<1>19. MachineOK(d) /\ ~d.fault /\ "B" \in Sizes
  BY <1>16 DEF DecimalFlags, Sizes
<1>20. LoadedVal(d, y, Val(d, y))
  BY <1>19, ValLoads, Zenon
<1>21. MachineOK(g) /\ ~g.fault /\ g.sr = d.sr /\ g.val = y
  BY <1>18, <1>20 DEF LoadedVal
<1>22. do_nbcd(m, ins) = write_ea_ex(Rewound(g, k), ins, ins.ea, "B", g.val, TRUE)
  BY <1>6, <1>10, <1>11, <1>12, <1>13, <1>15, <1>17, <1>18 DEF do_nbcd, Rmw, Computed, WrittenBack, Then, Rewound, Negated
<1>23. write_ea_ex(Rewound(g, k), ins, ins.ea, "B", g.val, TRUE) = store_dn(Rewound(g, k), 1, y, "B")
  BY <1>1, <1>2, <1>21 DEF write_ea_ex
<1>24. Placed(g, "B", y, store_dn(Rewound(g, k), 1, y, "B"))
  BY <1>17, <1>19, <1>21, RewoundPlaces, Zenon
<1>25. PICK l : l = store_dn(Rewound(g, k), 1, y, "B")
  OBVIOUS
<1>26. Placed(d, "B", s.r, l)
  BY <1>17, <1>21, <1>24, <1>25 DEF Placed
<1>27. DecimalRun(l, v.sr.Z, e)
  BY <1>14, <1>16, <1>26, DecimalPlaced
<1> QED BY <1>4, <1>5, <1>10, <1>22, <1>23, <1>25, <1>27

\* The digits of the exact value are the digits of its remainder by a hundred.
DecimalExactly(l, z, e) ==
  LET r == Low(l.D[1], "B")
  IN  /\ r \in 0 .. 2^ByteBits - 1 /\ r % Radix < Ten /\ r \div Radix < Ten
      /\ (r \div Radix) * Ten + (r % Radix) = e % (Ten * Ten)
      /\ l.sr.X = Flag(e \notin 0 .. Ten * Ten - 1) /\ l.sr.C = l.sr.X
      /\ (l.sr.Z = 1 <=> z = 1 /\ r = 0)

LEMMA DecimalRead ==
  ASSUME NEW l, NEW z, NEW e, DecimalRun(l, z, e)
  PROVE  DecimalExactly(l, z, e)
<1>1. PICK s : /\ DecimalIs(s, e) /\ Low(l.D[1], "B") = s.r
               /\ l.sr.X = s.c /\ l.sr.C = s.c /\ l.sr.Z = (IF s.r = 0 THEN z ELSE 0)
  BY DEF DecimalRun
<1>2. PICK x, y : \E t \in {-1, 0, 1} :
        /\ Digits(s.r, x, y) /\ s.c = (IF t = 0 THEN 0 ELSE 1) /\ e = (x * Ten + y) + (Ten * Ten) * t
  BY <1>1 DEF DecimalIs
<1>3. PICK t \in {-1, 0, 1} :
        /\ Digits(s.r, x, y) /\ s.c = (IF t = 0 THEN 0 ELSE 1) /\ e = (x * Ten + y) + (Ten * Ten) * t
  BY <1>2
<1>4. /\ s.r \in Int /\ s.r \in 0 .. 2^ByteBits - 1 /\ s.r % Radix = y /\ s.r \div Radix = x
  BY <1>3, DigitsPacked
<1>5. PICK n \in Nat \ {0} : n = Ten
  BY InterpAssumption
<1>6. x \in Int /\ y \in Int /\ 0 <= x /\ x < n /\ 0 <= y /\ y < n
  BY <1>3, <1>5 DEF Digits
<1>7. PICK q \in Nat \ {0} : q = n * n
  OBVIOUS
<1>8. PICK v \in Int : v = x * n + y /\ v \in 0 .. q - 1
  <2>1. PICK j \in Nat : j = n - 1 - x
    BY <1>6
  <2>2. PICK p \in Int : p = x * n
    BY <1>6
  <2>3. q = p + n + n * j
    BY <1>6, <1>7, <2>1, <2>2
  <2>4. n * j >= 0 /\ n * j \in Int
    BY <2>1
  <2>5. p >= 0
    BY <1>6, <2>2
  <2>6. p + y \in 0 .. q - 1 /\ p + y \in Int
    BY <1>6, <2>3, <2>4, <2>5
  <2> QED BY <2>2, <2>6
<1>9. PICK k \in Int : k = q * t /\ (t = -1 => k = -q) /\ (t = 0 => k = 0) /\ (t = 1 => k = q)
  <2>1. CASE t = -1
    BY <2>1
  <2>2. CASE t = 0
    BY <2>2
  <2>3. CASE t = 1
    BY <2>3
  <2> QED BY <2>1, <2>2, <2>3
<1>10. e = v + k /\ e \in Int
  BY <1>3, <1>5, <1>7, <1>8, <1>9
<1>11. e % q = v
  <2>1. t \in Int /\ e = q * t + v
    BY <1>9, <1>10
  <2> QED BY <1>8, <1>10, <2>1, RemainderUnique
<1>12. e \in 0 .. q - 1 <=> t = 0
  BY <1>8, <1>9, <1>10
<1>13. s.c = Flag(e \notin 0 .. q - 1)
  BY <1>3, <1>12 DEF Flag
<1> QED BY <1>1, <1>4, <1>5, <1>6, <1>7, <1>8, <1>11, <1>13 DEF DecimalExactly

LEMMA DecimalHolds ==
  ASSUME InterpInv
  PROVE  DecimalExact
<1> DEFINE P == {d \in 0 .. 2^ByteBits - 1 : d % Radix < Ten /\ d \div Radix < Ten}
           G(d) == (d \div Radix) * Ten + (d % Radix)
           Q(mn, a, b) == CASE mn = "ABCD" -> G(a) + G(b) + cpu.sr.X
                            [] mn = "SBCD" -> G(a) - G(b) - cpu.sr.X
                            [] mn = "NBCD" -> -G(a) - cpu.sr.X
           Z(k, r, e) == /\ r \in P /\ G(r) = e % (Ten * Ten)
                         /\ k.sr.X = Flag(e \notin 0 .. Ten * Ten - 1) /\ k.sr.C = k.sr.X
                         /\ (k.sr.Z = 1 <=> cpu.sr.Z = 1 /\ r = 0)
<1> SUFFICES ASSUME Fresh, NEW mn \in {"ABCD", "SBCD", "NBCD"}, NEW a \in P, NEW b \in P
             PROVE  \A k \in {Run(cpu, mn, "B", a, b)} : Z(k, Low(k.D[1], "B"), Q(mn, a, b))
  BY Zenon DEF DecimalExact
<1> SUFFICES ASSUME NEW k, k = Run(cpu, mn, "B", a, b)
             PROVE  Z(k, Low(k.D[1], "B"), Q(mn, a, b))
  OBVIOUS
<1>1. MachineOK(cpu) /\ ~cpu.fault
  BY DEF InterpInv, Fresh
<1>2. PICK x \in {0, 1} : x = cpu.sr.X
  BY <1>1, SrFields
<1>3. PICK a1 : a1 = a \div Radix
  OBVIOUS
<1>4. PICK a0 : a0 = a % Radix
  OBVIOUS
<1>5. PICK b1 : b1 = b \div Radix
  OBVIOUS
<1>6. PICK b0 : b0 = b % Radix
  OBVIOUS
<1>7. Digits(a, a1, a0)
  BY <1>3, <1>4, PackedDigits
<1>8. Digits(b, b1, b0)
  BY <1>5, <1>6, PackedDigits
<1>9. a \in Longs /\ b \in Longs
  <2>1. PICK w \in Nat \ {0} : w = 2^ByteBits /\ w = 2^Bits["B"]
    BY RadixType, ByteIsTwoDigits
  <2>2. PICK m \in Nat \ {0} : 2^Bits["L"] = w * m
    BY <2>1, SizeDivides, ByteIsTwoDigits
  <2>3. w * m >= w /\ w * m \in Int
    BY <2>2
  <2>4. a \in 0 .. w - 1 /\ b \in 0 .. w - 1
    BY <2>1
  <2> QED BY <2>2, <2>3, <2>4 DEF Longs
<1>10. PICK e : e = Q(mn, a, b)
  OBVIOUS
<1>11. DecimalRun(k, cpu.sr.Z, e)
  <2>1. CASE mn \in {"ABCD", "SBCD"}
    <3>1. e = (IF mn = "ABCD" THEN (a1 * Ten + a0) + (b1 * Ten + b0) + x
               ELSE (a1 * Ten + a0) - (b1 * Ten + b0) - x)
      BY <1>2, <1>3, <1>4, <1>5, <1>6, <1>10, <2>1
    <3> QED BY <1>1, <1>2, <1>7, <1>8, <1>9, <2>1, <3>1, BcdRuns
  <2>2. CASE mn = "NBCD"
    <3>1. e = -(a1 * Ten + a0) - x
      BY <1>2, <1>3, <1>4, <1>10, <2>2
    <3> QED BY <1>1, <1>2, <1>7, <1>9, <2>2, <3>1, NbcdRuns
  <2> QED BY <2>1, <2>2
<1>12. DecimalExactly(k, cpu.sr.Z, e)
  BY <1>11, DecimalRead
<1> QED BY <1>10, <1>12 DEF DecimalExactly

\* ABCD, SBCD and NBCD on packed decimal numbers are decimal addition,
\* subtraction and negation: the two digits left are those of the exact value,
\* the decimal carry or borrow of both digits is in X and C, and Z is cleared
\* by a result that is not zero and otherwise kept.
THEOREM DecimalIsExact == Spec => []DecimalExact
<1>1. InterpInv => DecimalExact
  BY DecimalHolds
<1> QED BY <1>1, InterpInvariant, PTL

LEMMA PowerZero == 2^0 = 1
<1>1. PICK p \in Nat \ {0} : p = 2^0
  BY PowerNat
<1>2. 2^(0 + 0) = 2^0 * 2^0
  BY PowerAdd
<1>3. p = p * p
  BY <1>1, <1>2
<1> QED BY <1>1, <1>3

\* A power of two is more than its exponent: a count fits the register.
LEMMA PowerGrows ==
  ASSUME NEW m \in Nat
  PROVE  2 * m <= 2^m
<1> DEFINE G == {n \in Nat : 2 * n <= 2^n}
<1>1. 0 \in G
  BY PowerZero
<1>2. ASSUME NEW n \in Nat, n \in G PROVE n + 1 \in G
  <2>1. PICK p \in Nat \ {0} : p = 2^n
    BY PowerNat
  <2>2. 2^(n + 1) = 2 * p
    BY <2>1, PowerStep
  <2>3. 2 * n <= p
    BY <1>2, <2>1
  <2>4. CASE n = 0
    BY <2>1, <2>2, <2>4
  <2>5. CASE n # 0
    BY <2>2, <2>3, <2>5
  <2> QED BY <2>4, <2>5
<1> HIDE DEF G
<1>3. m \in G
  BY <1>1, <1>2, AllNumbers
<1> QED BY <1>3 DEF G

(***************************************************************************)
(* Shifts. A number cut above and below one of its bits, p being that      *)
(* bit's weight.                                                           *)
(***************************************************************************)
Cut(s, p, q, t, l) ==
  /\ 0 <= l /\ l < p /\ (t = 0 \/ t = 1)
  /\ s = p * (2 * q + t) + l
  /\ s \div p = 2 * q + t /\ s % p = l /\ s \div (2 * p) = q /\ s % (2 * p) = t * p + l

LEMMA Cuts ==
  ASSUME NEW s \in Int, NEW p \in Nat \ {0}
  PROVE  \E q, t, l \in Int : Cut(s, p, q, t, l)
<1>1. PICK d \in Int : d = s \div p
  BY RemainderDef
<1>2. PICK l \in 0 .. p - 1 : l = s % p
  BY RemainderDef
<1>3. s = p * d + l
  BY <1>1, <1>2, RemainderDef
<1>4. 2 \in Nat \ {0}
  OBVIOUS
<1>5. PICK q \in Int : q = d \div 2
  BY <1>4, RemainderDef
<1>6. PICK t \in 0 .. 2 - 1 : t = d % 2
  BY <1>4, RemainderDef
<1>7. d = 2 * q + t
  BY <1>4, <1>5, <1>6, RemainderDef
<1>8. t = 0 \/ t = 1
  BY <1>6
<1>9. t * p + l \in 0 .. 2 * p - 1
  <2>1. CASE t = 0
    BY <1>2, <2>1
  <2>2. CASE t = 1
    BY <1>2, <2>2
  <2> QED BY <1>8, <2>1, <2>2
<1>10. s = (2 * p) * q + (t * p + l)
  <2>1. p * d = p * (2 * q) + p * t
    BY <1>7, <1>8
  <2> QED BY <1>3, <1>8, <2>1
<1>11. s % (2 * p) = t * p + l /\ s \div (2 * p) = q
  <2>1. PICK w \in Nat \ {0} : w = 2 * p
    OBVIOUS
  <2>2. PICK r \in 0 .. w - 1 : r = t * p + l
    BY <1>9, <2>1
  <2>3. s = w * q + r
    BY <1>10, <2>1, <2>2
  <2> QED BY <2>1, <2>2, <2>3, QuotientUnique
<1>12. l \in Int /\ t \in Int /\ 0 <= l /\ l < p
  BY <1>2, <1>8
<1>13. Cut(s, p, q, t, l)
  BY <1>1, <1>2, <1>3, <1>7, <1>8, <1>11, <1>12 DEF Cut
<1> QED BY <1>12, <1>13

\* ... the number being one of e bits, and the bit the n-th from the top; h is
\* the weight of the top one.
Place(w, e, h, n, u, p, q, t, l) ==
  /\ u = 2^n /\ p = 2^(e - (n + 1)) /\ 2^(e - n) = 2 * p /\ 2^(n + 1) = 2 * u /\ p * u = h
  /\ Cut(w, p, q, t, l) /\ 0 <= q /\ q < u

LEMMA PlaceFound ==
  ASSUME NEW e \in Nat \ {0}, NEW h, h = 2^(e - 1), NEW w \in Int, 0 <= w, w < 2 * h, NEW n \in Nat, n < e
  PROVE  \E u \in Nat \ {0}, p \in Nat \ {0}, q, t, l \in Int : Place(w, e, h, n, u, p, q, t, l)
<1>1. PICK j \in Nat : j = e - (n + 1)
  OBVIOUS
<1>2. PICK u \in Nat \ {0} : u = 2^n
  BY PowerNat
<1>3. PICK p \in Nat \ {0} : p = 2^j
  BY PowerNat
<1>4. 2^(n + 1) = 2 * u
  BY <1>2, PowerStep
<1>5. 2^(e - n) = 2 * p
  <2>1. e - n = j + 1
    BY <1>1
  <2>2. 2^(j + 1) = 2 * 2^j
    BY PowerStep
  <2> QED BY <1>3, <2>1, <2>2
<1>6. h = p * u
  <2>1. e - 1 = j + n
    BY <1>1
  <2>2. 2^(j + n) = 2^j * 2^n
    BY PowerAdd
  <2> QED BY <1>2, <1>3, <2>1, <2>2
<1>7. PICK q, t, l \in Int : Cut(w, p, q, t, l)
  BY Cuts
<1>8. 0 <= l /\ l < p /\ (t = 0 \/ t = 1) /\ w = p * (2 * q + t) + l
  BY <1>7 DEF Cut
<1>9. w = 2 * (p * q) + t * p + l
  <2>1. p * (2 * q + t) = 2 * (p * q) + t * p
    BY <1>8
  <2> QED BY <1>8, <2>1
<1>10. w < 2 * (p * u)
  BY <1>6
<1>11. t * p >= 0
  BY <1>8
<1>12. q < u
  <2>1. SUFFICES ASSUME q >= u PROVE FALSE
    OBVIOUS
  <2>2. p * q >= p * u
    BY <2>1
  <2> QED BY <1>8, <1>9, <1>10, <1>11, <2>2
<1>13. 0 <= q
  <2>1. SUFFICES ASSUME q <= -1 PROVE FALSE
    OBVIOUS
  <2>2. p * q <= -p
    BY <2>1
  <2>3. t * p <= p
    BY <1>8
  <2> QED BY <1>8, <1>9, <2>2, <2>3
<1>14. Place(w, e, h, n, u, p, q, t, l)
  BY <1>1, <1>2, <1>3, <1>4, <1>5, <1>6, <1>7, <1>12, <1>13 DEF Place
<1> QED BY <1>14

\* One turn to the left: the top bit t comes in at the bottom.
Turn(w, e, h, n, t, y) ==
  /\ (t = 0 \/ t = 1) /\ 0 <= y /\ y < h
  /\ RotateLeft(w, n, e) = t * h + y /\ RotateLeft(w, n + 1, e) = 2 * y + t

LEMMA Turns ==
  ASSUME NEW e \in Nat \ {0}, NEW h \in Nat \ {0}, h = 2^(e - 1), NEW w \in Int, 0 <= w, w < 2 * h,
         NEW n \in Nat, n < e
  PROVE  \E t, y \in Int : Turn(w, e, h, n, t, y)
<1>1. PICK u \in Nat \ {0}, p \in Nat \ {0}, q, t, l \in Int : Place(w, e, h, n, u, p, q, t, l)
  BY PlaceFound
<1>2. /\ 2^n = u /\ 2^(e - (n + 1)) = p /\ 2^(e - n) = 2 * p /\ 2^(n + 1) = 2 * u /\ h = p * u
      /\ 0 <= q /\ q < u /\ 0 <= l /\ l < p /\ (t = 0 \/ t = 1)
      /\ w \div p = 2 * q + t /\ w % p = l /\ w \div (2 * p) = q /\ w % (2 * p) = t * p + l
  BY <1>1 DEF Place, Cut
<1>3. PICK m \in Int : m = l * u
  OBVIOUS
<1>4. 0 <= m /\ m <= p * u - u
  <2>1. (p - 1) * u = p * u - u
    OBVIOUS
  <2>2. l * u <= (p - 1) * u
    BY <1>2
  <2>3. 0 <= l * u
    BY <1>2
  <2> QED BY <1>3, <2>1, <2>2, <2>3
<1>5. PICK y \in Int : y = m + q
  OBVIOUS
<1>6. 0 <= y /\ y < h
  BY <1>2, <1>4, <1>5
<1>7. (t * p + l) * u + q = t * h + y
  <2>1. CASE t = 0
    BY <1>3, <1>5, <2>1
  <2>2. CASE t = 1
    <3>1. (p + l) * u = p * u + l * u
      OBVIOUS
    <3> QED BY <1>2, <1>3, <1>5, <2>2, <3>1
  <2> QED BY <1>2, <2>1, <2>2
<1>8. l * (2 * u) + (2 * q + t) = 2 * y + t
  <2>1. l * (2 * u) = 2 * (l * u)
    OBVIOUS
  <2> QED BY <1>2, <1>3, <1>5, <2>1
<1>9. RotateLeft(w, n, e) = t * h + y
  BY <1>2, <1>7 DEF RotateLeft
<1>10. RotateLeft(w, n + 1, e) = 2 * y + t
  BY <1>2, <1>8 DEF RotateLeft
<1>11. Turn(w, e, h, n, t, y)
  BY <1>2, <1>6, <1>9, <1>10 DEF Turn
<1> QED BY <1>11

\* A whole turn, or none, is the number.
LEMMA WholeTurn ==
  ASSUME NEW e \in Nat \ {0}, NEW h \in Nat \ {0}, h = 2^(e - 1), NEW w \in Int, 0 <= w, w < 2 * h
  PROVE  RotateLeft(w, 0, e) = w /\ RotateLeft(w, e, e) = w
<1>1. 2^e = 2 * h
  <2>1. PICK j \in Nat : j = e - 1
    OBVIOUS
  <2>2. 2^(j + 1) = 2 * 2^j /\ j + 1 = e
    BY <2>1, PowerStep
  <2> QED BY <2>1, <2>2
<1>2. PICK v \in Nat \ {0} : v = 2 * h
  OBVIOUS
<1>3. w % v = w /\ w \div v = 0
  <2>1. w \in 0 .. v - 1 /\ w = v * 0 + w /\ 0 \in Int
    BY <1>2
  <2> QED BY <2>1, QuotientUnique
<1>4. w % 1 = 0 /\ w \div 1 = w
  <2>1. 0 \in 0 .. 1 - 1 /\ w = 1 * w + 0 /\ 1 \in Nat \ {0}
    OBVIOUS
  <2> QED BY <2>1, QuotientUnique
<1>5. e - 0 = e /\ e - e = 0
  OBVIOUS
<1>6. RotateLeft(w, 0, e) = (w % v) * 1 + w \div v
  BY <1>1, <1>2, <1>5, PowerZero DEF RotateLeft
<1>7. RotateLeft(w, e, e) = (w % 1) * v + w \div 1
  BY <1>1, <1>2, <1>5, PowerZero DEF RotateLeft
<1>8. RotateLeft(w, 0, e) = w
  BY <1>3, <1>6
<1>9. RotateLeft(w, e, e) = w
  BY <1>2, <1>4, <1>7
<1> QED BY <1>8, <1>9

\* The place after n turns of a number of e bits, and after one more.
AfterTurns(e, n, k) ==
  /\ k < e /\ n % e = k /\ (n + 1) % e = (IF k + 1 = e THEN 0 ELSE k + 1)
  /\ (e - (n % e)) % e = (IF k = 0 THEN 0 ELSE e - k)
  /\ (e - ((n + 1) % e)) % e = (IF k + 1 = e THEN 0 ELSE e - (k + 1))

LEMMA PlaceAfter ==
  ASSUME NEW e \in Nat \ {0}, NEW n \in Nat
  PROVE  \E k \in Nat : AfterTurns(e, n, k)
<1>1. PICK k \in 0 .. e - 1 : k = n % e
  BY RemainderDef
<1>2. PICK d \in Int : d = n \div e
  BY RemainderDef
<1>3. n = e * d + k
  BY <1>1, <1>2, RemainderDef
<1>4. (n + 1) % e = (IF k + 1 = e THEN 0 ELSE k + 1)
  <2>1. CASE k + 1 = e
    <3>1. e * (d + 1) = e * d + e
      OBVIOUS
    <3>2. n + 1 = e * (d + 1) + 0 /\ 0 \in 0 .. e - 1 /\ n + 1 \in Int /\ d + 1 \in Int
      BY <1>3, <2>1, <3>1
    <3>3. (n + 1) % e = 0
      BY <3>2, RemainderUnique
    <3> QED BY <2>1, <3>3
  <2>2. CASE k + 1 # e
    <3>1. n + 1 = e * d + (k + 1) /\ k + 1 \in 0 .. e - 1 /\ n + 1 \in Int
      BY <1>3, <2>2
    <3>2. (n + 1) % e = k + 1
      BY <3>1, RemainderUnique
    <3> QED BY <2>2, <3>2
  <2> QED BY <2>1, <2>2
<1>5. ASSUME NEW i \in 0 .. e - 1 PROVE (e - i) % e = IF i = 0 THEN 0 ELSE e - i
  <2>1. e - i \in Int /\ -e <= e - i /\ e - i < 2 * e
    OBVIOUS
  <2>2. (e - i) % e = IF e - i < 0 THEN e - i + e ELSE IF e - i < e THEN e - i ELSE e - i - e
    BY <2>1, RemainderWraps
  <2> QED BY <2>2
<1>6. (e - (n % e)) % e = (IF k = 0 THEN 0 ELSE e - k)
  BY <1>1, <1>5
<1>7. (e - ((n + 1) % e)) % e = (IF k + 1 = e THEN 0 ELSE e - (k + 1))
  <2>1. CASE k + 1 = e
    <3>1. (e - 0) % e = 0
      BY <1>5
    <3> QED BY <1>4, <2>1, <3>1
  <2>2. CASE k + 1 # e
    <3>1. k + 1 \in 0 .. e - 1 /\ k + 1 # 0
      BY <2>2
    <3>2. (e - (k + 1)) % e = e - (k + 1)
      BY <1>5, <3>1
    <3> QED BY <1>4, <2>2, <3>2
  <2> QED BY <2>1, <2>2
<1>8. k \in Nat /\ AfterTurns(e, n, k)
  BY <1>1, <1>4, <1>6, <1>7 DEF AfterTurns
<1> QED BY <1>8

\* The rotations by n and by n + 1, to the left and to the right.
Around(w, e, h, a, b, t, y) ==
  (t = 0 \/ t = 1) /\ 0 <= y /\ y < h /\ RotateLeft(w, a, e) = t * h + y /\ RotateLeft(w, b, e) = 2 * y + t

LEMMA LeftAround ==
  ASSUME NEW e \in Nat \ {0}, NEW h \in Nat \ {0}, h = 2^(e - 1), NEW w \in Int, 0 <= w, w < 2 * h,
         NEW n \in Nat
  PROVE  \E t, y \in Int : Around(w, e, h, n % e, (n + 1) % e, t, y)
<1>0. PICK k \in Nat : AfterTurns(e, n, k)
  BY PlaceAfter
<1>1. k < e /\ n % e = k /\ (n + 1) % e = (IF k + 1 = e THEN 0 ELSE k + 1)
  BY <1>0 DEF AfterTurns
<1>2. PICK t, y \in Int : Turn(w, e, h, k, t, y)
  BY <1>1, Turns
<1>3. RotateLeft(w, 0, e) = w /\ RotateLeft(w, e, e) = w
  BY WholeTurn
<1>4. RotateLeft(w, (n + 1) % e, e) = RotateLeft(w, k + 1, e)
  <2>1. CASE k + 1 = e
    BY <1>1, <1>3, <2>1
  <2>2. CASE k + 1 # e
    BY <1>1, <2>2
  <2> QED BY <2>1, <2>2
<1>5. Around(w, e, h, n % e, (n + 1) % e, t, y)
  BY <1>1, <1>2, <1>4 DEF Turn, Around
<1> QED BY <1>5

LEMMA RightAround ==
  ASSUME NEW e \in Nat \ {0}, NEW h \in Nat \ {0}, h = 2^(e - 1), NEW w \in Int, 0 <= w, w < 2 * h,
         NEW n \in Nat
  PROVE  \E t, y \in Int : Around(w, e, h, (e - ((n + 1) % e)) % e, (e - (n % e)) % e, t, y)
<1>0. PICK k \in Nat : AfterTurns(e, n, k)
  BY PlaceAfter
<1>1. /\ k < e
      /\ (e - (n % e)) % e = (IF k = 0 THEN 0 ELSE e - k)
      /\ (e - ((n + 1) % e)) % e = (IF k + 1 = e THEN 0 ELSE e - (k + 1))
  BY <1>0 DEF AfterTurns
<1>2. PICK j \in Nat : j = e - (k + 1) /\ j < e /\ j + 1 = e - k
  BY <1>1
<1>3. PICK t, y \in Int : Turn(w, e, h, j, t, y)
  BY <1>2, Turns
<1>4. RotateLeft(w, 0, e) = w /\ RotateLeft(w, e, e) = w
  BY WholeTurn
<1>5. RotateLeft(w, (e - (n % e)) % e, e) = RotateLeft(w, j + 1, e)
  <2>1. CASE k = 0
    BY <1>1, <1>2, <1>4, <2>1
  <2>2. CASE k # 0
    BY <1>1, <1>2, <2>2
  <2> QED BY <2>1, <2>2
<1>6. (e - ((n + 1) % e)) % e = j
  BY <1>1, <1>2
<1>7. Around(w, e, h, (e - ((n + 1) % e)) % e, (e - (n % e)) % e, t, y)
  BY <1>3, <1>5, <1>6 DEF Turn, Around
<1> QED BY <1>7

\* A number of the size, and one that is less than twice that.
OfSize(sz, h, v) ==
  /\ Low(v, sz) = v /\ Msb(v, sz) = (IF v >= h THEN 1 ELSE 0)
  /\ Signed(v, sz) = (IF v >= h THEN v - 2 * h ELSE v)
Over(sz, h, v) == Low(v, sz) = v - 2 * h

LEMMA NumberFits ==
  ASSUME NEW sz \in Sizes, NEW h \in Nat \ {0}, h = 2^(Bits[sz] - 1), NEW v \in Int, 0 <= v, v < 2 * h
  PROVE  OfSize(sz, h, v)
<1>1. PICK r \in 0 .. 2 * h - 1 : r = v
  OBVIOUS
<1>2. Low(r, sz) = r /\ Msb(r, sz) = (IF r >= h THEN 1 ELSE 0) /\ Signed(r, sz) = (IF r >= h THEN r - 2 * h ELSE r)
  BY WithinParts
<1> QED BY <1>1, <1>2 DEF OfSize

LEMMA NumberOver ==
  ASSUME NEW sz \in Sizes, NEW h \in Nat \ {0}, h = 2^(Bits[sz] - 1), NEW v \in Int, 2 * h <= v, v < 4 * h
  PROVE  Over(sz, h, v)
<1>1. PICK w \in Nat \ {0} : w = 2 * h
  OBVIOUS
<1>2. PICK r \in 0 .. w - 1 : r = v - 2 * h
  BY <1>1
<1>3. v = w * 1 + r /\ 1 \in Int
  BY <1>1, <1>2
<1>4. v % w = r
  BY <1>3, RemainderUnique
<1>5. 2^Bits[sz] = w
  BY <1>1, HalfOf
<1> QED BY <1>2, <1>4, <1>5 DEF Over, Low

\* One bit to the left, t being the top one ...
ToLeft(sz, h, t, y, r) == Msb(r, sz) = t /\ Low(2 * r, sz) = 2 * y /\ Low(r, sz) = r

LEMMA LeftClear ==
  ASSUME NEW sz \in Sizes, NEW h \in Nat \ {0}, h = 2^(Bits[sz] - 1), NEW y \in Int, 0 <= y, y < h
  PROVE  ToLeft(sz, h, 0, y, y)
<1>1. PICK v \in Int : v = 2 * y
  OBVIOUS
<1>2. 0 <= v /\ v < 2 * h /\ y < 2 * h /\ ~(y >= h)
  BY <1>1
<1>3. OfSize(sz, h, v) /\ OfSize(sz, h, y)
  BY <1>2, NumberFits
<1> QED BY <1>1, <1>2, <1>3 DEF OfSize, ToLeft

LEMMA LeftSet ==
  ASSUME NEW sz \in Sizes, NEW h \in Nat \ {0}, h = 2^(Bits[sz] - 1), NEW y \in Int, 0 <= y, y < h,
         NEW r \in Int, r = h + y
  PROVE  ToLeft(sz, h, 1, y, r)
<1>1. PICK v \in Int : v = 2 * r
  OBVIOUS
<1>2. v - 2 * h = 2 * y
  BY <1>1
<1>3. 2 * h <= v /\ v < 4 * h
  BY <1>2
<1>4. 0 <= r /\ r < 2 * h /\ r >= h
  OBVIOUS
<1>5. Over(sz, h, v)
  BY <1>3, NumberOver
<1>6. OfSize(sz, h, r)
  BY <1>4, NumberFits
<1>7. Low(v, sz) = 2 * y
  BY <1>2, <1>5 DEF Over
<1> QED BY <1>1, <1>4, <1>6, <1>7 DEF OfSize, ToLeft

LEMMA LeftBit ==
  ASSUME NEW sz \in Sizes, NEW h \in Nat \ {0}, h = 2^(Bits[sz] - 1), NEW t \in Int, t = 0 \/ t = 1,
         NEW y \in Int, 0 <= y, y < h, NEW r \in Int, r = t * h + y
  PROVE  ToLeft(sz, h, t, y, r)
<1>1. CASE t = 0
  <2>1. r = y
    BY <1>1
  <2> QED BY <1>1, <2>1, LeftClear
<1>2. CASE t = 1
  <2>1. r = h + y
    BY <1>2
  <2>2. ToLeft(sz, h, 1, y, r)
    BY <2>1, LeftSet
  <2> QED BY <1>2, <2>2
<1> QED BY <1>1, <1>2

\* ... and to the right, t being the bottom one.
LEMMA RightBit ==
  ASSUME NEW t \in Int, t = 0 \/ t = 1, NEW y \in Int, NEW r \in Int, r = 2 * y + t
  PROVE  r \div 2 = y /\ r % 2 = t
<1>1. t \in 0 .. 2 - 1 /\ 2 \in Nat \ {0}
  OBVIOUS
<1> QED BY <1>1, QuotientUnique

MovesTo(mn, sz, s, r, c, x) ==
  OneBit(mn, sz, s) = [r |-> r, c |-> c, x |-> x,
                       v |-> IF mn = "ASL" /\ Msb(r, sz) # Msb(s.r, sz) THEN 1 ELSE s.v]
Bottom(mn, t, x) == IF mn \in {"LSL", "ASL"} THEN 0 ELSE IF mn = "ROL" THEN t ELSE x
Topmost(mn, m, t, x) == CASE mn = "LSR" -> 0 [] mn = "ASR" -> m [] mn = "ROR" -> t [] mn = "ROXR" -> x

LEMMA OneLeft ==
  ASSUME NEW sz \in Sizes, NEW h \in Nat \ {0}, h = 2^(Bits[sz] - 1),
         NEW mn \in {"LSL", "ASL", "ROL", "ROXL"}, NEW s, NEW t \in Int, t = 0 \/ t = 1,
         NEW y \in Int, 0 <= y, y < h, s.r = t * h + y, s.x \in Int
  PROVE  MovesTo(mn, sz, s, 2 * y + Bottom(mn, t, s.x), t, IF mn = "ROL" THEN s.x ELSE t)
<1>1. PICK r \in Int : r = s.r /\ r = t * h + y
  OBVIOUS
<1>0. ToLeft(sz, h, t, y, r)
  BY <1>1, LeftBit
<1>2. Msb(r, sz) = t /\ Low(2 * r, sz) = 2 * y
  BY <1>0 DEF ToLeft
<1>3. CASE mn \in {"LSL", "ASL"}
  <2>1. 2 * y + Bottom(mn, t, s.x) = 2 * y
    BY <1>3 DEF Bottom
  <2> QED BY <1>1, <1>2, <1>3, <2>1 DEF OneBit, MovesTo
<1>4. CASE mn = "ROL"
  <2>1. Bottom(mn, t, s.x) = t
    BY <1>4 DEF Bottom
  <2> QED BY <1>1, <1>2, <1>4, <2>1 DEF OneBit, MovesTo
<1>5. CASE mn = "ROXL"
  <2>1. Bottom(mn, t, s.x) = s.x
    BY <1>5 DEF Bottom
  <2> QED BY <1>1, <1>2, <1>5, <2>1 DEF OneBit, MovesTo
<1> QED BY <1>3, <1>4, <1>5

LEMMA OneRight ==
  ASSUME NEW sz \in Sizes, NEW h \in Nat \ {0}, h = 2^(Bits[sz] - 1),
         NEW mn \in {"LSR", "ASR", "ROR", "ROXR"}, NEW s, NEW t \in Int, t = 0 \/ t = 1,
         NEW y \in Int, 0 <= y, y < h, s.r = 2 * y + t, s.x \in Int
  PROVE  MovesTo(mn, sz, s, Topmost(mn, Msb(s.r, sz), t, s.x) * h + y, t, IF mn = "ROR" THEN s.x ELSE t)
<1>1. PICK r \in Int : r = s.r /\ r = 2 * y + t
  OBVIOUS
<1>2. r \div 2 = y /\ r % 2 = t
  BY <1>1, RightBit
<1>3. PICK m \in Int : m = Msb(s.r, sz)
  BY <1>1, LowType
<1>4. CASE mn = "LSR"
  <2>1. Topmost(mn, m, t, s.x) * h + y = y
    BY <1>4 DEF Topmost
  <2> QED BY <1>1, <1>2, <1>3, <1>4, <2>1 DEF OneBit, MovesTo
<1>5. CASE mn = "ASR"
  <2>1. Topmost(mn, m, t, s.x) = m /\ m * h + y = y + m * h
    BY <1>5 DEF Topmost
  <2> QED BY <1>1, <1>2, <1>3, <1>5, <2>1 DEF OneBit, MovesTo
<1>6. CASE mn = "ROR"
  <2>1. Topmost(mn, m, t, s.x) = t /\ t * h + y = y + t * h
    BY <1>6 DEF Topmost
  <2> QED BY <1>1, <1>2, <1>3, <1>6, <2>1 DEF OneBit, MovesTo
<1>7. CASE mn = "ROXR"
  <2>1. PICK x \in Int : x = s.x
    OBVIOUS
  <2>2. Topmost(mn, m, t, s.x) = x /\ x * h + y = y + x * h
    BY <1>7, <2>1 DEF Topmost
  <2> QED BY <1>1, <1>2, <1>3, <1>7, <2>1, <2>2 DEF OneBit, MovesTo
<1> QED BY <1>4, <1>5, <1>6, <1>7

\* Shifted to the left by n, fewer than the size has, and by one more.
LeftAt(sz, h, sv, n, u, p, q, t, l, y) ==
  /\ 0 <= y /\ y < h /\ y = l * u /\ (t = 0 \/ t = 1)
  /\ ShiftLeft(sv, n, sz).r = t * h + y /\ Msb(t * h + y, sz) = t
  /\ ShiftLeft(sv, n + 1, sz).r = 2 * y /\ ShiftLeft(sv, n + 1, sz).c = t

LEMMA LeftPlaced ==
  ASSUME NEW sz \in Sizes, NEW h \in Nat \ {0}, h = 2^(Bits[sz] - 1), NEW sv \in Int, 0 <= sv, sv < 2 * h,
         NEW n \in Nat, n < Bits[sz], NEW u \in Nat \ {0}, NEW p \in Nat \ {0},
         NEW q \in Int, NEW t \in Int, NEW l \in Int, Place(sv, Bits[sz], h, n, u, p, q, t, l)
  PROVE  \E y \in Int : LeftAt(sz, h, sv, n, u, p, q, t, l, y)
<1>0. PICK b \in Nat \ {0} : b = Bits[sz]
  BY Widths
<1>1. /\ 2^n = u /\ 2^(b - (n + 1)) = p /\ 2^(b - n) = 2 * p /\ 2^(n + 1) = 2 * u /\ h = p * u
      /\ 0 <= q /\ q < u /\ 0 <= l /\ l < p /\ (t = 0 \/ t = 1)
      /\ sv \div p = 2 * q + t /\ sv % p = l /\ sv % (2 * p) = t * p + l
  BY <1>0 DEF Place, Cut
<1>2. PICK y \in Int : y = l * u
  OBVIOUS
<1>3. 0 <= y /\ y < h
  <2>1. (p - 1) * u = p * u - u
    OBVIOUS
  <2>2. l * u <= (p - 1) * u
    BY <1>1
  <2>3. 0 <= l * u
    BY <1>1
  <2> QED BY <1>1, <1>2, <2>1, <2>2, <2>3
<1>4. (t * p + l) * u = t * h + y
  <2>1. CASE t = 0
    BY <1>2, <2>1
  <2>2. CASE t = 1
    <3>1. (p + l) * u = p * u + l * u
      OBVIOUS
    <3> QED BY <1>1, <1>2, <2>2, <3>1
  <2> QED BY <1>1, <2>1, <2>2
<1>5. PICK r \in Int : r = t * h + y
  OBVIOUS
<1>6. ToLeft(sz, h, t, y, r)
  BY <1>1, <1>3, <1>5, LeftBit
<1>7. ShiftLeft(sv, n, sz).r = r
  <2>1. ShiftLeft(sv, n, sz).r = Low((sv % 2^(b - n)) * 2^n, sz)
    BY <1>0 DEF ShiftLeft
  <2> QED BY <1>1, <1>4, <1>5, <1>6, <2>1 DEF ToLeft
<1>8. ShiftLeft(sv, n + 1, sz).r = 2 * y
  <2>1. CASE n + 1 < b
    <3>1. ShiftLeft(sv, n + 1, sz).r = Low((sv % 2^(b - (n + 1))) * 2^(n + 1), sz)
      BY <1>0, <2>1 DEF ShiftLeft
    <3>2. l * (2 * u) = 2 * y
      BY <1>2
    <3>3. PICK v \in Int : v = 2 * y
      OBVIOUS
    <3>4. 0 <= v /\ v < 2 * h
      BY <1>3, <3>3
    <3>5. OfSize(sz, h, v)
      BY <3>4, NumberFits
    <3> QED BY <1>1, <3>1, <3>2, <3>3, <3>5 DEF OfSize
  <2>2. CASE ~(n + 1 < b)
    <3>1. b - (n + 1) = 0
      BY <1>0, <2>2
    <3>2. p = 1
      BY <1>1, <3>1, PowerZero
    <3>3. y = 0
      BY <1>1, <1>2, <3>2
    <3> QED BY <1>0, <2>2, <3>3 DEF ShiftLeft
  <2> QED BY <2>1, <2>2
<1>9. ShiftLeft(sv, n + 1, sz).c = t
  <2>1. n + 1 \in 1 .. b
    BY <1>0
  <2>2. ShiftLeft(sv, n + 1, sz).c = (sv \div 2^(b - (n + 1))) % 2
    BY <1>0, <2>1 DEF ShiftLeft
  <2>3. PICK g \in Int : g = 2 * q + t
    OBVIOUS
  <2>4. g % 2 = t
    BY <1>1, <2>3, RightBit
  <2> QED BY <1>1, <2>2, <2>3, <2>4
<1>10. LeftAt(sz, h, sv, n, u, p, q, t, l, y)
  BY <1>1, <1>2, <1>3, <1>5, <1>6, <1>7, <1>8, <1>9 DEF LeftAt, ToLeft
<1> QED BY <1>10

\* What every left shift has in common.
LeftOn(sz, h, sv, n, t, y) ==
  /\ 0 <= y /\ y < h /\ (t = 0 \/ t = 1)
  /\ ShiftLeft(sv, n, sz).r = t * h + y /\ Msb(t * h + y, sz) = t
  /\ ShiftLeft(sv, n + 1, sz).r = 2 * y /\ ShiftLeft(sv, n + 1, sz).c = t

LEMMA LeftGoesOn ==
  ASSUME NEW sz \in Sizes, NEW h \in Nat \ {0}, h = 2^(Bits[sz] - 1), NEW sv \in Int, 0 <= sv, sv < 2 * h,
         NEW n \in Nat
  PROVE  \E t, y \in Int : LeftOn(sz, h, sv, n, t, y)
<1>0. PICK b \in Nat \ {0} : b = Bits[sz]
  BY Widths
<1>1. CASE n < b
  <2>0. h = 2^(b - 1)
    BY <1>0
  <2>1. PICK u \in Nat \ {0}, p \in Nat \ {0}, q, t, l \in Int : Place(sv, b, h, n, u, p, q, t, l)
    BY <1>1, <2>0, PlaceFound
  <2>2. PICK y \in Int : LeftAt(sz, h, sv, n, u, p, q, t, l, y)
    BY <1>0, <1>1, <2>1, LeftPlaced
  <2>3. LeftOn(sz, h, sv, n, t, y)
    BY <2>2 DEF LeftAt, LeftOn
  <2> QED BY <2>3
<1>2. CASE ~(n < b)
  <2>1. ShiftLeft(sv, n, sz).r = 0 /\ ShiftLeft(sv, n + 1, sz).r = 0
    BY <1>0, <1>2 DEF ShiftLeft
  <2>2. n + 1 \notin 1 .. b
    BY <1>0, <1>2
  <2>3. ShiftLeft(sv, n + 1, sz).c = 0
    BY <1>0, <2>2 DEF ShiftLeft
  <2>4. OfSize(sz, h, 0)
    BY NumberFits
  <2>5. Msb(0, sz) = 0
    BY <2>4 DEF OfSize
  <2>6. LeftOn(sz, h, sv, n, 0, 0)
    BY <2>1, <2>3, <2>5 DEF LeftOn
  <2> QED BY <2>6
<1> QED BY <1>1, <1>2

\* What a count of n leaves, and the flags with it.
ShiftedTo(mn, sv, n, sz, x) ==
  LET s == Shift(mn, sv, n, sz, x)
  IN  [r |-> s.r, c |-> IF n = 0 THEN 0 ELSE s.c,
       x |-> IF mn \in Rotates \/ n = 0 THEN x ELSE s.c, v |-> s.v]
StartsAt(mn, sv, sz, x) == ShiftedTo(mn, sv, 0, sz, x) = [r |-> sv, c |-> 0, x |-> x, v |-> 0]
GoesOn(mn, sv, n, sz, x) == OneBit(mn, sz, ShiftedTo(mn, sv, n, sz, x)) = ShiftedTo(mn, sv, n + 1, sz, x)

LEMMA LslSteps ==
  ASSUME NEW sz \in Sizes, NEW h \in Nat \ {0}, h = 2^(Bits[sz] - 1), NEW sv \in Int, 0 <= sv, sv < 2 * h,
         NEW x \in {0, 1}, NEW n \in Nat
  PROVE  GoesOn("LSL", sv, n, sz, x)
<1>1. PICK t, y \in Int : LeftOn(sz, h, sv, n, t, y)
  BY LeftGoesOn
<1>2. PICK s : s = ShiftedTo("LSL", sv, n, sz, x)
  OBVIOUS
<1>3. /\ s.r = t * h + y /\ s.v = 0 /\ 0 <= y /\ y < h /\ (t = 0 \/ t = 1)
      /\ s.x = IF n = 0 THEN x ELSE ShiftLeft(sv, n, sz).c
  BY <1>1, <1>2 DEF LeftOn, ShiftedTo, Shift, ShiftLeft, Rotates
<1>4. ShiftLeft(sv, n, sz).c \in Int
  BY ShiftLeftOK DEF ShiftOK
<1>5. s.x \in Int
  BY <1>3, <1>4
<1>6. MovesTo("LSL", sz, s, 2 * y + Bottom("LSL", t, s.x), t, IF "LSL" = "ROL" THEN s.x ELSE t)
  BY <1>3, <1>5, OneLeft
<1>7. OneBit("LSL", sz, s) = [r |-> 2 * y, c |-> t, x |-> t, v |-> 0]
  BY <1>3, <1>6 DEF MovesTo, Bottom
<1>8. Shift("LSL", sv, n + 1, sz, x).r = 2 * y /\ Shift("LSL", sv, n + 1, sz, x).c = t
      /\ Shift("LSL", sv, n + 1, sz, x).v = 0
  BY <1>1 DEF LeftOn, Shift, ShiftLeft
<1>9. n + 1 # 0
  OBVIOUS
<1>10. ShiftedTo("LSL", sv, n + 1, sz, x) = [r |-> 2 * y, c |-> t, x |-> t, v |-> 0]
  BY <1>8, <1>9 DEF ShiftedTo, Rotates
<1> QED BY <1>2, <1>7, <1>10 DEF GoesOn

LEMMA LeftStarts ==
  ASSUME NEW sz \in Sizes, NEW h \in Nat \ {0}, h = 2^(Bits[sz] - 1), NEW sv \in Int, 0 <= sv, sv < 2 * h
  PROVE  ShiftLeft(sv, 0, sz).r = sv
<1>0. PICK b \in Nat \ {0} : b = Bits[sz]
  BY Widths
<1>1. PICK w \in Nat \ {0} : w = 2 * h /\ w = 2^b
  BY <1>0, HalfOf
<1>2. sv \in 0 .. w - 1 /\ sv = w * 0 + sv /\ 0 \in Int
  BY <1>1
<1>3. sv % w = sv
  BY <1>2, RemainderUnique
<1>4. OfSize(sz, h, sv)
  BY NumberFits
<1>5. ShiftLeft(sv, 0, sz).r = Low((sv % 2^(b - 0)) * 2^0, sz)
  BY <1>0 DEF ShiftLeft
<1>6. b - 0 = b /\ sv * 1 = sv
  OBVIOUS
<1> QED BY <1>1, <1>3, <1>4, <1>5, <1>6, PowerZero DEF OfSize

LEMMA LslAslStart ==
  ASSUME NEW sz \in Sizes, NEW h \in Nat \ {0}, h = 2^(Bits[sz] - 1), NEW sv \in Int, 0 <= sv, sv < 2 * h,
         NEW x \in {0, 1}
  PROVE  StartsAt("LSL", sv, sz, x) /\ StartsAt("ASL", sv, sz, x)
<1>1. ShiftLeft(sv, 0, sz).r = sv
  BY LeftStarts
<1>2. Shift("LSL", sv, 0, sz, x).r = sv /\ Shift("LSL", sv, 0, sz, x).v = 0
  BY <1>1 DEF Shift, ShiftLeft
<1>3. ~SignMoved(sv, 0, sz)
  BY DEF SignMoved
<1>4. Flag(SignMoved(sv, 0, sz)) = 0
  BY <1>3 DEF Flag
<1>5. Shift("ASL", sv, 0, sz, x).r = sv /\ Shift("ASL", sv, 0, sz, x).v = 0
  BY <1>1, <1>4 DEF Shift, ShiftLeft
<1> QED BY <1>2, <1>5 DEF StartsAt, ShiftedTo

\* The sign has moved after n + 1 bits if it had after n, or does with the last.
\* g is the top n + 1 bits, all alike when it is 0 or the greatest; t is the
\* last of them, and k the next.
Alike(g, u) == g = 0 \/ g = 2 * u - 1
AlikeOn(u, q, t, g, k) == ~Alike(2 * g + k, 2 * u) <=> (~Alike(g, u) \/ k # t)

LEMMA AlikeStep ==
  ASSUME NEW u \in Nat \ {0}, NEW q \in Int, 0 <= q, q < u, NEW t \in Int, t = 0 \/ t = 1, NEW g \in Int,
         g = 2 * q + t, NEW k \in Int, k = 0 \/ k = 1
  PROVE  AlikeOn(u, q, t, g, k)
<1>1. CASE t = 0
  <2>1. CASE k = 0
    BY <1>1, <2>1 DEF Alike, AlikeOn
  <2>2. CASE k = 1
    BY <1>1, <2>2 DEF Alike, AlikeOn
  <2> QED BY <2>1, <2>2
<1>2. CASE t = 1
  <2>1. CASE k = 0
    BY <1>2, <2>1 DEF Alike, AlikeOn
  <2>2. CASE k = 1
    BY <1>2, <2>2 DEF Alike, AlikeOn
  <2> QED BY <2>1, <2>2
<1> QED BY <1>1, <1>2

SignOf(sv, n, sz) == Msb(ShiftLeft(sv, n, sz).r, sz)
SignGoesOn(sv, n, sz) ==
  SignMoved(sv, n + 1, sz) <=> (SignMoved(sv, n, sz) \/ SignOf(sv, n + 1, sz) # SignOf(sv, n, sz))

\* ... while the size has bits left ...
LEMMA SignWithin ==
  ASSUME NEW sz \in Sizes, NEW h \in Nat \ {0}, h = 2^(Bits[sz] - 1), NEW sv \in Int, 0 <= sv, sv < 2 * h,
         NEW n \in Nat, n < Bits[sz], NEW u \in Nat \ {0}, NEW p \in Nat \ {0},
         NEW q \in Int, NEW t \in Int, NEW l \in Int, Place(sv, Bits[sz], h, n, u, p, q, t, l)
  PROVE  /\ SignMoved(sv, n, sz) <=> ~Alike(2 * q + t, u)
         /\ SignOf(sv, n, sz) = t
<1>0. PICK b \in Nat \ {0} : b = Bits[sz]
  BY Widths
<1>1. /\ 2^(b - (n + 1)) = p /\ 2^(n + 1) = 2 * u /\ (t = 0 \/ t = 1) /\ sv \div p = 2 * q + t
      /\ u = 2^n /\ 0 <= q /\ q < u
  BY <1>0 DEF Place, Cut
<1>2. b - 1 - n = b - (n + 1)
  BY <1>0
<1>3. SignMoved(sv, n, sz) <=> n > 0 /\ 2 * q + t \notin {0, 2 * u - 1}
  BY <1>0, <1>1, <1>2 DEF SignMoved
<1>4. n = 0 => Alike(2 * q + t, u)
  <2>1. SUFFICES ASSUME n = 0 PROVE Alike(2 * q + t, u)
    OBVIOUS
  <2>2. u = 1
    BY <1>1, <2>1, PowerZero
  <2>3. q = 0
    BY <1>1, <2>2
  <2> QED BY <1>1, <2>2, <2>3 DEF Alike
<1>5. SignMoved(sv, n, sz) <=> ~Alike(2 * q + t, u)
  BY <1>3, <1>4 DEF Alike
<1>6. PICK y \in Int : LeftAt(sz, h, sv, n, u, p, q, t, l, y)
  BY LeftPlaced
<1>7. SignOf(sv, n, sz) = t
  BY <1>6 DEF LeftAt, SignOf
<1> QED BY <1>5, <1>7

LEMMA SignBeyond ==
  ASSUME NEW sz \in Sizes, NEW h \in Nat \ {0}, h = 2^(Bits[sz] - 1), NEW sv \in Int,
         NEW n \in Nat, ~(n < Bits[sz])
  PROVE  (SignMoved(sv, n, sz) <=> sv # 0) /\ SignOf(sv, n, sz) = 0
<1>0. PICK b \in Nat \ {0} : b = Bits[sz]
  BY Widths
<1>1. OfSize(sz, h, 0)
  BY NumberFits
<1>2. ShiftLeft(sv, n, sz).r = 0
  BY <1>0 DEF ShiftLeft
<1>3. SignOf(sv, n, sz) = 0
  BY <1>1, <1>2 DEF OfSize, SignOf
<1>4. n >= b /\ n > 0
  BY <1>0
<1>5. SignMoved(sv, n, sz) <=> sv # 0
  BY <1>0, <1>4 DEF SignMoved
<1> QED BY <1>3, <1>5

LEMMA SignSteps ==
  ASSUME NEW sz \in Sizes, NEW h \in Nat \ {0}, h = 2^(Bits[sz] - 1), NEW sv \in Int, 0 <= sv, sv < 2 * h,
         NEW n \in Nat
  PROVE  SignGoesOn(sv, n, sz)
<1>0. PICK b \in Nat \ {0} : b = Bits[sz] /\ h = 2^(b - 1)
  BY Widths
<1>1. CASE n < b
  <2>1. PICK u \in Nat \ {0}, p \in Nat \ {0}, q, t, l \in Int : Place(sv, b, h, n, u, p, q, t, l)
    BY <1>0, <1>1, PlaceFound
  <2>2. (SignMoved(sv, n, sz) <=> ~Alike(2 * q + t, u)) /\ SignOf(sv, n, sz) = t
    BY <1>0, <1>1, <2>1, SignWithin
  <2>3. /\ 2^(b - (n + 1)) = p /\ 2^(n + 1) = 2 * u /\ (t = 0 \/ t = 1) /\ sv \div p = 2 * q + t
        /\ 0 <= q /\ q < u /\ sv = p * (2 * q + t) + l /\ 0 <= l /\ l < p
    BY <2>1 DEF Place, Cut
  <2>4. PICK g \in Int : g = 2 * q + t
    OBVIOUS
  <2>5. CASE n + 1 < b
    <3>1. PICK v \in Nat \ {0}, o \in Nat \ {0}, d, k, j \in Int : Place(sv, b, h, n + 1, v, o, d, k, j)
      <4>1. PICK m \in Nat : m = n + 1
        OBVIOUS
      <4>2. m < b
        BY <2>5, <4>1
      <4> QED BY <1>0, <4>1, <4>2, PlaceFound
    <3>2. (SignMoved(sv, n + 1, sz) <=> ~Alike(2 * d + k, v)) /\ SignOf(sv, n + 1, sz) = k
      <4>1. PICK m \in Nat : m = n + 1
        OBVIOUS
      <4>2. m < Bits[sz] /\ Place(sv, Bits[sz], h, m, v, o, d, k, j)
        BY <1>0, <2>5, <3>1, <4>1
      <4> QED BY <4>1, <4>2, SignWithin
    <3>3. v = 2^(n + 1) /\ 2^(b - (n + 1)) = 2 * o /\ sv \div (2 * o) = d /\ (k = 0 \/ k = 1)
      BY <3>1 DEF Place, Cut
    <3>4. v = 2 * u /\ d = g
      BY <2>3, <2>4, <3>3
    <3>5. AlikeOn(u, q, t, g, k)
      BY <2>3, <2>4, <3>3, AlikeStep
    <3>6. ~Alike(2 * g + k, 2 * u) <=> (~Alike(g, u) \/ k # t)
      BY <3>5 DEF AlikeOn
    <3> QED BY <2>2, <2>4, <3>2, <3>4, <3>6 DEF SignGoesOn
  <2>6. CASE ~(n + 1 < b)
    <3>1. (SignMoved(sv, n + 1, sz) <=> sv # 0) /\ SignOf(sv, n + 1, sz) = 0
      <4>1. PICK m \in Nat : m = n + 1
        OBVIOUS
      <4>2. ~(m < Bits[sz])
        BY <1>0, <2>6, <4>1
      <4> QED BY <4>1, <4>2, SignBeyond
    <3>2. b - (n + 1) = 0
      BY <1>0, <1>1, <2>6
    <3>3. p = 1
      BY <2>3, <3>2, PowerZero
    <3>4. sv = g
      BY <2>3, <2>4, <3>3
    <3>5. g # 0 <=> (~Alike(g, u) \/ 0 # t)
      BY <2>3, <2>4 DEF Alike
    <3> QED BY <2>2, <2>4, <3>1, <3>4, <3>5 DEF SignGoesOn
  <2> QED BY <2>5, <2>6
<1>2. CASE ~(n < b)
  <2>1. (SignMoved(sv, n, sz) <=> sv # 0) /\ SignOf(sv, n, sz) = 0
    BY <1>0, <1>2, SignBeyond
  <2>2. (SignMoved(sv, n + 1, sz) <=> sv # 0) /\ SignOf(sv, n + 1, sz) = 0
    <3>1. PICK m \in Nat : m = n + 1
      OBVIOUS
    <3>2. ~(m < Bits[sz])
      BY <1>0, <1>2, <3>1
    <3> QED BY <3>1, <3>2, SignBeyond
  <2> QED BY <2>1, <2>2 DEF SignGoesOn
<1> QED BY <1>1, <1>2

LEMMA ShiftFits ==
  ASSUME NEW mn \in Shifts, NEW sz \in Sizes, NEW h \in Nat \ {0}, h = 2^(Bits[sz] - 1), NEW sv \in Int, 0 <= sv,
         sv < 2 * h, NEW n \in Nat, NEW x \in {0, 1}
  PROVE  ShiftOK(Shift(mn, sv, n, sz, x))
<1>1. sv \in 0 .. 2^Bits[sz] - 1
  BY HalfOf
<1> QED BY <1>1, ShiftType

LEMMA AslSteps ==
  ASSUME NEW sz \in Sizes, NEW h \in Nat \ {0}, h = 2^(Bits[sz] - 1), NEW sv \in Int, 0 <= sv, sv < 2 * h,
         NEW x \in {0, 1}, NEW n \in Nat
  PROVE  GoesOn("ASL", sv, n, sz, x)
<1>1. PICK t, y \in Int : LeftOn(sz, h, sv, n, t, y)
  BY LeftGoesOn
<1>2. PICK s : s = ShiftedTo("ASL", sv, n, sz, x)
  OBVIOUS
<1>3. /\ s.r = t * h + y /\ 0 <= y /\ y < h /\ (t = 0 \/ t = 1)
      /\ s.x = IF n = 0 THEN x ELSE ShiftLeft(sv, n, sz).c
  BY <1>1, <1>2 DEF LeftOn, ShiftedTo, Shift, ShiftLeft, Rotates
<1>4. s.v = Flag(SignMoved(sv, n, sz))
  BY <1>2 DEF ShiftedTo, Shift, ShiftLeft
<1>5. ShiftLeft(sv, n, sz).c \in Int
  BY ShiftLeftOK DEF ShiftOK
<1>6. s.x \in Int
  BY <1>3, <1>5
<1>7. MovesTo("ASL", sz, s, 2 * y + Bottom("ASL", t, s.x), t, IF "ASL" = "ROL" THEN s.x ELSE t)
  BY <1>3, <1>6, OneLeft
<1>8. PICK v : v = IF Msb(2 * y, sz) # Msb(s.r, sz) THEN 1 ELSE s.v
  OBVIOUS
<1>9. OneBit("ASL", sz, s) = [r |-> 2 * y, c |-> t, x |-> t, v |-> v]
  BY <1>3, <1>7, <1>8 DEF MovesTo, Bottom
<1>10. SignGoesOn(sv, n, sz)
  BY SignSteps
<1>11. SignOf(sv, n, sz) = Msb(s.r, sz) /\ SignOf(sv, n + 1, sz) = Msb(2 * y, sz)
  BY <1>1, <1>3 DEF LeftOn, SignOf
<1>12. Flag(SignMoved(sv, n + 1, sz)) = v
  BY <1>4, <1>8, <1>10, <1>11 DEF SignGoesOn, Flag
<1>13. Shift("ASL", sv, n + 1, sz, x).r = 2 * y /\ Shift("ASL", sv, n + 1, sz, x).c = t
       /\ Shift("ASL", sv, n + 1, sz, x).v = v
  BY <1>1, <1>12 DEF LeftOn, Shift, ShiftLeft
<1>14. n + 1 # 0
  OBVIOUS
<1>15. ShiftedTo("ASL", sv, n + 1, sz, x) = [r |-> 2 * y, c |-> t, x |-> t, v |-> v]
  BY <1>13, <1>14 DEF ShiftedTo, Rotates
<1> QED BY <1>2, <1>9, <1>15 DEF GoesOn

\* Beyond the size's bits there is only the sign.
LEMMA PowerBeyond ==
  ASSUME NEW b \in Nat, NEW n \in Nat, b <= n, NEW w \in Nat \ {0}, w = 2^b
  PROVE  2^n \in Nat \ {0} /\ 2^n >= w
<1>1. PICK m \in Nat : m = n - b /\ n = b + m
  OBVIOUS
<1>2. PICK p \in Nat \ {0} : p = 2^m
  BY PowerNat
<1>3. 2^n = w * p
  BY <1>1, <1>2, PowerAdd
<1>4. w * p >= w
  OBVIOUS
<1> QED BY <1>3, <1>4, PowerNat

LEMMA FarQuotient ==
  ASSUME NEW s \in Int, NEW w \in Nat \ {0}, -w <= s, s < w
  PROVE  s \div w = IF s < 0 THEN -1 ELSE 0
<1>1. CASE s < 0
  <2>1. PICK r \in 0 .. w - 1 : r = s + w
    BY <1>1
  <2>2. s = w * (-1) + r /\ -1 \in Int
    BY <2>1
  <2>3. s \div w = -1
    BY <2>2, QuotientUnique
  <2> QED BY <1>1, <2>3
<1>2. CASE ~(s < 0)
  <2>1. s \in 0 .. w - 1 /\ s = w * 0 + s /\ 0 \in Int
    BY <1>2
  <2>2. s \div w = 0
    BY <2>1, QuotientUnique
  <2> QED BY <1>2, <2>2
<1> QED BY <1>1, <1>2

\* LSR divides: r by 2^n, all of it, and bit n leaves next.
LsrAt(sz, sv, n, e) ==
  /\ Shift("LSR", sv, n, sz, 0).r = e /\ Shift("LSR", sv, n, sz, 1).r = e
  /\ Shift("LSR", sv, n + 1, sz, 0).c = e % 2 /\ Shift("LSR", sv, n + 1, sz, 1).c = e % 2

LEMMA LsrDivides ==
  ASSUME NEW sz \in Sizes, NEW h \in Nat \ {0}, h = 2^(Bits[sz] - 1), NEW sv \in Int, 0 <= sv, sv < 2 * h,
         NEW n \in Nat, NEW e, e = sv \div 2^n
  PROVE  LsrAt(sz, sv, n, e)
<1>0. PICK b \in Nat \ {0} : b = Bits[sz] /\ 2^b = 2 * h
  BY Widths
<1>1. (n + 1) - 1 = n
  OBVIOUS
<1>2. CASE n < b
  <2>1. n + 1 \in 1 .. b
    BY <1>0, <1>2
  <2> QED BY <1>0, <1>1, <1>2, <2>1 DEF Shift, LsrAt
<1>3. CASE ~(n < b)
  <2>1. PICK w \in Nat \ {0} : w = 2^n /\ w >= 2 * h
    <3>1. PICK v \in Nat \ {0} : v = 2 * h /\ v = 2^b
      BY <1>0
    <3>2. b <= n
      BY <1>0, <1>3
    <3> QED BY <3>1, <3>2, PowerBeyond
  <2>2. -w <= sv /\ sv < w
    BY <2>1
  <2>5. sv \div w = IF sv < 0 THEN -1 ELSE 0
    BY <2>2, FarQuotient
  <2>3. e = 0
    BY <2>1, <2>5
  <2>4. n + 1 \notin 1 .. b /\ 0 % 2 = 0
    BY <1>0, <1>3
  <2> QED BY <1>0, <1>3, <2>3, <2>4 DEF Shift, LsrAt
<1> QED BY <1>2, <1>3

LEMMA LsrSteps ==
  ASSUME NEW sz \in Sizes, NEW h \in Nat \ {0}, h = 2^(Bits[sz] - 1), NEW sv \in Int, 0 <= sv, sv < 2 * h,
         NEW x \in {0, 1}, NEW n \in Nat
  PROVE  GoesOn("LSR", sv, n, sz, x)
<1>1. PICK u \in Nat \ {0} : u = 2^n /\ 2^(n + 1) = 2 * u
  BY PowerNat, PowerStep
<1>2. PICK q, t, l \in Int : Cut(sv, u, q, t, l)
  BY Cuts
<1>3. PICK e \in Int : e = 2 * q + t
  OBVIOUS
<1>4. e = sv \div 2^n /\ q = sv \div 2^(n + 1) /\ (t = 0 \/ t = 1) /\ sv = u * e + l /\ 0 <= l /\ l < u
  BY <1>1, <1>2, <1>3 DEF Cut
<1>5. 0 <= q /\ q < h
  <2>1. 0 <= e
    <3>1. SUFFICES ASSUME e <= -1 PROVE FALSE
      OBVIOUS
    <3>2. u * e <= -u
      BY <3>1
    <3> QED BY <1>4, <3>2
  <2>2. e < 2 * h
    <3>1. SUFFICES ASSUME e >= 2 * h PROVE FALSE
      OBVIOUS
    <3>2. u * e >= e
      BY <2>1
    <3> QED BY <1>4, <3>1, <3>2
  <2> QED BY <1>3, <1>4, <2>1, <2>2
<1>6. LsrAt(sz, sv, n, e)
  BY <1>4, LsrDivides
<1>7. LsrAt(sz, sv, n + 1, q)
  <2>1. PICK m \in Nat : m = n + 1
    OBVIOUS
  <2>2. q = sv \div 2^m
    BY <1>4, <2>1
  <2>3. LsrAt(sz, sv, m, q)
    BY <2>2, LsrDivides
  <2> QED BY <2>1, <2>3
<1>8. e % 2 = t
  BY <1>3, <1>4, RightBit
<1>9. PICK s : s = ShiftedTo("LSR", sv, n, sz, x)
  OBVIOUS
<1>10. ShiftOK(Shift("LSR", sv, n, sz, x))
  <2>1. "LSR" \in Shifts
    BY DEF Shifts
  <2> QED BY <2>1, ShiftFits
<1>11. s.r = 2 * q + t /\ s.v = 0 /\ s.x \in Int
  <2>1. Shift("LSR", sv, n, sz, x).r = e
    BY <1>6 DEF LsrAt
  <2>2. Shift("LSR", sv, n, sz, x).v = 0
    BY DEF Shift
  <2>3. Shift("LSR", sv, n, sz, x).c \in Int
    BY <1>10 DEF ShiftOK
  <2> QED BY <1>3, <1>9, <2>1, <2>2, <2>3 DEF ShiftedTo
<1>12. MovesTo("LSR", sz, s, Topmost("LSR", Msb(s.r, sz), t, s.x) * h + q, t, IF "LSR" = "ROR" THEN s.x ELSE t)
  BY <1>4, <1>5, <1>11, OneRight
<1>13. Topmost("LSR", Msb(s.r, sz), t, s.x) * h + q = q
  BY DEF Topmost
<1>14. OneBit("LSR", sz, s) = [r |-> q, c |-> t, x |-> t, v |-> 0]
  BY <1>11, <1>12, <1>13 DEF MovesTo
<1>15. Shift("LSR", sv, n + 1, sz, x).r = q /\ Shift("LSR", sv, n + 1, sz, x).c = t
  BY <1>6, <1>7, <1>8 DEF LsrAt
<1>16. Shift("LSR", sv, n + 1, sz, x).v = 0 /\ n + 1 # 0
  BY DEF Shift
<1>17. ShiftedTo("LSR", sv, n + 1, sz, x) = [r |-> q, c |-> t, x |-> t, v |-> 0]
  BY <1>15, <1>16 DEF ShiftedTo, Rotates
<1> QED BY <1>9, <1>14, <1>17 DEF GoesOn

\* ASR divides the signed number, which beyond the size leaves the sign.
AsrAt(sz, sv, n, e) ==
  /\ Shift("ASR", sv, n, sz, 0).r = Low(e, sz) /\ Shift("ASR", sv, n, sz, 1).r = Low(e, sz)
  /\ Shift("ASR", sv, n + 1, sz, 0).c = e % 2 /\ Shift("ASR", sv, n + 1, sz, 1).c = e % 2

LEMMA MinusOne ==
  ASSUME NEW sz \in Sizes, NEW h \in Nat \ {0}, h = 2^(Bits[sz] - 1)
  PROVE  Low(-1, sz) = 2 * h - 1 /\ Low(0, sz) = 0
<1>1. PICK w \in Nat \ {0} : w = 2 * h
  OBVIOUS
<1>2. -1 = w * (-1) + (w - 1) /\ w - 1 \in 0 .. w - 1 /\ -1 \in Int
  OBVIOUS
<1>3. (-1) % w = w - 1
  BY <1>2, RemainderUnique
<1>4. 0 = w * 0 + 0 /\ 0 \in 0 .. w - 1 /\ 0 \in Int
  OBVIOUS
<1>5. 0 % w = 0
  BY <1>4, RemainderUnique
<1>6. 2^Bits[sz] = w
  BY <1>1, HalfOf
<1> QED BY <1>1, <1>3, <1>5, <1>6 DEF Low

\* The bit that leaves is the same of the number and of the signed number.
SameBit(sz, h, sv, n, g) == (sv \div 2^n) % 2 = (g \div 2^n) % 2

LEMMA SignedBit ==
  ASSUME NEW sz \in Sizes, NEW h \in Nat \ {0}, h = 2^(Bits[sz] - 1), NEW sv \in Int,
         NEW n \in Nat, n < Bits[sz], NEW g \in Int, g = sv - 2 * h
  PROVE  SameBit(sz, h, sv, n, g)
<1>1. PICK b \in Nat \ {0} : b = Bits[sz]
  BY Widths
<1>2. PICK u \in Nat \ {0} : u = 2^n
  BY PowerNat
<1>3. PICK m \in Nat \ {0} : h = u * m
  <2>1. PICK j \in Nat : j = b - 1 - n /\ b - 1 = n + j
    BY <1>1
  <2>2. 2^(n + j) = 2^n * 2^j /\ 2^j \in Nat \ {0}
    BY PowerAdd, PowerNat
  <2> QED BY <1>1, <1>2, <2>1, <2>2
<1>4. PICK q, t, l \in Int : Cut(sv, u, q, t, l)
  BY Cuts
<1>5. sv \div u = 2 * q + t /\ sv = u * (2 * q + t) + l /\ 0 <= l /\ l < u /\ (t = 0 \/ t = 1)
  BY <1>4 DEF Cut
<1>6. PICK a \in Int : a = 2 * q + t
  OBVIOUS
<1>7. PICK c \in Int : c = 2 * (q - m) + t
  OBVIOUS
<1>8. g = u * c + l
  <2>1. c = a - 2 * m
    BY <1>6, <1>7
  <2>2. u * (a - 2 * m) = u * a - 2 * (u * m)
    OBVIOUS
  <2>3. PICK i \in Int : i = u * a
    OBVIOUS
  <2>4. u * c = i - 2 * h
    BY <1>3, <2>1, <2>2, <2>3
  <2>5. sv = i + l
    BY <1>5, <1>6, <2>3
  <2> QED BY <2>4, <2>5
<1>9. g \div u = c
  <2>1. l \in 0 .. u - 1
    BY <1>5
  <2> QED BY <1>8, <2>1, QuotientUnique
<1>10. a % 2 = t
  BY <1>5, <1>6, RightBit
<1>11. c % 2 = t
  <2>1. PICK k \in Int : k = q - m
    OBVIOUS
  <2>2. c = 2 * k + t
    BY <1>7, <2>1
  <2> QED BY <1>5, <2>2, RightBit
<1> QED BY <1>2, <1>5, <1>6, <1>9, <1>10, <1>11 DEF SameBit

LEMMA AsrDivides ==
  ASSUME NEW sz \in Sizes, NEW h \in Nat \ {0}, h = 2^(Bits[sz] - 1), NEW sv \in Int, 0 <= sv, sv < 2 * h,
         NEW n \in Nat, NEW g \in Int, g = Signed(sv, sz), NEW e \in Int, e = g \div 2^n
  PROVE  AsrAt(sz, sv, n, e)
<1>0. PICK b \in Nat \ {0} : b = Bits[sz] /\ 2^b = 2 * h /\ h = 2^(b - 1)
  BY Widths
<1>1. (n + 1) - 1 = n /\ n + 1 # 0
  OBVIOUS
<1>2. OfSize(sz, h, sv)
  BY NumberFits
<1>3. Msb(sv, sz) = (IF g < 0 THEN 1 ELSE 0) /\ -h <= g /\ g < h /\ (g = sv \/ g = sv - 2 * h)
  BY <1>2 DEF OfSize
<1>4. Low(-1, sz) = 2 * h - 1 /\ Low(0, sz) = 0
  BY MinusOne
<1>5. n >= b - 1 => e = IF g < 0 THEN -1 ELSE 0
  <2>1. SUFFICES ASSUME n >= b - 1 PROVE e = IF g < 0 THEN -1 ELSE 0
    OBVIOUS
  <2>2. PICK j \in Nat : j = b - 1 /\ j <= n /\ h = 2^j
    BY <1>0, <2>1
  <2>3. PICK w \in Nat \ {0} : w = 2^n /\ w >= h
    BY <2>2, PowerBeyond
  <2>4. -w <= g /\ g < w
    BY <1>3, <2>3
  <2> QED BY <2>3, <2>4, FarQuotient
<1>6. Shift("ASR", sv, n, sz, 0).r = Low(e, sz) /\ Shift("ASR", sv, n, sz, 1).r = Low(e, sz)
  <2>1. CASE n < b
    BY <1>0, <2>1 DEF Shift
  <2>2. CASE ~(n < b)
    <3>1. n >= b - 1
      BY <2>2
    <3>2. CASE g < 0
      <4>1. Low(e, sz) = 2 * h - 1
        BY <1>4, <1>5, <3>1, <3>2
      <4> QED BY <1>0, <2>2, <3>2, <4>1 DEF Shift
    <3>3. CASE ~(g < 0)
      <4>1. Low(e, sz) = 0
        BY <1>4, <1>5, <3>1, <3>3
      <4> QED BY <1>0, <2>2, <3>3, <4>1 DEF Shift
    <3> QED BY <3>2, <3>3
  <2> QED BY <2>1, <2>2
<1>7. Shift("ASR", sv, n + 1, sz, 0).c = e % 2 /\ Shift("ASR", sv, n + 1, sz, 1).c = e % 2
  <2>1. CASE n + 1 < b
    <3>1. (sv \div 2^n) % 2 = e % 2
      <4>1. n < Bits[sz]
        BY <1>0, <2>1
      <4>2. CASE g = sv
        BY <4>2
      <4>3. CASE g = sv - 2 * h
        <5>1. SameBit(sz, h, sv, n, g)
          BY <4>1, <4>3, SignedBit
        <5> QED BY <5>1 DEF SameBit
      <4> QED BY <1>3, <4>2, <4>3
    <3> QED BY <1>0, <1>1, <2>1, <3>1 DEF Shift
  <2>2. CASE ~(n + 1 < b)
    <3>1. n >= b - 1
      BY <2>2
    <3>2. (-1) % 2 = 1 /\ 0 % 2 = 0
      <4>1. -1 \in Int /\ 1 \in Int /\ -1 = 2 * (-1) + 1 /\ 0 \in Int /\ 0 = 2 * 0 + 0
        OBVIOUS
      <4> QED BY <4>1, RightBit
    <3>3. e % 2 = Msb(sv, sz)
      BY <1>3, <1>5, <3>1, <3>2
    <3> QED BY <1>0, <1>1, <2>2, <3>3 DEF Shift
  <2> QED BY <2>1, <2>2
<1> QED BY <1>6, <1>7 DEF AsrAt

\* Halving a signed number of the size: the sign stays at the top.
HalvesTo(sz, h, e, t, q, y) ==
  /\ 0 <= y /\ y < h /\ Low(e, sz) = 2 * y + t /\ Low(q, sz) = Msb(Low(e, sz), sz) * h + y

LEMMA SignedHalving ==
  ASSUME NEW sz \in Sizes, NEW h \in Nat \ {0}, h = 2^(Bits[sz] - 1), NEW e \in Int, -h <= e, e < h,
         NEW t \in Int, t = 0 \/ t = 1, NEW q \in Int, e = 2 * q + t
  PROVE  \E y \in Int : HalvesTo(sz, h, e, t, q, y)
<1>1. CASE e >= 0
  <2>1. 0 <= q /\ q < h /\ 0 <= e /\ e < 2 * h /\ q < 2 * h
    BY <1>1
  <2>2. OfSize(sz, h, e) /\ OfSize(sz, h, q)
    BY <2>1, NumberFits
  <2>3. Low(e, sz) = e /\ Msb(e, sz) = 0 /\ Low(q, sz) = q
    BY <1>1, <2>2 DEF OfSize
  <2>4. HalvesTo(sz, h, e, t, q, q)
    BY <2>1, <2>3 DEF HalvesTo
  <2> QED BY <2>4
<1>2. CASE ~(e >= 0)
  <2>1. PICK r \in Int : r = e + 2 * h
    OBVIOUS
  <2>2. PICK v \in Int : v = q + 2 * h
    OBVIOUS
  <2>3. 0 <= r /\ r < 2 * h /\ r >= h /\ 0 <= v /\ v < 2 * h
    BY <1>2, <2>1, <2>2
  <2>4. OfSize(sz, h, r) /\ OfSize(sz, h, v)
    BY <2>3, NumberFits
  <2>5. Low(e, sz) = r /\ Low(q, sz) = v
    <3>1. PICK w \in Nat \ {0} : w = 2 * h /\ w = 2^Bits[sz]
      BY HalfOf
    <3>2. e = w * (-1) + r /\ q = w * (-1) + v /\ -1 \in Int /\ r \in 0 .. w - 1 /\ v \in 0 .. w - 1
      BY <2>1, <2>2, <2>3, <3>1
    <3>3. e % w = r /\ q % w = v
      BY <3>2, RemainderUnique
    <3> QED BY <3>1, <3>3 DEF Low
  <2>6. PICK y \in Int : y = q + h
    OBVIOUS
  <2>7. 0 <= y /\ y < h /\ r = 2 * y + t /\ v = 1 * h + y
    BY <1>2, <2>1, <2>2, <2>6
  <2>8. Msb(r, sz) = 1
    BY <2>3, <2>4 DEF OfSize
  <2>9. HalvesTo(sz, h, e, t, q, y)
    BY <2>5, <2>7, <2>8 DEF HalvesTo
  <2> QED BY <2>9
<1> QED BY <1>1, <1>2

LEMMA AsrSteps ==
  ASSUME NEW sz \in Sizes, NEW h \in Nat \ {0}, h = 2^(Bits[sz] - 1), NEW sv \in Int, 0 <= sv, sv < 2 * h,
         NEW x \in {0, 1}, NEW n \in Nat
  PROVE  GoesOn("ASR", sv, n, sz, x)
<1>0. OfSize(sz, h, sv)
  BY NumberFits
<1>1. PICK g \in Int : g = Signed(sv, sz) /\ -h <= g /\ g < h
  BY <1>0 DEF OfSize
<1>2. PICK u \in Nat \ {0} : u = 2^n /\ 2^(n + 1) = 2 * u
  BY PowerNat, PowerStep
<1>3. PICK q, t, l \in Int : Cut(g, u, q, t, l)
  BY Cuts
<1>4. PICK e \in Int : e = 2 * q + t
  OBVIOUS
<1>5. e = g \div 2^n /\ q = g \div 2^(n + 1) /\ (t = 0 \/ t = 1) /\ g = u * e + l /\ 0 <= l /\ l < u
  BY <1>2, <1>3, <1>4 DEF Cut
<1>6. -h <= e
  <2>1. SUFFICES ASSUME e <= -h - 1 PROVE FALSE
    OBVIOUS
  <2>2. u * e <= u * (-h - 1)
    BY <2>1
  <2>3. u * (-h - 1) = -(u * h) - u
    OBVIOUS
  <2>4. u * h >= h
    OBVIOUS
  <2> QED BY <1>1, <1>5, <2>2, <2>3, <2>4
<1>7. e < h
  <2>1. SUFFICES ASSUME e >= h PROVE FALSE
    OBVIOUS
  <2>2. u * e >= e
    BY <2>1
  <2> QED BY <1>1, <1>5, <2>1, <2>2
<1>8. PICK y \in Int : HalvesTo(sz, h, e, t, q, y)
  BY <1>4, <1>5, <1>6, <1>7, SignedHalving
<1>9. AsrAt(sz, sv, n, e)
  BY <1>1, <1>5, AsrDivides
<1>10. AsrAt(sz, sv, n + 1, q)
  <2>1. PICK m \in Nat : m = n + 1
    OBVIOUS
  <2>2. q = g \div 2^m
    BY <1>5, <2>1
  <2>3. AsrAt(sz, sv, m, q)
    BY <1>1, <2>2, AsrDivides
  <2> QED BY <2>1, <2>3
<1>11. e % 2 = t
  BY <1>4, <1>5, RightBit
<1>12. PICK s : s = ShiftedTo("ASR", sv, n, sz, x)
  OBVIOUS
<1>13. ShiftOK(Shift("ASR", sv, n, sz, x))
  <2>1. "ASR" \in Shifts
    BY DEF Shifts
  <2> QED BY <2>1, ShiftFits
<1>14. s.r = 2 * y + t /\ s.v = 0 /\ s.x \in Int /\ s.r = Low(e, sz) /\ 0 <= y /\ y < h
  <2>1. Shift("ASR", sv, n, sz, x).r = Low(e, sz)
    BY <1>9 DEF AsrAt
  <2>2. Shift("ASR", sv, n, sz, x).v = 0
    BY DEF Shift
  <2>3. Shift("ASR", sv, n, sz, x).c \in Int
    BY <1>13 DEF ShiftOK
  <2>4. Low(e, sz) = 2 * y + t /\ 0 <= y /\ y < h
    BY <1>8 DEF HalvesTo
  <2> QED BY <1>12, <2>1, <2>2, <2>3, <2>4 DEF ShiftedTo
<1>15. MovesTo("ASR", sz, s, Topmost("ASR", Msb(s.r, sz), t, s.x) * h + y, t, IF "ASR" = "ROR" THEN s.x ELSE t)
  BY <1>5, <1>14, OneRight
<1>16. Topmost("ASR", Msb(s.r, sz), t, s.x) * h + y = Low(q, sz)
  BY <1>8, <1>14 DEF HalvesTo, Topmost
<1>17. OneBit("ASR", sz, s) = [r |-> Low(q, sz), c |-> t, x |-> t, v |-> 0]
  BY <1>14, <1>15, <1>16 DEF MovesTo
<1>18. Shift("ASR", sv, n + 1, sz, x).r = Low(q, sz) /\ Shift("ASR", sv, n + 1, sz, x).c = t
  BY <1>9, <1>10, <1>11 DEF AsrAt
<1>19. Shift("ASR", sv, n + 1, sz, x).v = 0 /\ n + 1 # 0
  BY DEF Shift
<1>20. ShiftedTo("ASR", sv, n + 1, sz, x) = [r |-> Low(q, sz), c |-> t, x |-> t, v |-> 0]
  BY <1>18, <1>19 DEF ShiftedTo, Rotates
<1> QED BY <1>12, <1>17, <1>20 DEF GoesOn

LEMMA RolSteps ==
  ASSUME NEW sz \in Sizes, NEW h \in Nat \ {0}, h = 2^(Bits[sz] - 1), NEW sv \in Int, 0 <= sv, sv < 2 * h,
         NEW x \in {0, 1}, NEW n \in Nat
  PROVE  GoesOn("ROL", sv, n, sz, x)
<1>0. PICK b \in Nat \ {0} : b = Bits[sz] /\ h = 2^(b - 1)
  BY Widths
<1>1. PICK t, y \in Int : Around(sv, b, h, n % b, (n + 1) % b, t, y)
  BY <1>0, LeftAround
<1>2. /\ (t = 0 \/ t = 1) /\ 0 <= y /\ y < h
      /\ RotateLeft(sv, n % b, b) = t * h + y /\ RotateLeft(sv, (n + 1) % b, b) = 2 * y + t
  BY <1>1 DEF Around
<1>3. PICK s : s = ShiftedTo("ROL", sv, n, sz, x)
  OBVIOUS
<1>4. s.r = t * h + y /\ s.v = 0 /\ s.x = x
  BY <1>0, <1>2, <1>3 DEF ShiftedTo, Shift, Rotates
<1>5. MovesTo("ROL", sz, s, 2 * y + Bottom("ROL", t, s.x), t, IF "ROL" = "ROL" THEN s.x ELSE t)
  <2>1. s.x \in Int
    BY <1>4
  <2> QED BY <1>2, <1>4, <2>1, OneLeft
<1>6. OneBit("ROL", sz, s) = [r |-> 2 * y + t, c |-> t, x |-> x, v |-> 0]
  BY <1>4, <1>5 DEF MovesTo, Bottom
<1>7. PICK k \in Int : k = 2 * y + t
  OBVIOUS
<1>8. k % 2 = t
  BY <1>2, <1>7, RightBit
<1>9. n + 1 # 0
  OBVIOUS
<1>10. /\ Shift("ROL", sv, n + 1, sz, x).r = k /\ Shift("ROL", sv, n + 1, sz, x).c = t
       /\ Shift("ROL", sv, n + 1, sz, x).v = 0
  BY <1>0, <1>2, <1>7, <1>8, <1>9 DEF Shift
<1>11. ShiftedTo("ROL", sv, n + 1, sz, x) = [r |-> k, c |-> t, x |-> x, v |-> 0]
  BY <1>9, <1>10 DEF ShiftedTo, Rotates
<1> QED BY <1>3, <1>6, <1>7, <1>11 DEF GoesOn

LEMMA RorSteps ==
  ASSUME NEW sz \in Sizes, NEW h \in Nat \ {0}, h = 2^(Bits[sz] - 1), NEW sv \in Int, 0 <= sv, sv < 2 * h,
         NEW x \in {0, 1}, NEW n \in Nat
  PROVE  GoesOn("ROR", sv, n, sz, x)
<1>0. PICK b \in Nat \ {0} : b = Bits[sz] /\ h = 2^(b - 1)
  BY Widths
<1>1. PICK t, y \in Int : Around(sv, b, h, (b - ((n + 1) % b)) % b, (b - (n % b)) % b, t, y)
  BY <1>0, RightAround
<1>2. /\ (t = 0 \/ t = 1) /\ 0 <= y /\ y < h
      /\ RotateLeft(sv, (b - ((n + 1) % b)) % b, b) = t * h + y
      /\ RotateLeft(sv, (b - (n % b)) % b, b) = 2 * y + t
  BY <1>1 DEF Around
<1>3. PICK s : s = ShiftedTo("ROR", sv, n, sz, x)
  OBVIOUS
<1>4. s.r = 2 * y + t /\ s.v = 0 /\ s.x = x
  BY <1>0, <1>2, <1>3 DEF ShiftedTo, Shift, Rotates
<1>5. MovesTo("ROR", sz, s, Topmost("ROR", Msb(s.r, sz), t, s.x) * h + y, t, IF "ROR" = "ROR" THEN s.x ELSE t)
  <2>1. s.x \in Int
    BY <1>4
  <2> QED BY <1>2, <1>4, <2>1, OneRight
<1>6. PICK k \in Int : k = t * h + y
  OBVIOUS
<1>7. Topmost("ROR", Msb(s.r, sz), t, s.x) * h + y = k
  BY <1>6 DEF Topmost
<1>8. OneBit("ROR", sz, s) = [r |-> k, c |-> t, x |-> x, v |-> 0]
  BY <1>4, <1>5, <1>7 DEF MovesTo
<1>9. ToLeft(sz, h, t, y, k)
  BY <1>2, <1>6, LeftBit
<1>10. Msb(k, sz) = t /\ n + 1 # 0
  BY <1>9 DEF ToLeft
<1>11. /\ Shift("ROR", sv, n + 1, sz, x).r = k /\ Shift("ROR", sv, n + 1, sz, x).c = t
       /\ Shift("ROR", sv, n + 1, sz, x).v = 0
  BY <1>0, <1>2, <1>6, <1>10 DEF Shift
<1>12. ShiftedTo("ROR", sv, n + 1, sz, x) = [r |-> k, c |-> t, x |-> x, v |-> 0]
  BY <1>10, <1>11 DEF ShiftedTo, Rotates
<1> QED BY <1>3, <1>8, <1>12 DEF GoesOn

\* Through X: the number with X above it, of one bit more.
Carried(sz, h, w, r, c) == Low(w, sz) = r /\ w \div 2^Bits[sz] = c

LEMMA WideParts ==
  ASSUME NEW sz \in Sizes, NEW h \in Nat \ {0}, h = 2^(Bits[sz] - 1), NEW c \in Int,
         NEW r \in Int, 0 <= r, r < 2 * h, NEW w \in Int, w = c * (2 * h) + r
  PROVE  Carried(sz, h, w, r, c)
<1>1. PICK v \in Nat \ {0} : v = 2 * h /\ v = 2^Bits[sz]
  BY HalfOf
<1>2. r \in 0 .. v - 1 /\ w = v * c + r
  BY <1>1
<1>3. w % v = r /\ w \div v = c
  BY <1>2, QuotientUnique
<1> QED BY <1>1, <1>3 DEF Carried, Low

Widened(sz, h, sv, x, w, b, e, d) ==
  /\ b = Bits[sz] /\ e = b + 1 /\ d = 2 * h /\ d = 2^(e - 1) /\ 0 <= w /\ w < 2 * d
  /\ w = sv + x * 2^b /\ w = x * d + sv

LEMMA WideNumber ==
  ASSUME NEW sz \in Sizes, NEW h \in Nat \ {0}, h = 2^(Bits[sz] - 1), NEW sv \in Int, 0 <= sv, sv < 2 * h,
         NEW x \in {0, 1}
  PROVE  \E w \in Int, b, e, d \in Nat \ {0} : Widened(sz, h, sv, x, w, b, e, d)
<1>1. PICK b \in Nat \ {0} : b = Bits[sz] /\ 2^b = 2 * h
  BY Widths
<1>2. PICK e \in Nat \ {0} : e = b + 1 /\ e - 1 = b
  OBVIOUS
<1>3. PICK d \in Nat \ {0} : d = 2 * h
  OBVIOUS
<1>4. PICK w \in Int : w = x * d + sv
  OBVIOUS
<1>5. 0 <= w /\ w < 2 * d /\ w = sv + x * d
  <2>1. CASE x = 0
    BY <1>3, <1>4, <2>1
  <2>2. CASE x = 1
    BY <1>3, <1>4, <2>2
  <2> QED BY <2>1, <2>2
<1>6. Widened(sz, h, sv, x, w, b, e, d)
  BY <1>1, <1>2, <1>3, <1>4, <1>5 DEF Widened
<1> QED BY <1>6

\* The top bit and the rest; a bit below the rest.
TopAndRest(h, k, t, y) == (t = 0 \/ t = 1) /\ 0 <= y /\ y < h /\ k = t * h + y

LEMMA TopBit ==
  ASSUME NEW h \in Nat \ {0}, NEW k \in Int, 0 <= k, k < 2 * h
  PROVE  \E t, y \in Int : TopAndRest(h, k, t, y)
<1>1. CASE k < h
  <2>1. TopAndRest(h, k, 0, k)
    BY <1>1 DEF TopAndRest
  <2> QED BY <2>1
<1>2. CASE ~(k < h)
  <2>1. PICK y \in Int : y = k - h
    OBVIOUS
  <2>2. TopAndRest(h, k, 1, y)
    BY <1>2, <2>1 DEF TopAndRest
  <2> QED BY <2>2
<1> QED BY <1>1, <1>2

Below(h, y, t, z) == 0 <= z /\ z < 2 * h

LEMMA BitBelow ==
  ASSUME NEW h \in Nat \ {0}, NEW y \in Int, 0 <= y, y < h, NEW t \in Int, t = 0 \/ t = 1, NEW z \in Int, z = 2 * y + t
  PROVE  Below(h, y, t, z)
BY DEF Below

\* What the two rotations through X compute.
Through(s, sz, i) == s.r = Low(i, sz) /\ s.c = i \div 2^Bits[sz] /\ s.v = 0

LEMMA RoxlIs ==
  ASSUME NEW sz \in Sizes, NEW sv \in Int, NEW x \in Int, NEW n \in Nat, NEW b \in Nat \ {0}, b = Bits[sz],
         NEW e \in Nat \ {0}, e = b + 1, NEW w \in Int, w = sv + x * 2^b,
         NEW i \in Int, i = RotateLeft(w, n % e, e)
  PROVE  Through(Shift("ROXL", sv, n, sz, x), sz, i)
<1>1. i = RotateLeft(sv + x * 2^Bits[sz], n % (Bits[sz] + 1), Bits[sz] + 1)
  OBVIOUS
<1>2. PICK j : j = RotateLeft(sv + x * 2^Bits[sz], n % (Bits[sz] + 1), Bits[sz] + 1)
  OBVIOUS
<1>3. Through(Shift("ROXL", sv, n, sz, x), sz, j)
  BY <1>2 DEF Shift, Through
<1> QED BY <1>1, <1>2, <1>3

LEMMA RoxrIs ==
  ASSUME NEW sz \in Sizes, NEW sv \in Int, NEW x \in Int, NEW n \in Nat, NEW b \in Nat \ {0}, b = Bits[sz],
         NEW e \in Nat \ {0}, e = b + 1, NEW w \in Int, w = sv + x * 2^b,
         NEW i \in Int, i = RotateLeft(w, (e - (n % e)) % e, e)
  PROVE  Through(Shift("ROXR", sv, n, sz, x), sz, i)
<1>0. e = Bits[sz] + 1
  OBVIOUS
<1>1. (Bits[sz] + 1 - (n % (Bits[sz] + 1))) % (Bits[sz] + 1) = (e - (n % e)) % e
  BY <1>0
<1>2. i = RotateLeft(sv + x * 2^Bits[sz], (Bits[sz] + 1 - (n % (Bits[sz] + 1))) % (Bits[sz] + 1), Bits[sz] + 1)
  BY <1>0, <1>1
<1>3. PICK j : j = RotateLeft(sv + x * 2^Bits[sz], (Bits[sz] + 1 - (n % (Bits[sz] + 1))) % (Bits[sz] + 1), Bits[sz] + 1)
  OBVIOUS
<1>4. Through(Shift("ROXR", sv, n, sz, x), sz, j)
  BY <1>3 DEF Shift, Through
<1> QED BY <1>2, <1>3, <1>4

LEMMA RoxlSteps ==
  ASSUME NEW sz \in Sizes, NEW h \in Nat \ {0}, h = 2^(Bits[sz] - 1), NEW sv \in Int, 0 <= sv, sv < 2 * h,
         NEW x \in {0, 1}, NEW n \in Nat
  PROVE  GoesOn("ROXL", sv, n, sz, x)
<1>0. PICK w \in Int, b, e, d \in Nat \ {0} : Widened(sz, h, sv, x, w, b, e, d)
  BY WideNumber
<1>1. /\ b = Bits[sz] /\ e = b + 1 /\ d = 2 * h /\ d = 2^(e - 1) /\ 0 <= w /\ w < 2 * d
      /\ w = sv + x * 2^b /\ w = x * d + sv
  BY <1>0 DEF Widened
<1>2. PICK a, k \in Int : Around(w, e, d, n % e, (n + 1) % e, a, k)
  BY <1>1, LeftAround
<1>3. /\ (a = 0 \/ a = 1) /\ 0 <= k /\ k < 2 * h
      /\ RotateLeft(w, n % e, e) = a * (2 * h) + k /\ RotateLeft(w, (n + 1) % e, e) = 2 * k + a
  BY <1>1, <1>2 DEF Around
\* the number is k, X is a; t is the number's top bit.
<1>21. PICK t, y \in Int : TopAndRest(h, k, t, y)
  BY <1>3, TopBit
<1>4. (t = 0 \/ t = 1) /\ 0 <= y /\ y < h /\ k = t * h + y
  BY <1>21 DEF TopAndRest
<1>5. PICK i \in Int : i = RotateLeft(w, n % e, e) /\ i = a * (2 * h) + k
  BY <1>3
<1>6. PICK j \in Int : j = RotateLeft(w, (n + 1) % e, e) /\ j = 2 * k + a
  BY <1>3
<1>7. PICK z \in Int : z = 2 * y + a
  OBVIOUS
<1>8. 0 <= z /\ z < 2 * h
  <2>1. Below(h, y, a, z)
    BY <1>3, <1>4, <1>7, BitBelow
  <2> QED BY <2>1 DEF Below
<1>9. j = t * (2 * h) + z
  <2>1. 2 * (t * h + y) = t * (2 * h) + 2 * y
    BY <1>4
  <2> QED BY <1>4, <1>6, <1>7, <2>1
<1>10. Carried(sz, h, i, k, a) /\ Carried(sz, h, j, z, t)
  BY <1>3, <1>5, <1>8, <1>9, WideParts
<1>11. /\ Shift("ROXL", sv, n, sz, x).r = k /\ Shift("ROXL", sv, n, sz, x).c = a
       /\ Shift("ROXL", sv, n, sz, x).v = 0
  <2>0. x \in Int
    OBVIOUS
  <2>1. Through(Shift("ROXL", sv, n, sz, x), sz, i)
    BY <1>1, <1>5, <2>0, RoxlIs
  <2> QED BY <1>1, <1>10, <2>1 DEF Carried, Through
<1>12. /\ Shift("ROXL", sv, n + 1, sz, x).r = z /\ Shift("ROXL", sv, n + 1, sz, x).c = t
       /\ Shift("ROXL", sv, n + 1, sz, x).v = 0
  <2>0. x \in Int /\ n + 1 \in Nat
    OBVIOUS
  <2>1. Through(Shift("ROXL", sv, n + 1, sz, x), sz, j)
    BY <1>1, <1>6, <2>0, RoxlIs
  <2> QED BY <1>1, <1>10, <2>1 DEF Carried, Through
<1>13. n = 0 => a = x
  <2>1. SUFFICES ASSUME n = 0 PROVE a = x
    OBVIOUS
  <2>2. RotateLeft(w, 0, e) = w
    BY <1>1, WholeTurn
  <2>3. n % e = 0
    <3>1. 0 = e * 0 + 0 /\ 0 \in 0 .. e - 1 /\ 0 \in Int
      OBVIOUS
    <3>2. 0 % e = 0
      BY <3>1, RemainderUnique
    <3> QED BY <2>1, <3>2
  <2>4. i = w
    BY <1>5, <2>2, <2>3
  <2>5. Carried(sz, h, i, sv, x)
    <3>1. x \in Int /\ i = x * (2 * h) + sv
      BY <1>1, <2>4
    <3> QED BY <3>1, WideParts
  <2> QED BY <1>10, <2>5 DEF Carried
<1>14. PICK s : s = ShiftedTo("ROXL", sv, n, sz, x)
  OBVIOUS
<1>15. s.r = t * h + y /\ s.v = 0 /\ s.x = a
  BY <1>4, <1>11, <1>13, <1>14 DEF ShiftedTo, Rotates
<1>16. MovesTo("ROXL", sz, s, 2 * y + Bottom("ROXL", t, s.x), t, IF "ROXL" = "ROL" THEN s.x ELSE t)
  <2>1. s.x \in Int
    BY <1>15
  <2> QED BY <1>4, <1>15, <2>1, OneLeft
<1>17. 2 * y + Bottom("ROXL", t, s.x) = z
  BY <1>7, <1>15 DEF Bottom
<1>18. OneBit("ROXL", sz, s) = [r |-> z, c |-> t, x |-> t, v |-> 0]
  BY <1>15, <1>16, <1>17 DEF MovesTo
<1>19. n + 1 # 0
  OBVIOUS
<1>20. ShiftedTo("ROXL", sv, n + 1, sz, x) = [r |-> z, c |-> t, x |-> t, v |-> 0]
  BY <1>12, <1>19 DEF ShiftedTo, Rotates
<1> QED BY <1>14, <1>18, <1>20 DEF GoesOn

LEMMA RoxrSteps ==
  ASSUME NEW sz \in Sizes, NEW h \in Nat \ {0}, h = 2^(Bits[sz] - 1), NEW sv \in Int, 0 <= sv, sv < 2 * h,
         NEW x \in {0, 1}, NEW n \in Nat
  PROVE  GoesOn("ROXR", sv, n, sz, x)
<1>0. PICK w \in Int, b, e, d \in Nat \ {0} : Widened(sz, h, sv, x, w, b, e, d)
  BY WideNumber
<1>1. /\ b = Bits[sz] /\ e = b + 1 /\ d = 2 * h /\ d = 2^(e - 1) /\ 0 <= w /\ w < 2 * d
      /\ w = sv + x * 2^b /\ w = x * d + sv
  BY <1>0 DEF Widened
<1>2. PICK t, k \in Int : Around(w, e, d, (e - ((n + 1) % e)) % e, (e - (n % e)) % e, t, k)
  BY <1>1, RightAround
<1>3. /\ (t = 0 \/ t = 1) /\ 0 <= k /\ k < 2 * h
      /\ RotateLeft(w, (e - ((n + 1) % e)) % e, e) = t * (2 * h) + k
      /\ RotateLeft(w, (e - (n % e)) % e, e) = 2 * k + t
  BY <1>1, <1>2 DEF Around
\* X is a and the number 2 * y + t; with X at the top they are k.
<1>21. PICK a, y \in Int : TopAndRest(h, k, a, y)
  BY <1>3, TopBit
<1>4. (a = 0 \/ a = 1) /\ 0 <= y /\ y < h /\ k = a * h + y
  BY <1>21 DEF TopAndRest
<1>5. PICK i \in Int : i = RotateLeft(w, (e - (n % e)) % e, e) /\ i = 2 * k + t
  BY <1>3
<1>6. PICK j \in Int : j = RotateLeft(w, (e - ((n + 1) % e)) % e, e) /\ j = t * (2 * h) + k
  BY <1>3
<1>7. PICK z \in Int : z = 2 * y + t
  OBVIOUS
<1>8. 0 <= z /\ z < 2 * h
  <2>1. Below(h, y, t, z)
    BY <1>3, <1>4, <1>7, BitBelow
  <2> QED BY <2>1 DEF Below
<1>9. i = a * (2 * h) + z
  <2>1. 2 * (a * h + y) = a * (2 * h) + 2 * y
    BY <1>4
  <2> QED BY <1>4, <1>5, <1>7, <2>1
<1>10. Carried(sz, h, i, z, a) /\ Carried(sz, h, j, k, t)
  BY <1>3, <1>6, <1>8, <1>9, WideParts
<1>11. /\ Shift("ROXR", sv, n, sz, x).r = z /\ Shift("ROXR", sv, n, sz, x).c = a
       /\ Shift("ROXR", sv, n, sz, x).v = 0
  <2>0. x \in Int
    OBVIOUS
  <2>1. Through(Shift("ROXR", sv, n, sz, x), sz, i)
    BY <1>1, <1>5, <2>0, RoxrIs
  <2> QED BY <1>1, <1>10, <2>1 DEF Carried, Through
<1>12. /\ Shift("ROXR", sv, n + 1, sz, x).r = k /\ Shift("ROXR", sv, n + 1, sz, x).c = t
       /\ Shift("ROXR", sv, n + 1, sz, x).v = 0
  <2>0. x \in Int /\ n + 1 \in Nat
    OBVIOUS
  <2>1. Through(Shift("ROXR", sv, n + 1, sz, x), sz, j)
    BY <1>1, <1>6, <2>0, RoxrIs
  <2> QED BY <1>1, <1>10, <2>1 DEF Carried, Through
<1>13. n = 0 => a = x
  <2>1. SUFFICES ASSUME n = 0 PROVE a = x
    OBVIOUS
  <2>2. RotateLeft(w, 0, e) = w
    BY <1>1, WholeTurn
  <2>3. (e - (n % e)) % e = 0
    <3>1. 0 = e * 0 + 0 /\ 0 \in 0 .. e - 1 /\ 0 \in Int /\ e = e * 1 + 0 /\ 1 \in Int /\ e \in Int
      OBVIOUS
    <3>2. 0 % e = 0 /\ e % e = 0
      BY <3>1, RemainderUnique
    <3>3. e - 0 = e
      OBVIOUS
    <3> QED BY <2>1, <3>2, <3>3
  <2>4. i = w
    BY <1>5, <2>2, <2>3
  <2>5. Carried(sz, h, i, sv, x)
    <3>1. x \in Int /\ i = x * (2 * h) + sv
      BY <1>1, <2>4
    <3> QED BY <3>1, WideParts
  <2> QED BY <1>10, <2>5 DEF Carried
<1>14. PICK s : s = ShiftedTo("ROXR", sv, n, sz, x)
  OBVIOUS
<1>15. s.r = 2 * y + t /\ s.v = 0 /\ s.x = a
  BY <1>7, <1>11, <1>13, <1>14 DEF ShiftedTo, Rotates
<1>16. MovesTo("ROXR", sz, s, Topmost("ROXR", Msb(s.r, sz), t, s.x) * h + y, t, IF "ROXR" = "ROR" THEN s.x ELSE t)
  <2>1. s.x \in Int
    BY <1>15
  <2> QED BY <1>3, <1>4, <1>15, <2>1, OneRight
<1>17. Topmost("ROXR", Msb(s.r, sz), t, s.x) * h + y = k
  BY <1>4, <1>15 DEF Topmost
<1>18. OneBit("ROXR", sz, s) = [r |-> k, c |-> t, x |-> t, v |-> 0]
  BY <1>15, <1>16, <1>17 DEF MovesTo
<1>19. n + 1 # 0
  OBVIOUS
<1>20. ShiftedTo("ROXR", sv, n + 1, sz, x) = [r |-> k, c |-> t, x |-> t, v |-> 0]
  BY <1>12, <1>19 DEF ShiftedTo, Rotates
<1> QED BY <1>14, <1>18, <1>20 DEF GoesOn

LEMMA ShiftStarts ==
  ASSUME NEW mn \in Shifts, NEW sz \in Sizes, NEW h \in Nat \ {0}, h = 2^(Bits[sz] - 1), NEW sv \in Int, 0 <= sv,
         sv < 2 * h, NEW x \in {0, 1}
  PROVE  StartsAt(mn, sv, sz, x)
<1>0. PICK b \in Nat \ {0} : b = Bits[sz] /\ h = 2^(b - 1)
  BY Widths
<1>1. CASE mn \in {"LSL", "ASL"}
  BY <1>1, LslAslStart
<1>2. 2^0 = 1 /\ 0 \in Nat
  BY PowerZero
<1>3. CASE mn = "LSR"
  <2>1. sv \div 1 = sv
    <3>1. sv = 1 * sv + 0 /\ 0 \in 0 .. 1 - 1 /\ 1 \in Nat \ {0}
      OBVIOUS
    <3> QED BY <3>1, QuotientUnique
  <2>2. LsrAt(sz, sv, 0, sv)
    BY <1>2, <2>1, LsrDivides
  <2>3. Shift("LSR", sv, 0, sz, x).r = sv /\ Shift("LSR", sv, 0, sz, x).v = 0
    BY <2>2 DEF LsrAt, Shift
  <2> QED BY <1>3, <2>3 DEF StartsAt, ShiftedTo
<1>4. CASE mn = "ASR"
  <2>0. OfSize(sz, h, sv)
    BY NumberFits
  <2>1. PICK g \in Int : g = Signed(sv, sz) /\ (g = sv \/ g = sv - 2 * h)
    BY <2>0 DEF OfSize
  <2>2. g \div 1 = g
    <3>1. g = 1 * g + 0 /\ 0 \in 0 .. 1 - 1 /\ 1 \in Nat \ {0}
      OBVIOUS
    <3> QED BY <3>1, QuotientUnique
  <2>3. AsrAt(sz, sv, 0, g)
    BY <1>2, <2>1, <2>2, AsrDivides
  <2>4. Low(g, sz) = sv
    <3>1. PICK w \in Nat \ {0} : w = 2 * h /\ w = 2^Bits[sz]
      BY HalfOf
    <3>2. sv \in 0 .. w - 1 /\ (g = w * 0 + sv \/ g = w * (-1) + sv) /\ 0 \in Int /\ -1 \in Int
      BY <2>1, <3>1
    <3>3. g % w = sv
      BY <3>2, RemainderUnique
    <3> QED BY <3>1, <3>3 DEF Low
  <2>5. Shift("ASR", sv, 0, sz, x).r = sv /\ Shift("ASR", sv, 0, sz, x).v = 0
    BY <2>3, <2>4 DEF AsrAt, Shift
  <2> QED BY <1>4, <2>5 DEF StartsAt, ShiftedTo
<1>5. ASSUME NEW e \in Nat \ {0} PROVE 0 % e = 0 /\ (e - 0) % e = 0
  <2>1. 0 = e * 0 + 0 /\ 0 \in 0 .. e - 1 /\ 0 \in Int /\ e = e * 1 + 0 /\ 1 \in Int /\ e \in Int /\ e - 0 = e
    OBVIOUS
  <2> QED BY <2>1, RemainderUnique
<1>6. CASE mn = "ROL" \/ mn = "ROR"
  <2>1. RotateLeft(sv, 0, b) = sv
    BY <1>0, WholeTurn
  <2>2. 0 % b = 0 /\ (b - (0 % b)) % b = 0
    BY <1>5
  <2>3. Shift(mn, sv, 0, sz, x).r = sv /\ Shift(mn, sv, 0, sz, x).v = 0
    BY <1>0, <1>6, <2>1, <2>2 DEF Shift
  <2> QED BY <1>6, <2>3 DEF StartsAt, ShiftedTo
<1>7. CASE mn = "ROXL" \/ mn = "ROXR"
  <2>0. PICK w \in Int, c, e, d \in Nat \ {0} : Widened(sz, h, sv, x, w, c, e, d)
    BY WideNumber
  <2>1. /\ c = Bits[sz] /\ e = c + 1 /\ d = 2 * h /\ d = 2^(e - 1) /\ 0 <= w /\ w < 2 * d
        /\ w = sv + x * 2^c /\ w = x * d + sv
    BY <2>0 DEF Widened
  <2>2. RotateLeft(w, 0, e) = w
    BY <2>1, WholeTurn
  <2>3. w = RotateLeft(w, 0 % e, e) /\ w = RotateLeft(w, (e - (0 % e)) % e, e)
    BY <1>5, <2>2
  <2>4. Carried(sz, h, w, sv, x)
    <3>1. x \in Int /\ w = x * (2 * h) + sv
      BY <2>1
    <3> QED BY <3>1, WideParts
  <2>8. x \in Int
    OBVIOUS
  <2>9. PICK n \in Nat : n = 0
    BY <1>2
  <2>10. w = RotateLeft(w, n % e, e) /\ w = RotateLeft(w, (e - (n % e)) % e, e)
    BY <2>3, <2>9
  <2>5. Through(Shift("ROXL", sv, n, sz, x), sz, w)
    BY <2>1, <2>8, <2>10, RoxlIs
  <2>6. Through(Shift("ROXR", sv, n, sz, x), sz, w)
    BY <2>1, <2>8, <2>10, RoxrIs
  <2>7. Shift(mn, sv, 0, sz, x).r = sv /\ Shift(mn, sv, 0, sz, x).v = 0
    BY <1>7, <2>4, <2>5, <2>6, <2>9 DEF Through, Carried
  <2> QED BY <1>7, <2>7 DEF StartsAt, ShiftedTo
<1> QED BY <1>1, <1>3, <1>4, <1>6, <1>7 DEF Shifts, Rotates

LEMMA ShiftSteps ==
  ASSUME NEW mn \in Shifts, NEW sz \in Sizes, NEW h \in Nat \ {0}, h = 2^(Bits[sz] - 1), NEW sv \in Int, 0 <= sv,
         sv < 2 * h, NEW x \in {0, 1}, NEW n \in Nat
  PROVE  GoesOn(mn, sv, n, sz, x)
<1>1. mn \in {"ROL", "ROR", "LSL", "LSR", "ASL", "ASR", "ROXL", "ROXR"}
  BY DEF Shifts, Rotates
<1>2. GoesOn("LSL", sv, n, sz, x) /\ GoesOn("ASL", sv, n, sz, x)
  BY LslSteps, AslSteps
<1>3. GoesOn("LSR", sv, n, sz, x) /\ GoesOn("ASR", sv, n, sz, x)
  BY LsrSteps, AsrSteps
<1>4. GoesOn("ROL", sv, n, sz, x) /\ GoesOn("ROR", sv, n, sz, x)
  BY RolSteps, RorSteps
<1>5. GoesOn("ROXL", sv, n, sz, x) /\ GoesOn("ROXR", sv, n, sz, x)
  BY RoxlSteps, RoxrSteps
<1> QED BY <1>1, <1>2, <1>3, <1>4, <1>5

(***************************************************************************)
(* The function that shifts bit by bit is the closed form: there is such a *)
(* function, and by induction there is no other.                           *)
(***************************************************************************)
BitByBit(mn, sz, start, f) ==
  f = [n \in 0 .. CountMask - 1 |-> IF n = 0 THEN start ELSE OneBit(mn, sz, f[n - 1])]
ClosedForm(mn, sv, sz, x, f) == \A n \in 0 .. CountMask - 1 : f[n] = ShiftedTo(mn, sv, n, sz, x)

LEMMA CountMaskType == CountMask \in Nat \ {0}
BY InterpAssumption DEF CountMask, Bits

LEMMA BitByBitExists ==
  ASSUME NEW mn \in Shifts, NEW sz \in Sizes, NEW h \in Nat \ {0}, h = 2^(Bits[sz] - 1), NEW sv \in Int, 0 <= sv,
         sv < 2 * h, NEW x \in {0, 1}, NEW start, start = [r |-> sv, c |-> 0, x |-> x, v |-> 0]
  PROVE  \E f : BitByBit(mn, sz, start, f)
<1>1. PICK f : f = [n \in 0 .. CountMask - 1 |-> ShiftedTo(mn, sv, n, sz, x)]
  OBVIOUS
<1>2. ASSUME NEW n \in 0 .. CountMask - 1
      PROVE  f[n] = IF n = 0 THEN start ELSE OneBit(mn, sz, f[n - 1])
  <2>1. CASE n = 0
    <3>1. StartsAt(mn, sv, sz, x)
      BY ShiftStarts
    <3> QED BY <1>1, <2>1, <3>1 DEF StartsAt
  <2>2. CASE n # 0
    <3>1. PICK m \in Nat : m = n - 1 /\ m + 1 = n /\ m \in 0 .. CountMask - 1
      BY <2>2, CountMaskType
    <3>2. GoesOn(mn, sv, m, sz, x)
      BY ShiftSteps
    <3> QED BY <1>1, <2>2, <3>1, <3>2 DEF GoesOn
  <2> QED BY <2>1, <2>2
<1>3. f = [n \in 0 .. CountMask - 1 |-> IF n = 0 THEN start ELSE OneBit(mn, sz, f[n - 1])]
  BY <1>1, <1>2
<1>4. BitByBit(mn, sz, start, f)
  BY <1>3 DEF BitByBit
<1> QED BY <1>4

LEMMA BitByBitIs ==
  ASSUME NEW mn \in Shifts, NEW sz \in Sizes, NEW h \in Nat \ {0}, h = 2^(Bits[sz] - 1), NEW sv \in Int, 0 <= sv,
         sv < 2 * h, NEW x \in {0, 1}, NEW start, start = [r |-> sv, c |-> 0, x |-> x, v |-> 0],
         NEW f, BitByBit(mn, sz, start, f)
  PROVE  ClosedForm(mn, sv, sz, x, f)
<1> DEFINE G == {n \in Nat : n < CountMask => f[n] = ShiftedTo(mn, sv, n, sz, x)}
<1>0. \A n \in 0 .. CountMask - 1 : f[n] = IF n = 0 THEN start ELSE OneBit(mn, sz, f[n - 1])
  <2>1. PICK d : d = 0 .. CountMask - 1
    OBVIOUS
  <2>2. f = [n \in d |-> IF n = 0 THEN start ELSE OneBit(mn, sz, f[n - 1])]
    BY <2>1 DEF BitByBit
  <2>3. \A n \in d : f[n] = IF n = 0 THEN start ELSE OneBit(mn, sz, f[n - 1])
    BY <2>2
  <2> QED BY <2>1, <2>3
<1>1. 0 \in G
  <2>1. StartsAt(mn, sv, sz, x)
    BY ShiftStarts
  <2>2. 0 \in 0 .. CountMask - 1
    BY CountMaskType
  <2>3. f[0] = start
    BY <1>0, <2>2
  <2> QED BY <2>1, <2>3 DEF StartsAt
<1>2. ASSUME NEW n \in Nat, n \in G PROVE n + 1 \in G
  <2>1. SUFFICES ASSUME n + 1 < CountMask PROVE f[n + 1] = ShiftedTo(mn, sv, n + 1, sz, x)
    OBVIOUS
  <2>2. n < CountMask /\ n + 1 \in 0 .. CountMask - 1 /\ n + 1 # 0 /\ (n + 1) - 1 = n
    BY <2>1, CountMaskType
  <2>3. f[n] = ShiftedTo(mn, sv, n, sz, x)
    BY <1>2, <2>2
  <2>4. f[n + 1] = OneBit(mn, sz, f[(n + 1) - 1])
    BY <1>0, <2>2
  <2>5. GoesOn(mn, sv, n, sz, x)
    BY ShiftSteps
  <2> QED BY <2>2, <2>3, <2>4, <2>5 DEF GoesOn
<1>3. Nat \subseteq G
  <2> HIDE DEF G
  <2> QED BY <1>1, <1>2, AllNumbers
<1>4. ASSUME NEW n \in 0 .. CountMask - 1 PROVE f[n] = ShiftedTo(mn, sv, n, sz, x)
  <2>1. n \in Nat /\ n < CountMask
    BY CountMaskType
  <2> QED BY <1>3, <2>1
<1> QED BY <1>4 DEF ClosedForm

\* The shift of a word in memory is the one-bit shift.
OneOf(s, o) == s.r = o.r /\ s.c = o.c /\ s.v = o.v

LEMMA MemShiftIsOneBit ==
  ASSUME NEW mn \in Shifts, NEW sv \in Int, NEW x, NEW s, s.r = sv, s.x = x, s.v = 0
  PROVE  OneOf(MemShift(mn, sv, x), OneBit(mn, "W", s))
<1>1. mn \in {"ROL", "ROR", "LSL", "LSR", "ASL", "ASR", "ROXL", "ROXR"}
  BY DEF Shifts, Rotates
<1>2. CASE mn = "LSL"
  BY <1>2 DEF MemShift, OneBit, OneOf
<1>3. CASE mn = "ASL"
  <2>1. PICK t : t = Msb(sv, "W")
    OBVIOUS
  <2>2. PICK l : l = Low(2 * sv, "W")
    OBVIOUS
  <2>3. PICK k : k = Msb(l, "W")
    OBVIOUS
  <2>4. /\ MemShift(mn, sv, x).r = l /\ MemShift(mn, sv, x).c = t
        /\ MemShift(mn, sv, x).v = IF t # k THEN 1 ELSE 0
    BY <1>3, <2>1, <2>2, <2>3 DEF MemShift, Flag
  <2>5. /\ OneBit(mn, "W", s).r = l /\ OneBit(mn, "W", s).c = t
        /\ OneBit(mn, "W", s).v = IF k # t THEN 1 ELSE 0
    BY <1>3, <2>1, <2>2, <2>3 DEF OneBit
  <2> QED BY <2>4, <2>5 DEF OneOf
<1>4. CASE mn = "LSR"
  BY <1>4 DEF MemShift, OneBit, OneOf
<1>5. CASE mn = "ASR"
  BY <1>5 DEF MemShift, OneBit, OneOf
<1>6. CASE mn = "ROL"
  BY <1>6 DEF MemShift, OneBit, OneOf
<1>7. CASE mn = "ROR"
  BY <1>7 DEF MemShift, OneBit, OneOf
<1>8. CASE mn = "ROXL"
  BY <1>8 DEF MemShift, OneBit, OneOf
<1>9. CASE mn = "ROXR"
  BY <1>9 DEF MemShift, OneBit, OneOf
<1> QED BY <1>1, <1>2, <1>3, <1>4, <1>5, <1>6, <1>7, <1>8, <1>9

\* What a shift leaves is of the size.
LEMMA ShiftLow ==
  ASSUME NEW mn \in Shifts, NEW sz \in Sizes, NEW h \in Nat \ {0}, h = 2^(Bits[sz] - 1), NEW sv \in Int, 0 <= sv,
         sv < 2 * h, NEW x \in {0, 1}, NEW n \in Nat, NEW r, r = Shift(mn, sv, n, sz, x).r
  PROVE  Low(r, sz) = r
<1>0. PICK b \in Nat \ {0} : b = Bits[sz] /\ h = 2^(b - 1)
  BY Widths
<1>1. mn \in {"ROL", "ROR", "LSL", "LSR", "ASL", "ASR", "ROXL", "ROXR"}
  BY DEF Shifts, Rotates
<1>2. ASSUME NEW v \in Int, r = Low(v, sz) PROVE Low(r, sz) = r
  BY <1>2, LowParts
<1>3. CASE mn \in {"LSL", "ASL"}
  <2>1. PICK t, y \in Int : LeftOn(sz, h, sv, n, t, y)
    BY LeftGoesOn
  <2>2. (t = 0 \/ t = 1) /\ 0 <= y /\ y < h /\ r = t * h + y
    BY <1>3, <2>1 DEF LeftOn, Shift, ShiftLeft
  <2>3. ToLeft(sz, h, t, y, r)
    <3>1. r \in Int
      BY <2>2
    <3> QED BY <2>2, <3>1, LeftBit
  <2> QED BY <2>3 DEF ToLeft
<1>4. CASE mn = "LSR"
  <2>1. PICK u \in Nat \ {0} : u = 2^n
    BY PowerNat
  <2>2. PICK e \in Int : e = sv \div u
    BY RemainderDef
  <2>3. LsrAt(sz, sv, n, e)
    BY <2>1, <2>2, LsrDivides
  <2>4. r = e
    BY <1>4, <2>3 DEF LsrAt
  <2>5. 0 <= e /\ e < 2 * h
    <3>1. PICK l \in 0 .. u - 1 : sv = u * e + l
      <4>1. sv % u \in 0 .. u - 1 /\ sv = u * (sv \div u) + (sv % u)
        BY RemainderDef
      <4> QED BY <2>2, <4>1
    <3>2. 0 <= e
      <4>1. SUFFICES ASSUME e <= -1 PROVE FALSE
        OBVIOUS
      <4>2. u * e <= -u
        BY <4>1
      <4> QED BY <3>1, <4>2
    <3>3. u * e >= e
      BY <3>2
    <3> QED BY <3>1, <3>2, <3>3
  <2>6. OfSize(sz, h, e)
    BY <2>5, NumberFits
  <2> QED BY <2>4, <2>6 DEF OfSize
<1>5. CASE mn = "ASR"
  <2>1. PICK g \in Int : g = Signed(sv, sz)
    BY LowType
  <2>2. PICK e \in Int : e = g \div 2^n
    BY PowerNat, RemainderDef
  <2>3. AsrAt(sz, sv, n, e)
    BY <2>1, <2>2, AsrDivides
  <2>4. r = Low(e, sz)
    BY <1>5, <2>3 DEF AsrAt
  <2> QED BY <1>2, <2>4
<1>6. CASE mn = "ROL"
  <2>1. PICK t, y \in Int : Around(sv, b, h, n % b, (n + 1) % b, t, y)
    BY <1>0, LeftAround
  <2>2. (t = 0 \/ t = 1) /\ 0 <= y /\ y < h /\ r = t * h + y
    BY <1>0, <1>6, <2>1 DEF Around, Shift
  <2>3. ToLeft(sz, h, t, y, r)
    <3>1. r \in Int
      BY <2>2
    <3> QED BY <2>2, <3>1, LeftBit
  <2> QED BY <2>3 DEF ToLeft
<1>7. CASE mn = "ROR"
  <2>1. PICK t, y \in Int : Around(sv, b, h, (b - ((n + 1) % b)) % b, (b - (n % b)) % b, t, y)
    BY <1>0, RightAround
  <2>2. (t = 0 \/ t = 1) /\ 0 <= y /\ y < h /\ r = 2 * y + t
    BY <1>0, <1>7, <2>1 DEF Around, Shift
  <2>3. PICK z \in Int : z = r
    BY <2>2
  <2>4. Below(h, y, t, z)
    BY <2>2, <2>3, BitBelow
  <2>5. OfSize(sz, h, z)
    BY <2>4, NumberFits DEF Below
  <2> QED BY <2>3, <2>5 DEF OfSize
<1>8. CASE mn \in {"ROXL", "ROXR"}
  <2>0. PICK w \in Int, c, e, d \in Nat \ {0} : Widened(sz, h, sv, x, w, c, e, d)
    BY WideNumber
  <2>1. /\ c = Bits[sz] /\ e = c + 1 /\ d = 2 * h /\ d = 2^(e - 1) /\ 0 <= w /\ w < 2 * d
        /\ w = sv + x * 2^c
    BY <2>0 DEF Widened
  <2>2. x \in Int
    OBVIOUS
  <2>3. CASE mn = "ROXL"
    <3>1. PICK t, y \in Int : Around(w, e, d, n % e, (n + 1) % e, t, y)
      BY <2>1, LeftAround
    <3>2. PICK i \in Int : i = RotateLeft(w, n % e, e)
      BY <3>1 DEF Around
    <3>3. Through(Shift("ROXL", sv, n, sz, x), sz, i)
      BY <2>1, <2>2, <3>2, RoxlIs
    <3> QED BY <1>2, <2>3, <3>3 DEF Through
  <2>4. CASE mn = "ROXR"
    <3>1. PICK t, y \in Int : Around(w, e, d, (e - ((n + 1) % e)) % e, (e - (n % e)) % e, t, y)
      BY <2>1, RightAround
    <3>2. PICK i \in Int : i = RotateLeft(w, (e - (n % e)) % e, e)
      BY <3>1 DEF Around
    <3>3. Through(Shift("ROXR", sv, n, sz, x), sz, i)
      BY <2>1, <2>2, <3>2, RoxrIs
    <3> QED BY <1>2, <2>4, <3>3 DEF Through
  <2> QED BY <1>8, <2>3, <2>4
<1> QED BY <1>1, <1>3, <1>4, <1>5, <1>6, <1>7, <1>8

\* What the instruction finds in the registers and leaves there.
ShiftRun(k, a, sz, s) ==
  /\ Low(k.D[1], sz) = s.r /\ k.D[1] - Low(k.D[1], sz) = a - Low(a, sz)
  /\ k.sr.X = s.x /\ k.sr.C = s.c /\ k.sr.V = s.v

Flagged(c, mn, s, sz, zero, d) ==
  /\ d.D = c.D /\ d.sr.C = (IF zero THEN 0 ELSE s.c)
  /\ d.sr.X = (IF mn \in Rotates \/ zero THEN c.sr.X ELSE s.c)
  /\ d.sr.V = (IF mn \in Rotates \/ zero THEN 0 ELSE s.v)

LEMMA ShiftFlagsAre ==
  ASSUME NEW c, MachineOK(c), ~c.fault, NEW mn, NEW s, ShiftOK(s), NEW sz \in Sizes, NEW zero \in BOOLEAN,
         NEW d, d = ShiftFlags(c, mn, s, sz, zero)
  PROVE  Flagged(c, mn, s, sz, zero, d)
<1>1. PICK q : q = [c.sr EXCEPT !.Z = Flag(s.r = 0), !.N = Msb(s.r, sz), !.C = IF zero THEN 0 ELSE s.c,
                      !.X = IF mn \in Rotates \/ zero THEN @ ELSE s.c,
                      !.V = IF mn \in Rotates \/ zero THEN 0 ELSE s.v]
  OBVIOUS
<1>2. d = [c EXCEPT !.sr = q]
  BY <1>1 DEF ShiftFlags, SetSR, Then
<1>3. d.sr = q /\ d.D = c.D
  BY <1>2 DEF MachineOK
<1>4. SrOK(c.sr)
  BY DEF MachineOK
<1> QED BY <1>1, <1>3, <1>4 DEF SrOK, Flagged

LEMMA ShiftRuns ==
  ASSUME NEW c, MachineOK(c), ~c.fault, NEW mn \in Shifts, NEW sz \in Sizes, NEW a \in Longs,
         NEW n \in 0 .. CountMask - 1, NEW x, x = c.sr.X,
         NEW k, k = exec_one([c EXCEPT !.D[1] = a, !.D[0] = n],
                             [Decoded(mn, sz) EXCEPT !.bycount = TRUE, !.creg = 0])
  PROVE  ShiftRun(k, a, sz, ShiftedTo(mn, Low(a, sz), n, sz, x))
<1>0. n \in Longs /\ n \in Nat
  <2>1. Bits["L"] \in Nat /\ CountMask \in Nat
    BY Widths, CountMaskType DEF Sizes
  <2>2. PICK m \in Nat : m = Bits["L"]
    BY <2>1
  <2>3. 2 * m <= 2^m /\ 2^m \in Nat
    BY PowerGrows, PowerNat
  <2> QED BY <2>1, <2>2, <2>3 DEF Longs, CountMask
<1>1. PICK m : m = [c EXCEPT !.D[1] = a, !.D[0] = n]
  OBVIOUS
<1>2. MachineOK(m) /\ ~m.fault /\ m.D[1] = a /\ m.D[0] = n /\ m.sr = c.sr
  <2>1. PICK d : d = [c.D EXCEPT ![1] = a]
    OBVIOUS
  <2>2. PICK e : e = [d EXCEPT ![0] = n]
    OBVIOUS
  <2>3. e \in [0 .. 7 -> Longs] /\ e[1] = a /\ e[0] = n
    BY <1>0, <2>1, <2>2 DEF MachineOK
  <2>4. m = [c EXCEPT !.D = e]
    BY <1>1, <2>1, <2>2 DEF MachineOK
  <2> QED BY <2>3, <2>4 DEF MachineOK
<1>3. PICK ins : ins = [Decoded(mn, sz) EXCEPT !.bycount = TRUE, !.creg = 0]
  OBVIOUS
<1>4. InstructionOK(Plain) /\ ~Plain.memshift
  BY InterpAssumption
<1>5. ins.mn = mn /\ ins.sz = sz /\ ins.reg = 1 /\ ins.bycount /\ ins.creg = 0 /\ ~ins.memshift
  BY <1>3, <1>4 DEF InstructionOK, Decoded
<1>6. k = do_shift(m, ins)
  <2>1. mn \in {"ROL", "ROR", "LSL", "LSR", "ASL", "ASR", "ROXL", "ROXR"}
    BY DEF Shifts, Rotates
  <2>2. exec_one(m, ins) = IF ins.memshift THEN do_mem_shift(m, ins) ELSE do_shift(m, ins)
    BY <1>5, <2>1, SMTT(60) DEF exec_one, Shifts, Rotates, ImmediateOp
  <2> QED BY <1>1, <1>3, <1>5, <2>2
<1>7. n % CountMask = n
  <2>1. PICK w \in Nat \ {0} : w = CountMask
    BY CountMaskType
  <2>2. n \in 0 .. w - 1 /\ n = w * 0 + n /\ 0 \in Int /\ n \in Int
    BY <2>1
  <2> QED BY <2>1, <2>2, RemainderUnique
<1>8. PICK sv \in 0 .. 2^Bits[sz] - 1 : sv = Low(a, sz)
  BY LongsInt, LowType
<1>9. PICK s : s = Shift(mn, sv, n, sz, x)
  OBVIOUS
<1>10. PICK zero \in BOOLEAN : zero <=> mn \notin Rotates /\ n = 0
  OBVIOUS
<1>11. k = Shifted(m, ins, s, zero)
  BY <1>2, <1>5, <1>6, <1>7, <1>8, <1>9, <1>10 DEF do_shift
<1>12. x \in {0, 1}
  BY SrFields
<1>13. ShiftOK(s)
  BY <1>0, <1>8, <1>9, <1>12, ShiftType
<1>14. PICK d : d = store_dn(m, 1, s.r, sz)
  OBVIOUS
<1>15. Stored(m, 1, s.r, sz, d)
  <2>1. 1 \in 0 .. 7 /\ s.r \in Int
    BY <1>13 DEF ShiftOK
  <2> QED BY <1>2, <1>14, <2>1, Stores
<1>16. k = ShiftFlags(d, mn, s, sz, zero)
  BY <1>5, <1>11, <1>14 DEF Shifted
<1>17. MachineOK(d) /\ ~d.fault /\ d.sr = c.sr
  BY <1>2, <1>15 DEF Stored
<1>18. /\ k.D = d.D /\ k.sr.C = (IF zero THEN 0 ELSE s.c)
       /\ k.sr.X = (IF mn \in Rotates \/ zero THEN d.sr.X ELSE s.c)
       /\ k.sr.V = (IF mn \in Rotates \/ zero THEN 0 ELSE s.v)
  <2>1. Flagged(d, mn, s, sz, zero, k)
    BY <1>13, <1>16, <1>17, ShiftFlagsAre
  <2> QED BY <2>1 DEF Flagged
<1>19. Low(k.D[1], sz) = Low(s.r, sz) /\ k.D[1] - Low(k.D[1], sz) = a - Low(a, sz)
  BY <1>2, <1>15, <1>18 DEF Stored
<1>20. PICK h \in Nat \ {0} : h = 2^(Bits[sz] - 1) /\ 2^Bits[sz] = 2 * h
  BY Widths
<1>21. sv \in Int /\ 0 <= sv /\ sv < 2 * h
  BY <1>8, <1>20
<1>22. Low(s.r, sz) = s.r
  BY <1>0, <1>9, <1>12, <1>20, <1>21, ShiftLow
<1>23. n = 0 => s.v = 0
  <2>1. StartsAt(mn, sv, sz, x)
    BY <1>12, <1>20, <1>21, ShiftStarts
  <2>2. ShiftedTo(mn, sv, 0, sz, x).v = 0
    BY <2>1 DEF StartsAt
  <2> QED BY <1>9, <2>2 DEF ShiftedTo
<1>24. mn \in Rotates => s.v = 0 /\ (n = 0 => s.c = 0)
  BY <1>9 DEF Shift, Rotates
<1>25. PICK g : g = ShiftedTo(mn, sv, n, sz, x)
  OBVIOUS
<1>26. g.r = s.r /\ g.c = (IF n = 0 THEN 0 ELSE s.c) /\ g.v = s.v
       /\ g.x = (IF mn \in Rotates \/ n = 0 THEN x ELSE s.c)
  BY <1>9, <1>25 DEF ShiftedTo
<1>27. k.sr.C = g.c /\ k.sr.X = g.x /\ k.sr.V = g.v
  <2>1. CASE mn \in Rotates
    BY <1>10, <1>17, <1>18, <1>24, <1>26, <2>1
  <2>2. CASE mn \notin Rotates
    BY <1>10, <1>17, <1>18, <1>23, <1>26, <2>2
  <2> QED BY <2>1, <2>2
<1> QED BY <1>8, <1>19, <1>22, <1>25, <1>26, <1>27 DEF ShiftRun

LEMMA ShiftsHold ==
  ASSUME InterpInv
  PROVE  ShiftsAreBitByBit
<1> SUFFICES ASSUME Fresh, NEW mn \in Shifts, NEW sz \in Sizes, NEW a \in Operands
             PROVE  LET start == [r |-> Low(a, sz), c |-> 0, x |-> cpu.sr.X, v |-> 0]
                        after[n \in 0 .. CountMask - 1] ==
                          IF n = 0 THEN start ELSE OneBit(mn, sz, after[n - 1])
                    IN  /\ \A n \in 0 .. CountMask - 1 :
                             \A s \in {after[n]},
                                k \in {exec_one([cpu EXCEPT !.D[1] = a, !.D[0] = n],
                                                [Decoded(mn, sz) EXCEPT !.bycount = TRUE, !.creg = 0])} :
                               /\ Low(k.D[1], sz) = s.r /\ k.D[1] - Low(k.D[1], sz) = a - Low(a, sz)
                               /\ k.sr.X = s.x /\ k.sr.C = s.c /\ k.sr.V = s.v
                        /\ \A m \in {MemShift(mn, Low(a, "W"), cpu.sr.X)},
                              o \in {OneBit(mn, "W", [start EXCEPT !.r = Low(a, "W")])} :
                             m.r = o.r /\ m.c = o.c /\ m.v = o.v
  BY Zenon DEF ShiftsAreBitByBit
<1> DEFINE start == [r |-> Low(a, sz), c |-> 0, x |-> cpu.sr.X, v |-> 0]
           first == CHOOSE f : f = [n \in 0 .. CountMask - 1 |->
                                      IF n = 0 THEN start ELSE OneBit(mn, sz, f[n - 1])]
<1>1. MachineOK(cpu) /\ ~cpu.fault
  BY DEF InterpInv, Fresh
<1>2. a \in Longs /\ a \in Int
  BY InterpAssumption, LongsInt
<1>3. PICK x \in {0, 1} : x = cpu.sr.X
  BY <1>1, SrFields
<1>4. PICK h \in Nat \ {0} : h = 2^(Bits[sz] - 1) /\ 2^Bits[sz] = 2 * h
  BY Widths
<1>5. PICK sv \in Int : sv = Low(a, sz) /\ 0 <= sv /\ sv < 2 * h
  BY <1>2, <1>4, LowType
<1>6. start = [r |-> sv, c |-> 0, x |-> x, v |-> 0]
  BY <1>3, <1>5
<1>7. \E f : BitByBit(mn, sz, start, f)
  <2> HIDE DEF start
  <2> QED BY <1>4, <1>5, <1>6, BitByBitExists
<1>8. BitByBit(mn, sz, start, first)
  <2>1. \E f : f = [n \in 0 .. CountMask - 1 |-> IF n = 0 THEN start ELSE OneBit(mn, sz, f[n - 1])]
    BY <1>7 DEF BitByBit
  <2> HIDE DEF start
  <2> QED BY <2>1, Zenon DEF BitByBit
<1>9. ClosedForm(mn, sv, sz, x, first)
  <2> HIDE DEF start, first
  <2> QED BY <1>4, <1>5, <1>6, <1>8, BitByBitIs
<1>10. ASSUME NEW n \in 0 .. CountMask - 1,
              NEW s \in {first[n]},
              NEW k \in {exec_one([cpu EXCEPT !.D[1] = a, !.D[0] = n],
                                  [Decoded(mn, sz) EXCEPT !.bycount = TRUE, !.creg = 0])}
       PROVE  /\ Low(k.D[1], sz) = s.r /\ k.D[1] - Low(k.D[1], sz) = a - Low(a, sz)
              /\ k.sr.X = s.x /\ k.sr.C = s.c /\ k.sr.V = s.v
  <2> HIDE DEF start, first
  <2>1. s = ShiftedTo(mn, sv, n, sz, x)
    BY <1>9 DEF ClosedForm
  <2>2. k = exec_one([cpu EXCEPT !.D[1] = a, !.D[0] = n],
                     [Decoded(mn, sz) EXCEPT !.bycount = TRUE, !.creg = 0])
    OBVIOUS
  <2>3. ShiftRun(k, a, sz, ShiftedTo(mn, Low(a, sz), n, sz, x))
    BY <1>1, <1>2, <1>3, <2>2, ShiftRuns
  <2>4. ShiftRun(k, a, sz, s)
    BY <1>5, <2>1, <2>3
  <2> QED BY <2>4 DEF ShiftRun
<1>11. PICK g : g = [start EXCEPT !.r = Low(a, "W")]
  OBVIOUS
<1>12. PICK z \in Int : z = Low(a, "W")
  BY <1>2, LowType DEF Sizes
<1>13. g.r = z /\ g.x = cpu.sr.X /\ g.v = 0
  BY <1>11, <1>12
<1>14. OneOf(MemShift(mn, z, cpu.sr.X), OneBit(mn, "W", g))
  BY <1>13, MemShiftIsOneBit
<1>15. \A m \in {MemShift(mn, Low(a, "W"), cpu.sr.X)},
          o \in {OneBit(mn, "W", [start EXCEPT !.r = Low(a, "W")])} : m.r = o.r /\ m.c = o.c /\ m.v = o.v
  <2> HIDE DEF start
  <2> QED BY <1>11, <1>12, <1>14 DEF OneOf
<1> QED BY <1>10, <1>15, Zenon

\* A shift by any count that a register can hold, beyond the operand's bits
\* too, is that many shifts by one bit: in the value, in the bit that left
\* last, in X, which a rotation and a count of zero leave, and in the overflow
\* of an ASL, whose sign may move and come back. The shift of a word in memory
\* is the shift by one bit.
THEOREM ShiftsAreStepwise == Spec => []ShiftsAreBitByBit
<1>1. InterpInv => ShiftsAreBitByBit
  BY ShiftsHold
<1> QED BY <1>1, InterpInvariant, PTL

\* The five together: the arithmetic of do_shift, flags_cmp, m68k_divide_word,
\* the extended instructions and the decimal ones is exact on every machine
\* that the interpreter starts from.
THEOREM ArithmeticIsExact == Spec => []ArithmeticExact
<1>1. InterpInv => ArithmeticExact
  BY ConditionsHold, DivisionHolds, ChainHolds, ShiftsHold, DecimalHolds DEF ArithmeticExact
<1> QED BY <1>1, InterpInvariant, PTL

=============================================================================
