----------------------------- MODULE Remainders -----------------------------
(***************************************************************************)
(* Lemmas about remainders by a positive modulus, for the rings whose      *)
(* indices wrap: the mouse buttons' (cdi_input.c), the sample frames'      *)
(* (cdi_audio.c) and the words of the aperture (cdic.c); and induction     *)
(* over the numbers, for what a loop has done after any number of rounds.  *)
(***************************************************************************)
EXTENDS Integers, WellFoundedInduction, TLAPS

\* Quotient and remainder.
LEMMA RemainderDef ==
  ASSUME NEW x \in Int, NEW w \in Nat \ {0}
  PROVE  /\ x \div w \in Int /\ x % w \in 0 .. w - 1
         /\ x = w * (x \div w) + (x % w)
BY SMTT(30)

\* ... and there are no others.
LEMMA RemainderUnique ==
  ASSUME NEW x \in Int, NEW w \in Nat \ {0}, NEW k \in Int, NEW r \in 0 .. w - 1, x = w * k + r
  PROVE  x % w = r
<1>1. PICK d \in Int : d = x \div w
  BY RemainderDef
<1>2. PICK s \in 0 .. w - 1 : s = x % w
  BY RemainderDef
<1>3. w * k + r = w * d + s
  BY <1>1, <1>2, RemainderDef
<1>4. CASE k = d
  BY <1>2, <1>3, <1>4
<1>5. CASE k > d
  <2>1. PICK e \in Nat \ {0} : k = d + e
    <3>1. k - d \in Nat \ {0} /\ k = d + (k - d)
      BY <1>5
    <3> QED BY <3>1
  <2>2. w * k = w * d + w * e
    BY <2>1
  <2>3. w * e >= w
    BY <2>1
  <2> QED BY <1>3, <2>2, <2>3
<1>6. CASE k < d
  <2>1. PICK e \in Nat \ {0} : d = k + e
    <3>1. d - k \in Nat \ {0} /\ d = k + (d - k)
      BY <1>6
    <3> QED BY <3>1
  <2>2. w * d = w * k + w * e
    BY <2>1
  <2>3. w * e >= w
    BY <2>1
  <2> QED BY <1>3, <2>2, <2>3
<1> QED BY <1>4, <1>5, <1>6

\* The remainder of what is less than one modulus away.
LEMMA RemainderWraps ==
  ASSUME NEW x \in Int, NEW w \in Nat \ {0}, -w <= x, x < 2 * w
  PROVE  x % w = IF x < 0 THEN x + w ELSE IF x < w THEN x ELSE x - w
<1>1. CASE x < 0
  <2>1. x + w \in 0 .. w - 1 /\ x = w * (-1) + (x + w)
    BY <1>1
  <2> QED BY <1>1, <2>1, RemainderUnique
<1>2. CASE 0 <= x /\ x < w
  <2>1. x \in 0 .. w - 1 /\ x = w * 0 + x
    BY <1>2
  <2> QED BY <1>2, <2>1, RemainderUnique
<1>3. CASE x >= w
  <2>1. x - w \in 0 .. w - 1 /\ x = w * 1 + (x - w)
    BY <1>3
  <2> QED BY <1>3, <2>1, RemainderUnique
<1> QED BY <1>1, <1>2, <1>3

\* Adding a multiple changes no remainder.
LEMMA RemainderShift ==
  ASSUME NEW x \in Int, NEW w \in Nat \ {0}, NEW k \in Int
  PROVE  (x + w * k) % w = x % w
<1>1. PICK d \in Int : d = x \div w
  BY RemainderDef
<1>2. PICK r \in 0 .. w - 1 : r = x % w
  BY RemainderDef
<1>3. x = w * d + r
  BY <1>1, <1>2, RemainderDef
<1>4. x + w * k = w * (d + k) + r
  BY <1>3
<1>5. x + w * k \in Int /\ d + k \in Int
  OBVIOUS
<1> QED BY <1>2, <1>4, <1>5, RemainderUnique

\* Two numbers less than one modulus apart have different remainders.
LEMMA RemainderApart ==
  ASSUME NEW x \in Int, NEW y \in Int, NEW w \in Nat \ {0}, x < y, y < x + w
  PROVE  x % w # y % w
<1> SUFFICES ASSUME x % w = y % w PROVE FALSE
  OBVIOUS
<1>1. PICK d \in Int : d = x \div w
  BY RemainderDef
<1>2. PICK e \in Int : e = y \div w
  BY RemainderDef
<1>3. PICK r \in 0 .. w - 1 : r = x % w
  BY RemainderDef
<1>4. x = w * d + r /\ y = w * e + r
  BY <1>1, <1>2, <1>3, RemainderDef
<1>5. CASE e <= d
  <2>1. PICK k \in Nat : d = e + k
    <3>1. d - e \in Nat /\ d = e + (d - e)
      BY <1>5
    <3> QED BY <3>1
  <2>2. w * d = w * e + w * k /\ w * k >= 0
    BY <2>1
  <2> QED BY <1>4, <2>2
<1>6. CASE e > d
  <2>1. PICK k \in Nat \ {0} : e = d + k
    <3>1. e - d \in Nat \ {0} /\ e = d + (e - d)
      BY <1>6
    <3> QED BY <3>1
  <2>2. w * e = w * d + w * k /\ w * k >= w
    BY <2>1
  <2> QED BY <1>4, <2>2
<1> QED BY <1>5, <1>6

\* A remainder of a multiple's remainder.
LEMMA RemainderNested ==
  ASSUME NEW x \in Int, NEW w \in Nat \ {0}, NEW v \in Nat \ {0}, v % w = 0
  PROVE  (x % v) % w = x % w
<1>1. PICK q \in Int : q = v \div w
  BY RemainderDef
<1>2. v = w * q
  BY <1>1, RemainderDef
<1>3. PICK d \in Int : d = x \div v
  BY RemainderDef
<1>4. PICK r \in Int : r = x % v
  BY RemainderDef
<1>5. x = v * d + r
  BY <1>3, <1>4, RemainderDef
<1>6. PICK k \in Int : k = q * d
  OBVIOUS
<1>7. x = r + w * k
  BY <1>2, <1>5, <1>6
<1>8. (r + w * k) % w = r % w
  BY RemainderShift
<1> QED BY <1>4, <1>7, <1>8

(***************************************************************************)
(* Induction. A set of numbers that holds 0 and the successor of each of   *)
(* its members holds them all: a number left out would be greater than     *)
(* some least one.                                                         *)
(***************************************************************************)
LEMMA LeastNumber ==
  ASSUME NEW T, T \subseteq Nat, NEW n \in T
  PROVE  \E m \in T : \A k \in T : ~(k < m)
<1>1. PICK m \in T : \A y \in T : <<y, m>> \notin OpToRel(<, Nat)
  BY NatLessThanWellFounded, WFMin
<1>2. ASSUME NEW k \in T, k < m PROVE FALSE
  <2>1. <<k, m>> \in OpToRel(<, Nat)
    BY <1>2 DEF OpToRel
  <2> QED BY <1>1, <2>1
<1> QED BY <1>2

LEMMA AllNumbers ==
  ASSUME NEW G, 0 \in G, \A n \in Nat : n \in G => n + 1 \in G
  PROVE  Nat \subseteq G
<1> SUFFICES ASSUME NEW n \in Nat, n \notin G PROVE FALSE
  OBVIOUS
<1>1. PICK T : T = {k \in Nat : k \notin G}
  OBVIOUS
<1>2. PICK m \in T : \A k \in T : ~(k < m)
  BY <1>1, LeastNumber
<1>3. m # 0 /\ m \in Nat
  BY <1>1
<1>4. m - 1 \in Nat /\ m - 1 \notin T
  BY <1>2, <1>3
<1>5. m - 1 \in G
  BY <1>1, <1>4
<1>6. (m - 1) + 1 \in G
  BY <1>4, <1>5
<1> QED BY <1>1, <1>3, <1>6
=============================================================================
