--------------------------- MODULE FrontEndProofs ---------------------------
(***************************************************************************)
(* Theorems about the two ends the user sees. The pointing device: motion  *)
(* is conserved between the two threads and through the packet, the guest  *)
(* knows the sampled buttons, and a mouse that is not captured holds none. *)
(* The window: the field that was presented last is what it shows, and the *)
(* rows that are drawn from are alive.                                     *)
(***************************************************************************)
EXTENDS Pointer, Presenter, Remainders, SequenceTheorems, FiniteSetTheorems, TLAPS

-----------------------------------------------------------------------------
(* The pointing device. *)

MotionTypes ==
  /\ relative \in IntMin .. IntMax
  /\ job \in [Threads -> {"none", "add", "take"}]
  /\ before \in [Threads -> IntMin .. IntMax]
  /\ delta \in [Threads -> Deltas \cup {0}]
  /\ repeat_count \in 0 .. MaxSpeed

MotionInv == MotionTypes /\ MotionConserved

-----------------------------------------------------------------------------
(* The operators. *)

LEMMA SaturatedIsClip ==
  ASSUME NEW x \in IntMin .. IntMax, NEW d \in IntMin .. IntMax
  PROVE  Saturated(x, d) = Clip(x + d, IntMin, IntMax) /\ Saturated(x, d) \in IntMin .. IntMax
<1>1. IntMin \in Int /\ IntMax \in Int
  BY RangeAssumption
<1> QED
  BY <1>1 DEF Saturated, Clip

LEMMA DeltaRange ==
  ASSUME NEW d \in Deltas \cup {0}
  PROVE  d \in IntMin .. IntMax
BY RangeAssumption

LEMMA KeyRange ==
  ASSUME repeat_count \in 0 .. MaxSpeed
  PROVE  KeyMotion \in Int /\ -MaxSpeed <= KeyMotion /\ KeyMotion <= MaxSpeed
<1>1. MaxSpeed \in Nat /\ repeat_count \in Nat
  BY RangeAssumption
<1>2. PICK speed \in Nat : speed = Clip(repeat_count + (repeat_count % 2), 0, MaxSpeed)
  BY <1>1 DEF Clip
<1>3. speed <= MaxSpeed
  BY <1>1, <1>2 DEF Clip
<1>4. KeyMotion = -speed \/ KeyMotion = speed \/ KeyMotion = 0
  BY <1>2 DEF KeyMotion
<1> QED
  BY <1>1, <1>3, <1>4

\* What is taken fits into the report, and lies between nothing and what there is.
LEMMA TakenFits ==
  ASSUME repeat_count \in 0 .. MaxSpeed, NEW x \in IntMin .. IntMax
  PROVE  /\ Taken(x) \in Int
         /\ KeyMotion + Taken(x) \in -Half .. Half - 1
         /\ x - Taken(x) \in IntMin .. IntMax
<1>1. KeyMotion \in Int /\ -MaxSpeed <= KeyMotion /\ KeyMotion <= MaxSpeed
  BY KeyRange
<1>2. /\ Half \in Nat /\ MaxSpeed \in Nat /\ MaxSpeed < Half - 1
      /\ IntMin \in Int /\ IntMax \in Int /\ IntMin <= 0 /\ IntMax >= 0
  BY RangeAssumption
<1>3. PICK k \in Int : k = KeyMotion
  BY <1>1
<1>4. Taken(x) = Clip(x, -Half - k, Half - 1 - k)
  BY <1>3 DEF Taken
<1> QED
  BY <1>1, <1>2, <1>3, <1>4 DEF Clip

\* Header and payload carry the sample.
LEMMA PacketDecodes ==
  ASSUME NEW x \in -Half .. Half - 1, NEW pressed
  PROVE  Motion(Packet(x, pressed)) = x
<1>1. Half \in Nat /\ Low \in Nat \ {0} /\ x \in Int /\ -Half <= x /\ x < Half
  BY RangeAssumption
<1>2. PICK e \in Nat : e = IF x >= 0 THEN x ELSE x + 2 * Half
  BY <1>1
<1>3. x % (2 * Half) = e
  <2>1. PICK w \in Nat : w = 2 * Half
    BY <1>1
  <2>2. CASE x >= 0
    <3>1. e = x /\ x < w
      BY <1>1, <1>2, <2>1, <2>2
    <3> QED
      BY <1>1, <2>1, <3>1
  <2>3. CASE x < 0
    <3>1. e = x + w /\ -w <= x /\ x < 0 /\ e < w /\ w > 0
      BY <1>1, <1>2, <2>1, <2>3
    <3>2. x % w = e
      BY <1>1, <2>1, <3>1, SMTT(30)
    <3> QED
      BY <2>1, <3>2
  <2> QED
    BY <1>1, <2>2, <2>3
<1>4. (e \div Low) * Low + (e % Low) = e
  BY <1>1, SMTT(30)
<1>5. Motion(Packet(x, pressed)) = IF e >= Half THEN e - 2 * Half ELSE e
  BY <1>3, <1>4 DEF Motion, Packet
<1> QED
  BY <1>1, <1>2, <1>5

-----------------------------------------------------------------------------
(* Motion. *)

LEMMA FinishAddKeeps ==
  ASSUME MotionInv, NEW t \in Threads, FinishAdd(t)
  PROVE  MotionInv'
<1>1. /\ relative \in IntMin .. IntMax /\ before[t] = relative
      /\ delta[t] \in IntMin .. IntMax /\ owed = relative
  BY DeltaRange DEF MotionInv, MotionTypes, MotionConserved, FinishAdd, Unmoved
<1>2. /\ relative' = Clip(relative + delta[t], IntMin, IntMax)
      /\ relative' \in IntMin .. IntMax
  BY <1>1, SaturatedIsClip DEF FinishAdd
<1>3. owed' = relative'
  BY <1>1, <1>2 DEF FinishAdd
<1>4. 0 \in IntMin .. IntMax
  BY RangeAssumption
<1>5. /\ job' \in [Threads -> {"none", "add", "take"}]
      /\ before' \in [Threads -> IntMin .. IntMax]
      /\ delta' \in [Threads -> Deltas \cup {0}]
      /\ repeat_count' = repeat_count
  BY <1>4 DEF MotionInv, MotionTypes, FinishAdd, device
<1> QED
  BY <1>2, <1>3, <1>5 DEF MotionInv, MotionTypes, MotionConserved

LEMMA FinishPacketKeeps ==
  ASSUME MotionInv, NEW other \in BOOLEAN, FinishPacket(other)
  PROVE  MotionInv'
<1>1. PICK x : x = before["emulation"]
  OBVIOUS
<1>2. x \in IntMin .. IntMax /\ x = relative /\ x = owed /\ repeat_count \in 0 .. MaxSpeed
  BY <1>1 DEF MotionInv, MotionTypes, MotionConserved, FinishPacket, Unmoved, Threads
<1>3. PICK k \in Int : k = KeyMotion
  BY <1>2, KeyRange
<1>4. PICK amount \in Int : amount = Taken(x)
  BY <1>2, TakenFits
<1>5. k + amount \in -Half .. Half - 1 /\ x - amount \in IntMin .. IntMax
  BY <1>2, <1>3, <1>4, TakenFits
<1>6. PICK reports : reports = (other \/ Reports(k + amount))
  OBVIOUS
<1>7. PICK sent : sent = Packet(k + amount, input \cap BUTTONS)
  OBVIOUS
<1>8. relative' = x - amount
  BY <1>1, <1>4 DEF FinishPacket
<1>9. owed' = owed - (IF reports THEN Motion(sent) - k ELSE 0)
  BY <1>1, <1>3, <1>4, <1>6, <1>7 DEF FinishPacket
<1>10. Motion(sent) = k + amount
  BY <1>5, <1>7, PacketDecodes
<1>11. owed' = relative'
  <2>1. CASE reports
    BY <1>2, <1>8, <1>9, <1>10, <2>1, RangeAssumption
  <2>2. CASE ~reports
    <3>1. k + amount = 0 /\ input \cap DIRECTIONS = {}
      BY <1>6, <2>2 DEF Reports
    <3>2. k = 0
      BY <1>3, <3>1 DEF KeyMotion, DIRECTIONS
    <3>3. amount = 0
      BY <3>1, <3>2
    <3> QED
      BY <1>2, <1>8, <1>9, <2>2, <3>3, RangeAssumption
  <2> QED
    BY <2>1, <2>2
<1>12. 0 \in IntMin .. IntMax
  BY RangeAssumption
<1>13. /\ job' \in [Threads -> {"none", "add", "take"}]
       /\ before' \in [Threads -> IntMin .. IntMax]
       /\ delta' \in [Threads -> Deltas \cup {0}]
       /\ repeat_count' = repeat_count
  BY <1>12 DEF MotionInv, MotionTypes, FinishPacket
<1> QED
  BY <1>5, <1>8, <1>11, <1>13 DEF MotionInv, MotionTypes, MotionConserved

LEMMA BeginAddKeeps ==
  ASSUME MotionInv, NEW t \in Threads, NEW d \in Deltas, BeginAdd(t, d)
  PROVE  MotionInv'
BY DEF MotionInv, MotionTypes, MotionConserved, BeginAdd, device

LEMMA RetryKeeps ==
  ASSUME MotionInv, NEW t \in Threads, Retry(t)
  PROVE  MotionInv'
BY DEF MotionInv, MotionTypes, MotionConserved, Retry, device

LEMMA BeginPacketKeeps ==
  ASSUME MotionInv, BeginPacket
  PROVE  MotionInv'
<1>1. repeat_count' \in 0 .. MaxSpeed
  BY RangeAssumption DEF MotionInv, MotionTypes, BeginPacket, Clip
<1>2. /\ job' \in [Threads -> {"none", "add", "take"}]
      /\ before' \in [Threads -> IntMin .. IntMax]
      /\ UNCHANGED <<relative, delta, owed>>
  BY DEF MotionInv, MotionTypes, BeginPacket
<1> QED
  BY <1>1, <1>2 DEF MotionInv, MotionTypes, MotionConserved

\* What leaves the motion alone, or drops it.
LEMMA OtherwiseKeeps ==
  ASSUME MotionInv, repeat_count' = repeat_count, UNCHANGED motion \/ ReleaseMouse
  PROVE  MotionInv'
<1>1. CASE UNCHANGED motion
  BY <1>1 DEF motion, MotionInv, MotionTypes, MotionConserved
<1>2. CASE ReleaseMouse
  BY <1>2, RangeAssumption DEF ReleaseMouse, MotionInv, MotionTypes, MotionConserved
<1> QED
  BY <1>1, <1>2

LEMMA MotionInit == Init => MotionInv
BY RangeAssumption DEF Init, MotionInv, MotionTypes, MotionConserved, Threads

LEMMA MotionNext == MotionInv /\ [Next]_vars => MotionInv'
<1> SUFFICES ASSUME MotionInv, [Next]_vars PROVE MotionInv'
  OBVIOUS
<1>1. CASE Debug
  <2>1. ASSUME NEW mask \in Masks, SetInput(mask) PROVE MotionInv'
    BY <2>1, OtherwiseKeeps DEF SetInput, device
  <2>2. ASSUME NEW d \in Deltas, InjectMotion(d) PROVE MotionInv'
    BY <2>2, BeginAddKeeps DEF InjectMotion, Threads
  <2> QED
    BY <1>1, <2>1, <2>2 DEF Debug
<1>2. CASE User
  <2>1. ASSUME NEW mask \in Masks, SetFrontend(mask) PROVE MotionInv'
    BY <2>1, OtherwiseKeeps DEF SetFrontend, device
  <2>2. ASSUME NEW d \in Deltas, MouseMotion(d) PROVE MotionInv'
    BY <2>2, BeginAddKeeps DEF MouseMotion, Threads
  <2>3. ASSUME NEW button \in Pressable, NEW pressed \in BOOLEAN, MouseButton(button, pressed)
        PROVE MotionInv'
    BY <2>3, OtherwiseKeeps DEF MouseButton, device
  <2>4. ASSUME NEW on \in BOOLEAN, MouseConfigure(on) PROVE MotionInv'
    BY <2>4, OtherwiseKeeps DEF MouseConfigure, device
  <2>5. ASSUME NEW on \in BOOLEAN, MouseFocus(on) PROVE MotionInv'
    BY <2>5, OtherwiseKeeps DEF MouseFocus, device
  <2> QED
    BY <1>2, <2>1, <2>2, <2>3, <2>4, <2>5 DEF User
<1>3. CASE Sample
  BY <1>3, BeginPacketKeeps, FinishPacketKeeps DEF Sample
<1>4. CASE Loop
  BY <1>4, FinishAddKeeps, RetryKeeps DEF Loop
<1>5. CASE UNCHANGED vars
  BY <1>5, OtherwiseKeeps DEF vars, device
<1> QED
  BY <1>1, <1>2, <1>3, <1>4, <1>5 DEF Next

\* What the guest decodes is what was added, for every range of the counter and of the
\* report, and every interleaving of the two threads (saturating_add, take_axis,
\* emit_pointer_packet).
THEOREM MotionIsConserved == Spec => []MotionConserved
<1>1. MotionInv => MotionConserved
  BY DEF MotionInv
<1> QED
  BY <1>1, MotionInit, MotionNext, PTL DEF Spec

-----------------------------------------------------------------------------
(* Buttons. *)

LEMMA GuestNext == GuestUpToDate /\ [Next]_vars => GuestUpToDate'
<1> SUFFICES ASSUME GuestUpToDate, [Next]_vars PROVE GuestUpToDate'
  OBVIOUS
<1>1. ASSUME NEW other \in BOOLEAN, FinishPacket(other) PROVE GuestUpToDate'
  <2>1. PICK x : x = KeyMotion + Taken(before["emulation"])
    OBVIOUS
  <2>2. previous_input' = input
    BY <1>1 DEF FinishPacket
  <2>3. CASE other \/ Reports(x)
    <3>1. guest' = Packet(x, input \cap BUTTONS).buttons
      BY <1>1, <2>1, <2>3 DEF FinishPacket
    <3> QED
      BY <2>2, <3>1 DEF Packet, GuestUpToDate
  <2>4. CASE ~(other \/ Reports(x))
    <3>1. guest' = guest /\ input \cap BUTTONS = previous_input \cap BUTTONS
      BY <1>1, <2>1, <2>4 DEF FinishPacket, Reports
    <3> QED
      BY <2>2, <3>1 DEF GuestUpToDate
  <2> QED
    BY <2>3, <2>4
<1>2. ASSUME UNCHANGED <<guest, previous_input>> PROVE GuestUpToDate'
  BY <1>2 DEF GuestUpToDate
<1>3. CASE Debug
  BY <1>2, <1>3 DEF Debug, SetInput, InjectMotion, BeginAdd, device
<1>4. CASE User
  BY <1>2, <1>4 DEF User, SetFrontend, MouseMotion, BeginAdd, MouseButton, MouseConfigure,
                    MouseFocus, device
<1>5. CASE BeginPacket
  BY <1>2, <1>5 DEF BeginPacket
<1>6. CASE Loop
  BY <1>2, <1>6 DEF Loop, FinishAdd, Retry, device
<1>7. CASE UNCHANGED vars
  BY <1>2, <1>7 DEF vars, device
<1> QED
  BY <1>1, <1>3, <1>4, <1>5, <1>6, <1>7 DEF Next, Sample

\* The guest knows the buttons of the last sample (emit_pointer_packet).
THEOREM GuestKnowsButtons == Spec => []GuestUpToDate
<1>1. Init => GuestUpToDate
  BY DEF Init, GuestUpToDate
<1> QED
  BY <1>1, GuestNext, PTL DEF Spec

LEMMA ReleasedNext == ReleasedWhenInactive /\ [Next]_vars => ReleasedWhenInactive'
<1> SUFFICES ASSUME ReleasedWhenInactive, [Next]_vars PROVE ReleasedWhenInactive'
  OBVIOUS
<1>1. ASSUME UNCHANGED <<physical, enabled, focused>> PROVE ReleasedWhenInactive'
  BY <1>1 DEF ReleasedWhenInactive, Active
<1>2. ASSUME NEW button \in Pressable, NEW pressed \in BOOLEAN, MouseButton(button, pressed)
      PROVE  ReleasedWhenInactive'
  <2>1. UNCHANGED <<enabled, focused>>
    BY <1>2 DEF MouseButton, host
  <2>2. CASE pressed
    BY <1>2, <2>1, <2>2 DEF MouseButton, ReleasedWhenInactive, Active
  <2>3. CASE ~pressed
    <3>1. physical' = physical \ {button}
      BY <1>2, <2>3 DEF MouseButton
    <3> QED
      BY <2>1, <3>1 DEF ReleasedWhenInactive, Active
  <2> QED
    BY <2>2, <2>3
<1>3. ASSUME NEW on \in BOOLEAN, MouseConfigure(on) \/ MouseFocus(on)
      PROVE  ReleasedWhenInactive'
  <2>1. CASE on
    BY <1>3, <2>1 DEF MouseConfigure, MouseFocus, buttons, ReleasedWhenInactive, Active
  <2>2. CASE ~on
    BY <1>3, <2>2 DEF MouseConfigure, MouseFocus, ReleaseMouse, ReleasedWhenInactive
  <2> QED
    BY <2>1, <2>2
<1>4. CASE Debug
  BY <1>1, <1>4 DEF Debug, SetInput, InjectMotion, BeginAdd, buttons, host
<1>5. ASSUME NEW mask \in Masks, SetFrontend(mask) PROVE ReleasedWhenInactive'
  BY <1>1, <1>5 DEF SetFrontend, buttons
<1>6. ASSUME NEW d \in Deltas, MouseMotion(d) PROVE ReleasedWhenInactive'
  BY <1>1, <1>6 DEF MouseMotion, BeginAdd, buttons, host
<1>7. CASE Sample
  BY <1>1, <1>7 DEF Sample, BeginPacket, FinishPacket, buttons, host
<1>8. CASE Loop
  BY <1>1, <1>8 DEF Loop, FinishAdd, Retry, buttons, host
<1>9. CASE UNCHANGED vars
  BY <1>1, <1>9 DEF vars, buttons, host
<1> QED
  BY <1>2, <1>3, <1>4, <1>5, <1>6, <1>7, <1>8, <1>9 DEF Next, User

\* A mouse that is not captured holds no button (release_mouse_state).
THEOREM InactiveMouseReleased == Spec => []ReleasedWhenInactive
<1>1. Init => ReleasedWhenInactive
  BY DEF Init, ReleasedWhenInactive
<1> QED
  BY <1>1, ReleasedNext, PTL DEF Spec

-----------------------------------------------------------------------------
(* The queue of button states. *)

Count(r) == (r.write - r.read) % Modulus
Slot(r, i) == r.slots[(r.read + i - 1) % Capacity]

RingSet == [slots : [0 .. Capacity - 1 -> SUBSET BUTTONS],
            read : 0 .. Modulus - 1, write : 0 .. Modulus - 1]

\* Ring r holds the states of waiting.
Holds(r, waiting) ==
  /\ r \in RingSet /\ waiting \in Seq(SUBSET BUTTONS)
  /\ Len(waiting) = Count(r)
  /\ \A i \in 1 .. Len(waiting) : waiting[i] = Slot(r, i)

LEMMA QueueConstants ==
  /\ Capacity \in Nat \ {0} /\ Modulus \in Nat \ {0}
  /\ Capacity < Modulus /\ Modulus % Capacity = 0
  /\ Modulus = Capacity * (Modulus \div Capacity) /\ Modulus \div Capacity \in Int
<1>1. /\ Capacity \in Nat \ {0} /\ Modulus \in Nat \ {0}
      /\ Capacity < Modulus /\ Modulus % Capacity = 0
  BY QueueAssumption
<1>2. Modulus = Capacity * (Modulus \div Capacity) + (Modulus % Capacity)
      /\ Modulus \div Capacity \in Int
  BY <1>1, RemainderDef
<1> QED BY <1>1, <1>2

\* Where an index wraps, its slot is the same.
LEMMA SlotWraps ==
  ASSUME NEW x \in Int
  PROVE  (x - Modulus) % Capacity = x % Capacity
<1>1. PICK q \in Int : q = Modulus \div Capacity
  BY QueueConstants
<1>2. Modulus = Capacity * q
  BY <1>1, QueueConstants
<1>3. PICK p \in Int : p = -q
  OBVIOUS
<1>4. (x + Capacity * p) % Capacity = x % Capacity
  BY QueueConstants, RemainderShift
<1>5. x - Modulus = x + Capacity * p
  BY <1>2, <1>3, QueueConstants
<1> QED BY <1>4, <1>5

LEMMA CountIs ==
  ASSUME NEW r \in RingSet
  PROVE  /\ r.read \in Nat /\ r.write \in Nat /\ r.read < Modulus /\ r.write < Modulus
         /\ Count(r) = IF r.write >= r.read THEN r.write - r.read ELSE r.write - r.read + Modulus
         /\ Count(r) \in 0 .. Modulus - 1 /\ (Count(r) = 0 <=> r.read = r.write)
<1>1. Modulus \in Nat /\ r.read \in Nat /\ r.write \in Nat /\ r.read < Modulus /\ r.write < Modulus
  BY QueueConstants DEF RingSet
<1>2. r.write - r.read \in Int /\ -Modulus <= r.write - r.read /\ r.write - r.read < 2 * Modulus
  BY <1>1
<1>3. Count(r) = IF r.write - r.read < 0 THEN r.write - r.read + Modulus
                 ELSE IF r.write - r.read < Modulus THEN r.write - r.read
                 ELSE r.write - r.read - Modulus
  BY <1>2, QueueConstants, RemainderWraps DEF Count
<1> QED BY <1>1, <1>3

\* The next index.
LEMMA NextIndex ==
  ASSUME NEW k \in 0 .. Modulus - 1
  PROVE  /\ (k + 1) % Modulus \in 0 .. Modulus - 1
         /\ (k + 1) % Modulus = IF k + 1 < Modulus THEN k + 1 ELSE k + 1 - Modulus
<1>1. PICK x \in Int : x = k + 1
  OBVIOUS
<1>2. -Modulus <= x /\ 0 < x /\ x < 2 * Modulus /\ Modulus \in Nat \ {0} /\ x <= Modulus
  BY <1>1, QueueConstants
<1>3. x % Modulus = IF x < 0 THEN x + Modulus ELSE IF x < Modulus THEN x ELSE x - Modulus
  BY <1>2, RemainderWraps
<1>4. x % Modulus = (IF x < Modulus THEN x ELSE x - Modulus) /\ x % Modulus \in 0 .. Modulus - 1
  BY <1>2, <1>3
<1>5. (k + 1) % Modulus = x % Modulus
  BY <1>1
<1>6. PICK m \in Int : m = x % Modulus
  BY <1>2, <1>4
<1>7. m \in 0 .. Modulus - 1 /\ m = IF k + 1 < Modulus THEN k + 1 ELSE k + 1 - Modulus
  BY <1>1, <1>2, <1>4, <1>6
<1> QED BY <1>5, <1>6, <1>7, Zenon

LEMMA PushHolds ==
  ASSUME NEW r, NEW waiting, NEW pressed \in SUBSET BUTTONS, Holds(r, waiting)
  PROVE  Holds(Push(r, pressed), Accept(waiting, pressed))
<1>1. /\ r \in RingSet /\ waiting \in Seq(SUBSET BUTTONS) /\ Len(waiting) = Count(r)
      /\ \A i \in 1 .. Len(waiting) : waiting[i] = Slot(r, i)
  BY DEF Holds
<1>2. Full(r) <=> Len(waiting) >= Capacity
  BY <1>1 DEF Full, Count
<1>3. CASE Full(r)
  BY <1>2, <1>3 DEF Push, Accept
<1>4. CASE ~Full(r)
  <2>1. PICK n \in Nat : n = Count(r)
    BY <1>1, CountIs
  <2>2. /\ r.read \in Nat /\ r.write \in Nat /\ r.read < Modulus /\ r.write < Modulus
        /\ n = IF r.write >= r.read THEN r.write - r.read ELSE r.write - r.read + Modulus
    BY <1>1, <2>1, CountIs
  <2>3. /\ n < Capacity /\ Capacity < Modulus /\ Capacity \in Nat \ {0} /\ Modulus \in Nat
    BY <1>1, <1>2, <1>4, <2>1, QueueConstants
  <2>4. PICK at \in 0 .. Capacity - 1 : at = r.write % Capacity
    BY <2>2, <2>3, RemainderDef
  <2>4a. r.write \in 0 .. Modulus - 1
    BY <2>2, <2>3
  <2>5. PICK w \in 0 .. Modulus - 1 : w = (r.write + 1) % Modulus
    BY <2>4a, NextIndex
  <2>6. w = IF r.write + 1 < Modulus THEN r.write + 1 ELSE r.write + 1 - Modulus
    BY <2>4a, <2>5, NextIndex
  <2> DEFINE s == [r EXCEPT !.slots[r.write % Capacity] = pressed,
                            !.write = (r.write + 1) % Modulus]
  <2>7. Push(r, pressed) = s /\ Accept(waiting, pressed) = Append(waiting, pressed)
    BY <1>2, <1>4 DEF Push, Accept
  <2>8. /\ s.slots = [r.slots EXCEPT ![at] = pressed] /\ s.read = r.read /\ s.write = w
        /\ s = [slots |-> [r.slots EXCEPT ![at] = pressed], read |-> r.read, write |-> w]
    <3>1. s = [r EXCEPT !.slots = [r.slots EXCEPT ![at] = pressed], !.write = w]
      BY <1>1, <2>4, <2>5 DEF RingSet
    <3>2. PICK slots : slots = [r.slots EXCEPT ![at] = pressed]
      OBVIOUS
    <3>3. s = [r EXCEPT !.slots = slots, !.write = w]
      BY <3>1, <3>2
    <3> HIDE DEF s
    <3>4. s = [slots |-> slots, read |-> r.read, write |-> w]
      BY <1>1, <3>3 DEF RingSet
    <3> QED BY <3>2, <3>4
  <2>9. s \in RingSet
    <3>1. [r.slots EXCEPT ![at] = pressed] \in [0 .. Capacity - 1 -> SUBSET BUTTONS]
      BY <1>1, <2>4 DEF RingSet
    <3> QED BY <1>1, <2>5, <2>8, <3>1 DEF RingSet
  <2> HIDE DEF s
  <2>10. Count(s) = n + 1
    <3>1. Count(s) = IF w >= r.read THEN w - r.read ELSE w - r.read + Modulus
      BY <2>8, <2>9, CountIs
    <3> QED BY <2>2, <2>3, <2>6, <3>1
  <2>11. /\ Append(waiting, pressed) \in Seq(SUBSET BUTTONS)
         /\ Len(Append(waiting, pressed)) = n + 1
         /\ \A i \in 1 .. n : Append(waiting, pressed)[i] = waiting[i]
         /\ Append(waiting, pressed)[n + 1] = pressed
    BY <1>1, <2>1, AppendProperties
  <2>12. Slot(s, n + 1) = pressed
    <3>1. (r.read + (n + 1) - 1) % Capacity = at
      <4>1. PICK y \in Int : y = r.read + (n + 1) - 1
        BY <2>2
      <4>2. y = r.write \/ y - Modulus = r.write
        BY <2>2, <2>3, <4>1
      <4>3. (y - Modulus) % Capacity = y % Capacity
        BY SlotWraps
      <4> QED BY <2>4, <4>1, <4>2, <4>3
    <3> QED BY <1>1, <2>4, <2>8, <3>1 DEF Slot, RingSet
  <2>13. ASSUME NEW i \in 1 .. n
         PROVE  Slot(s, i) = waiting[i]
    <3>1. PICK x \in Int : x = r.read + i - 1
      BY <2>2
    <3>2. PICK y \in Int : y = r.read + n
      BY <2>2
    <3>3. x < y /\ y < x + Capacity
      BY <2>2, <2>3, <3>1, <3>2
    <3>4. x % Capacity # y % Capacity
      BY <2>3, <3>3, RemainderApart
    <3>5. y % Capacity = at
      <4>1. y = r.write \/ y - Modulus = r.write
        BY <2>2, <2>3, <3>2
      <4> QED BY <2>4, <4>1, SlotWraps
    <3>6. x % Capacity \in 0 .. Capacity - 1
      BY <2>3, RemainderDef
    <3>7. s.slots[x % Capacity] = r.slots[x % Capacity]
      BY <1>1, <2>4, <2>8, <3>4, <3>5, <3>6 DEF RingSet
    <3> QED BY <1>1, <2>1, <2>8, <3>1, <3>7 DEF Slot
  <2>14. \A i \in 1 .. n + 1 : Append(waiting, pressed)[i] = Slot(s, i)
    <3>1. \A i \in 1 .. n + 1 : i \in 1 .. n \/ i = n + 1
      OBVIOUS
    <3> QED BY <2>11, <2>12, <2>13, <3>1
  <2> QED BY <2>7, <2>9, <2>10, <2>11, <2>14 DEF Holds
<1> QED BY <1>3, <1>4

LEMMA AcknowledgeHolds ==
  ASSUME NEW r, NEW waiting, Holds(r, waiting)
  PROVE  Holds(Acknowledged(r), IF waiting = << >> THEN waiting ELSE Tail(waiting))
<1>1. /\ r \in RingSet /\ waiting \in Seq(SUBSET BUTTONS) /\ Len(waiting) = Count(r)
      /\ \A i \in 1 .. Len(waiting) : waiting[i] = Slot(r, i)
  BY DEF Holds
<1>2. waiting = << >> <=> r.read = r.write
  <2>1. waiting = << >> <=> Len(waiting) = 0
    BY <1>1, EmptySeq
  <2> QED BY <1>1, <2>1, CountIs
<1>3. CASE r.read = r.write
  BY <1>2, <1>3 DEF Acknowledged
<1>4. CASE r.read # r.write
  <2>1. PICK n \in Nat : n = Count(r)
    BY <1>1, CountIs
  <2>2. /\ r.read \in Nat /\ r.write \in Nat /\ r.read < Modulus /\ r.write < Modulus
        /\ n = IF r.write >= r.read THEN r.write - r.read ELSE r.write - r.read + Modulus
        /\ Modulus \in Nat
    BY <1>1, <2>1, CountIs, QueueConstants
  <2>2a. r.read \in 0 .. Modulus - 1
    BY <2>2
  <2>3. PICK a \in 0 .. Modulus - 1 : a = (r.read + 1) % Modulus
    BY <2>2a, NextIndex
  <2>4. a = IF r.read + 1 < Modulus THEN r.read + 1 ELSE r.read + 1 - Modulus
    BY <2>2a, <2>3, NextIndex
  <2> DEFINE s == [r EXCEPT !.read = (r.read + 1) % Modulus]
             rest == Tail(waiting)
  <2>5. Acknowledged(r) = s /\ (IF waiting = << >> THEN waiting ELSE Tail(waiting)) = rest
    BY <1>2, <1>4 DEF Acknowledged
  <2>6. s = [slots |-> r.slots, read |-> a, write |-> r.write] /\ s \in RingSet
        /\ s.slots = r.slots /\ s.read = a /\ s.write = r.write
    BY <1>1, <2>3 DEF RingSet
  <2> HIDE DEF s
  <2>7. Count(s) = n - 1
    <3>1. Count(s) = IF r.write >= a THEN r.write - a ELSE r.write - a + Modulus
      BY <2>6, CountIs
    <3> QED BY <1>4, <2>2, <2>4, <3>1
  <2>8. /\ rest \in Seq(SUBSET BUTTONS) /\ Len(rest) = n - 1
        /\ \A i \in 1 .. n - 1 : rest[i] = waiting[i + 1]
    BY <1>1, <1>2, <1>4, <2>1, HeadTailProperties
  <2> HIDE DEF rest
  <2>9. ASSUME NEW i \in 1 .. n - 1
        PROVE  Slot(s, i) = Slot(r, i + 1)
    <3>1. (r.read + (i + 1) - 1 - Modulus) % Capacity = (r.read + (i + 1) - 1) % Capacity
      BY <2>2, SlotWraps
    <3>2. \/ a + i - 1 = r.read + (i + 1) - 1
          \/ a + i - 1 = r.read + (i + 1) - 1 - Modulus
      BY <2>2, <2>4
    <3>3. (a + i - 1) % Capacity = (r.read + (i + 1) - 1) % Capacity
      BY <3>1, <3>2
    <3> QED BY <2>6, <3>3 DEF Slot
  <2>10. \A i \in 1 .. n - 1 : rest[i] = Slot(s, i)
    <3>1. \A i \in 1 .. n - 1 : i + 1 \in 1 .. n
      OBVIOUS
    <3> QED BY <1>1, <2>1, <2>8, <2>9, <3>1
  <2> QED BY <2>5, <2>6, <2>7, <2>8, <2>10 DEF Holds
<1> QED BY <1>3, <1>4

\* The queue and the states not yet sampled.
QueueInv == Holds(ring, unseen) /\ physical \in SUBSET BUTTONS

LEMMA QueueInOrder == QueueInv => ButtonsInOrder
<1> SUFFICES ASSUME QueueInv PROVE ButtonsInOrder
  OBVIOUS
<1>1. /\ ring \in RingSet /\ unseen \in Seq(SUBSET BUTTONS) /\ Len(unseen) = Count(ring)
      /\ \A i \in 1 .. Len(unseen) : unseen[i] = Slot(ring, i)
  BY DEF QueueInv, Holds
<1>2. PICK n \in Nat : n = Count(ring)
  BY <1>1, CountIs
<1>3. ring.read \in Nat
  BY <1>1, CountIs
<1>4. ASSUME NEW i \in 1 .. n
      PROVE  unseen[i] = ring.slots[((ring.read + i - 1) % Modulus) % Capacity]
  <2>1. PICK x \in Int : x = ring.read + i - 1
    BY <1>3
  <2>2. (x % Modulus) % Capacity = x % Capacity
    BY QueueConstants, RemainderNested
  <2>3. unseen[i] = ring.slots[x % Capacity]
    BY <1>1, <1>2, <2>1 DEF Slot
  <2> QED BY <2>1, <2>2, <2>3
<1>5. unseen = [i \in 1 .. n |-> unseen[i]]
  BY <1>1, <1>2, LenProperties
<1>6. unseen = [i \in 1 .. n |-> ring.slots[((ring.read + i - 1) % Modulus) % Capacity]]
  BY <1>4, <1>5
<1> QED BY <1>2, <1>6 DEF ButtonsInOrder, Count

LEMMA QueueInit == Init => QueueInv
<1> SUFFICES ASSUME Init PROVE QueueInv
  OBVIOUS
<1>1. /\ ring = [slots |-> [i \in 0 .. Capacity - 1 |-> {}], read |-> 0, write |-> 0]
      /\ unseen = << >> /\ physical = {}
  BY DEF Init
<1>2. 0 \in 0 .. Modulus - 1
  BY QueueConstants
<1>3. ring \in RingSet /\ ring.read = ring.write
  BY <1>1, <1>2 DEF RingSet
<1>4. Count(ring) = 0
  BY <1>3, CountIs
<1>5. unseen \in Seq(SUBSET BUTTONS) /\ Len(unseen) = 0
  BY <1>1
<1> QED BY <1>1, <1>3, <1>4, <1>5 DEF QueueInv, Holds

LEMMA ReleaseKeepsQueue ==
  ASSUME QueueInv, ReleaseMouse
  PROVE  QueueInv'
<1> DEFINE up == physical \ {"BTN1"}
           ring1 == IF "BTN1" \in physical THEN Push(ring, up) ELSE ring
           unseen1 == IF "BTN1" \in physical THEN Accept(unseen, up) ELSE unseen
<1>1. up \in SUBSET BUTTONS /\ {} \in SUBSET BUTTONS /\ Holds(ring, unseen)
  BY DEF QueueInv
<1>2. /\ physical' = {}
      /\ ring' = IF "BTN2" \in physical THEN Push(ring1, {}) ELSE ring1
      /\ unseen' = IF "BTN2" \in physical THEN Accept(unseen1, {}) ELSE unseen1
  BY DEF ReleaseMouse
<1> HIDE DEF up
<1>3. Holds(ring1, unseen1)
  BY <1>1, PushHolds
<1> HIDE DEF ring1, unseen1
<1>4. Holds(ring', unseen')
  BY <1>1, <1>2, <1>3, PushHolds
<1> QED BY <1>1, <1>2, <1>4 DEF QueueInv

LEMMA QueueNext == QueueInv /\ [Next]_vars => QueueInv'
<1> SUFFICES ASSUME QueueInv, [Next]_vars PROVE QueueInv'
  OBVIOUS
<1>1. ASSUME UNCHANGED buttons PROVE QueueInv'
  BY <1>1 DEF QueueInv, buttons, Holds, Count, Slot
<1>2. ASSUME NEW button \in Pressable, NEW pressed \in BOOLEAN, MouseButton(button, pressed)
      PROVE  QueueInv'
  <2>1. PICK after : after = IF pressed THEN physical \cup {button} ELSE physical \ {button}
    OBVIOUS
  <2>2. physical' = after /\ ring' = Push(ring, after) /\ unseen' = Accept(unseen, after)
    BY <1>2, <2>1 DEF MouseButton
  <2>3. after \in SUBSET BUTTONS
    BY <2>1, QueueAssumption DEF QueueInv
  <2>4. Holds(ring', unseen')
    BY <2>2, <2>3, PushHolds DEF QueueInv
  <2> QED BY <2>2, <2>3, <2>4 DEF QueueInv
<1>3. ASSUME NEW on \in BOOLEAN, MouseConfigure(on) \/ MouseFocus(on)
      PROVE  QueueInv'
  <2>1. CASE on
    BY <1>1, <1>3, <2>1 DEF MouseConfigure, MouseFocus
  <2>2. CASE ~on
    BY <1>3, <2>2, ReleaseKeepsQueue DEF MouseConfigure, MouseFocus
  <2> QED BY <2>1, <2>2
<1>4. ASSUME NEW other \in BOOLEAN, FinishPacket(other)
      PROVE  QueueInv'
  <2>1. /\ ring' = Acknowledged(ring) /\ physical' = physical
        /\ unseen' = IF unseen = <<>> THEN unseen ELSE Tail(unseen)
    BY <1>4 DEF FinishPacket
  <2>2. Holds(ring', unseen')
    BY <2>1, AcknowledgeHolds DEF QueueInv
  <2> QED BY <2>1, <2>2 DEF QueueInv
<1>5. CASE Debug
  BY <1>1, <1>5 DEF Debug, SetInput, InjectMotion, BeginAdd
<1>6. ASSUME NEW mask \in Masks, SetFrontend(mask) PROVE QueueInv'
  BY <1>1, <1>6 DEF SetFrontend
<1>7. ASSUME NEW d \in Deltas, MouseMotion(d) PROVE QueueInv'
  BY <1>1, <1>7 DEF MouseMotion, BeginAdd
<1>8. CASE BeginPacket
  BY <1>1, <1>8 DEF BeginPacket
<1>9. CASE Loop
  BY <1>1, <1>9 DEF Loop, FinishAdd, Retry
<1>10. CASE UNCHANGED vars
  BY <1>1, <1>10 DEF vars
<1> QED
  BY <1>2, <1>3, <1>4, <1>5, <1>6, <1>7, <1>8, <1>9, <1>10 DEF Next, User, Sample

\* Button states reach the guest in order, for every capacity that divides the modulus of
\* the indices: the queue is a bounded first-in first-out queue where they wrap, no packet
\* with news is left out, and a mouse that is not captured holds nothing down
\* (cdi_input_mouse_button, cdi_input_acknowledge_mouse_buttons, emit_pointer_packet).
THEOREM ButtonsReachTheGuest == Spec => []ButtonsReachGuest
<1>1. Init => QueueInv /\ GuestUpToDate /\ ReleasedWhenInactive
  BY QueueInit DEF Init, GuestUpToDate, ReleasedWhenInactive
<1>2. QueueInv /\ GuestUpToDate /\ ReleasedWhenInactive => ButtonsReachGuest
  BY QueueInOrder DEF ButtonsReachGuest
<1> QED
  BY <1>1, <1>2, QueueNext, GuestNext, ReleasedNext, PTL DEF Spec

-----------------------------------------------------------------------------
(* The window. *)

(***************************************************************************)
(* What is captured, what the GPU holds, what is shown.                    *)
(***************************************************************************)
RasterFields == {"enabled", "height", "epoch", "identity", "working", "published", "references"}
GpuFields == {"state", "epoch", "rows", "source", "output", "scale"}
FrontFields == {"texture", "texture_height", "gpu", "content", "generation", "epoch", "redraw",
                "scale"}

\* Rows that are captured, and rows and frames with those that are not.
Captured == [identity : Nat \ {0}, colour : Colours]
Rows == Captured \cup {NoRow}
FrameSet == [generation : Nat \ {0}, height : Lines, epoch : Nat, rows : Seq(Captured)]

FrameUpTo(f, top) ==
    f # NoFrame => /\ f \in FrameSet /\ Len(f.rows) = f.height
                   /\ \A y \in 1 .. f.height : f.rows[y].identity <= top

\* A capture: no identity is given twice, and one that is off holds nothing.
RasterShape(r) ==
    /\ DOMAIN r = RasterFields /\ r.enabled \in BOOLEAN
    /\ r.height \in Nat /\ r.epoch \in Nat /\ r.identity \in Nat
    /\ r.working \in [Lines -> Rows]
    /\ \A y \in Lines : r.working[y].identity <= r.identity
    /\ \A y, z \in Lines : y # z /\ r.working[y].identity = r.working[z].identity
                              => r.working[y] = NoRow
    /\ FrameUpTo(r.published, r.identity)
    /\ ~r.enabled => r.published = NoFrame /\ \A y \in Lines : r.working[y] = NoRow

FieldShape(f) ==
    /\ f \in [drawing : [Lines -> Colours], published : [Lines -> Colours], height : Lines,
              published_height : Lines, generation : Nat, content : Nat]
    /\ f.generation # 0 => f.content # 0

\* What is captured is what is drawn, and what is published.
CaptureMatches(r, f) ==
    /\ \A y \in Lines : r.working[y] # NoRow => r.working[y].colour = f.drawing[y]
    /\ r.published # NoFrame =>
          /\ r.published.generation = f.generation
          /\ r.published.height = f.published_height
          /\ \A y \in 1 .. r.published.height : r.published.rows[y].colour = f.published[y]

\* An identity stands for one colour, also in the GPU's memory.
RowsOf(r) == {r.working[y] : y \in Lines} \cup {r.published.rows[y] : y \in DOMAIN r.published.rows}

OneColour(r) == \A a, b \in RowsOf(r) : a.identity = b.identity => a.colour = b.colour

GpuShape(g) ==
    /\ DOMAIN g = GpuFields /\ g.rows \in [Lines -> Nat]
    /\ g.source \in [Lines -> Colours \cup {0}]

GpuKnows(r, g) ==
    \A y \in Lines : g.rows[y] # 0 =>
        /\ g.rows[y] <= r.identity
        /\ \A a \in RowsOf(r) : a.identity = g.rows[y] => a.colour = g.source[y]

Picture(f) == Visible(f.published, f.published_height)

FrontShape(p) ==
    /\ DOMAIN p = FrontFields /\ p.gpu \in BOOLEAN /\ p.redraw \in BOOLEAN
    /\ p.content \in Nat /\ p.generation \in Nat /\ p.epoch \in Nat

\* What the front end may go on showing: the output or the texture of this content.
Keeps(p, f, r, g) ==
    /\ p.content <= f.content /\ p.epoch <= r.epoch
    /\ p.content # 0 /\ p.content = f.content =>
          /\ p.texture_height = f.published_height
          /\ p.gpu => g.output = Picture(f)
          /\ p.epoch = r.epoch /\ r.published = NoFrame => p.texture = Picture(f)
    /\ p.epoch = r.epoch /\ p.gpu =>
          /\ r.published # NoFrame
          /\ ~p.redraw => g.scale = p.scale

ShownInv ==
    /\ RasterShape(raster) /\ FieldShape(field) /\ GpuShape(gpu) /\ FrontShape(front)
    /\ CaptureMatches(raster, field)
    /\ OneColour(raster) /\ GpuKnows(raster, gpu)
    /\ Keeps(front, field, raster, gpu)
    /\ front.generation <= field.generation
    /\ front.generation = field.generation /\ field.generation # 0 => screen = Picture(field)

LEMMA PresenterConstants == MaxRows \in Nat \ {0} /\ Colours # {} /\ Lines = 1 .. MaxRows
BY PresenterAssumption DEF Lines

LEMMA VisibleIs ==
    ASSUME NEW S, NEW s \in [Lines -> S], NEW h \in Lines
    PROVE  Visible(s, h) = [y \in 1 .. h |-> s[y]]
<1>1. s \in Seq(S) /\ Len(s) = MaxRows /\ h \in Nat /\ h <= MaxRows
  BY PresenterConstants
<1>2. SubSeq(s, 1, h) = [y \in 1 .. h |-> s[y]]
  BY <1>1
<1> QED BY <1>2 DEF Visible

LEMMA RowKinds ==
    /\ NoRow.identity = 0 /\ NoRow \notin Captured
    /\ \A row \in Rows : /\ row.identity \in Nat
                         /\ row # NoRow => row \in Captured /\ row.identity # 0 /\ row.colour \in Colours
                         /\ row.identity = 0 => row = NoRow
BY DEF NoRow, Rows, Captured

LEMMA NoFrameIs == NoFrame.generation = 0 /\ NoFrame.rows = << >> /\ NoFrame.height = 0
BY DEF NoFrame

-----------------------------------------------------------------------------
(* The capture. *)

\* What a release or a count changes is only the counts.
SameCapture(q, r) ==
    /\ DOMAIN q = RasterFields /\ q.enabled = r.enabled /\ q.height = r.height
    /\ q.epoch = r.epoch /\ q.identity = r.identity /\ q.working = r.working
    /\ q.published = r.published

LEMMA ReleaseRowSame ==
    ASSUME NEW r, RasterShape(r), NEW row
    PROVE  SameCapture(release_row(r, row), r)
BY DEF release_row, SameCapture, RasterShape, RasterFields

LEMMA ReleaseSame ==
    ASSUME NEW r, DOMAIN r = RasterFields, NEW f
    PROVE  SameCapture(raster_release(r, f), r)
<1>1. raster_release(r, f) = r \/ \E b : raster_release(r, f) = [r EXCEPT !.references = b]
  BY DEF raster_release
<1> QED BY <1>1 DEF SameCapture, RasterFields

LEMMA ResetIs ==
    ASSUME NEW r, RasterShape(r)
    PROVE  LET q == raster_reset(r)
           IN  /\ DOMAIN q = RasterFields /\ q.enabled = r.enabled /\ q.height = 0
               /\ q.epoch = r.epoch + 1 /\ q.identity = r.identity
               /\ q.working = [y \in Lines |-> NoRow] /\ q.published = NoFrame
<1>1. PICK p : p = raster_release(r, r.published)
  OBVIOUS
<1>2. SameCapture(p, r)
  BY <1>1, ReleaseSame DEF RasterShape
<1>3. PICK b : b = p.references (-) SetToBag(Identities(r.working))
  OBVIOUS
<1>4. PICK w : w = [y \in Lines |-> NoRow]
  OBVIOUS
<1>5. raster_reset(r) = [p EXCEPT !.references = b, !.published = NoFrame, !.working = w,
                                 !.height = 0, !.epoch = @ + 1]
  BY <1>1, <1>3, <1>4 DEF raster_reset
<1> QED BY <1>2, <1>4, <1>5 DEF SameCapture, RasterFields

\* What a step may do to the capture besides the counts.
Emptied(q, r) ==
    /\ DOMAIN q = RasterFields /\ q.enabled \in BOOLEAN /\ q.height \in Nat
    /\ q.epoch = r.epoch + 1 /\ q.identity = r.identity
    /\ q.working = [y \in Lines |-> NoRow] /\ q.published = NoFrame

LEMMA EmptiedShape ==
    ASSUME NEW r, RasterShape(r), NEW q, Emptied(q, r)
    PROVE  RasterShape(q)
<1>1. q.working \in [Lines -> Rows] /\ \A y \in Lines : q.working[y] = NoRow
  BY DEF Emptied, Rows
<1>2. \A y \in Lines : q.working[y].identity <= q.identity
  BY <1>1, RowKinds DEF Emptied, RasterShape
<1>3. FrameUpTo(q.published, q.identity)
  BY DEF Emptied, FrameUpTo
<1>4. q.epoch \in Nat /\ q.identity \in Nat
  BY DEF Emptied, RasterShape
<1> QED BY <1>1, <1>2, <1>3, <1>4 DEF Emptied, RasterShape

LEMMA CaptureOff ==
    ASSUME NEW r, RasterShape(r)
    PROVE  LET q == raster_capture(r, FALSE)
           IN  (q = r /\ ~r.enabled) \/ (Emptied(q, r) /\ ~q.enabled)
<1>1. CASE r.enabled = FALSE
  BY <1>1 DEF raster_capture
<1>2. CASE r.enabled = TRUE
  <2>1. PICK p : p = raster_reset(r)
    OBVIOUS
  <2>2. raster_capture(r, FALSE) = [p EXCEPT !.enabled = FALSE]
    BY <1>2, <2>1 DEF raster_capture
  <2>3. PICK q : q = raster_capture(r, FALSE)
    OBVIOUS
  <2>4. /\ DOMAIN q = RasterFields /\ q.enabled = FALSE /\ q.height = 0
        /\ q.epoch = r.epoch + 1 /\ q.identity = r.identity
        /\ q.working = [y \in Lines |-> NoRow] /\ q.published = NoFrame
    BY <2>1, <2>2, <2>3, ResetIs DEF RasterFields
  <2> QED BY <2>3, <2>4, 0 \in Nat, Zenon DEF Emptied
<1> QED BY <1>1, <1>2 DEF RasterShape

LEMMA BeginIs ==
    ASSUME NEW r, RasterShape(r), NEW h \in Lines
    PROVE  LET q == raster_begin(r, h)
           IN  /\ q = r \/ Emptied(q, r)
               /\ q.enabled = r.enabled /\ (q.enabled => q.height = h)
               /\ RasterShape(q)
<1>1. CASE ~(r.enabled /\ r.height # h)
  <2>1. raster_begin(r, h) = r
    BY <1>1 DEF raster_begin
  <2> QED BY <1>1, <2>1
<1>2. CASE r.enabled /\ r.height # h
  <2>1. PICK p : p = raster_reset(r)
    OBVIOUS
  <2>2. PICK q : q = raster_begin(r, h)
    OBVIOUS
  <2>3. q = [p EXCEPT !.height = h]
    BY <1>2, <2>1, <2>2 DEF raster_begin
  <2>4. /\ DOMAIN q = RasterFields /\ q.enabled = r.enabled /\ q.height = h
        /\ q.epoch = r.epoch + 1 /\ q.identity = r.identity
        /\ q.working = [y \in Lines |-> NoRow] /\ q.published = NoFrame
    BY <2>1, <2>3, ResetIs DEF RasterFields
  <2>5. Emptied(q, r)
    BY <2>4, PresenterConstants DEF Emptied, RasterShape
  <2> QED BY <2>2, <2>4, <2>5, EmptiedShape
<1> QED BY <1>1, <1>2

-----------------------------------------------------------------------------
(* New rows. *)

\* The rows of q that r had not have fresh identities, one colour each.
Grown(q, r) ==
    /\ q.identity \in Nat /\ r.identity <= q.identity
    /\ \E N : /\ RowsOf(q) \subseteq RowsOf(r) \cup N
              /\ N \subseteq Captured
              /\ \A a \in N : r.identity < a.identity /\ a.identity <= q.identity
              /\ \A a, b \in N : a.identity = b.identity => a = b

LEMMA RowsTyped ==
    ASSUME NEW r, RasterShape(r)
    PROVE  /\ RowsOf(r) \subseteq Rows /\ r.identity \in Nat
           /\ \A a \in RowsOf(r) : a.identity \in Nat /\ a.identity <= r.identity
<1>1. \A y \in Lines : r.working[y] \in Rows /\ r.working[y].identity <= r.identity
  BY DEF RasterShape
<1>2. \A y \in DOMAIN r.published.rows :
         r.published.rows[y] \in Rows /\ r.published.rows[y].identity <= r.identity
  <2>1. CASE r.published = NoFrame
    <3>1. DOMAIN r.published.rows = {}
      BY <2>1, NoFrameIs
    <3> QED BY <3>1
  <2>2. CASE r.published # NoFrame
    <3>1. /\ r.published.rows \in Seq(Captured) /\ Len(r.published.rows) = r.published.height
          /\ \A y \in 1 .. r.published.height : r.published.rows[y].identity <= r.identity
      BY <2>2 DEF RasterShape, FrameUpTo, FrameSet
    <3>2. DOMAIN r.published.rows = 1 .. r.published.height
      BY <3>1
    <3> QED BY <3>1, <3>2 DEF Rows
  <2> QED BY <2>1, <2>2
<1>3. RowsOf(r) \subseteq Rows /\ \A a \in RowsOf(r) : a.identity <= r.identity
  BY <1>1, <1>2 DEF RowsOf
<1>4. r.identity \in Nat
  BY DEF RasterShape
<1> QED BY <1>3, <1>4, RowKinds

LEMMA GrownColours ==
    ASSUME NEW r, RasterShape(r), OneColour(r), NEW q, Grown(q, r)
    PROVE  OneColour(q)
<1>1. PICK N : /\ RowsOf(q) \subseteq RowsOf(r) \cup N
               /\ N \subseteq Captured
               /\ \A a \in N : r.identity < a.identity /\ a.identity <= q.identity
               /\ \A a, b \in N : a.identity = b.identity => a = b
  BY DEF Grown
<1>2. r.identity \in Nat /\ \A a \in RowsOf(r) : a.identity \in Nat /\ a.identity <= r.identity
  BY RowsTyped
<1>3. \A a \in N : a.identity \in Nat
  BY <1>1 DEF Captured
<1> SUFFICES ASSUME NEW a \in RowsOf(q), NEW b \in RowsOf(q), a.identity = b.identity
             PROVE  a.colour = b.colour
  BY DEF OneColour
<1>4. CASE a \in RowsOf(r) /\ b \in RowsOf(r)
  BY <1>4 DEF OneColour
<1>5. CASE a \in N /\ b \in N
  BY <1>1, <1>5
<1>6. CASE a \in RowsOf(r) /\ b \in N
  BY <1>1, <1>2, <1>3, <1>6
<1>7. CASE a \in N /\ b \in RowsOf(r)
  BY <1>1, <1>2, <1>3, <1>7
<1> QED BY <1>1, <1>4, <1>5, <1>6, <1>7

LEMMA GrownGpu ==
    ASSUME NEW r, RasterShape(r), NEW q, Grown(q, r), NEW g, GpuShape(g), GpuKnows(r, g)
    PROVE  GpuKnows(q, g)
<1>1. PICK N : /\ RowsOf(q) \subseteq RowsOf(r) \cup N
               /\ N \subseteq Captured
               /\ \A a \in N : r.identity < a.identity /\ a.identity <= q.identity
  BY DEF Grown
<1>2. r.identity \in Nat /\ q.identity \in Nat /\ r.identity <= q.identity
  BY DEF Grown, RasterShape
<1>3. \A a \in N : a.identity \in Nat
  BY <1>1 DEF Captured
<1> SUFFICES ASSUME NEW y \in Lines, g.rows[y] # 0
             PROVE  /\ g.rows[y] <= q.identity
                    /\ \A a \in RowsOf(q) : a.identity = g.rows[y] => a.colour = g.source[y]
  BY DEF GpuKnows
<1>4. PICK n \in Nat : n = g.rows[y]
  BY DEF GpuShape
<1>5. n <= r.identity
  BY <1>4 DEF GpuKnows
<1>6. ASSUME NEW a \in RowsOf(q), a.identity = n
      PROVE  a.colour = g.source[y]
  <2>1. a \notin N
    BY <1>1, <1>2, <1>3, <1>5, <1>6
  <2>2. a \in RowsOf(r)
    BY <1>1, <2>1
  <2> QED BY <1>4, <1>6, <2>2 DEF GpuKnows
<1>7. n <= q.identity
  BY <1>2, <1>5
<1> QED BY <1>4, <1>6, <1>7

LEMMA EmptiedGrown ==
    ASSUME NEW r, RasterShape(r), OneColour(r), NEW q, Emptied(q, r)
    PROVE  OneColour(q) /\ \A g : GpuShape(g) /\ GpuKnows(r, g) => GpuKnows(q, g)
<1>1. RowsOf(q) = {NoRow}
  <2>1. q.published.rows = << >> /\ DOMAIN q.published.rows = {}
    BY NoFrameIs DEF Emptied
  <2>2. {q.working[y] : y \in Lines} = {NoRow}
    <3>1. 1 \in Lines
      BY PresenterConstants
    <3> QED BY <3>1 DEF Emptied
  <2> QED BY <2>1, <2>2 DEF RowsOf
<1>2. q.identity = r.identity
  BY DEF Emptied
<1> QED BY <1>1, <1>2, RowKinds DEF OneColour, GpuKnows

LEMMA SameGrown ==
    ASSUME NEW r, RasterShape(r), NEW q, SameCapture(q, r)
    PROVE  Grown(q, r)
<1>1. RowsOf(q) = RowsOf(r)
  BY DEF RowsOf, SameCapture
<1>2. RowsOf(q) \subseteq RowsOf(r) \cup {}
  BY <1>1
<1>3. q.identity \in Nat /\ r.identity <= q.identity
  BY DEF SameCapture, RasterShape
<1>4. \E N : /\ RowsOf(q) \subseteq RowsOf(r) \cup N
             /\ N \subseteq Captured
             /\ \A a \in N : r.identity < a.identity /\ a.identity <= q.identity
             /\ \A a, b \in N : a.identity = b.identity => a = b
  <2>1. PICK E : E = {}
    OBVIOUS
  <2> WITNESS E
  <2> QED BY <1>2, <2>1
<1> QED BY <1>3, <1>4 DEF Grown

\* A row of its own for one line.
LEMMA ReplaceIs ==
    ASSUME NEW r, RasterShape(r), r.enabled, NEW y \in Lines, NEW c \in Colours
    PROVE  LET q == replace(r, y, c)
           IN  /\ RasterShape(q) /\ Grown(q, r) /\ q.height = r.height /\ q.epoch = r.epoch
               /\ q.enabled = r.enabled /\ q.published = r.published
               /\ q.working[y].colour = c
               /\ \A z \in Lines : z # y => q.working[z] = r.working[z]
<1>1. PICK p : p = release_row(r, r.working[y])
  OBVIOUS
<1>2. SameCapture(p, r)
  BY <1>1, ReleaseRowSame
<1>3. PICK row : row = [identity |-> r.identity + 1, colour |-> c]
  OBVIOUS
<1>4. row \in Captured /\ row.identity = r.identity + 1 /\ row.colour = c
  BY <1>3 DEF Captured, RasterShape
<1>5. PICK q : q = replace(r, y, c)
  OBVIOUS
<1>6. PICK b : q = [p EXCEPT !.identity = @ + 1, !.references = b, !.working[y] = row]
  BY <1>1, <1>3, <1>5 DEF replace
<1>7. /\ DOMAIN q = RasterFields /\ q.enabled = r.enabled /\ q.height = r.height
      /\ q.epoch = r.epoch /\ q.identity = r.identity + 1 /\ q.published = r.published
      /\ q.working = [r.working EXCEPT ![y] = row]
  BY <1>2, <1>6 DEF SameCapture, RasterFields
<1>8. /\ q.working \in [Lines -> Rows] /\ q.working[y] = row
      /\ \A z \in Lines : z # y => q.working[z] = r.working[z]
  BY <1>4, <1>7 DEF RasterShape, Rows
<1>9. r.identity \in Nat /\ \A z \in Lines : r.working[z].identity \in Nat /\ r.working[z].identity <= r.identity
  BY RowKinds DEF RasterShape
<1>10. \A z \in Lines : q.working[z].identity <= q.identity
  <2> SUFFICES ASSUME NEW z \in Lines PROVE q.working[z].identity <= q.identity
    OBVIOUS
  <2>1. CASE z = y
    BY <1>4, <1>7, <1>8, <1>9, <2>1
  <2>2. CASE z # y
    BY <1>7, <1>8, <1>9, <2>2
  <2> QED BY <2>1, <2>2
<1>11. \A u, z \in Lines : u # z /\ q.working[u].identity = q.working[z].identity
                             => q.working[u] = NoRow
  <2> SUFFICES ASSUME NEW u \in Lines, NEW z \in Lines, u # z,
                      q.working[u].identity = q.working[z].identity
               PROVE  q.working[u] = NoRow
    OBVIOUS
  <2>1. CASE u = y
    BY <1>4, <1>8, <1>9, <2>1
  <2>2. CASE z = y
    BY <1>4, <1>8, <1>9, <2>2
  <2>3. CASE u # y /\ z # y
    BY <1>8, <2>3 DEF RasterShape
  <2> QED BY <2>1, <2>2, <2>3
<1>12. FrameUpTo(q.published, q.identity)
  <2> SUFFICES ASSUME r.published # NoFrame
               PROVE  /\ r.published \in FrameSet /\ Len(r.published.rows) = r.published.height
                      /\ \A k \in 1 .. r.published.height : r.published.rows[k].identity <= r.identity + 1
    BY <1>7 DEF FrameUpTo
  <2>1. /\ r.published \in FrameSet /\ Len(r.published.rows) = r.published.height
        /\ \A k \in 1 .. r.published.height : r.published.rows[k].identity <= r.identity
    BY DEF RasterShape, FrameUpTo
  <2>2. \A k \in 1 .. r.published.height : r.published.rows[k] \in Captured
    BY <2>1 DEF FrameSet
  <2>3. \A k \in 1 .. r.published.height : r.published.rows[k].identity \in Nat
    BY <2>2 DEF Captured
  <2> QED BY <1>9, <2>1, <2>3
<1>13. RasterShape(q)
  BY <1>7, <1>8, <1>9, <1>10, <1>11, <1>12 DEF RasterShape
<1>14. RowsOf(q) \subseteq RowsOf(r) \cup {row}
  <2>1. \A z \in Lines : q.working[z] \in {r.working[u] : u \in Lines} \cup {row}
    BY <1>8
  <2> QED BY <1>7, <2>1 DEF RowsOf
<1>15. Grown(q, r)
  <2>1. q.identity \in Nat /\ r.identity <= q.identity
    BY <1>7, <1>9
  <2>2. r.identity < row.identity /\ row.identity <= q.identity
    BY <1>4, <1>7, <1>9
  <2>3. \E N : /\ RowsOf(q) \subseteq RowsOf(r) \cup N
               /\ N \subseteq Captured
               /\ \A a \in N : r.identity < a.identity /\ a.identity <= q.identity
               /\ \A a, d \in N : a.identity = d.identity => a = d
    <3> WITNESS {row}
    <3> QED BY <1>4, <1>14, <2>2
  <2> QED BY <2>1, <2>3 DEF Grown
<1> QED BY <1>4, <1>5, <1>7, <1>8, <1>13, <1>15

-----------------------------------------------------------------------------
(* A row of its own for every line that has none. *)

Missing(r, h) == {y \in 1 .. h : r.working[y] = NoRow}
Below(M, y) == {z \in M : z <= y}

LEMMA Ranks ==
    ASSUME NEW h \in Lines, NEW M \in SUBSET (1 .. h)
    PROVE  /\ Cardinality(M) \in Nat
           /\ \A y \in M : Cardinality(Below(M, y)) \in 1 .. Cardinality(M)
           /\ \A y, z \in M : y # z => Cardinality(Below(M, y)) # Cardinality(Below(M, z))
<1>1. h \in Int /\ IsFiniteSet(1 .. h)
  BY PresenterConstants, FS_Interval
<1>2. IsFiniteSet(M)
  BY <1>1, FS_Subset
<1>3. \A y \in M : Below(M, y) \in SUBSET M
  BY DEF Below
<1>4. \A y \in M : IsFiniteSet(Below(M, y)) /\ Cardinality(Below(M, y)) <= Cardinality(M)
  BY <1>2, <1>3, FS_Subset
<1>5. Cardinality(M) \in Nat /\ \A y \in M : Cardinality(Below(M, y)) \in Nat
  BY <1>2, <1>4, FS_CardinalityType
<1>6. \A y \in M : Cardinality(Below(M, y)) # 0
  <2>1. \A y \in M : y \in Below(M, y)
    BY <1>1 DEF Below
  <2> QED BY <1>4, <2>1, FS_EmptySet
<1>7. ASSUME NEW y \in M, NEW z \in M, y < z
      PROVE  Cardinality(Below(M, y)) < Cardinality(Below(M, z))
  <2>0. y \in Int /\ z \in Int /\ \A u \in M : u \in Int
    BY <1>1
  <2>a. z \notin Below(M, y)
    BY <1>7, <2>0 DEF Below
  <2>b. \A u \in Below(M, y) : u \in Below(M, z)
    BY <1>7, <2>0 DEF Below
  <2>c. z \in Below(M, z)
    BY <2>0 DEF Below
  <2>1. z \notin Below(M, y) /\ Below(M, y) \cup {z} \in SUBSET Below(M, z)
    BY <2>a, <2>b, <2>c
  <2>2. /\ IsFiniteSet(Below(M, y) \cup {z})
        /\ Cardinality(Below(M, y) \cup {z}) = Cardinality(Below(M, y)) + 1
    BY <1>4, <2>1, FS_AddElement
  <2>3. Cardinality(Below(M, y) \cup {z}) <= Cardinality(Below(M, z))
    BY <1>4, <2>1, FS_Subset
  <2> QED BY <1>5, <2>2, <2>3
<1>8. \A y, z \in M : y # z => y < z \/ z < y
  BY <1>1
<1>9. \A y, z \in M : y # z => Cardinality(Below(M, y)) # Cardinality(Below(M, z))
  <2> SUFFICES ASSUME NEW y \in M, NEW z \in M, y # z
               PROVE  Cardinality(Below(M, y)) # Cardinality(Below(M, z))
    OBVIOUS
  <2>1. CASE y < z
    BY <1>5, <1>7, <2>1
  <2>2. CASE z < y
    BY <1>5, <1>7, <2>2
  <2> QED BY <1>8, <2>1, <2>2
<1>10. \A y \in M : Cardinality(Below(M, y)) \in 1 .. Cardinality(M)
  BY <1>4, <1>5, <1>6
<1> QED BY <1>5, <1>9, <1>10

IsFilled(q, r, native, h) ==
    /\ RasterShape(q) /\ Grown(q, r) /\ q.height = r.height /\ q.epoch = r.epoch
    /\ q.enabled = r.enabled /\ q.published = r.published
    /\ \A y \in 1 .. h : /\ q.working[y] \in Captured
                         /\ r.working[y] = NoRow => q.working[y].colour = native[y]
    /\ \A y \in Lines : (y \in 1 .. h => r.working[y] # NoRow) => q.working[y] = r.working[y]

LEMMA FillIs ==
    ASSUME NEW r, RasterShape(r), r.enabled, NEW native \in [Lines -> Colours], NEW h \in Lines,
           NEW q, q = Fill(r, native, h)
    PROVE  IsFilled(q, r, native, h)
<1> DEFINE M == Missing(r, h)
           Rank(y) == r.identity + Cardinality(Below(M, y))
           N == {[identity |-> Rank(y), colour |-> native[y]] : y \in M}
<1>1. h \in Nat /\ 1 .. h \subseteq Lines /\ M \in SUBSET (1 .. h)
  BY PresenterConstants DEF Missing
<1>2. /\ Cardinality(M) \in Nat /\ r.identity \in Nat
      /\ \A y \in M : Cardinality(Below(M, y)) \in 1 .. Cardinality(M)
      /\ \A y, z \in M : y # z => Cardinality(Below(M, y)) # Cardinality(Below(M, z))
  BY <1>1, Ranks DEF RasterShape
<1>3. /\ \A y \in M : Rank(y) \in r.identity + 1 .. r.identity + Cardinality(M)
      /\ \A y, z \in M : Rank(y) = Rank(z) => y = z
  BY <1>2
<1>18. \A y \in M : /\ Rank(y) \in Nat /\ r.identity < Rank(y)
                    /\ Rank(y) <= r.identity + Cardinality(M)
  BY <1>2
<1>4. PICK w : w = [y \in Lines |-> IF y \in M THEN [identity |-> Rank(y), colour |-> native[y]]
                                    ELSE r.working[y]]
  OBVIOUS
<1>6. PICK b : q = [r EXCEPT !.working = w, !.references = b, !.identity = @ + Cardinality(M)]
  BY <1>4 DEF Fill, Missing, Below
<1> HIDE DEF M, Rank
<1>7. /\ DOMAIN q = RasterFields /\ q.enabled = r.enabled /\ q.height = r.height
      /\ q.epoch = r.epoch /\ q.identity = r.identity + Cardinality(M)
      /\ q.published = r.published /\ q.working = w
  BY <1>6 DEF RasterShape, RasterFields
<1>8. \A y \in M : [identity |-> Rank(y), colour |-> native[y]] \in Captured
  <2> SUFFICES ASSUME NEW y \in M PROVE [identity |-> Rank(y), colour |-> native[y]] \in Captured
    OBVIOUS
  <2>1. Rank(y) \in Nat \ {0} /\ native[y] \in Colours
    BY <1>1, <1>2, <1>3
  <2> QED BY <2>1 DEF Captured
<1>9. /\ \A y \in M : w[y] \in Captured /\ w[y].identity = Rank(y) /\ w[y].colour = native[y]
                      /\ w[y] = [identity |-> Rank(y), colour |-> native[y]]
      /\ \A y \in Lines \ M : w[y] = r.working[y]
      /\ w \in [Lines -> Rows]
  BY <1>1, <1>4, <1>8 DEF Rows, RasterShape
<1>10. \A z \in Lines : r.working[z].identity \in Nat /\ r.working[z].identity <= r.identity
  BY RowKinds DEF RasterShape
<1>11. \A z \in Lines : w[z].identity <= q.identity
  <2> SUFFICES ASSUME NEW z \in Lines PROVE w[z].identity <= r.identity + Cardinality(M)
    BY <1>7
  <2>1. CASE z \in M
    BY <1>9, <1>18, <2>1
  <2>2. CASE z \notin M
    BY <1>2, <1>9, <1>10, <2>2
  <2> QED BY <2>1, <2>2
<1>12. \A u, z \in Lines : u # z /\ w[u].identity = w[z].identity => w[u] = NoRow
  <2> SUFFICES ASSUME NEW u \in Lines, NEW z \in Lines, u # z, w[u].identity = w[z].identity
               PROVE  w[u] = NoRow
    OBVIOUS
  <2>1. CASE u \in M /\ z \in M
    BY <1>3, <1>9, <2>1, ZenonT(60)
  <2>2. CASE u \in M /\ z \notin M
    <3>1. r.identity < w[u].identity /\ w[u].identity \in Nat
      BY <1>9, <1>18, <2>2
    <3>2. w[z].identity <= r.identity /\ w[z].identity \in Nat
      BY <1>9, <1>10, <2>2
    <3> QED BY <1>2, <3>1, <3>2
  <2>3. CASE u \notin M /\ z \in M
    <3>1. r.identity < w[z].identity /\ w[z].identity \in Nat
      BY <1>9, <1>18, <2>3
    <3>2. w[u].identity <= r.identity /\ w[u].identity \in Nat
      BY <1>9, <1>10, <2>3
    <3> QED BY <1>2, <3>1, <3>2
  <2>4. CASE u \notin M /\ z \notin M
    BY <1>9, <2>4 DEF RasterShape
  <2> QED BY <2>1, <2>2, <2>3, <2>4
<1>13. FrameUpTo(q.published, q.identity)
  <2> SUFFICES ASSUME r.published # NoFrame
               PROVE  /\ r.published \in FrameSet /\ Len(r.published.rows) = r.published.height
                      /\ \A k \in 1 .. r.published.height :
                            r.published.rows[k].identity <= r.identity + Cardinality(M)
    BY <1>7 DEF FrameUpTo
  <2>1. /\ r.published \in FrameSet /\ Len(r.published.rows) = r.published.height
        /\ \A k \in 1 .. r.published.height : r.published.rows[k].identity <= r.identity
    BY DEF RasterShape, FrameUpTo
  <2>2. \A k \in 1 .. r.published.height : r.published.rows[k] \in Captured
    BY <2>1 DEF FrameSet
  <2>3. \A k \in 1 .. r.published.height : r.published.rows[k].identity \in Nat
    BY <2>2 DEF Captured
  <2> QED BY <1>2, <2>1, <2>3
<1>14. RasterShape(q)
  <2>1. q.height \in Nat /\ q.epoch \in Nat /\ q.identity \in Nat /\ q.enabled \in BOOLEAN
    BY <1>2, <1>7 DEF RasterShape
  <2> QED BY <1>7, <1>9, <1>11, <1>12, <1>13, <2>1 DEF RasterShape
<1>15. Grown(q, r)
  <2>1. \A z \in Lines : w[z] \in {r.working[u] : u \in Lines} \cup N
    BY <1>9, ZenonT(60)
  <2>2. RowsOf(q) \subseteq RowsOf(r) \cup N
    BY <1>7, <2>1 DEF RowsOf
  <2>3. q.identity \in Nat /\ r.identity <= q.identity
    BY <1>2, <1>7
  <2>4. N \subseteq Captured
    BY <1>8
  <2>5. \A a \in N : r.identity < a.identity /\ a.identity <= q.identity
    <3> SUFFICES ASSUME NEW y \in M
                 PROVE  r.identity < Rank(y) /\ Rank(y) <= q.identity
      OBVIOUS
    <3> QED BY <1>2, <1>3, <1>7
  <2>6. \A a, b1 \in N : a.identity = b1.identity => a = b1
    BY <1>3
  <2>7. \E K : /\ RowsOf(q) \subseteq RowsOf(r) \cup K
               /\ K \subseteq Captured
               /\ \A a \in K : r.identity < a.identity /\ a.identity <= q.identity
               /\ \A a, b1 \in K : a.identity = b1.identity => a = b1
    <3> HIDE DEF N
    <3> WITNESS N
    <3> QED BY <2>2, <2>4, <2>5, <2>6
  <2> QED BY <2>3, <2>7 DEF Grown
<1>16. \A y \in 1 .. h : w[y] \in Captured /\ (r.working[y] = NoRow => w[y].colour = native[y])
  <2> SUFFICES ASSUME NEW y \in 1 .. h
               PROVE  w[y] \in Captured /\ (r.working[y] = NoRow => w[y].colour = native[y])
    OBVIOUS
  <2>1. CASE r.working[y] = NoRow
    <3>1. y \in M
      BY <2>1 DEF M, Missing
    <3> QED BY <1>9, <3>1
  <2>2. CASE r.working[y] # NoRow
    <3>1. y \notin M /\ y \in Lines
      BY <1>1, <2>2 DEF M, Missing
    <3>2. r.working[y] \in Captured
      BY <2>2, <3>1, RowKinds DEF RasterShape
    <3> QED BY <1>9, <2>2, <3>1, <3>2
  <2> QED BY <2>1, <2>2
<1>17. \A y \in Lines : (y \in 1 .. h => r.working[y] # NoRow) => w[y] = r.working[y]
  <2>1. \A y \in M : y \in 1 .. h /\ r.working[y] = NoRow
    BY DEF M, Missing
  <2> QED BY <1>9, <2>1
<1> QED BY <1>7, <1>14, <1>15, <1>16, <1>17 DEF IsFilled

-----------------------------------------------------------------------------
(* What a step may do to the capture. *)

Moves(q, r) ==
    /\ RasterShape(q) /\ OneColour(q) /\ r.epoch <= q.epoch /\ r.identity <= q.identity
    /\ \A g : GpuShape(g) /\ GpuKnows(r, g) => GpuKnows(q, g)

Stays(q, r) ==
    /\ q.epoch = r.epoch => q.published = r.published
    /\ q.published \in {r.published, NoFrame}

LEMMA GrownMoves ==
    ASSUME NEW r, RasterShape(r), OneColour(r), NEW q, RasterShape(q), Grown(q, r),
           q.epoch = r.epoch
    PROVE  Moves(q, r)
<1>1. r.epoch <= q.epoch /\ r.identity <= q.identity
  BY DEF RasterShape, Grown
<1> QED BY <1>1, GrownColours, GrownGpu DEF Moves

LEMMA EmptiedMoves ==
    ASSUME NEW r, RasterShape(r), OneColour(r), NEW q, Emptied(q, r)
    PROVE  Moves(q, r) /\ Stays(q, r)
<1>1. r.epoch \in Nat /\ q.epoch = r.epoch + 1 /\ q.published = NoFrame
  BY DEF RasterShape, Emptied
<1>2. r.epoch <= q.epoch /\ q.epoch # r.epoch /\ r.identity <= q.identity
  BY <1>1 DEF RasterShape, Emptied
<1>3. RasterShape(q) /\ OneColour(q) /\ \A g : GpuShape(g) /\ GpuKnows(r, g) => GpuKnows(q, g)
  BY EmptiedShape, EmptiedGrown
<1> QED BY <1>1, <1>2, <1>3 DEF Moves, Stays

LEMMA RestMoves ==
    ASSUME NEW r, RasterShape(r), OneColour(r)
    PROVE  Moves(r, r) /\ Stays(r, r)
<1>1. r.epoch <= r.epoch /\ r.identity <= r.identity
  BY DEF RasterShape
<1> QED BY <1>1 DEF Moves, Stays

LEMMA MovesMoves ==
    ASSUME NEW r, RasterShape(r), NEW p, NEW q, Moves(p, r), Moves(q, p)
    PROVE  Moves(q, r)
<1>1. r.epoch \in Nat /\ p.epoch \in Nat /\ q.epoch \in Nat /\ r.epoch <= p.epoch /\ p.epoch <= q.epoch
  BY DEF Moves, RasterShape
<1>2. r.identity \in Nat /\ p.identity \in Nat /\ q.identity \in Nat /\ r.identity <= p.identity
      /\ p.identity <= q.identity
  BY DEF Moves, RasterShape
<1>3. r.epoch <= q.epoch /\ r.identity <= q.identity
  BY <1>1, <1>2
<1> QED BY <1>3 DEF Moves

LEMMA StaysStays ==
    ASSUME NEW r, RasterShape(r), NEW p, NEW q, Moves(p, r), Stays(p, r), Moves(q, p), Stays(q, p)
    PROVE  Stays(q, r)
<1>1. r.epoch \in Nat /\ p.epoch \in Nat /\ q.epoch \in Nat /\ r.epoch <= p.epoch /\ p.epoch <= q.epoch
  BY DEF Moves, RasterShape
<1>2. q.epoch = r.epoch => p.epoch = r.epoch /\ q.epoch = p.epoch
  BY <1>1
<1> QED BY <1>2 DEF Stays

LEMMA BeginMoves ==
    ASSUME NEW r, RasterShape(r), OneColour(r), NEW h \in Lines, NEW q, q = raster_begin(r, h)
    PROVE  /\ Moves(q, r) /\ Stays(q, r) /\ q.enabled = r.enabled /\ (q.enabled => q.height = h)
           /\ \A z \in Lines : q.working[z] \in {r.working[z], NoRow}
<1>1. CASE q = r
  <2>1. q.enabled = r.enabled /\ (q.enabled => q.height = h)
    BY BeginIs
  <2>2. \A z \in Lines : q.working[z] \in {r.working[z], NoRow}
    BY <1>1
  <2>3. Moves(q, r) /\ Stays(q, r)
    BY <1>1, RestMoves
  <2> QED BY <2>1, <2>2, <2>3
<1>2. CASE Emptied(q, r)
  <2>1. \A z \in Lines : q.working[z] = NoRow
    BY <1>2 DEF Emptied
  <2> QED BY <1>2, <2>1, BeginIs, EmptiedMoves
<1> QED BY <1>1, <1>2, BeginIs

LEMMA OffMoves ==
    ASSUME NEW r, RasterShape(r), OneColour(r), NEW q, q = raster_capture(r, FALSE)
    PROVE  /\ Moves(q, r) /\ Stays(q, r) /\ ~q.enabled /\ q.published = NoFrame
           /\ \A z \in Lines : q.working[z] = NoRow
<1>1. CASE q = r /\ ~r.enabled
  BY <1>1, RestMoves DEF RasterShape
<1>2. CASE Emptied(q, r) /\ ~q.enabled
  <2>1. q.published = NoFrame /\ \A z \in Lines : q.working[z] = NoRow
    BY <1>2 DEF Emptied
  <2> QED BY <1>2, <2>1, EmptiedMoves
<1> QED BY <1>1, <1>2, CaptureOff

LEMMA FinishMoves ==
    ASSUME NEW r, RasterShape(r), OneColour(r), NEW y \in Lines, NEW c \in Colours,
           NEW refused \in BOOLEAN, r.enabled => y <= r.height,
           NEW q, q = raster_finish(r, y, c, refused)
    PROVE  /\ Moves(q, r) /\ Stays(q, r)
           /\ q.working[y] # NoRow => q.working[y].colour = c
           /\ \A z \in Lines : z # y => q.working[z] \in {r.working[z], NoRow}
<1>1. CASE ~r.enabled \/ y > r.height
  <2>1. q = r
    BY <1>1 DEF raster_finish
  <2>2. ~r.enabled
    BY <1>1, PresenterConstants DEF RasterShape
  <2>3. \A z \in Lines : q.working[z] = NoRow
    BY <2>1, <2>2 DEF RasterShape
  <2> QED BY <2>1, <2>3, RestMoves
<1>2. CASE ~(~r.enabled \/ y > r.height) /\ r.working[y] # NoRow /\ r.working[y].colour = c
  <2>1. q = r
    BY <1>2 DEF raster_finish
  <2> QED BY <1>2, <2>1, RestMoves
<1>3. CASE /\ ~(~r.enabled \/ y > r.height) /\ ~(r.working[y] # NoRow /\ r.working[y].colour = c)
           /\ refused
  <2>1. q = raster_capture(r, FALSE)
    BY <1>3 DEF raster_finish
  <2> QED BY <2>1, OffMoves
<1>4. CASE /\ ~(~r.enabled \/ y > r.height) /\ ~(r.working[y] # NoRow /\ r.working[y].colour = c)
           /\ ~refused
  <2>1. q = replace(r, y, c)
    BY <1>4 DEF raster_finish
  <2>2. /\ RasterShape(q) /\ Grown(q, r) /\ q.epoch = r.epoch /\ q.published = r.published
        /\ q.working[y].colour = c /\ \A z \in Lines : z # y => q.working[z] = r.working[z]
    BY <1>4, <2>1, ReplaceIs
  <2>3. Moves(q, r)
    BY <2>2, GrownMoves
  <2> QED BY <2>2, <2>3 DEF Stays
<1> QED BY <1>1, <1>2, <1>3, <1>4

LEMMA DrawMoves ==
    ASSUME NEW r, RasterShape(r), OneColour(r), NEW h \in Lines, NEW y \in Lines, y <= h,
           NEW c \in Colours, NEW refused \in BOOLEAN,
           NEW q, q = raster_finish(raster_begin(r, h), y, c, refused)
    PROVE  /\ Moves(q, r) /\ Stays(q, r)
           /\ q.working[y] # NoRow => q.working[y].colour = c
           /\ \A z \in Lines : z # y => q.working[z] \in {r.working[z], NoRow}
<1>1. PICK p : p = raster_begin(r, h)
  OBVIOUS
<1>2. /\ Moves(p, r) /\ Stays(p, r) /\ p.enabled = r.enabled /\ (p.enabled => p.height = h)
      /\ \A z \in Lines : p.working[z] \in {r.working[z], NoRow}
  BY <1>1, BeginMoves
<1>3. RasterShape(p) /\ OneColour(p) /\ (p.enabled => y <= p.height)
  BY <1>2 DEF Moves
<1>4. /\ Moves(q, p) /\ Stays(q, p)
      /\ q.working[y] # NoRow => q.working[y].colour = c
      /\ \A z \in Lines : z # y => q.working[z] \in {p.working[z], NoRow}
  BY <1>1, <1>3, FinishMoves
<1>5. Moves(q, r) /\ Stays(q, r)
  BY <1>2, <1>4, MovesMoves, StaysStays
<1> QED BY <1>2, <1>4, <1>5

LEMMA FewerRows ==
    ASSUME NEW p, OneColour(p), NEW q, RowsOf(q) \subseteq RowsOf(p), q.identity = p.identity
    PROVE  OneColour(q) /\ \A g : GpuShape(g) /\ GpuKnows(p, g) => GpuKnows(q, g)
BY DEF OneColour, GpuKnows

\* The frame that is published shows the rows of the field.
Publishes(q, native, h, gen) ==
    /\ q.published # NoFrame /\ q.published.generation = gen /\ q.published.height = h
    /\ \A y \in 1 .. h : q.published.rows[y].colour = native[y]

LEMMA PublishMoves ==
    ASSUME NEW r, RasterShape(r), OneColour(r), NEW native \in [Lines -> Colours],
           NEW h \in Lines, NEW gen \in Nat \ {0}, NEW refused \in BOOLEAN,
           \A y \in Lines : r.working[y] # NoRow => r.working[y].colour = native[y],
           NEW q, q = raster_publish(r, native, h, gen, refused)
    PROVE  /\ Moves(q, r)
           /\ (q.published = NoFrame /\ Stays(q, r)) \/ Publishes(q, native, h, gen)
           /\ \A y \in Lines : q.working[y] # NoRow => q.working[y].colour = native[y]
<1>1. CASE ~r.enabled
  <2>1. q = r /\ q.published = NoFrame
    BY <1>1 DEF raster_publish, RasterShape
  <2> QED BY <2>1, RestMoves
<1>2. PICK s : s = raster_begin(r, h)
  OBVIOUS
<1>3. /\ Moves(s, r) /\ Stays(s, r) /\ s.enabled = r.enabled /\ (s.enabled => s.height = h)
      /\ \A z \in Lines : s.working[z] \in {r.working[z], NoRow}
  BY <1>2, BeginMoves
<1>4. RasterShape(s) /\ OneColour(s)
  BY <1>3 DEF Moves
<1>5. CASE r.enabled /\ refused
  <2>1. q = raster_capture(s, FALSE)
    BY <1>2, <1>5 DEF raster_publish
  <2>2. /\ Moves(q, s) /\ Stays(q, s) /\ q.published = NoFrame
        /\ \A z \in Lines : q.working[z] = NoRow
    BY <1>4, <2>1, OffMoves
  <2>3. Moves(q, r) /\ Stays(q, r)
    BY <1>3, <2>2, MovesMoves, StaysStays
  <2> QED BY <2>2, <2>3
<1>6. CASE r.enabled /\ ~refused
  <2>1. PICK f : f = Fill(s, native, h)
    OBVIOUS
  <2>2. /\ RasterShape(f) /\ Grown(f, s) /\ f.height = s.height /\ f.epoch = s.epoch
        /\ f.enabled = s.enabled /\ f.published = s.published
        /\ \A y \in 1 .. h : /\ f.working[y] \in Captured
                             /\ s.working[y] = NoRow => f.working[y].colour = native[y]
        /\ \A y \in Lines : (y \in 1 .. h => s.working[y] # NoRow) => f.working[y] = s.working[y]
    <3>1. s.enabled
      BY <1>3, <1>6
    <3>2. IsFilled(f, s, native, h)
      BY <1>4, <2>1, <3>1, FillIs
    <3> QED BY <3>2 DEF IsFilled
  <2>3. Moves(f, s)
    BY <1>4, <2>2, GrownMoves
  <2>4. \A y \in Lines : f.working[y] # NoRow => f.working[y].colour = native[y]
    <3> SUFFICES ASSUME NEW y \in Lines, f.working[y] # NoRow
                 PROVE  f.working[y].colour = native[y]
      OBVIOUS
    <3>1. CASE y \in 1 .. h /\ s.working[y] = NoRow
      BY <2>2, <3>1
    <3>2. CASE ~(y \in 1 .. h /\ s.working[y] = NoRow)
      <4>1. f.working[y] = s.working[y]
        BY <2>2, <3>2
      <4> QED BY <1>3, <4>1
    <3> QED BY <3>1, <3>2
  <2>5. PICK rows : rows = SubSeq(f.working, 1, h)
    OBVIOUS
  <2>6. rows = [y \in 1 .. h |-> f.working[y]]
    <3>1. f.working \in [Lines -> Rows]
      BY <2>2 DEF RasterShape
    <3> QED BY <2>5, <3>1, VisibleIs DEF Visible
  <2>7. h \in Nat /\ 1 .. h \subseteq Lines
    BY PresenterConstants
  <2>8. rows \in Seq(Captured) /\ Len(rows) = h
    BY <2>2, <2>6, <2>7
  <2>9. PICK frame : frame = [generation |-> gen, height |-> h, epoch |-> s.epoch, rows |-> rows]
    OBVIOUS
  <2>10. frame \in FrameSet /\ frame # NoFrame /\ frame.rows = rows /\ frame.height = h
         /\ frame.generation = gen
    <3>1. s.epoch \in Nat
      BY <1>4 DEF RasterShape
    <3> QED BY <2>8, <2>9, <3>1 DEF FrameSet, NoFrame
  <2>11. PICK b : q = raster_release([f EXCEPT !.references = b, !.published = frame], f.published)
    BY <1>2, <1>6, <2>1, <2>5, <2>9 DEF raster_publish
  <2>12. PICK u : u = [f EXCEPT !.references = b, !.published = frame]
    OBVIOUS
  <2>13. /\ DOMAIN u = RasterFields /\ u.enabled = f.enabled /\ u.height = f.height
         /\ u.epoch = f.epoch /\ u.identity = f.identity /\ u.working = f.working
         /\ u.published = frame
    BY <2>2, <2>12 DEF RasterShape, RasterFields
  <2>14. SameCapture(q, u)
    BY <2>11, <2>12, <2>13, ReleaseSame
  <2>15. /\ DOMAIN q = RasterFields /\ q.enabled = f.enabled /\ q.height = f.height
         /\ q.epoch = f.epoch /\ q.identity = f.identity /\ q.working = f.working
         /\ q.published = frame
    BY <2>13, <2>14 DEF SameCapture
  <2>16. FrameUpTo(frame, f.identity)
    <3>1. \A y \in 1 .. h : rows[y].identity <= f.identity
      BY <2>2, <2>6, <2>7 DEF RasterShape
    <3> QED BY <2>8, <2>10, <3>1 DEF FrameUpTo
  <2>17. RasterShape(q)
    <3>1. q.enabled
      BY <1>3, <1>6, <2>2, <2>15
    <3> QED BY <2>2, <2>15, <2>16, <3>1 DEF RasterShape
  <2>18. RowsOf(q) \subseteq RowsOf(f)
    <3>1. \A y \in DOMAIN rows : rows[y] \in {f.working[z] : z \in Lines}
      BY <2>6, <2>7
    <3> QED BY <2>10, <2>15, <3>1 DEF RowsOf
  <2>19. OneColour(f)
    BY <2>3 DEF Moves
  <2>20. OneColour(q) /\ \A g : GpuShape(g) /\ GpuKnows(f, g) => GpuKnows(q, g)
    BY <2>15, <2>18, <2>19, FewerRows
  <2>21. Moves(q, f)
    <3>1. f.epoch <= q.epoch /\ f.identity <= q.identity
      BY <2>2, <2>15 DEF RasterShape
    <3> QED BY <2>17, <2>20, <3>1 DEF Moves
  <2>22. Moves(q, r)
    <3>1. Moves(f, r)
      BY <1>3, <2>3, MovesMoves
    <3> QED BY <2>21, <3>1, MovesMoves
  <2>23. \A y \in 1 .. h : rows[y].colour = native[y]
    <3> SUFFICES ASSUME NEW y \in 1 .. h PROVE rows[y].colour = native[y]
      OBVIOUS
    <3>1. rows[y] = f.working[y] /\ f.working[y] \in Captured /\ y \in Lines
      BY <2>2, <2>6, <2>7
    <3>2. f.working[y] # NoRow
      BY <3>1, RowKinds
    <3> QED BY <2>4, <3>1, <3>2
  <2>24. Publishes(q, native, h, gen)
    BY <2>10, <2>15, <2>23 DEF Publishes
  <2>25. \A y \in Lines : q.working[y] # NoRow => q.working[y].colour = native[y]
    BY <2>4, <2>15
  <2> QED BY <2>22, <2>24, <2>25
<1> QED BY <1>1, <1>5, <1>6

-----------------------------------------------------------------------------
(* The GPU. *)

\* What is drawn from the GPU's memory is the frame.
LEMMA UploadIs ==
    ASSUME NEW r, RasterShape(r), OneColour(r), r.published # NoFrame,
           NEW g, GpuShape(g), GpuKnows(r, g), NEW u, u = Upload(g, r.published)
    PROVE  /\ GpuShape(u) /\ GpuKnows(r, u) /\ u.output = g.output /\ u.scale = g.scale
           /\ \A y \in 1 .. r.published.height : u.source[y] = r.published.rows[y].colour
<1> DEFINE f == r.published
<1>1. /\ f \in FrameSet /\ Len(f.rows) = f.height /\ f.height \in Lines
      /\ \A y \in 1 .. f.height : f.rows[y].identity <= r.identity
  BY DEF RasterShape, FrameUpTo, FrameSet
<1>2. /\ f.rows \in Seq(Captured) /\ DOMAIN f.rows = 1 .. f.height /\ f.height \in Nat
      /\ 1 .. f.height \subseteq Lines
  BY <1>1, PresenterConstants DEF FrameSet
<1>3. \A y \in 1 .. f.height : f.rows[y] \in Captured /\ f.rows[y] \in RowsOf(r)
  BY <1>2 DEF RowsOf
<1>4. \A y \in Lines : y <= f.height <=> y \in 1 .. f.height
  BY <1>2, PresenterConstants
<1>5. PICK rows : rows = [y \in Lines |-> IF y <= f.height THEN f.rows[y].identity
                                          ELSE IF g.epoch = f.epoch THEN g.rows[y] ELSE 0]
  OBVIOUS
<1>6. PICK source : source = [y \in Lines |-> IF y <= f.height /\ ~Resident(g, f, y)
                                              THEN f.rows[y].colour ELSE g.source[y]]
  OBVIOUS
<1>7. u = [g EXCEPT !.epoch = f.epoch, !.rows = rows, !.source = source]
  BY <1>5, <1>6 DEF Upload
<1>8. /\ DOMAIN u = GpuFields /\ u.rows = rows /\ u.source = source /\ u.output = g.output
      /\ u.scale = g.scale
  BY <1>7 DEF GpuShape, GpuFields
<1>9. \A y \in 1 .. f.height : /\ rows[y] = f.rows[y].identity /\ source[y] = f.rows[y].colour
                               /\ rows[y] \in Nat \ {0} /\ source[y] \in Colours
  <2> SUFFICES ASSUME NEW y \in 1 .. f.height
               PROVE  /\ rows[y] = f.rows[y].identity /\ source[y] = f.rows[y].colour
                      /\ rows[y] \in Nat \ {0} /\ source[y] \in Colours
    OBVIOUS
  <2>1. y \in Lines /\ y <= f.height
    BY <1>2, <1>4
  <2>2. f.rows[y] \in RowsOf(r) /\ f.rows[y].identity \in Nat \ {0} /\ f.rows[y].colour \in Colours
    BY <1>3 DEF Captured
  <2>3. rows[y] = f.rows[y].identity
    BY <1>5, <2>1
  <2>4. source[y] = f.rows[y].colour
    <3>1. CASE Resident(g, f, y)
      <4>1. g.rows[y] = f.rows[y].identity
        BY <3>1 DEF Resident
      <4>2. g.rows[y] # 0
        BY <2>2, <4>1
      <4>3. f.rows[y].colour = g.source[y]
        BY <2>1, <2>2, <4>1, <4>2 DEF GpuKnows
      <4> QED BY <1>6, <2>1, <3>1, <4>3
    <3>2. CASE ~Resident(g, f, y)
      BY <1>6, <2>1, <3>2
    <3> QED BY <3>1, <3>2
  <2> QED BY <2>2, <2>3, <2>4
<1>10. \A y \in Lines : y \notin 1 .. f.height => rows[y] \in {g.rows[y], 0} /\ source[y] = g.source[y]
  BY <1>4, <1>5, <1>6
<1> HIDE DEF f
<1>11. rows \in [Lines -> Nat] /\ source \in [Lines -> Colours \cup {0}]
  <2>1. DOMAIN rows = Lines /\ DOMAIN source = Lines
        /\ rows = [y \in Lines |-> rows[y]] /\ source = [y \in Lines |-> source[y]]
    BY <1>5, <1>6
  <2>2. ASSUME NEW y \in Lines PROVE rows[y] \in Nat /\ source[y] \in Colours \cup {0}
    <3>1. CASE y \in 1 .. f.height
      BY <1>9, <3>1
    <3>2. CASE y \notin 1 .. f.height
      BY <1>10, <3>2 DEF GpuShape
    <3> QED BY <3>1, <3>2
  <2> QED BY <2>1, <2>2
<1>12. GpuShape(u)
  BY <1>8, <1>11 DEF GpuShape
<1>13. GpuKnows(r, u)
  <2> SUFFICES ASSUME NEW y \in Lines, rows[y] # 0
               PROVE  /\ rows[y] <= r.identity
                      /\ \A a \in RowsOf(r) : a.identity = rows[y] => a.colour = source[y]
    BY <1>8 DEF GpuKnows
  <2>1. CASE y \in 1 .. f.height
    <3>1. /\ rows[y] = f.rows[y].identity /\ source[y] = f.rows[y].colour
          /\ f.rows[y] \in RowsOf(r) /\ rows[y] <= r.identity
      BY <1>1, <1>3, <1>9, <2>1
    <3> QED BY <3>1 DEF OneColour
  <2>2. CASE y \notin 1 .. f.height
    <3>1. rows[y] = g.rows[y] /\ source[y] = g.source[y]
      BY <1>10, <2>2
    <3> QED BY <3>1 DEF GpuKnows
  <2> QED BY <2>1, <2>2
<1> QED BY <1>8, <1>9, <1>12, <1>13 DEF f

-----------------------------------------------------------------------------
(* The steps. *)

LEMMA KeepsOn ==
    ASSUME NEW p, FrontShape(p), NEW f, FieldShape(f), NEW f2, FieldShape(f2), NEW r, RasterShape(r),
           NEW q, Moves(q, r), NEW g, Keeps(p, f, r, g), Stays(q, r) \/ q.published # NoFrame,
           \/ /\ f2.published_height = f.published_height /\ Picture(f2) = Picture(f)
              /\ f2.content = f.content
           \/ f.content < f2.content
    PROVE  Keeps(p, f2, q, g)
<1>1. /\ p.content \in Nat /\ f.content \in Nat /\ f2.content \in Nat /\ p.epoch \in Nat
      /\ r.epoch \in Nat /\ q.epoch \in Nat /\ r.epoch <= q.epoch
      /\ p.content <= f.content /\ p.epoch <= r.epoch
  BY DEF FrontShape, FieldShape, RasterShape, Moves, Keeps
<1>2. p.content <= f2.content /\ p.epoch <= q.epoch
  BY <1>1
<1>3. p.epoch = q.epoch => p.epoch = r.epoch /\ q.epoch = r.epoch
  BY <1>1
<1>4. ASSUME p.epoch = q.epoch, q.published = NoFrame PROVE r.published = NoFrame
  BY <1>3, <1>4 DEF Stays
<1>5. ASSUME p.content # 0, p.content = f2.content
      PROVE  /\ p.texture_height = f2.published_height
             /\ p.gpu => g.output = Picture(f2)
             /\ p.epoch = q.epoch /\ q.published = NoFrame => p.texture = Picture(f2)
  <2>1. p.content = f.content /\ f2.published_height = f.published_height /\ Picture(f2) = Picture(f)
    BY <1>1, <1>5
  <2> QED BY <1>3, <1>4, <1>5, <2>1 DEF Keeps
<1>6. ASSUME p.epoch = q.epoch, p.gpu
      PROVE  q.published # NoFrame /\ (~p.redraw => g.scale = p.scale)
  <2>1. r.published # NoFrame /\ (~p.redraw => g.scale = p.scale)
    BY <1>3, <1>6 DEF Keeps
  <2> QED BY <1>4, <1>6, <2>1
<1> QED BY <1>2, <1>5, <1>6 DEF Keeps

\* The capture moves, what is published does not change.
LEMMA CaptureStep ==
    ASSUME ShownInv, Moves(raster', raster), Stays(raster', raster), FieldShape(field'),
           field'.published = field.published, field'.published_height = field.published_height,
           field'.generation = field.generation, field'.content = field.content,
           \A y \in Lines : raster'.working[y] # NoRow => raster'.working[y].colour = field'.drawing[y],
           UNCHANGED <<gpu, front, screen>>
    PROVE  ShownInv'
<1>1. /\ RasterShape(raster) /\ FieldShape(field) /\ GpuShape(gpu) /\ FrontShape(front)
      /\ CaptureMatches(raster, field) /\ OneColour(raster) /\ GpuKnows(raster, gpu)
      /\ Keeps(front, field, raster, gpu) /\ front.generation <= field.generation
      /\ (front.generation = field.generation /\ field.generation # 0 => screen = Picture(field))
  BY DEF ShownInv
<1>2. RasterShape(raster') /\ OneColour(raster') /\ GpuKnows(raster', gpu)
  BY <1>1 DEF Moves
<1>3. Picture(field') = Picture(field)
  BY DEF Picture
<1>4. CaptureMatches(raster', field')
  <2>1. CASE raster'.published = NoFrame
    BY <2>1 DEF CaptureMatches
  <2>2. CASE raster'.published = raster.published
    BY <1>1, <2>2 DEF CaptureMatches
  <2> QED BY <2>1, <2>2 DEF Stays
<1>5. Keeps(front, field', raster', gpu)
  BY <1>1, <1>3, KeepsOn
<1> QED BY <1>1, <1>2, <1>3, <1>4, <1>5 DEF ShownInv

LEMMA BeginFrameStep ==
    ASSUME ShownInv, NEW height \in Lines, begin_frame(height)
    PROVE  ShownInv'
<1>1. RasterShape(raster) /\ OneColour(raster) /\ FieldShape(field) /\ CaptureMatches(raster, field)
  BY DEF ShownInv
<1>2. field' = [field EXCEPT !.height = height] /\ UNCHANGED <<raster, gpu, front, screen>>
  BY DEF begin_frame
<1>3. /\ FieldShape(field') /\ field'.published = field.published
      /\ field'.published_height = field.published_height /\ field'.drawing = field.drawing
      /\ field'.generation = field.generation /\ field'.content = field.content
  BY <1>1, <1>2 DEF FieldShape
<1>4. Moves(raster', raster) /\ Stays(raster', raster)
  BY <1>1, <1>2, RestMoves
<1>5. \A y \in Lines : raster'.working[y] # NoRow => raster'.working[y].colour = field'.drawing[y]
  BY <1>1, <1>2, <1>3 DEF CaptureMatches
<1> QED BY <1>2, <1>3, <1>4, <1>5, CaptureStep

LEMMA DrawLineStep ==
    ASSUME ShownInv, NEW y \in Lines, NEW colour \in Colours, NEW refused \in BOOLEAN,
           draw_line(y, colour, refused)
    PROVE  ShownInv'
<1>1. /\ RasterShape(raster) /\ OneColour(raster) /\ FieldShape(field)
      /\ CaptureMatches(raster, field) /\ field.height \in Lines
  BY DEF ShownInv, FieldShape
<1>2. /\ field' = [field EXCEPT !.drawing[y] = colour] /\ UNCHANGED <<gpu, front, screen>>
      /\ raster' = raster_finish(raster_begin(raster, field.height), y, colour, refused)
      /\ y <= field.height
  BY DEF draw_line
<1>3. /\ FieldShape(field') /\ field'.published = field.published
      /\ field'.published_height = field.published_height
      /\ field'.drawing = [field.drawing EXCEPT ![y] = colour]
      /\ field'.generation = field.generation /\ field'.content = field.content
  BY <1>1, <1>2 DEF FieldShape
<1>4. /\ Moves(raster', raster) /\ Stays(raster', raster)
      /\ raster'.working[y] # NoRow => raster'.working[y].colour = colour
      /\ \A z \in Lines : z # y => raster'.working[z] \in {raster.working[z], NoRow}
  BY <1>1, <1>2, DrawMoves
<1>5. field.drawing \in [Lines -> Colours]
  BY <1>1 DEF FieldShape
<1>6. \A z \in Lines : raster'.working[z] # NoRow => raster'.working[z].colour = field'.drawing[z]
  <2> SUFFICES ASSUME NEW z \in Lines, raster'.working[z] # NoRow
               PROVE  raster'.working[z].colour = field'.drawing[z]
    OBVIOUS
  <2>1. CASE z = y
    BY <1>3, <1>4, <1>5, <2>1
  <2>2. CASE z # y
    BY <1>1, <1>3, <1>4, <1>5, <2>2 DEF CaptureMatches
  <2> QED BY <2>1, <2>2
<1> QED BY <1>2, <1>3, <1>4, <1>6, CaptureStep

LEMMA EndFrameStep ==
    ASSUME ShownInv, NEW refused \in BOOLEAN, end_frame(refused)
    PROVE  ShownInv'
<1>1. /\ RasterShape(raster) /\ FieldShape(field) /\ GpuShape(gpu) /\ FrontShape(front)
      /\ CaptureMatches(raster, field) /\ OneColour(raster) /\ GpuKnows(raster, gpu)
      /\ Keeps(front, field, raster, gpu) /\ front.generation <= field.generation
  BY DEF ShownInv
<1>2. /\ field.drawing \in [Lines -> Colours] /\ field.height \in Lines /\ field.generation \in Nat
      /\ field.content \in Nat /\ front.generation \in Nat
  BY <1>1 DEF FieldShape, FrontShape
<1>3. PICK gen \in Nat \ {0} : gen = field.generation + 1
  BY <1>2
<1>4. PICK content : content = IF SameContent THEN field.content ELSE field.content + 1
  OBVIOUS
<1>5. /\ field' = [field EXCEPT !.published = field.drawing, !.published_height = field.height,
                                !.generation = gen, !.content = content]
      /\ raster' = raster_publish(raster, field.drawing, field.height, gen, refused)
      /\ UNCHANGED <<gpu, front, screen>>
  BY <1>3, <1>4 DEF end_frame
<1>6. content \in Nat /\ content # 0
  BY <1>1, <1>2, <1>4 DEF SameContent, FieldShape
<1>7. /\ FieldShape(field') /\ field'.published = field.drawing /\ field'.drawing = field.drawing
      /\ field'.published_height = field.height /\ field'.generation = gen /\ field'.content = content
  BY <1>1, <1>3, <1>5, <1>6 DEF FieldShape
<1>8. \A y \in Lines : raster.working[y] # NoRow => raster.working[y].colour = field.drawing[y]
  BY <1>1 DEF CaptureMatches
<1>9. /\ Moves(raster', raster)
      /\ \/ raster'.published = NoFrame /\ Stays(raster', raster)
         \/ Publishes(raster', field.drawing, field.height, gen)
      /\ \A y \in Lines : raster'.working[y] # NoRow => raster'.working[y].colour = field.drawing[y]
  BY <1>1, <1>2, <1>5, <1>8, PublishMoves
<1>10. RasterShape(raster') /\ OneColour(raster') /\ GpuKnows(raster', gpu)
  BY <1>1, <1>9 DEF Moves
<1>11. CaptureMatches(raster', field')
  BY <1>7, <1>9 DEF CaptureMatches, Publishes
<1>12. \/ /\ field'.published_height = field.published_height /\ Picture(field') = Picture(field)
          /\ field'.content = field.content
       \/ field.content < field'.content
  <2>1. CASE SameContent
    BY <1>4, <1>7, <2>1 DEF SameContent, Picture
  <2>2. CASE ~SameContent
    BY <1>2, <1>4, <1>7, <2>2
  <2> QED BY <2>1, <2>2
<1>13. Stays(raster', raster) \/ raster'.published # NoFrame
  BY <1>9 DEF Publishes
<1>14. Keeps(front, field', raster', gpu)
  BY <1>1, <1>7, <1>9, <1>12, <1>13, KeepsOn
<1>15. front.generation <= field'.generation /\ front.generation # field'.generation
  BY <1>1, <1>2, <1>3, <1>7
<1> QED BY <1>1, <1>5, <1>7, <1>10, <1>11, <1>14, <1>15 DEF ShownInv

LEMMA ObservedKeeps ==
    ASSUME ShownInv, NEW f, f = Sized(Observed, field.published_height)
    PROVE  /\ FrontShape(f) /\ Keeps(f, field, raster, gpu) /\ f.epoch = raster.epoch
           /\ f.texture_height = field.published_height
<1>1. FrontShape(front) /\ Keeps(front, field, raster, gpu) /\ RasterShape(raster) /\ FieldShape(field)
  BY DEF ShownInv
<1>2. PICK o : o = Observed
  OBVIOUS
<1>3. FrontShape(o) /\ Keeps(o, field, raster, gpu) /\ o.epoch = raster.epoch
  <2>1. CASE front.epoch = raster.epoch
    <3>1. o = front
      BY <1>2, <2>1 DEF Observed
    <3> QED BY <1>1, <2>1, <3>1
  <2>2. CASE front.epoch # raster.epoch
    <3>1. o = [front EXCEPT !.epoch = raster.epoch, !.redraw = TRUE, !.content = 0, !.gpu = FALSE]
      BY <1>2, <2>2 DEF Observed
    <3>2. /\ DOMAIN o = FrontFields /\ o.epoch = raster.epoch /\ o.redraw = TRUE /\ o.content = 0
          /\ o.gpu = FALSE /\ o.generation = front.generation
      BY <1>1, <3>1 DEF FrontShape, FrontFields
    <3>3. raster.epoch \in Nat /\ field.content \in Nat /\ front.generation \in Nat
      BY <1>1 DEF RasterShape, FieldShape, FrontShape
    <3>4. o.content <= field.content /\ o.epoch <= raster.epoch
      BY <3>2, <3>3
    <3>5. Keeps(o, field, raster, gpu)
      BY <3>2, <3>4 DEF Keeps
    <3>6. o.content \in Nat
      BY <3>2
    <3>7. FrontShape(o)
      BY <3>2, <3>3, <3>6, Zenon DEF FrontShape
    <3> QED BY <3>2, <3>5, <3>7
  <2> QED BY <2>1, <2>2
<1>4. CASE o.texture_height = field.published_height
  <2>1. f = o
    BY <1>2, <1>4 DEF Sized
  <2> QED BY <1>3, <1>4, <2>1
<1>5. CASE o.texture_height # field.published_height
  <2>1. f = [o EXCEPT !.texture = Junk, !.texture_height = field.published_height]
    BY <1>2, <1>5 DEF Sized
  <2>2. /\ DOMAIN f = FrontFields /\ f.texture_height = field.published_height
        /\ f.gpu = o.gpu /\ f.content = o.content /\ f.generation = o.generation
        /\ f.epoch = o.epoch /\ f.redraw = o.redraw /\ f.scale = o.scale
    BY <1>3, <2>1 DEF FrontShape, FrontFields
  <2>3. ~(o.content # 0 /\ o.content = field.content)
    BY <1>3, <1>5 DEF Keeps
  <2>4. Keeps(f, field, raster, gpu)
    BY <1>3, <2>2, <2>3 DEF Keeps
  <2> QED BY <1>3, <2>2, <2>4 DEF FrontShape
<1> QED BY <1>4, <1>5

LEMMA InitGpu ==
    ASSUME NEW g, GpuShape(g), NEW r, GpuKnows(r, g), NEW available, NEW u, u = gpu_init(g, available)
    PROVE  GpuShape(u) /\ GpuKnows(r, u) /\ u.output = g.output /\ u.scale = g.scale
<1>1. u = g \/ \E s : u = [g EXCEPT !.state = s]
  BY DEF gpu_init
<1>2. /\ DOMAIN u = GpuFields /\ u.rows = g.rows /\ u.source = g.source /\ u.output = g.output
      /\ u.scale = g.scale
  BY <1>1 DEF GpuShape, GpuFields
<1> QED BY <1>2 DEF GpuShape, GpuKnows

\* The frame that is published is the picture.
LEMMA FrameIsPicture ==
    ASSUME FieldShape(field), RasterShape(raster), CaptureMatches(raster, field),
           raster.published # NoFrame
    PROVE  /\ Current /\ raster.published.height = field.published_height
           /\ raster_native(raster.published) = Picture(field)
           /\ \A source \in [Lines -> Colours \cup {0}] :
                 (\A y \in 1 .. raster.published.height :
                     source[y] = raster.published.rows[y].colour)
                 => Visible(source, raster.published.height) = Picture(field)
<1>1. /\ raster.published.generation = field.generation
      /\ raster.published.height = field.published_height
      /\ \A y \in 1 .. raster.published.height :
            raster.published.rows[y].colour = field.published[y]
  BY DEF CaptureMatches
<1>2. field.published \in [Lines -> Colours] /\ field.published_height \in Lines
  BY DEF FieldShape
<1>3. Picture(field) = [y \in 1 .. field.published_height |-> field.published[y]]
  BY <1>2, VisibleIs DEF Picture
<1>4. raster_native(raster.published) = Picture(field)
  BY <1>1, <1>3 DEF raster_native
<1>5. ASSUME NEW source \in [Lines -> Colours \cup {0}],
             \A y \in 1 .. raster.published.height : source[y] = raster.published.rows[y].colour
      PROVE  Visible(source, raster.published.height) = Picture(field)
  <2>1. Visible(source, field.published_height) = [y \in 1 .. field.published_height |-> source[y]]
    BY <1>2, VisibleIs
  <2> QED BY <1>1, <1>3, <1>5, <2>1
<1>6. Current
  BY <1>1 DEF Current
<1> QED BY <1>1, <1>4, <1>5, <1>6

\* What a call to the GPU leaves, and the image if there is one.
LEMMA GpuAfterIs ==
    ASSUME FieldShape(field), RasterShape(raster), CaptureMatches(raster, field), OneColour(raster),
           raster.published # NoFrame, NEW g, GpuShape(g), GpuKnows(raster, g), NEW scale,
           NEW outcome \in {Rendered, "refused", "failed"},
           NEW u, u = GpuAfter(g, raster.published, scale, outcome)
    PROVE  /\ GpuShape(u) /\ GpuKnows(raster, u)
           /\ outcome = Rendered => u.output = Picture(field) /\ u.scale = scale
<1>1. PICK v : v = Upload(g, raster.published)
  OBVIOUS
<1>2. /\ GpuShape(v) /\ GpuKnows(raster, v)
      /\ \A y \in 1 .. raster.published.height : v.source[y] = raster.published.rows[y].colour
  BY <1>1, UploadIs
<1>3. CASE outcome = Rendered
  <2>1. u = [v EXCEPT !.output = Visible(v.source, raster.published.height), !.scale = scale]
    BY <1>1, <1>3 DEF GpuAfter, gpu_render, Rendered
  <2>2. Visible(v.source, raster.published.height) = Picture(field)
    BY <1>2, FrameIsPicture DEF GpuShape
  <2>3. /\ DOMAIN u = GpuFields /\ u.rows = v.rows /\ u.source = v.source
        /\ u.output = Picture(field) /\ u.scale = scale
    BY <1>2, <2>1, <2>2 DEF GpuShape, GpuFields
  <2> QED BY <1>2, <2>3 DEF GpuShape, GpuKnows
<1>4. CASE outcome = "refused"
  <2>1. u = [g EXCEPT !.output = Junk]
    BY <1>4 DEF GpuAfter, Rendered
  <2>2. DOMAIN u = GpuFields /\ u.rows = g.rows /\ u.source = g.source
    BY <2>1 DEF GpuShape, GpuFields
  <2> QED BY <1>4, <2>2 DEF GpuShape, GpuKnows, Rendered
<1>5. CASE outcome = "failed"
  <2>1. u = [v EXCEPT !.state = "failed", !.output = Junk]
    BY <1>1, <1>5 DEF GpuAfter, Rendered
  <2>2. DOMAIN u = GpuFields /\ u.rows = v.rows /\ u.source = v.source
    BY <1>2, <2>1 DEF GpuShape, GpuFields
  <2> QED BY <1>2, <1>5, <2>2 DEF GpuShape, GpuKnows, Rendered
<1> QED BY <1>3, <1>4, <1>5

LEMMA PresentFromStep ==
    ASSUME ShownInv, field.generation # 0, NEW f, FrontShape(f), NEW g, GpuShape(g),
           Keeps(f, field, raster, g), GpuKnows(raster, g), f.epoch = raster.epoch,
           f.texture_height = field.published_height,
           NEW readback \in BOOLEAN, NEW outcome \in {Rendered, "refused", "failed"},
           PresentFrom(f, readback, outcome, g), UNCHANGED <<field, raster>>
    PROVE  ShownInv'
<1>1. /\ RasterShape(raster) /\ FieldShape(field) /\ CaptureMatches(raster, field)
      /\ OneColour(raster)
  BY DEF ShownInv
<1>2. field.content \in Nat /\ field.content # 0 /\ field.generation \in Nat /\ raster.epoch \in Nat
  BY <1>1 DEF FieldShape, RasterShape
<1>3. Current <=> raster.published # NoFrame
  <2>1. raster.published = NoFrame => ~Current
    BY <1>2, NoFrameIs DEF Current
  <2> QED BY <1>1, <2>1, FrameIsPicture
<1>4. Pixels = Picture(field)
  BY <1>1, <1>3, FrameIsPicture DEF Pixels, Picture
<1> DEFINE changed == field.content # f.content
           asked   == Asked(f, changed, readback)
           onGpu   == IF asked THEN outcome = Rendered ELSE Current /\ f.gpu
           texture == IF ~onGpu /\ Dirty(f, changed, asked, outcome) THEN Pixels ELSE f.texture
           after   == IF asked THEN GpuAfter(g, raster.published, f.scale, outcome) ELSE g
<1>5. /\ ~asked => outcome = Rendered
      /\ gpu' = after
      /\ front' = [f EXCEPT !.texture = texture, !.content = field.content,
                            !.gpu = IF asked THEN onGpu ELSE @,
                            !.generation = field.generation, !.redraw = FALSE]
      /\ screen' = IF onGpu THEN after.output ELSE texture
  BY DEF PresentFrom
<1>6. asked <=> Current /\ (changed \/ f.redraw \/ ~f.gpu \/ readback)
  BY DEF Asked
<1>7. Dirty(f, changed, asked, outcome) <=> changed \/ f.redraw \/ (asked /\ outcome # Rendered)
  BY DEF Dirty
<1> HIDE DEF changed, asked, onGpu, texture, after
<1>8. /\ DOMAIN front' = FrontFields /\ front'.texture = texture /\ front'.content = field.content
      /\ front'.gpu = (IF asked THEN onGpu ELSE f.gpu) /\ front'.generation = field.generation
      /\ front'.redraw = FALSE /\ front'.texture_height = f.texture_height
      /\ front'.epoch = f.epoch /\ front'.scale = f.scale
  BY <1>5 DEF FrontShape, FrontFields
<1>9. f.gpu \in BOOLEAN /\ f.redraw \in BOOLEAN
  BY DEF FrontShape
<1>10. /\ GpuShape(gpu') /\ GpuKnows(raster, gpu')
       /\ front'.gpu \in BOOLEAN
       /\ front'.gpu => /\ raster.published # NoFrame /\ gpu'.output = Picture(field)
                        /\ gpu'.scale = f.scale
       /\ raster.published = NoFrame => front'.texture = Picture(field)
       /\ screen' = Picture(field)
  <2>1. CASE asked /\ outcome = Rendered
    <3>1. raster.published # NoFrame
      BY <1>3, <1>6, <2>1
    <3>2. gpu' = GpuAfter(g, raster.published, f.scale, outcome)
      BY <1>5, <2>1 DEF after
    <3>3. /\ GpuShape(gpu') /\ GpuKnows(raster, gpu') /\ gpu'.output = Picture(field)
          /\ gpu'.scale = f.scale
      BY <1>1, <2>1, <3>1, <3>2, GpuAfterIs
    <3>4. onGpu = TRUE
      BY <2>1 DEF onGpu
    <3>5. screen' = gpu'.output /\ front'.gpu = TRUE
      BY <1>5, <1>8, <2>1, <3>4
    <3> QED BY <3>1, <3>3, <3>5
  <2>2. CASE asked /\ outcome # Rendered
    <3>1. raster.published # NoFrame
      BY <1>3, <1>6, <2>2
    <3>2. gpu' = GpuAfter(g, raster.published, f.scale, outcome)
      BY <1>5, <2>2 DEF after
    <3>3. GpuShape(gpu') /\ GpuKnows(raster, gpu')
      BY <1>1, <3>1, <3>2, GpuAfterIs
    <3>4. onGpu = FALSE
      BY <2>2 DEF onGpu
    <3>5. texture = Picture(field)
      BY <1>4, <1>7, <2>2, <3>4 DEF texture
    <3>6. screen' = texture /\ front'.gpu = FALSE
      BY <1>5, <1>8, <2>2, <3>4
    <3> QED BY <3>1, <3>3, <3>5, <3>6
  <2>3. CASE ~asked /\ Current
    <3>1. raster.published # NoFrame
      BY <1>3, <2>3
    <3>2. ~changed /\ ~f.redraw /\ f.gpu
      BY <1>6, <2>3
    <3>3. field.content = f.content
      BY <3>2 DEF changed
    <3>4. g.output = Picture(field) /\ g.scale = f.scale
      BY <1>2, <3>2, <3>3 DEF Keeps
    <3>5. onGpu
      BY <2>3, <3>2 DEF onGpu
    <3>6. gpu' = g /\ screen' = g.output /\ front'.gpu = f.gpu
      BY <1>5, <1>8, <2>3, <3>5 DEF after
    <3> QED BY <1>9, <3>1, <3>4, <3>6
  <2>4. CASE ~asked /\ ~Current
    <3>1. raster.published = NoFrame
      BY <1>3, <2>4
    <3>2. ~f.gpu
      BY <3>1 DEF Keeps
    <3>3. onGpu = FALSE
      BY <2>4 DEF onGpu
    <3>4. gpu' = g /\ screen' = texture /\ front'.gpu = f.gpu
      BY <1>5, <1>8, <2>4, <3>3 DEF after
    <3>5. texture = Picture(field)
      <4>1. CASE Dirty(f, changed, asked, outcome)
        BY <1>4, <3>3, <4>1 DEF texture
      <4>2. CASE ~Dirty(f, changed, asked, outcome)
        <5>1. ~changed
          BY <1>7, <4>2
        <5>2. field.content = f.content
          BY <5>1 DEF changed
        <5>3. f.texture = Picture(field)
          BY <1>2, <3>1, <5>2 DEF Keeps
        <5> QED BY <4>2, <5>3 DEF texture
      <4> QED BY <4>1, <4>2
    <3> QED BY <1>8, <1>9, <3>2, <3>4, <3>5
  <2> QED BY <2>1, <2>2, <2>3, <2>4
<1>11. FrontShape(front')
  <2>1. f.epoch \in Nat
    BY DEF FrontShape
  <2> QED BY <1>2, <1>8, <1>10, <2>1, Zenon DEF FrontShape
<1>12. Keeps(front', field, raster, gpu')
  <2>1. front'.content <= field.content /\ front'.epoch <= raster.epoch
    BY <1>2, <1>8
  <2> QED BY <1>8, <1>10, <2>1 DEF Keeps
<1>13. front'.generation <= field.generation
  BY <1>2, <1>8
<1> QED BY <1>1, <1>10, <1>11, <1>12, <1>13 DEF ShownInv

LEMMA PresentStep ==
    ASSUME ShownInv, NEW readback \in BOOLEAN, NEW available \in BOOLEAN,
           NEW outcome \in {Rendered, "refused", "failed"},
           present_frame(readback, outcome, available)
    PROVE  ShownInv'
<1>1. PICK f : f = Sized(Observed, field.published_height)
  OBVIOUS
<1>2. PICK g : g = IF Uploads(Observed, field.published_height) THEN gpu_init(gpu, available) ELSE gpu
  OBVIOUS
<1>3. PresentFrom(f, readback, outcome, g) /\ UNCHANGED <<field, raster>> /\ field.generation # 0
  BY <1>1, <1>2 DEF present_frame, Nothing
<1>4. /\ FrontShape(f) /\ Keeps(f, field, raster, gpu) /\ f.epoch = raster.epoch
      /\ f.texture_height = field.published_height
  BY <1>1, ObservedKeeps
<1>5. GpuShape(gpu) /\ GpuKnows(raster, gpu)
  BY DEF ShownInv
<1>6. GpuShape(g) /\ GpuKnows(raster, g) /\ g.output = gpu.output /\ g.scale = gpu.scale
  BY <1>2, <1>5, InitGpu
<1>7. Keeps(f, field, raster, g)
  BY <1>4, <1>6 DEF Keeps
<1> QED BY <1>3, <1>4, <1>6, <1>7, PresentFromStep

\* The front end forgets or redraws; the capture and the field rest.
LEMMA FrontStep ==
    ASSUME ShownInv, FrontShape(front'), GpuShape(gpu'), GpuKnows(raster, gpu'),
           Keeps(front', field, raster, gpu'), front'.generation = front.generation,
           UNCHANGED <<field, raster, screen>>
    PROVE  ShownInv'
BY DEF ShownInv

LEMMA ResetStep ==
    ASSUME ShownInv, RenderReset
    PROVE  ShownInv'
<1>1. FrontShape(front) /\ Keeps(front, field, raster, gpu) /\ FieldShape(field)
  BY DEF ShownInv
<1>2. /\ gpu' = NoGpu /\ UNCHANGED <<field, raster, screen>>
      /\ front' = [front EXCEPT !.gpu = FALSE, !.redraw = TRUE, !.content = 0,
                                !.texture = Junk, !.texture_height = 0]
  BY DEF RenderReset
<1>3. /\ DOMAIN front' = FrontFields /\ front'.gpu = FALSE /\ front'.redraw = TRUE
      /\ front'.content = 0 /\ front'.generation = front.generation /\ front'.epoch = front.epoch
  BY <1>1, <1>2 DEF FrontShape, FrontFields
<1>4. FrontShape(front')
  <2>1. front.generation \in Nat /\ front.epoch \in Nat
    BY <1>1 DEF FrontShape
  <2> QED BY <1>3, <2>1, 0 \in Nat, Zenon DEF FrontShape
<1>5. PICK zeros : zeros = [y \in Lines |-> 0]
  OBVIOUS
<1>6. DOMAIN gpu' = GpuFields /\ gpu'.rows = zeros /\ gpu'.source = zeros
  BY <1>2, <1>5 DEF NoGpu, GpuFields
<1>7. GpuShape(gpu') /\ GpuKnows(raster, gpu')
  <2>1. zeros \in [Lines -> Nat] /\ zeros \in [Lines -> Colours \cup {0}]
    BY <1>5
  <2>2. \A y \in Lines : zeros[y] = 0
    BY <1>5
  <2> QED BY <1>6, <2>1, <2>2 DEF GpuShape, GpuKnows
<1>8. Keeps(front', field, raster, gpu')
  <2>1. front'.content <= field.content /\ front'.epoch <= raster.epoch
    BY <1>1, <1>3 DEF FieldShape, Keeps
  <2> QED BY <1>3, <2>1 DEF Keeps
<1> QED BY <1>2, <1>3, <1>4, <1>7, <1>8, FrontStep

LEMMA RedrawStep ==
    ASSUME ShownInv, Expose \/ F8
    PROVE  ShownInv'
<1>1. FrontShape(front) /\ Keeps(front, field, raster, gpu) /\ GpuShape(gpu) /\ GpuKnows(raster, gpu)
  BY DEF ShownInv
<1>2. UNCHANGED <<field, raster, screen, gpu>>
  BY DEF Expose, F8
<1>3. /\ DOMAIN front' = FrontFields /\ front'.redraw = TRUE /\ front'.gpu = front.gpu
      /\ front'.content = front.content /\ front'.generation = front.generation
      /\ front'.epoch = front.epoch /\ front'.texture = front.texture
      /\ front'.texture_height = front.texture_height
  BY <1>1 DEF FrontShape, FrontFields, Expose, F8
<1>4. FrontShape(front')
  BY <1>1, <1>3 DEF FrontShape
<1>5. Keeps(front', field, raster, gpu')
  BY <1>1, <1>2, <1>3 DEF Keeps
<1> QED BY <1>1, <1>2, <1>3, <1>4, <1>5, FrontStep

LEMMA ConsumerStep ==
    ASSUME ShownInv, Acquire \/ Release
    PROVE  ShownInv'
<1>1. /\ RasterShape(raster) /\ OneColour(raster) /\ FieldShape(field)
      /\ CaptureMatches(raster, field)
  BY DEF ShownInv
<1>2. UNCHANGED <<field, gpu, front, screen>>
  BY DEF Acquire, Release
<1>3. SameCapture(raster', raster)
  <2>1. CASE Acquire
    <3>1. PICK b : raster' = [raster EXCEPT !.references = b]
      BY <2>1 DEF Acquire
    <3> QED BY <1>1, <3>1 DEF SameCapture, RasterShape, RasterFields
  <2>2. CASE Release
    BY <1>1, <2>2, ReleaseSame DEF Release, RasterShape
  <2> QED BY <2>1, <2>2
<1>4. RasterShape(raster')
  BY <1>1, <1>3 DEF RasterShape, SameCapture
<1>5. Moves(raster', raster) /\ Stays(raster', raster)
  <2>1. Grown(raster', raster) /\ raster'.epoch = raster.epoch /\ raster'.published = raster.published
    BY <1>1, <1>3, SameGrown DEF SameCapture
  <2> QED BY <1>1, <1>4, <2>1, GrownMoves DEF Stays
<1>6. \A y \in Lines : raster'.working[y] # NoRow => raster'.working[y].colour = field'.drawing[y]
  BY <1>1, <1>2, <1>3 DEF CaptureMatches, SameCapture
<1>7. FieldShape(field')
  BY <1>1, <1>2
<1> QED BY <1>2, <1>5, <1>6, <1>7, CaptureStep

LEMMA ShownStart ==
    ASSUME PresenterInit
    PROVE  ShownInv
<1>1. PICK black : black = [y \in Lines |-> CHOOSE c \in Colours : TRUE]
  OBVIOUS
<1>2. PICK none : none = [y \in Lines |-> NoRow]
  OBVIOUS
<1>3. PICK zeros : zeros = [y \in Lines |-> 0]
  OBVIOUS
<1>4. black \in [Lines -> Colours]
  BY <1>1, PresenterConstants
<1>5. field = [drawing |-> black, published |-> black, height |-> MaxRows,
               published_height |-> MaxRows, generation |-> 0, content |-> 0]
  BY <1>1 DEF PresenterInit
<1>6. FieldShape(field) /\ field.generation = 0 /\ field.content = 0
  BY <1>4, <1>5, PresenterConstants DEF FieldShape
<1>7. raster = [enabled |-> TRUE, height |-> 0, epoch |-> 1, identity |-> 0, working |-> none,
                published |-> NoFrame, references |-> EmptyBag]
  BY <1>2 DEF PresenterInit
<1>8. /\ DOMAIN raster = RasterFields /\ raster.enabled = TRUE /\ raster.height = 0
      /\ raster.epoch = 1 /\ raster.identity = 0 /\ raster.working = none
      /\ raster.published = NoFrame
  BY <1>7 DEF RasterFields
<1>9. none \in [Lines -> Rows] /\ \A y \in Lines : none[y] = NoRow
  BY <1>2 DEF Rows
<1>10. RasterShape(raster)
  <2>1. FrameUpTo(raster.published, raster.identity)
    BY <1>8 DEF FrameUpTo
  <2>2. \A y \in Lines : raster.working[y].identity <= raster.identity
    BY <1>8, <1>9, RowKinds
  <2>3. raster.height \in Nat /\ raster.epoch \in Nat /\ raster.identity \in Nat
    BY <1>8
  <2>4. raster.working \in [Lines -> Rows] /\ \A y \in Lines : raster.working[y] = NoRow
    BY <1>8, <1>9
  <2> QED BY <1>8, <2>1, <2>2, <2>3, <2>4, Zenon DEF RasterShape
<1>11. RowsOf(raster) = {NoRow}
  <2>1. raster.published.rows = << >> /\ DOMAIN raster.published.rows = {}
    BY <1>8, NoFrameIs
  <2>2. {raster.working[y] : y \in Lines} = {NoRow}
    BY <1>8, <1>9, PresenterConstants
  <2> QED BY <2>1, <2>2 DEF RowsOf
<1>12. CaptureMatches(raster, field) /\ OneColour(raster)
  BY <1>8, <1>9, <1>11 DEF CaptureMatches, OneColour
<1>13. gpu = NoGpu /\ DOMAIN gpu = GpuFields /\ gpu.rows = zeros /\ gpu.source = zeros
  BY <1>3 DEF PresenterInit, NoGpu, GpuFields
<1>14. GpuShape(gpu) /\ GpuKnows(raster, gpu)
  <2>1. zeros \in [Lines -> Nat] /\ zeros \in [Lines -> Colours \cup {0}]
    BY <1>3
  <2>2. \A y \in Lines : zeros[y] = 0
    BY <1>3
  <2> QED BY <1>13, <2>1, <2>2 DEF GpuShape, GpuKnows
<1>15. front = [texture |-> Junk, texture_height |-> 0, gpu |-> FALSE, content |-> 0,
                generation |-> 0, epoch |-> 0, redraw |-> TRUE, scale |-> 1]
  BY DEF PresenterInit
<1>16. /\ DOMAIN front = FrontFields /\ front.gpu = FALSE /\ front.content = 0
       /\ front.generation = 0 /\ front.epoch = 0 /\ front.redraw = TRUE
  BY <1>15 DEF FrontFields
<1>17. FrontShape(front)
  BY <1>16, 0 \in Nat, Zenon DEF FrontShape
<1>18. Keeps(front, field, raster, gpu)
  <2>1. front.content <= field.content /\ front.epoch <= raster.epoch
    BY <1>6, <1>8, <1>16
  <2> QED BY <1>16, <2>1 DEF Keeps
<1>19. front.generation <= field.generation
  BY <1>6, <1>16
<1> QED BY <1>6, <1>10, <1>12, <1>14, <1>17, <1>18, <1>19 DEF ShownInv

LEMMA ShownStep ==
    ASSUME ShownInv, [PresenterNext]_presenter_vars
    PROVE  ShownInv'
<1>1. ASSUME UNCHANGED presenter_vars PROVE ShownInv'
  BY <1>1 DEF ShownInv, presenter_vars, RasterShape, FieldShape, GpuShape, FrontShape,
              CaptureMatches, OneColour, GpuKnows, Keeps, RowsOf, Picture
<1>2. ASSUME NEW height \in Lines, begin_frame(height) PROVE ShownInv'
  BY <1>2, BeginFrameStep
<1>3. ASSUME NEW y \in Lines, NEW colour \in Colours, NEW refused \in BOOLEAN,
             draw_line(y, colour, refused)
      PROVE  ShownInv'
  BY <1>3, DrawLineStep
<1>4. ASSUME NEW refused \in BOOLEAN, end_frame(refused) PROVE ShownInv'
  BY <1>4, EndFrameStep
<1>5. ASSUME NEW readback \in BOOLEAN, NEW available \in BOOLEAN,
             NEW outcome \in {Rendered, "refused", "failed"},
             present_frame(readback, outcome, available)
      PROVE  ShownInv'
  BY <1>5, PresentStep
<1> QED BY <1>1, <1>2, <1>3, <1>4, <1>5, ResetStep, RedrawStep, ConsumerStep DEF PresenterNext

(***************************************************************************)
(* Reference counts.                                                       *)
(***************************************************************************)
Tally(p) == IF p THEN 1 ELSE 0

LEMMA CopiesType ==
    ASSUME NEW b, IsABag(b), NEW k
    PROVE  /\ Copies(k, b) \in Nat
           /\ (k \in DOMAIN b) <=> (Copies(k, b) # 0)
BY DEF IsABag, Copies, BagIn, BagToSet

LEMMA SetCopies ==
    ASSUME NEW S
    PROVE  IsABag(SetToBag(S)) /\ \A k : Copies(k, SetToBag(S)) = Tally(k \in S)
BY DEF IsABag, SetToBag, Copies, BagIn, BagToSet, Tally

LEMMA MoreCopies ==
    ASSUME NEW b, IsABag(b), NEW S, NEW c, c = b (+) SetToBag(S)
    PROVE  IsABag(c) /\ \A k : Copies(k, c) = Copies(k, b) + Tally(k \in S)
<1>1. c = [e \in DOMAIN b \cup S |-> (IF e \in DOMAIN b THEN b[e] ELSE 0) + (IF e \in S THEN 1 ELSE 0)]
  BY DEF (+), SetToBag
<1>2. DOMAIN c = DOMAIN b \cup S
  BY <1>1
<1>3. \A e \in DOMAIN b : b[e] \in Nat /\ b[e] > 0
  BY DEF IsABag
<1>4. \A e \in DOMAIN c : c[e] \in Nat /\ c[e] > 0
  BY <1>1, <1>2, <1>3
<1>5. IsABag(c)
  BY <1>1, <1>2, <1>4 DEF IsABag
<1>6. ASSUME NEW k PROVE Copies(k, c) = Copies(k, b) + Tally(k \in S)
  <2>1. CASE k \in DOMAIN c
    BY <1>1, <1>2, <1>3, <2>1 DEF Copies, BagIn, BagToSet, Tally
  <2>2. CASE k \notin DOMAIN c
    BY <1>2, <2>2 DEF Copies, BagIn, BagToSet, Tally
  <2> QED BY <2>1, <2>2
<1> QED BY <1>5, <1>6

LEMMA FewerCopies ==
    ASSUME NEW b, IsABag(b), NEW S, NEW c, c = b (-) SetToBag(S)
    PROVE  /\ IsABag(c)
           /\ \A k : Copies(k, c) = IF k \in S /\ Copies(k, b) # 0 THEN Copies(k, b) - 1
                                    ELSE Copies(k, b)
<1>1. PICK d : d = [e \in DOMAIN b |-> IF e \in S THEN b[e] - 1 ELSE b[e]]
  OBVIOUS
<1>2. c = [e \in {x \in DOMAIN d : d[x] > 0} |-> d[e]]
  BY <1>1 DEF (-), SetToBag
<1>3. \A e \in DOMAIN b : b[e] \in Nat /\ b[e] > 0
  BY DEF IsABag
<1>4. \A e \in DOMAIN c : e \in DOMAIN b /\ c[e] = d[e] /\ d[e] > 0 /\ d[e] \in Nat
  BY <1>1, <1>2, <1>3
<1>5. \A e \in DOMAIN b : e \notin DOMAIN c => e \in S /\ b[e] = 1
  BY <1>1, <1>2, <1>3
<1>6. IsABag(c)
  BY <1>2, <1>4 DEF IsABag
<1>7. ASSUME NEW k
      PROVE  Copies(k, c) = IF k \in S /\ Copies(k, b) # 0 THEN Copies(k, b) - 1 ELSE Copies(k, b)
  <2>1. CASE k \in DOMAIN c
    BY <1>1, <1>3, <1>4, <2>1 DEF Copies, BagIn, BagToSet
  <2>2. CASE k \notin DOMAIN c /\ k \in DOMAIN b
    BY <1>5, <2>2 DEF Copies, BagIn, BagToSet
  <2>3. CASE k \notin DOMAIN c /\ k \notin DOMAIN b
    BY <2>3 DEF Copies, BagIn, BagToSet
  <2> QED BY <2>1, <2>2, <2>3
<1> QED BY <1>6, <1>7

-----------------------------------------------------------------------------
(* The counts. *)

Ids(f) == Identities(f.rows)
Keys(f) == IF f = NoFrame THEN {} ELSE {-f.generation}
Apart(p, h) == p # NoFrame /\ h # NoFrame /\ p.generation = h.generation => p = h

\* What is counted under a key by the rows w, the publication p and the consumer h.
Want(k, w, p, h) ==
    Tally(k \in Identities(w)) + Tally(k \in Ids(p)) + Tally(h # p /\ k \in Ids(h))
        + Tally(k \in Keys(p)) + Tally(k \in Keys(h))

Counts(b, w, p, h, E) == IsABag(b) /\ \A k : Copies(k, b) = Want(k, w, p, h) + Tally(k \in E)

LEMMA FrameKeys ==
    ASSUME NEW top \in Nat, NEW f, FrameUpTo(f, top)
    PROVE  /\ \A k \in Ids(f) : k \in Nat \ {0} /\ k <= top
           /\ \A k \in Keys(f) : k \in Int /\ k < 0
           /\ f = NoFrame => Ids(f) = {} /\ Keys(f) = {}
           /\ f # NoFrame => Keys(f) = {-f.generation} /\ f.generation \in Nat \ {0}
<1>1. CASE f = NoFrame
  <2>1. Ids(f) = {} /\ Keys(f) = {}
    BY <1>1, NoFrameIs DEF Ids, Keys, Identities
  <2> QED BY <1>1, <2>1
<1>2. CASE f # NoFrame
  <2>1. /\ f.rows \in Seq(Captured) /\ Len(f.rows) = f.height /\ f.generation \in Nat \ {0}
        /\ \A y \in 1 .. f.height : f.rows[y].identity <= top
    BY <1>2 DEF FrameUpTo, FrameSet
  <2>2. DOMAIN f.rows = 1 .. f.height
    BY <2>1
  <2>3. \A y \in DOMAIN f.rows : f.rows[y].identity \in Nat /\ f.rows[y].identity <= top
    <3>1. \A y \in DOMAIN f.rows : f.rows[y] \in Captured
      BY <2>1
    <3>2. \A y \in DOMAIN f.rows : f.rows[y].identity \in Nat
      BY <3>1 DEF Captured
    <3> QED BY <2>1, <2>2, <3>2
  <2>4. Keys(f) = {-f.generation} /\ -f.generation \in Int /\ -f.generation < 0
    BY <1>2, <2>1 DEF Keys
  <2> QED BY <1>2, <2>1, <2>3, <2>4 DEF Ids, Identities
<1> QED BY <1>1, <1>2

LEMMA WantSymmetric ==
    ASSUME NEW k, NEW w, NEW p, NEW h
    PROVE  Want(k, w, p, h) = Want(k, w, h, p)
<1>1. CASE p = h
  BY <1>1
<1>2. CASE p # h
  BY <1>2 DEF Want, Tally
<1> QED BY <1>1, <1>2

\* The counts after the publication p gave its frame back.
LEMMA ReleaseCounts ==
    ASSUME NEW r, DOMAIN r = RasterFields, NEW top \in Nat, NEW p, FrameUpTo(p, top),
           NEW h, FrameUpTo(h, top), Apart(p, h), NEW w, \A k \in Identities(w) : k \in Nat,
           NEW E, \A k \in Keys(p) : k \notin E, Counts(r.references, w, p, h, E),
           NEW q, q = raster_release(r, p)
    PROVE  Counts(q.references, w, NoFrame, h, E)
<1>1. Ids(NoFrame) = {} /\ Keys(NoFrame) = {}
  BY NoFrameIs DEF Ids, Keys, Identities
<1>2. CASE p = NoFrame
  BY <1>2 DEF raster_release
<1>3. CASE p # NoFrame
  <2>1. PICK key : key = -p.generation
    OBVIOUS
  <2>2. /\ Keys(p) = {key} /\ key \in Int /\ key < 0 /\ key \notin E
        /\ \A k \in Ids(p) : k \in Nat /\ k # key
        /\ \A k \in Ids(h) : k \in Nat /\ k # key
        /\ \A k \in Identities(w) : k # key
    BY <1>3, <2>1, FrameKeys
  <2>3. key \in Keys(h) <=> h = p
    BY <1>3, <2>1, FrameKeys DEF Apart
  <2>4. PICK left : left = r.references (-) One(key)
    OBVIOUS
  <2>5. /\ IsABag(left)
        /\ \A k : Copies(k, left) = IF k \in {key} /\ Copies(k, r.references) # 0
                                    THEN Copies(k, r.references) - 1
                                    ELSE Copies(k, r.references)
    BY <2>4, FewerCopies DEF Counts, One
  <2>6. Copies(key, r.references) = 1 + Tally(h = p)
    <3>1. Copies(key, r.references) = Want(key, w, p, h) + Tally(key \in E)
      BY DEF Counts
    <3>2. Want(key, w, p, h) = 1 + Tally(h = p)
      BY <2>2, <2>3 DEF Want, Tally
    <3> QED BY <2>2, <3>1, <3>2 DEF Tally
  <2>7. Copies(key, left) = Tally(h = p)
    BY <2>5, <2>6 DEF Tally
  <2>8. BagIn(key, left) <=> h = p
    <3>1. key \in DOMAIN left <=> Copies(key, left) # 0
      BY <2>5, CopiesType
    <3> QED BY <2>7, <3>1 DEF Tally, BagIn, BagToSet
  <2>9. \A k : k # key => Copies(k, left) = Want(k, w, p, h) + Tally(k \in E)
    BY <2>5 DEF Counts
  <2>10. q.references = IF BagIn(key, left) THEN left ELSE left (-) SetToBag(Ids(p))
    BY <1>3, <2>1, <2>4 DEF raster_release, RasterFields, Ids
  <2>11. CASE h = p
    <3>1. q.references = left
      BY <2>8, <2>10, <2>11
    <3>2. ASSUME NEW k PROVE Copies(k, left) = Want(k, w, NoFrame, h) + Tally(k \in E)
      <4>1. CASE k = key
        BY <1>1, <1>3, <2>2, <2>7, <2>11, <4>1 DEF Want, Tally
      <4>2. CASE k # key
        BY <1>1, <1>3, <2>2, <2>9, <2>11, <4>2 DEF Want, Tally
      <4> QED BY <4>1, <4>2
    <3> QED BY <2>5, <3>1, <3>2 DEF Counts
  <2>12. CASE h # p
    <3>1. q.references = left (-) SetToBag(Ids(p))
      BY <2>8, <2>10, <2>12
    <3>2. /\ IsABag(q.references)
          /\ \A k : Copies(k, q.references) = IF k \in Ids(p) /\ Copies(k, left) # 0
                                              THEN Copies(k, left) - 1 ELSE Copies(k, left)
      BY <2>5, <3>1, FewerCopies
    <3>3. ASSUME NEW k PROVE Copies(k, q.references) = Want(k, w, NoFrame, h) + Tally(k \in E)
      <4>1. CASE k = key
        <5>1. Copies(k, q.references) = 0
          BY <2>2, <2>7, <2>12, <3>2, <4>1 DEF Tally
        <5>2. Want(k, w, NoFrame, h) = 0
          BY <1>1, <2>2, <2>3, <2>12, <4>1 DEF Want, Tally
        <5> QED BY <2>2, <4>1, <5>1, <5>2 DEF Tally
      <4>2. CASE k # key
        <5>1. Copies(k, left) = Want(k, w, p, h) + Tally(k \in E) /\ k \notin Keys(p)
          BY <2>2, <2>9, <4>2
        <5>2. h = NoFrame => k \notin Ids(h)
          BY <1>1
        <5> QED BY <1>1, <2>12, <3>2, <5>1, <5>2 DEF Want, Tally
      <4> QED BY <4>1, <4>2
    <3> QED BY <3>2, <3>3 DEF Counts
  <2> QED BY <2>11, <2>12
<1> QED BY <1>2, <1>3

-----------------------------------------------------------------------------
(* What the operations of the capture do to the counts. *)

LEMMA WorkingKeys ==
    ASSUME NEW r, RasterShape(r)
    PROVE  /\ \A k \in Identities(r.working) : k \in Nat \ {0} /\ k <= r.identity
           /\ DOMAIN r.working = Lines
<1>1. \A y \in Lines : r.working[y].identity \in Nat /\ r.working[y].identity <= r.identity
  BY RowKinds DEF RasterShape
<1>2. DOMAIN r.working = Lines
  BY DEF RasterShape
<1> QED BY <1>1, <1>2 DEF Identities

LEMMA NoneKeys == Identities([y \in Lines |-> NoRow]) = {} /\ Ids(NoFrame) = {} /\ Keys(NoFrame) = {}
BY RowKinds, NoFrameIs DEF Identities, Ids, Keys

LEMMA ResetCounts ==
    ASSUME NEW r, RasterShape(r), NEW h, FrameUpTo(h, r.identity), Apart(r.published, h),
           Counts(r.references, r.working, r.published, h, {}), NEW q, q = raster_reset(r)
    PROVE  Counts(q.references, q.working, q.published, h, {})
<1>1. PICK p : p = raster_release(r, r.published)
  OBVIOUS
<1>2. r.identity \in Nat /\ DOMAIN r = RasterFields /\ FrameUpTo(r.published, r.identity)
  BY DEF RasterShape
<1>3. \A k \in Identities(r.working) : k \in Nat
  BY WorkingKeys
<1>4. Counts(p.references, r.working, NoFrame, h, {})
  BY <1>1, <1>2, <1>3, ReleaseCounts
<1>5. SameCapture(p, r)
  BY <1>1, <1>2, ReleaseSame
<1>6. PICK none : none = [y \in Lines |-> NoRow]
  OBVIOUS
<1>7. PICK b : b = p.references (-) SetToBag(Identities(r.working))
  OBVIOUS
<1>8. q = [p EXCEPT !.references = b, !.published = NoFrame, !.working = none,
                    !.height = 0, !.epoch = @ + 1]
  BY <1>1, <1>6, <1>7 DEF raster_reset
<1>9. q.references = b /\ q.working = none /\ q.published = NoFrame
  BY <1>5, <1>8 DEF SameCapture, RasterFields
<1>10. /\ IsABag(b)
       /\ \A k : Copies(k, b) = IF k \in Identities(r.working) /\ Copies(k, p.references) # 0
                                THEN Copies(k, p.references) - 1 ELSE Copies(k, p.references)
  BY <1>4, <1>7, FewerCopies DEF Counts
<1>11. ASSUME NEW k PROVE Copies(k, b) = Want(k, none, NoFrame, h) + Tally(k \in {})
  <2>1. Copies(k, p.references) = Want(k, r.working, NoFrame, h) + Tally(k \in {})
    BY <1>4 DEF Counts
  <2>2. Identities(none) = {}
    BY <1>6, NoneKeys
  <2> QED BY <1>10, <2>1, <2>2 DEF Want, Tally
<1> QED BY <1>9, <1>10, <1>11 DEF Counts

LEMMA OffCounts ==
    ASSUME NEW r, RasterShape(r), NEW h, FrameUpTo(h, r.identity), Apart(r.published, h),
           Counts(r.references, r.working, r.published, h, {}), NEW q, q = raster_capture(r, FALSE)
    PROVE  Counts(q.references, q.working, q.published, h, {})
<1>1. CASE r.enabled = FALSE
  BY <1>1 DEF raster_capture
<1>2. CASE r.enabled # FALSE
  <2>1. PICK p : p = raster_reset(r)
    OBVIOUS
  <2>2. q = [p EXCEPT !.enabled = FALSE]
    BY <1>2, <2>1 DEF raster_capture
  <2>3. DOMAIN p = RasterFields
    BY <2>1, ResetIs
  <2>4. q.references = p.references /\ q.working = p.working /\ q.published = p.published
    BY <2>2, <2>3 DEF RasterFields
  <2> QED BY <2>1, <2>4, ResetCounts
<1> QED BY <1>1, <1>2

LEMMA BeginCounts ==
    ASSUME NEW r, RasterShape(r), NEW h, FrameUpTo(h, r.identity), Apart(r.published, h),
           Counts(r.references, r.working, r.published, h, {}), NEW height,
           NEW q, q = raster_begin(r, height)
    PROVE  Counts(q.references, q.working, q.published, h, {})
<1>1. CASE ~(r.enabled /\ r.height # height)
  BY <1>1 DEF raster_begin
<1>2. CASE r.enabled /\ r.height # height
  <2>1. PICK p : p = raster_reset(r)
    OBVIOUS
  <2>2. q = [p EXCEPT !.height = height]
    BY <1>2, <2>1 DEF raster_begin
  <2>3. DOMAIN p = RasterFields
    BY <2>1, ResetIs
  <2>4. q.references = p.references /\ q.working = p.working /\ q.published = p.published
    BY <2>2, <2>3 DEF RasterFields
  <2> QED BY <2>1, <2>4, ResetCounts
<1> QED BY <1>1, <1>2

LEMMA ReplaceCounts ==
    ASSUME NEW r, RasterShape(r), NEW h, FrameUpTo(h, r.identity),
           Counts(r.references, r.working, r.published, h, {}), NEW y \in Lines, NEW c \in Colours,
           NEW q, q = replace(r, y, c)
    PROVE  Counts(q.references, q.working, q.published, h, {})
<1>1. PICK p : p = release_row(r, r.working[y])
  OBVIOUS
<1>2. SameCapture(p, r)
  BY <1>1, ReleaseRowSame
<1>3. PICK id : id = r.identity + 1
  OBVIOUS
<1>4. PICK row : row = [identity |-> id, colour |-> c]
  OBVIOUS
<1>5. PICK old : old = r.working[y].identity
  OBVIOUS
<1>6. /\ r.identity \in Nat /\ id \in Nat /\ id > r.identity /\ row.identity = id
      /\ old \in Nat /\ old <= r.identity /\ r.working \in [Lines -> Rows]
      /\ DOMAIN r = RasterFields /\ FrameUpTo(r.published, r.identity)
  BY <1>3, <1>4, <1>5, RowKinds DEF RasterShape
<1>7. PICK b : b = p.references (+) SetToBag({id})
  OBVIOUS
<1>8. q = [p EXCEPT !.identity = @ + 1, !.references = b, !.working[y] = row]
  BY <1>1, <1>3, <1>4, <1>7 DEF replace, One
<1>9. q.references = b /\ q.working = [r.working EXCEPT ![y] = row] /\ q.published = r.published
  BY <1>2, <1>8 DEF SameCapture, RasterFields
<1>10. /\ IsABag(p.references)
       /\ \A k : Copies(k, p.references) =
                    IF k \in {old} \ {0} /\ Copies(k, r.references) # 0
                    THEN Copies(k, r.references) - 1 ELSE Copies(k, r.references)
  <2>1. CASE r.working[y] = NoRow
    <3>1. p.references = r.references /\ old = 0
      BY <1>1, <1>5, <1>6, <2>1, RowKinds DEF release_row, RasterFields
    <3> QED BY <3>1 DEF Counts
  <2>2. CASE r.working[y] # NoRow
    <3>1. p.references = r.references (-) SetToBag({old})
      BY <1>1, <1>5, <1>6, <2>2 DEF release_row, RasterFields, One
    <3>2. old # 0
      BY <1>5, <1>6, <2>2, RowKinds
    <3> QED BY <3>1, <3>2, FewerCopies DEF Counts
  <2> QED BY <2>1, <2>2
<1>11. IsABag(b) /\ \A k : Copies(k, b) = Copies(k, p.references) + Tally(k \in {id})
  BY <1>7, <1>10, MoreCopies
<1>12. \A k : k \in Identities(q.working) <=> (k \in Identities(r.working) /\ k # old) \/ k = id
  <2>1. \A z \in Lines : z # y => q.working[z] = r.working[z]
    BY <1>6, <1>9
  <2>2. q.working[y].identity = id /\ DOMAIN q.working = Lines /\ DOMAIN r.working = Lines
    BY <1>6, <1>9
  <2>3. \A z \in Lines : z # y /\ r.working[z].identity # 0 => r.working[z].identity # old
    BY <1>5, RowKinds DEF RasterShape
  <2>4. id # 0
    BY <1>6
  <2> QED BY <1>5, <2>1, <2>2, <2>3, <2>4 DEF Identities
<1>13. /\ id \notin Identities(r.working) /\ id \notin Ids(r.published) /\ id \notin Ids(h)
       /\ id \notin Keys(r.published) /\ id \notin Keys(h) /\ id # old
  <2>1. \A k \in Identities(r.working) : k \in Nat /\ k <= r.identity
    BY WorkingKeys
  <2>2. /\ \A k \in Ids(r.published) : k \in Nat /\ k <= r.identity
        /\ \A k \in Keys(r.published) : k < 0
        /\ \A k \in Ids(h) : k \in Nat /\ k <= r.identity
        /\ \A k \in Keys(h) : k < 0
    BY <1>6, FrameKeys
  <2>3. ~(id <= r.identity) /\ ~(id < 0)
    BY <1>6
  <2> QED BY <1>6, <2>1, <2>2, <2>3
<1>14. old # 0 => old \in Identities(r.working)
  BY <1>5, <1>6 DEF Identities
<1>15. \A k : Copies(k, r.references) = Want(k, r.working, r.published, h) /\ Copies(k, r.references) \in Nat
  <2>1. IsABag(r.references) /\ \A k : Copies(k, r.references) = Want(k, r.working, r.published, h) + Tally(k \in {})
    BY DEF Counts
  <2>2. \A k : Want(k, r.working, r.published, h) \in Nat
    BY DEF Want, Tally
  <2> QED BY <2>1, <2>2 DEF Tally
<1>16. ASSUME NEW k PROVE Copies(k, b) = Want(k, q.working, r.published, h) + Tally(k \in {})
  <2>1. CASE k = id
    <3>1. Copies(k, r.references) = 0
      BY <1>13, <1>15, <2>1 DEF Want, Tally
    <3>2. Copies(k, b) = 1
      BY <1>10, <1>11, <2>1, <3>1 DEF Tally
    <3>3. Want(k, q.working, r.published, h) = 1
      BY <1>12, <1>13, <2>1 DEF Want, Tally
    <3> QED BY <3>2, <3>3 DEF Tally
  <2>2. CASE k = old /\ old # 0
    <3>1. k \in Identities(r.working) /\ k \notin Identities(q.working) /\ k # id
      BY <1>12, <1>13, <1>14, <2>2
    <3>2. Copies(k, b) = Copies(k, r.references) - 1
      <4>1. Copies(k, r.references) # 0
        BY <1>15, <3>1 DEF Want, Tally
      <4> QED BY <1>10, <1>11, <1>15, <2>2, <3>1, <4>1 DEF Tally
    <3> QED BY <1>15, <3>1, <3>2 DEF Want, Tally
  <2>3. CASE k # id /\ ~(k = old /\ old # 0)
    <3>1. k \in Identities(r.working) <=> k \in Identities(q.working)
      BY <1>12, <2>3 DEF Identities
    <3>2. Copies(k, b) = Copies(k, r.references)
      BY <1>10, <1>11, <1>15, <2>3 DEF Tally
    <3> QED BY <1>15, <3>1, <3>2 DEF Want, Tally
  <2> QED BY <2>1, <2>2, <2>3
<1> QED BY <1>9, <1>11, <1>16 DEF Counts

LEMMA FillCounts ==
    ASSUME NEW r, RasterShape(r), NEW h, FrameUpTo(h, r.identity),
           Counts(r.references, r.working, r.published, h, {}), NEW native \in [Lines -> Colours],
           NEW height \in Lines, NEW q, q = Fill(r, native, height)
    PROVE  Counts(q.references, q.working, q.published, h, {})
<1> DEFINE M == Missing(r, height)
           Rank(y) == r.identity + Cardinality(Below(M, y))
           new == {Rank(y) : y \in M}
<1>1. height \in Nat /\ 1 .. height \subseteq Lines /\ M \in SUBSET (1 .. height)
  BY PresenterConstants DEF Missing
<1>2. /\ Cardinality(M) \in Nat /\ r.identity \in Nat
      /\ \A y \in M : Cardinality(Below(M, y)) \in 1 .. Cardinality(M)
  BY <1>1, Ranks DEF RasterShape
<1>3. \A y \in M : Rank(y) \in Nat /\ r.identity < Rank(y)
  BY <1>2
<1>4. PICK w : w = [y \in Lines |-> IF y \in M THEN [identity |-> Rank(y), colour |-> native[y]]
                                    ELSE r.working[y]]
  OBVIOUS
<1>5. PICK b : b = r.references (+) SetToBag(new)
  OBVIOUS
<1>6. q = [r EXCEPT !.working = w, !.references = b, !.identity = @ + Cardinality(M)]
  BY <1>4, <1>5 DEF Fill, Missing, Below
<1>7. \A y \in M : r.working[y] = NoRow /\ y \in Lines
  BY <1>1 DEF Missing
<1> HIDE DEF M, Rank
<1>8. q.references = b /\ q.working = w /\ q.published = r.published
  BY <1>6 DEF RasterShape, RasterFields
<1>9. \A k \in new : k \in Nat /\ r.identity < k
  BY <1>3
<1>10. \A k : k \in Identities(w) <=> k \in Identities(r.working) \/ k \in new
  <2>1. DOMAIN w = Lines /\ DOMAIN r.working = Lines
    BY <1>4 DEF RasterShape
  <2>2. \A y \in Lines : y \in M => w[y].identity = Rank(y) /\ Rank(y) # 0 /\ r.working[y].identity = 0
    BY <1>2, <1>3, <1>4, <1>7, RowKinds
  <2>3. \A y \in Lines : y \notin M => w[y] = r.working[y]
    BY <1>4
  <2>4. ASSUME NEW k \in new PROVE k \in Identities(w)
    <3>1. PICK y \in M : k = Rank(y)
      BY <2>4
    <3> QED BY <1>7, <2>1, <2>2, <3>1 DEF Identities
  <2>5. ASSUME NEW k \in Identities(r.working) PROVE k \in Identities(w)
    <3>1. PICK y \in Lines : k = r.working[y].identity /\ k # 0
      BY <2>1, <2>5 DEF Identities
    <3> QED BY <2>1, <2>2, <2>3, <3>1 DEF Identities
  <2>6. ASSUME NEW k \in Identities(w) PROVE k \in Identities(r.working) \/ k \in new
    <3>1. PICK y \in Lines : k = w[y].identity /\ k # 0
      BY <2>1, <2>6 DEF Identities
    <3> QED BY <2>1, <2>2, <2>3, <3>1 DEF Identities
  <2> QED BY <2>4, <2>5, <2>6
<1> HIDE DEF new
<1>11. ASSUME NEW k \in new
       PROVE  /\ k \notin Identities(r.working) /\ k \notin Ids(r.published) /\ k \notin Ids(h)
              /\ k \notin Keys(r.published) /\ k \notin Keys(h)
  <2>1. \A j \in Identities(r.working) : j \in Nat /\ j <= r.identity
    BY WorkingKeys
  <2>2. FrameUpTo(r.published, r.identity)
    BY DEF RasterShape
  <2>3. /\ \A j \in Ids(r.published) : j \in Nat /\ j <= r.identity
        /\ \A j \in Keys(r.published) : j < 0
        /\ \A j \in Ids(h) : j \in Nat /\ j <= r.identity
        /\ \A j \in Keys(h) : j < 0
    BY <1>2, <2>2, FrameKeys
  <2>4. ~(k <= r.identity) /\ ~(k < 0)
    BY <1>2, <1>9
  <2> QED BY <2>1, <2>3, <2>4
<1>12. /\ IsABag(r.references) /\ IsABag(b)
       /\ \A k : Copies(k, b) = Want(k, r.working, r.published, h) + Tally(k \in {}) + Tally(k \in new)
  BY <1>5, MoreCopies DEF Counts
<1>13. ASSUME NEW k PROVE Copies(k, b) = Want(k, w, r.published, h) + Tally(k \in {})
  <2>1. CASE k \in new
    BY <1>10, <1>11, <1>12, <2>1 DEF Want, Tally
  <2>2. CASE k \notin new
    <3>1. k \in Identities(w) <=> k \in Identities(r.working)
      BY <1>10, <2>2
    <3> QED BY <1>12, <2>2, <3>1 DEF Want, Tally
  <2> QED BY <2>1, <2>2
<1> QED BY <1>8, <1>12, <1>13 DEF Counts

LEMMA FrameLater ==
    ASSUME NEW a \in Nat, NEW b \in Nat, a <= b, NEW f, FrameUpTo(f, a)
    PROVE  FrameUpTo(f, b)
<1> SUFFICES ASSUME f # NoFrame
             PROVE  /\ f \in FrameSet /\ Len(f.rows) = f.height
                    /\ \A y \in 1 .. f.height : f.rows[y].identity <= b
  BY DEF FrameUpTo
<1>1. /\ f \in FrameSet /\ Len(f.rows) = f.height /\ f.rows \in Seq(Captured)
      /\ \A y \in 1 .. f.height : f.rows[y].identity <= a
  BY DEF FrameUpTo, FrameSet
<1>2. \A y \in 1 .. f.height : f.rows[y] \in Captured
  BY <1>1
<1>3. \A y \in 1 .. f.height : f.rows[y].identity \in Nat
  BY <1>2 DEF Captured
<1> QED BY <1>1, <1>3

\* The held frame is one the capture made, and not the one that comes.
HeldBefore(h, r, gen) ==
    /\ FrameUpTo(h, r.identity) /\ Apart(r.published, h)
    /\ r.published # NoFrame => r.published.generation < gen
    /\ h # NoFrame => h.generation < gen

LEMMA PublishCounts ==
    ASSUME NEW r, RasterShape(r), OneColour(r), NEW gen \in Nat \ {0}, NEW h, HeldBefore(h, r, gen),
           Counts(r.references, r.working, r.published, h, {}), NEW native \in [Lines -> Colours],
           NEW height \in Lines, NEW refused \in BOOLEAN,
           NEW q, q = raster_publish(r, native, height, gen, refused)
    PROVE  Counts(q.references, q.working, q.published, h, {})
<1>1. CASE ~r.enabled
  BY <1>1 DEF raster_publish
<1>2. PICK s : s = raster_begin(r, height)
  OBVIOUS
<1>3. /\ RasterShape(s) /\ s.enabled = r.enabled /\ s.identity = r.identity
      /\ s.published \in {r.published, NoFrame}
  BY <1>2, BeginIs DEF Emptied
<1>4. FrameUpTo(h, s.identity) /\ Apart(s.published, h)
  BY <1>3 DEF HeldBefore, Apart
<1>5. Counts(s.references, s.working, s.published, h, {})
  BY <1>2, BeginCounts DEF HeldBefore
<1>6. CASE r.enabled /\ refused
  <2>1. q = raster_capture(s, FALSE)
    BY <1>2, <1>6 DEF raster_publish
  <2> QED BY <1>3, <1>4, <1>5, <2>1, OffCounts
<1>7. CASE r.enabled /\ ~refused
  <2>1. PICK f : f = Fill(s, native, height)
    OBVIOUS
  <2>2. Counts(f.references, f.working, f.published, h, {})
    BY <1>3, <1>4, <1>5, <2>1, FillCounts
  <2>3. s.enabled
    BY <1>3, <1>7
  <2>4. IsFilled(f, s, native, height)
    BY <1>3, <2>1, <2>3, FillIs
  <2>5. /\ RasterShape(f) /\ f.published = s.published /\ f.identity \in Nat /\ s.identity \in Nat
        /\ s.identity <= f.identity /\ DOMAIN f = RasterFields
    BY <1>3, <2>4 DEF IsFilled, Grown, RasterShape
  <2>6. FrameUpTo(h, f.identity) /\ Apart(f.published, h) /\ FrameUpTo(f.published, f.identity)
    BY <1>4, <2>5, FrameLater DEF RasterShape
  <2>7. PICK rows : rows = SubSeq(f.working, 1, height)
    OBVIOUS
  <2>8. rows = [y \in 1 .. height |-> f.working[y]]
    <3>1. f.working \in [Lines -> Rows]
      BY <2>5 DEF RasterShape
    <3> QED BY <2>7, <3>1, VisibleIs DEF Visible
  <2>9. \A k \in Identities(rows) : k \in Nat
    <3>1. 1 .. height \subseteq Lines
      BY PresenterConstants
    <3>2. \A y \in Lines : f.working[y].identity \in Nat
      BY <2>5, RowKinds DEF RasterShape
    <3> QED BY <2>8, <3>1, <3>2 DEF Identities
  <2>10. PICK frame : frame = [generation |-> gen, height |-> height, epoch |-> s.epoch, rows |-> rows]
    OBVIOUS
  <2>11. frame.rows = rows /\ frame.generation = gen /\ frame # NoFrame /\ Ids(frame) = Identities(rows)
    BY <2>10 DEF NoFrame, Ids
  <2>12. PICK key : key = -gen
    OBVIOUS
  <2>13. key \in Int /\ key < 0 /\ Keys(frame) = {key}
    BY <2>11, <2>12 DEF Keys
  <2>14. PICK a : a = f.references (+) SetToBag({key})
    OBVIOUS
  <2>15. PICK b : b = a (+) SetToBag(Ids(frame))
    OBVIOUS
  <2>16. q = raster_release([f EXCEPT !.references = b, !.published = frame], f.published)
    BY <1>2, <1>7, <2>1, <2>7, <2>10, <2>11, <2>12, <2>14, <2>15 DEF raster_publish, One
  <2>17. PICK u : u = [f EXCEPT !.references = b, !.published = frame]
    OBVIOUS
  <2>18. DOMAIN u = RasterFields /\ u.references = b /\ u.working = f.working /\ u.published = frame
    BY <2>5, <2>17 DEF RasterFields
  <2>19. PICK E : E = Ids(frame) \cup {key}
    OBVIOUS
  <2>20. Counts(b, f.working, f.published, h, E)
    <3>1. IsABag(a) /\ \A k : Copies(k, a) = Want(k, f.working, f.published, h) + Tally(k \in {}) + Tally(k \in {key})
      BY <2>2, <2>14, MoreCopies DEF Counts
    <3>2. IsABag(b) /\ \A k : Copies(k, b) = Copies(k, a) + Tally(k \in Ids(frame))
      BY <2>15, <3>1, MoreCopies
    <3>3. key \notin Ids(frame)
      BY <2>9, <2>11, <2>13
    <3>4. ASSUME NEW k PROVE Copies(k, b) = Want(k, f.working, f.published, h) + Tally(k \in E)
      <4>1. Tally(k \in E) = Tally(k \in {key}) + Tally(k \in Ids(frame))
        BY <2>19, <3>3 DEF Tally
      <4>2. Want(k, f.working, f.published, h) \in Nat
        BY DEF Want, Tally
      <4> QED BY <3>1, <3>2, <4>1, <4>2 DEF Tally
    <3> QED BY <3>2, <3>4 DEF Counts
  <2>21. \A k \in Identities(f.working) : k \in Nat
    BY <2>5, WorkingKeys
  <2>22. \A k \in Keys(f.published) : k \notin E
    <3>1. CASE f.published = NoFrame
      BY <3>1 DEF Keys
    <3>2. CASE f.published # NoFrame
      <4>1. f.published.generation < gen
        BY <1>3, <2>5, <3>2 DEF HeldBefore
      <4>2. Keys(f.published) = {-f.published.generation} /\ f.published.generation \in Nat \ {0}
        BY <2>5, <2>6, <3>2, FrameKeys
      <4>3. -f.published.generation # key /\ -f.published.generation \notin Nat
        BY <2>12, <4>1, <4>2
      <4> QED BY <2>9, <2>11, <2>19, <4>2, <4>3
    <3> QED BY <3>1, <3>2
  <2>23. Counts(q.references, f.working, NoFrame, h, E)
    BY <2>5, <2>6, <2>16, <2>17, <2>18, <2>20, <2>21, <2>22, ReleaseCounts
  <2>24. q.working = f.working /\ q.published = frame
    <3>1. SameCapture(q, u)
      BY <2>16, <2>17, <2>18, ReleaseSame
    <3> QED BY <2>18, <3>1 DEF SameCapture
  <2>25. h # frame
    <3>1. CASE h = NoFrame
      BY <2>11, <3>1
    <3>2. CASE h # NoFrame
      <4>1. h.generation < gen /\ h.generation \in Nat
        BY <2>5, <2>6, <3>2, FrameKeys DEF HeldBefore
      <4> QED BY <2>11, <4>1
    <3> QED BY <3>1, <3>2
  <2>26. key \notin Ids(frame)
    BY <2>9, <2>11, <2>13
  <2>27. ASSUME NEW k PROVE Copies(k, q.references) = Want(k, f.working, frame, h) + Tally(k \in {})
    <3>1. Copies(k, q.references) = Want(k, f.working, NoFrame, h) + Tally(k \in E)
      BY <2>23 DEF Counts
    <3>2. k \in E <=> k \in Ids(frame) \/ k \in Keys(frame)
      BY <2>13, <2>19
    <3>3. ~(k \in Ids(frame) /\ k \in Keys(frame))
      BY <2>13, <2>26
    <3>4. h = NoFrame => k \notin Ids(h)
      BY NoneKeys
    <3> QED BY <2>25, <3>1, <3>2, <3>3, <3>4, NoneKeys DEF Want, Tally
  <2> QED BY <2>23, <2>24, <2>27 DEF Counts
<1> QED BY <1>1, <1>6, <1>7

-----------------------------------------------------------------------------
(* The steps. *)

AliveInv ==
    /\ ShownInv /\ FrameUpTo(held, raster.identity) /\ Apart(raster.published, held)
    /\ held # NoFrame => held.generation <= field.generation
    /\ Counts(raster.references, raster.working, raster.published, held, {})

\* The consumer's frame outlives what the capture does.
LEMMA HeldStays ==
    ASSUME AliveInv, Moves(raster', raster), Stays(raster', raster), held' = held,
           field'.generation = field.generation, ShownInv',
           Counts(raster'.references, raster'.working, raster'.published, held, {})
    PROVE  AliveInv'
<1>1. raster.identity \in Nat /\ raster'.identity \in Nat /\ raster.identity <= raster'.identity
  BY DEF AliveInv, ShownInv, Moves, RasterShape
<1>2. FrameUpTo(held, raster'.identity)
  BY <1>1, FrameLater DEF AliveInv
<1>3. Apart(raster'.published, held)
  BY DEF AliveInv, Apart, Stays
<1> QED BY <1>2, <1>3 DEF AliveInv

LEMMA DrawAlive ==
    ASSUME AliveInv, NEW y \in Lines, NEW colour \in Colours, NEW refused \in BOOLEAN,
           draw_line(y, colour, refused)
    PROVE  AliveInv'
<1>1. ShownInv'
  BY DrawLineStep DEF AliveInv
<1>2. RasterShape(raster) /\ OneColour(raster) /\ field.height \in Lines /\ FieldShape(field)
  BY DEF AliveInv, ShownInv, FieldShape
<1>3. /\ field' = [field EXCEPT !.drawing[y] = colour] /\ held' = held /\ y <= field.height
      /\ raster' = raster_finish(raster_begin(raster, field.height), y, colour, refused)
  BY DEF draw_line
<1>4. Moves(raster', raster) /\ Stays(raster', raster)
  BY <1>2, <1>3, DrawMoves
<1>5. PICK p : p = raster_begin(raster, field.height)
  OBVIOUS
<1>6. Counts(p.references, p.working, p.published, held, {})
  BY <1>2, <1>5, BeginCounts DEF AliveInv
<1>7. /\ RasterShape(p) /\ FrameUpTo(held, p.identity) /\ Apart(p.published, held)
  <2>1. p = raster \/ Emptied(p, raster)
    BY <1>2, <1>5, BeginIs
  <2>2. p.identity = raster.identity /\ p.published \in {raster.published, NoFrame}
    BY <2>1 DEF Emptied
  <2>3. RasterShape(p)
    BY <1>2, <1>5, BeginIs
  <2> QED BY <2>2, <2>3 DEF AliveInv, Apart
<1>8. Counts(raster'.references, raster'.working, raster'.published, held, {})
  <2>1. raster' = p \/ raster' = raster_capture(p, FALSE) \/ raster' = replace(p, y, colour)
    BY <1>3, <1>5 DEF raster_finish
  <2>2. CASE raster' = p
    BY <1>6, <2>2
  <2>3. CASE raster' = raster_capture(p, FALSE)
    BY <1>6, <1>7, <2>3, OffCounts
  <2>4. CASE raster' = replace(p, y, colour)
    BY <1>6, <1>7, <2>4, ReplaceCounts
  <2> QED BY <2>1, <2>2, <2>3, <2>4
<1>9. field'.generation = field.generation
  BY <1>2, <1>3 DEF FieldShape
<1> QED BY <1>1, <1>3, <1>4, <1>8, <1>9, HeldStays

LEMMA EndAlive ==
    ASSUME AliveInv, NEW refused \in BOOLEAN, end_frame(refused)
    PROVE  AliveInv'
<1>1. ShownInv'
  BY EndFrameStep DEF AliveInv
<1>2. /\ RasterShape(raster) /\ OneColour(raster) /\ FieldShape(field)
      /\ CaptureMatches(raster, field)
  BY DEF AliveInv, ShownInv
<1>3. field.drawing \in [Lines -> Colours] /\ field.height \in Lines /\ field.generation \in Nat
  BY <1>2 DEF FieldShape
<1>4. PICK gen \in Nat \ {0} : gen = field.generation + 1
  BY <1>3
<1>5. raster' = raster_publish(raster, field.drawing, field.height, gen, refused) /\ held' = held
  BY <1>4 DEF end_frame
<1>6. field'.generation = gen
  BY <1>2, <1>4 DEF end_frame, FieldShape
<1>7. held # NoFrame => held.generation \in Nat /\ held.generation < gen /\ held.generation <= gen
  <2>1. raster.identity \in Nat /\ FrameUpTo(held, raster.identity)
    BY <1>2 DEF AliveInv, RasterShape
  <2>2. held # NoFrame => held.generation \in Nat
    BY <2>1, FrameKeys
  <2> QED BY <1>3, <1>4, <2>2 DEF AliveInv
<1>8. raster.published # NoFrame => raster.published.generation < gen
  BY <1>2, <1>3, <1>4 DEF CaptureMatches
<1>9. HeldBefore(held, raster, gen)
  BY <1>7, <1>8 DEF HeldBefore, AliveInv
<1>10. Counts(raster'.references, raster'.working, raster'.published, held, {})
  BY <1>2, <1>3, <1>5, <1>9, PublishCounts DEF AliveInv
<1>11. /\ Moves(raster', raster)
       /\ \/ raster'.published = NoFrame
          \/ Publishes(raster', field.drawing, field.height, gen)
  <2>1. \A y \in Lines : raster.working[y] # NoRow => raster.working[y].colour = field.drawing[y]
    BY <1>2 DEF CaptureMatches
  <2> QED BY <1>2, <1>3, <1>5, <2>1, PublishMoves
<1>12. Apart(raster'.published, held)
  BY <1>7, <1>11 DEF Apart, Publishes
<1>13. FrameUpTo(held, raster'.identity)
  <2>1. raster.identity \in Nat /\ raster'.identity \in Nat /\ raster.identity <= raster'.identity
    BY <1>2, <1>11 DEF Moves, RasterShape
  <2> QED BY <2>1, FrameLater DEF AliveInv
<1> QED BY <1>1, <1>5, <1>6, <1>7, <1>10, <1>12, <1>13 DEF AliveInv

LEMMA AcquireAlive ==
    ASSUME AliveInv, Acquire
    PROVE  AliveInv'
<1>1. ShownInv'
  BY ConsumerStep DEF AliveInv
<1>2. /\ RasterShape(raster) /\ FieldShape(field) /\ CaptureMatches(raster, field)
      /\ DOMAIN raster = RasterFields
  BY DEF AliveInv, ShownInv, RasterShape
<1>3. PICK p : p = raster.published
  OBVIOUS
<1>4. /\ held = NoFrame /\ p # NoFrame /\ held' = p /\ field' = field
      /\ raster' = [raster EXCEPT !.references = @ (+) One(-p.generation)]
  BY <1>3 DEF Acquire
<1>5. PICK b : b = raster.references (+) SetToBag({-p.generation})
  OBVIOUS
<1>6. /\ raster'.references = b /\ raster'.working = raster.working
      /\ raster'.published = p /\ raster'.identity = raster.identity
  BY <1>2, <1>3, <1>4, <1>5 DEF RasterFields, One
<1>7. FrameUpTo(p, raster.identity) /\ Apart(p, p) /\ p.generation <= field.generation
  <2>1. p.generation = field.generation /\ field.generation \in Nat
    BY <1>2, <1>3, <1>4 DEF CaptureMatches, FieldShape
  <2> QED BY <1>2, <1>3, <2>1 DEF RasterShape, Apart
<1>8. /\ IsABag(b)
      /\ \A k : Copies(k, b) = Want(k, raster.working, p, NoFrame) + Tally(k \in {}) + Tally(k \in {-p.generation})
  BY <1>3, <1>4, <1>5, MoreCopies DEF AliveInv, Counts
<1>9. Keys(p) = {-p.generation}
  BY <1>4 DEF Keys
<1>10. ASSUME NEW k PROVE Copies(k, b) = Want(k, raster.working, p, p) + Tally(k \in {})
  BY <1>8, <1>9, NoneKeys DEF Want, Tally
<1>11. Counts(b, raster.working, p, p, {})
  BY <1>8, <1>10 DEF Counts
<1> QED BY <1>1, <1>4, <1>6, <1>7, <1>11 DEF AliveInv

LEMMA ReleaseAlive ==
    ASSUME AliveInv, Release
    PROVE  AliveInv'
<1>1. ShownInv'
  BY ConsumerStep DEF AliveInv
<1>2. /\ RasterShape(raster) /\ DOMAIN raster = RasterFields /\ raster.identity \in Nat
      /\ FrameUpTo(raster.published, raster.identity)
  BY DEF AliveInv, ShownInv, RasterShape
<1>3. held' = NoFrame /\ raster' = raster_release(raster, held)
  BY DEF Release
<1>4. Counts(raster.references, raster.working, held, raster.published, {})
  BY WantSymmetric DEF AliveInv, Counts
<1>5. Apart(held, raster.published) /\ FrameUpTo(held, raster.identity)
  BY DEF AliveInv, Apart
<1>6. \A k \in Identities(raster.working) : k \in Nat
  BY <1>2, WorkingKeys
<1>7. Counts(raster'.references, raster.working, NoFrame, raster.published, {})
  BY <1>2, <1>3, <1>4, <1>5, <1>6, ReleaseCounts
<1>8. SameCapture(raster', raster)
  BY <1>2, <1>3, ReleaseSame
<1>9. Counts(raster'.references, raster'.working, raster'.published, NoFrame, {})
  BY <1>7, <1>8, WantSymmetric DEF Counts, SameCapture
<1> QED BY <1>1, <1>3, <1>9 DEF AliveInv, FrameUpTo, Apart

LEMMA RestAlive ==
    ASSUME AliveInv, ShownInv', raster' = raster, held' = held,
           field'.generation = field.generation
    PROVE  AliveInv'
BY DEF AliveInv

LEMMA AliveStep ==
    ASSUME AliveInv, [PresenterNext]_presenter_vars
    PROVE  AliveInv'
<1>1. ShownInv'
  BY ShownStep DEF AliveInv
<1>2. FieldShape(field)
  BY DEF AliveInv, ShownInv
<1>3. ASSUME UNCHANGED presenter_vars PROVE AliveInv'
  BY <1>1, <1>3, RestAlive DEF presenter_vars
<1>4. ASSUME NEW height \in Lines, begin_frame(height) PROVE AliveInv'
  <2>1. raster' = raster /\ held' = held /\ field'.generation = field.generation
    BY <1>2, <1>4 DEF begin_frame, FieldShape
  <2> QED BY <1>1, <2>1, RestAlive
<1>5. ASSUME NEW y \in Lines, NEW colour \in Colours, NEW refused \in BOOLEAN,
             draw_line(y, colour, refused)
      PROVE  AliveInv'
  BY <1>5, DrawAlive
<1>6. ASSUME NEW refused \in BOOLEAN, end_frame(refused) PROVE AliveInv'
  BY <1>6, EndAlive
<1>7. ASSUME NEW readback \in BOOLEAN, NEW available \in BOOLEAN,
             NEW outcome \in {Rendered, "refused", "failed"},
             present_frame(readback, outcome, available)
      PROVE  AliveInv'
  <2>1. raster' = raster /\ held' = held /\ field' = field
    BY <1>7 DEF present_frame
  <2> QED BY <1>1, <2>1, RestAlive
<1>8. ASSUME RenderReset \/ Expose \/ F8 PROVE AliveInv'
  <2>1. raster' = raster /\ held' = held /\ field' = field
    BY <1>8 DEF RenderReset, Expose, F8
  <2> QED BY <1>1, <2>1, RestAlive
<1> QED BY <1>3, <1>4, <1>5, <1>6, <1>7, <1>8, AcquireAlive, ReleaseAlive DEF PresenterNext

LEMMA AliveStart ==
    ASSUME PresenterInit
    PROVE  AliveInv
<1>1. ShownInv
  BY ShownStart
<1>2. PICK none : none = [y \in Lines |-> NoRow]
  OBVIOUS
<1>3. /\ raster.working = none /\ raster.published = NoFrame /\ raster.references = SetToBag({})
      /\ held = NoFrame
  BY <1>2 DEF PresenterInit, EmptyBag
<1>4. Identities(none) = {}
  BY <1>2, NoneKeys
<1>5. ASSUME NEW k PROVE Copies(k, SetToBag({})) = Want(k, none, NoFrame, NoFrame) + Tally(k \in {})
  BY <1>4, SetCopies, NoneKeys DEF Want, Tally
<1>6. Counts(SetToBag({}), none, NoFrame, NoFrame, {})
  BY <1>5, SetCopies DEF Counts
<1> QED BY <1>1, <1>3, <1>6 DEF AliveInv, FrameUpTo, Apart

\* How many of two frames have a property.
LEMMA HowMany ==
    ASSUME NEW a, NEW b, NEW S \in SUBSET {a, b}
    PROVE  Cardinality(S) = Tally(a \in S) + Tally(b # a /\ b \in S)
<1>1. CASE S = {}
  BY <1>1, FS_EmptySet DEF Tally
<1>2. CASE a \in S /\ (b = a \/ b \notin S)
  <2>1. S = {a}
    BY <1>2
  <2>2. Cardinality(S) = 1
    BY <2>1, FS_Singleton
  <2> QED BY <1>2, <2>2 DEF Tally
<1>3. CASE a \notin S /\ b \in S
  <2>1. S = {b} /\ b # a
    BY <1>3
  <2>2. Cardinality(S) = 1
    BY <2>1, FS_Singleton
  <2> QED BY <1>3, <2>1, <2>2 DEF Tally
<1>4. CASE a \in S /\ b # a /\ b \in S
  <2>1. S = {a} \cup {b} /\ b \notin {a}
    BY <1>4
  <2>2. IsFiniteSet({a}) /\ Cardinality({a}) = 1
    BY FS_Singleton
  <2>3. Cardinality(S) = 2
    BY <2>1, <2>2, FS_AddElement
  <2> QED BY <1>4, <2>3 DEF Tally
<1> QED BY <1>1, <1>2, <1>3, <1>4

LEMMA AliveRows ==
    ASSUME AliveInv
    PROVE  RowsAlive
<1> DEFINE p == raster.published
           w == raster.working
           frames == {p, held} \ {NoFrame}
           used == Identities(w) \cup UNION {Identities(f.rows) : f \in frames}
<1>1. RasterShape(raster) /\ raster.identity \in Nat /\ FrameUpTo(p, raster.identity)
  BY DEF AliveInv, ShownInv, RasterShape
<1>2. /\ IsABag(raster.references)
      /\ \A k : Copies(k, raster.references) = Want(k, w, p, held)
  <2>1. /\ IsABag(raster.references)
        /\ \A k : Copies(k, raster.references) = Want(k, w, p, held) + Tally(k \in {})
    BY DEF AliveInv, Counts
  <2>2. \A k : Want(k, w, p, held) \in Nat
    BY DEF Want, Tally
  <2> QED BY <2>1, <2>2 DEF Tally
<1>3. \A f \in frames : /\ \A k \in Ids(f) : k \in Nat
                        /\ Keys(f) = {-f.generation} /\ f.generation \in Nat \ {0}
  BY <1>1, FrameKeys DEF AliveInv
<1>4. /\ \A k \in Ids(p) \cup Ids(held) \cup Identities(w) : k \in Nat
      /\ \A k \in Keys(p) \cup Keys(held) : k < 0 /\ k \notin Nat
  BY <1>1, FrameKeys, WorkingKeys DEF AliveInv
<1>5. p = NoFrame => Ids(p) = {} /\ Keys(p) = {}
  BY NoneKeys
<1>6. held = NoFrame => Ids(held) = {} /\ Keys(held) = {}
  BY NoneKeys
<1> HIDE DEF p, w
<1>7. ASSUME NEW f \in frames
      PROVE  Copies(-f.generation, raster.references)
                = (IF p = f THEN 1 ELSE 0) + (IF held = f THEN 1 ELSE 0)
  <2>1. PICK key : key = -f.generation
    OBVIOUS
  <2>2. key \notin Nat /\ f.generation \in Nat \ {0} /\ f # NoFrame
    BY <1>3, <2>1
  <2>3. key \in Keys(p) <=> p = f
    <3>1. CASE p = NoFrame
      BY <1>5, <2>2, <3>1
    <3>2. CASE p # NoFrame
      <4>1. Keys(p) = {-p.generation} /\ p.generation \in Nat
        BY <1>3, <3>2
      <4>2. p.generation = f.generation => p = f
        BY <3>2 DEF AliveInv, Apart, p
      <4> QED BY <2>1, <2>2, <4>1, <4>2
    <3> QED BY <3>1, <3>2
  <2>4. key \in Keys(held) <=> held = f
    <3>1. CASE held = NoFrame
      BY <1>6, <2>2, <3>1
    <3>2. CASE held # NoFrame
      <4>1. Keys(held) = {-held.generation} /\ held.generation \in Nat
        BY <1>3, <3>2
      <4>2. held.generation = f.generation => held = f
        BY <3>2 DEF AliveInv, Apart, p
      <4> QED BY <2>1, <2>2, <4>1, <4>2
    <3> QED BY <3>1, <3>2
  <2>5. Want(key, w, p, held) = (IF p = f THEN 1 ELSE 0) + (IF held = f THEN 1 ELSE 0)
    BY <1>4, <2>2, <2>3, <2>4 DEF Want, Tally
  <2> QED BY <1>2, <2>1, <2>5
<1>8. \A k : k \in used <=> k \in Identities(w) \/ k \in Ids(p) \/ k \in Ids(held)
  <2>1. \A f : Ids(f) = Identities(f.rows)
    BY DEF Ids
  <2> QED BY <1>5, <1>6, <2>1
<1>9. ASSUME NEW id \in used
      PROVE  Copies(id, raster.references)
                = Cardinality({f \in frames : id \in Identities(f.rows)})
                    + (IF id \in Identities(w) THEN 1 ELSE 0)
  <2>1. PICK S : S = {f \in frames : id \in Identities(f.rows)}
    OBVIOUS
  <2>2. /\ S \in SUBSET {p, held} /\ (p \in S <=> id \in Ids(p))
        /\ (held \in S <=> id \in Ids(held))
    BY <1>5, <1>6, <2>1 DEF Ids
  <2>3. Cardinality(S) = Tally(p \in S) + Tally(held # p /\ held \in S)
    BY <2>2, HowMany
  <2>4. id \notin Keys(p) /\ id \notin Keys(held)
    BY <1>4, <1>8
  <2>5. Copies(id, raster.references) = Want(id, w, p, held)
    BY <1>2
  <2>6. Want(id, w, p, held) = Tally(p \in S) + Tally(held # p /\ held \in S) + Tally(id \in Identities(w))
    BY <2>2, <2>4 DEF Want, Tally
  <2> QED BY <2>1, <2>3, <2>5, <2>6 DEF Tally
<1>10. BagToSet(raster.references) = used \cup {-f.generation : f \in frames}
  <2>1. \A k : k \in DOMAIN raster.references <=> Want(k, w, p, held) # 0
    BY <1>2, CopiesType
  <2>2. \A k : Want(k, w, p, held) # 0 <=> k \in used \/ k \in Keys(p) \/ k \in Keys(held)
    BY <1>8 DEF Want, Tally
  <2>3. \A k : k \in {-f.generation : f \in frames} <=> k \in Keys(p) \/ k \in Keys(held)
    <3>1. p # NoFrame => p \in frames /\ Keys(p) = {-p.generation}
      BY <1>3
    <3>2. held # NoFrame => held \in frames /\ Keys(held) = {-held.generation}
      BY <1>3
    <3> QED BY <1>5, <1>6, <3>1, <3>2
  <2> QED BY <2>1, <2>2, <2>3 DEF BagToSet
<1> QED BY <1>7, <1>9, <1>10 DEF RowsAlive, p, w

(* cdi_frontend.c:145, cdi_raster_jobs.c:92: the window shows the pixels   *)
(* of the field that was presented last, and every captured row and frame  *)
(* in use is counted exactly as often as it is used, for pictures of any   *)
(* size and colours, any number of fields, refusals and resets.            *)
THEOREM ScreenCurrent == PresenterSpec => []ScreenIsCurrent
<1>1. AliveInv => ScreenIsCurrent
  BY AliveRows DEF AliveInv, ShownInv, ShownIsCurrent, ScreenIsCurrent, Keeps, Picture
<1> QED BY <1>1, AliveStart, AliveStep, PTL DEF PresenterSpec
=============================================================================
