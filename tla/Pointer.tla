------------------------------- MODULE Pointer -------------------------------
(***************************************************************************)
(* The pointing device: host input (runner/src/cdi_input.c) and the packet *)
(* IKAT samples from it every 25 ms (emit_pointer_packet of slave.c).      *)
(*                                                                         *)
(* The front end and the device run on the emulation thread; the debug     *)
(* server sets the base input and adds motion on its own thread. Motion is *)
(* shared by compare-and-swap loops: a thread loads the counter, computes, *)
(* and stores only if the counter has not moved. One axis is modelled; the *)
(* other is the same code over its own counter, and may of itself call for *)
(* a packet.                                                               *)
(***************************************************************************)
EXTENDS Integers, Sequences

CONSTANTS
  IntMin, IntMax,     \* the range of an int
  Deltas,             \* motions a caller may add
  Half,               \* 128: a report carries -Half .. Half - 1
  Low,                \* 64: the payload carries the low bits, the header the rest
  MaxSpeed,           \* 8: the fastest keyboard motion
  Capacity,           \* MOUSE_BUTTON_QUEUE_CAPACITY
  Modulus,            \* 2^32, where the queue's indices wrap
  Masks,              \* inputs the keyboard, a controller or a script can hold
  Pressable           \* the mouse buttons in use

BUTTONS == {"BTN1", "BTN2"}
DIRECTIONS == {"LEFT", "RIGHT", "UP", "DOWN"}
allowed_input == BUTTONS \cup DIRECTIONS

ASSUME RangeAssumption ==
  /\ Half \in Nat /\ Low \in Nat \ {0} /\ MaxSpeed \in Nat
  /\ MaxSpeed < Half - 1 /\ Low <= 2 * Half /\ (2 * Half) % Low = 0
  /\ IntMin \in Int /\ IntMax \in Int
  /\ IntMin <= -Half /\ IntMax >= Half
  /\ Deltas \subseteq IntMin .. IntMax

ASSUME QueueAssumption ==
  /\ Capacity \in Nat \ {0} /\ Modulus \in Nat
  /\ Capacity < Modulus /\ Modulus % Capacity = 0
  /\ Masks \subseteq SUBSET allowed_input /\ Pressable \subseteq BUTTONS

Threads == {"emulation", "debug"}

VARIABLES
  relative,           \* relative_x
  job,                \* what each thread is doing to it: "none", "add" or "take"
  before,             \* the value each has loaded (0 outside the loop)
  delta,              \* the motion each adds
  base_input, frontend_input,
  physical,           \* mouse_physical_buttons
  ring,               \* mouse_button_queue with mouse_button_read and _write
  enabled, focused,
  input,              \* the input of the packet being made (empty between packets)
  previous_input,
  repeat_count,       \* pointer_repeat_count, up to MaxSpeed
  owed,               \* history: motion added and not yet seen by the guest
  unseen,             \* history: button states accepted and not yet sampled
  guest               \* history: the buttons the guest knows

motion == <<relative, job, before, delta, owed>>
buttons == <<physical, ring, unseen>>
device == <<input, previous_input, repeat_count, guest>>
host == <<base_input, frontend_input, enabled, focused>>
vars == <<motion, buttons, device, host>>

-----------------------------------------------------------------------------
(* The packet: the sample in the two's complement of eight bits, split between *)
(* header and payload; and how the guest's driver puts it together again.      *)

Packet(x, pressed) ==
  LET encoded == x % (2 * Half)
  IN  [high |-> encoded \div Low, low |-> encoded % Low, buttons |-> pressed]

Motion(p) ==
  LET encoded == p.high * Low + p.low
  IN  IF encoded >= Half THEN encoded - 2 * Half ELSE encoded

Init ==
  /\ relative = 0 /\ owed = 0
  /\ job = [t \in Threads |-> "none"]
  /\ before = [t \in Threads |-> 0] /\ delta = [t \in Threads |-> 0]
  /\ base_input = {} /\ frontend_input = {}
  /\ physical = {} /\ unseen = <<>>
  /\ ring = [slots |-> [i \in 0 .. Capacity - 1 |-> {}], read |-> 0, write |-> 0]
  /\ enabled = FALSE /\ focused = FALSE
  /\ input = {} /\ previous_input = {} /\ repeat_count = 0
  /\ guest = {}

Active == enabled /\ focused

-----------------------------------------------------------------------------
(* saturating_add. *)

Clip(x, low, high) == IF x < low THEN low ELSE IF x > high THEN high ELSE x

\* No intermediate result leaves the range of an int.
Saturated(x, d) ==
  IF d > 0 /\ x > IntMax - d THEN IntMax
  ELSE IF d < 0 /\ x < IntMin - d THEN IntMin
  ELSE x + d

\* The load before the loop.
BeginAdd(t, d) ==
  /\ job[t] = "none"
  /\ job' = [job EXCEPT ![t] = "add"]
  /\ before' = [before EXCEPT ![t] = relative]
  /\ delta' = [delta EXCEPT ![t] = d]
  /\ UNCHANGED <<relative, owed, buttons, device, host>>

\* Faulty variant: a plain store, whatever the counter has become.
Faulty_Unmoved(t) == job[t] # "none"

Unmoved(t) == relative = before[t]

\* The compare-and-swap succeeds ...
FinishAdd(t) ==
  /\ job[t] = "add" /\ Unmoved(t)
  /\ relative' = Saturated(before[t], delta[t])
  /\ owed' = Clip(owed + delta[t], IntMin, IntMax)
  /\ job' = [job EXCEPT ![t] = "none"]
  /\ before' = [before EXCEPT ![t] = 0] /\ delta' = [delta EXCEPT ![t] = 0]
  /\ UNCHANGED <<buttons, device, host>>

\* ... or loads the value it found instead.
Retry(t) ==
  /\ job[t] # "none" /\ ~Unmoved(t)
  /\ before' = [before EXCEPT ![t] = relative]
  /\ UNCHANGED <<relative, owed, job, delta, buttons, device, host>>

\* resp_set_input of the debug server, its first store ...
SetInput(mask) ==
  /\ job["debug"] = "none"
  /\ base_input' = mask
  /\ UNCHANGED <<motion, buttons, device, frontend_input, enabled, focused>>

\* ... and the motion it may add.
InjectMotion(d) == BeginAdd("debug", d)

-----------------------------------------------------------------------------
(* The front end. *)

Idle == job["emulation"] = "none"

SetFrontend(mask) ==
  /\ Idle
  /\ frontend_input' = mask
  /\ UNCHANGED <<motion, buttons, device, base_input, enabled, focused>>

MouseMotion(d) == Active /\ BeginAdd("emulation", d)

\* Faulty variant: one entry too many.
Faulty_Full(r) == (r.write - r.read) % Modulus > Capacity

Full(r) == (r.write - r.read) % Modulus >= Capacity

Push(r, pressed) ==
  IF Full(r) THEN r
  ELSE [r EXCEPT !.slots[r.write % Capacity] = pressed, !.write = (@ + 1) % Modulus]

Accept(waiting, pressed) ==
  IF Len(waiting) >= Capacity THEN waiting ELSE Append(waiting, pressed)

\* cdi_input_mouse_button.
MouseButton(button, pressed) ==
  LET after == IF pressed THEN physical \cup {button} ELSE physical \ {button}
  IN  /\ Idle
      /\ pressed => Active
      /\ after # physical
      /\ physical' = after
      /\ ring' = Push(ring, after) /\ unseen' = Accept(unseen, after)
      /\ UNCHANGED <<motion, device, host>>

\* release_mouse_state: each button that is down goes up, and motion is dropped.
ReleaseMouse ==
  LET Up1 == physical \ {"BTN1"}
      ring1 == IF "BTN1" \in physical THEN Push(ring, Up1) ELSE ring
      unseen1 == IF "BTN1" \in physical THEN Accept(unseen, Up1) ELSE unseen
  IN  /\ physical' = {}
      /\ ring' = IF "BTN2" \in physical THEN Push(ring1, {}) ELSE ring1
      /\ unseen' = IF "BTN2" \in physical THEN Accept(unseen1, {}) ELSE unseen1
      /\ relative' = 0 /\ owed' = 0
      /\ UNCHANGED <<job, before, delta>>

\* cdi_input_mouse_configure and cdi_input_mouse_focus.
MouseConfigure(on) ==
  /\ Idle
  /\ enabled' = on
  /\ IF on THEN UNCHANGED <<motion, buttons>> ELSE ReleaseMouse
  /\ UNCHANGED <<device, base_input, frontend_input, focused>>

MouseFocus(on) ==
  /\ Idle
  /\ focused' = on
  /\ IF on THEN UNCHANGED <<motion, buttons>> ELSE ReleaseMouse
  /\ UNCHANGED <<device, base_input, frontend_input, enabled>>

-----------------------------------------------------------------------------
(* emit_pointer_packet. *)

\* cdi_input_get: the oldest transition nobody has sampled, or the buttons as they are.
MouseButtons ==
  IF ring.read # ring.write THEN ring.slots[ring.read % Capacity] ELSE physical

InputGet == base_input \cup frontend_input \cup MouseButtons

\* The input is sampled and the motion loaded. The count beyond MaxSpeed tells nothing.
BeginPacket ==
  /\ Idle
  /\ input' = InputGet
  /\ repeat_count' = IF InputGet \cap DIRECTIONS = {} THEN 0
                     ELSE Clip(repeat_count + 1, 0, MaxSpeed)
  /\ job' = [job EXCEPT !["emulation"] = "take"]
  /\ before' = [before EXCEPT !["emulation"] = relative]
  /\ UNCHANGED <<relative, delta, owed, buttons, host, previous_input, guest>>

\* The motion of the keys that are held.
KeyMotion ==
  LET speed == Clip(repeat_count + (repeat_count % 2), 0, MaxSpeed)
  IN  IF "LEFT" \in input THEN -speed ELSE IF "RIGHT" \in input THEN speed ELSE 0

\* Faulty variant: motion to the left is never taken.
Faulty_Taken(x) == Clip(x, 0, Half - 1 - KeyMotion)

\* take_axis: what fits into the report beside the keys' motion.
Taken(x) == Clip(x, -Half - KeyMotion, Half - 1 - KeyMotion)

Reports(x) ==
  \/ input \cap DIRECTIONS # {} \/ x # 0
  \/ input \cap BUTTONS # previous_input \cap BUTTONS

\* cdi_input_acknowledge_mouse_buttons.
Acknowledged(r) == IF r.read = r.write THEN r ELSE [r EXCEPT !.read = (@ + 1) % Modulus]

\* The motion is taken, and the packet made and published. In other the other axis
\* has something to report.
FinishPacket(other) ==
  LET amount == Taken(before["emulation"])
      x == KeyMotion + amount
      reports == other \/ Reports(x)
      sent == Packet(x, input \cap BUTTONS)
  IN  /\ job["emulation"] = "take" /\ Unmoved("emulation")
      /\ relative' = before["emulation"] - amount
      /\ owed' = owed - (IF reports THEN Motion(sent) - KeyMotion ELSE 0)
      /\ guest' = IF reports THEN sent.buttons ELSE guest
      /\ previous_input' = input /\ input' = {}
      /\ ring' = Acknowledged(ring)
      /\ unseen' = IF unseen = <<>> THEN unseen ELSE Tail(unseen)
      /\ job' = [job EXCEPT !["emulation"] = "none"]
      /\ before' = [before EXCEPT !["emulation"] = 0]
      /\ UNCHANGED <<delta, physical, host, repeat_count>>

-----------------------------------------------------------------------------
Debug ==
  \/ \E mask \in Masks : SetInput(mask)
  \/ \E d \in Deltas : InjectMotion(d)

User ==
  \/ \E mask \in Masks : SetFrontend(mask)
  \/ \E d \in Deltas : MouseMotion(d)
  \/ \E button \in Pressable, pressed \in BOOLEAN : MouseButton(button, pressed)
  \/ \E on \in BOOLEAN : MouseConfigure(on) \/ MouseFocus(on)

Sample == BeginPacket \/ \E other \in BOOLEAN : FinishPacket(other)

Loop == \E t \in Threads : FinishAdd(t) \/ Retry(t)

Next == Debug \/ User \/ Sample \/ Loop

\* A packet is made every 25 ms of board time, and no loop is left in the middle.
Spec == Init /\ [][Next]_vars /\ WF_vars(Sample)
             /\ \A t \in Threads : WF_vars(FinishAdd(t) \/ Retry(t))

-----------------------------------------------------------------------------
(* Properties. *)

\* "any remaining host-relative movement stays queued for the next 25 ms report"
\* (slave.c): what the guest decodes from the packets is what front end and debug
\* server added, apart from the saturation of the counter; nothing is lost or
\* counted twice between the two threads' loops.
MotionConserved == relative = owed

\* The queue of button states is a bounded queue, also where its indices wrap: what is
\* sampled next is the oldest state accepted and not sampled.
ButtonsInOrder ==
  LET n == (ring.write - ring.read) % Modulus
  IN  unseen = [i \in 1 .. n |-> ring.slots[((ring.read + i - 1) % Modulus) % Capacity]]

\* The guest knows the buttons of the last sample: a packet is left out only if it
\* would tell the guest nothing new.
GuestUpToDate == guest = previous_input \cap BUTTONS

\* "On focus loss, shutdown, or capture disable, release capture": a mouse that is not
\* captured holds no button down.
ReleasedWhenInactive == ~Active => physical = {}

\* Host and debug server let go of the device.
AllQuiet == <>[][~Debug /\ ~User]_vars

\* Left alone, all motion is reported: also what did not fit into one packet, and
\* beside keys that are held.
MotionDrains == AllQuiet => <>[](relative = 0)

\* Left alone, the guest comes to know the buttons that are held, also if the queue was
\* full and dropped the last of their transitions.
ButtonsSettle ==
  AllQuiet => <>[](guest = (base_input \cup frontend_input \cup physical) \cap BUTTONS)

\* Button states reach the guest in order: the queue neither loses nor repeats one where
\* its indices wrap, no packet with news is left out, and a mouse that is not captured
\* holds nothing down (cdi_input.c, slave.c).
ButtonsReachGuest == ButtonsInOrder /\ GuestUpToDate /\ ReleasedWhenInactive

\* Left alone, motion and buttons come to rest with the guest knowing both.
PointerSettles == MotionDrains /\ ButtonsSettle
=============================================================================
