------------------------------ MODULE Trampoline ------------------------------
(***************************************************************************)
(* How guest code is entered and left: main's depth-zero loop, the C       *)
(* frames of generated functions and of the interpreter above it, the      *)
(* interrupt latches, and the three landing pads a longjmp may go to.      *)
(* Guest addresses are reduced to whether the dispatch table knows them,   *)
(* chosen when control goes there.  A device may raise or withdraw a       *)
(* request in a bus access and raise one in a tick; the IKAT may reset the *)
(* processor in either.  What a generated function does after a call is    *)
(* taken from the one caller of that kind in the repository, the drawing   *)
(* job.                                                                    *)
(***************************************************************************)
EXTENDS Naturals, Sequences, FiniteSetsExt

CONSTANTS TopLevel,         \* the non-maskable level (7)
          Vectors,     \* vectors a device may give with its request
          MaxFrames,   \* bound on the C frames above main's loop
          StuckLimit   \* dispatches without a native instruction before main gives up

ASSUME TrampolineAssumption ==
    /\ TopLevel \in Nat \ {0} /\ MaxFrames \in Nat \ {0} /\ StuckLimit \in Nat \ {0}
    /\ Vectors \subseteq Nat \ {0}

\* asked, for the properties only: the vector a device last raised each level with
VARIABLE main   \* the runtime's globals, the C stack, the last delivery (taken) and asked

Levels == 1 .. TopLevel

Autovector == 0

TrampolineInit ==
    main = [frames |-> <<>>, in_hybrid |-> FALSE, step_armed |-> FALSE,
            bus_armed |-> TRUE, irq_armed |-> TRUE,
            halted |-> FALSE, redirect |-> TRUE, rte_resume |-> FALSE,
            reset_pending |-> FALSE, ipm |-> TopLevel,
            external |-> {}, onchip |-> {}, vector |-> [l \in Levels |-> Autovector],
            stuck |-> 0, progress |-> TRUE, running |-> TRUE,
            taken |-> <<>>, asked |-> [l \in Levels |-> Autovector]]

InGuest(m) == m.running /\ m.frames # <<>>
InLoop(m) == m.running /\ m.frames = <<>>
Here(m) == m.frames[Len(m.frames)]
Below(m) == SubSeq(m.frames, 1, Len(m.frames) - 1)
Interpreting(m) == Here(m) \in {"hybrid", "top"}

(***************************************************************************)
(* The latches.                                                            *)
(***************************************************************************)
\* Faulty variant: only the external latch is looked at.
Faulty_recomp_pending_irq_mask(m) == m.external

recomp_pending_irq_mask(m) == m.external \cup m.onchip

recomp_pending_irq_level(m) == Max({0} \cup m.external \cup m.onchip)

Deliverable(m) ==
    LET level == recomp_pending_irq_level(m)
    IN  level > 0 /\ (level = TopLevel \/ level > m.ipm) /\ m.irq_armed

\* A reset clears the whole latch state; the armed pads stay.
runtime_reset_cpu_interrupt_state(m) ==
    [m EXCEPT !.external = {}, !.onchip = {}, !.vector = [l \in Levels |-> Autovector],
              !.halted = FALSE, !.rte_resume = FALSE, !.redirect = FALSE, !.in_hybrid = FALSE]

(***************************************************************************)
(* The landing pads.  A longjmp drops every frame above main's loop and    *)
(* runs none of their cleanup.                                             *)
(***************************************************************************)
\* Faulty variant: the interpreter's private pad is left armed.
Faulty_m68k_interp_abandon_run(m) == m

m68k_interp_abandon_run(m) == [m EXCEPT !.step_armed = FALSE]

ResetLanding(m) ==
    [runtime_reset_cpu_interrupt_state(m68k_interp_abandon_run([m EXCEPT !.reset_pending = FALSE]))
        EXCEPT !.ipm = TopLevel, !.redirect = TRUE, !.stuck = 0, !.progress = TRUE]

IrqLanding(m) ==
    LET armed == [m EXCEPT !.frames = <<>>, !.bus_armed = TRUE, !.irq_armed = TRUE]
    IN  IF m.reset_pending THEN ResetLanding(armed) ELSE [armed EXCEPT !.redirect = TRUE]

BusLanding(m) ==
    [m EXCEPT !.frames = <<>>, !.bus_armed = TRUE, !.irq_armed = TRUE, !.redirect = TRUE]

cdi_request_main_cpu_reset(m) ==
    LET asked_for == [m EXCEPT !.reset_pending = TRUE]
    IN  IF m.irq_armed THEN IrqLanding(asked_for) ELSE asked_for

\* Delivery.  On-chip requests go first and carry a vector of their own.
Consumed(m, level) ==
    IF level \in m.onchip
    THEN [m EXCEPT !.onchip = @ \ {level}, !.taken = <<"onchip", level>>]
    ELSE [m EXCEPT !.external = @ \ {level}, !.vector[level] = Autovector,
                   !.taken = <<"external", level, m.vector[level]>>]

recomp_take_irq(m) ==
    IF ~Deliverable(m) THEN m
    ELSE IrqLanding([Consumed(m, recomp_pending_irq_level(m)) EXCEPT !.halted = FALSE])

(***************************************************************************)
(* Devices.                                                                *)
(***************************************************************************)
raise(m, level, vector) ==
    [m EXCEPT !.external = @ \cup {level}, !.vector[level] = vector, !.asked[level] = vector]

cdi_irq_clear(m, level) ==
    [m EXCEPT !.external = @ \ {level}, !.vector[level] = Autovector]

cdi_irq_raise_onchip_level(m, level) == [m EXCEPT !.onchip = @ \cup {level}]

Raised(m) == {raise(m, l, v) : l \in Levels, v \in Vectors \cup {Autovector}}
             \cup {cdi_irq_raise_onchip_level(m, l) : l \in Levels}

Ticked(m) == {m} \cup Raised(m)
Accessed(m) == Ticked(m) \cup {cdi_irq_clear(m, l) : l \in Levels}

(***************************************************************************)
(* The loop.                                                               *)
(***************************************************************************)
\* recomp_top_resume: a known address is called, any other is interpreted.
recomp_top_resume(m, known) ==
    [m EXCEPT !.in_hybrid = FALSE, !.frames = IF known THEN <<"native">> ELSE <<"top">>]

Dispatch(m) ==
    LET stuck == IF m.progress THEN 0 ELSE m.stuck + 1
    IN  IF stuck > StuckLimit
        THEN main' = [m EXCEPT !.running = FALSE, !.bus_armed = FALSE, !.irq_armed = FALSE]
        ELSE \E known \in BOOLEAN :
                main' = recomp_top_resume([m EXCEPT !.stuck = stuck, !.progress = FALSE,
                                                    !.rte_resume = FALSE], known)

Quit ==
    /\ InLoop(main)
    /\ main' = [main EXCEPT !.running = FALSE, !.bus_armed = FALSE, !.irq_armed = FALSE]

Follow ==
    /\ InLoop(main)
    /\ main.redirect \/ ~main.halted
    /\ Dispatch([main EXCEPT !.redirect = FALSE])

Stopped ==
    /\ InLoop(main) /\ main.halted /\ ~main.redirect
    /\ \/ \E m \in Ticked(main) : main' = recomp_take_irq(m)
       \/ main' = cdi_request_main_cpu_reset(main)

(***************************************************************************)
(* Guest code.  Every instruction of either tier begins at the safepoint.  *)
(***************************************************************************)
Safepoint ==
    /\ InGuest(main)
    /\ recomp_pending_irq_mask(main) # {} /\ Deliverable(main)
    /\ main' = recomp_take_irq(main)

Proceeds == InGuest(main) /\ (recomp_pending_irq_mask(main) = {} \/ ~Deliverable(main))

\* An instruction's body runs with the interpreter's pad armed; a native one is counted.
Begun(m) == IF Interpreting(m) THEN [m EXCEPT !.step_armed = TRUE] ELSE [m EXCEPT !.progress = TRUE]
Ended(m) == [m EXCEPT !.step_armed = FALSE]

BusAccess ==
    /\ Proceeds
    /\ \E m \in Accessed(Begun(main)) : main' = Ended(m)

m68k_set_sr ==
    /\ Proceeds
    /\ \E ipm \in 0 .. TopLevel : main' = Ended([Begun(main) EXCEPT !.ipm = ipm])

RequestReset ==
    /\ Proceeds
    /\ main' = cdi_request_main_cpu_reset(Begun(main))

\* The interpreter unwinds to its own step; a native fault to main.
BusError ==
    /\ Proceeds
    /\ LET m == Begun(main)
       IN  CASE m.step_armed -> main' = Ended(m)
             [] ~m.step_armed /\ m.bus_armed -> main' = BusLanding([m EXCEPT !.bus_armed = FALSE])
             [] OTHER -> main' = [m EXCEPT !.running = FALSE]

\* hybrid_enter's own cleanup when its run comes back.
Left(m) == IF Here(m) = "hybrid" THEN [m EXCEPT !.in_hybrid = FALSE] ELSE m

\* STOP: the callers see g_halted and return, down to the loop.
genesis_stop_until_interrupt ==
    /\ Proceeds
    /\ \E ipm \in 0 .. TopLevel :
          main' = [Left(Ended(Begun(main))) EXCEPT !.ipm = ipm, !.halted = TRUE, !.frames = <<>>]

\* A generated RTE, and a return address the callee rewrote, unwind to the loop.
NativeRte ==
    /\ Proceeds /\ Here(main) = "native"
    /\ \E ipm \in 0 .. TopLevel :
          main' = [Begun(main) EXCEPT !.ipm = ipm, !.rte_resume = TRUE, !.frames = <<>>]

NativeRewritten ==
    /\ Proceeds /\ Here(main) = "native" /\ Below(main) # <<>>
    /\ main' = [Begun(main) EXCEPT !.redirect = TRUE, !.frames = <<>>]

NativeReturn ==
    /\ Proceeds /\ Here(main) = "native"
    /\ main' = [Begun(main) EXCEPT !.frames = Below(main)]

NativeCall ==
    /\ Proceeds /\ Here(main) = "native" /\ Len(main.frames) < MaxFrames
    /\ main' = [Begun(main) EXCEPT !.frames = Append(@, "native")]

\* hybrid_enter: a miss inside the interpreter is logged and skipped.
hybrid_enter ==
    /\ Proceeds /\ Here(main) = "native" /\ Len(main.frames) < MaxFrames
    /\ main' = IF main.in_hybrid THEN Begun(main)
              ELSE [Begun(main) EXCEPT !.in_hybrid = TRUE, !.frames = Append(@, "hybrid")]

\* The interpreter comes to an address the table knows, which is then called ...
Reenter ==
    /\ InGuest(main) /\ Interpreting(main)
    /\ main' = [Left(main) EXCEPT !.frames = Append(Below(main), "native")]

\* ... or to the caller's return address, or to an instruction it cannot run.
Leave ==
    /\ InGuest(main) /\ Interpreting(main)
    /\ main' = [Left(main) EXCEPT !.frames = Below(main)]

GuestNext == \/ Safepoint \/ BusAccess \/ m68k_set_sr \/ RequestReset \/ BusError
             \/ genesis_stop_until_interrupt \/ NativeRte \/ NativeRewritten \/ NativeReturn
             \/ NativeCall \/ hybrid_enter \/ Reenter \/ Leave

TrampolineNext == Quit \/ Follow \/ Stopped \/ GuestNext

\* The emulation thread keeps running; Quit is the player's choice.
TrampolineFairness == WF_main(Follow \/ Stopped \/ GuestNext)

TrampolineSpec == TrampolineInit /\ [][TrampolineNext]_main /\ TrampolineFairness

(***************************************************************************)
(* Properties.                                                             *)
(***************************************************************************)
(* runtime.c:99, m68k_interp.c:40: between instructions the recursion      *)
(* guard is up exactly while hybrid_enter's interpreter run is the frame   *)
(* that executes, and the interpreter's private pad, which names a C frame *)
(* that must still be alive, is never left armed, whichever of the pads    *)
(* the frames above the loop were abandoned to.                            *)
GuardMatchesStack ==
    InGuest(main) => /\ main.in_hybrid = (Here(main) = "hybrid")
                     /\ ~main.step_armed

(* runtime.c:546-566: an external request is delivered with the vector its *)
(* device raised it with, although an on-chip request of the same level    *)
(* goes first.                                                             *)
VectorIsDevices ==
    [][main'.taken # main.taken /\ main'.taken[1] = "external" =>
          LET level == main'.taken[2] IN main'.taken[3] = main'.asked[level]]_main

(* debug_server.c:245, main.c:403, runtime.c:543: a request above the mask *)
(* is taken, or withdrawn, in native code, in the interpreter and at STOP  *)
(* alike, whichever of the two latches holds it, and with its own vector.  *)
RequestIsServed == (Deliverable(main) ~> ~Deliverable(main)) /\ VectorIsDevices
=============================================================================
