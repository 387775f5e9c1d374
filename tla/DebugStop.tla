------------------------------ MODULE DebugStop ------------------------------
(***************************************************************************)
(* How the debug server freezes the run: PC stops, a pause and a frame     *)
(* stop are posted by the server's thread and found by the emulation       *)
(* thread, which traces every instruction except inside a native job.      *)
(* There are two kinds of job.  One (cdi_memory_jobs.c) runs the           *)
(* operations JobFrom .. JobTo of the guest's loop and looks at the        *)
(* observation epoch before each.  The other (cdi_loader_jobs.c) runs a    *)
(* span of words: it asks once, about SpanFrom .. SpanAsked - 1, traces    *)
(* SpanFrom of every word, and runs the rest of a word and the loop        *)
(* control SpanAsked .. SpanTo without looking at anything.  Interrupts,   *)
(* which only end a job early, are left out.                               *)
(*                                                                         *)
(* A step is one access to the shared words; the scan of                   *)
(* debug_native_job_allowed is one step, since no more than one slot is    *)
(* published while it runs.  The epoch and the trace sequence are kept as  *)
(* differences: whether the epoch moved since the job loaded it, and the   *)
(* instructions left until g_stop_seq.                                     *)
(***************************************************************************)
EXTENDS Naturals, Integers, FiniteSets

CONSTANTS LoopLength,         \* instructions of the guest's loop; each turn ends a frame
          JobFrom, JobTo,     \* the operations of the job with a frontier
          SpanFrom, SpanAsked, SpanTo,   \* those of the span
          SpanCount,          \* words of a span after the first, D3
          YieldEvery,         \* words between two scheduling checks, 256
          StopSlots,          \* slots for PC stops, 8
          StopRequests,       \* the stops [pc, skip, delay] the client asks for
          MaxCommands,        \* bound on the commands the client sends
          MaxStopFrame        \* last frame a frame stop may name

ASSUME DebugStopAssumption ==
    /\ StopSlots \in Nat \ {0} /\ MaxCommands \in Nat /\ MaxStopFrame \in Nat
    /\ LoopLength \in Nat /\ JobFrom \in 1 .. JobTo /\ JobTo \in 1 .. SpanFrom - 1
    /\ SpanFrom \in 1 .. SpanAsked - 1 /\ SpanAsked \in 1 .. SpanTo /\ SpanTo \in 1 .. LoopLength - 1
    /\ StopRequests \subseteq [pc : 0 .. LoopLength - 1, skip : Nat, delay : Nat]
    /\ SpanCount \in Nat /\ YieldEvery \in Nat \ {0}

VARIABLES dbg,      \* what both threads see
          client,   \* the server's thread: the command it is in
          emu       \* the emulation thread

debug_vars == <<dbg, client, emu>>

StopSlot == 1 .. StopSlots
NoPc == LoopLength   \* an empty slot
Job == JobFrom .. JobTo

\* answered, known, due, passed, for the properties only: the slots the client was told of,
\* those of them the span in hand could have seen, those the instruction in hand must not run
\* over, and whether one was run over, before ("running") or after ("stopping") a stop
\* was taken.
DebugInit ==
    /\ dbg = [stoppc |-> [i \in StopSlot |-> [pc |-> NoPc, skip |-> 0, delay |-> 0]],
              stoppc_armed |-> 0, epoch_moved |-> FALSE, pause_requested |-> FALSE,
              pause_at_frame |-> 0, answered |-> {}, known |-> {}, due |-> {},
              passed |-> {}]
    /\ client = [at |-> "idle", slot |-> 0, asked |-> 0,
                 stop |-> [pc |-> NoPc, skip |-> 0, delay |-> 0]]
    /\ emu = [at |-> "gate", pc |-> 0, slot |-> 0, job |-> "none", count |-> SpanCount,
              frame |-> 0, stopping |-> FALSE, left |-> 0, held |-> FALSE, hit |-> FALSE]

(***************************************************************************)
(* The server's thread.                                                    *)
(***************************************************************************)
Receives == client.at = "idle" /\ client.asked < MaxCommands
Received(at, slot) == [client EXCEPT !.at = at, !.slot = slot, !.asked = @ + 1]
Posted(at) == client' = [client EXCEPT !.at = at]

\* resp_stop_pc: the first free slot is looked for, ...
AskStop(stop) ==
    /\ Receives
    /\ client' = [Received("look", 1) EXCEPT !.stop = stop]
    /\ UNCHANGED <<dbg, emu>>

LookAtSlot ==
    /\ client.at = "look"
    /\ client' = CASE client.slot > StopSlots -> [client EXCEPT !.at = "idle"]
                   [] client.slot \in StopSlot /\ dbg.stoppc[client.slot].pc = NoPc
                        -> [client EXCEPT !.at = "fill"]
                   [] OTHER -> [client EXCEPT !.slot = @ + 1]
    /\ UNCHANGED <<dbg, emu>>

\* ... filled, the PC last, counted, and the jobs are told.
FillSlot ==
    /\ client.at = "fill" /\ Posted("publish")
    /\ dbg' = [dbg EXCEPT !.stoppc[client.slot].skip = client.stop.skip,
                          !.stoppc[client.slot].delay = client.stop.delay]
    /\ UNCHANGED emu

PublishSlot ==
    /\ client.at = "publish" /\ Posted("count")
    /\ dbg' = [dbg EXCEPT !.stoppc[client.slot].pc = client.stop.pc]
    /\ UNCHANGED emu

CountSlot ==
    /\ client.at = "count" /\ Posted("tell")
    /\ dbg' = [dbg EXCEPT !.stoppc_armed = @ + 1]
    /\ UNCHANGED emu

\* Faulty variant: a job that is running is not told.
Faulty_Told == dbg.epoch_moved

Told == TRUE

TellJobs ==
    /\ client.at = "tell" /\ Posted("idle")
    /\ dbg' = [dbg EXCEPT !.epoch_moved = Told,
                          !.answered = IF dbg.stoppc[client.slot].pc = client.stop.pc
                                       THEN @ \cup {client.slot} ELSE @]
    /\ UNCHANGED emu

\* {"clear":1} empties the slots one by one and then sets the count.
ClearBegin ==
    /\ Receives
    /\ client' = Received("clear", 1)
    /\ dbg' = [dbg EXCEPT !.answered = {}, !.known = {}, !.due = {}]
    /\ UNCHANGED emu

ClearSlot ==
    /\ client.at = "clear" /\ client.slot <= StopSlots
    /\ dbg' = [dbg EXCEPT !.stoppc[client.slot].pc = NoPc]
    /\ client' = [client EXCEPT !.slot = @ + 1]
    /\ UNCHANGED emu

ClearCount ==
    /\ client.at = "clear" /\ client.slot > StopSlots /\ Posted("idle")
    /\ dbg' = [dbg EXCEPT !.stoppc_armed = 0]
    /\ UNCHANGED emu

resp_pause ==
    /\ Receives
    /\ client' = Received("idle", 0)
    /\ dbg' = [dbg EXCEPT !.pause_requested = TRUE]
    /\ UNCHANGED emu

\* resp_stop_frame compares with the frame count, then stores; 0 clears.
AskFrame(frame) ==
    /\ Receives /\ (frame = 0 \/ frame > emu.frame)
    /\ client' = Received("frame", frame)
    /\ UNCHANGED <<dbg, emu>>

StoreFrame ==
    /\ client.at = "frame" /\ Posted("idle")
    /\ dbg' = [dbg EXCEPT !.pause_at_frame = client.slot]
    /\ UNCHANGED emu

(***************************************************************************)
(* The emulation thread: debug_trace_block.                                *)
(***************************************************************************)
At(at) == ~emu.held /\ emu.at = at

\* The answered stops this instruction must not run over.
Due == {i \in dbg.answered : dbg.stoppc[i].pc = emu.pc /\ dbg.stoppc[i].skip = 0}

\* The instruction is counted and the gate looked at.
TraceGate ==
    /\ At("gate")
    /\ emu' = [emu EXCEPT !.left = IF emu.stopping THEN @ - 1 ELSE @,
                          !.hit = FALSE, !.slot = 1,
                          !.at = IF dbg.stoppc_armed # 0 THEN "scan" ELSE "pause"]
    /\ dbg' = [dbg EXCEPT !.due = Due]
    /\ UNCHANGED client

\* debug_check_stop_pc, slot by slot.
NextSlot == [emu EXCEPT !.slot = @ + 1, !.at = IF emu.slot = StopSlots THEN "pause" ELSE "scan"]

ScanSlot ==
    /\ At("scan")
    /\ emu' = IF dbg.stoppc[emu.slot].pc = emu.pc THEN [emu EXCEPT !.at = "skip"] ELSE NextSlot
    /\ UNCHANGED <<dbg, client>>

SkipHit ==
    /\ At("skip") /\ dbg.stoppc[emu.slot].skip > 0
    /\ dbg' = [dbg EXCEPT !.stoppc[emu.slot].skip = @ - 1]
    /\ emu' = NextSlot
    /\ UNCHANGED client

Consume == dbg' = [dbg EXCEPT !.stoppc[emu.slot].pc = NoPc, !.answered = @ \ {emu.slot},
                                !.known = @ \ {emu.slot}, !.due = @ \ {emu.slot}]

TakeSlot ==
    /\ At("skip") /\ dbg.stoppc[emu.slot].skip = 0
    /\ Consume
    /\ emu' = [emu EXCEPT !.at = "uncount", !.hit = TRUE]
    /\ UNCHANGED client

UncountSlot ==
    /\ At("uncount")
    /\ dbg' = [dbg EXCEPT !.stoppc_armed = @ - 1]
    /\ emu' = [emu EXCEPT !.at = "delay"]
    /\ UNCHANGED client

\* A delay sets g_stop_seq and tells the jobs; without one the run is held.
ReadDelay ==
    /\ At("delay")
    /\ LET delay == dbg.stoppc[emu.slot].delay
       IN  IF delay = 0
           THEN emu' = [emu EXCEPT !.held = TRUE] /\ UNCHANGED dbg
           ELSE /\ emu' = [emu EXCEPT !.stopping = TRUE, !.left = delay, !.at = "pause"]
                /\ dbg' = [dbg EXCEPT !.epoch_moved = TRUE]
    /\ UNCHANGED client

TracePause ==
    /\ At("pause")
    /\ dbg' = [dbg EXCEPT !.pause_requested = FALSE]
    /\ emu' = [emu EXCEPT !.held = dbg.pause_requested \/ (emu.stopping /\ emu.left <= 0),
                          !.at = "execute"]
    /\ UNCHANGED client

(***************************************************************************)
(* Execution, and the native jobs.                                         *)
(***************************************************************************)
debug_native_job_allowed(first, limit) ==
    /\ ~emu.stopping
    /\ dbg.stoppc_armed # 0 => \A i \in StopSlot : dbg.stoppc[i].pc \notin first .. limit - 1

\* debug_ring_capture_frame at the end of a turn.
FrameEnds == emu.pc = LoopLength - 1
FrameAfter == IF FrameEnds /\ emu.frame < MaxStopFrame THEN emu.frame + 1 ELSE emu.frame
FrameHolds == FrameEnds /\ dbg.pause_at_frame # 0 /\ FrameAfter >= dbg.pause_at_frame

\* The span's loop counts D3 down, and the next span loads it again.
NextPc == IF emu.pc = SpanTo /\ emu.count # 0 THEN SpanFrom ELSE (emu.pc + 1) % LoopLength
CountAfter == CASE emu.pc = SpanTo /\ emu.count # 0 -> emu.count - 1
                [] emu.pc = SpanTo /\ emu.count = 0 -> SpanCount
                [] OTHER -> emu.count

\* The job after this operation: one ends behind its range, a span where the kernel's
\* scheduling check is due.
JobAfter(pc) ==
    CASE emu.job = "job" /\ pc \in Job -> "job"
      [] emu.job = "span" /\ ~(pc = SpanAsked /\ emu.count % YieldEvery = 0) -> "span"
      [] OTHER -> "none"

Execute ==
    /\ At("execute")
    /\ LET pc == NextPc
           job == JobAfter(pc)
       IN  emu' = [emu EXCEPT !.pc = pc, !.job = job, !.count = CountAfter,
                              !.frame = FrameAfter, !.held = FrameHolds,
                              !.at = CASE job = "job" -> "observe"
                                       [] job = "span" /\ pc # SpanFrom -> "span"
                                       [] job = "none" /\ pc \in {JobFrom, SpanFrom} -> "enter"
                                       [] OTHER -> "gate"]
    /\ dbg' = [dbg EXCEPT !.passed = IF dbg.due # {} /\ ~emu.hit
                                     THEN @ \cup {IF emu.stopping THEN "stopping" ELSE "running"}
                                     ELSE @,
                          !.pause_at_frame = IF FrameHolds THEN 0 ELSE @]
    /\ UNCHANGED client

\* The epoch is loaded before the job asks whether it is allowed; its first operation
\* is traced, as is the firmware's if it is not.
EnterJob ==
    /\ At("enter") /\ emu.pc = JobFrom
    /\ dbg' = [dbg EXCEPT !.epoch_moved = FALSE]
    /\ emu' = [emu EXCEPT !.at = "allow"]
    /\ UNCHANGED client

AllowJob ==
    /\ At("allow")
    /\ emu' = [emu EXCEPT !.at = "gate",
                          !.job = IF debug_native_job_allowed(JobFrom, JobTo + 1) THEN "job" ELSE "none"]
    /\ UNCHANGED <<dbg, client>>

\* cdi_loader_dispatch: a span is refused for its registers too, and the firmware's loop
\* goes on without asking.
EnterSpan ==
    /\ At("enter") /\ emu.pc = SpanFrom
    /\ \E asked \in BOOLEAN :
          emu' = [emu EXCEPT !.at = "gate",
                             !.job = IF asked /\ debug_native_job_allowed(SpanFrom, SpanAsked)
                                     THEN "span" ELSE "none"]
    /\ dbg' = [dbg EXCEPT !.known = dbg.answered]
    /\ UNCHANGED client

\* run_crc_span behind SpanFrom looks at nothing: what it must not run over are the stops
\* it was asked about.
SpanInstruction ==
    /\ At("span")
    /\ dbg' = [dbg EXCEPT !.due = IF emu.pc < SpanAsked THEN Due \cap dbg.known ELSE {}]
    /\ emu' = [emu EXCEPT !.hit = FALSE, !.at = "execute"]
    /\ UNCHANGED client

\* frontier: the later operations look at the epoch, and ask again when it moved.
Frontier ==
    /\ At("observe")
    /\ dbg' = [dbg EXCEPT !.epoch_moved = FALSE, !.due = Due]
    /\ emu' = [emu EXCEPT !.hit = FALSE,
                          !.at = IF dbg.epoch_moved THEN "ask" ELSE "execute"]
    /\ UNCHANGED client

AskAgain ==
    /\ At("ask")
    /\ emu' = IF debug_native_job_allowed(JobFrom, JobTo + 1) THEN [emu EXCEPT !.at = "execute"]
              ELSE [emu EXCEPT !.at = "gate", !.job = "none"]
    /\ UNCHANGED <<dbg, client>>

ServerNext ==
    \/ (\E stop \in StopRequests : AskStop(stop)) \/ LookAtSlot \/ FillSlot \/ PublishSlot \/ CountSlot \/ TellJobs
    \/ ClearBegin \/ ClearSlot \/ ClearCount
    \/ resp_pause \/ (\E frame \in 0 .. MaxStopFrame : AskFrame(frame)) \/ StoreFrame

EmulationNext ==
    \/ TraceGate \/ ScanSlot \/ SkipHit \/ TakeSlot \/ UncountSlot \/ ReadDelay \/ TracePause
    \/ Execute \/ EnterJob \/ AllowJob \/ Frontier \/ AskAgain \/ EnterSpan \/ SpanInstruction

DebugNext == ServerNext \/ EmulationNext

\* The guest does not stay in STOP, so the emulation thread goes on; the client may stop
\* sending.
DebugSpec == DebugInit /\ [][DebugNext]_debug_vars /\ WF_debug_vars(EmulationNext)

(***************************************************************************)
(* Properties.                                                             *)
(***************************************************************************)
(* "freeze the run the (skip+1)-th time execution reaches an armed PC"     *)
(* (debug_server.c:204): an instruction with a stop the client was         *)
(* answered for is not executed before the stop is taken.                  *)
StopNotPassed == dbg.passed = {}

\* A stop was taken, or a pause or a frame stop is posted.
HoldOwed == emu.stopping \/ dbg.pause_requested \/ dbg.pause_at_frame # 0

(* debug_server.c:232, :289, :115: while no stop has been taken yet, none  *)
(* the client was answered for is run over by the traced tiers, by a job   *)
(* with a frontier, or at the first operation of a word of a span.  Behind *)
(* it a span (cdi_loader_jobs.c:52) runs over stops at its loop control    *)
(* and those answered since it was dispatched, but over no other.  And a   *)
(* stop that was taken, a pause, or a frame stop that is not withdrawn,    *)
(* ends in the run being held, by a span too.                              *)
StopsHold ==
    /\ []("running" \notin dbg.passed)
    /\ HoldOwed ~> emu.held \/ ~HoldOwed
=============================================================================
