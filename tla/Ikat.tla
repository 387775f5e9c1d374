-------------------------------- MODULE Ikat --------------------------------
(***************************************************************************)
(* The IKAT serial gate (runner/src/slave.c) with the media state it       *)
(* watches (runner/src/cdi_media.c). Channel C answers system commands,    *)
(* channel D drives the disc, channel A reports the pointing device; each  *)
(* channel holds one reply and owns one interrupt-status bit.              *)
(*                                                                         *)
(* A reply is a name and the number of its bytes still unread. Time counts *)
(* the 25-cycle quanta of mcd212_tick. Whether the pointing device has     *)
(* something to report when it is sampled is the environment's choice. The *)
(* debug server mounts and ejects discs from a thread of its own; all else *)
(* runs on the emulation thread, a register access or a quantum at a time. *)
(***************************************************************************)
EXTENDS Naturals, FiniteSets

CONSTANTS
  CommandBytes,   \* bytes of a disc command, 4
  ReplyBytes,     \* bytes of a reply, 4 (some replies of channel C have 3)
  DeferTicks,     \* quanta in the one millisecond a disc reply is deferred
  PointerTicks,   \* quanta in the 25 ms pointer period
  MaxIdle,        \* quanta an idle job may take at once, 64
  DiscCommands,   \* the channel-D commands the host uses
  Masks,          \* the interrupt masks the host writes
  SystemUsed,     \* whether the host uses channel C
  PointerUsed,    \* whether the pointing device ever has something to report
  MaxMedia        \* bound on the mounts and ejects

Channel == {"A", "C", "D"}
None == "none"

\* Channel D: the commands that wait for their four bytes, and the replies.
FourByteCommands == {"A1", "A6", "B0", "B2", "C2", "C3", "C4", "C5", "E0", "E1"}
Seeks == {"E0", "E1"}
StatusRequests == {"A1", "B0"}
PlainReplies == {"B2", "C2", "C3", "C4", "C5"}
Replies == PlainReplies \cup {"B1", "disc", "no_disc", "busy", "on_target", "packet", "system"}

ASSUME TicksAssumption ==
  /\ CommandBytes \in Nat /\ CommandBytes > 1 /\ ReplyBytes \in Nat /\ ReplyBytes > 0
  /\ DeferTicks \in Nat /\ DeferTicks > 0 /\ PointerTicks \in Nat /\ PointerTicks > 0
  /\ MaxIdle \in Nat /\ MaxMedia \in Nat /\ SystemUsed \in BOOLEAN /\ PointerUsed \in BOOLEAN
  /\ Masks \subseteq SUBSET Channel
  /\ DiscCommands \subseteq FourByteCommands \cup {"B1", "other"}

VARIABLES
  response,               \* each channel's last reply
  unread,                 \* bytes of it still to be read
  command,                \* first byte of the channel-D command being received
  command_length,
  deferred,               \* the reply channel D will publish, or None
  deferred_ticks,         \* quanta until then
  seek_report_pending,    \* a seek was ordered; the next status is "busy"
  ready_report_pending,   \* the busy report is to be followed by on-target
  interrupt_status,       \* channels with their interrupt bit set
  interrupt_mask,         \* channels enabled
  line,                   \* level 2 pending at the CPU
  pointer_elapsed,        \* quanta since the pointing device was sampled
  media_generation,       \* the media generation last reported
  pc,                     \* "report" inside the quantum that reports a media change
  call,                   \* the CIAP operation the last step called
  present, generation,    \* the media state
  change                  \* a mount or eject has stored present but not counted it

VARIABLES    \* histories
  taken,        \* channels that were pending when an interrupt was last taken
  rebooting,    \* a warm reset has dropped the line; the mask is still to be written
  blocked,      \* the deferred reply was due and found unread bytes
  told,         \* the media state last reported
  heard,        \* the last channel-D reply the host read to its end
  meanwhile     \* what happened since a busy report was ordered

channels == <<response, unread, interrupt_status, interrupt_mask, line, taken, rebooting>>
receiving == <<command, command_length>>
deferral == <<deferred, deferred_ticks, blocked>>
seeking == <<seek_report_pending, ready_report_pending>>
reporting == <<media_generation, told, pc>>
media == <<present, generation, change>>
vars == <<channels, receiving, deferral, seeking, reporting, media, pointer_elapsed,
          call, heard, meanwhile>>

Init ==
  /\ response = [c \in Channel |-> None] /\ unread = [c \in Channel |-> 0]
  /\ interrupt_status = {} /\ interrupt_mask = {} /\ line = FALSE
  /\ command = None /\ command_length = 0
  /\ deferred = None /\ deferred_ticks = 0
  /\ seek_report_pending = FALSE /\ ready_report_pending = FALSE
  /\ pointer_elapsed = 0
  /\ present \in BOOLEAN /\ generation = 0 /\ change = FALSE
  /\ media_generation = 0 /\ told = present /\ pc = "run"
  /\ call = None /\ taken = {} /\ rebooting = FALSE /\ blocked = FALSE
  /\ heard = None /\ meanwhile = {}

-----------------------------------------------------------------------------
(* Replies and interrupts. *)

\* What channel c publishes when channel D publishes reply d.
Published(c, d) == CASE c = "A" -> "packet" [] c = "C" -> "system" [] OTHER -> d

\* publish_and_interrupt on the channels of a set.
Publish(on, d) ==
  /\ response' = [c \in Channel |-> IF c \in on THEN Published(c, d) ELSE response[c]]
  /\ unread' = [c \in Channel |-> IF c \in on THEN ReplyBytes ELSE unread[c]]
  /\ interrupt_status' = interrupt_status \cup on
  /\ line' = (line \/ on \cap interrupt_mask # {})
  /\ taken' = taken \ on
  /\ UNCHANGED <<interrupt_mask, rebooting>>

\* Faulty variant: the first byte read clears the interrupt.
Faulty_StatusAfterRead(c) == interrupt_status \ {c}

\* The last byte read clears the channel's interrupt bit.
StatusAfterRead(c) == IF unread[c] = 1 THEN interrupt_status \ {c} ELSE interrupt_status

\* read_register on an output register that holds unread bytes.
ReadResponse(c) ==
  /\ pc = "run" /\ unread[c] > 0
  /\ unread' = [unread EXCEPT ![c] = @ - 1]
  /\ interrupt_status' = StatusAfterRead(c)
  /\ heard' = IF c = "D" /\ unread[c] = 1 THEN response[c] ELSE heard
  /\ call' = None
  /\ UNCHANGED <<response, interrupt_mask, line, taken, rebooting, receiving, deferral,
                 seeking, reporting, media, pointer_elapsed, meanwhile>>

LineAfterMask(m) == (line \/ interrupt_status \cap m # {})

\* write_register on the interrupt mask.
WriteMask(m) ==
  /\ pc = "run"
  /\ interrupt_mask' = m
  /\ line' = LineAfterMask(m)
  /\ rebooting' = FALSE
  /\ call' = None
  /\ UNCHANGED <<response, unread, interrupt_status, taken, receiving, deferral, seeking,
                 reporting, media, pointer_elapsed, heard, meanwhile>>

\* recomp_take_irq consumes the pending edge of level 2 and enters the driver.
TakeInterrupt ==
  /\ pc = "run" /\ line
  /\ line' = FALSE
  /\ taken' = interrupt_status
  /\ call' = None
  /\ UNCHANGED <<response, unread, interrupt_status, interrupt_mask, rebooting, receiving,
                 deferral, seeking, reporting, media, pointer_elapsed, heard, meanwhile>>

-----------------------------------------------------------------------------
(* Channel C: handle_channel_c executes every byte. *)

SystemCommand ==
  /\ pc = "run" /\ SystemUsed
  /\ Publish({"C"}, None)
  /\ call' = None
  /\ UNCHANGED <<receiving, deferral, seeking, reporting, media, pointer_elapsed, heard,
                 meanwhile>>

\* Command $88 resets the CPU and its pending interrupts at once; the gate itself keeps
\* its replies, its mask and a half-received disc command.
WarmReset ==
  /\ pc = "run" /\ SystemUsed
  /\ line' = FALSE /\ taken' = {} /\ rebooting' = TRUE
  /\ call' = "cpu_reset"
  /\ UNCHANGED <<response, unread, interrupt_status, interrupt_mask, receiving, deferral,
                 seeking, reporting, media, pointer_elapsed, heard, meanwhile>>

-----------------------------------------------------------------------------
(* Channel D: handle_channel_d executes a command at its last byte. *)

\* A byte that leaves the command incomplete; after the first, any byte counts.
CollectByte(c) ==
  /\ pc = "run"
  /\ \/ /\ command_length = 0 /\ c \in FourByteCommands
        /\ command' = c
     \/ /\ command_length \in 1 .. CommandBytes - 2
        /\ UNCHANGED command
  /\ command_length' = command_length + 1
  /\ call' = None
  /\ UNCHANGED <<channels, deferral, seeking, reporting, media, pointer_elapsed, heard,
                 meanwhile>>

\* The byte that completes command c.
Completes(c) ==
  /\ pc = "run"
  /\ \/ c \notin FourByteCommands /\ command_length = 0
     \/ c = command /\ command_length = CommandBytes - 1
  /\ command' = None /\ command_length' = 0
  /\ UNCHANGED <<reporting, media, pointer_elapsed>>

\* defer_response: a reply already waiting is replaced.
Defer(reply) ==
  /\ deferred' = reply /\ deferred_ticks' = DeferTicks /\ blocked' = FALSE

\* make_disc_status.
DiscStatus == IF present THEN "disc" ELSE "no_disc"

\* A1 and B0 outside a seek; B0 also restarts the transport.
RequestStatus(c) ==
  /\ Completes(c) /\ c \in StatusRequests /\ ~seek_report_pending
  /\ call' = IF c = "B0" THEN "resume" ELSE None
  /\ Defer(DiscStatus)
  /\ meanwhile' = meanwhile \cup {"command"}
  /\ UNCHANGED <<channels, seeking, heard>>

\* After a seek they order the busy report, with on-target to follow. (The history
\* follows the reports of a host that has read the earlier replies.)
RequestSeekStatus(c) ==
  /\ Completes(c) /\ c \in StatusRequests /\ seek_report_pending
  /\ call' = IF c = "B0" THEN "resume" ELSE None
  /\ Defer("busy")
  /\ seek_report_pending' = FALSE /\ ready_report_pending' = TRUE
  /\ heard' = None /\ meanwhile' = IF unread["D"] = 0 THEN {} ELSE {"command"}
  /\ UNCHANGED channels

\* B2, C2, C3, C4 and C5; C5 ends the operation and its reports.
PlainCommand(c) ==
  /\ Completes(c) /\ c \in PlainReplies
  /\ Defer(c)
  /\ seek_report_pending' = (seek_report_pending /\ c # "C5")
  /\ ready_report_pending' = (ready_report_pending /\ c # "C5")
  /\ meanwhile' = meanwhile \cup {IF c = "C5" THEN "cancel" ELSE "command"}
  /\ call' = None
  /\ UNCHANGED <<channels, heard>>

\* B1 answers at once, over whatever is unread.
ImmediateCommand ==
  /\ Completes("B1")
  /\ Publish({"D"}, "B1")
  /\ meanwhile' = meanwhile \cup {"command"}
  /\ call' = None
  /\ UNCHANGED <<deferral, seeking, heard>>

\* E0 and E1 move the drive.
Seek(c) ==
  /\ Completes(c) /\ c \in Seeks
  /\ call' = IF c = "E0" THEN "seek_audio" ELSE "seek_data"
  /\ seek_report_pending' = TRUE
  /\ meanwhile' = meanwhile \cup {"cancel"}
  /\ UNCHANGED <<channels, deferral, ready_report_pending, heard>>

\* A6 and unknown commands are dropped.
DroppedCommand(c) ==
  /\ Completes(c) /\ c \notin StatusRequests \cup PlainReplies \cup Seeks \cup {"B1"}
  /\ call' = None
  /\ UNCHANGED <<channels, deferral, seeking, heard, meanwhile>>

-----------------------------------------------------------------------------
(* slave_increment_time: one quantum of device time. *)

Due == deferred # None /\ deferred_ticks <= 1

\* Faulty variant: a deferred reply does not wait for the host.
Faulty_Lands == Due

\* A due reply waits until the last one has been read.
Lands == Due /\ unread["D"] = 0

\* The pointing device is sampled in this quantum.
Sampled == pointer_elapsed + 1 >= PointerTicks

PassPointerTime ==
  pointer_elapsed' = IF Sampled THEN pointer_elapsed + 1 - PointerTicks ELSE pointer_elapsed + 1

\* A reply that stays deferred comes one quantum nearer.
Approach ==
  /\ deferred_ticks' = IF deferred # None /\ deferred_ticks > 0 THEN deferred_ticks - 1
                                                              ELSE deferred_ticks
  /\ blocked' = Due
  /\ UNCHANGED deferred

\* Faulty variant: the on-target report is forgotten.
Faulty_Follow ==
  /\ deferred' = None /\ deferred_ticks' = 0 /\ blocked' = FALSE
  /\ ready_report_pending' = FALSE

\* Behind a busy report the on-target report is deferred in turn.
Follow ==
  /\ deferred' = IF ready_report_pending THEN "on_target" ELSE None
  /\ deferred_ticks' = IF ready_report_pending THEN DeferTicks ELSE 0
  /\ blocked' = FALSE
  /\ ready_report_pending' = FALSE

\* emit_pointer_packet reports if there was motion or a button changed.
MayReport(packet) == packet => Sampled /\ PointerUsed
PacketChannel(packet) == IF packet THEN {"A"} ELSE {}

\* A quantum in which channel D publishes nothing.
QuietTick ==
  /\ pc = "run" /\ generation = media_generation /\ ~Lands
  /\ PassPointerTime
  /\ \E packet \in BOOLEAN : MayReport(packet) /\ Publish(PacketChannel(packet), None)
  /\ Approach
  /\ call' = None
  /\ UNCHANGED <<receiving, seeking, reporting, media, heard, meanwhile>>

\* A quantum in which the deferred reply lands; C4's restarts the transport.
LandingTick ==
  /\ pc = "run" /\ generation = media_generation /\ Lands
  /\ PassPointerTime
  /\ \E packet \in BOOLEAN :
       MayReport(packet) /\ Publish(PacketChannel(packet) \cup {"D"}, deferred)
  /\ Follow
  /\ call' = IF deferred = "C4" THEN "resume" ELSE None
  /\ UNCHANGED <<receiving, seek_report_pending, reporting, media, heard, meanwhile>>

\* The quantum notices a media change, having loaded the generation ...
NoticeMedia ==
  /\ pc = "run" /\ generation # media_generation
  /\ media_generation' = generation
  /\ pc' = "report"
  /\ call' = None
  /\ UNCHANGED <<channels, receiving, deferral, seeking, told, media, pointer_elapsed, heard,
                 meanwhile>>

\* ... and reports the presence it loads after that, over whatever is unread. What is
\* left of the quantum finds channel D unread.
ReportMedia ==
  /\ pc = "report" /\ pc' = "run"
  /\ told' = present
  /\ PassPointerTime
  /\ \E packet \in BOOLEAN :
       MayReport(packet) /\ Publish(PacketChannel(packet) \cup {"D"}, DiscStatus)
  /\ Approach
  /\ meanwhile' = meanwhile \cup {"cancel"}
  /\ call' = None
  /\ UNCHANGED <<receiving, seeking, media_generation, media, heard>>

\* Faulty variant: the job sleeps through the quantum of the next event.
Faulty_QuietQuanta ==
  LET limit == IF deferred # None /\ deferred_ticks < PointerTicks - pointer_elapsed
               THEN deferred_ticks ELSE PointerTicks - pointer_elapsed
  IN  limit

\* slave_quiet_quanta: the quanta before the next event of this device.
QuietQuanta ==
  LET limit == IF deferred # None /\ deferred_ticks < PointerTicks - pointer_elapsed
               THEN deferred_ticks ELSE PointerTicks - pointer_elapsed
  IN  IF limit = 0 THEN 0 ELSE limit - 1

\* cdi_board_idle_quanta takes several quanta of a halted CPU at once, as many as the
\* other devices and the observers allow (slave_advance_quiet).
IdleJob(n) ==
  /\ pc = "run" /\ generation = media_generation /\ ~line
  /\ n <= QuietQuanta
  /\ pointer_elapsed' = pointer_elapsed + n
  /\ deferred_ticks' = IF deferred # None THEN deferred_ticks - n ELSE deferred_ticks
  /\ call' = None
  /\ UNCHANGED <<channels, receiving, deferred, blocked, seeking, reporting, media, heard,
                 meanwhile>>

-----------------------------------------------------------------------------
(* cdi_media.c, on the debug server's thread: presence is stored, then counted. *)

StorePresence(p) ==
  /\ ~change /\ generation < MaxMedia
  /\ p \/ present                    \* ejecting an empty drive does nothing
  /\ present' = p /\ change' = TRUE
  /\ UNCHANGED <<channels, receiving, deferral, seeking, reporting, generation,
                 pointer_elapsed, call, heard, meanwhile>>

\* Faulty variant: an eject is not counted.
Faulty_Counted == IF present THEN generation + 1 ELSE generation

Counted == generation + 1

CountChange ==
  /\ change
  /\ generation' = Counted /\ change' = FALSE
  /\ UNCHANGED <<channels, receiving, deferral, seeking, reporting, present,
                 pointer_elapsed, call, heard, meanwhile>>

DiscByte(c) ==
  \/ CollectByte(c) \/ RequestStatus(c) \/ RequestSeekStatus(c) \/ PlainCommand(c)
  \/ Seek(c) \/ DroppedCommand(c)

Tick == QuietTick \/ LandingTick \/ NoticeMedia \/ ReportMedia

Next ==
  \/ \E c \in Channel : ReadResponse(c)
  \/ \E m \in Masks : WriteMask(m)
  \/ TakeInterrupt \/ SystemCommand \/ WarmReset
  \/ \E c \in DiscCommands : DiscByte(c)
  \/ "B1" \in DiscCommands /\ ImmediateCommand
  \/ Tick
  \/ \E n \in 2 .. MaxIdle : IdleJob(n)
  \/ \E p \in BOOLEAN : StorePresence(p)
  \/ CountChange

Spec == Init /\ [][Next]_vars

\* Device time passes on every instruction and while the CPU is halted, and the disc
\* driver reads the replies it is interrupted for.
FairSpec == Spec /\ WF_vars(Tick) /\ WF_vars(ReadResponse("D"))

-----------------------------------------------------------------------------
(* Properties. *)

\* Every variable holds a value of its type.
TypeOK ==
  /\ response \in [Channel -> Replies \cup {None}] /\ unread \in [Channel -> 0 .. ReplyBytes]
  /\ interrupt_status \subseteq Channel /\ interrupt_mask \subseteq Channel /\ line \in BOOLEAN
  /\ command \in FourByteCommands \cup {None} /\ command_length \in 0 .. CommandBytes - 1
  /\ deferred \in Replies \cup {None} /\ deferred_ticks \in 0 .. DeferTicks
  /\ seek_report_pending \in BOOLEAN /\ ready_report_pending \in BOOLEAN
  /\ pointer_elapsed \in Nat
  /\ present \in BOOLEAN /\ generation \in Nat /\ change \in BOOLEAN
  /\ media_generation \in Nat /\ told \in BOOLEAN /\ pc \in {"run", "report"}
  /\ call \in {None, "resume", "seek_audio", "seek_data", "cpu_reset"}
  /\ taken \subseteq Channel /\ rebooting \in BOOLEAN /\ blocked \in BOOLEAN
  /\ heard \in Replies \cup {None} /\ meanwhile \subseteq {"command", "cancel"}

\* The driver may trust the interrupt status: a channel's bit is set exactly while it
\* holds unread bytes (raise_channel_interrupt, read_register).
StatusMeansUnread == interrupt_status = {c \in Channel : unread[c] > 0}

\* No reply waits unannounced: an enabled channel with its bit set has the line pending,
\* or an interrupt has been taken since its reply came. After a warm reset this holds
\* again once the mask is written (raise_channel_interrupt, write_register).
NoLostReport == ~rebooting => line \/ interrupt_status \cap interrupt_mask \subseteq taken

\* A reply reaches a host that goes by the interrupt line and the status register:
\* its bit is set until it is read, and its interrupt is not lost to a mask write, to
\* another channel's or to a warm reset (raise_channel_interrupt, read_register).
ReplyReachesHost == StatusMeansUnread /\ NoLostReport

\* An idle job never sleeps past an event: the pointer period does not run over, and a
\* reply that is due has been held back by unread bytes only.
NothingOverslept ==
  /\ pointer_elapsed < PointerTicks
  /\ deferred # None /\ deferred_ticks = 0 => blocked

\* However mounts and ejects interleave with the quantum that notices them, the last
\* report agrees with the drive once both threads are done.
MediaSettles ==
  pc = "run" /\ generation = media_generation /\ ~change => told = present

\* The host reads busy before on-target, unless it meddled ("busy and unsolicited
\* on-target messages must survive independently", tests/slave_test.c).
BusyBeforeOnTarget ==
  [][heard' = "on_target" /\ heard # "on_target" /\ meanwhile = {} => heard = "busy"]_vars

\* A host that only reads gets both reports of a seek.
HandshakeCompletes ==
  deferred = "busy" /\ meanwhile = {} ~> heard = "on_target" \/ meanwhile # {}

\* "After a seek the drive answers with a busy state ($10) and follows up unsolicited
\* with on-target ($0E) once positioned" (handle_channel_d): unless the operation ends,
\* another seek is ordered or the disc changes.
OnTargetFollowsBusy ==
  response["D"] = "busy" ~> response["D"] = "on_target" \/ "cancel" \in meanwhile
=============================================================================
