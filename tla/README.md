# A TLA+ model of the CD-i runtime

This directory holds a verification project for the runtime in `runner/`, which runs
statically recompiled CD-i programs on a model of the player's board, and for its
co-simulation with the oracle. The modules are translated from the C sources;
`PROJECT.json` maps every definition to its lines and lists the hazards the properties
are about.

## 1. The system and its parts

A CD-i player is an SCC68070 CPU, two RAM banks, a video chip (MCD212), a CD interface
with an audio processor (CIAP), a serial gate to the drive and the pointing device
(IKAT), a battery-backed clock and SRAM, and a disc. The program emulates the board,
runs the guest's code natively where a compiled image of it exists, and interprets it
elsewhere. Some firmware loops are replaced by native jobs. Two threads matter: the
emulation thread, which runs the CPU, all devices and, between quanta, the front end with
its audio pump; and the debug server's thread, which mounts and ejects discs, arms stops,
injects input, copies pictures and hashes RAM.

| component | state | operations | talks to | what is hard | what makes it correct |
|---|---|---|---|---|---|
| CIAP, `cdic.c` | registers, two data, two locator and two ADPCM buffers with their owners, head position, audio consumer, completion latency | register writes, ISR read, transport pause/resume/seek, one quantum | CPU, IKAT, media, audio ring, DMA | events in the same quantum, commands in any order, both buffers owned, acknowledge-on-read | owned buffers intact, each sector and sound once, no interrupt lost or spurious, a reset stays silent, requested completions come |
| IKAT, `slave.c` | per channel one reply and one deferred reply, command being received, seek handshake, interrupt status and mask, media generation seen | byte writes and reads, mask, one quantum, quiet skip | CPU level 2, CIAP transport, media, pointer | one deferred slot per channel, media changes on another thread, idle skip | no reply unannounced, nothing overslept, the handshake in order, the last media report true |
| media, `cdi_media.c` | presence, generation, image | mount, eject, read | IKAT, CIAP, debug server | store order between threads | a change is noticed and reported as it is |
| native binding, `cdi_native.c` | cache of identities, sync-word index, ranges, epochs | RAM write notification, resolve, reset, token tests | bus, trampoline, jobs | self-modifying RAM, cached rejections, reused slots, resets with activations in flight | native code runs only over its own image |
| jobs, `cdi_{drawing,memory,service,loader}_jobs.c` | one native activation | segments with safepoints | binding, debug server, bus | interrupts, holds and DMA between their operations | from outside they are the firmware |
| interpreter, `m68k_interp.c`, `m68k_arith.c` | CPU, cycle accumulator | one instruction, bus error, exception | bus, runtime | instructions cut short, edges of the arithmetic | exact arithmetic, frames restore, no time lost |
| board clock and raster, `mcd212.c` | raster counters, control pointers | line, control areas, idle job | all devices | skipping idle time must not change anything visible | idle job = the same number of ticks |
| video, `mcd212_video.c` | registers, two buffers, kept lines | control instruction, line, field | DRAM, capture, front end, debug server | lines kept over fields, geometry changes, copies without a lock | the picture is the reference's; a copy is one field |
| raster capture, `cdi_raster_jobs.c` | rows and frames with counts | begin, span, publish, acquire, release | video, GPU | sharing across frames, refused allocations | rows live while held and show the native pixels |
| front end and GPU | textures, last generation | present, expose, reset | capture, video | GPU failures, skipped uploads | the window shows the current field |
| runtime, `runtime.c`, `main.c` | pending levels and vectors, landing pads, frames | raise, clear, take, trampoline, reset | all | two pending masks, longjmps over C frames | every request is taken with its vector, no pad outlives its frame |
| peripherals, `periph.c` | timers, DMA channel | tick, quiet skip, DMA burst | CPU, CIAP | wrap and reload, burst inside a store | skip = ticks, a block arrives whole |
| NVRAM, `cdi_nvram.c` | SRAM, clock, serial key and transfer | byte access, save, load | bus, file system | stop between write and rename | a load finds the old or the new contents; the clock keeps a date |
| pointer input, `cdi_input.c` | motion, buttons, queue of transitions | add, take, press, acknowledge | front end, debug server, IKAT | lock-free sharing, full queue, lost focus | motion conserved and drained, the guest comes to know the buttons |
| audio ring, `cdi_audio.c` | ring, two indices, ADPCM history | decode, read | CIAP, front end | full ring, index wrap | frames read are the frames decoded, in order |
| debug server, `debug_server.c` | stop slots, trace ring, observation epoch | arm, clear, pause, query | everything | slots shared with the hot path | an armed stop is hit where something looks for it |
| co-simulation, `cosim_state.c`, `oracle/` | trace records, page hashes | record, inject, hash | bus, server | incremental hashes | two runs differ from the injected fault on, and before it only in the seams of exceptions |

## 2. Modules

| module | models |
|---|---|
| `Ciap` (`MCCiap`, `MCCiapHosts`, `MCCiapArm`, `CiapProofs`) | `cdic.c`: registers, sector delivery, audio processor, event latch, transport calls |
| `Ikat` (`MCIkat`, `IkatProofs`) | `slave.c`, the store order of `cdi_media.c`, and the idle job as far as it concerns the gate |
| `NativeBinding` (`MCNativeBinding`, `NativeProofs`) | `cdi_native.c` and the safepoint of `cdi_drawing_jobs.c` |
| `Pointer` (`MCPointer`, `FrontEndProofs`) | `cdi_input.c` and `emit_pointer_packet` of `slave.c` |
| `M68k` | the instruction set of `m68k_interp.c` and `m68k_arith.c` over the RAM accessors of `cdi_bus.c`, as operators |
| `Interp` (`InterpProofs`) | its loop: costs, bus errors, exceptions, device time |
| `Jobs` (`MCInterp`) | the fill, lookup and drawing jobs beside the same routines run by `Interp` |
| `Video` | the pixel pipeline of `mcd212_video.c`: control instructions, decoders, reference and span compositors, as operators |
| `Display` (`MCDisplay`) | raster sequencer and control areas of `mcd212.c`, kept lines and buffers of `mcd212_video.c`, capture of `cdi_raster_jobs.c`, beside a reference build |
| `StreamTimers`, `StreamClock` (`DeviceProofs`) | the clocks of `cdic.c` taken quantum by quantum (the abstract specification), and the deferred time of `CDI_STREAMING_HLE`, which implements it |
| `Timers` (`DeviceProofs`) | the timers of `periph.c` with their quiet skip |
| `IdleJob` (`BoardProofs`) | `cdi_board_idle_quanta` with all devices and the pumps between the quanta |
| `Dma` (`DeviceProofs`) | channel 1 of `periph.c` and the word port of `cdic.c` |
| `Nvram` (`DeviceProofs`) | `cdi_nvram.c` and the start and end of `main.c` |
| `AudioRing` (`DeviceProofs`) | `cdi_audio.c` |
| `FrameShare` (`BoardProofs`) | the published field of `mcd212_video.c` and its readers on another thread |
| `Presenter` (`FrontEndProofs`) | `cdi_raster_jobs.c`, `cdi_gpu.c` and `present_frame` of `cdi_frontend.c` |
| `Trampoline` (`BoardProofs`) | `main.c`'s loop, `runtime.c`'s latches, frames and landing pads |
| `DebugStop` (`MCDebugStop`, `BoardProofs`) | stops, pauses and frame stops of `debug_server.c`, and both kinds of native job as far as stops go |
| `Cosim` (`MCCosim`, `BoardProofs`) | `cosim_state.c`, `cosim_state.cpp` and the records of both sides |
| `LoaderJob` (`NativeProofs`) | `cdi_loader_jobs.c`, `cdi_loader_math.h` |
| `MCBoard` | `StreamClock`, `Timers` and the modules from `IdleJob` on, for one run |
| `Remainders` | lemmas about `%` by any positive number, for the proofs about wrapping indices, and induction |

`MCBoard` puts twelve modules side by side. They share no variable in these models, so a
behaviour chooses one part at the start and the others rest: interleaving them would only
multiply the states. `MCCiapHosts` and `MCIkat` split one device's environment in the
same way, into hosts that each use their own operations in every order (two of the three
hosts of `MCCiapHosts` leave interrupts off); `Ciap` and `Ikat`
themselves have all of them, and the theorems are about those.

### Ciap

Registers become what their bits stand for: BMAN three sets of owned buffers, ISR and IER
sets of event names, ASTAT a set. A sector is the header fields routing looks at. `Tick`
is one call of `advance_streaming`, and follows its order: completion, audio buffer, sector.
Every branch of `handle_register_write` that changes state is an action. `Tick(ejected)`
with `ejected` is the quantum in which the debug server ejects the disc between the
presence test and the read.

ICR has one level, which the host may program at any time, with events enabled or latched:
an interrupt it thereby asks for counts as taken for what was latched. The FILE register is
a word whose low byte names a file, and zero any: the selection of a sector takes the low byte
for that (`OfSelectedFile`), its events and boundaries the whole word (`OfFile`). A write of IER does not lower a line that is
raised, so `LineTellsEvents` says that a raised line has an event latched, not that it is
enabled. Assumed of the host: registers are accessed as words. A host that takes back the buffer
that is playing, or re-arms over it, is allowed; the history `misuse` records it, and
`HandoffPlayedOnce` makes no promise after it. The other histories are `taken` (events
latched when the interrupt was taken), `torn_down` (a reset since the last start),
`delivered` (positions given since the last seek) and `fresh` (hand-offs not yet
decoded); no guard reads them.

### Ikat

A reply is a name and the number of bytes unread. `DiscByte(c)` is one byte written to
channel D; a command takes effect with its last byte. The gate's calls to the CIAP are
recorded in `call`. A quantum is one of `QuietTick`, `LandingTick`, and the pair
`NoticeMedia`, `ReportMedia`: the latter load the generation and the presence in two
steps, between which the debug server may run, whose own mount or eject is two steps as
well (`StorePresence`, `CountChange`). `IdleJob(n)` is `cdi_board_idle_quanta` with any
`n` the gate allows; other devices may allow less, so every smaller `n` is possible.
Whether a pointer sample has something to report is left open. `rebooting`, `blocked`,
`told`, `heard` and `meanwhile` are histories for the properties.

### NativeBinding

RAM is a function from words to abstract values, of which the sync word and the header
words matter. A digest match is equality with a compiled image (SHA-256 is taken to be
collision free). Each RAM write is one word with its notification; longer writes are
several. `resolve` is one step per candidate tag, with nothing in between, as it runs on
the emulation thread. `held` is the set of tokens of native activations; the field
`stale`, read by properties only, says that the image was written to, or the cache
reset, since. `MaxEpoch`, `MaxResets` and `MaxTokens` are guards; the theorems hold for
every value of them.

### Pointer

Each thread's loop over the motion counter is a load (`BeginAdd`, `BeginPacket`) and then
either a successful exchange (`FinishAdd`, `FinishPacket`) or a failed one, which loads
again (`Retry`). One axis is modelled; the other runs the same code over its own counter
and enters only as a reason to send a packet (`other`). `pointer_repeat_count` is capped
at `MaxSpeed`, beyond which only its parity moves, which selects between equal speeds
there. Histories: `owed`, `unseen`, `guest`. The guest's decoding (`Motion`) is external.

### M68k, Interp and Jobs

The operators of `M68k` take a machine and return one. An access to an unmapped address
sets `fault` and every later effect is skipped, which is the `longjmp` of the bus error:
earlier effects stay. A byte has `ByteBits` bits, a word two and a long four of them; four
bits keep all carries, signs and overlaps. `ArithmeticExact` compares the arithmetic with
integers on operands at its edges. The decoder is external: an
instruction is the record of its fields, and each step of `Interp` decodes any of
`Instructions`. The status register is its named fields: bits without a meaning, which RTR and
STOP load and RTE masks away, are not kept. A frame that faults while a bus error is taken
leaves the interpreter's pad for `recomp_bus_error`, which tries a second frame below the
first (`BUS`, from which the trampoline goes on) and gives up if that faults too (`ABORT`);
so does the read of RTE's format word for its cost, which comes before the pad is armed. `ticked` is what the devices were given and `charged` what should have been
paid, in instructions and exceptions; `TimeConserved` relates the two.

`Jobs` runs a job beside `firmware`, the same routine executed by `Interp`'s instructions on
the same RAM, with interrupts, debugger holds and device writes between the operations.
The opcodes of the fill are in the repository; those of the other two routines are
read off the jobs' own operations and confirmed by their costs.

### Video and Display

`Video` has two compositors: the reference, which works pixel by pixel, and the span job of
`CDI_VIDEO_HLE`, which feeds run-length sources directly. `Display` runs the sequencer, the control
programs and the second one with its kept lines and partial buffer copies, and keeps in `ref`
what the reference build would have made of the same inputs. Guest stores, register writes
and a toggled capture may come between any two lines, `MaxChanges` times in all; a write
changes one register, so that the two planes are reprogrammed one after the other.
`decode_rgb555` does not look at the end of its row. Where it would write behind it
(`Overruns`, with the colour mode of DCR2) the behaviour is undefined, and the model stops.

### StreamTimers, StreamClock, Timers and IdleJob

Four views of skipped time. `StreamTimers` lets the clocks of the CIAP pass quantum by quantum;
what an event does besides its clock is `Ciap`'s matter, so its outcome here is any change of
the clocks the code can make. `StreamClock` adds `pending`, `deadline` and `deadline_valid` and
takes every path of `cdic_increment_time`, `observe_streaming` and
`cdi_streaming_quiet_quanta`; `ImplementsTimers` instantiates the first with the clocks the
deferred time would leave. `Timers` keeps the timers the guest sees and `faithful`, which take
each quantum singly and catch up after an idle job. `IdleJob` reduces every device to a
countdown and is about the loop itself: its limits taken once, its checks between
the pumps, and everything those can change; `stepped` takes each quantum singly.

### Nvram, AudioRing, Dma, LoaderJob

The SRAM of `Nvram` is one byte, the key two bits, and a clock register moves in one access.
A crash is possible in every step of a save; the code calls no `fsync`, so the model is of
a stopped process, not of a power failure. `AudioRing` decodes with the code's integer
predictors; `queue` is the abstract queue and `Reference` what the sectors decode to by
definition. In `Dma` the burst is one step, as it runs inside the store that starts it.
`LoaderJob` takes words as sets of bits, so that exclusive or is the symmetric difference;
`checksum` is the CRC from its definition, `firmware` the thirty instructions.

### FrameShare, Presenter

`FrameShare` makes every load and store of the two threads a step, in program order (the
releases of the repository are for x86-64; a weaker memory order is not modelled). A changed
copy of content the caller already has, or before the first field, copies nothing
(`SkipCopy`). `mcd212_video_reset` runs once, before the server starts (`main.c:255`), and is
`ShareInit`. `Presenter`
reduces a row to a colour; allocations, the GPU and the upload may fail in every call.

### Trampoline, DebugStop, Cosim

`Trampoline` keeps the stack of C frames above `main`'s loop and the three pads a `longjmp` can
go to. A device may raise or withdraw a request in an access and raise one in a tick. In
`DebugStop` a step is one access to a word both threads share, and there are two kinds of
native job. The fill, lookup and drawing jobs look at the observation epoch before every
operation (`Frontier`). The loader's span (`EnterSpan`, `SpanInstruction`) asks once, about
`$406BF4` to `$406C37`, traces the first operation of each word, and looks at nothing behind it:
a stop answered for after the dispatch, and any stop at the loop control `$406C38`, `$406C3A`,
`$406C5E`, is run over until the span yields. `debug_server.h:46` says that native jobs check
the epoch "at each private instruction frontier"; this one does not, and `StopsHold` claims for
it only what it was asked about.

`Cosim` runs two machines, each the runner's or the oracle's, on the same instructions, both
in one step, as neither sees the other. Gates 1 to 3 compare a side with itself, the fourth the
runner with the oracle; a comparison is chosen at the start. The two sides do not record an
exception alike: the runner has built the frame before it records the handler's first
instruction, the oracle takes the registers and hashes of the record first and builds the frame
in `Run` (`cdi_oracle.cpp:727`), and its first record is that of a machine before its reset
(`cdi_oracle.cpp:252`). Such a record is a `seam`. `DivergenceLocalized` demands equal records
outside the seams, and at the seam of an exception what `realign_divergence.py` may skip: stacks
one frame apart and, besides, differences in the status and the bank of the frame alone. The
tool's `seam_eq` asks for an equal status register as well; an exception taken in user mode
changes it, so the property does not. A frame is one word, and one that misses RAM is
lost (the program gives up there). A word over the end of a bank is assumed away
(`CosimInputs`), a long store whose second half is behind it is not. The server thread splits
hashing, storing the hash and clearing the mark. With `QueriesWait` it asks only when the sides
are parked, as the coordinator does; without, it shows the finding below.

## 3. Runs

| run | question | bounds and why |
|---|---|---|
| `ciap` | do owned buffers stay intact, is each sector and sound given once, does a reset stay quiet, does the line tell the events, do streams and sounds end? | three hosts; two films of three sectors (filtered, damaged, foreign and mode 1 ones among them), so that both buffers fill and one more passes; a disc whose one sector raises several events; two quanta per sound and two of latency, so that completions fall before, with and after the end of a buffer |
| `ciap_arm_completion` | does `$0140` complete, as the comments say? (no) | |
| `ikat` | do status, mask, line and warm reset agree, is anything overslept, does the media report settle, does a seek's handshake complete? | two-byte replies and commands, so that one byte read is not all and a command is interrupted by quanta; two media changes, of which one may hit the report of the other |
| `ikat_on_target` | does on-target follow every busy report, as the comment says? (no) | |
| `native_binding` | is native code bound and run only over its own image, and is none missed? | two overlapping images of different sizes, two slots, one token, one reset, the service build |
| `pointer` | is motion lost or doubled between the threads, do button states arrive in order and settle? | an int of -3..3 and reports of -3..2, so that two motions saturate and one report is not enough; a queue of two with indices modulo four, so that it fills and wraps; the held key's script also holds the mouse's button |
| `interp` | is the arithmetic exact, do frames restore, is time conserved, and are the jobs the firmware? | every instruction in its distinct forms from eight entries (user or supervisor, X, Z), and one whose bus-error frame lies over the end of RAM, on 64 bytes of RAM whose end is reached; one event between a job's operations |
| `interp_zero_divide` | does a division by zero trap? (no) | |
| `display` | is the picture the reference's, the capture the picture, and content that is said to stand still the same? | lines of four or six pixels, fields of at most six lines, three fields, five modes, six set-ups that between them use every coding, test, matte and cursor function; two changes, so that one may undo the other |
| `debug_stop` | is an armed stop ever run over? (yes) | |
| `cosim_query` | does a query leave the page cache alone, as the comment says? (no) | |
| `board` | the remaining parts, one to a behaviour: skipped time, timers, clock and battery file, ring, screen, shared field, idle job, frames and interrupts, stops, DMA, co-simulation, checksum span | the smallest sizes at which the limit is met: timers of two values, a clock that ticks once in a run, two sectors of sound, a ring of two frames with indices modulo six, two rows, a span with each bit of a word alone and all, an aperture of four words with DMACTL inside, six different periods of the devices |

The names of replies, events and buffers are not interchangeable and the sets are small,
so no symmetry is used. Deadlock is checked in `ciap`, `ikat` and `pointer`; elsewhere the bounds on fields,
events or commands, or an abort, end a behaviour.

Fairness. `Ciap` assumes weak fairness of `Tick(FALSE)`: the trampoline ticks the board on
every instruction and while the CPU is halted. Nothing obliges the debug server to eject.
`Ikat` assumes weak fairness of `Tick` for the same reason, and of `ReadResponse("D")`: the
disc driver reads the reply it is interrupted for. Host commands are never fair; liveness is
stated for behaviours in which the host eventually only waits. `Pointer` assumes weak
fairness of `Sample`, as board time never stops and a packet is due every 25 ms of it, and
of each thread's loop, which nothing can leave in the middle. `Trampoline` and `DebugStop`
assume that the emulation thread goes on; the player's quit and the client's commands are
never fair.

Each property has a mutant: a variant of one definition (named `Faulty_...`, next to the
definition it replaces) with a plausible mistake, under which TLC finds the property
violated.

## 4. Findings

* `ciap_arm_completion`. Comments in `cdic.c` (lines 82 and 493) list APCR `$0140` among the
  commands that end in a completion interrupt. `handle_register_write` takes it in the
  play branch and requests none. A host that only waits never sees it.
* `ikat_on_target`. A comment in `handle_channel_d` says that on-target follows busy. The
  channel has one deferred slot: another command completed while on-target waits replaces it
  (and one completed before busy lands replaces busy). `HandshakeCompletes` shows what does
  hold: a host that only reads gets both.
* `interp_zero_divide`. `do_div` leaves vector 5 to "the surrounding instruction path", which
  does not deliver it.
* `debug_stop`. A slot's PC is published before the slot is counted, and cleared before the
  count is. A stop consumed in between takes another's count with it, and the hot path no longer
  looks for the one that is armed. `StopsHold` shows what does hold.
* `cosim_query`. A hash of live RAM, answered while instructions execute, clears the mark of a
  page written since it was hashed, although a comment says that the query does not disturb
  the cache. With queries that wait for the sides to park, `DivergenceLocalized` holds.

## 5. Theorems

TLAPS proves the following for every value of the constants that satisfies the
assumptions in the modules: positive periods, finite reply and command lengths
(`TicksAssumption`, `InputAssumption`), images that have the sync word first and a header
that names their size (`SizesAssumption`, `ImagesAssumption`), quanta shorter
than a sector and than a sound (`PeriodsAssumption`), a `Never` beyond every deadline
(`NeverAssumption`), reports that fit an int and a split that fits a report
(`RangeAssumption`), index arithmetic that wraps at a multiple of the capacity
(`QueueAssumption`, `AudioAssumption`), a quantum no longer than the prescaler
(`TimersAssumption`), clock settings from the calendar and a key that starts with a one
(`RtcAssumption`), words of the co-simulated program that do not lie over the end of a bank,
with faults injected only where `cdi_cosim_inject_reg` and `cdi_cosim_inject_ram` can
(`CosimInputs`), DMACTL and the driver's offsets within the aperture (`DmaAssumption`), 32-bit words in the
loader's bank and registers (`LoaderAssumption`), and for the interpreter (`InterpAssumption`) a byte of an even number of bits whose halves hold a decimal
digit, interrupt levels that fit the status register, addresses and handlers of 32 bits, with
a handler for bus errors and TRAP, and decoded instructions whose fields are in range.
Bounds such as `MaxEpoch`, `MaxFields` or `StopSeq` may have any value.

* `CiapProofs`: `TypeCorrect`, `RestingDecoderEmpty` (from `ResetIsFinal` and
  `IdleWordHarmless`), `LineExact` (from `InterruptNotLost` and `LineHasEvent`), `OwnedIntact`,
  `DeliveredOnce`, `PlayedOnce`, `BoundaryAnnounced`. A reset stays silent only because a
  resume asks for the arm and every arm comes with a start: the inductive invariant adds that
  a torn-down decoder is not armed. That a raised line has an event needs that a line is
  raised only with ICR programmed. `PlayedOnce` is proved together with the types of the
  audio state and that ASTAT is busy while a buffer plays.
* `IkatProofs`: `TypeCorrect`, `RepliesReachHost` (from `StatusExact` and `ReportsAnnounced`),
  `IdleTimeFaithful`, `MediaReportSettles`, `HandshakeInOrder`. The invariant is the
  conjunction of one for the channels, one for time, one for the media (the gate never has
  seen a generation that was not counted, and a report under way will load the newest
  presence) and one for the handshake, which distinguishes the phases ordered, busy unread,
  busy read, on-target unread and all read.
* `NativeProofs`, the code that runs in the guest's place.
  `BoundOverOwnImage`, `CachesAreCurrent` (from `RejectionsCurrent` and
  `FilterHidesNothing`), `TokensSafe` (from `StaleActivationsStop` and `UnmovedEpochSuffices`),
  `NoImageMissed` (`NativeBinding`). The invariant of the cache says of every used slot that its size is at
  least the smallest and stays in its bank, that a checked one agrees with the header in RAM
  and, if bound, with a compiled image, and that the range of its bank contains it: without
  the last part the filter could swallow a revoking write. The tokens need that epochs only
  grow and are never handed out twice. For `NoImageMissed`, `TagInv` says that the list of
  tags and the index into it are inverse and name exactly the words that hold the sync (the
  swap of a removal keeps both), and `ScanInv` that no tag a resolve is past has an image
  that reaches the address.
  `SpansAreFirmware` (`LoaderJob`): `LoaderInv` says that in flight the firmware has run the
  instructions counted so far from the registers the word began with, and that what was folded
  is `fold_word` of the word read. It rests on three results about words as sets of bits. The
  registers after each of the thirty instructions are followed to those of `fold_word`
  (`RunFold`), its flags included. The thirty-two steps of the bitwise checksum are unwound: a
  bit of it is one bit of the shifted checksum and word, and one of the division's quotient
  for each term of the polynomial (`Unwound`). And as the polynomial is
  `(x + 1)(x^23 + x^5 + 1)`, two neighbouring bits of the quotient differ by three bits at
  most, and its last one is the parity that the firmware looks up in its table
  (`QuotientParity`, `FoldParity`).
* `FrontEndProofs`, the two modules of the front end's thread.
  `MotionIsConserved`, `GuestKnowsButtons`, `InactiveMouseReleased`,
  `ButtonsReachTheGuest` (`Pointer`): conservation rests on two lemmas, that the guarded addition is the
  clipped sum and that a report decodes to what was encoded, and on the types of the loops.
  The last theorem combines the two before it with the order of the queue: the slots between
  the indices, which wrap, are the transitions the guest has not seen.
  `ScreenCurrent` (`Presenter`): `ShownInv` says that an identity stands for one colour, in
  the capture and in the GPU's memory, that what is captured is what is drawn, and that the
  front end's texture and output show the content noted for them; `AliveInv` adds that every
  row and frame is counted exactly as often as the capture, the published frame and the
  consumer use it, whatever allocation is refused.
* `DeviceProofs`, the devices that keep time, a ring or a block.
  `TypeCorrect`, `DeferralExact`, `DeferralImplements` (`StreamClock`): deferred time ends
  before every running clock's event, a valid deadline is the nearest event seen from the
  last settled time, and an access finds nothing deferred; the refinement maps every
  deferred quantum to a quiet step of `StreamTimers`.
  `TimersTypeCorrect`, `SkipExact` (`Timers`): while `faithful` is behind, skipping the
  remaining quanta at once from where it is gives the timers the guest sees; the key lemma
  (`SinglyStep`) is that a quantum taken singly and a skip of one less make the skip.
  `ImageAlwaysWhole` (`Nvram`): the SRAM never holds the mark of a broken file, and after the
  write the temporary is the SRAM that the rename makes the file.
  `ClockIsKept` (`Nvram`): `CalendarInv` keeps the clock in the calendar through every carry and
  every register a guest may write, and says that the registers of a transfer in which
  nothing was written are those of the time latched. A clock may run past 2069, where it
  still holds a date, so no bound on a run's length is needed.
  `RingInOrder` (`AudioRing`, the half of `RingIsQueue` about the ring): `RingInv` adds that a
  frame is stored only while the queue is not full; that its slot is then none of the
  queue's follows from the lemmas of `Remainders`, on indices less than a ring apart.
  `BlockMovesWhole` (`Dma`): by induction over the words of a burst, `MovedSoFar` says what
  RAM or the aperture holds after any number of them; in the aperture a word is that of the
  last turn. `DmaInv` adds that a burst cut short has left the address and the counter as
  the driver asked for them.
* `BoardProofs`, what runs around the devices.
  `JobExact` (`IdleJob`): `IdleInv` says that within a job no device has an event within the limit,
  no line is raised, and the stepped board is the guest's advanced by the quanta completed.
  `CopyWhole` (`FrameShare`): `ShareInv` lists, for each store of a publication still to come, what the
  buffers and words hold, with the counter odd from the second store until after the
  generation's, and says that a reader holds only loads of the published field as long as
  the counter is the one it began with.
  `GuardFollowsStack`, `DeliveredWithOwnVector` (`Trampoline`): `TrampolineInv` says that only
  the frame that executes, on a stack of any depth, may be an interpreter run, that the guard
  is up exactly then, and which pads are armed while the loop runs. The second theorem is the
  safety half of `RequestIsServed`: a latched level has the vector it was raised with.
  `DivergenceFound` (`Cosim`): `CosimInv` says that before the injection both machines are the
  same once what the oracle has queued is processed, that the records kept agree before it,
  are a frame apart at a seam and differ at it in its signal, that a page without a mark has
  its hash, and that a query under way carries that of parked RAM. It assumes `QueriesWait`;
  without it the run `cosim_query` shows the opposite.
  `AnsweredStopsTaken` (`DebugStop`, the safety half of `StopsHold`): `StopInv` says that the
  client fills only an empty slot, that until a stop is taken the count is not zero while
  there is an answered one, that the scan is not past a stop that is due, that a job
  whose epoch has not moved has no stop in its range, and that a span has none in the range it
  asked about of those answered before it asked. The second part fails as soon as one
  stop is taken, which is the finding of `debug_stop`.
* `InterpProofs`, the interpreter with operands of any width.
  `ExecOneKeepsMachine`: every instruction leaves a machine, whatever operand it has and
  wherever a bus error cuts it short; one lemma per operator of `M68k`.
  `InterpInvariant`, `TimeIsConserved`: `InterpInv` says that the machine is one, that the loop goes
  on only where nothing has stopped it, and that what was ticked and what is deferred add up.
  The types are needed because the cost of a shift depends on the count in a register.
  `ConditionsAreComparisons`, `DivisionIsExact`, `ChainsAreWide`, `DecimalIsExact`,
  `ShiftsAreStepwise` and, together, `ArithmeticIsExact`: each instruction is first reduced to an
  equation between integers (a sum or a difference and its carry times the modulus, a
  quotient and its remainder, two digits and their carries), which the flags are then read
  from. Powers of two are numbers of subsets, since the prover knows no other; what a value
  loses and keeps when it is cut at a bit is a lemma of its own. For shifts the closed form of
  `do_shift` is shown to take one more bit with every count, for each of the eight
  instructions, so that it is the solution of the recursion the property states, and by
  induction the only one.

A CASE whose guards overlap may choose either branch in TLA+, while TLC takes the first: the
proof about `Presenter` failed on one. The models' CASE expressions that prefer an earlier
branch are therefore written with exclusive guards or IF.

Only model-checked:

* liveness and what contains it (`StreamReachesHost`, `PlaybackCompletes`, `HandshakeCompletes`,
  `PointerSettles`, `RequestIsServed`, `StopsHold`), which is beyond the prover; the safety
  halves of three of them are theorems, as said above;
* what compares data that two programs compute step by step: `FramesRestore`, `JobIsFirmware`,
  `ScanoutIsReference`, `RasterIsNative`, `UnmovedContentIsSame`, and the half of `RingIsQueue`
  about the decoder (`DecodedIsReference`).

The library's induction theorems have an operator as parameter and cannot be used. Where a
proof needs induction over numbers (`Remainders`), it goes through the set of numbers a
formula holds for: one that was left out would be greater than some least one. That gives
the value of a recursive function (shifts, bursts, the checksum), and not yet what is needed for folds
over sequences, on which the list above rests.

## 6. Not modelled

* The recompiler and the vendored TOML parser: an offline tool from files to C text. What its
  output does at run time is assumed: it traces every instruction, ticks the board and
  returns as the callers in `runtime.c` expect.
* Opening and reading disc images, configuration and command line, SHA-256, GPU and SDL
  calls, the Python tools: I/O, text and libraries. The reference emulator inside the oracle is
  third-party code.
* Diagnostics: event rings, statistics, register dumps, picture and sample hashes, and
  `exit_on_stop`.
* Weak memory orders, power failures, byte accesses to CIAP registers, a UART that nothing
  is connected to.

Hazards that no property covers, because nothing in the repository says what is meant:

* `slave.c:359`: a disc status composed before a media change is published after its report.
* `slave.c:475`: a pointer packet may replace one the host has read half of.
* `slave.c:285`: a warm reset leaves a partly received channel-D command.
* `debug_server.c:237`: of two delayed stops that are hit, the later one's delay counts.
* `mcd212_video.c:417`: with the colour mode of DCR2 `decode_rgb555` may write behind its row.
* `mcd212.c:88`: in a 625-line mode the picture's height and the lines scanned follow CSR1W bit 1
  in opposite directions.
* `main.c:440`: the guard against stuck dispatches counts native instructions only.
* `main.c:486`: the battery image is written only at a normal end.
* `cdi_bus.c:184`: a long store that faults in its middle leaves the suppression of
  notifications set until the next long store.
* `cdi_oracle.cpp:269`: the stack top is read after the instruction, although it stands for
  its entry; it is not among the compared fields.

## 7. Plan

Proofs: the rows of `Display` that are kept over a field; `ReturnRestores` and the
other parts of `FramesRestore`, on the lemmas of `InterpProofs`. Models: `Ciap`
and `Ikat` joined by the transport calls, and the entry selection of the recompiler as pure
operators.
