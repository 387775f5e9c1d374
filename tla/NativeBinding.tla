--------------------------- MODULE NativeBinding ----------------------------
(***************************************************************************)
(* Binding of statically recompiled module images to guest RAM             *)
(* (runner/src/cdi_native.c). The real loader copies OS-9 modules into RAM *)
(* word by word; an address is resolved to native code only while the      *)
(* image around it is, word for word, one that was compiled. Every RAM     *)
(* write revokes the bindings it overlaps, and native code checks a token  *)
(* before each instruction.                                                *)
(*                                                                         *)
(* RAM is a function from word addresses to abstract values. A digest      *)
(* match is equality with a compiled image. resolve runs as one step per   *)
(* candidate tag and nothing else happens in between.                      *)
(***************************************************************************)
EXTENDS Naturals, Sequences, FiniteSets

CONSTANTS
  RamWords, Bank1,      \* words of RAM; the first word of the second bank
  Values, Zero, Sync,   \* what a RAM word can hold; zero; the OS-9 sync word $4AFC
  SizeOf,               \* the module size a word stands for when read as a header
  Sealed,               \* the header words under which the header parity holds
  MinSize,              \* $33, the smallest module
  Modules, NoModule,    \* the compiled images
  Capacity,             \* BINDING_CAPACITY
  ServiceHle,           \* CDI_SERVICE_HLE: writes are filtered by address range
  MaxEpoch,             \* bound on the bindings made
  MaxResets,            \* bound on the warm resets
  MaxTokens             \* bound on the native activations held at a time

Addr == 0 .. RamWords - 1
Bank(a) == IF a >= Bank1 THEN 1 ELSE 0

\* ram(): the words [a, a + n) lie in one bank.
InBank(a, n) == /\ a \in Addr /\ n > 0
                /\ a + n <= IF a >= Bank1 THEN RamWords ELSE Bank1

ASSUME SizesAssumption ==
  /\ RamWords \in Nat /\ Bank1 \in 1 .. RamWords
  /\ MinSize \in Nat /\ MinSize >= 2
  /\ Capacity \in Nat /\ MaxEpoch \in Nat /\ MaxResets \in Nat /\ MaxTokens \in Nat
  /\ ServiceHle \in BOOLEAN

ASSUME ImagesAssumption ==
  /\ {Zero, Sync} \subseteq Values /\ Zero # Sync
  /\ SizeOf \in [Values -> Nat] /\ Sealed \subseteq Values
  /\ NoModule \notin Modules
  /\ \A m \in Modules :
       /\ m.size \in Nat /\ m.size >= MinSize
       /\ m.word \in [0 .. m.size - 1 -> Values]
       /\ m.word[0] = Sync /\ SizeOf[m.word[1]] = m.size /\ m.word[1] \in Sealed

VARIABLES
  ram,              \* guest RAM
  bindings,         \* the cache of identities, valid or rejected
  binding_count,    \* slots of it in use
  epoch,            \* counts the bindings made; never reset
  invalidations,    \* g_cdi_native_invalidation_epoch
  active,           \* stats.active
  tags,             \* dense list of the words holding the sync
  tag_indices,      \* one past a word's place in tags, 0 if it has none
  ranges,           \* binding_ranges
  scan,             \* the resolve under way: its address and next tag, or Idle
  result,           \* the slot the last resolve returned, 0 for none
  resets,           \* warm resets so far
  aborted,          \* the binding capacity was exceeded
  held              \* tokens held by native activations and jobs

cache == <<bindings, binding_count, epoch, invalidations, active, ranges>>
marks == <<tags, tag_indices>>
vars == <<ram, cache, marks, scan, result, resets, aborted, held>>

Slots == 1 .. binding_count
Empty == [base |-> 0, size |-> 0, epoch |-> 0, module |-> NoModule,
          checked |-> FALSE, valid |-> FALSE]
NoBindings == [i \in 1 .. Capacity |-> Empty]

Idle == [address |-> 0, next |-> 0]
NoRange == [first |-> RamWords, last |-> 0]

Init ==
  /\ ram = [a \in Addr |-> Zero]
  /\ bindings = NoBindings /\ binding_count = 0 /\ epoch = 0 /\ invalidations = 1 /\ active = 0
  /\ tags = <<>> /\ tag_indices = [a \in Addr |-> 0]
  /\ ranges = [k \in {0, 1} |-> NoRange]
  /\ scan = Idle /\ result = 0 /\ resets = 0 /\ aborted = FALSE /\ held = {}

Quiescent == scan = Idle /\ ~aborted

-----------------------------------------------------------------------------
(* cdi_native_notify_write, called after every RAM write. *)

Covers(b, a) == b.base <= a /\ a < b.base + b.size

\* The range filter of the service-HLE build.
MayOverlap(a) ==
  ServiceHle => a < ranges[Bank(a)].last /\ a + 1 > ranges[Bank(a)].first

\* Faulty variant: only a write to the header revokes.
Faulty_HeaderOnly(a) ==
  {i \in Slots : MayOverlap(a) /\ bindings[i].base <= a /\ a <= bindings[i].base + 1}

\* The bindings a write to word a revokes.
Revoked(a) == {i \in Slots : MayOverlap(a) /\ Covers(bindings[i], a)}

\* Faulty variant: only valid bindings are looked at again.
Faulty_KeepRejection(b) == [b EXCEPT !.valid = FALSE, !.checked = ~b.valid]

\* A revoked binding keeps its slot; its identity must be established again.
Unbind(b) == [b EXCEPT !.valid = FALSE, !.checked = FALSE]

\* Removing a tag swaps the last one into its place.
Untag(a) ==
  LET slot == tag_indices[a]
      last == tags[Len(tags)]
  IN  /\ tags' = SubSeq([tags EXCEPT ![slot] = last], 1, Len(tags) - 1)
      /\ tag_indices' = [tag_indices EXCEPT ![last] = slot, ![a] = 0]

Retag(a, v) ==
  CASE v = Sync /\ tag_indices[a] = 0 ->
         /\ tags' = Append(tags, a)
         /\ tag_indices' = [tag_indices EXCEPT ![a] = Len(tags) + 1]
    [] v # Sync /\ tag_indices[a] # 0 -> Untag(a)
    [] OTHER -> UNCHANGED marks

InvalidationsAfter(a) ==
  invalidations + Cardinality({i \in Revoked(a) : bindings[i].valid})

ActiveAfter(a) == active - Cardinality({i \in Revoked(a) : bindings[i].valid})

\* A RAM write by the CPU or by DMA, with its notification.
Write(a, v) ==
  /\ Quiescent
  /\ ram' = [ram EXCEPT ![a] = v]
  /\ bindings' = [i \in 1 .. Capacity |->
                    IF i \in Revoked(a) THEN Unbind(bindings[i]) ELSE bindings[i]]
  /\ active' = ActiveAfter(a)
  /\ invalidations' = InvalidationsAfter(a)
  /\ Retag(a, v)
  /\ held' = {[t EXCEPT !.stale = @ \/ Covers(t, a)] : t \in held}
  /\ UNCHANGED <<binding_count, epoch, ranges, scan, result, resets, aborted>>

\* Faulty variant: the token counter starts over.
Faulty_EpochAfterReset == 0

\* Tokens remain unique across warm resets.
EpochAfterReset == epoch

\* cdi_native_reset, with RAM retained: forgets every binding and finds the tags
\* again, bank by bank.
Reset ==
  /\ Quiescent /\ resets < MaxResets
  /\ resets' = resets + 1
  /\ invalidations' = invalidations + 1
  /\ bindings' = NoBindings /\ binding_count' = 0 /\ active' = 0
  /\ epoch' = EpochAfterReset
  /\ ranges' = [k \in {0, 1} |-> NoRange]
  /\ LET found == {a \in Addr : ram[a] = Sync}
     IN  /\ tags' \in [1 .. Cardinality(found) -> found]
         /\ \A i, j \in DOMAIN tags' : i < j => tags'[i] < tags'[j]
         /\ \A a \in found : \E i \in DOMAIN tags' : tags'[i] = a
         /\ tag_indices' = [a \in Addr |-> IF a \in found
                                           THEN CHOOSE i \in DOMAIN tags' : tags'[i] = a ELSE 0]
  /\ held' = {[t EXCEPT !.stale = TRUE] : t \in held}
  /\ UNCHANGED <<ram, scan, result, aborted>>

-----------------------------------------------------------------------------
(* resolve: a valid binding that covers the address, or the first tag whose    *)
(* image is one that was compiled.                                             *)

Matching(address) ==
  {i \in Slots : bindings[i].valid /\ Covers(bindings[i], address)}

BeginResolve(address) ==
  /\ Quiescent /\ epoch < MaxEpoch
  /\ IF Matching(address) # {}
     THEN /\ result' = CHOOSE i \in Matching(address) : \A j \in Matching(address) : i <= j
          /\ UNCHANGED scan
     ELSE /\ scan' = [address |-> address, next |-> 1]
          /\ UNCHANGED result
  /\ UNCHANGED <<ram, cache, marks, resets, aborted, held>>

ImageAt(base, m) ==
  /\ InBank(base, m.size)
  /\ \A i \in 0 .. m.size - 1 : ram[base + i] = m.word[i]

\* The module size in the header at base, 0 when the header leaves its bank.
HeaderSize(base) == IF InBank(base, MinSize) THEN SizeOf[ram[base + 1]] ELSE 0

\* cached(base): the slot of the binding at base, or the next new one.
Known(base) == \E i \in Slots : bindings[i].base = base
SlotOf(base) == IF Known(base) THEN CHOOSE i \in Slots : bindings[i].base = base
                               ELSE binding_count + 1

\* The compiled image whose digest equals that of the candidate at base.
Identity(base) == {m \in Modules : m.size = HeaderSize(base) /\ ImageAt(base, m)}

\* Faulty variant: a place once rejected is never looked at again.
Faulty_NeverAgain(base) ==
  /\ base <= scan.address
  /\ HeaderSize(base) >= MinSize
  /\ scan.address < base + HeaderSize(base)
  /\ InBank(base, HeaderSize(base))
  /\ ~Known(base)
  /\ \E m \in Modules : m.size = HeaderSize(base)
  /\ ram[base + 1] \in Sealed

\* The candidate's digest is worth computing.
Candidate(base) ==
  /\ base <= scan.address
  /\ HeaderSize(base) >= MinSize
  /\ scan.address < base + HeaderSize(base)
  /\ InBank(base, HeaderSize(base))
  /\ ~(Known(base) /\ bindings[SlotOf(base)].checked)
  /\ \E m \in Modules : m.size = HeaderSize(base)
  /\ ram[base + 1] \in Sealed

\* Faulty variant: the range follows the last binding.
Faulty_Moved(base, size) ==
  [ranges EXCEPT ![Bank(base)] = [first |-> base, last |-> base + size]]

\* cover_binding: the ranges only grow.
Widened(base, size) ==
  [ranges EXCEPT ![Bank(base)] =
     [first |-> IF base < @.first THEN base ELSE @.first,
      last  |-> IF base + size > @.last THEN base + size ELSE @.last]]

\* The identity of the candidate at base is recorded, in a slot of its own.
Record(base, module, newepoch) ==
  /\ bindings' = [bindings EXCEPT ![SlotOf(base)] =
                    [base |-> base, size |-> HeaderSize(base), epoch |-> newepoch,
                     module |-> module, checked |-> TRUE, valid |-> module # NoModule]]
  /\ binding_count' = IF Known(base) THEN binding_count ELSE binding_count + 1
  /\ ranges' = Widened(base, HeaderSize(base))

\* The next tag's candidate is an image that was compiled.
BindTag ==
  LET base == tags[scan.next]
  IN  /\ scan # Idle /\ scan.next <= Len(tags)
      /\ Candidate(base) /\ (Known(base) \/ binding_count < Capacity)
      /\ \E m \in Identity(base) : Record(base, m, epoch + 1)
      /\ epoch' = epoch + 1
      /\ active' = active + 1
      /\ result' = SlotOf(base)
      /\ scan' = Idle
      /\ UNCHANGED <<ram, invalidations, marks, resets, aborted, held>>

\* The next tag's candidate is rejected, and stays so until it is written to.
RejectTag ==
  LET base == tags[scan.next]
  IN  /\ scan # Idle /\ scan.next <= Len(tags)
      /\ Candidate(base) /\ (Known(base) \/ binding_count < Capacity)
      /\ Identity(base) = {}
      /\ Record(base, NoModule, bindings[SlotOf(base)].epoch)
      /\ scan' = [scan EXCEPT !.next = @ + 1]
      /\ UNCHANGED <<ram, epoch, invalidations, active, marks, result, resets, aborted, held>>

SkipTag ==
  /\ scan # Idle /\ scan.next <= Len(tags)
  /\ ~Candidate(tags[scan.next])
  /\ scan' = [scan EXCEPT !.next = @ + 1]
  /\ UNCHANGED <<ram, cache, marks, result, resets, aborted, held>>

\* No room for another identity: the process aborts.
Overflow ==
  LET base == tags[scan.next]
  IN  /\ scan # Idle /\ scan.next <= Len(tags)
      /\ Candidate(base) /\ ~Known(base) /\ binding_count = Capacity
      /\ aborted' = TRUE /\ scan' = Idle
      /\ UNCHANGED <<ram, cache, marks, result, resets, held>>

\* Every tag was looked at: the address is not native.
EndResolve ==
  /\ scan # Idle /\ scan.next > Len(tags)
  /\ scan' = Idle /\ result' = 0
  /\ UNCHANGED <<ram, cache, marks, resets, aborted, held>>

-----------------------------------------------------------------------------
(* Native code in flight. *)

\* cdi_native_instruction_valid, and the token test of a job.
Accepts(t) ==
  /\ t.slot \in Slots
  /\ bindings[t.slot].valid
  /\ bindings[t.slot].epoch = t.epoch
  /\ bindings[t.slot].module = t.module

\* cdi_native_execution_token and cdi_native_job_binding: an activation of the code
\* bound in slot i takes a token and notes the invalidation epoch.
Enter(i) ==
  /\ Quiescent /\ Cardinality(held) < MaxTokens
  /\ bindings[i].valid
  /\ held' = held \cup
       {[slot |-> i, epoch |-> bindings[i].epoch, module |-> bindings[i].module,
         base |-> bindings[i].base, size |-> bindings[i].size,
         seen |-> invalidations, stale |-> FALSE]}
  /\ UNCHANGED <<ram, cache, marks, scan, result, resets, aborted>>

\* A job's safepoint: the token is looked at again only if the invalidation epoch
\* moved (segment in cdi_drawing_jobs.c); an activation may also just return.
Safepoint(t) ==
  /\ Quiescent
  /\ t.seen # invalidations
  /\ held' = IF Accepts(t) THEN (held \ {t}) \cup {[t EXCEPT !.seen = invalidations]}
                           ELSE held \ {t}
  /\ UNCHANGED <<ram, cache, marks, scan, result, resets, aborted>>

Return(t) ==
  /\ Quiescent
  /\ held' = held \ {t}
  /\ UNCHANGED <<ram, cache, marks, scan, result, resets, aborted>>

Next ==
  \/ \E a \in Addr, v \in Values : Write(a, v)
  \/ Reset
  \/ \E a \in Addr : BeginResolve(a)
  \/ BindTag \/ RejectTag \/ SkipTag \/ Overflow \/ EndResolve
  \/ \E i \in Slots : Enter(i)
  \/ \E t \in held : Safepoint(t) \/ Return(t)

Spec == Init /\ [][Next]_vars
-----------------------------------------------------------------------------
(* Properties. *)

\* Native code is bound only over its own image: the RAM under a valid binding is
\* word for word the compiled module, whatever was written, reloaded, overlaid or
\* reset since (resolve, cdi_native_notify_write).
BoundImageInRam ==
  \A i \in Slots : bindings[i].valid =>
    /\ bindings[i].size = bindings[i].module.size
    /\ ImageAt(bindings[i].base, bindings[i].module)

\* A cached rejection is current: no compiled image has meanwhile been completed
\* at that place ("unchanged identity rejection").
RejectionCurrent ==
  \A i \in Slots : bindings[i].checked /\ ~bindings[i].valid =>
    ~\E m \in Modules : ImageAt(bindings[i].base, m)

\* No activation goes on in code that has been written to, or reset, since it took
\* its token, even if the same or another module was bound to that slot again.
StaleTokenRejected == \A t \in held : t.stale => ~Accepts(t)

\* A job that sees the invalidation epoch unmoved may skip the token test.
UnmovedEpochIsSafe == \A t \in held : t.seen = invalidations => Accepts(t)

\* The range filter lets through every write that overlaps a cached binding.
FilterIsSound ==
  \A i \in Slots : \A a \in Addr : Covers(bindings[i], a) => MayOverlap(a)

\* An address is called non-native only if no compiled image in RAM covers it.
ResolveComplete ==
  [][scan # Idle /\ scan' = Idle /\ result' = 0 /\ ~aborted' =>
       ~\E base \in Addr, m \in Modules :
          ImageAt(base, m) /\ base <= scan.address /\ scan.address < base + m.size]_vars

\* An activation runs on exactly as long as its image stands: the full token test
\* refuses every stale one, and the shorter test of the epoch passes none that the full
\* one would refuse (cdi_native_instruction_valid, segment in cdi_drawing_jobs.c).
TokensAreSafe == StaleTokenRejected /\ UnmovedEpochIsSafe

\* What is cached to save a lookup is current: no rejection outlives its cause, and the
\* range filter hides no write from a binding (resolve, may_overlap_binding).
CachesCurrent == RejectionCurrent /\ FilterIsSound
=============================================================================
