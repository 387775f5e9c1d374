---------------------------- MODULE NativeProofs ----------------------------
(* Theorems about the code that runs in the guest's place: NativeBinding, for    *)
(* every RAM size, every set of compiled images, every capacity and both builds *)
(* of the write filter, and the checksum span of LoaderJob, for every bank and  *)
(* every span in it.                                                            *)
EXTENDS NativeBinding, LoaderJob, Remainders, FiniteSetTheorems, SequenceTheorems, TLAPS

Binding == [base : Addr, size : Nat, epoch : Nat, module : Modules \cup {NoModule},
            checked : BOOLEAN, valid : BOOLEAN]

CacheTypes ==
  /\ ram \in [Addr -> Values]
  /\ bindings \in [1 .. Capacity -> Binding]
  /\ binding_count \in 0 .. Capacity
  /\ epoch \in Nat /\ invalidations \in Nat
  /\ ranges \in [{0, 1} -> [first : Nat, last : Nat]]

\* A cached identity lies in one bank, its header is the one it was read with, and
\* the write filter covers it.
SlotOK(b) ==
  /\ b.valid => b.checked /\ b.module \in Modules
  /\ InBank(b.base, b.size)
  /\ b.size >= MinSize
  /\ b.checked => SizeOf[ram[b.base + 1]] = b.size
  /\ ranges[Bank(b.base)].first <= b.base
  /\ b.base + b.size <= ranges[Bank(b.base)].last

\* What the identity stands for.
IdentityOK(b) ==
  /\ b.valid => b.size = b.module.size /\ ImageAt(b.base, b.module)
  /\ b.checked /\ ~b.valid => ~\E m \in Modules : ImageAt(b.base, m)

\* No slot, used or not, carries a token that was not handed out.
EpochsBounded == \A i \in 1 .. Capacity : bindings[i].epoch <= epoch

CacheInv ==
  /\ CacheTypes /\ EpochsBounded
  /\ \A i \in Slots : SlotOK(bindings[i]) /\ IdentityOK(bindings[i])

\* A write that a binding covers passes the range filter.
LEMMA CoveredPasses ==
  ASSUME CacheTypes, NEW i \in Slots, SlotOK(bindings[i]), NEW a \in Addr,
         Covers(bindings[i], a)
  PROVE  MayOverlap(a)
<1> DEFINE b == bindings[i]
<1>1. b \in Binding
  BY SizesAssumption DEF CacheTypes, Slots
<1>2. Bank(a) = Bank(b.base)
  BY <1>1, SizesAssumption DEF SlotOK, InBank, Bank, Covers, Binding, Addr
<1>3. Bank(a) \in {0, 1}
  BY DEF Bank
<1>4. /\ ranges[Bank(a)].first <= b.base /\ b.base + b.size <= ranges[Bank(a)].last
      /\ ranges[Bank(a)].first \in Nat /\ ranges[Bank(a)].last \in Nat
  BY <1>2, <1>3 DEF SlotOK, CacheTypes
<1> HIDE DEF b
<1>5. a < ranges[Bank(a)].last /\ a + 1 > ranges[Bank(a)].first
  BY <1>1, <1>4, SizesAssumption DEF Binding, Addr, Covers, b
<1> QED
  BY <1>5 DEF MayOverlap

\* A slot's identity only speaks of the RAM it covers: a write elsewhere changes
\* neither the image under a valid binding nor the header of a rejected one.
LEMMA UncoveredKeeps ==
  ASSUME CacheTypes, NEW b \in Binding, NEW a \in Addr, NEW v \in Values,
         ram' = [ram EXCEPT ![a] = v], epoch' = epoch, ranges' = ranges,
         SlotOK(b), IdentityOK(b), ~Covers(b, a)
  PROVE  SlotOK(b)' /\ IdentityOK(b)'
<1> USE SizesAssumption, ImagesAssumption
<1>1. \A i \in 0 .. b.size - 1 : b.base + i \in Addr /\ ram'[b.base + i] = ram[b.base + i]
  <2>1. b.base \in Nat /\ b.size \in Nat /\ b.base + b.size <= RamWords
    BY DEF SlotOK, InBank, Binding, Addr
  <2> TAKE i \in 0 .. b.size - 1
  <2>2. b.base + i \in Addr /\ b.base <= b.base + i /\ b.base + i < b.base + b.size
    BY <2>1, SMTT(60) DEF Addr
  <2>3. b.base + i # a
    BY <2>2 DEF Covers
  <2> QED
    BY <2>2, <2>3 DEF CacheTypes
<1>2. 0 \in 0 .. b.size - 1 /\ 1 \in 0 .. b.size - 1
  BY DEF SlotOK, Binding
<1>3. SlotOK(b)'
  BY <1>1, <1>2 DEF SlotOK, InBank
<1>4. ASSUME b.valid PROVE b.size = b.module.size /\ ImageAt(b.base, b.module)'
  <2>1. b.size = b.module.size /\ ImageAt(b.base, b.module)
    BY <1>4 DEF IdentityOK
  <2> QED
    BY <1>1, <2>1 DEF ImageAt, InBank
<1>5. ASSUME b.checked, ~b.valid, NEW m \in Modules, ImageAt(b.base, m)' PROVE FALSE
  <2>1. m.size \in Nat /\ m.size >= MinSize /\ SizeOf[m.word[1]] = m.size
    OBVIOUS
  <2>2. 1 \in 0 .. m.size - 1
    BY <2>1
  <2>3. ram'[b.base + 1] = m.word[1]
    BY <1>5, <2>2 DEF ImageAt
  <2>4. SizeOf[ram[b.base + 1]] = b.size
    BY <1>5 DEF SlotOK
  <2>5. m.size = b.size
    BY <1>1, <1>2, <2>1, <2>3, <2>4
  <2>6. ImageAt(b.base, m)
    BY <1>1, <1>5, <2>5 DEF ImageAt, InBank
  <2> QED
    BY <1>5, <2>6 DEF IdentityOK
<1> QED
  BY <1>3, <1>4, <1>5 DEF IdentityOK

\* A RAM write keeps the cache sound.
LEMMA WriteKeepsCache ==
  ASSUME CacheInv, NEW a \in Addr, NEW v \in Values, Write(a, v)
  PROVE  CacheInv'
<1> USE SizesAssumption
<1>1. /\ ram' = [ram EXCEPT ![a] = v] /\ epoch' = epoch /\ ranges' = ranges
      /\ binding_count' = binding_count
      /\ bindings' = [i \in 1 .. Capacity |->
                        IF i \in Revoked(a) THEN Unbind(bindings[i]) ELSE bindings[i]]
  BY DEF Write
<1>2. \A i \in 1 .. Capacity : bindings[i] \in Binding /\ Unbind(bindings[i]) \in Binding
  BY DEF CacheInv, CacheTypes, Unbind, Binding
<1>3. invalidations' \in Nat
  <2>1. IsFiniteSet({i \in Revoked(a) : bindings[i].valid})
    <3>1. IsFiniteSet(Slots)
      BY FS_Interval DEF CacheInv, CacheTypes, Slots
    <3> QED
      BY <3>1, FS_Subset DEF Revoked
  <2> QED
    BY <2>1, FS_CardinalityType, SMTT(60) DEF Write, InvalidationsAfter, CacheInv, CacheTypes
<1>4. CacheTypes'
  BY <1>1, <1>2, <1>3 DEF CacheInv, CacheTypes
<1>5. ASSUME NEW i \in Slots PROVE SlotOK(bindings[i])' /\ IdentityOK(bindings[i])'
  <2> DEFINE b == bindings[i]
  <2>1. i \in 1 .. Capacity
    BY DEF Slots, CacheInv, CacheTypes
  <2>2. b \in Binding /\ SlotOK(b) /\ IdentityOK(b)
    BY <1>2, <2>1 DEF CacheInv
  <2>3. CASE i \in Revoked(a)
    <3>1. bindings'[i] = Unbind(b)
      BY <1>1, <2>1, <2>3
    <3>2. /\ ~Unbind(b).valid /\ ~Unbind(b).checked /\ Unbind(b).base = b.base
          /\ Unbind(b).size = b.size /\ Unbind(b).epoch = b.epoch
      BY <2>2 DEF Unbind, Binding
    <3> QED
      BY <1>1, <2>2, <3>1, <3>2 DEF SlotOK, IdentityOK, InBank
  <2>4. CASE i \notin Revoked(a)
    <3>1. bindings'[i] = b
      BY <1>1, <2>1, <2>4
    <3>2. ~Covers(b, a)
      BY <2>2, <2>4, CoveredPasses DEF Revoked, CacheInv
    <3>3. SlotOK(b)' /\ IdentityOK(b)'
      <4>1. \A d \in Binding : SlotOK(d) /\ IdentityOK(d) /\ ~Covers(d, a) =>
               SlotOK(d)' /\ IdentityOK(d)'
        BY <1>1, UncoveredKeeps DEF CacheInv
      <4> QED
        BY <2>2, <3>1, <3>2, <4>1
    <3> QED
      BY <3>3
  <2> QED
    BY <2>3, <2>4
<1>6. EpochsBounded'
  <2>1. \A i \in 1 .. Capacity : Unbind(bindings[i]).epoch = bindings[i].epoch
    BY <1>2 DEF Unbind, Binding
  <2> QED
    BY <1>1, <2>1 DEF CacheInv, EpochsBounded
<1> QED
  BY <1>1, <1>4, <1>5, <1>6 DEF CacheInv, Slots

\* Recording an identity that was checked against RAM keeps the cache sound.
LEMMA RecordKeepsCache ==
  ASSUME CacheInv, NEW base \in Addr, NEW module \in Modules \cup {NoModule},
         NEW newepoch \in Nat, newepoch <= epoch', epoch <= epoch', epoch' \in Nat,
         HeaderSize(base) \in Nat, HeaderSize(base) >= MinSize,
         InBank(base, HeaderSize(base)),
         Known(base) \/ binding_count < Capacity,
         module # NoModule => module.size = HeaderSize(base) /\ ImageAt(base, module),
         module = NoModule => Identity(base) = {},
         ram' = ram, invalidations' = invalidations,
         Record(base, module, newepoch)
  PROVE  CacheInv'
<1> USE SizesAssumption
<1> DEFINE size == HeaderSize(base)
<1> PICK k : k = SlotOf(base)
  OBVIOUS
<1> PICK new : new = [base |-> base, size |-> size, epoch |-> newepoch, module |-> module,
                      checked |-> TRUE, valid |-> module # NoModule]
  OBVIOUS
<1>1. k \in 1 .. Capacity /\ k \in Slots'
  <2>1. CASE Known(base)
    <3>1. k \in Slots
      BY <2>1 DEF SlotOf, Known
    <3> QED
      BY <2>1, <3>1 DEF Record, Slots, CacheInv, CacheTypes
  <2>2. CASE ~Known(base)
    BY <2>2 DEF SlotOf, Record, Slots, CacheInv, CacheTypes
  <2> QED
    BY <2>1, <2>2
<1>2. new \in Binding
  BY DEF Binding
<1>3. bindings' = [bindings EXCEPT ![k] = new]
  BY DEF Record
<1>4. binding_count' \in 0 .. Capacity /\ \A i \in Slots' : i \in Slots \/ i = k
  BY DEF Record, SlotOf, Slots, CacheInv, CacheTypes
<1>5. Bank(base) \in {0, 1}
  BY DEF Bank
<1>6. /\ ranges' \in [{0, 1} -> [first : Nat, last : Nat]]
      /\ ranges'[Bank(base)].first <= base /\ base + size <= ranges'[Bank(base)].last
      /\ \A n \in {0, 1} : ranges'[n].first <= ranges[n].first /\ ranges[n].last <= ranges'[n].last
  <2> DEFINE r == ranges[Bank(base)]
             w == [first |-> IF base < r.first THEN base ELSE r.first,
                   last  |-> IF base + size > r.last THEN base + size ELSE r.last]
  <2>1. ranges \in [{0, 1} -> [first : Nat, last : Nat]] /\ base \in Nat /\ size \in Nat
    BY DEF CacheInv, CacheTypes, Addr
  <2>2. r.first \in Nat /\ r.last \in Nat
    BY <1>5, <2>1
  <2>3. /\ w \in [first : Nat, last : Nat]
        /\ w.first <= base /\ base + size <= w.last /\ w.first <= r.first /\ r.last <= w.last
    BY <2>1, <2>2
  <2>4. ranges' = [ranges EXCEPT ![Bank(base)] = w]
    BY DEF Record, Widened
  <2> HIDE DEF w, r, size
  <2>5. ranges'[Bank(base)] = w /\ \A n \in {0, 1} : n # Bank(base) => ranges'[n] = ranges[n]
    BY <1>5, <2>1, <2>4
  <2>6. \A n \in {0, 1} : ranges[n].first \in Nat /\ ranges[n].last \in Nat
    BY <2>1
  <2> QED
    BY <1>5, <2>1, <2>3, <2>4, <2>5, <2>6 DEF r
<1> HIDE DEF size
<1>7. CacheTypes'
  BY <1>1, <1>2, <1>3, <1>4, <1>6 DEF CacheInv, CacheTypes
<1>8. /\ new.base = base /\ new.size = size /\ new.epoch = newepoch /\ new.module = module
      /\ new.checked /\ (new.valid <=> module # NoModule)
  OBVIOUS
<1>9. SlotOK(new)'
  <2>1. SizeOf[ram[base + 1]] = size /\ InBank(base, size) /\ size >= MinSize
    BY DEF size, HeaderSize
  <2>2. new.valid => new.checked /\ new.module \in Modules
    BY <1>8
  <2> QED
    BY <1>6, <1>8, <2>1, <2>2 DEF SlotOK, InBank
<1>10. IdentityOK(new)'
  <2>1. ASSUME module # NoModule PROVE size = module.size /\ ImageAt(base, module)'
    BY <2>1 DEF size, ImageAt, InBank
  <2>2. ASSUME module = NoModule, NEW m \in Modules, ImageAt(base, m)' PROVE FALSE
    <3>1. m.size \in Nat /\ m.size >= MinSize /\ SizeOf[m.word[1]] = m.size
      BY ImagesAssumption
    <3>2. ImageAt(base, m)
      BY <2>2 DEF ImageAt, InBank
    <3>3. 1 \in 0 .. m.size - 1
      BY <3>1
    <3>4. ram[base + 1] = m.word[1]
      BY <3>2, <3>3 DEF ImageAt
    <3>5. m.size = HeaderSize(base)
      BY <3>1, <3>4 DEF HeaderSize
    <3> QED
      BY <2>2, <3>2, <3>5 DEF Identity
  <2> QED
    BY <1>8, <2>1, <2>2 DEF IdentityOK
<1>11. ASSUME NEW i \in Slots', i # k PROVE SlotOK(bindings[i])' /\ IdentityOK(bindings[i])'
  <2> PICK b : b = bindings[i]
    OBVIOUS
  <2>1. i \in Slots /\ i \in 1 .. Capacity
    BY <1>4, <1>11 DEF Slots, CacheInv, CacheTypes
  <2>2. bindings'[i] = b /\ b \in Binding /\ SlotOK(b) /\ IdentityOK(b)
    BY <1>3, <1>11, <2>1 DEF CacheInv, CacheTypes
  <2>3. Bank(b.base) \in {0, 1}
    BY DEF Bank
  <2>4. SlotOK(b)'
    <3>1. b.base \in Nat /\ b.size \in Nat
      <4>1. b.base \in Addr /\ b.size \in Nat
        BY <2>2 DEF Binding
      <4> QED
        BY <4>1 DEF Addr
    <3>2. /\ ranges[Bank(b.base)].first \in Nat /\ ranges[Bank(b.base)].last \in Nat
          /\ ranges'[Bank(b.base)].first \in Nat /\ ranges'[Bank(b.base)].last \in Nat
      BY <1>6, <2>3 DEF CacheInv, CacheTypes
    <3>3. /\ ranges'[Bank(b.base)].first <= b.base
          /\ b.base + b.size <= ranges'[Bank(b.base)].last
      BY <1>6, <2>2, <2>3, <3>1, <3>2 DEF SlotOK
    <3> QED
      BY <2>2, <3>3 DEF SlotOK, InBank
  <2>5. IdentityOK(b)'
    BY <2>2 DEF IdentityOK, ImageAt, InBank
  <2> QED
    BY <2>2, <2>4, <2>5
<1>12. bindings'[k] = new
  BY <1>1, <1>3 DEF CacheInv, CacheTypes
<1>13. SlotOK(bindings[k])' /\ IdentityOK(bindings[k])'
  BY <1>9, <1>10, <1>12
<1>14. EpochsBounded'
  <2> SUFFICES ASSUME NEW i \in 1 .. Capacity PROVE bindings'[i].epoch <= epoch'
    BY DEF EpochsBounded
  <2>1. CASE i = k
    BY <1>8, <1>12, <2>1
  <2>2. CASE i # k
    <3>1. bindings'[i] = bindings[i] /\ bindings[i] \in Binding /\ epoch \in Nat
      BY <1>3, <2>2 DEF CacheInv, CacheTypes
    <3>2. bindings[i].epoch \in Nat /\ bindings[i].epoch <= epoch
      BY <3>1 DEF CacheInv, EpochsBounded, Binding
    <3> QED
      BY <3>1, <3>2
  <2> QED
    BY <2>1, <2>2
<1> QED
  BY <1>7, <1>11, <1>13, <1>14 DEF CacheInv

\* What a candidate's header says is a size within its bank.
LEMMA CandidateInBank ==
  ASSUME CacheTypes, NEW base, Candidate(base)
  PROVE  /\ base \in Addr /\ HeaderSize(base) \in Nat /\ HeaderSize(base) >= MinSize
         /\ InBank(base, HeaderSize(base))
<1> USE SizesAssumption
<1>1. base \in Addr /\ HeaderSize(base) >= MinSize /\ InBank(base, HeaderSize(base))
  BY DEF Candidate, InBank
<1>2. HeaderSize(base) \in Nat
  <2>1. CASE InBank(base, MinSize)
    <3>1. base + 1 \in Addr
      BY <1>1, <2>1 DEF InBank, Addr
    <3> QED
      BY <2>1, <3>1, ImagesAssumption DEF HeaderSize, CacheTypes
  <2>2. CASE ~InBank(base, MinSize)
    BY <2>2 DEF HeaderSize
  <2> QED
    BY <2>1, <2>2
<1> QED
  BY <1>1, <1>2

\* Binding a tag keeps the cache sound.
LEMMA BindKeepsCache == CacheInv /\ BindTag => CacheInv'
<1> SUFFICES ASSUME CacheInv, BindTag PROVE CacheInv'
  OBVIOUS
<1> PICK base : base = tags[scan.next]
  OBVIOUS
<1>1. Candidate(base) /\ (Known(base) \/ binding_count < Capacity)
  BY DEF BindTag
<1>2. PICK module \in Identity(base) : Record(base, module, epoch + 1)
  BY DEF BindTag
<1>3. ram' = ram /\ invalidations' = invalidations /\ epoch' = epoch + 1
  BY DEF BindTag
<1>4. epoch \in Nat /\ epoch + 1 \in Nat /\ epoch + 1 <= epoch' /\ epoch <= epoch'
  BY <1>3 DEF CacheInv, CacheTypes
<1>5. module \in Modules /\ module # NoModule
      /\ module.size = HeaderSize(base) /\ ImageAt(base, module)
  BY <1>2, ImagesAssumption DEF Identity
<1>6. /\ base \in Addr /\ HeaderSize(base) \in Nat /\ HeaderSize(base) >= MinSize
      /\ InBank(base, HeaderSize(base))
  BY <1>1, CandidateInBank DEF CacheInv
<1>7. PICK e \in Nat : e = epoch + 1
  BY <1>4
<1>8. Record(base, module, e) /\ e <= epoch' /\ epoch' \in Nat
  BY <1>2, <1>3, <1>4, <1>7
<1> QED
  BY <1>1, <1>3, <1>4, <1>5, <1>6, <1>8, RecordKeepsCache

\* Rejecting a tag keeps the cache sound.
LEMMA RejectKeepsCache == CacheInv /\ RejectTag => CacheInv'
<1> SUFFICES ASSUME CacheInv, RejectTag PROVE CacheInv'
  OBVIOUS
<1> USE SizesAssumption
<1> PICK base : base = tags[scan.next]
  OBVIOUS
<1>1. Candidate(base) /\ (Known(base) \/ binding_count < Capacity) /\ Identity(base) = {}
  BY DEF RejectTag
<1>2. PICK e : e = bindings[SlotOf(base)].epoch
  OBVIOUS
<1>3. Record(base, NoModule, e)
  BY <1>2 DEF RejectTag
<1>4. ram' = ram /\ invalidations' = invalidations /\ epoch' = epoch
  BY DEF RejectTag
<1>5. /\ base \in Addr /\ HeaderSize(base) \in Nat /\ HeaderSize(base) >= MinSize
      /\ InBank(base, HeaderSize(base))
  BY <1>1, CandidateInBank DEF CacheInv
<1>6. e \in Nat /\ e <= epoch /\ epoch \in Nat
  <2>1. epoch \in Nat /\ bindings \in [1 .. Capacity -> Binding] /\ binding_count \in 0 .. Capacity
    BY DEF CacheInv, CacheTypes
  <2>2. ASSUME Known(base) PROVE SlotOf(base) \in 1 .. Capacity
    <3>1. SlotOf(base) \in Slots
      BY <2>2 DEF SlotOf, Known
    <3> QED
      BY <2>1, <3>1 DEF Slots
  <2>3. ASSUME ~Known(base) PROVE SlotOf(base) \in 1 .. Capacity
    BY <1>1, <2>1, <2>3 DEF SlotOf
  <2>4. SlotOf(base) \in 1 .. Capacity
    BY <2>2, <2>3
  <2>5. bindings[SlotOf(base)] \in Binding /\ bindings[SlotOf(base)].epoch <= epoch
    BY <2>1, <2>4 DEF CacheInv, EpochsBounded
  <2> QED
    BY <1>2, <2>1, <2>5 DEF Binding
<1> QED
  BY <1>1, <1>3, <1>4, <1>5, <1>6, RecordKeepsCache

\* After a reset there is no identity left to be wrong about.
LEMMA EmptyIsSound ==
  ASSUME ram' \in [Addr -> Values], bindings' = NoBindings, binding_count' = 0,
         epoch' \in Nat, invalidations' \in Nat, ranges' = [k \in {0, 1} |-> NoRange]
  PROVE  CacheInv'
<1> USE SizesAssumption
<1>1. Slots' = {}
  BY DEF Slots
<1>2. 0 \in Addr
  BY DEF Addr
<1>3. Empty \in Binding /\ Empty.epoch = 0
  BY <1>2 DEF Empty, Binding
<1>4. bindings' \in [1 .. Capacity -> Binding] /\ \A i \in 1 .. Capacity : bindings'[i] = Empty
  BY <1>3 DEF NoBindings
<1>5. ranges' \in [{0, 1} -> [first : Nat, last : Nat]]
  BY DEF NoRange
<1>6. CacheTypes'
  BY <1>4, <1>5 DEF CacheTypes
<1>7. EpochsBounded'
  BY <1>3, <1>4 DEF EpochsBounded
<1> QED
  BY <1>1, <1>6, <1>7 DEF CacheInv

LEMMA CacheStep == CacheInv /\ [Next]_vars => CacheInv'
<1> SUFFICES ASSUME CacheInv, [Next]_vars PROVE CacheInv'
  OBVIOUS
<1>1. ASSUME NEW a \in Addr, NEW v \in Values, Write(a, v) PROVE CacheInv'
  BY <1>1, WriteKeepsCache
<1>2. CASE Reset
  <2>1. ram' = ram /\ invalidations' = invalidations + 1 /\ epoch' = epoch
        /\ bindings' = NoBindings /\ binding_count' = 0
        /\ ranges' = [k \in {0, 1} |-> NoRange]
    BY <1>2 DEF Reset, EpochAfterReset
  <2>2. ram' \in [Addr -> Values] /\ epoch' \in Nat /\ invalidations' \in Nat
    BY <2>1 DEF CacheInv, CacheTypes
  <2> QED
    BY <2>1, <2>2, EmptyIsSound
<1>3. CASE UNCHANGED <<ram, cache>>
  BY <1>3 DEF cache, CacheInv, CacheTypes, EpochsBounded, Slots, SlotOK, IdentityOK, ImageAt, InBank
<1>4. CASE \E a \in Addr : BeginResolve(a)
  BY <1>3, <1>4 DEF BeginResolve
<1>5. CASE SkipTag \/ Overflow \/ EndResolve
  BY <1>3, <1>5 DEF SkipTag, Overflow, EndResolve
<1>6. CASE \E i \in Slots : Enter(i)
  BY <1>3, <1>6 DEF Enter
<1>7. CASE \E t \in held : Safepoint(t) \/ Return(t)
  BY <1>3, <1>7 DEF Safepoint, Return
<1>8. CASE UNCHANGED vars
  BY <1>3, <1>8 DEF vars
<1> QED
  BY <1>1, <1>2, <1>4, <1>5, <1>6, <1>7, <1>8, BindKeepsCache, RejectKeepsCache DEF Next

LEMMA CacheSound == Spec => []CacheInv
<1>1. Init => CacheInv
  <2> SUFFICES ASSUME Init PROVE CacheInv
    OBVIOUS
  <2> USE SizesAssumption, ImagesAssumption
  <2>1. 0 \in Addr
    BY DEF Addr
  <2>2. Empty \in Binding /\ Empty.epoch = 0
    BY <2>1 DEF Empty, Binding
  <2>3. bindings \in [1 .. Capacity -> Binding] /\ \A i \in 1 .. Capacity : bindings[i] = Empty
    BY <2>2 DEF Init, NoBindings
  <2>4. ranges \in [{0, 1} -> [first : Nat, last : Nat]]
    BY DEF Init, NoRange
  <2>5. CacheTypes
    BY <2>3, <2>4 DEF Init, CacheTypes
  <2>6. EpochsBounded
    BY <2>2, <2>3 DEF Init, EpochsBounded
  <2>7. Slots = {}
    BY DEF Init, Slots
  <2> QED
    BY <2>5, <2>6, <2>7 DEF CacheInv
<1> QED
  BY <1>1, CacheStep, PTL DEF Spec

\* Whatever is loaded, patched, overlaid or reset, native code stays bound only over
\* its own image (resolve, cdi_native_notify_write).
THEOREM BoundOverOwnImage == Spec => []BoundImageInRam
<1>1. CacheInv => BoundImageInRam
  BY DEF CacheInv, IdentityOK, BoundImageInRam
<1> QED
  BY <1>1, CacheSound, PTL

\* A remembered rejection never hides an image that has been completed since.
THEOREM RejectionsCurrent == Spec => []RejectionCurrent
<1>1. CacheInv => RejectionCurrent
  BY DEF CacheInv, IdentityOK, RejectionCurrent
<1> QED
  BY <1>1, CacheSound, PTL

\* The write filter of the service-HLE build hides no write from a cached identity
\* (cover_binding, may_overlap_binding).
THEOREM FilterHidesNothing == Spec => []FilterIsSound
<1>1. CacheInv => FilterIsSound
  BY CoveredPasses DEF CacheInv, FilterIsSound
<1> QED
  BY <1>1, CacheSound, PTL

-----------------------------------------------------------------------------
(* Tokens of native activations. *)

Token == [slot : Nat, epoch : Nat, module : Modules \cup {NoModule}, base : Addr,
          size : Nat, seen : Nat, stale : BOOLEAN]

\* A token that is still accepted names the range it was taken for; a token that is
\* stale, or older than the invalidation epoch it noted, is told apart.
TokenOK(t) ==
  /\ t.epoch <= epoch /\ t.seen <= invalidations
  /\ Accepts(t) => bindings[t.slot].base = t.base /\ bindings[t.slot].size = t.size
  /\ t.stale => ~Accepts(t)
  /\ t.seen = invalidations => Accepts(t)

TokenInv == held \subseteq Token /\ \A t \in held : TokenOK(t)

\* What marking a token stale leaves alone.
LEMMA MarkToken ==
  ASSUME NEW t \in Token, NEW p \in BOOLEAN
  PROVE  LET u == [t EXCEPT !.stale = p]
         IN  /\ u \in Token /\ u.slot = t.slot /\ u.epoch = t.epoch /\ u.module = t.module
             /\ u.base = t.base /\ u.size = t.size /\ u.seen = t.seen /\ u.stale = p
BY DEF Token

\* A write keeps a token accepted exactly when it revokes no binding of the token.
LEMMA WriteKeepsTokens ==
  ASSUME CacheInv, TokenInv, NEW a \in Addr, NEW v \in Values, Write(a, v)
  PROVE  TokenInv'
<1> USE SizesAssumption
<1>1. SUFFICES ASSUME NEW t \in held
               PROVE  LET u == [t EXCEPT !.stale = t.stale \/ Covers(t, a)]
                      IN  u \in Token /\ TokenOK(u)'
  BY DEF Write, TokenInv
<1>2. t \in Token /\ TokenOK(t)
  BY DEF TokenInv
<1>3. PICK u : u = [t EXCEPT !.stale = t.stale \/ Covers(t, a)]
  OBVIOUS
<1>4. (t.stale \/ Covers(t, a)) \in BOOLEAN
  BY <1>2 DEF Token
<1>5. /\ u \in Token /\ u.slot = t.slot /\ u.epoch = t.epoch /\ u.module = t.module
      /\ u.base = t.base /\ u.size = t.size /\ u.seen = t.seen
      /\ u.stale = (t.stale \/ Covers(t, a))
  BY <1>2, <1>3, <1>4, MarkToken
<1>6. /\ binding_count' = binding_count /\ epoch' = epoch
      /\ invalidations' = InvalidationsAfter(a)
      /\ bindings' = [i \in 1 .. Capacity |->
                        IF i \in Revoked(a) THEN Unbind(bindings[i]) ELSE bindings[i]]
  BY DEF Write
<1>7. Slots \subseteq 1 .. Capacity
  BY DEF Slots, CacheInv, CacheTypes
<1>8. \A i \in Slots : /\ i \in Revoked(a) => ~bindings'[i].valid
                       /\ i \notin Revoked(a) => bindings'[i] = bindings[i]
  <2> SUFFICES ASSUME NEW i \in Slots
               PROVE  /\ i \in Revoked(a) => ~bindings'[i].valid
                      /\ i \notin Revoked(a) => bindings'[i] = bindings[i]
    OBVIOUS
  <2>1. bindings[i] \in Binding /\ i \in 1 .. Capacity
    BY <1>7 DEF CacheInv, CacheTypes
  <2>2. ~Unbind(bindings[i]).valid
    BY <2>1 DEF Unbind, Binding
  <2> QED
    BY <1>6, <2>1, <2>2
<1>9. Accepts(u)' <=> Accepts(t) /\ t.slot \notin Revoked(a)
  BY <1>5, <1>6, <1>8 DEF Accepts, Slots
<1>10. ASSUME Accepts(u)'
       PROVE  ~u.stale /\ bindings'[u.slot].base = u.base /\ bindings'[u.slot].size = u.size
  <2>1. Accepts(t) /\ t.slot \notin Revoked(a) /\ t.slot \in Slots
    BY <1>9, <1>10 DEF Accepts
  <2>2. bindings[t.slot].base = t.base /\ bindings[t.slot].size = t.size /\ ~t.stale
    BY <1>2, <2>1 DEF TokenOK
  <2>3. ~Covers(bindings[t.slot], a)
    BY <2>1, CoveredPasses DEF Revoked, CacheInv
  <2>4. ~Covers(t, a)
    BY <2>2, <2>3 DEF Covers
  <2>5. bindings'[t.slot] = bindings[t.slot]
    BY <1>8, <2>1
  <2> QED
    BY <1>5, <2>2, <2>4, <2>5
<1>11. PICK n \in Nat : /\ invalidations' = invalidations + n
                        /\ n = 0 => \A i \in Revoked(a) : ~bindings[i].valid
  <2> DEFINE S == {i \in Revoked(a) : bindings[i].valid}
  <2>1. IsFiniteSet(S)
    <3>1. IsFiniteSet(Slots)
      BY FS_Interval DEF CacheInv, CacheTypes, Slots
    <3> QED
      BY <3>1, FS_Subset DEF Revoked
  <2>2. Cardinality(S) \in Nat /\ (Cardinality(S) = 0 => S = {})
    BY <2>1, FS_CardinalityType, FS_EmptySet
  <2>3. invalidations' = invalidations + Cardinality(S)
    BY <1>6 DEF InvalidationsAfter
  <2>4. Cardinality(S) = 0 => \A i \in Revoked(a) : ~bindings[i].valid
    BY <2>2
  <2> HIDE DEF S
  <2> QED
    BY <2>2, <2>3, <2>4
<1>12. /\ t.seen \in Nat /\ t.seen <= invalidations /\ invalidations \in Nat
       /\ (t.seen = invalidations => Accepts(t))
  BY <1>2 DEF Token, TokenOK, CacheInv, CacheTypes
<1>13. u.seen <= invalidations'
  BY <1>5, <1>11, <1>12
<1>14. ASSUME u.seen = invalidations' PROVE Accepts(u)'
  <2>1. n = 0 /\ t.seen = invalidations
    BY <1>5, <1>11, <1>12, <1>14
  <2>2. Accepts(t) /\ bindings[t.slot].valid
    BY <1>12, <2>1 DEF Accepts
  <2>3. t.slot \notin Revoked(a)
    BY <1>11, <2>1, <2>2
  <2> QED
    BY <1>9, <2>2, <2>3
<1>15. u.epoch <= epoch'
  BY <1>2, <1>5, <1>6 DEF TokenOK
<1> QED
  BY <1>3, <1>5, <1>10, <1>13, <1>14, <1>15 DEF TokenOK

\* Recording an identity never touches a slot some token is accepted in, and hands
\* out a token that nobody holds.
LEMMA RecordKeepsTokens ==
  ASSUME CacheInv, TokenInv, NEW base, NEW module, NEW e \in Nat, Candidate(base),
         Known(base) \/ binding_count < Capacity,
         Record(base, module, e), module # NoModule => e = epoch + 1,
         epoch' \in Nat, epoch <= epoch', invalidations' = invalidations, held' = held
  PROVE  TokenInv'
<1> USE SizesAssumption
<1>1. SUFFICES ASSUME NEW t \in held PROVE TokenOK(t)'
  BY DEF TokenInv
<1>2. t \in Token /\ TokenOK(t)
  BY DEF TokenInv
<1>3. PICK k : k = SlotOf(base)
  OBVIOUS
<1>4. /\ t.epoch \in Nat /\ t.epoch <= epoch /\ epoch \in Nat
      /\ binding_count \in 0 .. Capacity /\ bindings \in [1 .. Capacity -> Binding]
  BY <1>2 DEF Token, TokenOK, CacheInv, CacheTypes
<1>5. k \in 1 .. Capacity /\ (k \in Slots => ~bindings[k].valid)
  <2>1. ASSUME Known(base) PROVE k \in Slots /\ ~bindings[k].valid
    <3>1. k \in Slots
      BY <1>3, <2>1 DEF SlotOf, Known
    <3>2. ~bindings[k].checked
      BY <1>3, <2>1 DEF Candidate
    <3> QED
      BY <3>1, <3>2 DEF CacheInv, SlotOK
  <2>2. ASSUME ~Known(base) PROVE k = binding_count + 1 /\ k \in 1 .. Capacity /\ k \notin Slots
    BY <1>3, <1>4, <2>2 DEF SlotOf, Slots
  <2> QED
    BY <1>4, <2>1, <2>2 DEF Slots
<1>6. /\ \A i \in Slots : i # k => i \in Slots' /\ bindings'[i] = bindings[i]
      /\ \A i \in Slots' : i # k => i \in Slots
  BY <1>3, <1>4 DEF Record, Slots, SlotOf
<1>7. bindings'[k].epoch = e /\ (bindings'[k].valid <=> module # NoModule)
  BY <1>3, <1>4, <1>5 DEF Record
<1>8. ASSUME t.slot = k PROVE ~Accepts(t) /\ ~Accepts(t)'
  <2>1. ~Accepts(t)
    BY <1>5, <1>8 DEF Accepts
  <2>2. ASSUME bindings'[k].valid PROVE bindings'[k].epoch # t.epoch
    <3>1. bindings'[k].epoch = epoch + 1
      BY <1>7, <2>2
    <3> QED
      BY <1>4, <3>1
  <2> QED
    BY <1>8, <2>1, <2>2 DEF Accepts
<1>9. ASSUME t.slot # k
      PROVE  /\ Accepts(t) <=> Accepts(t)'
             /\ Accepts(t)' => bindings'[t.slot] = bindings[t.slot]
  BY <1>6, <1>9 DEF Accepts
<1>10. t.epoch <= epoch'
  BY <1>4
<1>11. Accepts(t) <=> Accepts(t)'
  BY <1>8, <1>9
<1>12. ASSUME Accepts(t)' PROVE bindings'[t.slot].base = t.base /\ bindings'[t.slot].size = t.size
  BY <1>2, <1>8, <1>9, <1>11, <1>12 DEF TokenOK
<1> QED
  BY <1>2, <1>10, <1>11, <1>12 DEF TokenOK

\* Taking a token, looking at it again and returning keep the tokens told apart.
LEMMA ActivationKeepsTokens ==
  ASSUME CacheInv, TokenInv, UNCHANGED cache,
         \/ \E i \in Slots : Enter(i)
         \/ \E t \in held : Safepoint(t) \/ Return(t)
         \/ held' = held
  PROVE  TokenInv'
<1> USE SizesAssumption
<1>1. \A t : TokenOK(t)' <=> TokenOK(t)
  BY DEF TokenOK, Accepts, Slots, cache
<1>2. ASSUME NEW i \in Slots, Enter(i) PROVE TokenInv'
  <2>1. PICK t : t = [slot |-> i, epoch |-> bindings[i].epoch, module |-> bindings[i].module,
                      base |-> bindings[i].base, size |-> bindings[i].size,
                      seen |-> invalidations, stale |-> FALSE]
    OBVIOUS
  <2>2. held' = held \cup {t} /\ bindings[i].valid
    BY <1>2, <2>1 DEF Enter
  <2>3. /\ i \in Nat /\ bindings[i] \in Binding /\ bindings[i].epoch <= epoch
        /\ invalidations \in Nat
    BY DEF CacheInv, CacheTypes, EpochsBounded, Slots
  <2>4. /\ t.slot = i /\ t.epoch = bindings[i].epoch /\ t.module = bindings[i].module
        /\ t.base = bindings[i].base /\ t.size = bindings[i].size
        /\ t.seen = invalidations /\ ~t.stale
    BY <2>1
  <2>5. t \in Token
    BY <2>1, <2>3 DEF Token, Binding
  <2>6. Accepts(t)
    BY <2>2, <2>4 DEF Accepts
  <2>7. TokenOK(t)
    BY <2>3, <2>4, <2>6 DEF TokenOK
  <2> QED
    BY <1>1, <2>2, <2>5, <2>7 DEF TokenInv
<1>3. ASSUME NEW t \in held, Safepoint(t) PROVE TokenInv'
  <2>1. t \in Token /\ TokenOK(t) /\ invalidations \in Nat
    BY DEF TokenInv, CacheInv, CacheTypes
  <2>2. CASE ~Accepts(t)
    <3>1. held' = held \ {t}
      BY <1>3, <2>2 DEF Safepoint
    <3> QED
      BY <1>1, <3>1 DEF TokenInv
  <2>3. CASE Accepts(t)
    <3>1. PICK u : u = [t EXCEPT !.seen = invalidations]
      OBVIOUS
    <3>2. held' = (held \ {t}) \cup {u}
      BY <1>3, <2>3, <3>1 DEF Safepoint
    <3>3. /\ u \in Token /\ u.slot = t.slot /\ u.epoch = t.epoch /\ u.module = t.module
          /\ u.base = t.base /\ u.size = t.size /\ u.seen = invalidations
          /\ u.stale = t.stale
      BY <2>1, <3>1 DEF Token
    <3>4. Accepts(u)
      BY <2>3, <3>3 DEF Accepts
    <3>5. TokenOK(u)
      BY <2>1, <2>3, <3>3, <3>4 DEF TokenOK
    <3> QED
      BY <1>1, <3>2, <3>3, <3>5 DEF TokenInv
  <2> QED
    BY <2>2, <2>3
<1>4. ASSUME NEW t \in held, Return(t) PROVE TokenInv'
  BY <1>1, <1>4 DEF Return, TokenInv
<1>5. CASE held' = held
  BY <1>1, <1>5 DEF TokenInv
<1> QED
  BY <1>2, <1>3, <1>4, <1>5

\* A reset leaves every token rejected.
LEMMA ResetKeepsTokens == CacheInv /\ TokenInv /\ Reset => TokenInv'
<1> SUFFICES ASSUME CacheInv, TokenInv, Reset PROVE TokenInv'
  OBVIOUS
<1> USE SizesAssumption
<1>1. SUFFICES ASSUME NEW t \in held
               PROVE  LET u == [t EXCEPT !.stale = TRUE] IN u \in Token /\ TokenOK(u)'
  BY DEF Reset, TokenInv
<1>2. t \in Token /\ TokenOK(t)
  BY DEF TokenInv
<1>3. PICK u : u = [t EXCEPT !.stale = TRUE]
  OBVIOUS
<1>4. u \in Token /\ u.epoch = t.epoch /\ u.seen = t.seen
  BY <1>2, <1>3, MarkToken
<1>5. binding_count' = 0 /\ epoch' = epoch /\ invalidations' = invalidations + 1
  BY DEF Reset, EpochAfterReset
<1>6. ~Accepts(u)'
  BY <1>5 DEF Accepts, Slots
<1>7. u.seen < invalidations' /\ u.seen \in Nat /\ invalidations' \in Nat
  BY <1>2, <1>4, <1>5 DEF TokenOK, Token, CacheInv, CacheTypes
<1>8. u.seen <= invalidations' /\ u.seen # invalidations'
  BY <1>7
<1> QED
  BY <1>2, <1>3, <1>4, <1>5, <1>6, <1>8 DEF TokenOK

LEMMA TokenStep == CacheInv /\ TokenInv /\ [Next]_vars => TokenInv'
<1> SUFFICES ASSUME CacheInv, TokenInv, [Next]_vars PROVE TokenInv'
  OBVIOUS
<1>1. ASSUME NEW a \in Addr, NEW v \in Values, Write(a, v) PROVE TokenInv'
  BY <1>1, WriteKeepsTokens
<1>2. CASE BindTag
  <2> PICK base : base = tags[scan.next]
    OBVIOUS
  <2>1. /\ Candidate(base) /\ (Known(base) \/ binding_count < Capacity)
        /\ epoch' = epoch + 1 /\ invalidations' = invalidations /\ held' = held
    BY <1>2 DEF BindTag
  <2>2. PICK module \in Identity(base) : Record(base, module, epoch + 1)
    BY <1>2 DEF BindTag
  <2>3. PICK e \in Nat : e = epoch + 1
    BY DEF CacheInv, CacheTypes
  <2>4. Record(base, module, e) /\ epoch' \in Nat /\ epoch <= epoch'
    BY <2>1, <2>2, <2>3 DEF CacheInv, CacheTypes
  <2> QED
    BY <2>1, <2>3, <2>4, RecordKeepsTokens
<1>3. CASE RejectTag
  <2> PICK base : base = tags[scan.next]
    OBVIOUS
  <2>1. PICK e : e = bindings[SlotOf(base)].epoch
    OBVIOUS
  <2>2. /\ Candidate(base) /\ (Known(base) \/ binding_count < Capacity)
        /\ epoch' = epoch /\ invalidations' = invalidations /\ held' = held
        /\ Record(base, NoModule, e)
    BY <1>3, <2>1 DEF RejectTag
  <2>3. epoch' \in Nat /\ epoch <= epoch'
    BY <2>2 DEF CacheInv, CacheTypes
  <2>4. e \in Nat
    <3>1. binding_count \in 0 .. Capacity /\ bindings \in [1 .. Capacity -> Binding]
      BY DEF CacheInv, CacheTypes
    <3>2. ASSUME Known(base) PROVE SlotOf(base) \in 1 .. Capacity
      <4>1. SlotOf(base) \in Slots
        BY <3>2 DEF SlotOf, Known
      <4> QED
        BY <3>1, <4>1, SizesAssumption DEF Slots
    <3>3. ASSUME ~Known(base) PROVE SlotOf(base) \in 1 .. Capacity
      BY <2>2, <3>1, <3>3, SizesAssumption DEF SlotOf
    <3>4. bindings[SlotOf(base)] \in Binding
      BY <3>1, <3>2, <3>3
    <3> QED
      BY <2>1, <3>4 DEF Binding
  <2> QED
    BY <2>2, <2>3, <2>4, RecordKeepsTokens
<1>4. CASE \E a \in Addr : BeginResolve(a)
  BY <1>4, ActivationKeepsTokens DEF BeginResolve
<1>5. CASE SkipTag \/ Overflow \/ EndResolve
  BY <1>5, ActivationKeepsTokens DEF SkipTag, Overflow, EndResolve
<1>6. CASE \E i \in Slots : Enter(i)
  <2>1. UNCHANGED cache
    BY <1>6 DEF Enter
  <2> QED
    BY <1>6, <2>1, ActivationKeepsTokens
<1>7. CASE \E t \in held : Safepoint(t) \/ Return(t)
  <2>1. UNCHANGED cache
    BY <1>7 DEF Safepoint, Return
  <2> QED
    BY <1>7, <2>1, ActivationKeepsTokens
<1>8. CASE UNCHANGED vars
  BY <1>8, ActivationKeepsTokens DEF vars
<1> QED
  BY <1>1, <1>2, <1>3, <1>4, <1>5, <1>6, <1>7, <1>8, ResetKeepsTokens DEF Next

LEMMA TokensSound == Spec => []TokenInv
<1>1. Init => TokenInv
  BY DEF Init, TokenInv
<1> QED
  BY <1>1, CacheSound, TokenStep, PTL DEF Spec

\* No native activation is let on in code that was written to, or reset, since the
\* activation took its token (cdi_native_instruction_valid).
THEOREM StaleActivationsStop == Spec => []StaleTokenRejected
<1>1. TokenInv => StaleTokenRejected
  BY DEF TokenInv, TokenOK, StaleTokenRejected
<1> QED
  BY <1>1, TokensSound, PTL

\* A job may skip the token test while the invalidation epoch has not moved (segment
\* in cdi_drawing_jobs.c).
THEOREM UnmovedEpochSuffices == Spec => []UnmovedEpochIsSafe
<1>1. TokenInv => UnmovedEpochIsSafe
  BY DEF TokenInv, TokenOK, UnmovedEpochIsSafe
<1> QED
  BY <1>1, TokensSound, PTL

\* An activation goes on only while its image stands, by the full test and by the
\* shorter one (cdi_native_instruction_valid, segment in cdi_drawing_jobs.c).
THEOREM TokensSafe == Spec => []TokensAreSafe
  BY StaleActivationsStop, UnmovedEpochSuffices, PTL DEF TokensAreSafe

\* Rejections and the range filter are current (resolve, may_overlap_binding).
THEOREM CachesAreCurrent == Spec => []CachesCurrent
  BY RejectionsCurrent, FilterHidesNothing, PTL DEF CachesCurrent

-----------------------------------------------------------------------------
(* resolve looks at every tag, and every image in RAM has one. *)

\* The list and the index are inverse, and name the words that hold the sync.
TagInv ==
  /\ tags \in Seq(Addr) /\ tag_indices \in [Addr -> Nat]
  /\ \A a \in Addr : (ram[a] = Sync) <=> (tag_indices[a] # 0)
  /\ \A a \in Addr : tag_indices[a] # 0 =>
        tag_indices[a] \in 1 .. Len(tags) /\ tags[tag_indices[a]] = a
  /\ \A i \in 1 .. Len(tags) : tag_indices[tags[i]] = i

\* No image at base reaches the address.
Unreached(base, address) ==
  \A m \in Modules : ImageAt(base, m) => ~(base <= address /\ address < base + m.size)

\* The tags a resolve is past were rightly passed.
ScanInv ==
  scan # Idle =>
    /\ DOMAIN scan = {"address", "next"} /\ scan.address \in Addr /\ scan.next \in Nat \ {0}
    /\ Matching(scan.address) = {}
    /\ \A i \in 1 .. Len(tags) : i < scan.next => Unreached(tags[i], scan.address)

\* What an image in RAM tells of its header.
LEMMA ImageHeader ==
  ASSUME CacheTypes, NEW base \in Addr, NEW m \in Modules, ImageAt(base, m)
  PROVE  /\ ram[base] = Sync /\ HeaderSize(base) = m.size /\ InBank(base, m.size)
         /\ m.size \in Nat /\ m.size >= MinSize /\ ram[base + 1] = m.word[1] /\ m.word[1] \in Sealed
<1> USE SizesAssumption, ImagesAssumption
<1>1. /\ m.size \in Nat /\ m.size >= MinSize /\ MinSize >= 2 /\ MinSize \in Nat /\ InBank(base, m.size)
      /\ \A i \in 0 .. m.size - 1 : ram[base + i] = m.word[i]
  BY DEF ImageAt
<1>2. base \in Nat /\ base + 0 = base /\ 0 \in 0 .. m.size - 1 /\ 1 \in 0 .. m.size - 1
  BY <1>1 DEF Addr
<1>3. ram[base] = m.word[0] /\ ram[base + 1] = m.word[1]
  BY <1>1, <1>2
<1>4. InBank(base, MinSize)
  BY <1>1, <1>2 DEF InBank
<1> QED BY <1>1, <1>3, <1>4 DEF HeaderSize

\* A tag that is no candidate has no image that reaches the address, ...
LEMMA SkipUnreached ==
  ASSUME CacheInv, NEW base \in Addr, scan.address \in Addr, Matching(scan.address) = {}, ~Candidate(base)
  PROVE  Unreached(base, scan.address)
<1> SUFFICES ASSUME NEW m \in Modules, ImageAt(base, m), base <= scan.address,
                    scan.address < base + m.size
             PROVE  FALSE
  BY DEF Unreached
<1>1. /\ HeaderSize(base) = m.size /\ InBank(base, m.size)
      /\ m.size \in Nat /\ m.size >= MinSize /\ ram[base + 1] = m.word[1] /\ m.word[1] \in Sealed
  BY ImageHeader DEF CacheInv
<1>2. Known(base) /\ bindings[SlotOf(base)].checked
  BY <1>1 DEF Candidate
<1>3. PICK k \in Slots : k = SlotOf(base) /\ bindings[k].base = base
  BY <1>2 DEF Known, SlotOf
<1>4. bindings[k].checked /\ SlotOK(bindings[k]) /\ IdentityOK(bindings[k])
  BY <1>2, <1>3 DEF CacheInv
<1>5. bindings[k].valid
  BY <1>3, <1>4 DEF IdentityOK
<1>6. bindings[k].size = m.size
  <2>1. InBank(base, MinSize)
    BY <1>1, SizesAssumption DEF InBank, Addr
  <2> QED BY <1>1, <1>3, <1>4, <2>1 DEF SlotOK, HeaderSize
<1>7. Covers(bindings[k], scan.address)
  BY <1>3, <1>6 DEF Covers
<1>8. k \in Matching(scan.address)
  BY <1>5, <1>7 DEF Matching
<1> QED BY <1>8

\* ... and neither has one whose identity is no compiled image's.
LEMMA RejectUnreached ==
  ASSUME CacheInv, NEW base \in Addr, Identity(base) = {}
  PROVE  Unreached(base, scan.address)
<1> SUFFICES ASSUME NEW m \in Modules, ImageAt(base, m) PROVE FALSE
  BY DEF Unreached
<1>1. HeaderSize(base) = m.size
  BY ImageHeader DEF CacheInv
<1> QED BY <1>1 DEF Identity

-----------------------------------------------------------------------------
LEMMA AppendTag ==
  ASSUME TagInv, NEW a \in Addr, tag_indices[a] = 0,
         tags' = Append(tags, a), tag_indices' = [tag_indices EXCEPT ![a] = Len(tags) + 1],
         ram' = [ram EXCEPT ![a] = Sync], ram \in [Addr -> Values]
  PROVE  TagInv'
<1>1. PICK n \in Nat : n = Len(tags)
  BY LenProperties DEF TagInv
<1>2. /\ tags' \in Seq(Addr) /\ Len(tags') = n + 1 /\ tags'[n + 1] = a
      /\ \A i \in 1 .. n : tags'[i] = tags[i]
  BY <1>1, AppendProperties DEF TagInv
<1>3. tag_indices' \in [Addr -> Nat] /\ tag_indices'[a] = n + 1
      /\ \A x \in Addr : x # a => tag_indices'[x] = tag_indices[x]
  BY <1>1 DEF TagInv
<1>4. \A i \in 1 .. n : tags[i] \in Addr /\ tags[i] # a
  <2>1. \A i \in 1 .. n : tag_indices[tags[i]] = i /\ tags[i] \in Addr
    BY <1>1, ElementOfSeq DEF TagInv
  <2> QED BY <2>1
<1>5. \A x \in Addr : (ram'[x] = Sync) <=> (tag_indices'[x] # 0)
  BY <1>3 DEF TagInv
<1>6. ASSUME NEW x \in Addr, tag_indices'[x] # 0
      PROVE  tag_indices'[x] \in 1 .. n + 1 /\ tags'[tag_indices'[x]] = x
  <2>1. CASE x = a
    BY <1>2, <1>3, <2>1
  <2>2. CASE x # a
    BY <1>1, <1>2, <1>3, <1>6, <2>2 DEF TagInv
  <2> QED BY <2>1, <2>2
<1>7. ASSUME NEW i \in 1 .. n + 1 PROVE tag_indices'[tags'[i]] = i
  <2>1. CASE i = n + 1
    BY <1>2, <1>3, <2>1
  <2>2. CASE i # n + 1
    BY <1>1, <1>2, <1>3, <1>4, <2>2 DEF TagInv
  <2> QED BY <2>1, <2>2
<1> QED BY <1>2, <1>3, <1>5, <1>6, <1>7 DEF TagInv

LEMMA RemoveTag ==
  ASSUME TagInv, NEW a \in Addr, tag_indices[a] # 0, Untag(a), NEW v \in Values, v # Sync,
         ram' = [ram EXCEPT ![a] = v], ram \in [Addr -> Values]
  PROVE  TagInv'
<1>1. PICK n \in Nat : n = Len(tags)
  BY LenProperties DEF TagInv
<1>2. PICK slot \in 1 .. n : slot = tag_indices[a] /\ tags[slot] = a
  BY <1>1 DEF TagInv
<1>3. \A i \in 1 .. n : tags[i] \in Addr /\ tag_indices[tags[i]] = i
  BY <1>1, ElementOfSeq DEF TagInv
<1>4. PICK last \in Addr : last = tags[n] /\ tag_indices[last] = n
  BY <1>3
<1>5. PICK moved : moved = [tags EXCEPT ![slot] = last]
  OBVIOUS
<1>6. DOMAIN tags = 1 .. n
  BY <1>1, LenProperties DEF TagInv
<1>7. \A i \in 1 .. n : moved[i] = IF i = slot THEN last ELSE tags[i]
  BY <1>5, <1>6
<1>8. tags' = SubSeq(moved, 1, n - 1) /\ tag_indices' = [tag_indices EXCEPT ![last] = slot, ![a] = 0]
  BY <1>1, <1>2, <1>4, <1>5 DEF Untag
<1>9. /\ tags' \in Seq(Addr) /\ Len(tags') = n - 1
      /\ \A i \in 1 .. n - 1 : tags'[i] = moved[i]
  <2>1. \A i \in 1 .. n - 1 : moved[i] \in Addr
    BY <1>3, <1>7
  <2>2. 1 \in Int /\ n - 1 \in Int /\ n >= 1 /\ n - 1 - 1 + 1 = n - 1 /\ \A i \in 1 .. n - 1 : 1 + i - 1 = i
    BY <1>2
  <2>3. /\ tags' \in Seq(Addr) /\ Len(tags') = IF 1 <= n - 1 THEN n - 1 - 1 + 1 ELSE 0
        /\ \A i \in 1 .. n - 1 - 1 + 1 : tags'[i] = moved[1 + i - 1]
    BY <1>8, <2>1, <2>2, SubSeqProperties
  <2> QED BY <2>2, <2>3
<1>10. /\ tag_indices' \in [Addr -> Nat]
       /\ \A x \in Addr : tag_indices'[x] = IF x = a THEN 0 ELSE IF x = last THEN slot ELSE tag_indices[x]
  <2>1. DOMAIN tag_indices = Addr /\ \A x \in Addr : tag_indices[x] \in Nat
    BY DEF TagInv
  <2>2. PICK half : half = [tag_indices EXCEPT ![last] = slot]
    OBVIOUS
  <2>3. tag_indices' = [half EXCEPT ![a] = 0]
    BY <1>8, <2>2
  <2>4. DOMAIN half = Addr /\ \A x \in Addr : half[x] = IF x = last THEN slot ELSE tag_indices[x]
    BY <2>1, <2>2
  <2>5. /\ tag_indices' = [x \in Addr |-> IF x = a THEN 0 ELSE half[x]]
        /\ \A x \in Addr : tag_indices'[x] = IF x = a THEN 0 ELSE half[x]
    BY <2>3, <2>4
  <2>6. \A x \in Addr : tag_indices'[x] = IF x = a THEN 0 ELSE IF x = last THEN slot ELSE tag_indices[x]
    BY <2>4, <2>5
  <2>7. \A x \in Addr : tag_indices'[x] \in Nat
    BY <1>2, <2>1, <2>6
  <2> QED BY <2>5, <2>6, <2>7
<1>11. \A x \in Addr : (ram'[x] = Sync) <=> (tag_indices'[x] # 0)
  <2>1. last # a => ram[last] = Sync
    BY <1>2, <1>4 DEF TagInv
  <2> QED BY <1>2, <1>10, <2>1, ZenonT(60) DEF TagInv
<1>12. ASSUME NEW x \in Addr, tag_indices'[x] # 0
       PROVE  tag_indices'[x] \in 1 .. n - 1 /\ tags'[tag_indices'[x]] = x
  <2>1. x # a
    BY <1>10, <1>12
  <2>2. CASE x = last
    <3>1. slot # n
      BY <1>2, <1>4, <2>1, <2>2
    <3>2. tag_indices'[x] = slot /\ slot \in 1 .. n - 1
      BY <1>10, <2>1, <2>2, <3>1
    <3> QED BY <1>7, <1>9, <2>2, <3>2
  <2>3. CASE x # last
    <3>1. tag_indices'[x] = tag_indices[x] /\ tag_indices[x] \in 1 .. n /\ tags[tag_indices[x]] = x
      BY <1>1, <1>10, <1>12, <2>1, <2>3 DEF TagInv
    <3>2. tag_indices[x] # n /\ tag_indices[x] # slot
      BY <1>2, <1>4, <2>1, <2>3, <3>1
    <3>3. tag_indices[x] \in 1 .. n - 1
      BY <3>1, <3>2
    <3> QED BY <1>7, <1>9, <3>1, <3>2, <3>3
  <2> QED BY <2>2, <2>3
<1>13. ASSUME NEW i \in 1 .. n - 1 PROVE tag_indices'[tags'[i]] = i
  <2>1. tags'[i] = (IF i = slot THEN last ELSE tags[i]) /\ i \in 1 .. n /\ i # n
    BY <1>7, <1>9, SMTT(60)
  <2>2. CASE i = slot
    <3>1. last # a
      BY <1>2, <1>4, <2>1, <2>2
    <3> QED BY <1>10, <2>1, <2>2, <3>1
  <2>3. CASE i # slot
    <3>1. tags'[i] = tags[i] /\ tags[i] \in Addr /\ tag_indices[tags[i]] = i
      BY <1>3, <2>1, <2>3
    <3>2. tags[i] # a /\ tags[i] # last
      BY <1>2, <1>4, <2>1, <2>3, <3>1
    <3> QED BY <1>10, <3>1, <3>2
  <2> QED BY <2>2, <2>3
<1> QED BY <1>9, <1>10, <1>11, <1>12, <1>13 DEF TagInv

LEMMA WriteKeepsTags ==
  ASSUME CacheInv, TagInv, NEW a \in Addr, NEW v \in Values, Write(a, v)
  PROVE  TagInv'
<1>1. ram' = [ram EXCEPT ![a] = v] /\ ram \in [Addr -> Values] /\ Retag(a, v)
  BY DEF Write, CacheInv, CacheTypes
<1>2. CASE v = Sync /\ tag_indices[a] = 0
  <2>1. tags' = Append(tags, a) /\ tag_indices' = [tag_indices EXCEPT ![a] = Len(tags) + 1]
    BY <1>1, <1>2 DEF Retag
  <2> QED BY <1>1, <1>2, <2>1, AppendTag
<1>3. CASE v # Sync /\ tag_indices[a] # 0
  <2>1. Untag(a)
    BY <1>1, <1>3 DEF Retag
  <2> QED BY <1>1, <1>3, <2>1, RemoveTag
<1>4. CASE v = Sync /\ tag_indices[a] # 0
  <2>1. tags' = tags /\ tag_indices' = tag_indices
    BY <1>1, <1>4 DEF Retag, marks
  <2>2. \A x \in Addr : (ram'[x] = Sync) <=> (ram[x] = Sync)
    BY <1>1, <1>4 DEF TagInv
  <2> QED BY <2>1, <2>2 DEF TagInv
<1>5. CASE v # Sync /\ tag_indices[a] = 0
  <2>1. tags' = tags /\ tag_indices' = tag_indices
    BY <1>1, <1>5 DEF Retag, marks
  <2>2. \A x \in Addr : (ram'[x] = Sync) <=> (ram[x] = Sync)
    BY <1>1, <1>5 DEF TagInv
  <2> QED BY <2>1, <2>2 DEF TagInv
<1> QED BY <1>2, <1>3, <1>4, <1>5

LEMMA ResetKeepsTags ==
  ASSUME CacheInv, TagInv, Reset
  PROVE  TagInv'
<1>1. PICK found : found = {a \in Addr : ram[a] = Sync}
  OBVIOUS
<1>2. /\ ram' = ram
      /\ tags' \in [1 .. Cardinality(found) -> found]
      /\ \A i, j \in DOMAIN tags' : i < j => tags'[i] < tags'[j]
      /\ \A a \in found : \E i \in DOMAIN tags' : tags'[i] = a
      /\ tag_indices' = [a \in Addr |-> IF a \in found
                                        THEN CHOOSE i \in DOMAIN tags' : tags'[i] = a ELSE 0]
  BY <1>1 DEF Reset
<1>3. IsFiniteSet(Addr)
  BY FS_Interval, SizesAssumption DEF Addr
<1>4. PICK n \in Nat : n = Cardinality(found)
  BY <1>1, <1>3, FS_Subset, FS_CardinalityType
<1>5. tags' \in [1 .. n -> found] /\ DOMAIN tags' = 1 .. n
  BY <1>2, <1>4
<1>6. tags' \in Seq(Addr) /\ Len(tags') = n
  BY <1>1, <1>5
<1>7. \A a \in found : tag_indices'[a] \in 1 .. n /\ tags'[tag_indices'[a]] = a
  <2> SUFFICES ASSUME NEW a \in found PROVE tag_indices'[a] \in 1 .. n /\ tags'[tag_indices'[a]] = a
    OBVIOUS
  <2>1. tag_indices'[a] = CHOOSE i \in DOMAIN tags' : tags'[i] = a
    BY <1>1, <1>2
  <2>2. \E i \in DOMAIN tags' : tags'[i] = a
    BY <1>2
  <2> QED BY <1>5, <2>1, <2>2
<1>8. \A a \in Addr : a \notin found => tag_indices'[a] = 0
  BY <1>2
<1>9. tag_indices' \in [Addr -> Nat]
  <2>1. \A a \in Addr : tag_indices'[a] \in Nat
    BY <1>7, <1>8
  <2> QED BY <1>2, <2>1
<1>10. \A i \in 1 .. n : tag_indices'[tags'[i]] = i
  <2> SUFFICES ASSUME NEW i \in 1 .. n PROVE tag_indices'[tags'[i]] = i
    OBVIOUS
  <2>1. PICK j \in 1 .. n : j = tag_indices'[tags'[i]] /\ tags'[j] = tags'[i]
    BY <1>5, <1>7
  <2>2. \A k \in 1 .. n : tags'[k] \in Nat
    BY <1>1, <1>5 DEF Addr
  <2>3. CASE i < j
    BY <1>2, <1>5, <2>1, <2>2, <2>3
  <2>4. CASE j < i
    <3>1. tags'[j] < tags'[i]
      BY <1>2, <1>5, <2>4
    <3> QED BY <2>1, <2>2, <3>1
  <2> QED BY <2>1, <2>3, <2>4
<1>11. \A a \in Addr : (ram'[a] = Sync) <=> (tag_indices'[a] # 0)
  BY <1>1, <1>2, <1>7, <1>8
<1>12. \A a \in Addr : tag_indices'[a] # 0 => tag_indices'[a] \in 1 .. n /\ tags'[tag_indices'[a]] = a
  BY <1>7, <1>8
<1> QED BY <1>6, <1>9, <1>10, <1>11, <1>12 DEF TagInv

LEMMA TagStep == CacheInv /\ TagInv /\ [Next]_vars => TagInv'
<1> SUFFICES ASSUME CacheInv, TagInv, [Next]_vars PROVE TagInv'
  OBVIOUS
<1>1. ASSUME NEW a \in Addr, NEW v \in Values, Write(a, v) PROVE TagInv'
  BY <1>1, WriteKeepsTags
<1>2. CASE Reset
  BY <1>2, ResetKeepsTags
<1>3. CASE ram' = ram /\ UNCHANGED marks
  BY <1>3 DEF marks, TagInv
<1>4. CASE \E a \in Addr : BeginResolve(a)
  BY <1>3, <1>4 DEF BeginResolve
<1>5. CASE BindTag \/ RejectTag \/ SkipTag \/ Overflow \/ EndResolve
  BY <1>3, <1>5 DEF BindTag, RejectTag, SkipTag, Overflow, EndResolve
<1>6. CASE \E i \in Slots : Enter(i)
  BY <1>3, <1>6 DEF Enter
<1>7. CASE \E t \in held : Safepoint(t) \/ Return(t)
  BY <1>3, <1>7 DEF Safepoint, Return
<1>8. CASE UNCHANGED vars
  BY <1>3, <1>8 DEF vars
<1> QED BY <1>1, <1>2, <1>4, <1>5, <1>6, <1>7, <1>8 DEF Next

LEMMA ScanStep == CacheInv /\ CacheInv' /\ TagInv /\ ScanInv /\ [Next]_vars => ScanInv'
<1> SUFFICES ASSUME CacheInv, CacheInv', TagInv, ScanInv, [Next]_vars, scan' # Idle PROVE ScanInv'
  BY DEF ScanInv
<1>1. ASSUME NEW a \in Addr, BeginResolve(a) PROVE ScanInv'
  <2>1. CASE Matching(a) # {}
    BY <1>1, <2>1 DEF BeginResolve, Quiescent
  <2>2. CASE Matching(a) = {}
    <3>1. /\ scan' = [address |-> a, next |-> 1] /\ bindings' = bindings /\ binding_count' = binding_count
          /\ tags' = tags
      BY <1>1, <2>2 DEF BeginResolve, cache, marks
    <3>2. Len(tags) \in Nat
      BY LenProperties DEF TagInv
    <3>3. DOMAIN scan' = {"address", "next"} /\ scan'.address = a /\ scan'.next = 1
      BY <3>1
    <3> QED BY <2>2, <3>1, <3>2, <3>3 DEF ScanInv, Matching, Slots, Covers
  <2> QED BY <2>1, <2>2
<1>2. CASE RejectTag \/ SkipTag
  <2>1. /\ scan # Idle /\ scan.next <= Len(tags) /\ scan' = [scan EXCEPT !.next = @ + 1]
        /\ ram' = ram /\ tags' = tags
    BY <1>2 DEF RejectTag, SkipTag, marks
  <2>2. /\ DOMAIN scan = {"address", "next"} /\ scan.address \in Addr /\ scan.next \in Nat \ {0}
        /\ Matching(scan.address) = {} /\ Len(tags) \in Nat
    BY <2>1, LenProperties DEF ScanInv, TagInv
  <2>3. /\ DOMAIN scan' = {"address", "next"} /\ scan'.address = scan.address
        /\ scan'.next = scan.next + 1
    BY <2>1, <2>2
  <2>4. PICK base \in Addr : base = tags[scan.next]
    BY <2>1, <2>2, ElementOfSeq DEF TagInv
  <2>5. Unreached(base, scan.address)
    <3>1. CASE RejectTag
      BY <2>4, <3>1, RejectUnreached DEF RejectTag
    <3>2. CASE SkipTag
      BY <2>2, <2>4, <3>2, SkipUnreached DEF SkipTag
    <3> QED BY <1>2, <3>1, <3>2
  <2>6. Matching(scan.address)' = {}
    <3>1. CASE SkipTag
      BY <2>2, <2>3, <3>1 DEF SkipTag, cache, Matching, Slots, Covers
    <3>2. CASE RejectTag
      <4>1. PICK k : k = SlotOf(base)
        OBVIOUS
      <4>2. PICK new : new = [base |-> base, size |-> HeaderSize(base), epoch |-> bindings[k].epoch,
                              module |-> NoModule, checked |-> TRUE, valid |-> NoModule # NoModule]
        OBVIOUS
      <4>3. /\ bindings' = [bindings EXCEPT ![k] = new] /\ ~new.valid
            /\ binding_count' = IF Known(base) THEN binding_count ELSE binding_count + 1
        BY <2>4, <3>2, <4>1, <4>2 DEF RejectTag, Record
      <4>4. Slots' \subseteq 1 .. Capacity
        BY SizesAssumption DEF CacheInv, CacheTypes, Slots
      <4>5. \A i \in Slots' : i = k \/ i \in Slots
        BY <4>1, <4>3 DEF Slots, SlotOf, CacheInv, CacheTypes
      <4>6. ASSUME NEW i \in Slots', bindings'[i].valid
            PROVE  i \in Slots /\ bindings'[i] = bindings[i]
        <5>1. i \in DOMAIN bindings
          BY <4>4 DEF CacheInv, CacheTypes
        <5>2. i # k
          BY <4>3, <4>6, <5>1
        <5> QED BY <4>3, <4>5, <5>1, <5>2
      <4> QED BY <2>2, <2>3, <4>6 DEF Matching, Covers
    <3> QED BY <1>2, <3>1, <3>2
  <2>7. ASSUME NEW i \in 1 .. Len(tags), i < scan.next + 1
        PROVE  Unreached(tags[i], scan.address)
    <3>1. CASE i = scan.next
      BY <2>4, <2>5, <3>1
    <3>2. CASE i # scan.next
      BY <2>1, <2>2, <2>7, <3>2 DEF ScanInv
    <3> QED BY <3>1, <3>2
  <2>8. ASSUME NEW i \in 1 .. Len(tags'), i < scan'.next
        PROVE  Unreached(tags[i], scan.address)'
    BY <2>1, <2>3, <2>7, <2>8 DEF Unreached, ImageAt
  <2> QED BY <2>2, <2>3, <2>6, <2>8 DEF ScanInv
<1>3. CASE BindTag \/ Overflow \/ EndResolve
  BY <1>3 DEF BindTag, Overflow, EndResolve
<1>4. CASE scan = Idle /\ scan' = scan
  BY <1>4
<1>5. CASE Reset \/ \E a \in Addr, v \in Values : Write(a, v)
  BY <1>4, <1>5 DEF Reset, Write, Quiescent
<1>6. CASE \E i \in Slots : Enter(i)
  BY <1>4, <1>6 DEF Enter, Quiescent
<1>7. CASE \E t \in held : Safepoint(t) \/ Return(t)
  BY <1>4, <1>7 DEF Safepoint, Return, Quiescent
<1>8. CASE UNCHANGED vars
  BY <1>8 DEF vars, cache, marks, ScanInv, Matching, Slots, Covers, Unreached, ImageAt
<1> QED BY <1>1, <1>2, <1>3, <1>5, <1>6, <1>7, <1>8 DEF Next

LEMMA ScanSound == Spec => [](TagInv /\ ScanInv)
<1>1. Init => TagInv /\ ScanInv
  <2> SUFFICES ASSUME Init PROVE TagInv /\ ScanInv
    OBVIOUS
  <2>1. tags = << >> /\ tags \in Seq(Addr) /\ Len(tags) = 0
    BY EmptySeq DEF Init
  <2>2. \A a \in Addr : ram[a] # Sync /\ tag_indices[a] = 0
    BY ImagesAssumption DEF Init
  <2>3. tag_indices \in [Addr -> Nat]
    BY DEF Init
  <2> QED BY <2>1, <2>2, <2>3 DEF TagInv, ScanInv, Init
<1>2. CacheInv /\ CacheInv' /\ (TagInv /\ ScanInv) /\ [Next]_vars => (TagInv /\ ScanInv)'
  BY TagStep, ScanStep
<1> QED BY <1>1, <1>2, CacheSound, PTL DEF Spec

\* An address is called non-native only if no compiled image in RAM covers it, for every
\* history of writes, resets and cached identities (resolve, cdi_native_notify_write).
THEOREM NoImageMissed == Spec => ResolveComplete
<1>1. ASSUME CacheInv, TagInv, ScanInv, [Next]_vars,
             scan # Idle, scan' = Idle, result' = 0, ~aborted',
             NEW base \in Addr, NEW m \in Modules, ImageAt(base, m),
             base <= scan.address, scan.address < base + m.size
      PROVE  FALSE
  <2>1. CASE EndResolve
    <3>1. ram[base] = Sync
      BY <1>1, ImageHeader DEF CacheInv
    <3>2. PICK i \in 1 .. Len(tags) : tags[i] = base
      BY <1>1, <3>1 DEF TagInv
    <3>3. i < scan.next
      <4>1. Len(tags) \in Nat /\ scan.next > Len(tags) /\ scan.next \in Nat
        BY <1>1, <2>1, LenProperties DEF EndResolve, ScanInv, TagInv
      <4> QED BY <4>1
    <3>4. Unreached(base, scan.address)
      BY <1>1, <3>2, <3>3 DEF ScanInv
    <3> QED BY <1>1, <3>4 DEF Unreached
  <2>2. CASE BindTag
    <3>1. PICK k : k = SlotOf(tags[scan.next]) /\ result' = k
      BY <2>2 DEF BindTag
    <3>2. k # 0
      BY <1>1, <3>1 DEF SlotOf, Known, Slots, CacheInv, CacheTypes
    <3> QED BY <1>1, <3>1, <3>2
  <2>3. CASE Overflow
    BY <1>1, <2>3 DEF Overflow
  <2>4. CASE RejectTag \/ SkipTag
    <3>1. scan' = [scan EXCEPT !.next = @ + 1]
      BY <2>4 DEF RejectTag, SkipTag
    <3>2. scan'.next = scan.next + 1 /\ scan.next \in Nat
      BY <1>1, <3>1 DEF ScanInv
    <3>3. scan'.next = 0
      BY <1>1 DEF Idle
    <3> QED BY <3>2, <3>3
  <2>5. CASE scan = Idle \/ scan' = scan
    BY <1>1, <2>5
  <2>6. CASE Reset \/ \E a \in Addr, v \in Values : Write(a, v)
    BY <2>5, <2>6 DEF Reset, Write, Quiescent
  <2>7. CASE \E a \in Addr : BeginResolve(a)
    BY <2>5, <2>7 DEF BeginResolve, Quiescent
  <2>8. CASE \E i \in Slots : Enter(i)
    BY <2>5, <2>8 DEF Enter, Quiescent
  <2>9. CASE \E t \in held : Safepoint(t) \/ Return(t)
    BY <2>5, <2>9 DEF Safepoint, Return, Quiescent
  <2>10. CASE UNCHANGED vars
    BY <2>5, <2>10 DEF vars
  <2> QED BY <1>1, <2>1, <2>2, <2>3, <2>4, <2>6, <2>7, <2>8, <2>9, <2>10 DEF Next
<1>2. CacheInv /\ TagInv /\ ScanInv /\ [Next]_vars =>
        [scan # Idle /\ scan' = Idle /\ result' = 0 /\ ~aborted' =>
           ~\E base \in Addr, m \in Modules :
              ImageAt(base, m) /\ base <= scan.address /\ scan.address < base + m.size]_vars
  BY <1>1
<1> QED BY <1>2, CacheSound, ScanSound, PTL DEF Spec, ResolveComplete

(***************************************************************************)
(* The checksum span.  A word is a set of bit numbers; what an operation   *)
(* does to it is said bit by bit.                                          *)
(***************************************************************************)
LoaderWords == SUBSET (0 .. 31)

LEMMA SameBits ==
  ASSUME NEW v \in LoaderWords, NEW w \in LoaderWords, \A b \in 0 .. 31 : b \in v <=> b \in w
  PROVE  v = w
BY DEF LoaderWords

LEMMA XorBits ==
  ASSUME NEW v \in LoaderWords, NEW w \in LoaderWords
  PROVE  /\ Xor(v, w) \in LoaderWords
         /\ \A b \in 0 .. 31 : b \in Xor(v, w) <=> ~(b \in v <=> b \in w)
BY DEF LoaderWords, Xor

LEMMA LowBits ==
  ASSUME NEW v \in LoaderWords, NEW n \in 0 .. 32
  PROVE  /\ Low(v, n) \in LoaderWords
         /\ \A b \in 0 .. 31 : b \in Low(v, n) <=> b \in v /\ b < n
BY DEF LoaderWords, Low

LEMMA ShlBits ==
  ASSUME NEW v \in LoaderWords, NEW n \in 0 .. 31
  PROVE  /\ Shl(v, n) \in LoaderWords
         /\ \A b \in 0 .. 31 : b \in Shl(v, n) <=> b - n \in v
<1>1. ASSUME NEW b \in Shl(v, n) PROVE b \in 0 .. 31 /\ b - n \in v
  <2>1. PICK c \in Low(v, 32 - n) : b = c + n
    BY <1>1 DEF Shl
  <2>2. c \in 0 .. 31 /\ c < 32 - n /\ c \in v
    BY DEF Low, LoaderWords
  <2>3. b - n = c
    BY <2>1, <2>2
  <2> QED BY <2>1, <2>2, <2>3
<1>2. ASSUME NEW b \in 0 .. 31, b - n \in v PROVE b \in Shl(v, n)
  <2>1. PICK c \in v : c = b - n /\ c + n = b
    BY <1>2
  <2>2. c \in 0 .. 31 /\ c < 32 - n
    BY <2>1 DEF LoaderWords
  <2>3. c \in Low(v, 32 - n)
    BY <2>2 DEF Low
  <2> QED BY <2>1, <2>3 DEF Shl
<1> QED BY <1>1, <1>2 DEF LoaderWords

LEMMA ShrBits ==
  ASSUME NEW v \in LoaderWords, NEW n \in 0 .. 31
  PROVE  /\ Shr(v, n) \in LoaderWords
         /\ \A b \in 0 .. 31 : b \in Shr(v, n) <=> b + n \in v
<1>1. ASSUME NEW b \in Shr(v, n) PROVE b \in 0 .. 31 /\ b + n \in v
  <2>1. PICK c \in {e \in v : e >= n} : b = c - n
    BY <1>1 DEF Shr
  <2>2. c \in 0 .. 31 /\ c >= n /\ c \in v
    BY DEF LoaderWords
  <2>3. b + n = c
    BY <2>1, <2>2
  <2> QED BY <2>1, <2>2, <2>3
<1>2. ASSUME NEW b \in 0 .. 31, b + n \in v PROVE b \in Shr(v, n)
  <2>1. PICK c \in v : c = b + n /\ c - n = b
    BY <1>2
  <2>2. c \in {e \in v : e >= n}
    BY <2>1
  <2> QED BY <2>1, <2>2 DEF Shr
<1> QED BY <1>1, <1>2 DEF LoaderWords

LEMMA LowPartBits ==
  ASSUME NEW v \in LoaderWords, NEW w \in LoaderWords, NEW n \in 0 .. 32
  PROVE  /\ LowPart(v, w, n) \in LoaderWords
         /\ \A b \in 0 .. 31 : b \in LowPart(v, w, n) <=> IF b < n THEN b \in w ELSE b \in v
BY DEF LoaderWords, LowPart, Low

(***************************************************************************)
(* Parity: the table of the firmware holds the parity of its index.        *)
(***************************************************************************)
LEMMA WordsFinite ==
  ASSUME NEW v \in LoaderWords
  PROVE  IsFiniteSet(v) /\ Cardinality(v) \in Nat
<1>1. IsFiniteSet(0 .. 31)
  <2>1. 0 \in Int /\ 31 \in Int
    OBVIOUS
  <2> QED BY <2>1, FS_Interval
<1>2. IsFiniteSet(v)
  BY <1>1, FS_Subset DEF LoaderWords
<1> QED BY <1>2, FS_CardinalityType

LEMMA ParityXor ==
  ASSUME NEW v \in LoaderWords, NEW w \in LoaderWords
  PROVE  parity(Xor(v, w)) <=> ~(parity(v) <=> parity(w))
<1>1. PICK a \in Nat : a = Cardinality(v)
  BY WordsFinite
<1>2. PICK b \in Nat : b = Cardinality(w)
  BY WordsFinite
<1>3. v \cap w \in LoaderWords /\ v \ w \in LoaderWords /\ w \ v \in LoaderWords
  BY DEF LoaderWords
<1>4. PICK c \in Nat : c = Cardinality(v \cap w)
  BY <1>3, WordsFinite
<1>5. Cardinality(v \ w) = a - c
  <2>1. IsFiniteSet(v) /\ IsFiniteSet(w)
    BY WordsFinite
  <2>2. Cardinality(v \ w) = Cardinality(v) - Cardinality(v \cap w)
    BY <2>1, FS_Difference
  <2> QED BY <1>1, <1>4, <2>2
<1>6. Cardinality(w \ v) = b - c
  <2>1. w \cap v = v \cap w
    OBVIOUS
  <2>2. IsFiniteSet(v) /\ IsFiniteSet(w)
    BY WordsFinite
  <2>3. Cardinality(w \ v) = Cardinality(w) - Cardinality(w \cap v)
    BY <2>2, FS_Difference
  <2> QED BY <1>2, <1>4, <2>1, <2>3
<1>7. Cardinality(Xor(v, w)) = (a - c) + (b - c)
  <2>1. (v \ w) \cap (w \ v) = {}
    OBVIOUS
  <2>2. Cardinality({}) = 0
    BY FS_EmptySet
  <2>3. IsFiniteSet(v \ w) /\ IsFiniteSet(w \ v)
    BY <1>3, WordsFinite
  <2>4. Cardinality((v \ w) \cup (w \ v))
          = Cardinality(v \ w) + Cardinality(w \ v) - Cardinality((v \ w) \cap (w \ v))
    BY <2>3, FS_Union
  <2>5. Cardinality((v \ w) \cup (w \ v)) = (a - c) + (b - c) - 0
    BY <1>5, <1>6, <2>1, <2>2, <2>4
  <2> QED BY <2>5 DEF Xor
<1>8. ((a - c) + (b - c)) % 2 = 1 <=> ~(a % 2 = 1 <=> b % 2 = 1)
  BY SMTT(30)
<1> QED BY <1>1, <1>2, <1>7, <1>8 DEF parity

LEMMA ParityOfNone == parity({}) = FALSE
BY FS_EmptySet DEF parity

\* The parity of one bit of a word is the bit.
LEMMA ParityOfBit ==
  ASSUME NEW v, NEW b
  PROVE  parity(v \cap {b}) <=> b \in v
<1>1. CASE b \in v
  <2>1. v \cap {b} = {b}
    BY <1>1
  <2>2. Cardinality({b}) = 1
    BY FS_Singleton
  <2> QED BY <1>1, <2>1, <2>2 DEF parity
<1>2. CASE b \notin v
  <2>1. v \cap {b} = {}
    BY <1>2
  <2> QED BY <1>2, <2>1, ParityOfNone
<1> QED BY <1>1, <1>2

\* A shift that loses no bit keeps the parity.
LEMMA ParityShifted ==
  ASSUME NEW v \in LoaderWords, NEW n \in 0 .. 31, \A b \in v : b >= n
  PROVE  parity(Shr(v, n)) <=> parity(v)
<1>1. PICK f : f = [b \in v |-> b - n]
  OBVIOUS
<1>2. \A b \in v : b \in 0 .. 31
  BY DEF LoaderWords
<1>3. Shr(v, n) = {b - n : b \in v}
  <2>1. {c \in v : c >= n} = v
    OBVIOUS
  <2> QED BY <2>1 DEF Shr
<1>4. f \in Bijection(v, Shr(v, n))
  <2>1. f \in [v -> Shr(v, n)]
    BY <1>1, <1>3
  <2>2. ASSUME NEW a \in v, NEW b \in v, f[a] = f[b] PROVE a = b
    BY <1>1, <1>2, <2>2
  <2>3. ASSUME NEW t \in Shr(v, n) PROVE \E b \in v : f[b] = t
    BY <1>1, <1>3
  <2> QED BY <2>1, <2>2, <2>3 DEF Bijection, Injection, Surjection, IsInjective
<1>5. Cardinality(v) = Cardinality(Shr(v, n))
  BY <1>4, WordsFinite, FS_Bijection DEF ExistsBijection
<1> QED BY <1>5 DEF parity

(***************************************************************************)
(* The checksum bit by bit, as cdi_loader_math_test.c defines it.          *)
(***************************************************************************)
Byte(word, n) == Shl(Low(Shr(word, 8 * (3 - n)), 8), 16)
Entered(crc, word, n) == IF n % 8 = 0 THEN Xor(crc, Byte(word, n \div 8)) ELSE crc
IsCrc(crc, word, m, f) ==
  f = [n \in 0 .. m |-> IF n = 0 THEN crc ELSE ShiftedOut(Entered(f[n - 1], word, n - 1))]

LEMMA CrcExists ==
  ASSUME NEW crc, NEW word, NEW m \in Nat
  PROVE  \E f : IsCrc(crc, word, m, f)
<1> DEFINE G == {n \in Nat : \E f : IsCrc(crc, word, n, f)}
<1>1. 0 \in G
  <2>1. PICK f : f = [k \in 0 .. 0 |-> crc]
    OBVIOUS
  <2>2. f = [k \in 0 .. 0 |-> IF k = 0 THEN crc ELSE ShiftedOut(Entered(f[k - 1], word, k - 1))]
    BY <2>1
  <2>3. IsCrc(crc, word, 0, f)
    BY <2>2 DEF IsCrc
  <2> QED BY <2>3
<1>2. ASSUME NEW n \in Nat, n \in G PROVE n + 1 \in G
  <2>1. PICK f : IsCrc(crc, word, n, f)
    BY <1>2
  <2>2. PICK t : t = ShiftedOut(Entered(f[n], word, n))
    OBVIOUS
  <2>3. PICK g : g = [k \in 0 .. n + 1 |-> IF k = n + 1 THEN t ELSE f[k]]
    OBVIOUS
  <2>4. \A k \in 0 .. n : f[k] = IF k = 0 THEN crc ELSE ShiftedOut(Entered(f[k - 1], word, k - 1))
    <3>1. PICK e : e = 0 .. n
      OBVIOUS
    <3>2. f = [k \in e |-> IF k = 0 THEN crc ELSE ShiftedOut(Entered(f[k - 1], word, k - 1))]
      BY <2>1, <3>1 DEF IsCrc
    <3> QED BY <3>1, <3>2
  <2>5. ASSUME NEW k \in 0 .. n + 1
        PROVE  g[k] = IF k = 0 THEN crc ELSE ShiftedOut(Entered(g[k - 1], word, k - 1))
    <3>1. CASE k = n + 1
      <4>1. k # 0 /\ k - 1 = n /\ k - 1 \in 0 .. n + 1 /\ k - 1 # n + 1
        BY <3>1
      <4>2. g[k] = t /\ g[k - 1] = f[n]
        BY <2>3, <3>1, <4>1
      <4> QED BY <2>2, <4>1, <4>2
    <3>2. CASE k # n + 1
      <4>1. k \in 0 .. n /\ (k # 0 => k - 1 \in 0 .. n + 1 /\ k - 1 # n + 1)
        BY <3>2
      <4>2. g[k] = f[k] /\ (k # 0 => g[k - 1] = f[k - 1])
        BY <2>3, <3>2, <4>1
      <4> QED BY <2>4, <4>1, <4>2
    <3> QED BY <3>1, <3>2
  <2>6. g = [k \in 0 .. n + 1 |-> IF k = 0 THEN crc ELSE ShiftedOut(Entered(g[k - 1], word, k - 1))]
    BY <2>3, <2>5
  <2>7. IsCrc(crc, word, n + 1, g)
    BY <2>6 DEF IsCrc
  <2> QED BY <2>7
<1>3. m \in G
  <2> HIDE DEF G
  <2> QED BY <1>1, <1>2, AllNumbers
<1> QED BY <1>3

LEMMA CrcIs ==
  ASSUME NEW crc, NEW word
  PROVE  \E f : /\ bitwise(crc, word) = f[32] /\ f[0] = crc
                /\ \A n \in 0 .. 31 : f[n + 1] = ShiftedOut(Entered(f[n], word, n))
<1> DEFINE f == CHOOSE g : IsCrc(crc, word, 32, g)
<1>1. IsCrc(crc, word, 32, f)
  BY CrcExists, Zenon
<1>2. bitwise(crc, word) = f[32]
  BY DEF bitwise, IsCrc, Entered, Byte
<1> HIDE DEF f
<1>3. \A k \in 0 .. 32 : f[k] = IF k = 0 THEN crc ELSE ShiftedOut(Entered(f[k - 1], word, k - 1))
  <2>1. PICK e : e = 0 .. 32
    OBVIOUS
  <2>2. f = [k \in e |-> IF k = 0 THEN crc ELSE ShiftedOut(Entered(f[k - 1], word, k - 1))]
    BY <1>1, <2>1 DEF IsCrc
  <2> QED BY <2>1, <2>2
<1>4. f[0] = crc
  BY <1>3
<1>5. ASSUME NEW n \in 0 .. 31 PROVE f[n + 1] = ShiftedOut(Entered(f[n], word, n))
  <2>1. n + 1 \in 0 .. 32 /\ n + 1 # 0 /\ (n + 1) - 1 = n
    OBVIOUS
  <2>2. f[n + 1] = ShiftedOut(Entered(f[(n + 1) - 1], word, (n + 1) - 1))
    BY <1>3, <2>1
  <2> QED BY <2>1, <2>2
<1> QED BY <1>2, <1>4, <1>5

\* The byte that enters at every eighth bit.
LEMMA EnteredBits ==
  ASSUME NEW c \in LoaderWords, NEW word \in LoaderWords, NEW n \in 0 .. 31
  PROVE  /\ Entered(c, word, n) \in LoaderWords
         /\ \A b \in 0 .. 31 : b \in Entered(c, word, n) <=>
              ~(b \in c <=> n % 8 = 0 /\ b \in 16 .. 23 /\ b + 8 - n \in word)
<1>1. CASE n % 8 # 0
  BY <1>1 DEF Entered
<1>2. CASE n % 8 = 0
  <2>1. PICK m \in 0 .. 3 : m = n \div 8 /\ n = 8 * m
    BY <1>2
  <2>2. PICK s \in 0 .. 31 : s = 8 * (3 - m) /\ s = 24 - n
    BY <2>1
  <2>3. PICK h \in LoaderWords : h = Shr(word, s) /\ \A b \in 0 .. 31 : b \in h <=> b + s \in word
    BY ShrBits
  <2>4. PICK l \in LoaderWords : l = Low(h, 8) /\ \A b \in 0 .. 31 : b \in l <=> b \in h /\ b < 8
    BY LowBits
  <2>5. PICK y \in LoaderWords : y = Shl(l, 16) /\ \A b \in 0 .. 31 : b \in y <=> b - 16 \in l
    BY ShlBits
  <2>6. Entered(c, word, n) = Xor(c, y)
    BY <1>2, <2>1, <2>2, <2>3, <2>4, <2>5 DEF Entered, Byte
  <2>7. ASSUME NEW b \in 0 .. 31 PROVE b \in y <=> b \in 16 .. 23 /\ b + 8 - n \in word
    <3>1. CASE b \in 16 .. 23
      <4>1. PICK e \in 0 .. 7 : e = b - 16 /\ e + s = b + 8 - n
        BY <2>2, <3>1
      <4> QED BY <2>3, <2>4, <2>5, <3>1, <4>1
    <3>2. CASE b \notin 16 .. 23
      <4>1. b - 16 \notin l
        BY <2>4, <3>2 DEF LoaderWords
      <4> QED BY <2>5, <3>2, <4>1
    <3> QED BY <3>1, <3>2
  <2>8. /\ Xor(c, y) \in LoaderWords
        /\ \A b \in 0 .. 31 : b \in Xor(c, y) <=> ~(b \in c <=> b \in y)
    BY XorBits
  <2> QED BY <1>2, <2>6, <2>7, <2>8
<1> QED BY <1>1, <1>2

LEMMA ShiftedOutBits ==
  ASSUME NEW c \in LoaderWords
  PROVE  /\ ShiftedOut(c) \in LoaderWords /\ \A b \in ShiftedOut(c) : b \in 0 .. 23
         /\ \A b \in 0 .. 23 : b \in ShiftedOut(c) <=>
              ~(b - 1 \in c <=> b \in {0, 1, 5, 6, 23} /\ 23 \in c)
<1>1. PICK l \in LoaderWords : l = Shl(c, 1) /\ \A b \in 0 .. 31 : b \in l <=> b - 1 \in c
  BY ShlBits
<1>2. PICK p : p = Polynomial /\ p = {0, 1, 5, 6, 23}
  BY DEF Polynomial
<1>9. p \in LoaderWords
  BY <1>2 DEF LoaderWords
<1>3. PICK x \in LoaderWords : x = Xor(l, p) /\ \A b \in 0 .. 31 : b \in x <=> ~(b \in l <=> b \in p)
  BY <1>9, XorBits
<1>4. PICK y \in LoaderWords : y = IF 23 \in c THEN x ELSE l
  BY <1>1, <1>3
<1>5. PICK z \in LoaderWords : z = Low(y, 24) /\ \A b \in 0 .. 31 : b \in z <=> b \in y /\ b < 24
  BY LowBits
<1>6. ShiftedOut(c) = z
  BY <1>1, <1>2, <1>3, <1>4, <1>5 DEF ShiftedOut
<1>7. ASSUME NEW b \in 0 .. 23
      PROVE  b \in z <=> ~(b - 1 \in c <=> b \in {0, 1, 5, 6, 23} /\ 23 \in c)
  BY <1>1, <1>2, <1>3, <1>4, <1>5
<1>8. \A b \in z : b \in 0 .. 23
  BY <1>5 DEF LoaderWords
<1> QED BY <1>6, <1>7, <1>8

(***************************************************************************)
(* The thirty-two steps unwound.  Q has the steps at which the top bit is  *)
(* set, so that the polynomial is added; it is the quotient of the         *)
(* division.  A bit of the register is the bit of T, the old checksum and  *)
(* the word, that has come to its place, unless it belongs to a byte of    *)
(* the word that has yet to enter, and one bit of Q for each term of the   *)
(* polynomial.                                                             *)
(***************************************************************************)
Differ(a, b) == ~(a <=> b)
Pending(word, n, j) == j \in word /\ j < 32 - 8 * ((n + 7) \div 8)
Fed(Q, n, i) ==
  Differ(n - 1 - i \in Q, Differ(i >= 1 /\ n - i \in Q,
    Differ(i >= 5 /\ n - i + 4 \in Q, Differ(i >= 6 /\ n - i + 5 \in Q, i >= 23 /\ n - i + 22 \in Q))))
Unwound(T, word, Q, n, c) ==
  \A i \in 0 .. 23 :
    i \in c <=> Differ(i + 8 - n \in T, Differ(Pending(word, n, i + 8 - n), Fed(Q, n, i)))

\* T: the checksum above the word's last byte, and the word.
IsT(crc, word, T) ==
  /\ T \in LoaderWords /\ word \in LoaderWords /\ crc \in LoaderWords
  /\ \A b \in 0 .. 31 : b \in T <=> ~(b - 8 \in crc <=> b \in word)

LEMMA PendingStep ==
  ASSUME NEW word \in LoaderWords, NEW n \in 0 .. 31, NEW i \in 0 .. 23
  PROVE  Pending(word, n + 1, i + 8 - n)
           <=> Differ(Pending(word, n, i + 8 - n), n % 8 = 0 /\ i \in 16 .. 23 /\ i + 8 - n \in word)
<1>1. PICK k \in 0 .. 3 : 8 * k <= n /\ n < 8 * k + 8
  <2>1. CASE n < 8
    BY <2>1
  <2>2. CASE n >= 8 /\ n < 16
    BY <2>2
  <2>3. CASE n >= 16 /\ n < 24
    BY <2>3
  <2>4. CASE n >= 24
    BY <2>4
  <2> QED BY <2>1, <2>2, <2>3, <2>4
<1>2. PICK j \in Int : j = i + 8 - n
  OBVIOUS
<1>3. CASE n = 8 * k
  <2>1. (n + 7) \div 8 = k /\ (n + 1 + 7) \div 8 = k + 1 /\ n % 8 = 0
    BY <1>3
  <2>2. j < 32 - 8 * k
    BY <1>2, <1>3
  <2>3. j < 32 - 8 * (k + 1) <=> i < 16
    BY <1>2, <1>3
  <2> QED BY <1>2, <2>1, <2>2, <2>3 DEF Pending, Differ
<1>4. CASE n # 8 * k
  <2>1. (n + 7) \div 8 = k + 1 /\ (n + 1 + 7) \div 8 = k + 1 /\ n % 8 # 0
    BY <1>1, <1>4
  <2> QED BY <2>1 DEF Pending, Differ
<1> QED BY <1>3, <1>4

\* The bits that have not yet come into the register have not yet entered, ...
LEMMA PendingBelow ==
  ASSUME NEW crc, NEW word, NEW T, IsT(crc, word, T), NEW n \in 0 .. 31
  PROVE  Pending(word, n + 1, 7 - n) <=> 7 - n \in T
<1>1. 7 - n < 32 - 8 * ((n + 1 + 7) \div 8)
  BY SMTT(30)
<1>2. CASE n <= 7
  <2>1. PICK b \in 0 .. 7 : b = 7 - n
    BY <1>2
  <2>2. b - 8 \notin crc
    BY DEF IsT, LoaderWords
  <2> QED BY <1>1, <2>1, <2>2 DEF IsT, Pending
<1>3. CASE n > 7
  <2>1. 7 - n \notin T /\ 7 - n \notin word
    BY <1>3 DEF IsT, LoaderWords
  <2> QED BY <2>1 DEF Pending
<1> QED BY <1>2, <1>3

\* ... and the one that leaves at the top has.
LEMMA PendingTop ==
  ASSUME NEW word, NEW n \in 0 .. 31
  PROVE  ~Pending(word, n + 1, 31 - n)
<1>1. ~(31 - n < 32 - 8 * ((n + 1 + 7) \div 8))
  BY SMTT(30)
<1> QED BY <1>1 DEF Pending

LEMMA FedStep ==
  ASSUME NEW Q, NEW n \in 0 .. 31, NEW i \in 1 .. 23, NEW h, h = i - 1
  PROVE  Fed(Q, n + 1, i) <=> Differ(Fed(Q, n, h), i \in {0, 1, 5, 6, 23} /\ n \in Q)
<1>1. /\ (n + 1) - 1 - i = n - 1 - h /\ (n + 1) - i = n - h /\ (n + 1) - i + 4 = n - h + 4
      /\ (n + 1) - i + 5 = n - h + 5 /\ (n + 1) - i + 22 = n - h + 22
  OBVIOUS
<1>2. /\ i = 1 => n - h = n
      /\ i = 5 => n - h + 4 = n
      /\ i = 6 => n - h + 5 = n
      /\ i = 23 => n - h + 22 = n
  OBVIOUS
<1>3. PICK a \in Int : a = n - 1 - h
  OBVIOUS
<1>4. PICK b \in Int : b = n - h
  OBVIOUS
<1>5. PICK c \in Int : c = n - h + 4
  OBVIOUS
<1>6. PICK d \in Int : d = n - h + 5
  OBVIOUS
<1>7. PICK e \in Int : e = n - h + 22
  OBVIOUS
<1>8. Fed(Q, n + 1, i) <=>
        Differ(a \in Q, Differ(i >= 1 /\ b \in Q, Differ(i >= 5 /\ c \in Q, Differ(i >= 6 /\ d \in Q, i >= 23 /\ e \in Q))))
  BY <1>1, <1>3, <1>4, <1>5, <1>6, <1>7 DEF Fed, Differ
<1>9. Fed(Q, n, h) <=>
        Differ(a \in Q, Differ(h >= 1 /\ b \in Q, Differ(h >= 5 /\ c \in Q, Differ(h >= 6 /\ d \in Q, h >= 23 /\ e \in Q))))
  BY <1>3, <1>4, <1>5, <1>6, <1>7 DEF Fed, Differ
<1>10. CASE i \in {1, 5, 6, 23}
  BY <1>2, <1>4, <1>5, <1>6, <1>7, <1>8, <1>9, <1>10 DEF Differ
<1>11. CASE i \notin {1, 5, 6, 23}
  <2>1. /\ i >= 1 /\ h >= 1 /\ (i >= 5 <=> h >= 5) /\ (i >= 6 <=> h >= 6) /\ (i >= 23 <=> h >= 23)
        /\ i \notin {0, 1, 5, 6, 23}
    BY <1>11
  <2> QED BY <1>8, <1>9, <2>1 DEF Differ
<1> QED BY <1>10, <1>11

LEMMA UnwoundStart ==
  ASSUME NEW crc, NEW word, NEW T, IsT(crc, word, T), NEW Q, Q \subseteq 0 .. 31
  PROVE  Unwound(T, word, Q, 0, crc)
<1> SUFFICES ASSUME NEW i \in 0 .. 23
             PROVE  i \in crc <=> Differ(i + 8 - 0 \in T, Differ(Pending(word, 0, i + 8 - 0), Fed(Q, 0, i)))
  BY DEF Unwound
<1>1. PICK b \in 0 .. 31 : b = i + 8 - 0 /\ b - 8 = i
  OBVIOUS
<1>2. Pending(word, 0, b) <=> b \in word
  <2>1. (0 + 7) \div 8 = 0
    OBVIOUS
  <2> QED BY <2>1 DEF Pending
<1>3. ~Fed(Q, 0, i)
  <2>1. \A m \in Int : m < 0 => m \notin Q
    OBVIOUS
  <2>2. /\ 0 - 1 - i \notin Q /\ (i >= 1 => 0 - i \notin Q) /\ (i >= 5 => 0 - i + 4 \notin Q)
        /\ (i >= 6 => 0 - i + 5 \notin Q) /\ (i >= 23 => 0 - i + 22 \notin Q)
    BY <2>1
  <2> QED BY <2>2 DEF Fed, Differ
<1> QED BY <1>1, <1>2, <1>3 DEF IsT, Differ

\* The register with the byte that is due.
UnwoundEntered(T, word, Q, n, c) ==
  \A i \in 0 .. 23 :
    i \in c <=> Differ(i + 8 - n \in T, Differ(Pending(word, n + 1, i + 8 - n), Fed(Q, n, i)))

LEMMA UnwoundEnters ==
  ASSUME NEW T, NEW word \in LoaderWords, NEW Q, NEW n \in 0 .. 31, NEW c \in LoaderWords,
         Unwound(T, word, Q, n, c)
  PROVE  UnwoundEntered(T, word, Q, n, Entered(c, word, n))
<1> SUFFICES ASSUME NEW i \in 0 .. 23
             PROVE  i \in Entered(c, word, n) <=>
                      Differ(i + 8 - n \in T, Differ(Pending(word, n + 1, i + 8 - n), Fed(Q, n, i)))
  BY DEF UnwoundEntered
<1>1. PICK enters \in BOOLEAN : enters <=> n % 8 = 0 /\ i \in 16 .. 23 /\ i + 8 - n \in word
  OBVIOUS
<1>2. i \in Entered(c, word, n) <=> Differ(i \in c, enters)
  <2>1. i \in 0 .. 31
    OBVIOUS
  <2>2. i \in Entered(c, word, n) <=> ~(i \in c <=> n % 8 = 0 /\ i \in 16 .. 23 /\ i + 8 - n \in word)
    BY <2>1, EnteredBits
  <2> QED BY <1>1, <2>2, Zenon DEF Differ
<1>3. i \in c <=> Differ(i + 8 - n \in T, Differ(Pending(word, n, i + 8 - n), Fed(Q, n, i)))
  BY DEF Unwound
<1>4. Pending(word, n + 1, i + 8 - n) <=> Differ(Pending(word, n, i + 8 - n), enters)
  BY <1>1, PendingStep DEF Differ
<1> QED BY <1>2, <1>3, <1>4 DEF Differ

LEMMA UnwoundStep ==
  ASSUME NEW crc, NEW word, NEW T, IsT(crc, word, T), NEW Q, NEW n \in 0 .. 31, NEW e \in LoaderWords,
         UnwoundEntered(T, word, Q, n, e), n \in Q <=> 23 \in e
  PROVE  Unwound(T, word, Q, n + 1, ShiftedOut(e))
<1> SUFFICES ASSUME NEW i \in 0 .. 23
             PROVE  i \in ShiftedOut(e) <=>
                      Differ(i + 8 - (n + 1) \in T, Differ(Pending(word, n + 1, i + 8 - (n + 1)), Fed(Q, n + 1, i)))
  BY DEF Unwound
<1>1. i \in ShiftedOut(e) <=> Differ(i - 1 \in e, i \in {0, 1, 5, 6, 23} /\ n \in Q)
  BY ShiftedOutBits DEF Differ
<1>2. CASE i = 0
  <2>1. i - 1 \notin e
    BY <1>2 DEF LoaderWords
  <2>2. i + 8 - (n + 1) = 7 - n
    BY <1>2
  <2>3. Pending(word, n + 1, 7 - n) <=> 7 - n \in T
    BY PendingBelow
  <2>4. Fed(Q, n + 1, i) <=> n \in Q
    <3>1. (n + 1) - 1 - i = n
      BY <1>2
    <3> QED BY <1>2, <3>1 DEF Fed, Differ
  <2> QED BY <1>1, <1>2, <2>1, <2>2, <2>3, <2>4 DEF Differ
<1>3. CASE i # 0
  <2>1. PICK h \in 0 .. 22 : h = i - 1 /\ i \in 1 .. 23
    BY <1>3
  <2>2. h \in e <=> Differ(h + 8 - n \in T, Differ(Pending(word, n + 1, h + 8 - n), Fed(Q, n, h)))
    BY DEF UnwoundEntered
  <2>3. i + 8 - (n + 1) = h + 8 - n
    BY <2>1
  <2>4. Fed(Q, n + 1, i) <=> Differ(Fed(Q, n, h), i \in {0, 1, 5, 6, 23} /\ n \in Q)
    BY <2>1, FedStep
  <2> QED BY <1>1, <2>1, <2>2, <2>3, <2>4 DEF Differ
<1> QED BY <1>2, <1>3

(***************************************************************************)
(* The polynomial is (x + 1)(x^23 + x^5 + 1): two neighbouring bits of the *)
(* quotient differ by three bits of T at most, and its last bit is the     *)
(* parity of them all.                                                     *)
(***************************************************************************)
IsQuotient(T, Q) ==
  /\ Q \subseteq 0 .. 31
  /\ \A n \in 0 .. 31 : n \in Q <=> Differ(31 - n \in T, Fed(Q, n, 23))
Turned(Q, n) == Differ(n \in Q, n - 1 \in Q)
Terms(T, n) == Differ(31 - n \in T, Differ(n >= 18 /\ 49 - n \in T, n >= 23 /\ 54 - n \in T))

LEMMA TurnedBefore ==
  ASSUME NEW T, NEW Q, IsQuotient(T, Q), NEW n \in Int, n < 0
  PROVE  ~Turned(Q, n)
<1>1. n \notin Q /\ n - 1 \notin Q
  BY DEF IsQuotient
<1> QED BY <1>1 DEF Turned, Differ

LEMMA TurnedStep ==
  ASSUME NEW T, NEW Q, IsQuotient(T, Q), NEW n \in 0 .. 31
  PROVE  Turned(Q, n) <=> Differ(31 - n \in T, Differ(Turned(Q, n - 18), Turned(Q, n - 23)))
<1>1. n \in Q <=> Differ(31 - n \in T, Fed(Q, n, 23))
  BY DEF IsQuotient
<1>2. PICK a \in Int : a = n - 24 /\ a = n - 1 - 23 /\ a = n - 23 - 1
  OBVIOUS
<1>3. PICK b \in Int : b = n - 23
  OBVIOUS
<1>4. PICK c \in Int : c = n - 19 /\ c = n - 23 + 4 /\ c = n - 18 - 1
  OBVIOUS
<1>5. PICK d \in Int : d = n - 18 /\ d = n - 23 + 5
  OBVIOUS
<1>6. PICK e \in Int : e = n - 1 /\ e = n - 23 + 22
  OBVIOUS
<1>7. Fed(Q, n, 23) <=> Differ(a \in Q, Differ(b \in Q, Differ(c \in Q, Differ(d \in Q, e \in Q))))
  <2>1. 23 >= 1 /\ 23 >= 5 /\ 23 >= 6 /\ 23 >= 23
    OBVIOUS
  <2> QED BY <1>2, <1>3, <1>4, <1>5, <1>6, <2>1 DEF Fed, Differ
<1>8. Turned(Q, n - 18) <=> Differ(d \in Q, c \in Q)
  BY <1>4, <1>5 DEF Turned, Differ
<1>9. Turned(Q, n - 23) <=> Differ(b \in Q, a \in Q)
  BY <1>2, <1>3 DEF Turned, Differ
<1>10. Turned(Q, n) <=> Differ(n \in Q, e \in Q)
  BY <1>6 DEF Turned, Differ
<1> QED BY <1>1, <1>7, <1>8, <1>9, <1>10 DEF Differ

LEMMA TurnedIs ==
  ASSUME NEW T, NEW Q, IsQuotient(T, Q), NEW n \in 0 .. 31
  PROVE  Turned(Q, n) <=> Terms(T, n)
<1>1. ASSUME NEW m \in 0 .. 17 PROVE Turned(Q, m) <=> 31 - m \in T
  <2>1. m - 18 \in Int /\ m - 18 < 0 /\ m - 23 \in Int /\ m - 23 < 0 /\ m \in 0 .. 31
    OBVIOUS
  <2>2. ~Turned(Q, m - 18) /\ ~Turned(Q, m - 23)
    BY <2>1, TurnedBefore
  <2> QED BY <2>1, <2>2, TurnedStep DEF Differ
<1>2. Turned(Q, n) <=> Differ(31 - n \in T, Differ(Turned(Q, n - 18), Turned(Q, n - 23)))
  BY TurnedStep
<1>3. Turned(Q, n - 18) <=> n >= 18 /\ 49 - n \in T
  <2>1. CASE n < 18
    <3>1. n - 18 \in Int /\ n - 18 < 0
      BY <2>1
    <3> QED BY <2>1, <3>1, TurnedBefore
  <2>2. CASE n >= 18
    <3>1. PICK m \in 0 .. 17 : m = n - 18 /\ 31 - m = 49 - n
      BY <2>2
    <3> QED BY <1>1, <2>2, <3>1
  <2> QED BY <2>1, <2>2
<1>4. Turned(Q, n - 23) <=> n >= 23 /\ 54 - n \in T
  <2>1. CASE n < 23
    <3>1. n - 23 \in Int /\ n - 23 < 0
      BY <2>1
    <3> QED BY <2>1, <3>1, TurnedBefore
  <2>2. CASE n >= 23
    <3>1. PICK m \in 0 .. 17 : m = n - 23 /\ 31 - m = 54 - n
      BY <2>2
    <3> QED BY <1>1, <2>2, <3>1
  <2> QED BY <2>1, <2>2
<1> QED BY <1>2, <1>3, <1>4 DEF Terms, Differ

\* The bits of T that the first n + 1 turns have counted an odd number of times.
Counted(T, n) ==
  {j \in T : Differ(31 - j <= n, Differ(j >= 18 /\ 49 - j <= n, j >= 23 /\ 54 - j <= n))}

LEMMA CountedStep ==
  ASSUME NEW T \in LoaderWords, NEW n \in 0 .. 31
  PROVE  parity(Counted(T, n)) <=> Differ(parity(Counted(T, n - 1)), Terms(T, n))
<1>1. PICK c \in LoaderWords : c = Counted(T, n - 1)
  BY DEF Counted, LoaderWords
<1>2. PICK x \in LoaderWords : x = T \cap {31 - n}
  BY DEF LoaderWords
<1>3. PICK y \in LoaderWords : y = IF n >= 18 THEN T \cap {49 - n} ELSE {}
  BY DEF LoaderWords
<1>4. PICK z \in LoaderWords : z = IF n >= 23 THEN T \cap {54 - n} ELSE {}
  BY DEF LoaderWords
<1>5. PICK yz \in LoaderWords : /\ yz = Xor(y, z) /\ (parity(yz) <=> ~(parity(y) <=> parity(z)))
                               /\ \A b \in 0 .. 31 : b \in yz <=> ~(b \in y <=> b \in z)
  BY XorBits, ParityXor
<1>6. PICK xyz \in LoaderWords : /\ xyz = Xor(x, yz) /\ (parity(xyz) <=> ~(parity(x) <=> parity(yz)))
                                /\ \A b \in 0 .. 31 : b \in xyz <=> ~(b \in x <=> b \in yz)
  BY XorBits, ParityXor
<1>7. PICK w \in LoaderWords : /\ w = Xor(c, xyz) /\ (parity(w) <=> ~(parity(c) <=> parity(xyz)))
                              /\ \A b \in 0 .. 31 : b \in w <=> ~(b \in c <=> b \in xyz)
  BY XorBits, ParityXor
<1>8. Counted(T, n) = w
  <2>1. Counted(T, n) \in LoaderWords
    BY DEF Counted, LoaderWords
  <2>2. ASSUME NEW b \in 0 .. 31 PROVE b \in Counted(T, n) <=> b \in w
    <3>1. CASE b \notin T
      BY <1>1, <1>2, <1>3, <1>4, <1>5, <1>6, <1>7, <3>1 DEF Counted
    <3>2. CASE b \in T
      <4>1. b \in c <=> Differ(31 - b <= n - 1, Differ(b >= 18 /\ 49 - b <= n - 1, b >= 23 /\ 54 - b <= n - 1))
        BY <1>1, <3>2 DEF Counted
      <4>2. b \in Counted(T, n) <=> Differ(31 - b <= n, Differ(b >= 18 /\ 49 - b <= n, b >= 23 /\ 54 - b <= n))
        BY <3>2 DEF Counted
      <4>3. b \in x <=> 31 - b = n
        BY <1>2, <3>2
      <4>4. b \in y <=> b >= 18 /\ 49 - b = n
        BY <1>3, <3>2
      <4>5. b \in z <=> b >= 23 /\ 54 - b = n
        BY <1>4, <3>2
      <4>6. /\ 31 - b <= n <=> Differ(31 - b <= n - 1, b \in x)
            /\ b >= 18 /\ 49 - b <= n <=> Differ(b >= 18 /\ 49 - b <= n - 1, b \in y)
            /\ b >= 23 /\ 54 - b <= n <=> Differ(b >= 23 /\ 54 - b <= n - 1, b \in z)
        BY <4>3, <4>4, <4>5 DEF Differ
      <4>7. b \in w <=> Differ(b \in c, Differ(b \in x, Differ(b \in y, b \in z)))
        BY <1>5, <1>6, <1>7 DEF Differ
      <4> QED BY <4>1, <4>2, <4>6, <4>7 DEF Differ
    <3> QED BY <3>1, <3>2
  <2> QED BY <2>1, <2>2, SameBits
<1>9. parity(x) <=> 31 - n \in T
  BY <1>2, ParityOfBit
<1>10. parity(y) <=> n >= 18 /\ 49 - n \in T
  BY <1>3, ParityOfBit, ParityOfNone
<1>11. parity(z) <=> n >= 23 /\ 54 - n \in T
  BY <1>4, ParityOfBit, ParityOfNone
<1> QED BY <1>1, <1>5, <1>6, <1>7, <1>8, <1>9, <1>10, <1>11 DEF Terms, Differ

LEMMA QuotientParity ==
  ASSUME NEW T \in LoaderWords, NEW Q, IsQuotient(T, Q)
  PROVE  31 \in Q <=> parity(T \ (18 .. 22))
<1> DEFINE G == {n \in Nat : n <= 31 => (n \in Q <=> parity(Counted(T, n)))}
<1>1. ASSUME NEW n \in 0 .. 31, n - 1 \in Q <=> parity(Counted(T, n - 1))
      PROVE  n \in Q <=> parity(Counted(T, n))
  BY <1>1, TurnedIs, CountedStep DEF Turned, Differ
<1>2. 0 \in G
  <2>1. 0 - 1 \notin Q
    BY DEF IsQuotient
  <2>2. Counted(T, 0 - 1) = {}
    <3>1. ASSUME NEW j \in T
          PROVE  ~(31 - j <= 0 - 1) /\ ~(49 - j <= 0 - 1) /\ ~(54 - j <= 0 - 1)
      BY DEF LoaderWords
    <3> QED BY <3>1, Zenon DEF Counted, Differ
  <2>3. 0 - 1 \in Q <=> parity(Counted(T, 0 - 1))
    BY <2>1, <2>2, ParityOfNone
  <2> QED BY <1>1, <2>3
<1>3. ASSUME NEW n \in Nat, n \in G PROVE n + 1 \in G
  <2>1. SUFFICES ASSUME n + 1 <= 31 PROVE n + 1 \in Q <=> parity(Counted(T, n + 1))
    OBVIOUS
  <2>2. PICK m \in 0 .. 31 : m = n + 1 /\ m - 1 = n
    BY <2>1
  <2>3. m - 1 \in Q <=> parity(Counted(T, m - 1))
    BY <1>3, <2>1, <2>2
  <2> QED BY <1>1, <2>2, <2>3
<1>4. 31 \in G
  <2> HIDE DEF G
  <2> QED BY <1>2, <1>3, AllNumbers
<1>5. Counted(T, 31) = T \ (18 .. 22)
  <2>1. ASSUME NEW j \in T
        PROVE  Differ(31 - j <= 31, Differ(j >= 18 /\ 49 - j <= 31, j >= 23 /\ 54 - j <= 31))
                 <=> j \notin 18 .. 22
    BY DEF LoaderWords, Differ
  <2>2. Counted(T, 31) = {j \in T : j \notin 18 .. 22}
    BY <2>1 DEF Counted
  <2> QED BY <2>2
<1> QED BY <1>4, <1>5

(***************************************************************************)
(* The checksum of a word in terms of T.                                   *)
(***************************************************************************)
CrcBit(T, c, i) ==
  i \in c <=> Differ(i >= 1 /\ Terms(T, 32 - i), Differ(i >= 6 /\ Terms(T, 37 - i),
                     i \in {0, 5, 23} /\ parity(T \ (18 .. 22))))
CrcBits(T, c) ==
  /\ c \in LoaderWords /\ \A b \in c : b \in 0 .. 23
  /\ \A i \in 0 .. 23 : CrcBit(T, c, i)

LEMMA LastBits ==
  ASSUME NEW T \in LoaderWords, NEW word \in LoaderWords, NEW Q, IsQuotient(T, Q), NEW c,
         Unwound(T, word, Q, 32, c), NEW i \in 0 .. 23
  PROVE  CrcBit(T, c, i)
<1>1. i \in c <=> Fed(Q, 32, i)
  <2>1. i + 8 - 32 \notin T /\ i + 8 - 32 \notin word
    BY DEF LoaderWords
  <2>2. i \in c <=> Differ(i + 8 - 32 \in T, Differ(Pending(word, 32, i + 8 - 32), Fed(Q, 32, i)))
    BY DEF Unwound
  <2> QED BY <2>1, <2>2 DEF Pending, Differ
<1>2. 31 \in Q <=> parity(T \ (18 .. 22))
  BY QuotientParity
<1>3. \A m \in Int : m > 31 => m \notin Q
  BY DEF IsQuotient
<1>4. PICK a \in Int : a = 31 - i /\ a = 32 - 1 - i /\ a = 32 - i - 1
  OBVIOUS
<1>5. PICK b \in Int : b = 32 - i
  OBVIOUS
<1>6. PICK d \in Int : d = 36 - i /\ d = 32 - i + 4 /\ d = 37 - i - 1
  OBVIOUS
<1>7. PICK e \in Int : e = 37 - i /\ e = 32 - i + 5
  OBVIOUS
<1>8. PICK g \in Int : g = 54 - i /\ g = 32 - i + 22
  OBVIOUS
<1>9. Fed(Q, 32, i) <=>
        Differ(a \in Q, Differ(i >= 1 /\ b \in Q, Differ(i >= 5 /\ d \in Q, Differ(i >= 6 /\ e \in Q, i >= 23 /\ g \in Q))))
  BY <1>4, <1>5, <1>6, <1>7, <1>8 DEF Fed, Differ
<1>10. i >= 1 => (Terms(T, 32 - i) <=> Differ(b \in Q, a \in Q))
  <2>1. i >= 1 => b \in 0 .. 31 /\ b - 1 = a
    BY <1>4, <1>5
  <2> QED BY <1>4, <1>5, <2>1, TurnedIs DEF Turned, Differ
<1>11. i >= 6 => (Terms(T, 37 - i) <=> Differ(e \in Q, d \in Q))
  <2>1. i >= 6 => e \in 0 .. 31 /\ e - 1 = d
    BY <1>6, <1>7
  <2> QED BY <1>6, <1>7, <2>1, TurnedIs DEF Turned, Differ
<1>12. /\ i = 0 => a = 31
       /\ i = 5 => d = 31
       /\ i = 23 => g = 31
  BY <1>4, <1>6, <1>8
<1>13. CASE i = 0
  BY <1>1, <1>2, <1>9, <1>12, <1>13 DEF CrcBit, Differ
<1>14. CASE i \in 1 .. 4
  BY <1>1, <1>9, <1>10, <1>14 DEF CrcBit, Differ
<1>15. CASE i = 5
  BY <1>1, <1>2, <1>9, <1>10, <1>12, <1>15 DEF CrcBit, Differ
<1>16. CASE i \in 6 .. 22
  BY <1>1, <1>9, <1>10, <1>11, <1>16 DEF CrcBit, Differ
<1>17. CASE i = 23
  BY <1>1, <1>2, <1>9, <1>10, <1>11, <1>12, <1>17 DEF CrcBit, Differ
<1> QED BY <1>13, <1>14, <1>15, <1>16, <1>17

LEMMA BitwiseBits ==
  ASSUME NEW crc, NEW word, NEW T, IsT(crc, word, T)
  PROVE  CrcBits(T, bitwise(crc, word))
<1>0. T \in LoaderWords /\ word \in LoaderWords /\ crc \in LoaderWords
  BY DEF IsT
<1>1. PICK f : /\ bitwise(crc, word) = f[32] /\ f[0] = crc
               /\ \A n \in 0 .. 31 : f[n + 1] = ShiftedOut(Entered(f[n], word, n))
  BY CrcIs
<1>2. PICK Q : Q = {n \in 0 .. 31 : 23 \in Entered(f[n], word, n)}
  OBVIOUS
<1>3. Q \subseteq 0 .. 31
  BY <1>2
<1> DEFINE G == {n \in Nat : n <= 32 => f[n] \in LoaderWords /\ Unwound(T, word, Q, n, f[n])}
<1>4. ASSUME NEW n \in 0 .. 31, f[n] \in LoaderWords, Unwound(T, word, Q, n, f[n])
      PROVE  /\ f[n + 1] \in LoaderWords /\ Unwound(T, word, Q, n + 1, f[n + 1])
             /\ \A b \in f[n + 1] : b \in 0 .. 23
             /\ n \in Q <=> Differ(31 - n \in T, Fed(Q, n, 23))
  <2>1. PICK e \in LoaderWords : e = Entered(f[n], word, n)
    BY <1>0, <1>4, EnteredBits
  <2>2. UnwoundEntered(T, word, Q, n, e)
    BY <1>0, <1>4, <2>1, UnwoundEnters
  <2>3. n \in Q <=> 23 \in e
    BY <1>2, <2>1
  <2>4. Unwound(T, word, Q, n + 1, ShiftedOut(e))
    BY <2>2, <2>3, UnwoundStep
  <2>5. f[n + 1] = ShiftedOut(e)
    BY <1>1, <2>1
  <2>6. ShiftedOut(e) \in LoaderWords /\ \A b \in ShiftedOut(e) : b \in 0 .. 23
    BY ShiftedOutBits
  <2>7. 23 \in e <=> Differ(31 - n \in T, Fed(Q, n, 23))
    <3>1. 23 + 8 - n = 31 - n
      OBVIOUS
    <3>2. 23 \in e <=> Differ(23 + 8 - n \in T, Differ(Pending(word, n + 1, 23 + 8 - n), Fed(Q, n, 23)))
      BY <2>2 DEF UnwoundEntered
    <3>3. ~Pending(word, n + 1, 31 - n)
      BY PendingTop
    <3> QED BY <3>1, <3>2, <3>3 DEF Differ
  <2> QED BY <2>3, <2>4, <2>5, <2>6, <2>7
<1>5. 0 \in G
  <2>1. Unwound(T, word, Q, 0, crc)
    BY <1>3, UnwoundStart
  <2> QED BY <1>0, <1>1, <2>1
<1>6. ASSUME NEW n \in Nat, n \in G PROVE n + 1 \in G
  <2>1. SUFFICES ASSUME n + 1 <= 32
                 PROVE  f[n + 1] \in LoaderWords /\ Unwound(T, word, Q, n + 1, f[n + 1])
    OBVIOUS
  <2>2. n \in 0 .. 31 /\ f[n] \in LoaderWords /\ Unwound(T, word, Q, n, f[n])
    BY <1>6, <2>1
  <2> QED BY <1>4, <2>2
<1>7. \A n \in 0 .. 32 : f[n] \in LoaderWords /\ Unwound(T, word, Q, n, f[n])
  <2>1. Nat \subseteq G
    <3> HIDE DEF G
    <3> QED BY <1>5, <1>6, AllNumbers
  <2> QED BY <2>1
<1>8. IsQuotient(T, Q)
  BY <1>3, <1>4, <1>7 DEF IsQuotient
<1>9. f[32] \in LoaderWords /\ Unwound(T, word, Q, 32, f[32])
  BY <1>7
<1>10. \A b \in f[32] : b \in 0 .. 23
  <2>1. 31 \in 0 .. 31 /\ 31 + 1 = 32 /\ f[31] \in LoaderWords /\ Unwound(T, word, Q, 31, f[31])
    BY <1>7
  <2> QED BY <1>4, <2>1
<1>11. \A i \in 0 .. 23 : CrcBit(T, f[32], i)
  BY <1>0, <1>8, <1>9, LastBits
<1> QED BY <1>1, <1>9, <1>10, <1>11 DEF CrcBits

(***************************************************************************)
(* The thirty instructions of a word.                                      *)
(***************************************************************************)
LoaderFlags == {"X", "N", "Z", "V", "C"}
LoaderRegs ==
  [D0 : LoaderWords, D1 : LoaderWords, D2 : LoaderWords, D3 : Nat, D4 : LoaderWords,
   D5 : LoaderWords, A0 : Nat, SR : SUBSET LoaderFlags, PC : Nat]

\* The registers k hold, in a word whose registers were s at its start.
Holds(k, s, d0, d1, d2, d4, a0) ==
  /\ k \in LoaderRegs
  /\ k.D0 = d0 /\ k.D1 = d1 /\ k.D2 = d2 /\ k.D4 = d4 /\ k.A0 = a0
  /\ k.D3 = s.D3 /\ k.D5 = s.D5 /\ k.PC = s.PC

LEMMA LogicalType ==
  ASSUME NEW SR \in SUBSET LoaderFlags, NEW v, NEW bits
  PROVE  logical(SR, v, bits) \in SUBSET LoaderFlags
BY DEF logical, LoaderFlags

LEMMA ShiftedType ==
  ASSUME NEW SR \in SUBSET LoaderFlags, NEW v, NEW bits, NEW out
  PROVE  Shifted(SR, v, bits, out) \in SUBSET LoaderFlags
<1>1. SR \ {"X"} \in SUBSET LoaderFlags
  OBVIOUS
<1>2. PICK l \in SUBSET LoaderFlags : l = logical(SR \ {"X"}, v, bits)
  BY <1>1, LogicalType
<1> QED BY <1>2 DEF Shifted, LoaderFlags

\* A register and the flags are written.
Writes(k, r, v, flags) == [k EXCEPT ![r] = v, !.SR = flags]

LEMMA WritesHold ==
  ASSUME NEW k, NEW s, NEW d0, NEW d1, NEW d2, NEW d4, NEW a0, Holds(k, s, d0, d1, d2, d4, a0),
         NEW v \in LoaderWords, NEW flags \in SUBSET LoaderFlags
  PROVE  /\ Holds(Writes(k, "D0", v, flags), s, v, d1, d2, d4, a0)
         /\ Holds(Writes(k, "D1", v, flags), s, d0, v, d2, d4, a0)
         /\ Holds(Writes(k, "D2", v, flags), s, d0, d1, v, d4, a0)
         /\ Holds(Writes(k, "D4", v, flags), s, d0, d1, d2, v, a0)
<1>1. Holds([k EXCEPT !.D0 = v, !.SR = flags], s, v, d1, d2, d4, a0)
  BY DEF Holds, LoaderRegs
<1>2. Holds([k EXCEPT !.D1 = v, !.SR = flags], s, d0, v, d2, d4, a0)
  BY DEF Holds, LoaderRegs
<1>3. Holds([k EXCEPT !.D2 = v, !.SR = flags], s, d0, d1, v, d4, a0)
  BY DEF Holds, LoaderRegs
<1>4. Holds([k EXCEPT !.D4 = v, !.SR = flags], s, d0, d1, d2, v, a0)
  BY DEF Holds, LoaderRegs
<1> QED BY <1>1, <1>2, <1>3, <1>4, Zenon DEF Writes

LEMMA GetsHold ==
  ASSUME NEW k, NEW s, NEW d0, NEW d1, NEW d2, NEW d4, NEW a0, Holds(k, s, d0, d1, d2, d4, a0),
         NEW v \in LoaderWords, NEW bits
  PROVE  /\ Holds(Gets(k, "D0", v, bits), s, v, d1, d2, d4, a0)
         /\ Holds(Gets(k, "D1", v, bits), s, d0, v, d2, d4, a0)
         /\ Holds(Gets(k, "D2", v, bits), s, d0, d1, v, d4, a0)
         /\ Holds(Gets(k, "D4", v, bits), s, d0, d1, d2, v, a0)
<1>1. k.SR \in SUBSET LoaderFlags
  BY DEF Holds, LoaderRegs
<1>2. PICK flags \in SUBSET LoaderFlags : flags = logical(k.SR, v, bits)
  BY <1>1, LogicalType
<1>3. \A r : r # "SR" => Gets(k, r, v, bits) = Writes(k, r, v, flags)
  BY <1>2 DEF Gets, Writes
<1> QED BY <1>3, WritesHold

LEMMA LeftByHold ==
  ASSUME NEW k, NEW s, NEW d0, NEW d1, NEW d2, NEW d4, NEW a0, Holds(k, s, d0, d1, d2, d4, a0),
         NEW n \in 0 .. 31
  PROVE  /\ Holds(LeftBy(k, "D0", n), s, Shl(d0, n), d1, d2, d4, a0)
         /\ Holds(LeftBy(k, "D1", n), s, d0, Shl(d1, n), d2, d4, a0)
         /\ Holds(LeftBy(k, "D2", n), s, d0, d1, Shl(d2, n), d4, a0)
<1>1. k.SR \in SUBSET LoaderFlags /\ d0 \in LoaderWords /\ d1 \in LoaderWords /\ d2 \in LoaderWords
  BY DEF Holds, LoaderRegs
<1>2. k.D0 = d0 /\ k.D1 = d1 /\ k.D2 = d2
  BY DEF Holds
<1>3. Holds(LeftBy(k, "D0", n), s, Shl(d0, n), d1, d2, d4, a0)
  <2>1. PICK v \in LoaderWords : v = Shl(d0, n)
    BY <1>1, ShlBits
  <2>2. PICK flags \in SUBSET LoaderFlags : flags = Shifted(k.SR, v, 32, 32 - n \in k.D0)
    BY <1>1, ShiftedType
  <2>3. LeftBy(k, "D0", n) = Writes(k, "D0", v, flags)
    BY <1>2, <2>1, <2>2 DEF LeftBy, Writes
  <2> QED BY <2>1, <2>3, WritesHold
<1>4. Holds(LeftBy(k, "D1", n), s, d0, Shl(d1, n), d2, d4, a0)
  <2>1. PICK v \in LoaderWords : v = Shl(d1, n)
    BY <1>1, ShlBits
  <2>2. PICK flags \in SUBSET LoaderFlags : flags = Shifted(k.SR, v, 32, 32 - n \in k.D1)
    BY <1>1, ShiftedType
  <2>3. LeftBy(k, "D1", n) = Writes(k, "D1", v, flags)
    BY <1>2, <2>1, <2>2 DEF LeftBy, Writes
  <2> QED BY <2>1, <2>3, WritesHold
<1>5. Holds(LeftBy(k, "D2", n), s, d0, d1, Shl(d2, n), d4, a0)
  <2>1. PICK v \in LoaderWords : v = Shl(d2, n)
    BY <1>1, ShlBits
  <2>2. PICK flags \in SUBSET LoaderFlags : flags = Shifted(k.SR, v, 32, 32 - n \in k.D2)
    BY <1>1, ShiftedType
  <2>3. LeftBy(k, "D2", n) = Writes(k, "D2", v, flags)
    BY <1>2, <2>1, <2>2 DEF LeftBy, Writes
  <2> QED BY <2>1, <2>3, WritesHold
<1> QED BY <1>3, <1>4, <1>5

\* What a shift to the right of the low bits leaves.
RightOf(d, n, bits) == LowPart(d, Shr(Low(d, bits), n), bits)

IsRightOf(d, n, bits, r) ==
  /\ r \in LoaderWords
  /\ \A b \in 0 .. 31 : b \in r <=> IF b < bits THEN b + n \in d /\ b + n < bits ELSE b \in d

LEMMA RightOfBits ==
  ASSUME NEW d \in LoaderWords, NEW n \in 0 .. 31, NEW bits \in 0 .. 32
  PROVE  IsRightOf(d, n, bits, RightOf(d, n, bits))
<1>1. PICK l \in LoaderWords : l = Low(d, bits) /\ \A b \in 0 .. 31 : b \in l <=> b \in d /\ b < bits
  BY LowBits
<1>2. PICK h \in LoaderWords : h = Shr(l, n) /\ \A b \in 0 .. 31 : b \in h <=> b + n \in l
  BY ShrBits
<1>3. ASSUME NEW b \in 0 .. 31 PROVE b \in h <=> b + n \in d /\ b + n < bits
  BY <1>1, <1>2, <1>3 DEF LoaderWords
<1> QED BY <1>1, <1>2, <1>3, LowPartBits DEF RightOf, IsRightOf

LEMMA RightByHoldD0 ==
  ASSUME NEW k, NEW s, NEW d0, NEW d1, NEW d2, NEW d4, NEW a0, Holds(k, s, d0, d1, d2, d4, a0),
         NEW n \in 0 .. 31, NEW bits \in 0 .. 32
  PROVE  Holds(RightBy(k, "D0", n, bits), s, RightOf(d0, n, bits), d1, d2, d4, a0)
<1>1. k.SR \in SUBSET LoaderFlags /\ d0 \in LoaderWords /\ k.D0 = d0
  BY DEF Holds, LoaderRegs
<1>2. PICK v \in LoaderWords : v = RightOf(d0, n, bits)
  BY <1>1, RightOfBits DEF IsRightOf
<1>3. PICK flags \in SUBSET LoaderFlags :
         flags = Shifted(k.SR, Shr(Low(k.D0, bits), n), bits, n - 1 \in k.D0)
  BY <1>1, ShiftedType
<1>4. RightBy(k, "D0", n, bits) = Writes(k, "D0", v, flags)
  BY <1>1, <1>2, <1>3 DEF RightBy, Writes, RightOf
<1> QED BY <1>2, <1>4, WritesHold

LEMMA RightByHoldD4 ==
  ASSUME NEW k, NEW s, NEW d0, NEW d1, NEW d2, NEW d4, NEW a0, Holds(k, s, d0, d1, d2, d4, a0),
         NEW n \in 0 .. 31, NEW bits \in 0 .. 32
  PROVE  Holds(RightBy(k, "D4", n, bits), s, d0, d1, d2, RightOf(d4, n, bits), a0)
<1>1. k.SR \in SUBSET LoaderFlags /\ d4 \in LoaderWords /\ k.D4 = d4
  BY DEF Holds, LoaderRegs
<1>2. PICK v \in LoaderWords : v = RightOf(d4, n, bits)
  BY <1>1, RightOfBits DEF IsRightOf
<1>3. PICK flags \in SUBSET LoaderFlags :
         flags = Shifted(k.SR, Shr(Low(k.D4, bits), n), bits, n - 1 \in k.D4)
  BY <1>1, ShiftedType
<1>4. RightBy(k, "D4", n, bits) = Writes(k, "D4", v, flags)
  BY <1>1, <1>2, <1>3 DEF RightBy, Writes, RightOf
<1> QED BY <1>2, <1>4, WritesHold

LEMMA DoubledHold ==
  ASSUME NEW k, NEW s, NEW d0, NEW d1, NEW d2, NEW d4, NEW a0, Holds(k, s, d0, d1, d2, d4, a0)
  PROVE  Holds(Doubled(k), s, d0, Shl(d1, 1), d2, d4, a0)
<1>1. k.SR \in SUBSET LoaderFlags /\ d1 \in LoaderWords /\ k.D1 = d1
  BY DEF Holds, LoaderRegs
<1>2. PICK v \in LoaderWords : v = Shl(d1, 1)
  BY <1>1, ShlBits
<1>3. PICK set \in SUBSET LoaderFlags : set = Shifted(k.SR, v, 32, 31 \in k.D1)
  BY <1>1, ShiftedType
<1>4. PICK flags \in SUBSET LoaderFlags :
         flags = set \cup (IF (31 \in k.D1) # (30 \in k.D1) THEN {"V"} ELSE {})
  BY DEF LoaderFlags
<1>5. Doubled(k) = Writes(k, "D1", v, flags)
  BY <1>1, <1>2, <1>3, <1>4 DEF Doubled, Writes
<1> QED BY <1>2, <1>5, WritesHold

(***************************************************************************)
(* What fold_word puts together, and the values on the way.                *)
(***************************************************************************)
FoldT(s, word) == Xor(Shl(s.D1, 8), word)
FoldHigh(t) == Shr(t, 16)
FoldPair(t) == Xor(Low(t, 16), FoldHigh(t) \ (2 .. 6))
FoldU(t) == Xor(t, Shl(Low(t, 23), 5))
FoldCrc(t) == Shl(Xor(Xor(FoldU(t), Shl(FoldHigh(t) \ {0, 1}, 3)), Shr(FoldU(t), 23)), 1)
FoldP(t) == Low(Xor(Shr(FoldPair(t), 8), FoldPair(t)), 8)

LEMMA FoldHighBits ==
  ASSUME NEW t \in LoaderWords
  PROVE  /\ FoldHigh(t) \in LoaderWords
         /\ \A b \in 0 .. 31 : b \in FoldHigh(t) <=> b + 16 \in t
BY ShrBits DEF FoldHigh

LEMMA FoldPairBits ==
  ASSUME NEW t \in LoaderWords
  PROVE  /\ FoldPair(t) \in LoaderWords
         /\ \A b \in 0 .. 31 : b \in FoldPair(t) <=>
              b < 16 /\ ~(b \in t <=> b + 16 \in t /\ b \notin 2 .. 6)
<1>1. PICK l \in LoaderWords : l = Low(t, 16) /\ \A b \in 0 .. 31 : b \in l <=> b \in t /\ b < 16
  BY LowBits
<1>2. PICK h \in LoaderWords : /\ h = FoldHigh(t) \ (2 .. 6)
                              /\ \A b \in 0 .. 31 : b \in h <=> b + 16 \in t /\ b \notin 2 .. 6
  <2>1. FoldHigh(t) \ (2 .. 6) \in LoaderWords
    BY FoldHighBits DEF LoaderWords
  <2> QED BY <2>1, FoldHighBits
<1>3. /\ FoldPair(t) \in LoaderWords
      /\ \A b \in 0 .. 31 : b \in FoldPair(t) <=> ~(b \in l <=> b \in h)
  BY <1>1, <1>2, XorBits DEF FoldPair
<1>4. ASSUME NEW b \in 0 .. 31, b >= 16 PROVE b + 16 \notin t
  BY <1>4 DEF LoaderWords
<1> QED BY <1>1, <1>2, <1>3, <1>4

LEMMA FoldUBits ==
  ASSUME NEW t \in LoaderWords
  PROVE  /\ FoldU(t) \in LoaderWords
         /\ \A b \in 0 .. 31 : b \in FoldU(t) <=> ~(b \in t <=> b < 28 /\ b - 5 \in t)
<1>1. PICK l \in LoaderWords : l = Low(t, 23) /\ \A b \in 0 .. 31 : b \in l <=> b \in t /\ b < 23
  BY LowBits
<1>2. PICK h \in LoaderWords : h = Shl(l, 5) /\ \A b \in 0 .. 31 : b \in h <=> b - 5 \in l
  BY ShlBits
<1>3. ASSUME NEW b \in 0 .. 31 PROVE b \in h <=> b < 28 /\ b - 5 \in t
  BY <1>1, <1>2 DEF LoaderWords
<1> QED BY <1>1, <1>2, <1>3, XorBits DEF FoldU

LEMMA FoldCrcBits ==
  ASSUME NEW t \in LoaderWords
  PROVE  /\ Xor(FoldU(t), Shl(FoldHigh(t) \ {0, 1}, 3)) \in LoaderWords
         /\ Xor(Xor(FoldU(t), Shl(FoldHigh(t) \ {0, 1}, 3)), Shr(FoldU(t), 23)) \in LoaderWords
         /\ FoldCrc(t) \in LoaderWords
         /\ \A b \in 0 .. 31 : b \in FoldCrc(t) <=>
              b >= 1 /\ Differ(Differ(b - 1 \in t, b - 1 < 28 /\ b - 6 \in t),
                               Differ(b \in 6 .. 19 /\ b + 12 \in t,
                                      b <= 9 /\ Differ(b + 22 \in t, b <= 5 /\ b + 17 \in t)))
<1>1. PICK u \in LoaderWords : /\ u = FoldU(t)
                              /\ \A b \in 0 .. 31 : b \in u <=> ~(b \in t <=> b < 28 /\ b - 5 \in t)
  BY FoldUBits
<1>2. PICK h \in LoaderWords : /\ h = FoldHigh(t) \ {0, 1}
                              /\ \A b \in 0 .. 31 : b \in h <=> b + 16 \in t /\ b >= 2
  <2>1. FoldHigh(t) \ {0, 1} \in LoaderWords
    BY FoldHighBits DEF LoaderWords
  <2> QED BY <2>1, FoldHighBits
<1>3. PICK l \in LoaderWords : l = Shl(h, 3) /\ \A b \in 0 .. 31 : b \in l <=> b - 3 \in h
  BY ShlBits
<1>4. PICK r \in LoaderWords : r = Shr(u, 23) /\ \A b \in 0 .. 31 : b \in r <=> b + 23 \in u
  BY ShrBits
<1>5. PICK x \in LoaderWords : x = Xor(u, l) /\ \A b \in 0 .. 31 : b \in x <=> ~(b \in u <=> b \in l)
  BY XorBits
<1>6. PICK y \in LoaderWords : y = Xor(x, r) /\ \A b \in 0 .. 31 : b \in y <=> ~(b \in x <=> b \in r)
  BY XorBits
<1>7. PICK z \in LoaderWords : z = Shl(y, 1) /\ \A b \in 0 .. 31 : b \in z <=> b - 1 \in y
  BY ShlBits
<1>8. FoldCrc(t) = z /\ x = Xor(FoldU(t), Shl(FoldHigh(t) \ {0, 1}, 3))
      /\ y = Xor(Xor(FoldU(t), Shl(FoldHigh(t) \ {0, 1}, 3)), Shr(FoldU(t), 23))
  BY <1>1, <1>2, <1>3, <1>4, <1>5, <1>6, <1>7 DEF FoldCrc
<1>9. ASSUME NEW b \in 0 .. 31
      PROVE  b \in z <=>
              b >= 1 /\ Differ(Differ(b - 1 \in t, b - 1 < 28 /\ b - 6 \in t),
                               Differ(b \in 6 .. 19 /\ b + 12 \in t,
                                      b <= 9 /\ Differ(b + 22 \in t, b <= 5 /\ b + 17 \in t)))
  <2>1. CASE b = 0
    <3>1. b - 1 \notin y
      BY <2>1 DEF LoaderWords
    <3> QED BY <1>7, <2>1, <3>1
  <2>2. CASE b # 0
    <3>1. PICK e \in 0 .. 30 : e = b - 1
      BY <2>2
    <3>2. b \in z <=> Differ(Differ(e \in u, e \in l), e \in r)
      BY <1>5, <1>6, <1>7, <3>1 DEF Differ
    <3>3. e \in u <=> Differ(b - 1 \in t, b - 1 < 28 /\ b - 6 \in t)
      <4>1. e - 5 = b - 6
        BY <3>1
      <4> QED BY <1>1, <3>1, <4>1 DEF Differ
    <3>4. e \in l <=> b \in 6 .. 19 /\ b + 12 \in t
      <4>1. CASE b >= 4
        <5>1. PICK g \in 0 .. 31 : g = e - 3 /\ g + 16 = b + 12
          BY <3>1, <4>1
        <5>2. e \in l <=> g >= 2 /\ b + 12 \in t
          BY <1>2, <1>3, <5>1
        <5>3. b + 12 \in t => b <= 19
          BY DEF LoaderWords
        <5> QED BY <3>1, <4>1, <5>1, <5>2, <5>3
      <4>2. CASE b < 4
        <5>1. e - 3 \notin h
          BY <3>1, <4>2 DEF LoaderWords
        <5> QED BY <1>3, <4>2, <5>1
      <4> QED BY <4>1, <4>2
    <3>5. e \in r <=> b <= 9 /\ Differ(b + 22 \in t, b <= 5 /\ b + 17 \in t)
      <4>1. CASE b <= 9
        <5>1. PICK g \in 0 .. 31 : g = e + 23 /\ g = b + 22 /\ g - 5 = b + 17 /\ (g < 28 <=> b <= 5)
          BY <3>1, <4>1
        <5> QED BY <1>1, <1>4, <4>1, <5>1 DEF Differ
      <4>2. CASE b > 9
        <5>1. e + 23 \notin u
          BY <3>1, <4>2 DEF LoaderWords
        <5> QED BY <1>4, <4>2, <5>1
      <4> QED BY <4>1, <4>2
    <3> QED BY <2>2, <3>2, <3>3, <3>4, <3>5 DEF Differ
  <2> QED BY <2>1, <2>2
<1> QED BY <1>5, <1>6, <1>7, <1>8, <1>9

LEMMA FoldPBits ==
  ASSUME NEW t \in LoaderWords
  PROVE  /\ FoldP(t) \in LoaderWords
         /\ \A b \in 0 .. 31 : b \in FoldP(t) <=>
              b < 8 /\ ~(b + 8 \in FoldPair(t) <=> b \in FoldPair(t))
<1>1. PICK w \in LoaderWords : w = FoldPair(t)
  BY FoldPairBits
<1>2. PICK r \in LoaderWords : r = Shr(w, 8) /\ \A b \in 0 .. 31 : b \in r <=> b + 8 \in w
  BY ShrBits
<1>3. PICK x \in LoaderWords : x = Xor(r, w) /\ \A b \in 0 .. 31 : b \in x <=> ~(b \in r <=> b \in w)
  BY XorBits
<1>4. PICK p \in LoaderWords : p = Low(x, 8) /\ \A b \in 0 .. 31 : b \in p <=> b \in x /\ b < 8
  BY LowBits
<1>5. FoldP(t) = p
  BY <1>1, <1>2, <1>3, <1>4 DEF FoldP
<1> QED BY <1>1, <1>2, <1>3, <1>4, <1>5

\* The parity of the byte looked up is that of the bits that count.
LEMMA FoldParity ==
  ASSUME NEW t \in LoaderWords
  PROVE  parity(FoldP(t)) <=> parity(t \ (18 .. 22))
<1>1. PICK w \in LoaderWords : w = FoldPair(t)
  BY FoldPairBits
<1>2. PICK l \in LoaderWords : l = {b \in w : b < 8}
  BY DEF LoaderWords
<1>3. PICK m \in LoaderWords : m = {b \in w : b >= 8}
  BY DEF LoaderWords
<1>4. parity(w) <=> ~(parity(l) <=> parity(m))
  <2>1. PICK x \in LoaderWords : x = Xor(l, m) /\ \A b \in 0 .. 31 : b \in x <=> ~(b \in l <=> b \in m)
    BY XorBits
  <2>2. ASSUME NEW b \in 0 .. 31 PROVE b \in w <=> b \in x
    BY <1>2, <1>3, <2>1
  <2>3. w = Xor(l, m)
    BY <2>1, <2>2, SameBits
  <2> QED BY <2>3, ParityXor
<1>5. PICK r \in LoaderWords : r = Shr(m, 8) /\ \A b \in 0 .. 31 : b \in r <=> b + 8 \in m
  BY ShrBits
<1>6. parity(r) <=> parity(m)
  <2>1. \A b \in m : b >= 8
    BY <1>3
  <2> QED BY <1>5, <2>1, ParityShifted
<1>7. FoldP(t) = Xor(l, r)
  <2>1. PICK x \in LoaderWords : x = Xor(l, r) /\ \A b \in 0 .. 31 : b \in x <=> ~(b \in l <=> b \in r)
    BY XorBits
  <2>2. ASSUME NEW b \in 0 .. 31 PROVE b \in FoldP(t) <=> b \in x
    <3>1. b \in FoldP(t) <=> b < 8 /\ ~(b + 8 \in w <=> b \in w)
      BY <1>1, FoldPBits
    <3>2. b \in l <=> b < 8 /\ b \in w
      BY <1>2
    <3>3. b \in r <=> b + 8 \in w
      BY <1>3, <1>5
    <3>4. b >= 8 => b + 8 \notin w
      BY <1>1, FoldPairBits DEF LoaderWords
    <3> QED BY <2>1, <3>1, <3>2, <3>3, <3>4
  <2> QED BY <2>1, <2>2, FoldPBits, SameBits
<1>8. parity(FoldP(t)) <=> parity(w)
  BY <1>4, <1>6, <1>7, ParityXor
<1>9. PICK a \in LoaderWords : a = Low(t, 16) /\ \A b \in 0 .. 31 : b \in a <=> b \in t /\ b < 16
  BY LowBits
<1>10. PICK g \in LoaderWords : g = {b \in t : b >= 16 /\ b \notin 18 .. 22}
  BY DEF LoaderWords
<1>11. PICK h \in LoaderWords : h = Shr(g, 16) /\ \A b \in 0 .. 31 : b \in h <=> b + 16 \in g
  BY ShrBits
<1>12. parity(h) <=> parity(g)
  <2>1. \A b \in g : b >= 16
    BY <1>10
  <2> QED BY <1>11, <2>1, ParityShifted
<1>13. h = FoldHigh(t) \ (2 .. 6)
  <2>1. FoldHigh(t) \ (2 .. 6) \in LoaderWords
    BY FoldHighBits DEF LoaderWords
  <2>2. ASSUME NEW b \in 0 .. 31 PROVE b \in h <=> b \in FoldHigh(t) \ (2 .. 6)
    BY <1>10, <1>11, FoldHighBits
  <2> QED BY <2>1, <2>2, SameBits
<1>14. parity(w) <=> ~(parity(a) <=> parity(h))
  BY <1>1, <1>9, <1>13, ParityXor DEF FoldPair
<1>15. parity(t \ (18 .. 22)) <=> ~(parity(a) <=> parity(g))
  <2>1. PICK x \in LoaderWords : x = Xor(a, g) /\ \A b \in 0 .. 31 : b \in x <=> ~(b \in a <=> b \in g)
    BY XorBits
  <2>2. PICK y \in LoaderWords : y = t \ (18 .. 22)
    BY DEF LoaderWords
  <2>3. ASSUME NEW b \in 0 .. 31 PROVE b \in y <=> b \in x
    BY <1>9, <1>10, <2>1, <2>2
  <2>4. y = Xor(a, g)
    BY <2>1, <2>3, SameBits
  <2>5. parity(y) <=> ~(parity(a) <=> parity(g))
    BY <2>4, ParityXor
  <2> QED BY <2>2, <2>5, Zenon
<1> QED BY <1>8, <1>12, <1>14, <1>15

(***************************************************************************)
(* The values that the instructions pass through are fold_word's.          *)
(***************************************************************************)
\* The bits fold_word masks with, of a word swapped or cut.
LEMMA SwappedIsHigh ==
  ASSUME NEW t \in LoaderWords
  PROVE  /\ t \cap (16 .. 31) \in LoaderWords
         /\ Shr(t \cap (16 .. 31), 16) \cup Shl(t \cap (16 .. 31), 16) = FoldHigh(t)
<1>1. PICK c \in LoaderWords : c = t \cap (16 .. 31)
  BY DEF LoaderWords
<1>2. PICK r \in LoaderWords : r = Shr(c, 16) /\ \A b \in 0 .. 31 : b \in r <=> b + 16 \in c
  BY ShrBits
<1>3. PICK l \in LoaderWords : l = Shl(c, 16) /\ \A b \in 0 .. 31 : b \in l <=> b - 16 \in c
  BY ShlBits
<1>4. r \cup l \in LoaderWords
  BY DEF LoaderWords
<1>5. ASSUME NEW b \in 0 .. 31 PROVE b \in r \cup l <=> b \in FoldHigh(t)
  <2>1. b - 16 \notin c
    BY <1>1
  <2>2. b + 16 \in c <=> b + 16 \in t
    BY <1>1 DEF LoaderWords
  <2> QED BY <1>2, <1>3, <2>1, <2>2, FoldHighBits
<1>6. r \cup l = FoldHigh(t)
  BY <1>4, <1>5, FoldHighBits, SameBits
<1> QED BY <1>1, <1>2, <1>3, <1>6

FoldMask == {0, 1} \cup (7 .. 31)
FoldMasked(t) == LowPart(FoldMask, FoldMask \cap FoldHigh(t), 16)

LEMMA MaskedPair ==
  ASSUME NEW t \in LoaderWords, NEW d4 \in LoaderWords
  PROVE  /\ FoldMask \in LoaderWords /\ FoldMasked(t) \in LoaderWords
         /\ LowPart(d4, t, 16) \in LoaderWords /\ LowPart(d4, FoldPair(t), 16) \in LoaderWords
         /\ Xor(LowPart(d4, t, 16), Low(FoldMasked(t), 16)) = LowPart(d4, FoldPair(t), 16)
<1>1. PICK m \in LoaderWords : m = FoldMask /\ m = {0, 1} \cup (7 .. 31)
  <2>1. PICK m : m = {0, 1} \cup (7 .. 31)
    OBVIOUS
  <2>2. m \in LoaderWords
    BY <2>1 DEF LoaderWords
  <2> QED BY <2>1, <2>2, Zenon DEF FoldMask
<1>2. PICK c \in LoaderWords : c = m \cap FoldHigh(t)
  BY DEF LoaderWords
<1>3. PICK g \in LoaderWords : /\ g = LowPart(m, c, 16)
                              /\ \A b \in 0 .. 31 : b \in g <=> IF b < 16 THEN b \in c ELSE b \in m
  BY LowPartBits
<1>4. g = FoldMasked(t)
  BY <1>1, <1>2, <1>3 DEF FoldMasked
<1>5. PICK l \in LoaderWords : l = Low(g, 16) /\ \A b \in 0 .. 31 : b \in l <=> b \in g /\ b < 16
  BY LowBits
<1>6. PICK o \in LoaderWords : /\ o = LowPart(d4, t, 16)
                              /\ \A b \in 0 .. 31 : b \in o <=> IF b < 16 THEN b \in t ELSE b \in d4
  BY LowPartBits
<1>7. PICK w \in LoaderWords : /\ w = FoldPair(t)
                              /\ \A b \in 0 .. 31 : b \in w <=> b < 16 /\ ~(b \in t <=> b + 16 \in t /\ b \notin 2 .. 6)
  BY FoldPairBits
<1>8. PICK n \in LoaderWords : /\ n = LowPart(d4, w, 16)
                              /\ \A b \in 0 .. 31 : b \in n <=> IF b < 16 THEN b \in w ELSE b \in d4
  BY LowPartBits
<1>9. PICK x \in LoaderWords : x = Xor(o, l) /\ \A b \in 0 .. 31 : b \in x <=> ~(b \in o <=> b \in l)
  BY XorBits
<1>10. ASSUME NEW b \in 0 .. 31 PROVE b \in x <=> b \in n
  <2>1. CASE b < 16
    <3>1. b \in c <=> b + 16 \in t /\ b \notin 2 .. 6
      <4>1. b \in m <=> b \notin 2 .. 6
        BY <1>1
      <4> QED BY <1>2, <4>1, FoldHighBits
    <3> QED BY <1>3, <1>5, <1>6, <1>7, <1>8, <1>9, <2>1, <3>1
  <2>2. CASE b >= 16
    BY <1>5, <1>6, <1>8, <1>9, <2>2
  <2> QED BY <2>1, <2>2
<1>11. x = n
  BY <1>10, SameBits
<1> QED BY <1>1, <1>4, <1>5, <1>6, <1>7, <1>8, <1>9, <1>11

LEMMA LowMask ==
  ASSUME NEW t \in LoaderWords
  PROVE  0 .. 22 \in LoaderWords /\ (0 .. 22) \cap t = Low(t, 23) /\ Low(t, 23) \in LoaderWords
BY DEF Low, LoaderWords

LEMMA HighCut ==
  ASSUME NEW t \in LoaderWords
  PROVE  /\ FoldHigh(t) \ {0, 1} \in LoaderWords
         /\ LowPart(FoldHigh(t), FoldHigh(t) \ {0, 1}, 16) = FoldHigh(t) \ {0, 1}
<1>1. PICK h \in LoaderWords : h = FoldHigh(t)
  BY FoldHighBits
<1>2. PICK c \in LoaderWords : c = h \ {0, 1}
  BY DEF LoaderWords
<1>3. PICK l \in LoaderWords : /\ l = LowPart(h, c, 16)
                              /\ \A b \in 0 .. 31 : b \in l <=> IF b < 16 THEN b \in c ELSE b \in h
  BY LowPartBits
<1>4. ASSUME NEW b \in 0 .. 31 PROVE b \in l <=> b \in c
  BY <1>2, <1>3
<1>5. l = c
  BY <1>4, SameBits
<1> QED BY <1>1, <1>2, <1>3, <1>5

\* A shift of the whole register is a shift.
LEMMA RightOfWhole ==
  ASSUME NEW d \in LoaderWords, NEW n \in 0 .. 31
  PROVE  RightOf(d, n, 32) = Shr(d, n) /\ Shr(d, n) \in LoaderWords
<1>1. PICK r \in LoaderWords : r = RightOf(d, n, 32) /\ IsRightOf(d, n, 32, r)
  <2>1. PICK r : r = RightOf(d, n, 32)
    OBVIOUS
  <2>2. IsRightOf(d, n, 32, r)
    BY <2>1, RightOfBits
  <2> QED BY <2>1, <2>2 DEF IsRightOf
<1>2. PICK h \in LoaderWords : h = Shr(d, n) /\ \A b \in 0 .. 31 : b \in h <=> b + n \in d
  BY ShrBits
<1>3. ASSUME NEW b \in 0 .. 31 PROVE b \in r <=> b \in h
  BY <1>1, <1>2 DEF LoaderWords, IsRightOf
<1>4. r = h
  BY <1>3, SameBits
<1> QED BY <1>1, <1>2, <1>4

\* D0 takes the pair over whole: the nine bits it holds are below its sixteen.
LEMMA PairTaken ==
  ASSUME NEW t \in LoaderWords, NEW d4 \in LoaderWords, NEW e, e = LowPart(d4, FoldPair(t), 16)
  PROVE  LowPart(Shr(FoldU(t), 23), e, 16) = FoldPair(t)
<1>1. PICK u \in LoaderWords : u = FoldU(t)
  BY FoldUBits
<1>2. PICK h \in LoaderWords : h = Shr(u, 23) /\ \A b \in 0 .. 31 : b \in h <=> b + 23 \in u
  BY ShrBits
<1>3. PICK w \in LoaderWords : /\ w = FoldPair(t)
                              /\ \A b \in 0 .. 31 : b \in w <=> b < 16 /\ ~(b \in t <=> b + 16 \in t /\ b \notin 2 .. 6)
  BY FoldPairBits
<1>4. e \in LoaderWords /\ \A b \in 0 .. 31 : b \in e <=> IF b < 16 THEN b \in w ELSE b \in d4
  BY <1>3, LowPartBits
<1>5. PICK l \in LoaderWords : /\ l = LowPart(h, e, 16)
                              /\ \A b \in 0 .. 31 : b \in l <=> IF b < 16 THEN b \in e ELSE b \in h
  BY <1>4, LowPartBits
<1>6. ASSUME NEW b \in 0 .. 31 PROVE b \in l <=> b \in w
  <2>1. b >= 16 => b + 23 \notin u
    BY DEF LoaderWords
  <2> QED BY <1>2, <1>3, <1>4, <1>5, <2>1
<1>7. l = w
  BY <1>6, SameBits
<1> QED BY <1>1, <1>2, <1>3, <1>5, <1>7

LEMMA PairFolded ==
  ASSUME NEW t \in LoaderWords, NEW d4 \in LoaderWords, NEW e, e = LowPart(d4, FoldPair(t), 16)
  PROVE  /\ RightOf(FoldPair(t), 8, 16) = Shr(FoldPair(t), 8) /\ Shr(FoldPair(t), 8) \in LoaderWords
         /\ Xor(Shr(FoldPair(t), 8), Low(e, 8)) = FoldP(t)
<1>1. PICK w \in LoaderWords : /\ w = FoldPair(t)
                              /\ \A b \in 0 .. 31 : b \in w <=> b < 16 /\ ~(b \in t <=> b + 16 \in t /\ b \notin 2 .. 6)
  BY FoldPairBits
<1>2. PICK r \in LoaderWords : r = RightOf(w, 8, 16) /\ IsRightOf(w, 8, 16, r)
  <2>1. PICK r : r = RightOf(w, 8, 16)
    OBVIOUS
  <2>2. IsRightOf(w, 8, 16, r)
    BY <2>1, RightOfBits
  <2> QED BY <2>1, <2>2 DEF IsRightOf
<1>3. PICK h \in LoaderWords : h = Shr(w, 8) /\ \A b \in 0 .. 31 : b \in h <=> b + 8 \in w
  BY ShrBits
<1>4. \A b \in w : b \in 0 .. 15
  BY <1>1 DEF LoaderWords
<1>5. ASSUME NEW b \in 0 .. 31 PROVE b \in r <=> b \in h
  BY <1>2, <1>3, <1>4 DEF IsRightOf
<1>6. r = h
  BY <1>5, SameBits
<1>7. e \in LoaderWords /\ \A b \in 0 .. 31 : b \in e <=> IF b < 16 THEN b \in w ELSE b \in d4
  BY <1>1, LowPartBits
<1>8. PICK l \in LoaderWords : l = Low(e, 8) /\ \A b \in 0 .. 31 : b \in l <=> b \in e /\ b < 8
  BY <1>7, LowBits
<1>9. PICK x \in LoaderWords : x = Xor(h, l) /\ \A b \in 0 .. 31 : b \in x <=> ~(b \in h <=> b \in l)
  BY XorBits
<1>10. PICK p \in LoaderWords : p = FoldP(t) /\ \A b \in 0 .. 31 : b \in p <=> b < 8 /\ ~(b + 8 \in w <=> b \in w)
  BY <1>1, FoldPBits
<1>11. ASSUME NEW b \in 0 .. 31 PROVE b \in x <=> b \in p
  BY <1>3, <1>4, <1>7, <1>8, <1>9, <1>10
<1>12. x = p
  BY <1>11, SameBits
<1> QED BY <1>1, <1>2, <1>3, <1>6, <1>8, <1>9, <1>10, <1>12

LEMMA LeftInD4 ==
  ASSUME NEW t \in LoaderWords, NEW d4 \in LoaderWords, NEW e, e = LowPart(d4, FoldPair(t), 16)
  PROVE  /\ LowPart(e, FoldP(t), 16) \in LoaderWords
         /\ RightOf(LowPart(e, FoldP(t), 16), 3, 8) = (d4 \cap (16 .. 31)) \cup Shr(FoldP(t), 3)
         /\ 2 \in LowPart(e, FoldP(t), 16) <=> 2 \in FoldP(t)
         /\ Entry((d4 \cap (16 .. 31)) \cup Shr(FoldP(t), 3), FoldP(t)) = FoldP(t)
<1>1. PICK p \in LoaderWords : p = FoldP(t) /\ \A b \in p : b \in 0 .. 7
  <2>1. \A b \in FoldP(t) : b \in 0 .. 31
    BY FoldPBits DEF LoaderWords
  <2> QED BY <2>1, FoldPBits
<1>2. e \in LoaderWords /\ \A b \in 0 .. 31 : b >= 16 => (b \in e <=> b \in d4)
  BY FoldPairBits, LowPartBits
<1>3. PICK m \in LoaderWords : /\ m = LowPart(e, p, 16)
                              /\ \A b \in 0 .. 31 : b \in m <=> IF b < 16 THEN b \in p ELSE b \in e
  BY <1>2, LowPartBits
<1>4. PICK r \in LoaderWords : r = RightOf(m, 3, 8) /\ IsRightOf(m, 3, 8, r)
  <2>1. PICK r : r = RightOf(m, 3, 8)
    OBVIOUS
  <2>2. IsRightOf(m, 3, 8, r)
    BY <2>1, RightOfBits
  <2> QED BY <2>1, <2>2 DEF IsRightOf
<1>5. PICK h \in LoaderWords : h = Shr(p, 3) /\ \A b \in 0 .. 31 : b \in h <=> b + 3 \in p
  BY ShrBits
<1>6. PICK g \in LoaderWords : g = (d4 \cap (16 .. 31)) \cup h
  BY DEF LoaderWords
<1>7. ASSUME NEW b \in 0 .. 31 PROVE b \in r <=> b \in g
  <2>1. b \in h <=> b + 3 \in p /\ b < 5
    BY <1>1, <1>5
  <2>2. CASE b < 8
    BY <1>1, <1>3, <1>4, <1>6, <2>1, <2>2 DEF IsRightOf
  <2>3. CASE b >= 8
    BY <1>1, <1>2, <1>3, <1>4, <1>6, <2>1, <2>3 DEF IsRightOf
  <2> QED BY <2>2, <2>3
<1>8. r = g
  BY <1>7, SameBits
<1>9. Entry(g, p) = p
  <2>1. PICK l \in LoaderWords : l = Low(g, 16) /\ \A b \in 0 .. 31 : b \in l <=> b \in g /\ b < 16
    BY LowBits
  <2>2. PICK s \in LoaderWords : s = Shl(l, 3) /\ \A b \in 0 .. 31 : b \in s <=> b - 3 \in l
    BY ShlBits
  <2>3. PICK k \in LoaderWords : k = Low(p, 3) /\ \A b \in 0 .. 31 : b \in k <=> b \in p /\ b < 3
    BY LowBits
  <2>4. s \cup k \in LoaderWords
    BY DEF LoaderWords
  <2>5. ASSUME NEW b \in 0 .. 31 PROVE b \in s \cup k <=> b \in p
    <3>1. CASE b < 3
      <4>1. b - 3 \notin l
        BY <3>1 DEF LoaderWords
      <4> QED BY <2>2, <2>3, <3>1, <4>1
    <3>2. CASE b >= 3
      <4>1. PICK c \in 0 .. 31 : c = b - 3 /\ c + 3 = b
        BY <3>2
      <4>2. c \in l <=> c \in h
        <5>1. c \in h => c < 16
          BY <1>1, <1>5
        <5>2. c < 16 => (c \in g <=> c \in h)
          BY <1>6
        <5> QED BY <2>1, <5>1, <5>2
      <4> QED BY <1>5, <2>2, <2>3, <3>2, <4>1, <4>2
    <3> QED BY <3>1, <3>2
  <2>6. s \cup k = p
    BY <2>4, <2>5, SameBits
  <2> QED BY <2>1, <2>2, <2>3, <2>6 DEF Entry
<1>10. 2 \in m <=> 2 \in p
  BY <1>3
<1> QED BY <1>1, <1>3, <1>4, <1>5, <1>6, <1>8, <1>9, <1>10

(***************************************************************************)
(* The instructions one after another, as prefix runs them.                *)
(***************************************************************************)
IsRun(s, word, m, f) ==
  f = [n \in 0 .. m |-> IF n = 0 THEN s ELSE Instruction(n - 1, f[n - 1], word)]
Ran(s, word) == CHOOSE f : IsRun(s, word, 30, f)
RunsFrom(s, word, f) ==
  f[0] = s /\ \A n \in 0 .. 29 : f[n + 1] = Instruction(n, f[n], word)

LEMMA RunExists ==
  ASSUME NEW s, NEW word, NEW m \in Nat
  PROVE  \E f : IsRun(s, word, m, f)
<1> DEFINE G == {n \in Nat : \E f : IsRun(s, word, n, f)}
<1>1. 0 \in G
  <2>1. PICK f : f = [k \in 0 .. 0 |-> s]
    OBVIOUS
  <2>2. f = [k \in 0 .. 0 |-> IF k = 0 THEN s ELSE Instruction(k - 1, f[k - 1], word)]
    BY <2>1
  <2>3. IsRun(s, word, 0, f)
    BY <2>2 DEF IsRun
  <2> QED BY <2>3
<1>2. ASSUME NEW n \in Nat, n \in G PROVE n + 1 \in G
  <2>1. PICK f : IsRun(s, word, n, f)
    BY <1>2
  <2>2. PICK t : t = Instruction(n, f[n], word)
    OBVIOUS
  <2>3. PICK g : g = [k \in 0 .. n + 1 |-> IF k = n + 1 THEN t ELSE f[k]]
    OBVIOUS
  <2>4. \A k \in 0 .. n : f[k] = IF k = 0 THEN s ELSE Instruction(k - 1, f[k - 1], word)
    <3>1. PICK e : e = 0 .. n
      OBVIOUS
    <3>2. f = [k \in e |-> IF k = 0 THEN s ELSE Instruction(k - 1, f[k - 1], word)]
      BY <2>1, <3>1 DEF IsRun
    <3> QED BY <3>1, <3>2
  <2>5. ASSUME NEW k \in 0 .. n + 1
        PROVE  g[k] = IF k = 0 THEN s ELSE Instruction(k - 1, g[k - 1], word)
    <3>1. CASE k = n + 1
      <4>1. k # 0 /\ k - 1 = n /\ k - 1 \in 0 .. n + 1 /\ k - 1 # n + 1
        BY <3>1
      <4>2. g[k] = t /\ g[k - 1] = f[n]
        BY <2>3, <3>1, <4>1
      <4> QED BY <2>2, <4>1, <4>2
    <3>2. CASE k # n + 1
      <4>1. k \in 0 .. n /\ (k # 0 => k - 1 \in 0 .. n + 1 /\ k - 1 # n + 1)
        BY <3>2
      <4>2. g[k] = f[k] /\ (k # 0 => g[k - 1] = f[k - 1])
        BY <2>3, <3>2, <4>1
      <4> QED BY <2>4, <4>1, <4>2
    <3> QED BY <3>1, <3>2
  <2>6. g = [k \in 0 .. n + 1 |-> IF k = 0 THEN s ELSE Instruction(k - 1, g[k - 1], word)]
    BY <2>3, <2>5
  <2>7. IsRun(s, word, n + 1, g)
    BY <2>6 DEF IsRun
  <2> QED BY <2>7
<1>3. m \in G
  <2> HIDE DEF G
  <2> QED BY <1>1, <1>2, AllNumbers
<1> QED BY <1>3

LEMMA RanRuns ==
  ASSUME NEW s, NEW word
  PROVE  RunsFrom(s, word, Ran(s, word))
<1>1. PICK f : f = Ran(s, word) /\ IsRun(s, word, 30, f)
  <2>1. \E f : IsRun(s, word, 30, f)
    BY RunExists
  <2> QED BY <2>1, Zenon DEF Ran
<1>2. \A k \in 0 .. 30 : f[k] = IF k = 0 THEN s ELSE Instruction(k - 1, f[k - 1], word)
  <2>1. PICK e : e = 0 .. 30
    OBVIOUS
  <2>2. f = [k \in e |-> IF k = 0 THEN s ELSE Instruction(k - 1, f[k - 1], word)]
    BY <1>1, <2>1 DEF IsRun
  <2> QED BY <2>1, <2>2
<1>3. f[0] = s
  BY <1>2
<1>4. ASSUME NEW n \in 0 .. 29 PROVE f[n + 1] = Instruction(n, f[n], word)
  <2>1. n + 1 \in 0 .. 30 /\ n + 1 # 0 /\ (n + 1) - 1 = n
    OBVIOUS
  <2>2. f[n + 1] = Instruction((n + 1) - 1, f[(n + 1) - 1], word)
    BY <1>2, <2>1
  <2> QED BY <2>1, <2>2
<1> QED BY <1>1, <1>3, <1>4 DEF RunsFrom

LEMMA PrefixIs ==
  ASSUME NEW f
  PROVE  prefix(f) = [Ran(f.before, f.word)[f.completed] EXCEPT !.PC = f.pc]
BY DEF prefix, Ran, IsRun

\* The instructions that are neither moves nor shifts.
LEMMA WordReadHolds ==
  ASSUME NEW k, NEW s, NEW d0, NEW d1, NEW d2, NEW d4, NEW a0, Holds(k, s, d0, d1, d2, d4, a0),
         NEW v \in LoaderWords
  PROVE  Holds([Gets(k, "D0", v, 32) EXCEPT !.A0 = @ + 1], s, v, d1, d2, d4, a0 + 1)
<1>1. PICK g : g = Gets(k, "D0", v, 32) /\ Holds(g, s, v, d1, d2, d4, a0)
  BY GetsHold
<1>2. Holds([g EXCEPT !.A0 = @ + 1], s, v, d1, d2, d4, a0 + 1)
  BY <1>1 DEF Holds, LoaderRegs
<1> QED BY <1>1, <1>2

LEMMA ClearHolds ==
  ASSUME NEW k, NEW s, NEW d0, NEW d1, NEW d2, NEW d4, NEW a0, Holds(k, s, d0, d1, d2, d4, a0)
  PROVE  Holds([k EXCEPT !.D2 = @ \cap (16 .. 31), !.SR = (@ \ {"N", "V", "C"}) \cup {"Z"}],
               s, d0, d1, d2 \cap (16 .. 31), d4, a0)
<1>1. PICK v \in LoaderWords : v = k.D2 \cap (16 .. 31) /\ v = d2 \cap (16 .. 31)
  BY DEF Holds, LoaderRegs, LoaderWords
<1>2. PICK flags \in SUBSET LoaderFlags : flags = (k.SR \ {"N", "V", "C"}) \cup {"Z"}
  BY DEF Holds, LoaderRegs, LoaderFlags
<1>3. [k EXCEPT !.D2 = @ \cap (16 .. 31), !.SR = (@ \ {"N", "V", "C"}) \cup {"Z"}] = Writes(k, "D2", v, flags)
  BY <1>1, <1>2 DEF Writes
<1>4. Holds(Writes(k, "D2", v, flags), s, d0, d1, v, d4, a0)
  BY WritesHold
<1> QED BY <1>1, <1>3, <1>4, Zenon

LEMMA FlagsHold ==
  ASSUME NEW k, NEW s, NEW d0, NEW d1, NEW d2, NEW d4, NEW a0, Holds(k, s, d0, d1, d2, d4, a0),
         NEW flags \in SUBSET LoaderFlags
  PROVE  Holds([k EXCEPT !.SR = flags], s, d0, d1, d2, d4, a0)
BY DEF Holds, LoaderRegs

\* What the flags are after the byte's shift and the look into the table.
FoldFlags(t) ==
  (IF 2 \in FoldP(t) THEN {"X", "C"} ELSE {}) \cup (IF parity(FoldP(t)) THEN {} ELSE {"Z"})
FoldD4(s, t) == (s.D4 \cap (16 .. 31)) \cup Shr(FoldP(t), 3)

RunFolds(s, word, t, f) ==
  /\ \A n \in 0 .. 30 : f[n] \in LoaderRegs /\ f[n].PC = s.PC /\ f[n].D5 = s.D5 /\ f[n].A0 >= s.A0
  /\ Holds(f[29], s, FoldP(t), FoldCrc(t), {0, 1, 2, 4}, FoldD4(s, t), s.A0 + 1)
  /\ f[29].SR = FoldFlags(t)
  /\ Holds(f[30], s, FoldP(t), Xor(FoldCrc(t), s.D5), {0, 1, 2, 4}, FoldD4(s, t), s.A0 + 1)
  /\ f[30].SR = logical(FoldFlags(t), Xor(FoldCrc(t), s.D5), 32)

LEMMA RunFold ==
  ASSUME NEW s \in LoaderRegs, NEW word \in LoaderWords, NEW t, t = FoldT(s, word),
         NEW f, RunsFrom(s, word, f)
  PROVE  RunFolds(s, word, t, f)
<1>a. /\ s.D0 \in LoaderWords /\ s.D1 \in LoaderWords /\ s.D2 \in LoaderWords /\ s.D4 \in LoaderWords
      /\ s.D5 \in LoaderWords /\ s.A0 \in Nat
  BY DEF LoaderRegs
<1>b. PICK l \in LoaderWords : l = Shl(s.D1, 8)
  BY <1>a, ShlBits
<1>c. t = Xor(l, word) /\ t \in LoaderWords
  BY <1>b, XorBits DEF FoldT
<1>d. PICK h \in LoaderWords : h = FoldHigh(t)
  BY <1>c, FoldHighBits
<1>e. PICK w \in LoaderWords : w = FoldPair(t)
  BY <1>c, FoldPairBits
<1>f. PICK u \in LoaderWords : u = FoldU(t) /\ u = Xor(t, Shl(Low(t, 23), 5))
  BY <1>c, FoldUBits DEF FoldU
<1>g. PICK c \in LoaderWords : c = FoldHigh(t) \ {0, 1} /\ LowPart(h, h \ {0, 1}, 16) = c
  BY <1>c, <1>d, HighCut
<1>h. PICK c3 \in LoaderWords : c3 = Shl(c, 3)
  BY <1>g, ShlBits
<1>i. PICK x \in LoaderWords : x = Xor(u, c3)
  BY <1>f, <1>h, XorBits
<1>j. PICK r \in LoaderWords : r = Shr(u, 23) /\ RightOf(u, 23, 32) = r
  BY <1>f, RightOfWhole
<1>k. PICK y \in LoaderWords : y = Xor(x, r)
  BY XorBits
<1>l. PICK z \in LoaderWords : z = FoldCrc(t) /\ z = Shl(y, 1)
  BY <1>c, <1>f, <1>g, <1>h, <1>i, <1>j, <1>k, FoldCrcBits DEF FoldCrc
<1>m. PICK p \in LoaderWords : p = FoldP(t)
  BY <1>c, FoldPBits
<1>n. PICK e \in LoaderWords : e = LowPart(s.D4, FoldPair(t), 16)
  BY <1>a, <1>c, MaskedPair
<1>o. PICK o4 \in LoaderWords : o4 = LowPart(s.D4, t, 16)
  BY <1>a, <1>c, MaskedPair
<1>p. PICK g \in LoaderWords : g = FoldMasked(t) /\ Xor(o4, Low(g, 16)) = e
  BY <1>a, <1>c, <1>n, <1>o, MaskedPair
<1>q. PICK m \in LoaderWords : m = FoldMask
  BY <1>a, <1>c, MaskedPair
<1>r. PICK hi \in LoaderWords : hi = t \cap (16 .. 31) /\ Shr(hi, 16) \cup Shl(hi, 16) = h
  BY <1>c, <1>d, SwappedIsHigh
<1>s. PICK b23 \in LoaderWords : b23 = 0 .. 22
  BY <1>c, LowMask
<1>t. PICK l23 \in LoaderWords : l23 = Low(t, 23) /\ b23 \cap t = l23
  BY <1>c, <1>s, LowMask
<1>u. PICK s23 \in LoaderWords : s23 = Shl(l23, 5)
  BY ShlBits
<1>v. PICK w8 \in LoaderWords : w8 = Shr(w, 8) /\ RightOf(w, 8, 16) = w8 /\ Xor(w8, Low(e, 8)) = p
  BY <1>a, <1>c, <1>e, <1>m, <1>n, PairFolded
<1>w. LowPart(r, e, 16) = w
  <2>1. LowPart(Shr(FoldU(t), 23), e, 16) = FoldPair(t)
    BY <1>a, <1>c, <1>n, PairTaken
  <2> QED BY <1>e, <1>f, <1>j, <2>1
<1>x. PICK ep \in LoaderWords : ep = LowPart(e, p, 16) /\ RightOf(ep, 3, 8) = FoldD4(s, t)
  <2>1. PICK d4 \in LoaderWords : d4 = s.D4
    BY <1>a
  <2>2. LowPart(e, p, 16) \in LoaderWords /\ RightOf(LowPart(e, p, 16), 3, 8) = (d4 \cap (16 .. 31)) \cup Shr(p, 3)
    BY <1>c, <1>m, <1>n, <2>1, LeftInD4
  <2> QED BY <1>m, <2>1, <2>2 DEF FoldD4
<1>x2. (2 \in ep) = (2 \in p)
  <2>1. \A b \in 0 .. 31 : b \in ep <=> IF b < 16 THEN b \in p ELSE b \in e
    BY <1>x, LowPartBits
  <2> QED BY <2>1
<1>x3. Entry(FoldD4(s, t), p) = p
  BY <1>a, <1>c, <1>m, <1>n, LeftInD4 DEF FoldD4
<1>y. PICK k2 \in LoaderWords : k2 = {0, 1, 2, 4}
  <2>1. PICK v : v = {0, 1, 2, 4}
    OBVIOUS
  <2>2. v \in LoaderWords
    BY <2>1 DEF LoaderWords
  <2> QED BY <2>1, <2>2
<1>start. f[0] = s /\ \A n \in 0 .. 29 : f[n + 1] = Instruction(n, f[n], word)
  BY DEF RunsFrom
<1>s0. f[1] = LeftBy(f[0], "D1", 8)
  <2>1. f[1] = Instruction(0, f[0], word)
    BY <1>start
  <2> QED BY <2>1 DEF Instruction
<1>s1. f[2] = [Gets(f[1], "D0", word, 32) EXCEPT !.A0 = @ + 1]
  <2>1. f[2] = Instruction(1, f[1], word)
    BY <1>start
  <2> QED BY <2>1 DEF Instruction
<1>s2. f[3] = Gets(f[2], "D1", Xor(f[2].D1, f[2].D0), 32)
  <2>1. f[3] = Instruction(2, f[2], word)
    BY <1>start
  <2> QED BY <2>1 DEF Instruction
<1>s3. f[4] = Gets(f[3], "D2", f[3].D1, 32)
  <2>1. f[4] = Instruction(3, f[3], word)
    BY <1>start
  <2> QED BY <2>1 DEF Instruction
<1>s4. f[5] = Gets(f[4], "D4", LowPart(f[4].D4, f[4].D1, 16), 16)
  <2>1. f[5] = Instruction(4, f[4], word)
    BY <1>start
  <2> QED BY <2>1 DEF Instruction
<1>s5. f[6] = [f[5] EXCEPT !.D2 = @ \cap (16 .. 31), !.SR = (@ \ {"N", "V", "C"}) \cup {"Z"}]
  <2>1. f[6] = Instruction(5, f[5], word)
    BY <1>start
  <2> QED BY <2>1 DEF Instruction
<1>s6. f[7] = Gets(f[6], "D2", Shr(f[6].D2, 16) \cup Shl(f[6].D2, 16), 32)
  <2>1. f[7] = Instruction(6, f[6], word)
    BY <1>start
  <2> QED BY <2>1 DEF Instruction
<1>s7. f[8] = Gets(f[7], "D0", {0, 1} \cup (7 .. 31), 32)
  <2>1. f[8] = Instruction(7, f[7], word)
    BY <1>start
  <2> QED BY <2>1 DEF Instruction
<1>s8. f[9] = Gets(f[8], "D0", LowPart(f[8].D0, f[8].D0 \cap f[8].D2, 16), 16)
  <2>1. f[9] = Instruction(8, f[8], word)
    BY <1>start
  <2> QED BY <2>1 DEF Instruction
<1>s9. f[10] = Gets(f[9], "D4", Xor(f[9].D4, Low(f[9].D0, 16)), 16)
  <2>1. f[10] = Instruction(9, f[9], word)
    BY <1>start
  <2> QED BY <2>1 DEF Instruction
<1>s10. f[11] = Gets(f[10], "D0", 0 .. 22, 32)
  <2>1. f[11] = Instruction(10, f[10], word)
    BY <1>start
  <2> QED BY <2>1 DEF Instruction
<1>s11. f[12] = Gets(f[11], "D0", f[11].D0 \cap f[11].D1, 32)
  <2>1. f[12] = Instruction(11, f[11], word)
    BY <1>start
  <2> QED BY <2>1 DEF Instruction
<1>s12. f[13] = LeftBy(f[12], "D0", 5)
  <2>1. f[13] = Instruction(12, f[12], word)
    BY <1>start
  <2> QED BY <2>1 DEF Instruction
<1>s13. f[14] = Gets(f[13], "D1", Xor(f[13].D1, f[13].D0), 32)
  <2>1. f[14] = Instruction(13, f[13], word)
    BY <1>start
  <2> QED BY <2>1 DEF Instruction
<1>s14. f[15] = Gets(f[14], "D0", f[14].D1, 32)
  <2>1. f[15] = Instruction(14, f[14], word)
    BY <1>start
  <2> QED BY <2>1 DEF Instruction
<1>s15. f[16] = Gets(f[15], "D2", LowPart(f[15].D2, f[15].D2 \ {0, 1}, 16), 16)
  <2>1. f[16] = Instruction(15, f[15], word)
    BY <1>start
  <2> QED BY <2>1 DEF Instruction
<1>s16. f[17] = LeftBy(f[16], "D2", 3)
  <2>1. f[17] = Instruction(16, f[16], word)
    BY <1>start
  <2> QED BY <2>1 DEF Instruction
<1>s17. f[18] = Gets(f[17], "D1", Xor(f[17].D1, f[17].D2), 32)
  <2>1. f[18] = Instruction(17, f[17], word)
    BY <1>start
  <2> QED BY <2>1 DEF Instruction
<1>s18. f[19] = Gets(f[18], "D2", {0, 1, 2, 4}, 32)
  <2>1. f[19] = Instruction(18, f[18], word)
    BY <1>start
  <2> QED BY <2>1 DEF Instruction
<1>s19. f[20] = RightBy(f[19], "D0", 23, 32)
  <2>1. f[20] = Instruction(19, f[19], word)
    BY <1>start
  <2> QED BY <2>1 DEF Instruction
<1>s20. f[21] = Gets(f[20], "D1", Xor(f[20].D1, f[20].D0), 32)
  <2>1. f[21] = Instruction(20, f[20], word)
    BY <1>start
  <2> QED BY <2>1 DEF Instruction
<1>s21. f[22] = Doubled(f[21])
  <2>1. f[22] = Instruction(21, f[21], word)
    BY <1>start
  <2> QED BY <2>1 DEF Instruction
<1>s22. f[23] = Gets(f[22], "D0", LowPart(f[22].D0, f[22].D4, 16), 16)
  <2>1. f[23] = Instruction(22, f[22], word)
    BY <1>start
  <2> QED BY <2>1 DEF Instruction
<1>s23. f[24] = RightBy(f[23], "D0", 8, 16)
  <2>1. f[24] = Instruction(23, f[23], word)
    BY <1>start
  <2> QED BY <2>1 DEF Instruction
<1>s24. f[25] = Gets(f[24], "D0", Xor(f[24].D0, Low(f[24].D4, 8)), 8)
  <2>1. f[25] = Instruction(24, f[24], word)
    BY <1>start
  <2> QED BY <2>1 DEF Instruction
<1>s25. f[26] = Gets(f[25], "D4", LowPart(f[25].D4, f[25].D0, 16), 16)
  <2>1. f[26] = Instruction(25, f[25], word)
    BY <1>start
  <2> QED BY <2>1 DEF Instruction
<1>s26. f[27] = RightBy(f[26], "D4", 3, 8)
  <2>1. f[27] = Instruction(26, f[26], word)
    BY <1>start
  <2> QED BY <2>1 DEF Instruction
<1>s27. f[28] = [f[27] EXCEPT !.SR = (@ \ {"Z"}) \cup (IF parity(Entry(f[27].D4, f[27].D0)) THEN {} ELSE {"Z"})]
  <2>1. f[28] = Instruction(27, f[27], word)
    BY <1>start
  <2> QED BY <2>1 DEF Instruction
<1>s28. f[29] = f[28]
  <2>1. f[29] = Instruction(28, f[28], word)
    BY <1>start
  <2> QED BY <2>1 DEF Instruction
<1>s29. f[30] = Gets(f[29], "D1", Xor(f[29].D1, f[29].D5), 32)
  <2>1. f[30] = Instruction(29, f[29], word)
    BY <1>start
  <2> QED BY <2>1 DEF Instruction
<1>0. Holds(f[0], s, s.D0, s.D1, s.D2, s.D4, s.A0)
  BY <1>start DEF Holds, LoaderRegs
<1>1. Holds(f[1], s, s.D0, l, s.D2, s.D4, s.A0)
  <2>1. f[1] = LeftBy(f[0], "D1", 8)
    BY <1>s0, <1>0 DEF Holds
  <2> QED BY <1>0, <2>1, <1>b, LeftByHold
<1>2. Holds(f[2], s, word, l, s.D2, s.D4, s.A0 + 1)
  <2>1. f[2] = [Gets(f[1], "D0", word, 32) EXCEPT !.A0 = @ + 1]
    BY <1>s1, <1>1 DEF Holds
  <2> QED BY <1>1, <2>1, WordReadHolds
<1>3. Holds(f[3], s, word, t, s.D2, s.D4, s.A0 + 1)
  <2>1. f[3] = Gets(f[2], "D1", t, 32)
    BY <1>s2, <1>2, <1>c DEF Holds
  <2> QED BY <1>2, <2>1, <1>c, GetsHold
<1>4. Holds(f[4], s, word, t, t, s.D4, s.A0 + 1)
  <2>1. f[4] = Gets(f[3], "D2", t, 32)
    BY <1>s3, <1>3 DEF Holds
  <2> QED BY <1>3, <2>1, <1>c, GetsHold
<1>5. Holds(f[5], s, word, t, t, o4, s.A0 + 1)
  <2>1. f[5] = Gets(f[4], "D4", o4, 16)
    BY <1>s4, <1>4, <1>o DEF Holds
  <2> QED BY <1>4, <2>1, GetsHold
<1>6. Holds(f[6], s, word, t, hi, o4, s.A0 + 1)
  <2>1. f[6] = [f[5] EXCEPT !.D2 = @ \cap (16 .. 31), !.SR = (@ \ {"N", "V", "C"}) \cup {"Z"}]
    BY <1>s5, <1>5 DEF Holds
  <2>2. Holds([f[5] EXCEPT !.D2 = @ \cap (16 .. 31), !.SR = (@ \ {"N", "V", "C"}) \cup {"Z"}], s, word, t, hi, o4, s.A0 + 1)
    BY <1>5, <1>r, ClearHolds
  <2> QED BY <2>1, <2>2, Zenon
<1>7. Holds(f[7], s, word, t, h, o4, s.A0 + 1)
  <2>1. f[7] = Gets(f[6], "D2", h, 32)
    BY <1>s6, <1>6, <1>r DEF Holds
  <2> QED BY <1>6, <2>1, GetsHold
<1>8. Holds(f[8], s, m, t, h, o4, s.A0 + 1)
  <2>1. f[8] = Gets(f[7], "D0", m, 32)
    BY <1>s7, <1>7, <1>q DEF Holds, FoldMask
  <2> QED BY <1>7, <2>1, GetsHold
<1>9. Holds(f[9], s, g, t, h, o4, s.A0 + 1)
  <2>1. f[9] = Gets(f[8], "D0", g, 16)
    BY <1>s8, <1>8, <1>d, <1>p, <1>q DEF Holds, FoldMasked
  <2> QED BY <1>8, <2>1, GetsHold
<1>10. Holds(f[10], s, g, t, h, e, s.A0 + 1)
  <2>1. f[10] = Gets(f[9], "D4", e, 16)
    BY <1>s9, <1>9, <1>p DEF Holds
  <2> QED BY <1>9, <2>1, GetsHold
<1>11. Holds(f[11], s, b23, t, h, e, s.A0 + 1)
  <2>1. f[11] = Gets(f[10], "D0", b23, 32)
    BY <1>s10, <1>10, <1>s DEF Holds
  <2> QED BY <1>10, <2>1, GetsHold
<1>12. Holds(f[12], s, l23, t, h, e, s.A0 + 1)
  <2>1. f[12] = Gets(f[11], "D0", l23, 32)
    BY <1>s11, <1>11, <1>t DEF Holds
  <2> QED BY <1>11, <2>1, GetsHold
<1>13. Holds(f[13], s, s23, t, h, e, s.A0 + 1)
  <2>1. f[13] = LeftBy(f[12], "D0", 5)
    BY <1>s12, <1>12 DEF Holds
  <2> QED BY <1>12, <2>1, <1>u, LeftByHold
<1>14. Holds(f[14], s, s23, u, h, e, s.A0 + 1)
  <2>1. f[14] = Gets(f[13], "D1", u, 32)
    BY <1>s13, <1>13, <1>f, <1>t, <1>u DEF Holds
  <2> QED BY <1>13, <2>1, GetsHold
<1>15. Holds(f[15], s, u, u, h, e, s.A0 + 1)
  <2>1. f[15] = Gets(f[14], "D0", u, 32)
    BY <1>s14, <1>14 DEF Holds
  <2> QED BY <1>14, <2>1, GetsHold
<1>16. Holds(f[16], s, u, u, c, e, s.A0 + 1)
  <2>1. f[16] = Gets(f[15], "D2", c, 16)
    BY <1>s15, <1>15, <1>g DEF Holds
  <2> QED BY <1>15, <2>1, GetsHold
<1>17. Holds(f[17], s, u, u, c3, e, s.A0 + 1)
  <2>1. f[17] = LeftBy(f[16], "D2", 3)
    BY <1>s16, <1>16 DEF Holds
  <2> QED BY <1>16, <2>1, <1>h, LeftByHold
<1>18. Holds(f[18], s, u, x, c3, e, s.A0 + 1)
  <2>1. f[18] = Gets(f[17], "D1", x, 32)
    BY <1>s17, <1>17, <1>i DEF Holds
  <2> QED BY <1>17, <2>1, GetsHold
<1>19. Holds(f[19], s, u, x, k2, e, s.A0 + 1)
  <2>1. f[19] = Gets(f[18], "D2", k2, 32)
    BY <1>s18, <1>18, <1>y DEF Holds
  <2> QED BY <1>18, <2>1, GetsHold
<1>20. Holds(f[20], s, r, x, k2, e, s.A0 + 1)
  <2>1. f[20] = RightBy(f[19], "D0", 23, 32)
    BY <1>s19, <1>19 DEF Holds
  <2>2. Holds(RightBy(f[19], "D0", 23, 32), s, r, x, k2, e, s.A0 + 1)
    BY <1>19, <1>j, RightByHoldD0
  <2> QED BY <2>1, <2>2, Zenon
<1>21. Holds(f[21], s, r, y, k2, e, s.A0 + 1)
  <2>1. f[21] = Gets(f[20], "D1", y, 32)
    BY <1>s20, <1>20, <1>k DEF Holds
  <2> QED BY <1>20, <2>1, GetsHold
<1>22. Holds(f[22], s, r, z, k2, e, s.A0 + 1)
  <2>1. f[22] = Doubled(f[21])
    BY <1>s21, <1>21 DEF Holds
  <2> QED BY <1>21, <2>1, <1>l, DoubledHold
<1>23. Holds(f[23], s, w, z, k2, e, s.A0 + 1)
  <2>1. f[23] = Gets(f[22], "D0", w, 16)
    BY <1>s22, <1>22, <1>w DEF Holds
  <2> QED BY <1>22, <2>1, GetsHold
<1>24. Holds(f[24], s, w8, z, k2, e, s.A0 + 1)
  <2>1. f[24] = RightBy(f[23], "D0", 8, 16)
    BY <1>s23, <1>23 DEF Holds
  <2>2. Holds(RightBy(f[23], "D0", 8, 16), s, w8, z, k2, e, s.A0 + 1)
    BY <1>23, <1>v, RightByHoldD0
  <2> QED BY <2>1, <2>2, Zenon
<1>25. Holds(f[25], s, p, z, k2, e, s.A0 + 1)
  <2>1. f[25] = Gets(f[24], "D0", p, 8)
    BY <1>s24, <1>24, <1>v DEF Holds
  <2> QED BY <1>24, <2>1, GetsHold
<1>26. Holds(f[26], s, p, z, k2, ep, s.A0 + 1)
  <2>1. f[26] = Gets(f[25], "D4", ep, 16)
    BY <1>s25, <1>25, <1>x DEF Holds
  <2> QED BY <1>25, <2>1, GetsHold
<1>27. Holds(f[27], s, p, z, k2, FoldD4(s, t), s.A0 + 1)
  <2>1. f[27] = RightBy(f[26], "D4", 3, 8)
    BY <1>s26, <1>26 DEF Holds
  <2>2. Holds(RightBy(f[26], "D4", 3, 8), s, p, z, k2, FoldD4(s, t), s.A0 + 1)
    BY <1>26, <1>x, RightByHoldD4
  <2> QED BY <2>1, <2>2, Zenon
<1>sr. /\ f[27].SR \in SUBSET LoaderFlags
       /\ (f[27].SR \ {"Z"}) \cup (IF parity(FoldP(t)) THEN {} ELSE {"Z"}) = FoldFlags(t)
  <2>1. f[27].SR = Shifted(f[26].SR, Shr(Low(ep, 8), 3), 8, 2 \in ep)
    <3>1. f[27] = RightBy(f[26], "D4", 3, 8) /\ f[26].D4 = ep /\ f[26] \in LoaderRegs
      BY <1>s26, <1>26 DEF Holds
    <3>2. PICK k : k = f[26]
      OBVIOUS
    <3>3. PICK o : o = (3 - 1 \in k.D4) /\ o = (2 \in ep)
      <4>1. 3 - 1 = 2
        OBVIOUS
      <4> QED BY <3>1, <3>2, <4>1
    <3>4. f[27] = [k EXCEPT !.D4 = LowPart(@, Shr(Low(k.D4, 8), 3), 8),
                            !.SR = Shifted(@, Shr(Low(k.D4, 8), 3), 8, o)]
      BY <3>1, <3>2, <3>3, Zenon DEF RightBy
    <3>5. f[27].SR = Shifted(k.SR, Shr(Low(k.D4, 8), 3), 8, o)
      BY <3>1, <3>2, <3>4 DEF LoaderRegs
    <3> QED BY <3>1, <3>2, <3>3, <3>5, Zenon
  <2>2. f[26].SR \in SUBSET LoaderFlags /\ f[27].SR \in SUBSET LoaderFlags
    BY <1>26, <1>27 DEF Holds, LoaderRegs
  <2>3. PICK v \in LoaderWords : v = Shr(Low(ep, 8), 3) /\ 7 \notin v
    <3>1. PICK a \in LoaderWords : a = Low(ep, 8) /\ \A b \in 0 .. 31 : b \in a <=> b \in ep /\ b < 8
      BY LowBits
    <3>2. PICK v \in LoaderWords : v = Shr(a, 3) /\ \A b \in 0 .. 31 : b \in v <=> b + 3 \in a
      BY ShrBits
    <3>3. 7 \notin v
      BY <3>1, <3>2
    <3> QED BY <3>1, <3>2, <3>3
  <2>4. f[27].SR \ {"Z"} = IF 2 \in p THEN {"X", "C"} ELSE {}
    <3>1. 8 - 1 \notin v
      BY <2>3
    <3>2. PICK q \in SUBSET LoaderFlags : q = f[26].SR
      BY <2>2
    <3>3. f[27].SR = logical(q \ {"X"}, v, 8) \cup (IF 2 \in p THEN {"X", "C"} ELSE {})
      BY <1>x2, <2>1, <2>3, <3>2 DEF Shifted
    <3>4. logical(q \ {"X"}, v, 8) \ {"Z"} = {}
      BY <3>1 DEF logical, LoaderFlags
    <3> QED BY <3>3, <3>4
  <2> QED BY <1>m, <2>2, <2>4 DEF FoldFlags
<1>28. Holds(f[28], s, p, z, k2, FoldD4(s, t), s.A0 + 1) /\ f[28].SR = FoldFlags(t)
  <2>1. FoldFlags(t) \in SUBSET LoaderFlags
    BY DEF FoldFlags, LoaderFlags
  <2>2. f[27].D4 = FoldD4(s, t) /\ f[27].D0 = p /\ f[27] \in LoaderRegs
    BY <1>27 DEF Holds
  <2>3. f[28] = [f[27] EXCEPT !.SR = (@ \ {"Z"}) \cup (IF parity(p) THEN {} ELSE {"Z"})]
    BY <1>s27, <1>x3, <2>2
  <2>4. f[28] = [f[27] EXCEPT !.SR = FoldFlags(t)]
    BY <1>m, <1>sr, <2>2, <2>3 DEF LoaderRegs
  <2>5. f[28].SR = FoldFlags(t)
    BY <2>2, <2>4 DEF LoaderRegs
  <2> QED BY <1>27, <2>1, <2>4, <2>5, FlagsHold
<1>29. Holds(f[29], s, p, z, k2, FoldD4(s, t), s.A0 + 1) /\ f[29].SR = FoldFlags(t)
  BY <1>28, <1>s28
<1>z. PICK v5 \in LoaderWords : v5 = Xor(z, s.D5)
  BY <1>a, XorBits
<1>30. Holds(f[30], s, p, v5, k2, FoldD4(s, t), s.A0 + 1) /\ f[30].SR = logical(FoldFlags(t), v5, 32)
  <2>1. f[30] = Gets(f[29], "D1", v5, 32)
    BY <1>s29, <1>29, <1>z DEF Holds
  <2>2. f[30].SR = logical(FoldFlags(t), v5, 32)
    BY <1>29, <2>1 DEF Holds, LoaderRegs, Gets
  <2> QED BY <1>29, <2>1, <2>2, GetsHold
<1>all. \A n \in 0 .. 30 : f[n] \in LoaderRegs /\ f[n].PC = s.PC /\ f[n].D5 = s.D5 /\ f[n].A0 >= s.A0
  <2>0. f[0] \in LoaderRegs /\ f[0].PC = s.PC /\ f[0].D5 = s.D5 /\ f[0].A0 >= s.A0
    BY <1>a, <1>0 DEF Holds
  <2>1. f[1] \in LoaderRegs /\ f[1].PC = s.PC /\ f[1].D5 = s.D5 /\ f[1].A0 >= s.A0
    BY <1>a, <1>1 DEF Holds
  <2>2. f[2] \in LoaderRegs /\ f[2].PC = s.PC /\ f[2].D5 = s.D5 /\ f[2].A0 >= s.A0
    BY <1>a, <1>2 DEF Holds
  <2>3. f[3] \in LoaderRegs /\ f[3].PC = s.PC /\ f[3].D5 = s.D5 /\ f[3].A0 >= s.A0
    BY <1>a, <1>3 DEF Holds
  <2>4. f[4] \in LoaderRegs /\ f[4].PC = s.PC /\ f[4].D5 = s.D5 /\ f[4].A0 >= s.A0
    BY <1>a, <1>4 DEF Holds
  <2>5. f[5] \in LoaderRegs /\ f[5].PC = s.PC /\ f[5].D5 = s.D5 /\ f[5].A0 >= s.A0
    BY <1>a, <1>5 DEF Holds
  <2>6. f[6] \in LoaderRegs /\ f[6].PC = s.PC /\ f[6].D5 = s.D5 /\ f[6].A0 >= s.A0
    BY <1>a, <1>6 DEF Holds
  <2>7. f[7] \in LoaderRegs /\ f[7].PC = s.PC /\ f[7].D5 = s.D5 /\ f[7].A0 >= s.A0
    BY <1>a, <1>7 DEF Holds
  <2>8. f[8] \in LoaderRegs /\ f[8].PC = s.PC /\ f[8].D5 = s.D5 /\ f[8].A0 >= s.A0
    BY <1>a, <1>8 DEF Holds
  <2>9. f[9] \in LoaderRegs /\ f[9].PC = s.PC /\ f[9].D5 = s.D5 /\ f[9].A0 >= s.A0
    BY <1>a, <1>9 DEF Holds
  <2>10. f[10] \in LoaderRegs /\ f[10].PC = s.PC /\ f[10].D5 = s.D5 /\ f[10].A0 >= s.A0
    BY <1>a, <1>10 DEF Holds
  <2>11. f[11] \in LoaderRegs /\ f[11].PC = s.PC /\ f[11].D5 = s.D5 /\ f[11].A0 >= s.A0
    BY <1>a, <1>11 DEF Holds
  <2>12. f[12] \in LoaderRegs /\ f[12].PC = s.PC /\ f[12].D5 = s.D5 /\ f[12].A0 >= s.A0
    BY <1>a, <1>12 DEF Holds
  <2>13. f[13] \in LoaderRegs /\ f[13].PC = s.PC /\ f[13].D5 = s.D5 /\ f[13].A0 >= s.A0
    BY <1>a, <1>13 DEF Holds
  <2>14. f[14] \in LoaderRegs /\ f[14].PC = s.PC /\ f[14].D5 = s.D5 /\ f[14].A0 >= s.A0
    BY <1>a, <1>14 DEF Holds
  <2>15. f[15] \in LoaderRegs /\ f[15].PC = s.PC /\ f[15].D5 = s.D5 /\ f[15].A0 >= s.A0
    BY <1>a, <1>15 DEF Holds
  <2>16. f[16] \in LoaderRegs /\ f[16].PC = s.PC /\ f[16].D5 = s.D5 /\ f[16].A0 >= s.A0
    BY <1>a, <1>16 DEF Holds
  <2>17. f[17] \in LoaderRegs /\ f[17].PC = s.PC /\ f[17].D5 = s.D5 /\ f[17].A0 >= s.A0
    BY <1>a, <1>17 DEF Holds
  <2>18. f[18] \in LoaderRegs /\ f[18].PC = s.PC /\ f[18].D5 = s.D5 /\ f[18].A0 >= s.A0
    BY <1>a, <1>18 DEF Holds
  <2>19. f[19] \in LoaderRegs /\ f[19].PC = s.PC /\ f[19].D5 = s.D5 /\ f[19].A0 >= s.A0
    BY <1>a, <1>19 DEF Holds
  <2>20. f[20] \in LoaderRegs /\ f[20].PC = s.PC /\ f[20].D5 = s.D5 /\ f[20].A0 >= s.A0
    BY <1>a, <1>20 DEF Holds
  <2>21. f[21] \in LoaderRegs /\ f[21].PC = s.PC /\ f[21].D5 = s.D5 /\ f[21].A0 >= s.A0
    BY <1>a, <1>21 DEF Holds
  <2>22. f[22] \in LoaderRegs /\ f[22].PC = s.PC /\ f[22].D5 = s.D5 /\ f[22].A0 >= s.A0
    BY <1>a, <1>22 DEF Holds
  <2>23. f[23] \in LoaderRegs /\ f[23].PC = s.PC /\ f[23].D5 = s.D5 /\ f[23].A0 >= s.A0
    BY <1>a, <1>23 DEF Holds
  <2>24. f[24] \in LoaderRegs /\ f[24].PC = s.PC /\ f[24].D5 = s.D5 /\ f[24].A0 >= s.A0
    BY <1>a, <1>24 DEF Holds
  <2>25. f[25] \in LoaderRegs /\ f[25].PC = s.PC /\ f[25].D5 = s.D5 /\ f[25].A0 >= s.A0
    BY <1>a, <1>25 DEF Holds
  <2>26. f[26] \in LoaderRegs /\ f[26].PC = s.PC /\ f[26].D5 = s.D5 /\ f[26].A0 >= s.A0
    BY <1>a, <1>26 DEF Holds
  <2>27. f[27] \in LoaderRegs /\ f[27].PC = s.PC /\ f[27].D5 = s.D5 /\ f[27].A0 >= s.A0
    BY <1>a, <1>27 DEF Holds
  <2>28. f[28] \in LoaderRegs /\ f[28].PC = s.PC /\ f[28].D5 = s.D5 /\ f[28].A0 >= s.A0
    BY <1>a, <1>28 DEF Holds
  <2>29. f[29] \in LoaderRegs /\ f[29].PC = s.PC /\ f[29].D5 = s.D5 /\ f[29].A0 >= s.A0
    BY <1>a, <1>29 DEF Holds
  <2>30. f[30] \in LoaderRegs /\ f[30].PC = s.PC /\ f[30].D5 = s.D5 /\ f[30].A0 >= s.A0
    BY <1>a, <1>30 DEF Holds
  <2> QED BY <2>0, <2>1, <2>2, <2>3, <2>4, <2>5, <2>6, <2>7, <2>8, <2>9, <2>10, <2>11, <2>12, <2>13, <2>14, <2>15, <2>16, <2>17, <2>18, <2>19, <2>20, <2>21, <2>22, <2>23, <2>24, <2>25, <2>26, <2>27, <2>28, <2>29, <2>30
<1> QED BY <1>l, <1>m, <1>y, <1>z, <1>29, <1>30, <1>all DEF RunFolds

(***************************************************************************)
(* fold_word gives the registers that the instructions give.               *)
(***************************************************************************)
LEMMA SameRegs ==
  ASSUME NEW a \in LoaderRegs, NEW b \in LoaderRegs,
         a.D0 = b.D0, a.D1 = b.D1, a.D2 = b.D2, a.D3 = b.D3, a.D4 = b.D4, a.D5 = b.D5,
         a.A0 = b.A0, a.SR = b.SR, a.PC = b.PC
  PROVE  a = b
BY DEF LoaderRegs

FoldLast(s, t) == IF parity(FoldP(t)) THEN Xor(FoldCrc(t), s.D5) ELSE FoldCrc(t)
FoldX(t) == IF 2 \in FoldP(t) THEN {"X"} ELSE {}
FoldSR(s, t) ==
  IF parity(FoldP(t)) THEN logical(FoldX(t), FoldLast(s, t), 32)
  ELSE FoldX(t) \cup {"Z"} \cup (IF 2 \in FoldP(t) THEN {"C"} ELSE {})

FoldedWord(s, t) ==
  [odd |-> parity(FoldP(t)),
   cpu |-> [s EXCEPT !.A0 = @ + 1, !.D0 = FoldP(t), !.D1 = FoldLast(s, t), !.D2 = {0, 1, 2, 4},
                     !.D4 = FoldD4(s, t), !.PC = 30, !.SR = FoldSR(s, t)]]

LEMMA FoldWordIs ==
  ASSUME NEW s, NEW word
  PROVE  fold_word(s, word) = FoldedWord(s, FoldT(s, word))
BY DEF FoldedWord, fold_word, FoldT, FoldHigh, FoldPair, FoldU, FoldCrc, FoldP, FoldLast, FoldX, FoldSR, FoldD4

\* The registers after the word, with the program counter behind it.
At30(k) == [k EXCEPT !.PC = 30]

FoldsAsRun(s, word, f) ==
  /\ fold_word(s, word).odd \in BOOLEAN
  /\ fold_word(s, word).odd <=> "Z" \notin f[29].SR
  /\ fold_word(s, word).odd => fold_word(s, word).cpu = At30(f[30])
  /\ ~fold_word(s, word).odd => fold_word(s, word).cpu = At30(f[29])

LEMMA FoldRuns ==
  ASSUME NEW s \in LoaderRegs, NEW word \in LoaderWords, NEW f, RunsFrom(s, word, f)
  PROVE  FoldsAsRun(s, word, f)
<1>1. PICK t : t = FoldT(s, word)
  OBVIOUS
<1>2. t \in LoaderWords
  <2>1. s.D1 \in LoaderWords
    BY DEF LoaderRegs
  <2>2. PICK l \in LoaderWords : l = Shl(s.D1, 8)
    BY <2>1, ShlBits
  <2> QED BY <1>1, <2>2, XorBits DEF FoldT
<1>3. RunFolds(s, word, t, f)
  BY <1>1, RunFold
<1>4. PICK c : c = [s EXCEPT !.A0 = @ + 1, !.D0 = FoldP(t), !.D1 = FoldLast(s, t), !.D2 = {0, 1, 2, 4},
                             !.D4 = FoldD4(s, t), !.PC = 30, !.SR = FoldSR(s, t)]
  OBVIOUS
<1>5. fold_word(s, word) = [odd |-> parity(FoldP(t)), cpu |-> c]
  BY <1>1, <1>4, FoldWordIs, Zenon DEF FoldedWord
<1>6. fold_word(s, word).odd = parity(FoldP(t)) /\ fold_word(s, word).cpu = c
  BY <1>5
<1>7. parity(FoldP(t)) \in BOOLEAN
  BY DEF parity
<1>8. /\ c.A0 = s.A0 + 1 /\ c.D0 = FoldP(t) /\ c.D1 = FoldLast(s, t) /\ c.D2 = {0, 1, 2, 4}
      /\ c.D3 = s.D3 /\ c.D4 = FoldD4(s, t) /\ c.D5 = s.D5 /\ c.PC = 30 /\ c.SR = FoldSR(s, t)
  BY <1>4 DEF LoaderRegs
<1>9. PICK k : k = f[29]
  OBVIOUS
<1>10. Holds(k, s, FoldP(t), FoldCrc(t), {0, 1, 2, 4}, FoldD4(s, t), s.A0 + 1) /\ k.SR = FoldFlags(t)
  BY <1>3, <1>9 DEF RunFolds
<1>11. PICK e : e = f[30]
  OBVIOUS
<1>12. /\ Holds(e, s, FoldP(t), Xor(FoldCrc(t), s.D5), {0, 1, 2, 4}, FoldD4(s, t), s.A0 + 1)
       /\ e.SR = logical(FoldFlags(t), Xor(FoldCrc(t), s.D5), 32)
  BY <1>3, <1>11 DEF RunFolds
<1>13. parity(FoldP(t)) <=> "Z" \notin k.SR
  BY <1>10 DEF FoldFlags
<1>14. At30(k) \in LoaderRegs /\ At30(e) \in LoaderRegs
  BY <1>10, <1>12 DEF Holds, At30, LoaderRegs
<1>15. DOMAIN c = DOMAIN s
  BY <1>4
<1>16. ASSUME NEW g \in LoaderRegs, Holds(g, s, c.D0, c.D1, c.D2, c.D4, c.A0), g.SR = c.SR PROVE c = At30(g)
  <2>1. PICK h \in LoaderRegs : h = At30(g)
    BY <1>16 DEF At30, LoaderRegs
  <2>2. /\ h.D0 = g.D0 /\ h.D1 = g.D1 /\ h.D2 = g.D2 /\ h.D3 = g.D3 /\ h.D4 = g.D4 /\ h.D5 = g.D5
        /\ h.A0 = g.A0 /\ h.SR = g.SR /\ h.PC = 30
    BY <2>1 DEF At30, LoaderRegs
  <2>3. /\ g.D0 = c.D0 /\ g.D1 = c.D1 /\ g.D2 = c.D2 /\ g.D3 = c.D3 /\ g.D4 = c.D4 /\ g.D5 = c.D5
        /\ g.A0 = c.A0
    BY <1>8, <1>16 DEF Holds
  <2>4. c \in LoaderRegs
    <3>1. /\ c.D0 \in LoaderWords /\ c.D1 \in LoaderWords /\ c.D2 \in LoaderWords /\ c.D4 \in LoaderWords
          /\ c.A0 \in Nat /\ c.SR \in SUBSET LoaderFlags /\ 30 \in Nat
      BY <1>16, <2>3 DEF LoaderRegs
    <3>2. c = [s EXCEPT !.A0 = c.A0, !.D0 = c.D0, !.D1 = c.D1, !.D2 = c.D2, !.D4 = c.D4, !.PC = 30, !.SR = c.SR]
      BY <1>4, <1>8
    <3> QED BY <3>1, <3>2 DEF LoaderRegs
  <2>5. /\ c.D0 = h.D0 /\ c.D1 = h.D1 /\ c.D2 = h.D2 /\ c.D3 = h.D3 /\ c.D4 = h.D4 /\ c.D5 = h.D5
        /\ c.A0 = h.A0 /\ c.SR = h.SR /\ c.PC = h.PC
    BY <1>8, <1>16, <2>2, <2>3
  <2>6. c = h
    BY <2>4, <2>5, SameRegs
  <2> QED BY <2>1, <2>6
<1>17. CASE parity(FoldP(t))
  <2>1. FoldLast(s, t) = Xor(FoldCrc(t), s.D5)
    BY <1>17 DEF FoldLast
  <2>2. FoldSR(s, t) = e.SR
    <3>1. FoldX(t) \ {"N", "Z", "V", "C"} = FoldFlags(t) \ {"N", "Z", "V", "C"}
      BY <1>17 DEF FoldX, FoldFlags
    <3> QED BY <1>12, <1>17, <2>1, <3>1 DEF FoldSR, logical
  <2>3. c = At30(e)
    BY <1>8, <1>12, <1>16, <2>1, <2>2 DEF Holds
  <2> QED BY <1>6, <1>7, <1>9, <1>11, <1>13, <1>17, <2>3 DEF FoldsAsRun
<1>18. CASE ~parity(FoldP(t))
  <2>1. FoldLast(s, t) = FoldCrc(t)
    BY <1>18 DEF FoldLast
  <2>2. FoldSR(s, t) = k.SR
    BY <1>10, <1>18 DEF FoldSR, FoldX, FoldFlags
  <2>3. c = At30(k)
    BY <1>8, <1>10, <1>16, <2>1, <2>2 DEF Holds
  <2> QED BY <1>6, <1>7, <1>9, <1>11, <1>13, <1>18, <2>3 DEF FoldsAsRun
<1> QED BY <1>17, <1>18

(***************************************************************************)
(* The checksum of the word folded is the polynomial's.                    *)
(***************************************************************************)
LEMMA FoldCrcTerms ==
  ASSUME NEW t \in LoaderWords, NEW i \in 0 .. 23
  PROVE  i \in FoldCrc(t) <=> Differ(i >= 1 /\ Terms(t, 32 - i), i >= 6 /\ Terms(t, 37 - i))
<1>1. PICK a \in Int : a = i - 1
  OBVIOUS
<1>2. PICK b \in Int : b = i - 6
  OBVIOUS
<1>3. PICK c \in Int : c = i + 12
  OBVIOUS
<1>4. PICK d \in Int : d = i + 17
  OBVIOUS
<1>5. PICK e \in Int : e = i + 22
  OBVIOUS
<1>6. Terms(t, 32 - i) <=> Differ(a \in t, Differ(i <= 14 /\ d \in t, i <= 9 /\ e \in t))
  <2>1. /\ 31 - (32 - i) = a /\ 49 - (32 - i) = d /\ 54 - (32 - i) = e
        /\ (32 - i >= 18 <=> i <= 14) /\ (32 - i >= 23 <=> i <= 9)
    BY <1>1, <1>4, <1>5
  <2> QED BY <2>1 DEF Terms
<1>7. Terms(t, 37 - i) <=> Differ(b \in t, Differ(i <= 19 /\ c \in t, i <= 14 /\ d \in t))
  <2>1. /\ 31 - (37 - i) = b /\ 49 - (37 - i) = c /\ 54 - (37 - i) = d
        /\ (37 - i >= 18 <=> i <= 19) /\ (37 - i >= 23 <=> i <= 14)
    BY <1>2, <1>3, <1>4
  <2> QED BY <2>1 DEF Terms
<1>8. b \in t => i >= 6
  BY <1>2 DEF LoaderWords
<1>9. i \in FoldCrc(t) <=>
        i >= 1 /\ Differ(Differ(a \in t, b \in t), Differ(i \in 6 .. 19 /\ c \in t, i <= 9 /\ Differ(e \in t, i <= 5 /\ d \in t)))
  <2>1. i - 1 < 28 /\ i \in 0 .. 31
    OBVIOUS
  <2>2. i \in FoldCrc(t) <=>
          i >= 1 /\ Differ(Differ(i - 1 \in t, i - 1 < 28 /\ i - 6 \in t),
                           Differ(i \in 6 .. 19 /\ i + 12 \in t,
                                  i <= 9 /\ Differ(i + 22 \in t, i <= 5 /\ i + 17 \in t)))
    BY <2>1, FoldCrcBits
  <2> QED BY <1>1, <1>2, <1>3, <1>4, <1>5, <2>1, <2>2 DEF Differ
<1> QED BY <1>6, <1>7, <1>8, <1>9 DEF Differ

LEMMA FoldsChecksum ==
  ASSUME NEW s \in LoaderRegs, NEW word \in LoaderWords, s.D5 = {0, 5, 23}
  PROVE  Low(fold_word(s, word).cpu.D1, 24) = bitwise(Low(s.D1, 24), word)
<1>1. PICK d1 \in LoaderWords : d1 = s.D1
  BY DEF LoaderRegs
<1>2. PICK crc \in LoaderWords : crc = Low(d1, 24) /\ \A b \in 0 .. 31 : b \in crc <=> b \in d1 /\ b < 24
  BY LowBits
<1>3. PICK l \in LoaderWords : l = Shl(d1, 8) /\ \A b \in 0 .. 31 : b \in l <=> b - 8 \in d1
  BY ShlBits
<1>4. PICK t \in LoaderWords : t = Xor(l, word) /\ \A b \in 0 .. 31 : b \in t <=> ~(b \in l <=> b \in word)
  BY XorBits
<1>5. t = FoldT(s, word)
  BY <1>1, <1>3, <1>4 DEF FoldT
<1>6. IsT(crc, word, t)
  <2>1. ASSUME NEW b \in 0 .. 31 PROVE b \in t <=> ~(b - 8 \in crc <=> b \in word)
    <3>1. b - 8 \in d1 <=> b - 8 \in crc
      BY <1>2 DEF LoaderWords
    <3> QED BY <1>3, <1>4, <3>1
  <2> QED BY <2>1 DEF IsT
<1>7. PICK c : c = bitwise(crc, word) /\ CrcBits(t, c)
  BY <1>6, BitwiseBits
<1>8. c \in LoaderWords /\ \A b \in c : b \in 0 .. 23
  BY <1>7 DEF CrcBits
<1>9. fold_word(s, word).cpu.D1 = FoldLast(s, t)
  <2>1. fold_word(s, word) = FoldedWord(s, t)
    BY <1>5, FoldWordIs
  <2>2. PICK y : y = FoldLast(s, t)
    OBVIOUS
  <2>3. PICK r : r = [s EXCEPT !.A0 = @ + 1, !.D0 = FoldP(t), !.D1 = y, !.D2 = {0, 1, 2, 4},
                               !.D4 = FoldD4(s, t), !.PC = 30, !.SR = FoldSR(s, t)]
    OBVIOUS
  <2>4. r.D1 = y
    BY <2>3 DEF LoaderRegs
  <2>5. fold_word(s, word) = [odd |-> parity(FoldP(t)), cpu |-> r]
    BY <2>1, <2>2, <2>3, Zenon DEF FoldedWord
  <2> QED BY <2>2, <2>4, <2>5
<1>10. PICK k \in LoaderWords : k = s.D5 /\ k = {0, 5, 23}
  BY DEF LoaderRegs
<1>11. PICK z \in LoaderWords : z = FoldCrc(t)
  BY FoldCrcBits
<1>12. PICK x \in LoaderWords : x = Xor(z, k) /\ \A b \in 0 .. 31 : b \in x <=> ~(b \in z <=> b \in k)
  BY XorBits
<1>13. PICK odd \in BOOLEAN : odd = parity(t \ (18 .. 22)) /\ odd = parity(FoldP(t))
  <2>1. parity(FoldP(t)) \in BOOLEAN /\ parity(t \ (18 .. 22)) \in BOOLEAN
    BY DEF parity
  <2> QED BY <2>1, FoldParity
<1>14. PICK y \in LoaderWords : y = FoldLast(s, t) /\ y = IF odd THEN x ELSE z
  BY <1>10, <1>11, <1>12, <1>13 DEF FoldLast
<1>15. PICK v \in LoaderWords : v = Low(y, 24) /\ \A b \in 0 .. 31 : b \in v <=> b \in y /\ b < 24
  BY LowBits
<1>16. ASSUME NEW b \in 0 .. 31 PROVE b \in v <=> b \in c
  <2>1. CASE b >= 24
    BY <1>8, <1>15, <2>1
  <2>2. CASE b < 24
    <3>1. b \in 0 .. 23
      BY <2>2
    <3>2. CrcBit(t, c, b)
      BY <1>7, <3>1 DEF CrcBits
    <3>3. b \in c <=> Differ(b >= 1 /\ Terms(t, 32 - b), Differ(b >= 6 /\ Terms(t, 37 - b), b \in k /\ odd))
      BY <1>10, <1>13, <3>2 DEF CrcBit
    <3>4. b \in z <=> Differ(b >= 1 /\ Terms(t, 32 - b), b >= 6 /\ Terms(t, 37 - b))
      BY <1>11, <3>1, FoldCrcTerms
    <3>5. b \in v <=> Differ(b \in z, b \in k /\ odd)
      BY <1>12, <1>14, <1>15, <2>2 DEF Differ
    <3> QED BY <3>3, <3>4, <3>5 DEF Differ
  <2> QED BY <2>1, <2>2
<1>17. v = c
  BY <1>8, <1>16, SameBits
<1> QED BY <1>1, <1>2, <1>7, <1>9, <1>14, <1>15, <1>17

(***************************************************************************)
(* An instruction neither reads nor writes the program counter.            *)
(***************************************************************************)
AtPC(k, x) == [k EXCEPT !.PC = x]

LEMMA AtPCRegs ==
  ASSUME NEW k \in LoaderRegs, NEW x \in Nat
  PROVE  /\ AtPC(k, x) \in LoaderRegs /\ AtPC(k, x).PC = x
         /\ AtPC(k, x).D0 = k.D0 /\ AtPC(k, x).D1 = k.D1 /\ AtPC(k, x).D2 = k.D2 /\ AtPC(k, x).D3 = k.D3
         /\ AtPC(k, x).D4 = k.D4 /\ AtPC(k, x).D5 = k.D5 /\ AtPC(k, x).A0 = k.A0 /\ AtPC(k, x).SR = k.SR
BY DEF AtPC, LoaderRegs

LEMMA AtPCWrites ==
  ASSUME NEW k \in LoaderRegs, NEW x \in Nat, NEW v, NEW flags
  PROVE  /\ Writes(AtPC(k, x), "D0", v, flags) = AtPC(Writes(k, "D0", v, flags), x)
         /\ Writes(AtPC(k, x), "D1", v, flags) = AtPC(Writes(k, "D1", v, flags), x)
         /\ Writes(AtPC(k, x), "D2", v, flags) = AtPC(Writes(k, "D2", v, flags), x)
         /\ Writes(AtPC(k, x), "D4", v, flags) = AtPC(Writes(k, "D4", v, flags), x)
<1>1. [[k EXCEPT !.PC = x] EXCEPT !.D0 = v, !.SR = flags] = [[k EXCEPT !.D0 = v, !.SR = flags] EXCEPT !.PC = x]
  BY DEF LoaderRegs
<1>2. [[k EXCEPT !.PC = x] EXCEPT !.D1 = v, !.SR = flags] = [[k EXCEPT !.D1 = v, !.SR = flags] EXCEPT !.PC = x]
  BY DEF LoaderRegs
<1>3. [[k EXCEPT !.PC = x] EXCEPT !.D2 = v, !.SR = flags] = [[k EXCEPT !.D2 = v, !.SR = flags] EXCEPT !.PC = x]
  BY DEF LoaderRegs
<1>4. [[k EXCEPT !.PC = x] EXCEPT !.D4 = v, !.SR = flags] = [[k EXCEPT !.D4 = v, !.SR = flags] EXCEPT !.PC = x]
  BY DEF LoaderRegs
<1> QED BY <1>1, <1>2, <1>3, <1>4, Zenon DEF Writes, AtPC

LEMMA InstructionAtPC ==
  ASSUME NEW k \in LoaderRegs, NEW x \in Nat, NEW word, NEW i \in 0 .. 29
  PROVE  Instruction(i, AtPC(k, x), word) = AtPC(Instruction(i, k, word), x)
<1>a. PICK q \in LoaderRegs : q = AtPC(k, x)
  BY AtPCRegs
<1>b. /\ q.PC = x /\ q.D0 = k.D0 /\ q.D1 = k.D1 /\ q.D2 = k.D2 /\ q.D3 = k.D3
      /\ q.D4 = k.D4 /\ q.D5 = k.D5 /\ q.A0 = k.A0 /\ q.SR = k.SR
  BY <1>a, AtPCRegs
<1>gD0. \A v, bits : Gets(q, "D0", v, bits) = AtPC(Gets(k, "D0", v, bits), x)
  <2>1. ASSUME NEW v, NEW bits PROVE Gets(q, "D0", v, bits) = AtPC(Gets(k, "D0", v, bits), x)
    <3>1. PICK flags : flags = logical(k.SR, v, bits)
      OBVIOUS
    <3>2. Gets(k, "D0", v, bits) = Writes(k, "D0", v, flags) /\ Gets(q, "D0", v, bits) = Writes(q, "D0", v, flags)
      BY <1>b, <3>1 DEF Gets, Writes
    <3> QED BY <1>a, <3>2, AtPCWrites
  <2> QED BY <2>1
<1>gD1. \A v, bits : Gets(q, "D1", v, bits) = AtPC(Gets(k, "D1", v, bits), x)
  <2>1. ASSUME NEW v, NEW bits PROVE Gets(q, "D1", v, bits) = AtPC(Gets(k, "D1", v, bits), x)
    <3>1. PICK flags : flags = logical(k.SR, v, bits)
      OBVIOUS
    <3>2. Gets(k, "D1", v, bits) = Writes(k, "D1", v, flags) /\ Gets(q, "D1", v, bits) = Writes(q, "D1", v, flags)
      BY <1>b, <3>1 DEF Gets, Writes
    <3> QED BY <1>a, <3>2, AtPCWrites
  <2> QED BY <2>1
<1>gD2. \A v, bits : Gets(q, "D2", v, bits) = AtPC(Gets(k, "D2", v, bits), x)
  <2>1. ASSUME NEW v, NEW bits PROVE Gets(q, "D2", v, bits) = AtPC(Gets(k, "D2", v, bits), x)
    <3>1. PICK flags : flags = logical(k.SR, v, bits)
      OBVIOUS
    <3>2. Gets(k, "D2", v, bits) = Writes(k, "D2", v, flags) /\ Gets(q, "D2", v, bits) = Writes(q, "D2", v, flags)
      BY <1>b, <3>1 DEF Gets, Writes
    <3> QED BY <1>a, <3>2, AtPCWrites
  <2> QED BY <2>1
<1>gD4. \A v, bits : Gets(q, "D4", v, bits) = AtPC(Gets(k, "D4", v, bits), x)
  <2>1. ASSUME NEW v, NEW bits PROVE Gets(q, "D4", v, bits) = AtPC(Gets(k, "D4", v, bits), x)
    <3>1. PICK flags : flags = logical(k.SR, v, bits)
      OBVIOUS
    <3>2. Gets(k, "D4", v, bits) = Writes(k, "D4", v, flags) /\ Gets(q, "D4", v, bits) = Writes(q, "D4", v, flags)
      BY <1>b, <3>1 DEF Gets, Writes
    <3> QED BY <1>a, <3>2, AtPCWrites
  <2> QED BY <2>1
<1>lD0. \A n : LeftBy(q, "D0", n) = AtPC(LeftBy(k, "D0", n), x)
  <2>1. ASSUME NEW n PROVE LeftBy(q, "D0", n) = AtPC(LeftBy(k, "D0", n), x)
    <3>1. PICK v : v = Shl(k.D0, n)
      OBVIOUS
    <3>2. PICK flags : flags = Shifted(k.SR, v, 32, 32 - n \in k.D0)
      OBVIOUS
    <3>3. LeftBy(k, "D0", n) = Writes(k, "D0", v, flags) /\ LeftBy(q, "D0", n) = Writes(q, "D0", v, flags)
      BY <1>b, <3>1, <3>2 DEF LeftBy, Writes
    <3> QED BY <1>a, <3>3, AtPCWrites
  <2> QED BY <2>1
<1>lD1. \A n : LeftBy(q, "D1", n) = AtPC(LeftBy(k, "D1", n), x)
  <2>1. ASSUME NEW n PROVE LeftBy(q, "D1", n) = AtPC(LeftBy(k, "D1", n), x)
    <3>1. PICK v : v = Shl(k.D1, n)
      OBVIOUS
    <3>2. PICK flags : flags = Shifted(k.SR, v, 32, 32 - n \in k.D1)
      OBVIOUS
    <3>3. LeftBy(k, "D1", n) = Writes(k, "D1", v, flags) /\ LeftBy(q, "D1", n) = Writes(q, "D1", v, flags)
      BY <1>b, <3>1, <3>2 DEF LeftBy, Writes
    <3> QED BY <1>a, <3>3, AtPCWrites
  <2> QED BY <2>1
<1>lD2. \A n : LeftBy(q, "D2", n) = AtPC(LeftBy(k, "D2", n), x)
  <2>1. ASSUME NEW n PROVE LeftBy(q, "D2", n) = AtPC(LeftBy(k, "D2", n), x)
    <3>1. PICK v : v = Shl(k.D2, n)
      OBVIOUS
    <3>2. PICK flags : flags = Shifted(k.SR, v, 32, 32 - n \in k.D2)
      OBVIOUS
    <3>3. LeftBy(k, "D2", n) = Writes(k, "D2", v, flags) /\ LeftBy(q, "D2", n) = Writes(q, "D2", v, flags)
      BY <1>b, <3>1, <3>2 DEF LeftBy, Writes
    <3> QED BY <1>a, <3>3, AtPCWrites
  <2> QED BY <2>1
<1>rD0. \A n, bits : RightBy(q, "D0", n, bits) = AtPC(RightBy(k, "D0", n, bits), x)
  <2>1. ASSUME NEW n, NEW bits PROVE RightBy(q, "D0", n, bits) = AtPC(RightBy(k, "D0", n, bits), x)
    <3>1. PICK v : v = Shr(Low(k.D0, bits), n)
      OBVIOUS
    <3>2. PICK flags : flags = Shifted(k.SR, v, bits, n - 1 \in k.D0)
      OBVIOUS
    <3>3. PICK w : w = LowPart(k.D0, v, bits)
      OBVIOUS
    <3>4. RightBy(k, "D0", n, bits) = Writes(k, "D0", w, flags) /\ RightBy(q, "D0", n, bits) = Writes(q, "D0", w, flags)
      BY <1>b, <3>1, <3>2, <3>3 DEF RightBy, Writes
    <3> QED BY <1>a, <3>4, AtPCWrites
  <2> QED BY <2>1
<1>rD4. \A n, bits : RightBy(q, "D4", n, bits) = AtPC(RightBy(k, "D4", n, bits), x)
  <2>1. ASSUME NEW n, NEW bits PROVE RightBy(q, "D4", n, bits) = AtPC(RightBy(k, "D4", n, bits), x)
    <3>1. PICK v : v = Shr(Low(k.D4, bits), n)
      OBVIOUS
    <3>2. PICK flags : flags = Shifted(k.SR, v, bits, n - 1 \in k.D4)
      OBVIOUS
    <3>3. PICK w : w = LowPart(k.D4, v, bits)
      OBVIOUS
    <3>4. RightBy(k, "D4", n, bits) = Writes(k, "D4", w, flags) /\ RightBy(q, "D4", n, bits) = Writes(q, "D4", w, flags)
      BY <1>b, <3>1, <3>2, <3>3 DEF RightBy, Writes
    <3> QED BY <1>a, <3>4, AtPCWrites
  <2> QED BY <2>1
<1>0. Instruction(0, q, word) = AtPC(Instruction(0, k, word), x)
  <2>1. Instruction(0, k, word) = LeftBy(k, "D1", 8)
    BY DEF Instruction
  <2>2. Instruction(0, q, word) = LeftBy(q, "D1", 8)
    BY DEF Instruction
  <2> QED BY <1>b, <1>lD1, <2>1, <2>2
<1>1. Instruction(1, q, word) = AtPC(Instruction(1, k, word), x)
  <2>1. Instruction(1, k, word) = [Gets(k, "D0", word, 32) EXCEPT !.A0 = @ + 1]
    BY DEF Instruction
  <2>2. Instruction(1, q, word) = [Gets(q, "D0", word, 32) EXCEPT !.A0 = @ + 1]
    BY DEF Instruction
  <2>3. PICK g : g = Gets(k, "D0", word, 32)
    OBVIOUS
  <2>5. Gets(q, "D0", word, 32) = AtPC(g, x)
    BY <1>gD0, <2>3
  <2>6. DOMAIN g = DOMAIN k
    BY <2>3 DEF Gets
  <2>4. [AtPC(g, x) EXCEPT !.A0 = @ + 1] = AtPC([g EXCEPT !.A0 = @ + 1], x)
    BY <2>6 DEF AtPC, LoaderRegs
  <2> QED BY <2>1, <2>2, <2>3, <2>4, <2>5, Zenon
<1>2. Instruction(2, q, word) = AtPC(Instruction(2, k, word), x)
  <2>1. Instruction(2, k, word) = Gets(k, "D1", Xor(k.D1, k.D0), 32)
    BY DEF Instruction
  <2>2. Instruction(2, q, word) = Gets(q, "D1", Xor(q.D1, q.D0), 32)
    BY DEF Instruction
  <2> QED BY <1>b, <1>gD1, <2>1, <2>2
<1>3. Instruction(3, q, word) = AtPC(Instruction(3, k, word), x)
  <2>1. Instruction(3, k, word) = Gets(k, "D2", k.D1, 32)
    BY DEF Instruction
  <2>2. Instruction(3, q, word) = Gets(q, "D2", q.D1, 32)
    BY DEF Instruction
  <2> QED BY <1>b, <1>gD2, <2>1, <2>2
<1>4. Instruction(4, q, word) = AtPC(Instruction(4, k, word), x)
  <2>1. Instruction(4, k, word) = Gets(k, "D4", LowPart(k.D4, k.D1, 16), 16)
    BY DEF Instruction
  <2>2. Instruction(4, q, word) = Gets(q, "D4", LowPart(q.D4, q.D1, 16), 16)
    BY DEF Instruction
  <2> QED BY <1>b, <1>gD4, <2>1, <2>2
<1>5. Instruction(5, q, word) = AtPC(Instruction(5, k, word), x)
  <2>1. Instruction(5, k, word) = [k EXCEPT !.D2 = @ \cap (16 .. 31), !.SR = (@ \ {"N", "V", "C"}) \cup {"Z"}]
    BY DEF Instruction
  <2>2. Instruction(5, q, word) = [q EXCEPT !.D2 = @ \cap (16 .. 31), !.SR = (@ \ {"N", "V", "C"}) \cup {"Z"}]
    BY DEF Instruction
  <2>3. PICK v : v = k.D2 \cap (16 .. 31)
    OBVIOUS
  <2>4. PICK flags : flags = (k.SR \ {"N", "V", "C"}) \cup {"Z"}
    OBVIOUS
  <2>5. Instruction(5, k, word) = Writes(k, "D2", v, flags) /\ Instruction(5, q, word) = Writes(q, "D2", v, flags)
    BY <1>b, <2>1, <2>2, <2>3, <2>4 DEF Writes
  <2> QED BY <1>a, <2>5, AtPCWrites
<1>6. Instruction(6, q, word) = AtPC(Instruction(6, k, word), x)
  <2>1. Instruction(6, k, word) = Gets(k, "D2", Shr(k.D2, 16) \cup Shl(k.D2, 16), 32)
    BY DEF Instruction
  <2>2. Instruction(6, q, word) = Gets(q, "D2", Shr(q.D2, 16) \cup Shl(q.D2, 16), 32)
    BY DEF Instruction
  <2> QED BY <1>b, <1>gD2, <2>1, <2>2
<1>7. Instruction(7, q, word) = AtPC(Instruction(7, k, word), x)
  <2>1. Instruction(7, k, word) = Gets(k, "D0", {0, 1} \cup (7 .. 31), 32)
    BY DEF Instruction
  <2>2. Instruction(7, q, word) = Gets(q, "D0", {0, 1} \cup (7 .. 31), 32)
    BY DEF Instruction
  <2> QED BY <1>b, <1>gD0, <2>1, <2>2
<1>8. Instruction(8, q, word) = AtPC(Instruction(8, k, word), x)
  <2>1. Instruction(8, k, word) = Gets(k, "D0", LowPart(k.D0, k.D0 \cap k.D2, 16), 16)
    BY DEF Instruction
  <2>2. Instruction(8, q, word) = Gets(q, "D0", LowPart(q.D0, q.D0 \cap q.D2, 16), 16)
    BY DEF Instruction
  <2> QED BY <1>b, <1>gD0, <2>1, <2>2
<1>9. Instruction(9, q, word) = AtPC(Instruction(9, k, word), x)
  <2>1. Instruction(9, k, word) = Gets(k, "D4", Xor(k.D4, Low(k.D0, 16)), 16)
    BY DEF Instruction
  <2>2. Instruction(9, q, word) = Gets(q, "D4", Xor(q.D4, Low(q.D0, 16)), 16)
    BY DEF Instruction
  <2> QED BY <1>b, <1>gD4, <2>1, <2>2
<1>10. Instruction(10, q, word) = AtPC(Instruction(10, k, word), x)
  <2>1. Instruction(10, k, word) = Gets(k, "D0", 0 .. 22, 32)
    BY DEF Instruction
  <2>2. Instruction(10, q, word) = Gets(q, "D0", 0 .. 22, 32)
    BY DEF Instruction
  <2> QED BY <1>b, <1>gD0, <2>1, <2>2
<1>11. Instruction(11, q, word) = AtPC(Instruction(11, k, word), x)
  <2>1. Instruction(11, k, word) = Gets(k, "D0", k.D0 \cap k.D1, 32)
    BY DEF Instruction
  <2>2. Instruction(11, q, word) = Gets(q, "D0", q.D0 \cap q.D1, 32)
    BY DEF Instruction
  <2> QED BY <1>b, <1>gD0, <2>1, <2>2
<1>12. Instruction(12, q, word) = AtPC(Instruction(12, k, word), x)
  <2>1. Instruction(12, k, word) = LeftBy(k, "D0", 5)
    BY DEF Instruction
  <2>2. Instruction(12, q, word) = LeftBy(q, "D0", 5)
    BY DEF Instruction
  <2> QED BY <1>b, <1>lD0, <2>1, <2>2
<1>13. Instruction(13, q, word) = AtPC(Instruction(13, k, word), x)
  <2>1. Instruction(13, k, word) = Gets(k, "D1", Xor(k.D1, k.D0), 32)
    BY DEF Instruction
  <2>2. Instruction(13, q, word) = Gets(q, "D1", Xor(q.D1, q.D0), 32)
    BY DEF Instruction
  <2> QED BY <1>b, <1>gD1, <2>1, <2>2
<1>14. Instruction(14, q, word) = AtPC(Instruction(14, k, word), x)
  <2>1. Instruction(14, k, word) = Gets(k, "D0", k.D1, 32)
    BY DEF Instruction
  <2>2. Instruction(14, q, word) = Gets(q, "D0", q.D1, 32)
    BY DEF Instruction
  <2> QED BY <1>b, <1>gD0, <2>1, <2>2
<1>15. Instruction(15, q, word) = AtPC(Instruction(15, k, word), x)
  <2>1. Instruction(15, k, word) = Gets(k, "D2", LowPart(k.D2, k.D2 \ {0, 1}, 16), 16)
    BY DEF Instruction
  <2>2. Instruction(15, q, word) = Gets(q, "D2", LowPart(q.D2, q.D2 \ {0, 1}, 16), 16)
    BY DEF Instruction
  <2> QED BY <1>b, <1>gD2, <2>1, <2>2
<1>16. Instruction(16, q, word) = AtPC(Instruction(16, k, word), x)
  <2>1. Instruction(16, k, word) = LeftBy(k, "D2", 3)
    BY DEF Instruction
  <2>2. Instruction(16, q, word) = LeftBy(q, "D2", 3)
    BY DEF Instruction
  <2> QED BY <1>b, <1>lD2, <2>1, <2>2
<1>17. Instruction(17, q, word) = AtPC(Instruction(17, k, word), x)
  <2>1. Instruction(17, k, word) = Gets(k, "D1", Xor(k.D1, k.D2), 32)
    BY DEF Instruction
  <2>2. Instruction(17, q, word) = Gets(q, "D1", Xor(q.D1, q.D2), 32)
    BY DEF Instruction
  <2> QED BY <1>b, <1>gD1, <2>1, <2>2
<1>18. Instruction(18, q, word) = AtPC(Instruction(18, k, word), x)
  <2>1. Instruction(18, k, word) = Gets(k, "D2", {0, 1, 2, 4}, 32)
    BY DEF Instruction
  <2>2. Instruction(18, q, word) = Gets(q, "D2", {0, 1, 2, 4}, 32)
    BY DEF Instruction
  <2> QED BY <1>b, <1>gD2, <2>1, <2>2
<1>19. Instruction(19, q, word) = AtPC(Instruction(19, k, word), x)
  <2>1. Instruction(19, k, word) = RightBy(k, "D0", 23, 32)
    BY DEF Instruction
  <2>2. Instruction(19, q, word) = RightBy(q, "D0", 23, 32)
    BY DEF Instruction
  <2> QED BY <1>b, <1>rD0, <2>1, <2>2
<1>20. Instruction(20, q, word) = AtPC(Instruction(20, k, word), x)
  <2>1. Instruction(20, k, word) = Gets(k, "D1", Xor(k.D1, k.D0), 32)
    BY DEF Instruction
  <2>2. Instruction(20, q, word) = Gets(q, "D1", Xor(q.D1, q.D0), 32)
    BY DEF Instruction
  <2> QED BY <1>b, <1>gD1, <2>1, <2>2
<1>21. Instruction(21, q, word) = AtPC(Instruction(21, k, word), x)
  <2>1. Instruction(21, k, word) = Doubled(k)
    BY DEF Instruction
  <2>2. Instruction(21, q, word) = Doubled(q)
    BY DEF Instruction
  <2>3. PICK v : v = Shl(k.D1, 1)
    OBVIOUS
  <2>4. PICK flags : flags = Shifted(k.SR, v, 32, 31 \in k.D1)
                             \cup (IF (31 \in k.D1) # (30 \in k.D1) THEN {"V"} ELSE {})
    OBVIOUS
  <2>5. Doubled(k) = Writes(k, "D1", v, flags) /\ Doubled(q) = Writes(q, "D1", v, flags)
    BY <1>b, <2>3, <2>4 DEF Doubled, Writes
  <2> QED BY <1>a, <2>1, <2>2, <2>5, AtPCWrites
<1>22. Instruction(22, q, word) = AtPC(Instruction(22, k, word), x)
  <2>1. Instruction(22, k, word) = Gets(k, "D0", LowPart(k.D0, k.D4, 16), 16)
    BY DEF Instruction
  <2>2. Instruction(22, q, word) = Gets(q, "D0", LowPart(q.D0, q.D4, 16), 16)
    BY DEF Instruction
  <2> QED BY <1>b, <1>gD0, <2>1, <2>2
<1>23. Instruction(23, q, word) = AtPC(Instruction(23, k, word), x)
  <2>1. Instruction(23, k, word) = RightBy(k, "D0", 8, 16)
    BY DEF Instruction
  <2>2. Instruction(23, q, word) = RightBy(q, "D0", 8, 16)
    BY DEF Instruction
  <2> QED BY <1>b, <1>rD0, <2>1, <2>2
<1>24. Instruction(24, q, word) = AtPC(Instruction(24, k, word), x)
  <2>1. Instruction(24, k, word) = Gets(k, "D0", Xor(k.D0, Low(k.D4, 8)), 8)
    BY DEF Instruction
  <2>2. Instruction(24, q, word) = Gets(q, "D0", Xor(q.D0, Low(q.D4, 8)), 8)
    BY DEF Instruction
  <2> QED BY <1>b, <1>gD0, <2>1, <2>2
<1>25. Instruction(25, q, word) = AtPC(Instruction(25, k, word), x)
  <2>1. Instruction(25, k, word) = Gets(k, "D4", LowPart(k.D4, k.D0, 16), 16)
    BY DEF Instruction
  <2>2. Instruction(25, q, word) = Gets(q, "D4", LowPart(q.D4, q.D0, 16), 16)
    BY DEF Instruction
  <2> QED BY <1>b, <1>gD4, <2>1, <2>2
<1>26. Instruction(26, q, word) = AtPC(Instruction(26, k, word), x)
  <2>1. Instruction(26, k, word) = RightBy(k, "D4", 3, 8)
    BY DEF Instruction
  <2>2. Instruction(26, q, word) = RightBy(q, "D4", 3, 8)
    BY DEF Instruction
  <2> QED BY <1>b, <1>rD4, <2>1, <2>2
<1>27. Instruction(27, q, word) = AtPC(Instruction(27, k, word), x)
  <2>1. Instruction(27, k, word) = [k EXCEPT !.SR = (@ \ {"Z"}) \cup (IF parity(Entry(k.D4, k.D0)) THEN {} ELSE {"Z"})]
    BY DEF Instruction
  <2>2. Instruction(27, q, word) = [q EXCEPT !.SR = (@ \ {"Z"}) \cup (IF parity(Entry(q.D4, q.D0)) THEN {} ELSE {"Z"})]
    BY DEF Instruction
  <2>3. PICK flags : flags = (k.SR \ {"Z"}) \cup (IF parity(Entry(k.D4, k.D0)) THEN {} ELSE {"Z"})
    OBVIOUS
  <2>4. Instruction(27, k, word) = [k EXCEPT !.SR = flags] /\ Instruction(27, q, word) = [q EXCEPT !.SR = flags]
    BY <1>b, <2>1, <2>2, <2>3
  <2>5. [[k EXCEPT !.PC = x] EXCEPT !.SR = flags] = [[k EXCEPT !.SR = flags] EXCEPT !.PC = x]
    BY DEF LoaderRegs
  <2> QED BY <1>a, <2>4, <2>5, Zenon DEF AtPC
<1>28. Instruction(28, q, word) = AtPC(Instruction(28, k, word), x)
  <2>1. Instruction(28, k, word) = k
    BY DEF Instruction
  <2>2. Instruction(28, q, word) = q
    BY DEF Instruction
  <2> QED BY <1>a, <2>1, <2>2
<1>29. Instruction(29, q, word) = AtPC(Instruction(29, k, word), x)
  <2>1. Instruction(29, k, word) = Gets(k, "D1", Xor(k.D1, k.D5), 32)
    BY DEF Instruction
  <2>2. Instruction(29, q, word) = Gets(q, "D1", Xor(q.D1, q.D5), 32)
    BY DEF Instruction
  <2> QED BY <1>b, <1>gD1, <2>1, <2>2
<1> QED BY <1>a, <1>0, <1>1, <1>2, <1>3, <1>4, <1>5, <1>6, <1>7, <1>8, <1>9, <1>10, <1>11, <1>12, <1>13, <1>14, <1>15, <1>16, <1>17, <1>18, <1>19, <1>20, <1>21, <1>22, <1>23, <1>24, <1>25, <1>26, <1>27, <1>28, <1>29

(***************************************************************************)
(* The span.  In flight, the firmware has run the instructions counted so  *)
(* far from the registers the word began with.                             *)
(***************************************************************************)
RegsRight(r, sum) ==
  /\ r \in LoaderRegs /\ r.D5 = {0, 5, 23} /\ r.A0 >= 1
  /\ r.PC \notin 1 .. 29 => Low(r.D1, 24) = sum

Flights == [before : LoaderRegs, completed : 0 .. 30, pc : 0 .. 30, word : LoaderWords, active : {TRUE}]

\* The word has been read, and folded at once.
ReadAndFolded(r, f, fo) == f.word = SpanWords[r.A0] /\ fo = fold_word(r, f.word)

NextRight(r, f, fo, fw) ==
  /\ f \in Flights /\ f.before = r
  /\ f.pc >= 2 => ReadAndFolded(r, f, fo)
  /\ f.pc = 30 => fo.odd
  /\ fw = AtPC(Ran(r, f.word)[f.pc], IF f.pc = 29 /\ ~fo.odd THEN 30 ELSE f.pc)

AccountRight(r, f, fo, fw) ==
  /\ f \in Flights /\ f.before = r /\ f.pc <= 29 /\ f.completed = CompletedAt(f.pc)
  /\ f.pc >= 1 => ReadAndFolded(r, f, fo)
  /\ f.pc = 29 => fo.odd
  /\ fw = AtPC(Ran(r, f.word)[f.completed], f.pc)

SpanStages == {"entry", "word", "loop", "yielded", "done", "firmware", "left"}

LoaderInv ==
  /\ RegsRight(regs, checksum)
  /\ stage \in SpanStages \cup {"next", "account"}
  /\ stage \in SpanStages => flight = NoFlight /\ firmware = regs
  /\ stage \in {"entry", "word", "next", "account"} => regs.PC = 0
  /\ stage \in {"word", "next", "account"} => regs.A0 + regs.D3 <= Len(SpanWords)
  /\ stage \in {"yielded", "done"} => regs.PC = 30
  /\ stage = "loop" => /\ regs.PC \in 30 .. 32 /\ regs.D3 > 0
                       /\ regs.A0 + regs.D3 <= Len(SpanWords) + 1
  /\ stage = "next" => NextRight(regs, flight, folded, firmware)
  /\ stage = "account" => AccountRight(regs, flight, folded, firmware)

LEMMA LoaderWordRead ==
  ASSUME NEW n \in Nat, 1 <= n, n <= Len(SpanWords)
  PROVE  SpanWords[n] \in LoaderWords
<1>1. PICK S : S = SUBSET (0 .. 31)
  OBVIOUS
<1>2. SpanWords \in Seq(S)
  BY <1>1, LoaderAssumption
<1>3. SpanWords[n] \in S
  BY <1>2
<1> QED BY <1>1, <1>3 DEF LoaderWords

\* The runs of a word, and the first instruction, which reads nothing.
LEMMA RanFacts ==
  ASSUME NEW r \in LoaderRegs, NEW word \in LoaderWords
  PROVE  /\ \A n \in 0 .. 30 : Ran(r, word)[n] \in LoaderRegs /\ Ran(r, word)[n].PC = r.PC
         /\ Ran(r, word)[0] = r /\ Ran(r, word)[1] = LeftBy(r, "D1", 8)
         /\ \A n \in 0 .. 29 : Ran(r, word)[n + 1] = Instruction(n, Ran(r, word)[n], word)
         /\ FoldsAsRun(r, word, Ran(r, word))
<1>1. PICK f : f = Ran(r, word) /\ RunsFrom(r, word, f)
  BY RanRuns
<1>2. PICK t : t = FoldT(r, word)
  OBVIOUS
<1>3. RunFolds(r, word, t, f)
  BY <1>1, <1>2, RunFold
<1>4. \A n \in 0 .. 30 : f[n] \in LoaderRegs /\ f[n].PC = r.PC
  BY <1>3 DEF RunFolds
<1>5. f[0] = r /\ \A n \in 0 .. 29 : f[n + 1] = Instruction(n, f[n], word)
  BY <1>1 DEF RunsFrom
<1>6. f[1] = LeftBy(r, "D1", 8)
  <2>1. f[1] = Instruction(0, r, word)
    BY <1>5
  <2> QED BY <2>1 DEF Instruction
<1>7. FoldsAsRun(r, word, f)
  BY <1>1, FoldRuns
<1> QED BY <1>1, <1>4, <1>5, <1>6, <1>7

\* A further instruction of the firmware.
LEMMA RanOn ==
  ASSUME NEW r \in LoaderRegs, NEW word \in LoaderWords, NEW n \in 0 .. 29, NEW x \in Nat
  PROVE  Instruction(n, AtPC(Ran(r, word)[n], x), word) = AtPC(Ran(r, word)[n + 1], x)
<1>1. PICK k \in LoaderRegs : k = Ran(r, word)[n]
  BY RanFacts
<1>2. Ran(r, word)[n + 1] = Instruction(n, k, word)
  BY <1>1, RanFacts
<1> QED BY <1>1, <1>2, InstructionAtPC

LEMMA RanAtPC ==
  ASSUME NEW r \in LoaderRegs, NEW word \in LoaderWords, NEW n \in 0 .. 30, NEW x \in Nat, NEW y \in Nat
  PROVE  AtPC(AtPC(Ran(r, word)[n], x), y) = AtPC(Ran(r, word)[n], y)
<1>1. PICK k \in LoaderRegs : k = Ran(r, word)[n]
  BY RanFacts
<1>2. AtPC(AtPC(k, x), y) = AtPC(k, y)
  BY DEF AtPC, LoaderRegs
<1> QED BY <1>1, <1>2

LEMMA LoaderStarts == LoaderInit => LoaderInv
<1> SUFFICES ASSUME LoaderInit PROVE LoaderInv
  OBVIOUS
<1>1. PICK d1 \in CrcStarts, old \in OldWords, d3 \in CountStarts :
         regs = [D0 |-> old, D1 |-> d1, D2 |-> old, D3 |-> d3, D4 |-> old, D5 |-> {0, 5, 23},
                 A0 |-> 1, SR |-> {}, PC |-> 0]
  BY DEF LoaderInit
<1>2. d1 \in LoaderWords /\ old \in LoaderWords /\ d3 \in Nat
  BY LoaderAssumption DEF LoaderWords
<1>3. PICK k \in LoaderWords : k = {0, 5, 23}
  <2>1. PICK v : v = {0, 5, 23}
    OBVIOUS
  <2>2. v \in LoaderWords
    BY <2>1 DEF LoaderWords
  <2> QED BY <2>1, <2>2
<1>4. regs \in LoaderRegs
  BY <1>1, <1>2, <1>3 DEF LoaderRegs
<1>5. regs.D5 = {0, 5, 23} /\ regs.A0 = 1 /\ regs.PC = 0
  BY <1>1
<1>6. RegsRight(regs, checksum)
  BY <1>4, <1>5 DEF LoaderInit, RegsRight
<1> QED BY <1>5, <1>6 DEF LoaderInit, LoaderInv, SpanStages

\* No instruction touches D3 and D5, and A0 moves once.
LEMMA RanKeeps ==
  ASSUME NEW r \in LoaderRegs, NEW word \in LoaderWords, NEW n \in 0 .. 30
  PROVE  Ran(r, word)[n].D5 = r.D5 /\ Ran(r, word)[n].A0 >= r.A0
<1>1. PICK f : f = Ran(r, word) /\ RunsFrom(r, word, f)
  BY RanRuns
<1>2. RunFolds(r, word, FoldT(r, word), f)
  BY <1>1, RunFold
<1> QED BY <1>1, <1>2 DEF RunFolds

LEMMA LoaderDispatchStep == LoaderInv /\ LoaderDispatch => LoaderInv'
<1> SUFFICES ASSUME LoaderInv, LoaderDispatch PROVE LoaderInv'
  OBVIOUS
<1>1. /\ stage = "entry" /\ stage' \in {"word", "firmware"}
      /\ stage' = "word" => regs.A0 + regs.D3 <= Len(SpanWords)
      /\ regs' = regs /\ flight' = flight /\ firmware' = firmware /\ checksum' = checksum
  BY DEF LoaderDispatch, supported_span
<1> QED BY <1>1 DEF LoaderInv, SpanStages

LEMMA BeginWordStep == LoaderInv /\ BeginWord => LoaderInv'
<1> SUFFICES ASSUME LoaderInv, BeginWord PROVE LoaderInv'
  OBVIOUS
<1>1. stage = "word" /\ regs' = regs /\ folded' = folded /\ firmware' = firmware /\ checksum' = checksum
  BY DEF BeginWord
<1>2. CASE stage' = "left" /\ flight' = flight
  BY <1>1, <1>2 DEF LoaderInv, SpanStages
<1>3. CASE /\ flight' = [before |-> regs, completed |-> 0, pc |-> 0, word |-> {}, active |-> TRUE]
           /\ stage' = "next"
  <2>1. regs \in LoaderRegs /\ regs.PC = 0 /\ firmware = regs
    BY <1>1 DEF LoaderInv, RegsRight, SpanStages
  <2>2. {} \in LoaderWords
    BY DEF LoaderWords
  <2>3. flight' \in Flights /\ flight'.before = regs /\ flight'.pc = 0 /\ flight'.word = {}
    BY <1>3, <2>1, <2>2 DEF Flights
  <2>4. regs = AtPC(Ran(regs, {})[0], 0)
    <3>1. Ran(regs, {})[0] = regs
      BY <2>1, <2>2, RanFacts
    <3>2. AtPC(regs, 0) = regs
      BY <2>1 DEF AtPC, LoaderRegs
    <3> QED BY <3>1, <3>2
  <2>5. NextRight(regs, flight', folded, firmware)
    BY <2>1, <2>3, <2>4 DEF NextRight
  <2> QED BY <1>1, <1>3, <2>5 DEF LoaderInv, SpanStages
<1> QED BY <1>2, <1>3 DEF BeginWord, Interrupted

\* The registers that an interrupt before an instruction finds.
LEMMA WordInterruptedStep ==
  ASSUME LoaderInv, stage = "next", flight.pc < 30, flight.pc = 29 => folded.odd,
         stage' = "left", regs' = prefix([flight EXCEPT !.completed = flight.pc]), flight' = NoFlight,
         folded' = folded, firmware' = firmware, checksum' = checksum
  PROVE  LoaderInv'
<1>1. NextRight(regs, flight, folded, firmware) /\ RegsRight(regs, checksum) /\ regs.PC = 0
  BY DEF LoaderInv
<1>2. PICK i \in 0 .. 29 : i = flight.pc
  BY <1>1 DEF NextRight, Flights
<1>3. PICK word \in LoaderWords : word = flight.word
  BY <1>1 DEF NextRight, Flights
<1>4. PICK f : f = [flight EXCEPT !.completed = i]
  OBVIOUS
<1>5. f.before = regs /\ f.word = word /\ f.completed = i /\ f.pc = i
  BY <1>1, <1>2, <1>3, <1>4 DEF NextRight, Flights
<1>6. regs' = AtPC(Ran(regs, word)[i], i)
  BY <1>2, <1>4, <1>5, PrefixIs DEF AtPC
<1>7. firmware = AtPC(Ran(regs, word)[i], i)
  BY <1>1, <1>2, <1>3 DEF NextRight
<1>8. regs \in LoaderRegs
  BY <1>1 DEF RegsRight
<1>9. PICK k \in LoaderRegs : k = Ran(regs, word)[i]
  BY <1>8, RanFacts
<1>10. regs' \in LoaderRegs /\ regs'.PC = i /\ regs'.D5 = k.D5 /\ regs'.A0 = k.A0
  BY <1>6, <1>9, AtPCRegs
<1>11. k.D5 = regs.D5 /\ k.A0 >= regs.A0
  BY <1>8, <1>9, RanKeeps
<1>12. RegsRight(regs', checksum)
  <2>1. CASE i = 0
    <3>1. Ran(regs, word)[0] = regs
      BY <1>8, RanFacts
    <3>2. regs' = regs
      BY <1>1, <1>6, <1>8, <2>1, <3>1 DEF AtPC, LoaderRegs
    <3> QED BY <1>1, <3>2
  <2>2. CASE i # 0
    BY <1>1, <1>8, <1>9, <1>10, <1>11, <2>2 DEF RegsRight, LoaderRegs
  <2> QED BY <2>1, <2>2
<1> QED BY <1>6, <1>7, <1>12 DEF LoaderInv, SpanStages

LEMMA WordExecutedStep ==
  ASSUME LoaderInv, stage = "next", flight.pc < 30, flight.pc = 29 => folded.odd, stage' = "account",
         NEW word, word = IF flight.pc = 1 THEN SpanWords[flight.before.A0] ELSE flight.word,
         flight' = [flight EXCEPT !.completed = CompletedAt(flight.pc), !.word = word],
         folded' = IF flight.pc = 1 THEN fold_word(flight.before, word) ELSE folded,
         firmware' = IF flight.pc = 19 THEN firmware ELSE Instruction(flight.pc, firmware, word),
         regs' = regs, checksum' = checksum
  PROVE  LoaderInv'
<1>1. NextRight(regs, flight, folded, firmware) /\ RegsRight(regs, checksum) /\ regs.PC = 0
      /\ regs.A0 + regs.D3 <= Len(SpanWords)
  BY DEF LoaderInv
<1>2. PICK i \in 0 .. 29 : i = flight.pc
  <2>1. flight.pc \in 0 .. 30
    BY <1>1 DEF NextRight, Flights
  <2> QED BY <2>1
<1>3. regs \in LoaderRegs /\ flight \in Flights /\ flight.before = regs
  BY <1>1 DEF RegsRight, NextRight
<1>4. SpanWords[regs.A0] \in LoaderWords
  <2>1. regs.A0 \in Nat /\ regs.D3 \in Nat /\ regs.A0 >= 1
    BY <1>1 DEF RegsRight, LoaderRegs
  <2>2. Len(SpanWords) \in Nat
    BY LoaderAssumption
  <2>3. regs.A0 <= Len(SpanWords)
    BY <1>1, <2>1, <2>2
  <2> QED BY <2>1, <2>3, LoaderWordRead
<1>5. PICK old \in LoaderWords : old = flight.word
  BY <1>3 DEF Flights
<1>6. word \in LoaderWords
  BY <1>3, <1>4, <1>5
<1>7. PICK c \in 0 .. 30 : c = CompletedAt(i) /\ (i = 19 => c = 19) /\ (i # 19 => c = i + 1)
  BY DEF CompletedAt
<1>8. /\ flight' \in Flights /\ flight'.before = regs /\ flight'.pc = i /\ flight'.word = word
      /\ flight'.completed = c
  BY <1>2, <1>3, <1>6, <1>7 DEF Flights
<1>9. i >= 1 => ReadAndFolded(regs, flight', folded')
  <2>1. CASE i = 1
    BY <1>2, <1>3, <1>8, <2>1 DEF ReadAndFolded
  <2>2. CASE i >= 2
    <3>1. ReadAndFolded(regs, flight, folded)
      BY <1>1, <1>2, <2>2 DEF NextRight
    <3>2. flight'.word = flight.word /\ folded' = folded
      BY <1>2, <1>8, <2>2
    <3> QED BY <3>1, <3>2 DEF ReadAndFolded
  <2> QED BY <2>1, <2>2
<1>10. i = 29 => folded'.odd
  BY <1>2
<1>11. Ran(regs, word)[i] = Ran(regs, old)[i]
  <2>1. CASE i = 1
    BY <1>3, <1>6, <2>1, RanFacts
  <2>2. CASE i # 1
    BY <1>2, <1>5, <2>2
  <2> QED BY <2>1, <2>2
<1>12. firmware = AtPC(Ran(regs, word)[i], i)
  BY <1>1, <1>2, <1>5, <1>11 DEF NextRight
<1>13. firmware' = AtPC(Ran(regs, word)[c], i)
  <2>1. CASE i = 19
    BY <1>2, <1>7, <1>12, <2>1
  <2>2. CASE i # 19
    <3>1. firmware' = Instruction(i, firmware, word)
      BY <1>2, <2>2
    <3>2. Instruction(i, AtPC(Ran(regs, word)[i], i), word) = AtPC(Ran(regs, word)[i + 1], i)
      <4>1. PICK x \in Nat : x = i
        OBVIOUS
      <4>2. PICK r \in LoaderRegs : r = regs
        BY <1>3
      <4>3. Instruction(i, AtPC(Ran(r, word)[i], x), word) = AtPC(Ran(r, word)[i + 1], x)
        BY <1>6, RanOn
      <4> QED BY <4>1, <4>2, <4>3
    <3> QED BY <1>7, <1>12, <2>2, <3>1, <3>2
  <2> QED BY <2>1, <2>2
<1>14. AccountRight(regs, flight', folded', firmware')
  BY <1>7, <1>8, <1>9, <1>10, <1>13 DEF AccountRight
<1> QED BY <1>1, <1>14 DEF LoaderInv, SpanStages

LEMMA WordInstructionStep == LoaderInv /\ WordInstruction => LoaderInv'
<1> SUFFICES ASSUME LoaderInv, WordInstruction PROVE LoaderInv'
  OBVIOUS
<1>1. stage = "next" /\ flight.pc < 30 /\ (flight.pc = 29 => folded.odd) /\ checksum' = checksum
  BY DEF WordInstruction
<1>2. CASE /\ stage' = "left" /\ regs' = prefix([flight EXCEPT !.completed = flight.pc]) /\ flight' = NoFlight
           /\ folded' = folded /\ firmware' = firmware
  BY <1>1, <1>2, WordInterruptedStep
<1>3. ASSUME NEW word, word = IF flight.pc = 1 THEN SpanWords[flight.before.A0] ELSE flight.word,
             stage' = "account",
             flight' = [flight EXCEPT !.completed = CompletedAt(flight.pc), !.word = word],
             folded' = IF flight.pc = 1 THEN fold_word(flight.before, word) ELSE folded,
             firmware' = IF flight.pc = 19 THEN firmware ELSE Instruction(flight.pc, firmware, word),
             regs' = regs
      PROVE  LoaderInv'
  BY <1>1, <1>3, WordExecutedStep
<1> QED BY <1>2, <1>3 DEF WordInstruction, Interrupted

LEMMA WordAccountedStep == LoaderInv /\ WordAccounted => LoaderInv'
<1> SUFFICES ASSUME LoaderInv, WordAccounted PROVE LoaderInv'
  OBVIOUS
<1>1. /\ AccountRight(regs, flight, folded, firmware) /\ RegsRight(regs, checksum) /\ regs.PC = 0
      /\ regs.A0 + regs.D3 <= Len(SpanWords)
  BY DEF LoaderInv, WordAccounted
<1>2. PICK i \in 0 .. 29 : i = flight.pc
  <2>1. flight.pc \in 0 .. 30
    BY <1>1 DEF AccountRight, Flights
  <2>2. flight.pc <= 29
    BY <1>1 DEF AccountRight
  <2> QED BY <2>1, <2>2
<1>3. regs \in LoaderRegs /\ flight \in Flights /\ flight.before = regs
  BY <1>1 DEF RegsRight, AccountRight
<1>4. PICK r \in LoaderRegs : r = regs
  BY <1>3
<1>5. PICK word \in LoaderWords : word = flight.word
  BY <1>3 DEF Flights
<1>6. PICK c \in 0 .. 30 : c = flight.completed /\ (i = 19 => c = 19) /\ (i # 19 => c = i + 1)
  <2>1. flight.completed = CompletedAt(i)
    BY <1>1, <1>2 DEF AccountRight
  <2>2. PICK c : c = CompletedAt(i)
    OBVIOUS
  <2>3. c \in 0 .. 30 /\ (i = 19 => c = 19) /\ (i # 19 => c = i + 1)
    BY <2>2 DEF CompletedAt
  <2> QED BY <2>1, <2>2, <2>3
<1>7. PICK x \in Nat : x = i
  OBVIOUS
<1>8. firmware = AtPC(Ran(r, word)[c], x)
  BY <1>1, <1>2, <1>4, <1>5, <1>6, <1>7 DEF AccountRight
<1>9. PICK y \in Nat : y = IF i = 28 /\ "Z" \in firmware.SR THEN 30 ELSE i + 1
  OBVIOUS
<1>10. PICK g : g = IF i = 19 THEN Instruction(i, firmware, word) ELSE firmware
  OBVIOUS
<1>11. g = AtPC(Ran(r, word)[i + 1], x)
  <2>1. CASE i = 19
    <3>1. Instruction(i, AtPC(Ran(r, word)[i], x), word) = AtPC(Ran(r, word)[i + 1], x)
      BY RanOn
    <3> QED BY <1>6, <1>8, <1>10, <2>1, <3>1
  <2>2. CASE i # 19
    BY <1>6, <1>8, <1>10, <2>2
  <2> QED BY <2>1, <2>2
<1>12. PICK n \in 0 .. 30 : n = i + 1
  OBVIOUS
<1>13. firmware' = AtPC(Ran(r, word)[n], y)
  <2>1. firmware' = [g EXCEPT !.PC = y]
    BY <1>2, <1>5, <1>9, <1>10 DEF WordAccounted
  <2>2. AtPC(AtPC(Ran(r, word)[n], x), y) = AtPC(Ran(r, word)[n], y)
    BY RanAtPC
  <2> QED BY <1>11, <1>12, <2>1, <2>2 DEF AtPC
<1>14. /\ flight' \in Flights /\ flight'.before = regs /\ flight'.pc = n /\ flight'.word = word
       /\ folded' = folded /\ regs' = regs /\ checksum' = checksum /\ stage' = "next"
  BY <1>2, <1>3, <1>5, <1>12 DEF WordAccounted, Flights
<1>15. n >= 2 => ReadAndFolded(regs, flight', folded')
  <2>1. ASSUME n >= 2 PROVE ReadAndFolded(regs, flight, folded)
    BY <1>1, <1>2, <1>12, <2>1 DEF AccountRight
  <2> QED BY <1>5, <1>14, <2>1 DEF ReadAndFolded
<1>16. n = 30 => folded'.odd
  BY <1>1, <1>2, <1>12, <1>14 DEF AccountRight
<1>17. y = IF n = 29 /\ ~folded'.odd THEN 30 ELSE n
  <2>1. CASE i = 28
    <3>1. folded = fold_word(r, word)
      BY <1>1, <1>2, <1>4, <1>5, <2>1 DEF AccountRight, ReadAndFolded
    <3>2. PICK f : f = Ran(r, word) /\ FoldsAsRun(r, word, f)
      BY RanFacts
    <3>3. folded.odd <=> "Z" \notin f[29].SR
      BY <3>1, <3>2 DEF FoldsAsRun
    <3>4. PICK k \in LoaderRegs : k = f[29]
      <4>1. \A m \in 0 .. 30 : f[m] \in LoaderRegs
        BY <3>2, RanFacts
      <4> QED BY <4>1
    <3>5. firmware = AtPC(k, x)
      BY <1>6, <1>8, <2>1, <3>2, <3>4
    <3>6. firmware.SR = k.SR
      BY <3>5, AtPCRegs
    <3> QED BY <1>9, <1>12, <1>14, <2>1, <3>3, <3>4, <3>6
  <2>2. CASE i # 28
    BY <1>9, <1>12, <2>2
  <2> QED BY <2>1, <2>2
<1>18. NextRight(regs, flight', folded', firmware')
  BY <1>4, <1>13, <1>14, <1>15, <1>16, <1>17 DEF NextRight
<1> QED BY <1>1, <1>14, <1>18 DEF LoaderInv, SpanStages

\* The word is complete: what was folded is what the firmware reached, and the checksum moves on.
LEMMA WordDoneStep == LoaderInv /\ WordDone => LoaderInv'
<1> SUFFICES ASSUME LoaderInv, WordDone PROVE LoaderInv'
  OBVIOUS
<1>1. /\ NextRight(regs, flight, folded, firmware) /\ RegsRight(regs, checksum) /\ regs.PC = 0
      /\ regs.A0 + regs.D3 <= Len(SpanWords)
  BY DEF LoaderInv, WordDone
<1>2. /\ flight.pc >= 29 /\ (flight.pc = 29 => ~folded.odd)
      /\ regs' = folded.cpu /\ flight' = NoFlight /\ checksum' = bitwise(checksum, flight.word)
      /\ stage' = (IF regs'.D3 % YieldWords = 0 THEN "yielded" ELSE "loop")
      /\ firmware' = firmware
  BY DEF WordDone
<1>3. flight.pc \in {29, 30} /\ flight \in Flights
  <2>1. flight \in Flights
    BY <1>1 DEF NextRight
  <2>2. flight.pc \in 0 .. 30
    BY <2>1 DEF Flights
  <2> QED BY <1>2, <2>1, <2>2
<1>4. PICK r \in LoaderRegs : r = regs /\ r.D5 = {0, 5, 23} /\ r.A0 >= 1 /\ Low(r.D1, 24) = checksum
  BY <1>1 DEF RegsRight
<1>5. PICK word \in LoaderWords : word = flight.word
  BY <1>3 DEF Flights
<1>6. folded = fold_word(r, word)
  <2>1. ReadAndFolded(regs, flight, folded)
    BY <1>1, <1>3 DEF NextRight
  <2> QED BY <1>4, <1>5, <2>1 DEF ReadAndFolded
<1>7. PICK f : f = Ran(r, word) /\ FoldsAsRun(r, word, f)
  BY RanFacts
<1>8. PICK n \in {29, 30} : n = flight.pc
  BY <1>3
<1>9. regs' = At30(f[n])
  BY <1>1, <1>2, <1>6, <1>7, <1>8 DEF FoldsAsRun, NextRight
<1>10. firmware = At30(f[n])
  BY <1>1, <1>2, <1>4, <1>5, <1>7, <1>8 DEF NextRight, AtPC, At30
<1>11. RunFolds(r, word, FoldT(r, word), f)
  BY <1>7, RanRuns, RunFold
<1>12. PICK k \in LoaderRegs : k = f[n] /\ k.D3 = r.D3 /\ k.D5 = r.D5 /\ k.A0 = r.A0 + 1
  BY <1>8, <1>11 DEF RunFolds, Holds
<1>13. regs' \in LoaderRegs /\ regs'.PC = 30 /\ regs'.D3 = r.D3 /\ regs'.D5 = r.D5 /\ regs'.A0 = r.A0 + 1
  BY <1>9, <1>12 DEF At30, LoaderRegs
<1>14. Low(regs'.D1, 24) = checksum'
  BY <1>2, <1>4, <1>5, <1>6, FoldsChecksum
<1>15. RegsRight(regs', checksum')
  BY <1>4, <1>13, <1>14 DEF RegsRight, LoaderRegs
<1>16. stage' = "loop" => regs'.D3 > 0
  <2>1. PICK d \in Nat : d = regs'.D3
    BY <1>13 DEF LoaderRegs
  <2>2. PICK w \in Nat \ {0} : w = YieldWords
    BY LoaderAssumption
  <2>3. 0 % w = 0
    OBVIOUS
  <2> QED BY <1>2, <2>1, <2>2, <2>3
<1>17. regs'.A0 + regs'.D3 <= Len(SpanWords) + 1
  <2>1. r.A0 \in Nat /\ r.D3 \in Nat
    BY DEF LoaderRegs
  <2>2. Len(SpanWords) \in Nat
    BY LoaderAssumption
  <2> QED BY <1>1, <1>4, <1>13, <2>1, <2>2
<1>18. stage' \in {"loop", "yielded"}
  BY <1>2
<1> QED BY <1>2, <1>9, <1>10, <1>13, <1>15, <1>16, <1>17, <1>18 DEF LoaderInv, SpanStages

LEMMA LoopControlStep == LoaderInv /\ LoopControl => LoaderInv'
<1> SUFFICES ASSUME LoaderInv, LoopControl PROVE LoaderInv'
  OBVIOUS
<1>1. /\ stage = "loop" /\ flight' = flight /\ checksum' = checksum /\ flight = NoFlight
      /\ firmware = regs /\ RegsRight(regs, checksum)
      /\ regs.PC \in 30 .. 32 /\ regs.D3 > 0 /\ regs.A0 + regs.D3 <= Len(SpanWords) + 1
  BY DEF LoopControl, LoaderInv, SpanStages
<1>2. CASE stage' = "left" /\ regs' = regs /\ firmware' = firmware
  BY <1>1, <1>2 DEF LoaderInv, SpanStages
<1>3. CASE /\ regs' = LoopInstruction(regs) /\ firmware' = LoopInstruction(firmware)
           /\ stage' = (IF regs'.PC = 0 THEN "word" ELSE "loop")
  <2>1. regs \in LoaderRegs /\ regs.D3 \in Nat /\ regs.A0 \in Nat
    BY <1>1 DEF RegsRight, LoaderRegs
  <2>2. Len(SpanWords) \in Nat
    BY LoaderAssumption
  <2>3. CASE regs.PC = 30
    <3>1. PICK flags \in SUBSET LoaderFlags : flags = LoopFlags(regs.SR, regs.D3)
      BY <2>1 DEF LoopFlags, LoaderRegs, LoaderFlags
    <3>2. regs' = [regs EXCEPT !.SR = flags, !.PC = 31]
      BY <1>3, <2>3, <3>1 DEF LoopInstruction
    <3>3. /\ regs' \in LoaderRegs /\ regs'.PC = 31 /\ regs'.D3 = regs.D3 /\ regs'.A0 = regs.A0
          /\ regs'.D1 = regs.D1 /\ regs'.D5 = regs.D5
      BY <2>1, <3>2 DEF LoaderRegs
    <3>4. RegsRight(regs', checksum)
      BY <1>1, <2>3, <3>3 DEF RegsRight
    <3> QED BY <1>1, <1>3, <3>3, <3>4 DEF LoaderInv, SpanStages
  <2>4. CASE regs.PC = 31
    <3>2. regs' = [regs EXCEPT !.PC = 32]
      BY <1>3, <2>4 DEF LoopInstruction
    <3>3. /\ regs' \in LoaderRegs /\ regs'.PC = 32 /\ regs'.D3 = regs.D3 /\ regs'.A0 = regs.A0
          /\ regs'.D1 = regs.D1 /\ regs'.D5 = regs.D5
      BY <2>1, <3>2 DEF LoaderRegs
    <3>4. RegsRight(regs', checksum)
      BY <1>1, <2>4, <3>3 DEF RegsRight
    <3> QED BY <1>1, <1>3, <3>3, <3>4 DEF LoaderInv, SpanStages
  <2>5. CASE regs.PC = 32
    <3>1. PICK d \in Nat : d = regs.D3 - 1
      BY <1>1, <2>1
    <3>2. regs' = [regs EXCEPT !.D3 = d, !.PC = 0]
      BY <1>3, <2>5, <3>1 DEF LoopInstruction
    <3>3. /\ regs' \in LoaderRegs /\ regs'.PC = 0 /\ regs'.D3 = d /\ regs'.A0 = regs.A0
          /\ regs'.D1 = regs.D1 /\ regs'.D5 = regs.D5
      BY <2>1, <3>2 DEF LoaderRegs
    <3>4. RegsRight(regs', checksum)
      BY <1>1, <2>5, <3>3 DEF RegsRight
    <3>5. regs'.A0 + regs'.D3 <= Len(SpanWords)
      BY <1>1, <2>1, <2>2, <3>1, <3>3
    <3> QED BY <1>1, <1>3, <3>3, <3>4, <3>5 DEF LoaderInv, SpanStages
  <2> QED BY <1>1, <2>3, <2>4, <2>5
<1> QED BY <1>2, <1>3 DEF LoopControl, Interrupted

LEMMA FirmwareLoopsStep == LoaderInv /\ FirmwareLoops => LoaderInv'
<1> SUFFICES ASSUME LoaderInv, FirmwareLoops PROVE LoaderInv'
  OBVIOUS
<1>1. /\ stage = "yielded" /\ flight' = flight /\ checksum' = checksum /\ flight = NoFlight
      /\ firmware = regs /\ RegsRight(regs, checksum)
  BY DEF FirmwareLoops, LoaderInv, SpanStages
<1>2. CASE regs.D3 = 0
  BY <1>1, <1>2 DEF FirmwareLoops, LoaderInv, SpanStages
<1>3. CASE regs.D3 # 0
  <2>1. regs \in LoaderRegs /\ regs.D3 \in Nat
    BY <1>1 DEF RegsRight, LoaderRegs
  <2>2. PICK flags \in SUBSET LoaderFlags : flags = LoopFlags(regs.SR, regs.D3)
    BY <2>1 DEF LoopFlags, LoaderRegs, LoaderFlags
  <2>3. PICK d \in Nat : d = regs.D3 - 1
    BY <1>3, <2>1
  <2>4. regs' = [regs EXCEPT !.SR = flags, !.D3 = d, !.PC = 0] /\ firmware' = regs' /\ stage' = "entry"
    BY <1>3, <2>2, <2>3 DEF FirmwareLoops
  <2>5. /\ regs' \in LoaderRegs /\ regs'.PC = 0 /\ regs'.A0 = regs.A0
        /\ regs'.D1 = regs.D1 /\ regs'.D5 = regs.D5
    BY <2>1, <2>4 DEF LoaderRegs
  <2>6. Low(regs.D1, 24) = checksum
    BY <1>1 DEF RegsRight, LoaderInv
  <2>7. RegsRight(regs', checksum)
    BY <1>1, <2>5, <2>6 DEF RegsRight
  <2> QED BY <1>1, <2>4, <2>5, <2>7 DEF LoaderInv, SpanStages
<1> QED BY <1>2, <1>3

(***************************************************************************)
(* cdi_loader_jobs.c: for every bank, every span in it, every checksum and *)
(* every interrupt, the span and what an interrupt sees of it are the      *)
(* firmware's, and the checksum is the polynomial's.                       *)
(***************************************************************************)
THEOREM SpansAreFirmware == LoaderSpec => []SpanIsFirmware
<1>1. LoaderInit => LoaderInv
  BY LoaderStarts
<1>2. LoaderInv /\ [LoaderNext]_loader_vars => LoaderInv'
  <2> SUFFICES ASSUME LoaderInv, [LoaderNext]_loader_vars PROVE LoaderInv'
    OBVIOUS
  <2>1. CASE LoaderDispatch
    BY <2>1, LoaderDispatchStep
  <2>2. CASE BeginWord
    BY <2>2, BeginWordStep
  <2>3. CASE WordInstruction
    BY <2>3, WordInstructionStep
  <2>4. CASE WordAccounted
    BY <2>4, WordAccountedStep
  <2>5. CASE WordDone
    BY <2>5, WordDoneStep
  <2>6. CASE LoopControl
    BY <2>6, LoopControlStep
  <2>7. CASE FirmwareLoops
    BY <2>7, FirmwareLoopsStep
  <2>8. CASE UNCHANGED loader_vars
    BY <2>8 DEF loader_vars, LoaderInv
  <2> QED BY <2>1, <2>2, <2>3, <2>4, <2>5, <2>6, <2>7, <2>8 DEF LoaderNext
<1>3. LoaderInv => SpanIsFirmware
  <2> SUFFICES ASSUME LoaderInv PROVE SpanIsFirmware
    OBVIOUS
  <2>1. CASE stage \in SpanStages
    <3>1. ~flight.active
      BY <2>1 DEF LoaderInv, NoFlight
    <3> QED BY <2>1, <3>1 DEF LoaderInv, RegsRight, SpanIsFirmware, SpanStages
  <2>2. CASE stage \in {"next", "account"}
    <3>1. flight \in Flights /\ flight.before = regs
      BY <2>2 DEF LoaderInv, NextRight, AccountRight
    <3>2. flight.active
      BY <3>1 DEF Flights
    <3>3. flight.before.A0 <= Len(SpanWords)
      <4>1. regs.A0 \in Nat /\ regs.D3 \in Nat /\ regs.A0 + regs.D3 <= Len(SpanWords)
        BY <2>2 DEF LoaderInv, RegsRight, LoaderRegs
      <4>2. Len(SpanWords) \in Nat
        BY LoaderAssumption
      <4> QED BY <3>1, <4>1, <4>2
    <3>4. stage = "account" => prefix(flight) = firmware
      BY <3>1, PrefixIs DEF LoaderInv, AccountRight, AtPC
    <3> QED BY <3>2, <3>3, <3>4 DEF SpanIsFirmware
  <2> QED BY <2>1, <2>2 DEF LoaderInv
<1> QED BY <1>1, <1>2, <1>3, PTL DEF LoaderSpec
=============================================================================
