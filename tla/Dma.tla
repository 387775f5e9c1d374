--------------------------------- MODULE Dma ---------------------------------
(***************************************************************************)
(* SCC68070 DMA channel 1, wired to the CIAP (periph.c, cdic.c).  The      *)
(* store that sets START in DMACTL runs the whole burst.  DMACTL, which    *)
(* keeps the running word offset, is itself a word of the aperture, and a  *)
(* bus error leaves the burst where it stands, for good.  Addresses count  *)
(* words; RamEnd is the first that nothing answers at.                     *)
(***************************************************************************)
EXTENDS Naturals

CONSTANTS ApertureWords,   \* words of the aperture; the offset wraps there, 8192
          Dmactl,          \* the offset of DMACTL
          RamEnd,
          DmaStarts,       \* memory addresses, ...
          DmaCounts,       \* ... word counts, ...
          DmaOffsets,      \* ... and aperture offsets the driver uses
          MaxBursts        \* bound on the bursts begun

ASSUME DmaAssumption ==
    /\ ApertureWords \in Nat \ {0} /\ Dmactl \in 0 .. ApertureWords - 1
    /\ RamEnd \in Nat \ {0} /\ MaxBursts \in Nat
    /\ DmaStarts \subseteq Nat /\ DmaCounts \subseteq Nat
    /\ DmaOffsets \subseteq 0 .. ApertureWords - 1

VARIABLE dma   \* channel registers, DMACTL, both memories; begun, done and asked are histories

DmaInit ==
    dma = [mtc |-> 0, mar |-> 0, active |-> FALSE, complete |-> FALSE, enabled |-> FALSE,
           control |-> [start |-> FALSE, to_memory |-> FALSE, offset |-> 0],
           aperture |-> [i \in 0 .. ApertureWords - 1 |-> <<"aperture", i>>],
           ram |-> [a \in 0 .. RamEnd - 1 |-> <<"ram", a>>],
           begun |-> 0, done |-> 0, asked |-> [mar |-> 0, words |-> 0]]

Advanced(control) == [control EXCEPT !.offset = (@ + 1) % ApertureWords]

ApertureWord(d, i) == IF i = Dmactl THEN <<"control", d.control.offset>> ELSE d.aperture[i]

\* cdic_dma_pull_word: the offset moves on before the word is read.
cdic_dma_pull_word(d) ==
    LET moved == [d EXCEPT !.control = Advanced(@)]
    IN  [after |-> moved, word |-> ApertureWord(moved, d.control.offset)]

\* Faulty variant: the control word is read after the store.
Faulty_cdic_dma_push_word(d, word) ==
    IF d.control.offset = Dmactl
    THEN [d EXCEPT !.control = [start |-> FALSE, to_memory |-> FALSE, offset |-> 0]]
    ELSE [d EXCEPT !.aperture[d.control.offset] = word, !.control = Advanced(@)]

\* cdic_dma_push_word: the control word is read first and written back last, so a word
\* pushed onto DMACTL is lost and the burst goes on.
cdic_dma_push_word(d, word) ==
    IF d.control.offset = Dmactl THEN [d EXCEPT !.control = Advanced(@)]
    ELSE [d EXCEPT !.aperture[d.control.offset] = word, !.control = Advanced(@)]

\* One word of the burst at address a: a bus error stops it after the pull and before the push.
Transferred(s, a) ==
    LET d == s.state
        pulled == cdic_dma_pull_word(d)
    IN  CASE s.fault -> s
          [] ~s.fault /\ d.control.to_memory /\ a < RamEnd ->
                [s EXCEPT !.state = [pulled.after EXCEPT !.ram[a] = pulled.word]]
          [] ~s.fault /\ d.control.to_memory /\ a >= RamEnd ->
                [fault |-> TRUE, state |-> pulled.after]
          [] ~s.fault /\ ~d.control.to_memory /\ a < RamEnd ->
                [s EXCEPT !.state = cdic_dma_push_word(d, d.ram[a])]
          [] OTHER -> [s EXCEPT !.fault = TRUE]

Burst(d) ==
    LET after[k \in 0 .. d.mtc] ==
            IF k = 0 THEN [fault |-> FALSE, state |-> [d EXCEPT !.active = TRUE]]
            ELSE Transferred(after[k - 1], d.mar + k - 1)
    IN  after[d.mtc]

Completed(d) ==
    [d EXCEPT !.mar = @ + d.mtc, !.mtc = 0, !.active = FALSE, !.complete = TRUE,
              !.enabled = FALSE, !.control.start = FALSE, !.done = @ + 1,
              !.asked = [mar |-> d.mar + d.mtc, words |-> 0]]

\* periph_ciap_dma_request.  The address and the counter are stored at the end only, so
\* a bus error leaves them as programmed.
periph_ciap_dma_request(d) ==
    IF ~d.enabled THEN d
    ELSE LET burst == Burst([d EXCEPT !.begun = @ + 1])
         IN  IF burst.fault THEN burst.state ELSE Completed(burst.state)

(***************************************************************************)
(* The driver's register writes.                                           *)
(***************************************************************************)
WriteDmactl(start, to_memory, offset) ==
    /\ start => dma.begun < MaxBursts
    /\ LET stored == [dma EXCEPT !.control = [start |-> start, to_memory |-> to_memory,
                                              offset |-> offset]]
       IN  dma' = IF start THEN periph_ciap_dma_request(stored) ELSE stored

WriteMtc(words) == dma' = [dma EXCEPT !.mtc = words, !.asked.words = words]

WriteMar(mar) == dma' = [dma EXCEPT !.mar = mar, !.asked.mar = mar]

WriteCcr(enabled) == dma' = [dma EXCEPT !.enabled = enabled]

\* Status bits are cleared by writing ones.
WriteCsr == dma' = [dma EXCEPT !.active = FALSE, !.complete = FALSE]

DmaNext ==
    \/ \E start, to_memory \in BOOLEAN, offset \in DmaOffsets : WriteDmactl(start, to_memory, offset)
    \/ \E words \in DmaCounts : WriteMtc(words)
    \/ \E mar \in DmaStarts : WriteMar(mar)
    \/ \E enabled \in BOOLEAN : WriteCcr(enabled)
    \/ WriteCsr

DmaSpec == DmaInit /\ [][DmaNext]_dma

(***************************************************************************)
(* Properties.                                                             *)
(***************************************************************************)
(* periph.c:188: a burst that completes has moved the block the driver     *)
(* last programmed, in order and whole, although it wraps in the aperture, *)
(* runs over DMACTL or follows a burst that a bus error cut short; nothing *)
(* else in the destination changes.                                        *)
MovesBlock(from, to) ==
    LET words == from.asked.words
        control == to.control
        first == (control.offset + ApertureWords * words - words) % ApertureWords
        Offset(k) == (first + k) % ApertureWords
        Address(k) == from.asked.mar + k
    IN  IF control.to_memory
        THEN /\ \A k \in 0 .. words - 1 :
                   Offset(k) # Dmactl => to.ram[Address(k)] = from.aperture[Offset(k)]
             /\ \A a \in DOMAIN to.ram :
                   a \notin {Address(k) : k \in 0 .. words - 1} => to.ram[a] = from.ram[a]
        ELSE \A i \in DOMAIN to.aperture \ {Dmactl} :
                LET last == {k \in 0 .. words - 1 : Offset(k) = i /\ k + ApertureWords >= words}
                IN  IF last = {} THEN to.aperture[i] = from.aperture[i]
                    ELSE \A k \in last : to.aperture[i] = from.ram[Address(k)]

DmaBlockWhole == [][dma'.done > dma.done => MovesBlock(dma, dma')]_dma
=============================================================================
