------------------------------ MODULE MCDisplay ------------------------------
(* A small display: bytes of four bits, lines of four or six pixels. *)
EXTENDS Display

MCDelta == <<0, 1, 8, 15>>
MCQuantizer == [i \in 0 .. 3 |-> MCDelta[i + 1]]

\* Bytes with runs of one, two and the rest of the line.
Pattern == <<9, 2, 3, 12, 0, 7, 14, 5>>
MCPixels == {[i \in 0 .. 95 |-> Pattern[(i % 8) + 1]]}
MCPokes == {[at |-> 1, byte |-> 1], [at |-> 33, byte |-> 0]}

Opaque == [test |-> "never", matte |-> 0, inverted |-> FALSE]
Test(t, m) == [test |-> t, matte |-> m, inverted |-> FALSE]

Plane == [file_type |-> "BITMAP", bits |-> "NORMAL_8", mosaic |-> 1, coding |-> "OFF",
          transparency |-> Opaque, key_color |-> <<3, 6, 9>>, mask |-> <<0, 0, 0>>,
          initial |-> <<8, 7, 9>>, hold |-> FALSE, hold_count |-> 1, factor |-> 3]

NoMatte == [op |-> "END", matte |-> 0, factor |-> 0, x |-> 0, sets |-> {}]
SetAt(x, f) == [op |-> "SET", matte |-> 0, factor |-> f, x |-> x, sets |-> {"A"}]
ResetAt(x, f) == [op |-> "RESET", matte |-> 1, factor |-> f, x |-> x, sets |-> {"B"}]

Registers(a, b) ==
  [clut |-> [i \in 0 .. 15 |-> [key |-> 1, rgb |-> <<i, (2 * i) % 16, (3 * i) % 16>>]],
   clut_bank |-> 0, matte |-> [i \in 0 .. 3 |-> NoMatte], high_clut |-> FALSE,
   two_mattes |-> FALSE, mixing |-> FALSE, b_front |-> FALSE,
   cursor |-> [x |-> 1, y |-> 0, pattern |-> [i \in {0, 1} |-> [j \in {0, 1} |-> (i + j) % 2]],
               enabled |-> FALSE, color |-> [bright |-> TRUE, bits |-> <<1, 0, 1>>],
               complement |-> FALSE, on |-> 1, off |-> 0, fine |-> FALSE, start |-> 0],
   backdrop |-> [bright |-> FALSE, bits |-> <<0, 1, 0>>],
   plane |-> [p \in Planes |-> IF p = "A" THEN a ELSE b]]

RunLength(bits, t) == [Plane EXCEPT !.file_type = "RUN", !.bits = bits, !.coding = "CLUT7",
                                    !.transparency = t]
Mattes2(r0) == [r0 EXCEPT !.two_mattes = TRUE,
                  !.matte = (0 :> SetAt(1, 2) @@ 1 :> NoMatte @@ 2 :> [SetAt(2, 1) EXCEPT !.matte = 1]
                             @@ 3 :> ResetAt(4, 1))]
Mattes1(r0) == [r0 EXCEPT !.matte = (0 :> SetAt(1, 2) @@ 1 :> ResetAt(3, 0) @@ 2 :> NoMatte @@ 3 :> NoMatte)]
Cursor(r0, off) == [r0 EXCEPT !.cursor.enabled = TRUE, !.cursor.off = off]

\* Run-length sources under two mattes; a held and a differential plane, mixed; half
\* bytes under a colour key and a mosaic, with a blinking cursor; paired runs and RGB.
Runs == Cursor(Mattes2(Registers(RunLength("NORMAL_8", Test("matte", 1)),
                                 RunLength("HIGH_8", Opaque))), 0)
Mixed == Mattes1([Registers([Plane EXCEPT !.coding = "CLUT8", !.hold = TRUE, !.hold_count = 2],
                            [Plane EXCEPT !.coding = "DYUV", !.transparency = Test("matte_or_key", 0)])
                  EXCEPT !.mixing = TRUE])
Keyed == Cursor(Registers([Plane EXCEPT !.coding = "CLUT4", !.transparency = Test("key", 0)],
                          [Plane EXCEPT !.coding = "CLUT7", !.file_type = "MOSAIC", !.mosaic = 2]), 1)
Paired == [Registers(RunLength("DOUBLE_4", Opaque),
                     [Plane EXCEPT !.coding = "RGB555", !.transparency = Test("bit", 0)])
           EXCEPT !.b_front = TRUE]

Mode(cf, fd, sm, st, ica, dca) ==
  [de |-> TRUE, cf |-> cf, fd |-> fd, sm |-> sm, st |-> st, ica |-> ica, dca |-> dca, mute |-> {"B"}]
At(a, b) == [p \in Planes |-> IF p = "A" THEN a ELSE b]
Write(m, w) == [mode |-> m, wide |-> w, vsr |-> At(0, 32)]

Ntsc == Write(Mode(TRUE, TRUE, FALSE, FALSE, Planes, Planes), {})
Narrowed == Write(Mode(FALSE, FALSE, FALSE, FALSE, Planes, {}), Planes)
Interlaced == Write(Mode(TRUE, TRUE, TRUE, FALSE, Planes, {"A"}), {})
Standard == Write(Mode(FALSE, FALSE, FALSE, TRUE, {}, {}), {})
Off == Write([Mode(TRUE, TRUE, FALSE, FALSE, {}, {}) EXCEPT !.de = FALSE], {})
MCModes == {Ntsc, Narrowed, Interlaced, Standard, Off}

Op(o) == [op |-> o]
To(o, t) == [op |-> o, to |-> t]

\* The same pictures in every field; and one that changes nearly everything.
Steady ==
  [ica |-> At(<<To("VSR", 3), To("VSR", 3), To("VSR_STOP", 0)>>, <<Op("NONE"), To("VSR_STOP", 32)>>),
   dca |-> At([i \in 1 .. 6 |-> To("DCP_STOP", 1)], [i \in 1 .. 3 |-> To("DCP_STOP", 1)])]

Busy ==
  [ica |-> At(<<Op("NONE"), [op |-> "CLUT", index |-> 3, rgb |-> <<15, 1, 8>>],
                [op |-> "MATTE", index |-> 1, command |-> ResetAt(2, 1)],
                [op |-> "CODING", high_clut |-> TRUE, two_mattes |-> TRUE, a |-> "CLUT77", b |-> "CLUT7"],
                [op |-> "MIX", mixing |-> TRUE, a |-> Opaque, b |-> Test("key", 0)],
                [op |-> "ORDER", b_front |-> TRUE],
                [op |-> "CURSOR_POSITION", x |-> 2, y |-> 1],
                [op |-> "CURSOR_CONTROL", enabled |-> TRUE, color |-> [bright |-> FALSE, bits |-> <<1, 1, 0>>],
                 complement |-> TRUE, on |-> 1, off |-> 1, fine |-> TRUE],
                [op |-> "CURSOR_PATTERN", row |-> 0, pattern |-> [j \in {0, 1} |-> 1]],
                [op |-> "BACKDROP", color |-> [bright |-> TRUE, bits |-> <<1, 1, 1>>]],
                To("VSR_STOP", 8)>>,
              <<Op("SIGNAL"), [op |-> "BANK", bank |-> 2],
                [op |-> "CLUT", index |-> 1, rgb |-> <<2, 12, 4>>],
                [op |-> "FILE", wide |-> TRUE, file_type |-> "RUN", bits |-> "NORMAL_8", mosaic |-> 0],
                [op |-> "DYUV", plane |-> "B", yuv |-> <<1, 2, 3>>], Op("STOP")>>),
   dca |-> At(<<[op |-> "ICF", plane |-> "A", factor |-> 1], Op("SIGNAL"),
                [op |-> "HOLD", plane |-> "A", hold |-> FALSE, count |-> 1], To("DCP_STOP", 5),
                [op |-> "KEY", plane |-> "A", rgb |-> <<2, 4, 6>>], To("DCP", 1)>>,
              <<[op |-> "MASK", plane |-> "B", rgb |-> <<1, 1, 1>>], To("VSR", 40), To("DCP_STOP", 1)>>)]

MCAreas == {Steady, Busy}
Start(r0, a, w) == [r |-> r0, areas |-> a, write |-> w]
MCStarts ==
  {Start(Runs, Steady, Ntsc), Start(Runs, Steady, Interlaced), Start(Mixed, Steady, Narrowed),
   Start(Keyed, Steady, Ntsc), Start(Paired, Steady, Ntsc), Start(Mixed, Busy, Standard)}
MCBase == [narrow |-> 2, wide |-> 3]
MCHeights == [short |-> 2, tall |-> 3]
MCTotal == [ntsc |-> 3, pal |-> 4]
MCBlanking == [ntsc |-> 1, st |-> 2, pal |-> 1]
MCLimit == [ica |-> 12, dca |-> 3]
=============================================================================
