-------------------------------- MODULE Video --------------------------------
(***************************************************************************)
(* The pixel pipeline (runner/src/mcd212_video.c) as operators: control    *)
(* instructions on the registers r, the decoders of a plane's line, the    *)
(* reference compositor, and the scanout job of the CDI_VIDEO_HLE build,   *)
(* which works in spans and feeds run-length sources directly.             *)
(*                                                                         *)
(* Widths are scaled: a byte has ByteBits bits, a colour component is a    *)
(* byte, an image contribution factor is 0 .. Factors and a cursor pattern *)
(* is CursorSize rows of as many bits. An instruction is the record of its *)
(* fields. A pixel is [key, rgb]: bit 31 and the three components.         *)
(***************************************************************************)
EXTENDS Integers, Sequences, Bitwise, TLC

CONSTANTS
  ByteBits,      \* 8 in the code; even
  Factors,       \* 63
  Black,         \* 16: the component level that contributes nothing
  Delta,         \* the DYUV quantizer, a byte for each half byte
  Narrow,        \* 384: a source of at most so many pixels is doubled
  MaxWidth,      \* MCD212_VIDEO_MAX_WIDTH
  Mattes,        \* 8 matte commands
  CursorSize,    \* 16
  BlinkFields    \* 12 fields a blink unit

Planes == {"A", "B"}
Bytes == 2^ByteBits
Half == 2^(ByteBits \div 2)
RunFlag == Bytes \div 2
Columns == 0 .. MaxWidth - 1
Clear == [key |-> 0, rgb |-> <<0, 0, 0>>]

saturate(v) == IF v < 0 THEN 0 ELSE IF v >= Bytes THEN Bytes - 1 ELSE v
\* C's division truncates.
Quot(a, b) == IF a < 0 THEN -((-a) \div b) ELSE a \div b
OnEach(Op(_), rgb) == <<Op(rgb[1]), Op(rgb[2]), Op(rgb[3])>>
\* f itself, as a table.
Table(f) == f @@ <<>>

yrgb_color(code) ==
  OnEach(LAMBDA b : IF b = 0 THEN 0 ELSE IF code.bright THEN Bytes - 1 ELSE RunFlag - 1, code.bits)

-----------------------------------------------------------------------------
(* mcd212_video_control. *)

\* Settings with which the code stops (a blink with no time on, a hold of zero pixels, a
\* reserved depth) are not given.  Instructions of plane A's program only; the others name the
\* plane they take.
OnlyA == {"CODING", "MIX", "ORDER", "CURSOR_POSITION", "CURSOR_CONTROL", "CURSOR_PATTERN", "BACKDROP"}

mcd212_video_control(r, plane, ins, field) ==
  IF ins.op \in OnlyA /\ plane # "A" THEN r ELSE
  CASE ins.op = "CLUT" ->
         IF plane = "A" \/ r.clut_bank >= 2
         THEN [r EXCEPT !.clut[r.clut_bank * (Bytes \div 4) + ins.index] = [key |-> 1, rgb |-> ins.rgb]]
         ELSE r
    [] ins.op = "MATTE" -> [r EXCEPT !.matte[ins.index] = ins.command]
    [] ins.op = "FILE" ->
         [r EXCEPT !.plane[plane].file_type = ins.file_type, !.plane[plane].bits = ins.bits,
                   !.plane[plane].mosaic = 2^(1 + ins.mosaic)]
    [] ins.op = "CODING" ->
         [r EXCEPT !.high_clut = ins.high_clut, !.two_mattes = ins.two_mattes,
                   !.plane["A"].coding = ins.a, !.plane["B"].coding = ins.b]
    [] ins.op = "MIX" ->
         [r EXCEPT !.mixing = ins.mixing, !.plane["A"].transparency = ins.a,
                   !.plane["B"].transparency = ins.b]
    [] ins.op = "ORDER" -> [r EXCEPT !.b_front = ins.b_front]
    [] ins.op = "BANK" -> [r EXCEPT !.clut_bank = ins.bank]
    [] ins.op = "CURSOR_POSITION" -> [r EXCEPT !.cursor.x = ins.x, !.cursor.y = ins.y]
    [] ins.op = "CURSOR_CONTROL" ->
         [r EXCEPT !.cursor.enabled = ins.enabled, !.cursor.color = ins.color,
                   !.cursor.complement = ins.complement, !.cursor.on = ins.on,
                   !.cursor.off = ins.off, !.cursor.fine = ins.fine, !.cursor.start = field]
    [] ins.op = "CURSOR_PATTERN" -> [r EXCEPT !.cursor.pattern[ins.row] = ins.pattern]
    [] ins.op = "BACKDROP" -> [r EXCEPT !.backdrop = ins.color]
    [] ins.op \in {"KEY", "MASK", "DYUV", "HOLD", "ICF"} /\ ins.plane = plane ->
         [r EXCEPT !.plane[plane] =
            CASE ins.op = "KEY" -> [@ EXCEPT !.key_color = ins.rgb]
              [] ins.op = "MASK" -> [@ EXCEPT !.mask = ins.rgb]
              [] ins.op = "DYUV" -> [@ EXCEPT !.initial = ins.yuv]
              [] ins.op = "HOLD" -> [@ EXCEPT !.hold = ins.hold, !.hold_count = ins.count]
              [] ins.op = "ICF" -> [@ EXCEPT !.factor = ins.factor]]
    [] OTHER -> r

-----------------------------------------------------------------------------
(* The decoders. Each returns the row it leaves and the bytes it consumed. *)

\* The row is cleared first; f gives its first pixels.
Filled(f) == Table([x \in Columns |-> IF x \in DOMAIN f THEN f[x] ELSE Clear])

clut_lookup(r, p, i) ==
  LET high == p = "B" \/ (r.plane["A"].coding = "CLUT77" /\ r.high_clut)
  IN  r.clut[(i + IF high THEN Bytes \div 2 ELSE 0) % Bytes]

decode_clut(r, ram, p, at, n, copies) ==
  IF r.plane[p].coding = "CLUT4"
  THEN [row |-> Filled([x \in 0 .. n - 1 |->
                  LET b == ram[at + x \div 2]
                  IN  clut_lookup(r, p, IF x % 2 = 0 THEN b \div Half ELSE b % Half)]),
        used |-> (n + 1) \div 2]
  ELSE [row |-> Filled([x \in 0 .. n * copies - 1 |->
                  LET b == ram[at + x \div copies]
                  IN  clut_lookup(r, p, IF r.plane[p].coding = "CLUT8" THEN b ELSE b % RunFlag)]),
        used |-> n]

\* One bit and three fields in the bytes of both planes.
decode_rgb555(ram, at_a, at, n) ==
  LET F == 2^((2 * ByteBits - 1) \div 3)
      Color(w) == [key |-> w \div (Bytes * RunFlag),
                   rgb |-> [i \in 1 .. 3 |-> ((w \div F^(3 - i)) % F) * (Bytes \div F)]]
  IN  [row |-> Filled([x \in 0 .. 2 * n - 1 |->
                 Color(ram[at_a + x \div 2] * Bytes + ram[at + x \div 2])]),
       used |-> n]

dyuv_rgb(y, u, v) ==
  LET U == u - RunFlag
      V == v - RunFlag
  IN  [key |-> 1, rgb |-> <<saturate(y + Quot(351 * V, 256)),
                            saturate(y - Quot(86 * U, 256) - Quot(179 * V, 256)),
                            saturate(y + Quot(444 * U, 256))>>]

\* Two pixels to a pair of bytes; half the chroma step on the first, following the
\* signed delta across the wrap of a byte.
decode_dyuv(r, ram, p, at, n, copies) ==
  LET Signed(d) == IF d >= RunFlag THEN d - Bytes ELSE d
      Halved(d) == IF d >= 0 THEN d \div 2 ELSE -((-d + 1) \div 2)
      First(i) == ram[at + 2 * i]
      Second(i) == ram[at + 2 * i + 1]
      DU(i) == Signed(Delta[First(i) \div Half])
      DV(i) == Signed(Delta[Second(i) \div Half])
      y1(s, i) == (s[1] + Delta[First(i) % Half]) % Bytes
      after[i \in 0 .. (n + 1) \div 2] ==
        IF i = 0 THEN r.plane[p].initial
        ELSE LET s == after[i - 1]
             IN  <<(y1(s, i - 1) + Delta[Second(i - 1) % Half]) % Bytes,
                   (s[2] + DU(i - 1)) % Bytes, (s[3] + DV(i - 1)) % Bytes>>
      Pixel(x) ==
        LET s == after[x \div 2]
            e == after[x \div 2 + 1]
        IN  IF x % 2 = 1 THEN dyuv_rgb(e[1], e[2], e[3])
            ELSE dyuv_rgb(y1(s, x \div 2), (s[2] + Halved(DU(x \div 2))) % Bytes,
                          (s[3] + Halved(DV(x \div 2))) % Bytes)
  IN  [row |-> Filled([x \in 0 .. n * copies - 1 |-> Pixel(x \div copies)]),
       used |-> 2 * ((n + 1) \div 2)]

\* A run: its format byte, and a count byte where the flag is set; zero is the rest.
Run(ram, at, rest) ==
  LET flagged == ram[at] >= RunFlag
      n == ram[at + 1]
  IN  [format |-> ram[at], used |-> IF flagged THEN 2 ELSE 1,
       count |-> IF ~flagged THEN 1 ELSE IF n = 0 THEN rest ELSE n]

decode_run_length(r, ram, p, at, n) ==
  LET paired == r.plane[p].bits = "DOUBLE_4"
      unit == IF paired THEN 2 ELSE 1
      copies == IF ~paired /\ n <= Narrow THEN 2 ELSE 1
      Color(run, x) ==
        clut_lookup(r, p, IF ~paired THEN run.format % RunFlag
                          ELSE IF x % 2 = 0 THEN (run.format \div Half) % (Half \div 2)
                          ELSE run.format % (Half \div 2))
      after[k \in 0 .. n] ==
        IF k = 0 THEN [x |-> 0, used |-> 0, pixels |-> <<>>]
        ELSE LET s == after[k - 1]
                 run == Run(ram, at + s.used, (n - s.x) \div unit)
                 end == IF s.x + run.count * unit > n THEN n ELSE s.x + run.count * unit
             IN  IF s.x >= n THEN s
                 ELSE [x |-> end, used |-> s.used + run.used,
                       pixels |-> s.pixels \o [i \in 1 .. end - s.x |-> Color(run, s.x + i - 1)]]
      done == after[n]
  IN  [row |-> Filled([x \in 0 .. n * copies - 1 |-> done.pixels[x \div copies + 1]]),
       used |-> done.used]

\* width is the line's, n the source's.
decode_plane(r, ram, p, at, at_a, n, width) ==
  LET s == r.plane[p]
      wide == \/ s.file_type # "RUN" /\ s.coding = "CLUT4"
              \/ s.file_type = "RUN" /\ s.bits \in {"DOUBLE_4", "HIGH_8"}
      source == IF wide THEN width ELSE n
      mosaic == IF s.file_type = "MOSAIC" THEN s.mosaic ELSE 1
      pixels == (source + mosaic - 1) \div mosaic
      copies == IF s.coding # "CLUT4" /\ source <= Narrow THEN 2 ELSE 1
      Repeated(d) == [d EXCEPT !.row = Table([x \in Columns |-> IF x < width THEN d.row[x \div mosaic]
                                                              ELSE d.row[x]])]
  IN  CASE s.coding = "OFF" -> [row |-> Filled(<<>>), used |-> 0]
        [] s.coding # "OFF" /\ s.file_type = "RUN" -> decode_run_length(r, ram, p, at, source)
        [] OTHER -> Repeated(CASE s.coding = "RGB555" -> decode_rgb555(ram, at_a, at, pixels)
                               [] s.coding = "DYUV" -> decode_dyuv(r, ram, p, at, pixels, copies)
                               [] OTHER -> decode_clut(r, ram, p, at, pixels, copies))

apply_pixel_hold(r, p, row, width) ==
  IF ~r.plane[p].hold THEN row
  ELSE Table([x \in Columns |-> IF x < width THEN row[x - (x % r.plane[p].hold_count)] ELSE row[x]])

-----------------------------------------------------------------------------
(* Composition. *)

contribution(c, factor) == saturate(Quot(factor * (c - Black), Factors) + Black)
apply_contribution(pixel, factor) == OnEach(LAMBDA c : contribution(c, factor), pixel.rgb)
add_planes(a, b) == OnEach(LAMBDA v : saturate(v - Black), <<a[1] + b[1], a[2] + b[2], a[3] + b[3]>>)

\* The lowest bits of a component do not count.
matches_color_key(r, p, pixel) ==
  \A i \in 1 .. 3 : LET s == r.plane[p]
                    IN  (pixel.rgb[i] | s.mask[i]) \div 2 = (s.key_color[i] | s.mask[i]) \div 2

transparent_pixel(r, p, pixel, flag) ==
  LET t == r.plane[p].transparency
      predicate ==
        CASE t.test = "always" -> TRUE [] t.test = "never" -> FALSE
          [] t.test = "key" -> matches_color_key(r, p, pixel)
          [] t.test = "bit" -> pixel.key = 1
          [] t.test = "matte" -> flag[t.matte]
          [] t.test = "matte_or_key" -> flag[t.matte] \/ matches_color_key(r, p, pixel)
  IN  predicate # t.inverted

\* The two matte pointers: one over all commands, or each over its half.
initialize_matte_state(r) ==
  LET all == r.matte[0].matte
      Of(m) == IF r.two_mattes THEN <<m * (Mattes \div 2), (m + 1) * (Mattes \div 2)>>
                  ELSE IF m = all THEN <<0, Mattes>> ELSE <<Mattes, Mattes>>
  IN  [next |-> Table([m \in {0, 1} |-> Of(m)[1]]), limit |-> Table([m \in {0, 1} |-> Of(m)[2]]),
       flag |-> Table([m \in {0, 1} |-> FALSE]), factor |-> Table([p \in Planes |-> r.plane[p].factor])]

\* One command: [op, matte, factor, x] with op a record of what it sets.
Matted(s, m, c) ==
  IF c.op = "END" THEN [s EXCEPT !.next[m] = s.limit[m]]
  ELSE [s EXCEPT !.next[m] = @ + 1,
                 !.factor = Table([p \in Planes |-> IF p \in c.sets THEN c.factor ELSE @[p]]),
                 !.flag[m] = CASE c.op = "SET" -> TRUE [] c.op = "RESET" -> FALSE [] OTHER -> @]

apply_matte_commands(r, s, x) ==
  LET Run1(start, m) ==
        LET after[k \in 0 .. Mattes] ==
              IF k = 0 THEN start
              ELSE LET t == after[k - 1]
                   IN  IF t.next[m] < t.limit[m] /\ r.matte[t.next[m]].x <= x
                       THEN Matted(t, m, r.matte[t.next[m]]) ELSE t
        IN  after[Mattes]
  IN  Run1(Run1(s, 0), 1)

\* What a pixel shows, and the capture's span for it: ta and tb say which plane is
\* transparent, ca and cb are their contributions.
Composition(r, a, b, matte, ta, tb, ca, cb) ==
  LET front == IF r.b_front THEN "B" ELSE "A"
      T(p) == IF p = "A" THEN ta ELSE tb
      Shown(p) == [rgb |-> IF p = "A" THEN ca ELSE cb,
                   span |-> [mode |-> 1, a |-> IF p = "A" THEN a.rgb ELSE b.rgb, fa |-> matte.factor[p],
                             b |-> <<0, 0, 0>>, fb |-> 0],
                   verdict |-> <<ta, tb, IF p = front THEN "front" ELSE "back">>]
      Backdrop(rgb) == [rgb |-> rgb, verdict |-> <<ta, tb, "backdrop">>,
                        span |-> [mode |-> 0, a |-> rgb, fa |-> 0, b |-> <<0, 0, 0>>, fb |-> 0]]
  IN  IF r.mixing /\ ~ta /\ ~tb
      THEN [rgb |-> add_planes(ca, cb), verdict |-> <<ta, tb, "mixed">>,
            span |-> [mode |-> 2, a |-> a.rgb, fa |-> matte.factor["A"],
                      b |-> b.rgb, fb |-> matte.factor["B"]]]
      ELSE IF ta /\ tb THEN Backdrop(yrgb_color(r.backdrop))
      ELSE Shown(IF ~T(front) THEN front ELSE IF r.b_front THEN "A" ELSE "B")

Composed(r, a, b, matte) ==
  Composition(r, a, b, matte,
              transparent_pixel(r, "A", a, matte.flag), transparent_pixel(r, "B", b, matte.flag),
              apply_contribution(a, matte.factor["A"]), apply_contribution(b, matte.factor["B"]))

\* The cursor's colour in this field, or none while it blinks off.
CursorColor(r, field) ==
  LET c == r.cursor
      on == BlinkFields * c.on
      off == c.off # 0 /\ (field - c.start) % (on + BlinkFields * c.off) >= on
  IN  OnEach(LAMBDA v : IF off THEN Bytes - 1 - v ELSE v, yrgb_color(c.color))

CursorShown(r, line, field) ==
  LET c == r.cursor
  IN  /\ c.enabled /\ line >= c.y /\ line < c.y + CursorSize
      /\ \/ c.off = 0 \/ c.complement
         \/ (field - c.start) % (BlinkFields * (c.on + c.off)) < BlinkFields * c.on

\* The columns it covers: each bit of the row's pattern is one or two wide.
CursorColumns(r, line) ==
  LET scale == IF r.cursor.fine THEN 1 ELSE 2
      bits == {i \in 0 .. CursorSize - 1 : r.cursor.pattern[line - r.cursor.y][i] = 1}
  IN  {r.cursor.x + i * scale + k : i \in bits, k \in 0 .. scale - 1}

draw_cursor(r, line, field, cells) ==
  IF ~CursorShown(r, line, field) THEN cells
  ELSE LET columns == CursorColumns(r, line)
           color == CursorColor(r, field)
       IN  [x \in DOMAIN cells |-> IF x \in columns THEN [cells[x] EXCEPT !.rgb = color]
                                   ELSE cells[x]]

\* A line as it is drawn: in its cells what is shown and both planes, the decoded
\* rows, and the bytes taken from each plane.
Line(r, d, cells) ==
  [cells |-> Table(cells), decoded |-> Table([p \in Planes |-> d[p].row]),
   used |-> Table([p \in Planes |-> IF r.plane["B"].coding = "RGB555" THEN d["B"].used ELSE d[p].used])]

Cell(c, a, b) == [rgb |-> c.rgb, verdict |-> c.verdict, a |-> a.rgb, b |-> b.rgb]

compose_line(r, d, line, width, field) ==
  LET matte[x \in -1 .. width - 1] ==
        IF x = -1 THEN initialize_matte_state(r) ELSE apply_matte_commands(r, matte[x - 1], x)
      At(x, a, b) == Cell(Composed(r, a, b, matte[x]), a, b)
  IN  Line(r, d, draw_cursor(r, line, field,
                             Table([x \in 0 .. width - 1 |-> At(x, d["A"].row[x], d["B"].row[x])])))

\* mcd212_video_draw_line of the reference build.
reference_line(r, ram, at, line, n, width, field) ==
  LET Held(p, q) == [q EXCEPT !.row = apply_pixel_hold(r, p, q.row, width)]
  IN  compose_line(r, Table([p \in Planes |->
                        Held(p, decode_plane(r, ram, p, at[p], at["A"], n[p], width))]),
                   line, width, field)

-----------------------------------------------------------------------------
(* The scanout job. *)

\* A run-length source whose runs fill the line is not decoded first.
Direct(r, p, n, width, scale) ==
  /\ ~r.plane[p].hold /\ r.plane[p].coding \in {"CLUT8", "CLUT7", "CLUT77", "CLUT4"}
  /\ r.plane[p].file_type = "RUN" /\ r.plane[p].bits # "DOUBLE_4"
  /\ n * scale = width

scanout_source(r, ram, p, at, at_a, n, width) ==
  LET pixels == IF r.plane[p].file_type = "RUN" /\ r.plane[p].bits = "HIGH_8" THEN width ELSE n
      scale == IF pixels <= Narrow THEN 2 ELSE 1
      Source(direct, d) ==
        [direct |-> direct, at |-> at, pixels |-> pixels, scale |-> scale, produced |-> 0,
         end |-> 0, color |-> Clear, used |-> IF direct THEN 0 ELSE d.used,
         row |-> IF direct THEN Filled(<<>>) ELSE apply_pixel_hold(r, p, d.row, width)]
  IN  Source(Direct(r, p, pixels, width, scale), decode_plane(r, ram, p, at, at_a, n, width))

\* The next run of a direct source, the next pixels of one colour of a decoded row.
scanout_next(r, ram, p, s, x, width) ==
  LET rest == s.pixels - s.produced
      run == Run(ram, s.at + s.used, rest)
      made == s.produced + IF run.count > rest THEN rest ELSE run.count
      Same(e) == \A i \in x .. e - 1 : s.row[i] = s.row[x]
  IN  IF x < s.end THEN s
      ELSE IF s.direct
      THEN [s EXCEPT !.used = @ + run.used, !.produced = made, !.end = made * s.scale,
                     !.color = clut_lookup(r, p, run.format % RunFlag)]
      ELSE [s EXCEPT !.color = s.row[x],
                     !.end = CHOOSE e \in x + 1 .. width :
                               Same(e) /\ (e = width \/ s.row[e] # s.row[x])]

scanout_matte_end(r, matte, width) ==
  LET waiting == {m \in {0, 1} : matte.next[m] < matte.limit[m]}
      ends == {r.matte[matte.next[m]].x : m \in waiting} \cup {width}
  IN  CHOOSE e \in ends : \A f \in ends : e <= f

Least(a, b) == IF a < b THEN a ELSE b
Most(a, b) == IF a < b THEN b ELSE a

\* One span, from k.x to end: a direct source leaves its colour in the row.
Spanned(k, s, matte, end, c) ==
  LET Painted(q) == IF ~q.direct THEN q.row
                    ELSE Table([x \in Columns |-> IF x \in k.x .. end - 1 THEN q.color ELSE q.row[x]])
      Shown(cell) == [i \in 1 .. end - k.x |-> cell]
  IN  [x |-> end, matte |-> matte,
       s |-> Table([p \in Planes |-> [s[p] EXCEPT !.row = Painted(s[p])]]),
       cells |-> k.cells \o Shown(Cell(c, s["A"].color, s["B"].color)),
       spans |-> Append(k.spans, [first |-> k.x, last |-> end, of |-> c.span])]

ComposeSpan(r, k, s, matte, width) ==
  Spanned(k, s, matte,
          Least(Least(s["A"].end, s["B"].end), scanout_matte_end(r, matte, width)),
          Composed(r, s["A"].color, s["B"].color, matte))

\* Span by span: both sources, the mattes, and one composition for all its pixels.
scanout_job(r, ram, at, line, n, width, field) ==
  LET start == [x |-> 0, matte |-> initialize_matte_state(r), cells |-> <<>>, spans |-> <<>>,
                s |-> Table([p \in Planes |-> scanout_source(r, ram, p, at[p], at["A"], n[p], width)])]
      Next1(k) ==
        IF k.x >= width THEN k
        ELSE ComposeSpan(r, k, Table([p \in Planes |-> scanout_next(r, ram, p, k.s[p], k.x, width)]),
                         apply_matte_commands(r, k.matte, k.x), width)
      after[i \in 0 .. width] == IF i = 0 THEN start ELSE Next1(after[i - 1])
      Finished(done) ==
        Line(r, done.s, draw_cursor(r, line, field, [x \in 0 .. width - 1 |-> done.cells[x + 1]]))
          @@ [spans |-> done.spans]
  IN  Finished(after[width])
=============================================================================
