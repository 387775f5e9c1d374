------------------------------- MODULE Display -------------------------------
(***************************************************************************)
(* The raster engine and the display state of the native build: the scan   *)
(* sequencer and its control programs (runner/src/mcd212.c), the lines     *)
(* that are drawn or kept and the two frame buffers (mcd212_video.c), and  *)
(* the captured raster (cdi_raster_jobs.c). ref is what the reference      *)
(* build, which draws every line and copies every buffer, has made of the  *)
(* same inputs.                                                            *)
(*                                                                         *)
(* Guest and host act between any two raster lines, a bounded number of    *)
(* times. A control area is a sequence of instruction records. What the    *)
(* end of a field tells other components (input schedule, debug ring, stop *)
(* frame) is theirs.                                                       *)
(***************************************************************************)
EXTENDS Video

CONSTANTS
  Pixels,             \* the initial contents of the DRAM the planes are read from
  Pokes,              \* [at, byte]: what the guest writes there
  Areas,              \* [ica, dca]: control areas of both planes
  Starts,             \* [r, areas, write]: a guest's first setups
  Modes,              \* the setups of DCR, VSR and CSR the guest writes registers of
  Base,               \* [narrow, wide]: 360, 384
  Heights,            \* [short, tall]: 240, 280
  Total,              \* [ntsc, pal]: 262, 312 lines a field
  Blanking,           \* [ntsc, st, pal]: 22, 72, 32 lines
  MaxHeight,          \* MCD212_VIDEO_MAX_HEIGHT
  Limit,              \* [ica, dca]: instructions run in one go
  MaxFields,          \* bound on the fields
  MaxChanges          \* bound on what guest and host do

VARIABLES
  ram,          \* DRAM bytes
  areas,        \* the control areas
  mode,         \* [de, cf, fd, sm, st, ica, dca, mute]: bits of DCR1, DCR2, CSR1W and CSR2W
  vsr, dcp,     \* video start and dynamic control pointers
  wide,         \* the planes with DCR_COLOR_MODE
  interrupts,   \* interrupt_status: planes whose program signalled
  request,      \* the level-1 request at the processor
  raster_line, image_line, parity, active,
  r,            \* VideoRegisters
  width, height,
  frame,        \* the two buffers
  snap,         \* plane_frame and verdict_frame: the diagnostic cells
  decoded,
  drawing,      \* drawing_buffer
  lines,        \* completed_lines
  field,        \* generation: fields published
  content,      \* content_generation
  published,    \* the published buffer's geometry and picture
  capture,      \* g_cdi_raster_capture_enabled
  spans,        \* the working rows, or none
  raster,       \* what the captured frame paints, with its geometry
  changes,
  ref           \* the reference build

registers == <<mode, vsr, dcp, wide>>
scan == <<raster_line, image_line, parity, active>>
buffers == <<width, height, frame, snap, decoded, drawing, lines>>
picture == <<buffers, field, content, published>>
captured == <<capture, spans, raster>>
vars == <<ram, areas, registers, interrupts, request, scan, r, picture, captured, changes, ref>>

Offsets == 0 .. MaxWidth * MaxHeight - 1
Rows == 0 .. MaxHeight - 1
Dark == <<0, 0, 0>>
NoLine == [valid |-> FALSE]
NoRow == <<>>
NoRaster == [w |-> 0, h |-> 0, shown |-> <<>>]
NoLines == [y \in Rows |-> NoLine]
NoRows == [y \in Rows |-> NoRow]
Other(b) == 1 - b

\* What a buffer shows in a geometry.
Picture(f, w, h) == Table([i \in 0 .. w * h - 1 |-> f[i]])

\* mcd212_reset and mcd212_video_reset, and a guest's first setup.
Init ==
  /\ ram \in Pixels
  /\ \E s \in Starts : /\ areas = s.areas /\ r = s.r
                       /\ mode = s.write.mode /\ wide = s.write.wide /\ vsr = s.write.vsr
  /\ dcp = [p \in Planes |-> 1]
  /\ interrupts = {} /\ request = FALSE
  /\ raster_line = 0 /\ image_line = 0 /\ parity = FALSE /\ active = FALSE
  /\ width = 2 * Base.wide /\ height = Heights.tall
  /\ frame = [b \in {0, 1} |-> [i \in Offsets |-> Dark]]
  /\ snap = [i \in Offsets |-> <<>>]
  /\ decoded = [p \in Planes |-> Filled(<<>>)]
  /\ drawing = 1 /\ lines = NoLines
  /\ field = 0 /\ content = 0
  /\ published = [w |-> width, h |-> height, picture |-> Picture(frame[0], width, height)]
  /\ capture = FALSE /\ spans = NoRows /\ raster = NoRaster
  /\ changes = 0
  /\ ref = [frame |-> frame[0], snap |-> snap, decoded |-> decoded,
            used |-> [p \in Planes |-> 0], taken |-> [p \in Planes |-> 0]]

-----------------------------------------------------------------------------
(* Geometry. *)

raster_width == IF ~mode.cf /\ ~mode.st THEN Base.narrow ELSE Base.wide
raster_height == IF mode.fd \/ (~mode.cf /\ ~mode.st) THEN Heights.short ELSE Heights.tall
total_raster_lines == IF mode.fd THEN Total.ntsc ELSE Total.pal
blanking_lines == IF mode.fd THEN Blanking.ntsc ELSE IF mode.st THEN Blanking.st ELSE Blanking.pal

-----------------------------------------------------------------------------
(* Control programs: the state they run on is the record k. *)

signal_control_interrupt(k, p) ==
  [k EXCEPT !.interrupts = @ \cup {p}, !.request = @ \/ p \notin mode.mute]

\* In the initial area VSR moves the stream itself.
execute_flow_command(k, p, ins, initial) ==
  CASE ins.op \in {"DCP", "DCP_STOP"} -> [k EXCEPT !.dcp[p] = ins.to]
    [] ins.op = "VSR" /\ initial -> [k EXCEPT !.at = ins.to]
    [] ins.op = "VSR_STOP" \/ (ins.op = "VSR" /\ ~initial) -> [k EXCEPT !.vsr[p] = ins.to]
    [] ins.op = "SIGNAL" -> signal_control_interrupt(k, p)
    [] ins.op = "FILE" -> [k EXCEPT !.wide = IF ins.wide THEN @ \cup {p} ELSE @ \ {p}]
    [] OTHER -> k

Executed(k, p, ins, initial) ==
  LET d == execute_flow_command(k, p, ins, initial)
  IN  IF ins.op \in {"STOP", "DCP_STOP", "VSR_STOP"} THEN [d EXCEPT !.stop = TRUE]
      ELSE [d EXCEPT !.r = mcd212_video_control(d.r, p, ins, field)]

\* In an interlaced even field the program starts at its second instruction.
run_initial_control_area(k, p) ==
  LET after[i \in 0 .. Limit.ica] ==
        IF i = 0 THEN [k EXCEPT !.at = IF mode.sm /\ ~parity THEN 2 ELSE 1, !.stop = FALSE]
        ELSE LET j == after[i - 1]
             IN  IF j.stop THEN j
                 ELSE Executed([j EXCEPT !.at = @ + 1], p, areas.ica[p][j.at], TRUE)
  IN  after[Limit.ica]

run_dynamic_control_area(k, p) ==
  LET after[i \in 0 .. Limit.dca] ==
        IF i = 0 THEN [k EXCEPT !.stop = FALSE]
        ELSE LET j == after[i - 1]
             IN  IF j.stop THEN j
                 ELSE Executed([j EXCEPT !.dcp[p] = @ + 1], p, areas.dca[p][j.dcp[p]], FALSE)
  IN  after[Limit.dca]

InBoth(k, Area(_, _), enabled) ==
  LET a == IF "A" \in enabled THEN Area(k, "A") ELSE k
  IN  IF "B" \in enabled THEN Area(a, "B") ELSE a

Control == [r |-> r, vsr |-> vsr, dcp |-> dcp, wide |-> wide, interrupts |-> interrupts,
            request |-> request, at |-> 0, stop |-> FALSE]

Controlled(k) ==
  /\ r' = k.r /\ vsr' = k.vsr /\ dcp' = k.dcp /\ wide' = k.wide
  /\ interrupts' = k.interrupts /\ request' = k.request

-----------------------------------------------------------------------------
(* The captured raster. Its rows are sequences of spans [first, last, of]. *)

\* A span that continues the last one extends it.
append(row, first, last, of) ==
  IF last <= first THEN row
  ELSE IF row # <<>> /\ row[Len(row)].last = first /\ row[Len(row)].of = of
       THEN [row EXCEPT ![Len(row)].last = last]
       ELSE Append(row, [first |-> first, last |-> last, of |-> of])

Plain(rgb) == [mode |-> 0, a |-> rgb, fa |-> 0, b |-> Dark, fb |-> 0]

Appended(list) ==
  LET row[i \in 0 .. Len(list)] ==
        IF i = 0 THEN <<>> ELSE append(row[i - 1], list[i].first, list[i].last, list[i].of)
  IN  row[Len(list)]

cdi_raster_overlay(row, first, last, rgb) ==
  LET Cut(s) ==
        IF s.last <= first \/ s.first >= last THEN <<s>>
        ELSE <<[s EXCEPT !.last = Least(@, first)],
               [first |-> Most(s.first, first), last |-> Least(s.last, last), of |-> Plain(rgb)],
               [s EXCEPT !.first = Most(@, last)]>>
      cut[i \in 0 .. Len(row)] == IF i = 0 THEN <<>> ELSE cut[i - 1] \o Cut(row[i])
  IN  Appended(cut[Len(row)])

\* The overlays of draw_cursor, one for each set bit of the pattern.
Overlaid(row, y, w) ==
  LET c == r.cursor
      scale == IF c.fine THEN 1 ELSE 2
      over[i \in 0 .. CursorSize] ==
        IF i = 0 THEN row
        ELSE LET x == c.x + (i - 1) * scale
             IN  IF c.pattern[y - c.y][i - 1] = 0 \/ x >= w THEN over[i - 1]
                 ELSE cdi_raster_overlay(over[i - 1], x, Least(x + scale, w), CursorColor(r, field))
  IN  IF CursorShown(r, y, field) THEN over[CursorSize] ELSE row

\* cdi_raster_begin of a row in a geometry: of another one nothing is kept.
Begun(cap, w, h) ==
  IF cap.raster.w = w /\ cap.raster.h = h THEN cap
  ELSE [spans |-> NoRows, raster |-> [w |-> w, h |-> h, shown |-> <<>>]]

\* A line that was kept has no span, and leaves its row as it is.
cdi_raster_finish(cap, y, row) == IF row = <<>> THEN cap ELSE [cap EXCEPT !.spans[y] = row]

\* Faulty variant: the black level counts twice in a mixed span.
Faulty_cdi_raster_color(s) ==
  CASE s.mode = 0 -> s.a
    [] s.mode = 1 -> OnEach(LAMBDA c : contribution(c, s.fa), s.a)
    [] s.mode = 2 -> LET a == OnEach(LAMBDA c : contribution(c, s.fa), s.a)
                         b == OnEach(LAMBDA c : contribution(c, s.fb), s.b)
                     IN  OnEach(saturate, <<a[1] + b[1], a[2] + b[2], a[3] + b[3]>>)

cdi_raster_color(s) ==
  CASE s.mode = 0 -> s.a
    [] s.mode = 1 -> OnEach(LAMBDA c : contribution(c, s.fa), s.a)
    [] s.mode = 2 -> add_planes(OnEach(LAMBDA c : contribution(c, s.fa), s.a),
                                OnEach(LAMBDA c : contribution(c, s.fb), s.b))

cdi_raster_native(rows, w, h) ==
  [i \in 0 .. w * h - 1 |->
     LET row == rows[i \div w]
         s == CHOOSE j \in 1 .. Len(row) : row[j].first <= i % w /\ i % w < row[j].last
     IN  cdi_raster_color(row[s].of)]

\* Rows that no job has captured are taken from the pixels.
cdi_raster_publish(f, w, h, cap) ==
  LET begun == Begun(cap, w, h)
      Native(y) == Appended([x \in 1 .. w |-> [first |-> x - 1, last |-> x,
                                               of |-> Plain(f[y * w + x - 1])]])
      rows == Table([y \in Rows |-> IF y < h /\ begun.spans[y] = NoRow THEN Native(y) ELSE begun.spans[y]])
  IN  [spans |-> rows, raster |-> [w |-> w, h |-> h, shown |-> cdi_raster_native(rows, w, h)]]

-----------------------------------------------------------------------------
(* A line: drawn by the scanout job, or kept (reusable_line). *)

\* mcd212_video_begin_frame at the first line of a field.
First == image_line <= 1
Width == IF First THEN 2 * raster_width ELSE width
Height == IF First THEN raster_height * (IF mode.sm THEN 2 ELSE 1) ELSE height
Lines == IF First /\ (Width # width \/ Height # height) THEN NoLines ELSE lines

Blinks(y) ==
  r.cursor.enabled /\ r.cursor.off # 0 /\ y >= r.cursor.y /\ y < r.cursor.y + CursorSize

Eligible(y) == r.plane["B"].coding # "RGB555" /\ ~Blinks(y)

\* The restart of the blink does not count where nothing blinks.
Key == IF ~r.cursor.enabled \/ r.cursor.off = 0 THEN [r EXCEPT !.cursor.start = 0] ELSE r

Source(at, used) == Table([i \in 0 .. used - 1 |-> ram[at + i]])

\* Faulty variant: the bytes the line was made of are not compared.
Faulty_Reusable(c, y, n) ==
  /\ Eligible(y) /\ c.valid
  /\ c.at = vsr /\ c.n = n /\ c.key = Key

Reusable(c, y, n) ==
  /\ Eligible(y) /\ c.valid
  /\ c.at = vsr /\ c.n = n /\ c.key = Key
  /\ \A p \in Planes : c.source[p] = Source(c.at[p], c.used[p])

\* The cells of row y become those of a line.
Painted(f, y, w, row) ==
  Table([i \in DOMAIN f |-> IF i >= y * w /\ i < y * w + w THEN row[i - y * w] ELSE f[i]])
Rgb(cells) == Table([x \in DOMAIN cells |-> cells[x].rgb])
Diagnostic(cells) == Table([x \in DOMAIN cells |-> <<cells[x].verdict, cells[x].a, cells[x].b>>])

Capture == [spans |-> spans, raster |-> raster]
OfDisplay == [frame |-> frame[drawing], snap |-> snap, decoded |-> decoded, lines |-> Lines,
              cap |-> Capture, taken |-> [p \in Planes |-> 0]]

\* A line that is kept, and one that the job has drawn.
Kept(c, y, cap) ==
  [OfDisplay EXCEPT !.decoded = c.decoded, !.taken = c.used,
                    !.cap = IF capture THEN cdi_raster_finish(cap, y, <<>>) ELSE cap]

DrawnByJob(job, y, w, n, cap) ==
  LET line == [valid |-> TRUE, at |-> vsr, n |-> n, key |-> Key, used |-> job.used,
               decoded |-> job.decoded, source |-> [p \in Planes |-> Source(vsr[p], job.used[p])]]
  IN  [frame |-> Painted(frame[drawing], y, w, Rgb(job.cells)),
       snap |-> Painted(snap, y, w, Diagnostic(job.cells)), decoded |-> job.decoded,
       lines |-> [Lines EXCEPT ![y] = IF Eligible(y) THEN line ELSE NoLine],
       cap |-> IF capture THEN cdi_raster_finish(cap, y, Overlaid(Appended(job.spans), y, w)) ELSE cap,
       taken |-> job.used]

\* mcd212_video_draw_line; whole is what the reference build makes of the line, and
\* what is decoded of a line below the picture.
Drawn(y, w, h, n, whole) ==
  LET cap == IF capture THEN Begun(Capture, w, h) ELSE Capture
  IN  IF y >= h THEN [OfDisplay EXCEPT !.decoded = whole.decoded, !.taken = whole.used]
      ELSE IF Reusable(Lines[y], y, n) THEN Kept(Lines[y], y, cap)
      ELSE DrawnByJob(scanout_job(r, ram, vsr, y, n, w, field), y, w, n, cap)

\* The same line in the reference build.
DrawnByReference(y, w, h, whole) ==
  [frame |-> IF y >= h THEN ref.frame ELSE Painted(ref.frame, y, w, Rgb(whole.cells)),
   snap |-> IF y >= h THEN ref.snap ELSE Painted(ref.snap, y, w, Diagnostic(whole.cells)),
   decoded |-> whole.decoded, used |-> whole.used]

-----------------------------------------------------------------------------
(* The end of a field. *)

\* Faulty variant: only the pictures are compared.
Faulty_SameContent(w, h, same) == field # 0 /\ same

SameContent(w, h, same) == field # 0 /\ same /\ w = published.w /\ h = published.h

Copied(before, f, w, h) ==
  IF Picture(before, w, h) = Picture(f, w, h) THEN before
  ELSE Table([i \in Offsets |-> IF i < w * h THEN f[i] ELSE before[i]])

\* mcd212_video_end_frame with the drawn buffer f: it is published, and the other becomes
\* a copy of it, as far as it shows and has changed.
mcd212_video_end_frame(f, w, h, cap) ==
  LET before == frame[Other(drawing)]
      same == Picture(before, w, h) = Picture(f, w, h)
      pub == IF capture THEN cdi_raster_publish(f, w, h, cap) ELSE cap
  IN  /\ published' = [w |-> w, h |-> h, picture |-> Picture(f, w, h)]
      /\ content' = IF SameContent(w, h, same) THEN content ELSE content + 1
      /\ field' = field + 1
      /\ drawing' = Other(drawing)
      /\ frame' = [b \in {0, 1} |-> IF b = drawing THEN f ELSE Copied(before, f, w, h)]
      /\ spans' = pub.spans /\ raster' = pub.raster

-----------------------------------------------------------------------------
(* advance_one_raster_line. *)

BlankingLine ==
  /\ raster_line + 1 <= blanking_lines
  /\ raster_line' = raster_line + 1
  /\ IF raster_line = 0 /\ mode.de
     THEN Controlled(InBoth(Control, run_initial_control_area, mode.ica))
     ELSE UNCHANGED <<r, vsr, dcp, wide, interrupts, request>>
  /\ UNCHANGED <<ram, areas, mode, image_line, parity, active, picture, captured, changes, ref>>

\* The rest of draw_active_line with the line d, and the field's end after the last.
Shown(y, even, d, whole) ==
  LET moved == [Control EXCEPT !.vsr = [p \in Planes |-> vsr[p] + d.taken[p]]]
      last == raster_line + 1 >= total_raster_lines
  IN  /\ parity' = ~even
      /\ width' = Width /\ height' = Height
      /\ snap' = d.snap /\ decoded' = d.decoded /\ lines' = d.lines
      /\ IF mode.de
         THEN /\ Controlled(InBoth(moved, run_dynamic_control_area, mode.dca))
              /\ ref' = DrawnByReference(y, Width, Height, whole) @@ [taken |-> d.taken]
         ELSE UNCHANGED <<r, vsr, dcp, wide, interrupts, request, ref>>
      /\ active' = ~last
      /\ raster_line' = IF last THEN 0 ELSE raster_line + 1
      /\ image_line' = IF last THEN 0 ELSE y + IF mode.sm THEN 2 ELSE 1
      /\ IF last
         THEN mcd212_video_end_frame(d.frame, Width, Height, d.cap)
         ELSE /\ frame' = [frame EXCEPT ![drawing] = d.frame]
              /\ spans' = d.cap.spans /\ raster' = d.cap.raster
              /\ UNCHANGED <<drawing, field, content, published>>
      /\ UNCHANGED <<ram, areas, mode, capture, changes>>

\* decode_rgb555 writes two pixels for each of its source and does not look at the end of
\* the row: with the colour mode of DCR2 it runs into the table of contributions behind
\* it (mcd212_video.c:417).  What follows is undefined and not modelled.
Overruns(n) ==
  LET b == r.plane["B"]
      mosaic == IF b.file_type = "MOSAIC" THEN b.mosaic ELSE 1
  IN  /\ mode.de /\ b.coding = "RGB555" /\ b.file_type # "RUN"
      /\ 2 * ((n["B"] + mosaic - 1) \div mosaic) > MaxWidth

\* begin_active_line and draw_active_line.
ActiveLine ==
  LET even == mode.sm /\ field % 2 = 0
      y == IF even /\ image_line = 0 THEN 1 ELSE image_line
      n == [p \in Planes |-> raster_width * IF p \in wide THEN 2 ELSE 1]
  IN  /\ raster_line + 1 > blanking_lines
      /\ field < MaxFields /\ ~Overruns(n)
      /\ \E whole \in {reference_line(r, ram, vsr, y, n, Width, field)} :
         \E d \in {IF mode.de THEN Drawn(y, Width, Height, n, whole) ELSE OfDisplay} :
           Shown(y, even, d, whole)

-----------------------------------------------------------------------------
(* Guest and host. *)

Change == changes < MaxChanges /\ changes' = changes + 1

Poke(w) ==
  /\ Change
  /\ ram' = [ram EXCEPT ![w.at] = w.byte]
  /\ UNCHANGED <<areas, registers, interrupts, request, scan, r, picture, captured, ref>>

Reprogram(a) ==
  /\ Change
  /\ a # areas /\ areas' = a
  /\ UNCHANGED <<ram, registers, interrupts, request, scan, r, picture, captured, ref>>

\* mcd212_write of one display register, with what the setup m has in it. DRAM is so small
\* that DCR's upper bits of the start pointers are zero.
DisplayRegisters == {"DCR1", "DCR2", "VSR1", "VSR2", "CSR1W", "CSR2W"}

Replaced(old, new, p) == IF p \in new THEN old \cup {p} ELSE old \ {p}

ModeWith(m, reg) ==
  CASE reg = "DCR1" -> [mode EXCEPT !.de = m.de, !.cf = m.cf, !.fd = m.fd, !.sm = m.sm,
                                    !.ica = Replaced(@, m.ica, "A"), !.dca = Replaced(@, m.dca, "A")]
    [] reg = "DCR2" -> [mode EXCEPT !.ica = Replaced(@, m.ica, "B"), !.dca = Replaced(@, m.dca, "B")]
    [] reg = "CSR1W" -> [mode EXCEPT !.st = m.st, !.mute = Replaced(@, m.mute, "A")]
    [] reg = "CSR2W" -> [mode EXCEPT !.mute = Replaced(@, m.mute, "B")]
    [] OTHER -> mode

mcd212_write(m, reg) ==
  /\ Change
  /\ mode' = ModeWith(m.mode, reg)
  /\ wide' = CASE reg = "DCR1" -> Replaced(wide, m.wide, "A")
               [] reg = "DCR2" -> Replaced(wide, m.wide, "B")
               [] OTHER -> wide
  /\ vsr' = CASE reg = "VSR1" -> [vsr EXCEPT !["A"] = m.vsr["A"]]
              [] reg = "VSR2" -> [vsr EXCEPT !["B"] = m.vsr["B"]]
              [] OTHER -> vsr
  /\ UNCHANGED <<ram, areas, dcp, interrupts, request, scan, r, picture, captured, ref>>

\* mcd212_read of the second status register.
mcd212_read ==
  /\ interrupts # {} /\ interrupts' = {}
  /\ UNCHANGED <<ram, areas, registers, request, scan, r, picture, captured, changes, ref>>

\* The processor takes the request.
TakeInterrupt ==
  /\ request /\ request' = FALSE
  /\ UNCHANGED <<ram, areas, registers, interrupts, scan, r, picture, captured, changes, ref>>

mcd212_video_capture_raster ==
  /\ Change
  /\ capture' = ~capture
  /\ spans' = NoRows /\ raster' = NoRaster
  /\ lines' = IF capture THEN lines ELSE NoLines
  /\ UNCHANGED <<ram, areas, registers, interrupts, request, scan, r, width, height, frame, snap,
                 decoded, drawing, field, content, published, ref>>

Next ==
  \/ BlankingLine
  \/ ActiveLine
  \/ \E w \in Pokes : Poke(w)
  \/ \E a \in Areas : Reprogram(a)
  \/ \E m \in Modes, reg \in DisplayRegisters : mcd212_write(m, reg)
  \/ mcd212_read
  \/ TakeInterrupt
  \/ mcd212_video_capture_raster

Spec == Init /\ [][Next]_vars

-----------------------------------------------------------------------------
(* Properties. *)

\* "A completed line is reusable only when its entire input contract is equal"
\* (mcd212_video.c): with lines kept from earlier fields, run-length sources fed in
\* spans and buffers copied only where they changed, the buffer that is drawn, the
\* decoded rows, the diagnostic cells and the bytes consumed are those of the
\* reference build.
ScanoutIsReference ==
  /\ frame[drawing] = ref.frame
  /\ snap = ref.snap
  /\ decoded = ref.decoded
  /\ ref.taken = ref.used

\* A reader that skips a field because content_generation stands still has the
\* picture of that field.
UnmovedContentIsSame ==
  [][content' = content /\ field # 0 => published' = published]_vars

\* The captured frame paints the pixels that are published, from the spans of jobs of
\* earlier fields for lines that were kept.
RasterIsNative == raster_line = 0 /\ raster.shown # <<>> => raster.shown = published.picture
=============================================================================
