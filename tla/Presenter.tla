------------------------------ MODULE Presenter ------------------------------
(***************************************************************************)
(* From a finished field to the window: the rows cdi_raster_jobs.c         *)
(* captures and counts references to, the GPU consumer of cdi_gpu.c, and   *)
(* present_frame of cdi_frontend.c, which shows a field from the GPU's     *)
(* output or from a texture it uploads, and copies as little as it can.    *)
(*                                                                         *)
(* A row of the picture is one colour and a geometry is a number of rows   *)
(* (at most MaxRows).  A captured row is its identity and its colour, and  *)
(* an image the tuple of its rows' colours.  What SDL and OpenGL may       *)
(* refuse is chosen freely.                                                *)
(***************************************************************************)
EXTENDS Integers, Sequences, FiniteSets, Bags

CONSTANTS
    MaxRows,    \* MCD212_VIDEO_MAX_HEIGHT
    Colours,    \* what a row may show
    Scales,     \* the internal densities F8 cycles through: 1 .. Scales
    MaxFields,  \* bound: fields published
    MaxDraws,   \* bound: rows drawn
    MaxFaults   \* bound: refused allocations, GPU failures, resets, F8 and resizes

ASSUME PresenterAssumption ==
    /\ MaxRows \in Nat \ {0} /\ Scales \in Nat \ {0} /\ Colours # {}
    /\ MaxFields \in Nat /\ MaxDraws \in Nat /\ MaxFaults \in Nat

VARIABLES
    field,      \* the video: buffers, geometry, generation, content_generation
    raster,     \* the capture: working rows, published frame, reference counts
    held,       \* a frame a consumer acquired and has not released, or NoFrame
    gpu,        \* the GPU consumer
    front,      \* the front end's record of what it shows
    screen,     \* the image in the window
    spent       \* draws and faults so far

presenter_vars == <<field, raster, held, gpu, front, screen, spent>>

Lines == 1 .. MaxRows
NoRow == [identity |-> 0, colour |-> 0]
NoFrame == [generation |-> 0, height |-> 0, epoch |-> 0, rows |-> << >>]
Junk == << >>           \* a texture nothing was uploaded to

Visible(buffer, height) == SubSeq(buffer, 1, height)

(***************************************************************************)
(* cdi_raster_jobs.c.  references is the bag of the counts: a row counts   *)
(* under its identity, a frame under minus its generation, and what is not *)
(* in the bag is freed.                                                    *)
(***************************************************************************)
One(key) == SetToBag({key})
Copies(key, bag) == IF BagIn(key, bag) THEN bag[key] ELSE 0
Identities(rows) == {rows[y].identity : y \in DOMAIN rows} \ {0}

release_row(r, row) ==
    [r EXCEPT !.references = IF row = NoRow THEN @ ELSE @ (-) One(row.identity)]

raster_release(r, frame) ==
    LET key  == -frame.generation
        left == r.references (-) One(key)
    IN  IF frame = NoFrame THEN r
        ELSE [r EXCEPT !.references =
                IF BagIn(key, left) THEN left
                ELSE left (-) SetToBag(Identities(frame.rows))]

raster_reset(r) ==
    LET released == raster_release(r, r.published)
    IN  [released EXCEPT
            !.references = @ (-) SetToBag(Identities(r.working)),
            !.published = NoFrame, !.working = [y \in Lines |-> NoRow],
            !.height = 0, !.epoch = @ + 1]

raster_capture(r, value) ==
    IF r.enabled = value THEN r ELSE [raster_reset(r) EXCEPT !.enabled = value]

raster_begin(r, height) ==
    IF r.enabled /\ r.height # height THEN [raster_reset(r) EXCEPT !.height = height]
    ELSE r

replace(r, y, colour) ==
    [release_row(r, r.working[y]) EXCEPT
        !.identity = @ + 1, !.references = @ (+) One(r.identity + 1),
        !.working[y] = [identity |-> r.identity + 1, colour |-> colour]]

\* A row equal to the one it would replace is kept.  A refused allocation
\* ends the capture.
raster_finish(r, y, colour, refused) ==
    IF \/ ~r.enabled \/ y > r.height
       \/ r.working[y] # NoRow /\ r.working[y].colour = colour THEN r
    ELSE IF refused THEN raster_capture(r, FALSE)
    ELSE replace(r, y, colour)

\* The rows no line was captured for take the native pixels.
Fill(r, native, height) ==
    LET missing == {y \in 1 .. height : r.working[y] = NoRow}
        Rank(y) == r.identity + Cardinality({z \in missing : z <= y})
    IN  [r EXCEPT
            !.working = [y \in Lines |->
                IF y \in missing THEN [identity |-> Rank(y), colour |-> native[y]]
                ELSE @[y]],
            !.references = @ (+) SetToBag({Rank(y) : y \in missing}),
            !.identity = @ + Cardinality(missing)]

raster_publish(r, native, height, generation, refused) ==
    LET sized  == raster_begin(r, height)
        filled == Fill(sized, native, height)
        frame  == [generation |-> generation, height |-> height, epoch |-> sized.epoch,
                   rows |-> SubSeq(filled.working, 1, height)]
        counts == filled.references (+) One(-generation)
                    (+) SetToBag(Identities(frame.rows))
    IN  IF ~r.enabled THEN r
        ELSE IF refused THEN raster_capture(sized, FALSE)
        ELSE raster_release([filled EXCEPT !.references = counts, !.published = frame],
                            filled.published)

raster_native(frame) == [y \in 1 .. frame.height |-> frame.rows[y].colour]

(***************************************************************************)
(* mcd212_video.c: the geometry, a line, the end of a field.               *)
(***************************************************************************)
Fault == spent.faults < MaxFaults /\ spent' = [spent EXCEPT !.faults = @ + 1]

begin_frame(height) ==
    /\ field.height # height /\ Fault
    /\ field' = [field EXCEPT !.height = height]
    /\ UNCHANGED <<raster, held, gpu, front, screen>>

draw_line(y, colour, refused) ==
    /\ y <= field.height /\ spent.draws < MaxDraws
    /\ field' = [field EXCEPT !.drawing[y] = colour]
    /\ raster' = raster_finish(raster_begin(raster, field.height), y, colour, refused)
    /\ IF refused THEN Fault ELSE spent' = [spent EXCEPT !.draws = @ + 1]
    /\ UNCHANGED <<held, gpu, front, screen>>

SameContent ==
    /\ field.generation # 0 /\ field.height = field.published_height
    /\ Visible(field.drawing, field.height) = Visible(field.published, field.height)

end_frame(refused) ==
    /\ field.generation < MaxFields
    /\ raster' = raster_publish(raster, field.drawing, field.height,
                                field.generation + 1, refused)
    /\ field' = [field EXCEPT !.published = field.drawing,
                              !.published_height = field.height,
                              !.generation = @ + 1,
                              !.content = IF SameContent THEN @ ELSE @ + 1]
    /\ IF refused THEN Fault ELSE UNCHANGED spent
    /\ UNCHANGED <<held, gpu, front, screen>>

(***************************************************************************)
(* cdi_gpu.c.  A render uploads the rows whose identity is not resident    *)
(* and draws every row of the frame from what is resident.                 *)
(***************************************************************************)
NoGpu == [state |-> "unchecked", epoch |-> 0, rows |-> [y \in Lines |-> 0],
          source |-> [y \in Lines |-> 0], output |-> Junk, scale |-> 0]

gpu_init(g, available) ==
    IF g.state # "unchecked" THEN g
    ELSE [g EXCEPT !.state = IF available THEN "available" ELSE "unavailable"]

\* Rows of another epoch are not resident.
Resident(g, frame, y) ==
    g.epoch = frame.epoch /\ g.rows[y] = frame.rows[y].identity

Upload(g, frame) ==
    [g EXCEPT !.epoch = frame.epoch,
              !.rows = [y \in Lines |-> IF y <= frame.height THEN frame.rows[y].identity
                                        ELSE IF g.epoch = frame.epoch THEN @[y] ELSE 0],
              !.source = [y \in Lines |->
                    IF y <= frame.height /\ ~Resident(g, frame, y)
                    THEN frame.rows[y].colour ELSE @[y]]]

gpu_render(g, frame, scale) ==
    LET u == Upload(g, frame)
    IN  [u EXCEPT !.output = Visible(u.source, frame.height), !.scale = scale]

\* The outcomes of a call: the image; a refusal that may have destroyed the
\* output; an error noticed after the upload, which lasts until a reset.
Rendered == "rendered"
GpuOutcomes(g) == IF g.state = "available" THEN {Rendered, "refused", "failed"}
                  ELSE {"refused"}

GpuAfter(g, frame, scale, outcome) ==
    CASE outcome = Rendered  -> gpu_render(g, frame, scale)
      [] outcome = "refused" -> [g EXCEPT !.output = Junk]
      [] outcome = "failed"  -> [Upload(g, frame) EXCEPT !.state = "failed", !.output = Junk]

(***************************************************************************)
(* cdi_frontend.c.                                                         *)
(***************************************************************************)
\* present_frame, up to the first return: another epoch makes all of it new.
Observed ==
    IF front.epoch = raster.epoch THEN front
    ELSE [front EXCEPT !.epoch = raster.epoch, !.redraw = TRUE,
                       !.content = 0, !.gpu = FALSE]

Uploads(f, height) == f.texture_height # height

\* What ensure_texture leaves: a new texture shows nothing yet.
Sized(f, height) ==
    IF f.texture_height = height THEN f
    ELSE [f EXCEPT !.texture = Junk, !.texture_height = height]

Current == /\ raster.published.generation = field.generation
           /\ raster.published.height = field.published_height

\* The GPU is asked again only if the picture may have changed, or a
\* measurement wants it.
Asked(f, changed, readback) == Current /\ (changed \/ f.redraw \/ ~f.gpu \/ readback)

\* Faulty variant: a GPU that could not render leaves the texture as it is.
Faulty_Dirty(f, changed, asked, outcome) == changed \/ f.redraw

Dirty(f, changed, asked, outcome) ==
    changed \/ f.redraw \/ (asked /\ outcome # Rendered)

Pixels == IF Current THEN raster_native(raster.published)
          ELSE Visible(field.published, field.published_height)

PresentFrom(f, readback, outcome, g) ==
    LET changed == field.content # f.content
        asked   == Asked(f, changed, readback)
        onGpu   == IF asked THEN outcome = Rendered ELSE Current /\ f.gpu
        texture == IF ~onGpu /\ Dirty(f, changed, asked, outcome) THEN Pixels
                   ELSE f.texture
        after   == IF asked THEN GpuAfter(g, raster.published, f.scale, outcome) ELSE g
    IN  /\ asked => outcome \in GpuOutcomes(g)
        /\ ~asked => outcome = Rendered
        /\ gpu' = after
        /\ front' = [f EXCEPT !.texture = texture, !.content = field.content,
                              !.gpu = IF asked THEN onGpu ELSE @,
                              !.generation = field.generation, !.redraw = FALSE]
        /\ screen' = IF onGpu THEN after.output ELSE texture
        /\ IF readback \/ outcome # Rendered THEN Fault ELSE UNCHANGED spent

Nothing(f) == field.generation = 0 \/ (f.generation = field.generation /\ ~f.redraw)

present_frame(readback, outcome, available) ==
    /\ ~Nothing(Observed)
    /\ LET f == Sized(Observed, field.published_height)
           g == IF Uploads(Observed, field.published_height)
                THEN gpu_init(gpu, available) ELSE gpu
       IN  PresentFrom(f, readback, outcome, g)
    /\ UNCHANGED <<field, raster, held>>

\* SDL_RENDER_DEVICE_RESET and SDL_RENDER_TARGETS_RESET.
RenderReset ==
    /\ Fault
    /\ gpu' = NoGpu
    /\ front' = [front EXCEPT !.gpu = FALSE, !.redraw = TRUE, !.content = 0,
                              !.texture = Junk, !.texture_height = 0]
    /\ UNCHANGED <<field, raster, held, screen>>

\* Exposed, resized or restored.
Expose ==
    /\ Fault /\ front' = [front EXCEPT !.redraw = TRUE]
    /\ UNCHANGED <<field, raster, held, gpu, screen>>

F8 ==
    /\ Fault
    /\ front' = [front EXCEPT !.scale = IF @ = Scales THEN 1 ELSE @ + 1, !.redraw = TRUE]
    /\ UNCHANGED <<field, raster, held, gpu, screen>>

\* A consumer may keep a frame past the field, as the header allows.
Acquire ==
    /\ held = NoFrame /\ raster.published # NoFrame
    /\ held' = raster.published
    /\ raster' = [raster EXCEPT !.references = @ (+) One(-raster.published.generation)]
    /\ UNCHANGED <<field, gpu, front, screen, spent>>

Release ==
    /\ held # NoFrame
    /\ held' = NoFrame /\ raster' = raster_release(raster, held)
    /\ UNCHANGED <<field, gpu, front, screen, spent>>

\* cdi_frontend_init enables the capture after the reset of the video.
PresenterInit ==
    LET black == [y \in Lines |-> CHOOSE c \in Colours : TRUE]
    IN  /\ field = [drawing |-> black, published |-> black,
                    height |-> MaxRows, published_height |-> MaxRows,
                    generation |-> 0, content |-> 0]
        /\ raster = [enabled |-> TRUE, height |-> 0, epoch |-> 1, identity |-> 0,
                     working |-> [y \in Lines |-> NoRow], published |-> NoFrame,
                     references |-> EmptyBag]
        /\ held = NoFrame /\ gpu = NoGpu /\ screen = Junk
        /\ front = [texture |-> Junk, texture_height |-> 0, gpu |-> FALSE, content |-> 0,
                    generation |-> 0, epoch |-> 0, redraw |-> TRUE, scale |-> 1]
        /\ spent = [draws |-> 0, faults |-> 0]

PresenterNext ==
    \/ \E height \in Lines : begin_frame(height)
    \/ \E y \in Lines, colour \in Colours, refused \in BOOLEAN :
          draw_line(y, colour, refused)
    \/ \E refused \in BOOLEAN : end_frame(refused)
    \/ \E readback, available \in BOOLEAN, outcome \in {Rendered, "refused", "failed"} :
          present_frame(readback, outcome, available)
    \/ RenderReset \/ Expose \/ F8 \/ Acquire \/ Release

PresenterSpec == PresenterInit /\ [][PresenterNext]_presenter_vars

(***************************************************************************)
(* Properties.                                                             *)
(***************************************************************************)
(* cdi_frontend.c:145: once a field has been presented, the window shows   *)
(* that field's pixels, whether they came from the GPU's output, from an   *)
(* output or a texture kept from an earlier field, or from an upload, and  *)
(* whatever was refused, reset or resized since.  At rest the GPU's output *)
(* also has the density last asked for.                                    *)
ShownIsCurrent ==
    front.generation = field.generation /\ field.generation # 0 =>
        /\ screen = Visible(field.published, field.published_height)
        /\ front.gpu /\ ~front.redraw /\ raster.epoch = front.epoch
              => gpu.scale = front.scale

(* cdi_raster_jobs.c:92: a captured row is counted once by the working set *)
(* and once by every frame that is still allocated, a frame once by the    *)
(* publication and once by a consumer: nothing in use is freed and nothing *)
(* unused is kept, through resets, geometry changes and refused            *)
(* allocations.                                                            *)
RowsAlive ==
    LET frames == {raster.published, held} \ {NoFrame}
        rows(id) == Cardinality({f \in frames : id \in Identities(f.rows)})
                      + (IF id \in Identities(raster.working) THEN 1 ELSE 0)
        owners(f) == (IF raster.published = f THEN 1 ELSE 0) + (IF held = f THEN 1 ELSE 0)
        used == Identities(raster.working) \cup UNION {Identities(f.rows) : f \in frames}
    IN  /\ \A f \in frames : Copies(-f.generation, raster.references) = owners(f)
        /\ \A id \in used : Copies(id, raster.references) = rows(id)
        /\ BagToSet(raster.references) = used \cup {-f.generation : f \in frames}

(* cdi_frontend.c:145, cdi_raster_jobs.c:92: the window shows the field it *)
(* was last given, and the rows that are drawn from are alive.             *)
ScreenIsCurrent == ShownIsCurrent /\ RowsAlive
=============================================================================
