------------------------------ MODULE FrameShare ------------------------------
(***************************************************************************)
(* The published field of mcd212_video.c, shared without a lock: the       *)
(* emulation thread draws and publishes it (draw_line, end_frame) while    *)
(* the debug server's thread copies it (copy_frame, copy_changed_frame) or *)
(* takes its hash (frame_hash), each under the sequence counter            *)
(* publish_sequence.                                                       *)
(*                                                                         *)
(* One load or one store is one step, in program order.  A field is at     *)
(* most two words high; its hash is the image itself, since nothing here   *)
(* depends on how it is computed.                                          *)
(***************************************************************************)
EXTENDS Integers, Sequences

CONSTANTS
    Shades,         \* what a word of the picture may hold
    SharePublished  \* bound: fields published

ASSUME ShareAssumption == Shades # {} /\ SharePublished \in Nat

VARIABLES
    frame,          \* frame[0], frame[1]: the two buffers
    video,          \* the other fields of the video structure
    ending,         \* the stores of end_frame that are still to be done
    reader,         \* the copy in progress on the other thread
    history         \* history[g + 1]: what field g was when it was published

share_vars == <<frame, video, ending, reader, history>>

Words == 1 .. 2
ShareBlank == [w \in Words |-> CHOOSE s \in Shades : TRUE]
Prefix(buffer, height) == SubSeq(buffer, 1, height)

Record(height, image, content) ==
    [height |-> height, image |-> Prefix(image, height), content |-> content]

(***************************************************************************)
(* The emulation thread.                                                   *)
(***************************************************************************)
MayDraw == ending = << >> /\ video.generation < SharePublished

ShareGeometry(height) ==
    /\ MayDraw /\ video.height # height
    /\ video' = [video EXCEPT !.height = height]
    /\ UNCHANGED <<frame, ending, reader, history>>

ShareDraw(w, shade) ==
    /\ MayDraw /\ w <= video.height
    /\ frame' = [frame EXCEPT ![video.drawing][w] = shade]
    /\ UNCHANGED <<video, ending, reader, history>>

\* The prefix of both buffers is compared before anything is stored.
SamePixels ==
    Prefix(frame[0], video.height) = Prefix(frame[1], video.height)
SameField ==
    /\ video.generation # 0 /\ SamePixels
    /\ video.height = video.published_height

\* Faulty variant: the counter is even again before the geometry is stored.
Faulty_Stores(fresh, copied) ==
    IF ~fresh
    THEN <<"sequence", "buffer", "sequence", "height", "generation", "swap">>
    ELSE <<"sequence", "buffer", "sequence", "height", "hash", "content", "generation", "swap">>

\* The stores in their order.  A field that is not fresh has the same pixels, and then
\* none are copied.
Stores(fresh, copied) ==
    CASE ~fresh ->
           <<"sequence", "buffer", "height", "generation", "sequence", "swap">>
      [] fresh /\ ~copied ->
           <<"sequence", "buffer", "height", "hash", "content", "generation", "sequence", "swap">>
      [] fresh /\ copied ->
           <<"sequence", "buffer", "height", "hash", "content", "generation", "sequence", "swap",
             "copy1", "copy2">>

EndFrame ==
    /\ MayDraw
    /\ ending' = Stores(~SameField, ~SamePixels)
    /\ history' = Append(history,
            Record(video.height, frame[video.drawing],
                   IF SameField THEN video.content ELSE video.content + 1))
    /\ UNCHANGED <<frame, video, reader>>

CopyWord(w) ==
    IF w > video.height THEN frame
    ELSE [frame EXCEPT ![video.drawing][w] = frame[1 - video.drawing][w]]

Stored(store) ==
    CASE store = "sequence"   -> [video EXCEPT !.sequence = @ + 1]
      [] store = "buffer"     -> [video EXCEPT !.published = video.drawing]
      [] store = "height"     -> [video EXCEPT !.published_height = video.height]
      [] store = "hash"       -> [video EXCEPT !.hash =
                                     Prefix(frame[video.drawing], video.height)]
      [] store = "content"    -> [video EXCEPT !.content = @ + 1]
      [] store = "generation" -> [video EXCEPT !.generation = @ + 1]
      [] store = "swap"       -> [video EXCEPT !.drawing = 1 - @]
      [] OTHER                -> video

Store ==
    /\ ending # << >>
    /\ ending' = Tail(ending)
    /\ video' = Stored(Head(ending))
    /\ frame' = CASE Head(ending) = "copy1" -> CopyWord(1)
                  [] Head(ending) = "copy2" -> CopyWord(2)
                  [] OTHER -> frame
    /\ UNCHANGED <<reader, history>>

(***************************************************************************)
(* The other thread.  got holds what was loaded since the counter was.     *)
(***************************************************************************)
Loads == [copy    |-> <<"height", "buffer", "word1", "word2", "generation">>,
          changed |-> <<"height", "generation", "content", "buffer", "word1", "word2">>,
          hash    |-> <<"height", "buffer", "generation", "hash">>]

Idle == [left |-> << >>, before |-> 0, got |-> << >>, at |-> "idle", call |-> "copy", previous |-> 0]

\* previous: the content a caller of copy_changed_frame has.
Call(call, previous) ==
    /\ reader.at = "idle"
    /\ reader' = [Idle EXCEPT !.at = "begin", !.call = call, !.previous = previous]
    /\ UNCHANGED <<frame, video, ending, history>>

\* An odd counter is looked at again.
LoadSequence ==
    /\ reader.at = "begin" /\ video.sequence % 2 = 0
    /\ reader' = [reader EXCEPT !.before = video.sequence, !.at = "load",
                                !.left = Loads[reader.call], !.got = << >>]
    /\ UNCHANGED <<frame, video, ending, history>>

Word(w) == IF w > reader.got.height THEN << >>
           ELSE <<frame[reader.got.buffer][w]>>

Loaded(load) ==
    CASE load = "height"     -> [height |-> video.published_height, image |-> << >>,
                                 buffer |-> 0, generation |-> 0, content |-> 0]
      [] load = "buffer"     -> [reader.got EXCEPT !.buffer = video.published]
      [] load = "word1"     -> [reader.got EXCEPT !.image = @ \o Word(1)]
      [] load = "word2"     -> [reader.got EXCEPT !.image = @ \o Word(2)]
      [] load = "generation" -> [reader.got EXCEPT !.generation = video.generation]
      [] load = "content"    -> [reader.got EXCEPT !.content = video.content]
      [] load = "hash"       -> [reader.got EXCEPT !.image =
                                    IF reader.got.generation = 0
                                    THEN Prefix(frame[reader.got.buffer], reader.got.height)
                                    ELSE video.hash]

\* copied = 0: before the first field, and of the content the caller has, nothing is copied.
Skips ==
    /\ reader.call = "changed" /\ reader.left # << >> /\ Head(reader.left) = "buffer"
    /\ reader.got.generation = 0 \/ reader.got.content = reader.previous

SkipCopy ==
    /\ reader.at = "load" /\ Skips
    /\ reader' = [reader EXCEPT !.left = << >>]
    /\ UNCHANGED <<frame, video, ending, history>>

Load ==
    /\ reader.at = "load" /\ reader.left # << >> /\ ~Skips
    /\ reader' = [reader EXCEPT !.left = Tail(@), !.got = Loaded(Head(reader.left))]
    /\ UNCHANGED <<frame, video, ending, history>>

\* The loop ends if the counter is what it was before.
Again == video.sequence # reader.before

CheckSequence ==
    /\ reader.at = "load" /\ reader.left = << >>
    /\ reader' = [reader EXCEPT !.at = IF Again THEN "begin" ELSE "done"]
    /\ UNCHANGED <<frame, video, ending, history>>

Return ==
    /\ reader.at = "done" /\ reader' = Idle
    /\ UNCHANGED <<frame, video, ending, history>>

ShareInit ==
    /\ frame = [b \in 0 .. 1 |-> ShareBlank]
    /\ video = [sequence |-> 0, published |-> 0, drawing |-> 1, height |-> 2,
                published_height |-> 2, generation |-> 0, content |-> 0, hash |-> << >>]
    /\ ending = << >> /\ reader = Idle
    /\ history = <<Record(2, ShareBlank, 0)>>

ShareNext ==
    \/ \E height \in Words : ShareGeometry(height)
    \/ \E w \in Words, shade \in Shades : ShareDraw(w, shade)
    \/ EndFrame \/ Store
    \/ Call("copy", 0) \/ Call("hash", 0)
    \/ \E previous \in 0 .. video.content : Call("changed", previous)
    \/ LoadSequence \/ Load \/ SkipCopy \/ CheckSequence \/ Return

ShareSpec == ShareInit /\ [][ShareNext]_share_vars

(***************************************************************************)
(* Properties.                                                             *)
(***************************************************************************)
\* What a call returns is this field; a changed copy of what the caller has is no pixels.
WholeOf(of) ==
    LET known == /\ reader.call = "changed"
                 /\ reader.got.generation = 0 \/ of.content = reader.previous
    IN  /\ reader.got.height = of.height
        /\ reader.got.image = IF known THEN << >> ELSE of.image
        /\ reader.call = "changed" => reader.got.content = of.content

(* mcd212_video.c:1108: a copy, a changed copy or a hash that the reader   *)
(* returns is the field of the generation it returns with it: geometry,    *)
(* pixels or hash, and content identity all belong to that one field, in   *)
(* whatever order the stores of the publisher and the loads of the reader  *)
(* come.  A changed copy has no pixels exactly if that field has the       *)
(* content the caller named, or none was published (mcd212_video.c:1093).  *)
CopyIsWhole == reader.at = "done" => WholeOf(history[reader.got.generation + 1])
=============================================================================
