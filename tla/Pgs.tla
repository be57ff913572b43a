-------------------------------- MODULE Pgs --------------------------------
(***************************************************************************)
(* Presentation graphics, i.e. subtitles (src/src/bdmv/pgs.rs): a buffer   *)
(* of segments is parsed (parse_segments), sliced into display sets        *)
(* (group_display_sets), and a display set is rendered: its fragments are  *)
(* joined (reassemble_objects), the objects run-length decoded             *)
(* (decode_rle), coloured (Palette) and painted on the plane (blit).  One  *)
(* step per segment, fragment, code word and painted object.               *)
(*                                                                         *)
(* A segment is a record of its fields, with the size its header declares  *)
(* and the bytes its body has; the run-length data are bytes.              *)
(***************************************************************************)
EXTENDS Integers, Sequences, FiniteSets, SequencesExt

CONSTANTS
    Streams,        \* what is decoded: [segs, encoded, sets, planes]
    SizeRange,      \* segment_size is a number below this (2^16)
    CountRange      \* counts of objects and windows are below this (2^8)

ASSUME PgsRanges == SizeRange \in Nat \ {0} /\ CountRange \in Nat \ {0}

VARIABLES
    input,          \* the stream; never changes
    wire,           \* the buffer, segment by segment
    phase,          \* loop the code is in
    pos,            \* segments or fragments the loop has passed
    cur, sets,      \* group_display_sets: set being built, sets closed
    ds,             \* render: number of the display set, 0 between calls
    acc,            \* reassemble_objects: fragment chains, in order
    rle,            \* decode_rle of object images + 1
    images,         \* objects decoded, in order
    plane           \* render: the plane so far, then the answer

pgsVars == <<input, wire, phase, pos, cur, sets, ds, acc, rle, images, plane>>

None == [none |-> TRUE]
NoSets == <<None>>      \* refused
NoPlane == <<>>
NoRle == [i |-> 1, line |-> 0, lines |-> 0, pixels |-> <<>>]
Transparent == [r |-> 0, g |-> 0, b |-> 0, a |-> 0]

-----------------------------------------------------------------------------
(* Segments.                                                               *)

CroppedFlag == 64
IsCropped(co) == co.flag = CroppedFlag

\* FragmentFlag::from_raw
IsFirst(ods) == ods.flag \in {128, 192}
IsLast(ods) == ods.flag \in {64, 192}

Cropped(pcs) == SelectSeq(pcs.objects, IsCropped)

\* Bytes that encode_body writes, and that the parser of the kind reads.
PcsSize(s) == 11 + 8 * Len(s.objects) + 8 * Len(Cropped(s))
WdsSize(s) == 1 + 9 * Len(s.windows)
PdsSize(s) == 2 + 5 * Len(s.entries)
OdsSize(s) == 7 + (IF IsFirst(s) THEN 4 ELSE 0) + Len(s.data)
BodySize(s) ==
    CASE s.kind = "pcs" -> PcsSize(s) [] s.kind = "wds" -> WdsSize(s)
      [] s.kind = "pds" -> PdsSize(s) [] s.kind = "ods" -> OdsSize(s)
      [] s.kind = "end" -> 0          [] s.kind = "other" -> s.body

\* Segment::encode: type and size are recomputed, the counts cut to a byte.
Encoded(s) ==
    LET n == BodySize(s) IN
      [s EXCEPT !.magic = TRUE, !.size = n % SizeRange, !.body = n,
                !.count = (CASE s.kind = "pcs" -> Len(s.objects)
                             [] s.kind = "wds" -> Len(s.windows)
                             [] OTHER -> 0) % CountRange]

\* A body may go on after a composition or its windows; palette entries and
\* run-length data take all of it.
PcsParses(s) == s.count = Len(s.objects) /\ PcsSize(s) <= s.size
WdsParses(s) == s.count = Len(s.windows) /\ WdsSize(s) <= s.size
PdsParses(s) == s.size >= 2 /\ (s.size - 2) % 5 = 0
OdsParses(s) == s.size >= OdsSize(s) - Len(s.data)

\* A declared size that is not the body's has the next header read from the
\* middle of a body, or is cut off by the end of the buffer.
HeaderParses(s) == s.magic /\ s.size = s.body
SegmentParses(s) ==
    /\ HeaderParses(s)
    /\ s.kind = "pcs" => PcsParses(s)
    /\ s.kind = "wds" => WdsParses(s)
    /\ s.kind = "pds" => PdsParses(s)
    /\ s.kind = "ods" => OdsParses(s)
    /\ s.kind = "end" => s.size = 0

\* A segment encoded by the crate, or a buffer that comes from elsewhere.
ParseSegments ==
    /\ phase = "start"
    /\ wire' = [k \in DOMAIN input.segs |->
                  IF input.encoded THEN Encoded(input.segs[k]) ELSE input.segs[k]]
    /\ phase' = IF \A k \in DOMAIN wire' : SegmentParses(wire'[k]) THEN "group" ELSE "refused"
    /\ UNCHANGED <<input, pos, cur, sets, ds, acc, rle, images, plane>>

-----------------------------------------------------------------------------
(* group_display_sets.                                                     *)

Next1 == wire[pos + 1]
Meets(kind) == phase = "group" /\ pos < Len(wire) /\ Next1.kind = kind
Grouped(builder, closed) ==
    /\ cur' = builder /\ sets' = closed /\ pos' = pos + 1
    /\ UNCHANGED <<input, wire, phase, ds, acc, rle, images, plane>>

OpenSet ==
    /\ Meets("pcs") /\ cur = None
    /\ Grouped([pcs |-> Next1, wds |-> None, palettes |-> <<>>, objects |-> <<>>], sets)

\* mutant: a second window segment replaces the first
WindowsReplaced == TRUE
WindowsAccepted == cur.wds = None
AddWindows ==
    /\ Meets("wds") /\ cur # None /\ WindowsAccepted
    /\ Grouped([cur EXCEPT !.wds = Next1], sets)

AddPalette ==
    /\ Meets("pds") /\ cur # None
    /\ Grouped([cur EXCEPT !.palettes = Append(@, Next1)], sets)

AddFragment ==
    /\ Meets("ods") /\ cur # None
    /\ Grouped([cur EXCEPT !.objects = Append(@, Next1)], sets)

CloseSet ==
    /\ Meets("end") /\ cur # None
    /\ Grouped(None, Append(sets, cur))

IgnoreSegment ==
    /\ Meets("other") /\ cur # None
    /\ Grouped(cur, sets)

StreamGrouped ==
    /\ phase = "group" /\ pos = Len(wire) /\ cur = None
    /\ phase' = "ready"
    /\ UNCHANGED <<input, wire, pos, cur, sets, ds, acc, rle, images, plane>>

-----------------------------------------------------------------------------
(* DisplaySet::render, reassemble_objects.                                 *)

DS == sets[ds]

Render(k) ==
    /\ phase \in {"ready", "done", "failed"}
    /\ phase' = "join" /\ ds' = k /\ pos' = 0 /\ acc' = <<>> /\ images' = <<>>
    /\ rle' = NoRle /\ plane' = NoPlane
    /\ UNCHANGED <<input, wire, cur, sets>>

Fragment == DS.objects[pos + 1]
Slot(id) == {k \in DOMAIN acc : acc[k].id = id}
Joined(chains) ==
    /\ acc' = chains /\ pos' = pos + 1
    /\ UNCHANGED <<input, wire, phase, cur, sets, ds, rle, images, plane>>

FirstFragment ==
    /\ phase = "join" /\ pos < Len(DS.objects) /\ IsFirst(Fragment)
    /\ Slot(Fragment.id) = {}
    /\ Joined(Append(acc, [id |-> Fragment.id, w |-> Fragment.w, h |-> Fragment.h,
                           declared |-> Fragment.declared, data |-> Fragment.data,
                           closed |-> IsLast(Fragment)]))

\* mutant: fragments joined to the chain that was opened last
LastChain == {Len(acc)} \ {0}
OpenChain == {k \in Slot(Fragment.id) : ~acc[k].closed}
NextFragment ==
    /\ phase = "join" /\ pos < Len(DS.objects) /\ ~IsFirst(Fragment)
    /\ \E k \in OpenChain :
         Joined([acc EXCEPT ![k].data = @ \o Fragment.data, ![k].closed = IsLast(Fragment)])

\* The declared length counts the four bytes of width and height.
ChainWhole(c) == c.closed /\ c.declared >= 4 /\ Len(c.data) = c.declared - 4

ObjectsJoined ==
    /\ phase = "join" /\ pos = Len(DS.objects)
    /\ \A k \in DOMAIN acc : ChainWhole(acc[k])
    /\ phase' = "decode"
    /\ UNCHANGED <<input, wire, pos, cur, sets, ds, acc, rle, images, plane>>

-----------------------------------------------------------------------------
(* decode_rle, one code word a step.                                       *)

Object == acc[Len(images) + 1]
At(i) == Object.data[i]
Left == Len(Object.data) - rle.i + 1      \* bytes not decoded yet
Decoding == phase = "decode" /\ Len(images) < Len(acc)

FitsLine(count) == rle.line + count <= Object.w

\* push_run
Push(count, colour, used) ==
    /\ FitsLine(count)
    /\ rle' = [rle EXCEPT !.i = @ + used, !.line = @ + count,
                          !.pixels = @ \o [k \in 1..count |-> colour]]
    /\ UNCHANGED <<input, wire, phase, pos, cur, sets, ds, acc, images, plane>>

LiteralPixel ==
    /\ Decoding /\ Left > 0 /\ At(rle.i) # 0
    /\ Push(1, At(rle.i), 1)

Escaped == Decoding /\ Left > 1 /\ At(rle.i) = 0

EndOfLine ==
    /\ Escaped /\ At(rle.i + 1) = 0
    /\ rle.line = Object.w /\ rle.lines < Object.h
    /\ rle' = [rle EXCEPT !.i = @ + 2, !.line = 0, !.lines = @ + 1]
    /\ UNCHANGED <<input, wire, phase, pos, cur, sets, ds, acc, images, plane>>

\* The two top bits say whether a colour follows, and whether the length has a
\* second byte.
Coloured(b) == b \div 128 = 1
Long(b) == (b \div 64) % 2 = 1

RunLength(b, i) == IF Long(b) THEN (b % 64) * 256 + At(i + 2) ELSE b % 64

RunOfPixels ==
    /\ Escaped /\ At(rle.i + 1) # 0
    /\ LET b == At(rle.i + 1)
           used == 2 + (IF Long(b) THEN 1 ELSE 0) + (IF Coloured(b) THEN 1 ELSE 0)
       IN  /\ Left >= used
           /\ Push(RunLength(b, rle.i), IF Coloured(b) THEN At(rle.i + used - 1) ELSE 0, used)

\* The end-of-line code of the last line may be missing.
OpenLine == IF rle.line = Object.w /\ Object.w # 0 THEN 1 ELSE 0
ObjectDecoded ==
    /\ Decoding /\ Left = 0
    /\ OpenLine = 0 => rle.line = 0
    /\ rle.lines + OpenLine = Object.h
    /\ images' = Append(images, [id |-> Object.id, w |-> Object.w, h |-> Object.h,
                                 pixels |-> rle.pixels])
    /\ rle' = NoRle
    /\ UNCHANGED <<input, wire, phase, pos, cur, sets, ds, acc, plane>>

-----------------------------------------------------------------------------
(* Palette and plane.                                                      *)

Clamp(v) == IF v < 0 THEN 0 ELSE IF v > 255 THEN 255 ELSE v

\* ycbcr709_to_rgb, in thousandths.
Rgb(y, cb, cr, a) ==
    LET yf == (y - 16) * 1164
        round(v) == Clamp((v + 500) \div 1000)
    IN  [r |-> round(yf + 1793 * (cr - 128)),
         g |-> round(yf - 213 * (cb - 128) - 533 * (cr - 128)),
         b |-> round(yf + 2112 * (cb - 128)), a |-> a]

\* PaletteEntry::to_rgba passes cr where the conversion takes cb.
ToRgba(e) == Rgb(e.y, e.cr, e.cb, e.alpha)

\* Palette::from_palettes_with_id: the last entry of an index wins.
NamedPalettes == SelectSeq(DS.palettes, LAMBDA p : p.id = DS.pcs.palette)
Entries == FoldLeft(LAMBDA es, p : es \o p.entries, <<>>, NamedPalettes)
Colour(index) ==
    LET hits == {k \in DOMAIN Entries : Entries[k].id = index} IN
      IF hits = {} THEN Transparent
      ELSE ToRgba(Entries[CHOOSE k \in hits : \A j \in hits : j <= k])

BlankPlane ==
    /\ phase = "decode" /\ Len(images) = Len(acc)
    /\ plane' = [p \in (0..(DS.pcs.w - 1)) \X (0..(DS.pcs.h - 1)) |-> Transparent]
    /\ phase' = "paint" /\ pos' = 0
    /\ UNCHANGED <<input, wire, cur, sets, ds, acc, rle, images>>

Source(co, img) ==
    IF IsCropped(co) THEN co.crop ELSE [x |-> 0, y |-> 0, w |-> img.w, h |-> img.h]

\* blit: the part of the source inside the object and inside the plane.
Pixel(img, x, y) == Colour(img.pixels[y * img.w + x + 1])
Blit(canvas, img, co, src) ==
    [p \in DOMAIN canvas |->
       LET dx == p[1] - co.x
           dy == p[2] - co.y
       IN  IF /\ dx \in 0..(src.w - 1) /\ dy \in 0..(src.h - 1)
              /\ src.x + dx < img.w /\ src.y + dy < img.h
             THEN Pixel(img, src.x + dx, src.y + dy)
             ELSE canvas[p]]

ImageOf(id) == {k \in DOMAIN images : images[k].id = id}
PaintObject ==
    /\ phase = "paint" /\ pos < Len(DS.pcs.objects)
    /\ LET co == DS.pcs.objects[pos + 1] IN
         \E k \in ImageOf(co.object) :
           plane' = Blit(plane, images[k], co, Source(co, images[k]))
    /\ pos' = pos + 1
    /\ UNCHANGED <<input, wire, phase, cur, sets, ds, acc, rle, images>>

Rendered ==
    /\ phase = "paint" /\ pos = Len(DS.pcs.objects)
    /\ phase' = "done"
    /\ UNCHANGED <<input, wire, pos, cur, sets, ds, acc, rle, images, plane>>

-----------------------------------------------------------------------------

Advance ==
    \/ ParseSegments
    \/ OpenSet \/ AddWindows \/ AddPalette \/ AddFragment \/ CloseSet \/ IgnoreSegment
    \/ StreamGrouped
    \/ FirstFragment \/ NextFragment \/ ObjectsJoined
    \/ LiteralPixel \/ EndOfLine \/ RunOfPixels \/ ObjectDecoded
    \/ BlankPlane \/ PaintObject \/ Rendered

\* Malformed: an error in any loop ends the call.
Refuse ==
    /\ phase \in {"group", "join", "decode", "paint"}
    /\ ~ENABLED Advance
    /\ phase' = IF phase = "group" THEN "refused" ELSE "failed"
    /\ UNCHANGED <<input, wire, pos, cur, sets, ds, acc, rle, images, plane>>

PgsInit ==
    /\ input \in Streams
    /\ wire = <<>> /\ phase = "start" /\ pos = 0 /\ cur = None /\ sets = <<>>
    /\ ds = 0 /\ acc = <<>> /\ rle = NoRle /\ images = <<>> /\ plane = NoPlane

PgsNext == Advance \/ Refuse \/ \E k \in DOMAIN sets : Render(k)
PgsSpec == PgsInit /\ [][PgsNext]_pgsVars /\ WF_pgsVars(Advance \/ Refuse)

-----------------------------------------------------------------------------
(* Properties.                                                             *)

\* The display sets handed out are those the author wrote, with every segment
\* in the set and the bucket it belongs to, and a stream that breaks the
\* framing, anywhere, gives none.
GroupsTruth ==
    /\ phase \in {"ready", "join", "decode", "paint", "done", "failed"} => sets = input.sets
    /\ phase = "refused" => input.sets = NoSets

\* A rendered display set shows the author's picture: every object whole, at
\* its place, in the colours of the palette the composition names, cropped and
\* clipped; and only a set that has no picture is refused.  While an object is
\* decoded no more pixels are held than it has.
RendersTruth ==
    /\ Decoding => Len(rle.pixels) = rle.lines * Object.w + rle.line
                   /\ rle.line <= Object.w /\ rle.lines <= Object.h
    /\ phase = "done" => plane = input.planes[ds]
    /\ phase = "failed" => input.planes[ds] = NoPlane
=============================================================================
