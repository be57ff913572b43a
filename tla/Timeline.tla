------------------------------ MODULE Timeline ------------------------------
(***************************************************************************)
(* What the tables of a title promise each other: a PlayList grows by one  *)
(* PlayItem after another, and of every PlayList so made the index and the *)
(* tables over it must agree.                                              *)
(***************************************************************************)
EXTENDS Chapters

CONSTANTS
    PacketLen,  \* output bytes of a packet (TS_PACKET_LEN)
    PlayItems,  \* PlayItems a PlayList is made of
    MaxItems,   \* how many it may have
    PathTypes,  \* types of SubPaths
    SubItems,   \* their SubPlayItems
    MarkLists,  \* marks a PlayList may have
    Asked,      \* angles a caller asks for
    Moments     \* title times it asks about

EpRow == [pts : Nat, spn : Nat, change : BOOLEAN]
StreamFile == [size : Nat, present : BOOLEAN, rows : Seq(EpRow)]
PlayItem == [inTime : Nat, outTime : Nat, angles : Seq(StreamFile)]
SubPlayItem == [sync : Nat, anchor : Nat, inTime : Nat, outTime : Nat]
Mark == [entry : BOOLEAN, item : Nat, time : Nat]

ASSUME TimelineAssumption ==
    /\ PacketLen \in Nat \ {0} /\ MaxItems \in Nat \ {0}
    /\ PlayItems \subseteq PlayItem /\ SubItems \subseteq SubPlayItem
    /\ MarkLists \subseteq Seq(Mark) /\ Asked \subseteq Nat /\ Moments \subseteq Nat
    /\ \A i \in PlayItems : i.angles # <<>>

VARIABLE items

PlayListInit == items \in {<<i>> : i \in PlayItems}
AddItem == \E i \in PlayItems : Len(items) < MaxItems /\ items' = Append(items, i)
PlayListSpec == PlayListInit /\ [][AddItem]_items

-----------------------------------------------------------------------------
(* Properties of an index x.                                               *)

\* The continuity segments cover the output bytes and the title time without a
\* gap or an overlap, in order, whatever clips are missing or empty and whatever
\* PlayItem has its times the wrong way round.
SegmentsTile(x) ==
    LET segs == Segments(x) IN
    /\ segs[1].byteStart = 0 /\ segs[1].ptsStart = 0
    /\ segs[Len(segs)].byteEnd = x.total /\ segs[Len(segs)].ptsEnd = x.duration
    /\ \A i \in DOMAIN segs :
         /\ segs[i].byteStart <= segs[i].byteEnd /\ segs[i].ptsStart <= segs[i].ptsEnd
         /\ i > 1 => /\ segs[i].byteStart = segs[i - 1].byteEnd
                     /\ segs[i].ptsStart = segs[i - 1].ptsEnd

\* The window of a SubPlayItem, computed from the PlayList, is where a player of
\* the bytes meets it: at every byte of the PlayItem it is locked to, its anchor
\* has the window's start as its title time.  There is no window exactly when
\* the path is asynchronous, the PlayItem is not there, or its clip has no such
\* time.
WindowMeets(list, x, type, sub) ==
    LET segs == Segments(x)
        window == SyncWindow(list, type, sub)
        bytes == IF sub.sync < Len(segs)
                   THEN segs[sub.sync + 1].byteStart..(segs[sub.sync + 1].byteEnd - 1) ELSE {}
    IN  /\ window = NoWindow <=>
             \/ type = AsyncPip \/ sub.sync >= Len(segs)
             \/ sub.sync < Len(segs) /\ 2 * sub.anchor < segs[sub.sync + 1].clipIn
        /\ window # NoWindow => window.end = window.start + Duration(sub)
        /\ type # AsyncPip =>
             \A b \in bytes : TitlePts(x, b, 2 * sub.anchor) = window.start

\* A title has one time axis, tiled by its continuity segments, and a time of a
\* clip means the same place on it to the tables of bytes and to the PlayList.
OneTimeline ==
    LET x == BuildIndex(items, 0, PacketLen) IN
    /\ SegmentsTile(x)
    /\ \A type \in PathTypes, sub \in SubItems : WindowMeets(items, x, type, sub)

\* The EP_maps of an angle name packets their clips have.
RowsInside(list, a) ==
    \A i \in DOMAIN list : \A r \in DOMAIN AngleFile(list[i], a).rows :
       AngleFile(list[i], a).rows[r].spn < PacketCount(list[i], a)

\* What a Disc lists of a title is what the title's source says once it is open:
\* for an angle it opens with, the same segments and the same angle-change points;
\* for any other, nothing; and the angles it opens with are those up to max_angle.
\* No point takes the reader back before the segment its byte is in, unless an
\* EP_map points past the end of its clip; and when the points are in order
\* next_angle_change_point answers with the first in time.
ListingsAgree ==
    \A a \in Asked :
      LET x == BuildIndex(items, a, PacketLen)
          segs == Segments(x)
          points == AnglePoints(x, PacketLen)
          ordered == \A k \in 2..Len(points) : points[k - 1].time <= points[k].time
      IN  /\ Opens(items, a) <=> a <= MaxAngle(items)
          /\ ListedSegments(items, a, PacketLen) = IF Opens(items, a) THEN segs ELSE <<>>
          /\ ListedPoints(items, a, PacketLen) = IF Opens(items, a) THEN points ELSE <<>>
          /\ RowsInside(items, a) =>
               \A k \in DOMAIN points : \A i \in DOMAIN segs :
                 points[k].byte \in segs[i].byteStart..(segs[i].byteEnd - 1) =>
                   points[k].time >= segs[i].ptsStart
          /\ ordered => \A t \in Moments : \A k \in NextPoints(points, t) :
                          \A j \in DOMAIN points : j < k => points[j].time < t

\* Whatever marks a PlayList has, in whatever order, the chapters' spans follow
\* one another without a gap or an overlap from the first chapter to the end of
\* the title, and no chapter is lost.
SpansTile ==
    \A marks \in MarkLists :
      LET spans == ChapterSpans(items, marks)
          starts == ChapterStarts(items, marks)
      IN  /\ \A k \in DOMAIN spans :
               /\ spans[k].start <= spans[k].end
               /\ IF k < Len(spans) THEN spans[k].end = spans[k + 1].start
                                    ELSE spans[k].end >= TitleEnd(items)
          /\ \A k \in DOMAIN starts : \E j \in DOMAIN spans : spans[j].start = starts[k]
=============================================================================
