----------------------------- MODULE ClipIndex -----------------------------
(***************************************************************************)
(* The seek index of a title (build_clip_seek_index, src/src/disc.rs) and  *)
(* the tables read off it: continuity segments, PTS reprojection and       *)
(* angle-change points, by an open source or by a Disc.  Pure operators.   *)
(*                                                                         *)
(* A PlayItem is [inTime, outTime, angles], times in 45 kHz ticks; angles  *)
(* has one file for the primary clip and one per further angle.  A file    *)
(* is [size, present, rows]: its length in source packets (a shorter rest  *)
(* is dropped), whether the .m2ts is there, and the primary EP_map, rows   *)
(* [pts, spn, change].                                                     *)
(***************************************************************************)
EXTENDS Integers, Sequences, SequencesExt, FiniteSets

\* duration_90k: OUT - IN, saturating, lifted to 90 kHz.
Duration(item) ==
    IF item.outTime > item.inTime THEN 2 * (item.outTime - item.inTime) ELSE 0

\* angle_clip: the file of an angle (from 0); build_clip_seek_index falls back
\* to the primary clip.
HasAngle(item, a) == a + 1 \in DOMAIN item.angles
AngleFile(item, a) == item.angles[IF HasAngle(item, a) THEN a + 1 ELSE 1]

\* Packets the index believes a file has: none when it cannot be measured.
PacketCount(item, a) ==
    IF AngleFile(item, a).present THEN AngleFile(item, a).size ELSE 0

\* Places in the order of their keys; sort_by_key is stable: equal keys keep
\* their order.
Before(keys, i, j) == keys[i] < keys[j] \/ (keys[i] = keys[j] /\ i < j)
Rank(keys, places, i) == 1 + Cardinality({j \in places : Before(keys, j, i)})
Ranked(keys, places) ==
    [r \in 1..Cardinality(places) |-> CHOOSE i \in places : Rank(keys, places, i) = r]

\* The rows at some places of an EP_map, by their times.
ByPts(rows, places) ==
    LET order == Ranked([i \in DOMAIN rows |-> rows[i].pts], places)
    IN  [r \in DOMAIN order |-> [pts |-> rows[order[r]].pts, spn |-> rows[order[r]].spn]]

ChangePlaces(rows) == {i \in DOMAIN rows : rows[i].change}

\* The running total of a loop: what is added up before the first element, the
\* second, ... and at the end.
RunningSum(nums) ==
    LET sum[k \in 0..Len(nums)] == IF k = 0 THEN 0 ELSE sum[k - 1] + nums[k] IN sum

\* build_clip_seek_index, load_clip_meta
BuildIndex(items, a, tsLen) ==
    LET counts == [i \in 1..Len(items) |-> PacketCount(items[i], a)]
        packets == RunningSum(counts)
        time == RunningSum([i \in 1..Len(items) |-> Duration(items[i])])
        clip(i) ==
          LET rows == AngleFile(items[i], a).rows IN
          [start    |-> packets[i - 1] * tsLen,
           pkts     |-> counts[i],
           present  |-> AngleFile(items[i], a).present,
           ptsStart |-> time[i - 1],
           inPts    |-> 2 * items[i].inTime,
           eps      |-> ByPts(rows, DOMAIN rows),
           changes  |-> ByPts(rows, ChangePlaces(rows))]
    IN  [clips    |-> [i \in 1..Len(items) |-> clip(i)],
         total    |-> packets[Len(items)] * tsLen,
         duration |-> time[Len(items)]]

\* Angles every PlayItem has: switch_angle_at accepts no other.
UsableAngles(items) == {a \in 0..255 : \A i \in DOMAIN items : HasAngle(items[i], a)}

-----------------------------------------------------------------------------
(* Tables over an index x.                                                 *)

\* pts_continuity_segments
Segments(x) ==
    [i \in DOMAIN x.clips |->
       LET c == x.clips[i]
           final == i = Len(x.clips)
           byteEnd == IF final THEN x.total ELSE x.clips[i + 1].start
           ptsEnd == IF final THEN x.duration ELSE x.clips[i + 1].ptsStart
       IN  [byteStart |-> c.start, byteEnd |-> byteEnd,
            ptsStart |-> c.ptsStart, ptsEnd |-> ptsEnd,
            clipIn |-> c.inPts, clipOut |-> c.inPts + (ptsEnd - c.ptsStart)]]

NoTime == -1

\* mutant: the first clip that starts at or before the byte
FirstClipPts(x, byte, pts) ==
    LET c == x.clips[CHOOSE i \in DOMAIN x.clips : x.clips[i].start <= byte]
    IN  IF pts < c.inPts THEN NoTime ELSE c.ptsStart + (pts - c.inPts)

\* map_clip_pts_to_title_pts: the last clip that starts at or before the byte.
TitlePts(x, byte, pts) ==
    LET c == x.clips[CHOOSE i \in DOMAIN x.clips :
                       /\ x.clips[i].start <= byte
                       /\ \A j \in DOMAIN x.clips : x.clips[j].start <= byte => j <= i]
    IN  IF pts < c.inPts THEN NoTime ELSE c.ptsStart + (pts - c.inPts)

\* mutant: rows before the IN point kept
AllPoints(x, tsLen) ==
    LET points(c) ==
          [e \in DOMAIN c.changes |->
             [time |-> c.ptsStart + (c.changes[e].pts - c.inPts),
              byte |-> c.start + c.changes[e].spn * tsLen]]
    IN  FlattenSeq([i \in DOMAIN x.clips |-> points(x.clips[i])])

\* angle_change_points: rows before the PlayItem's IN point dropped.
ClipPoints(c, tsLen) ==
    LET reachable == Ranked([e \in DOMAIN c.changes |-> e],
                            {e \in DOMAIN c.changes : c.changes[e].pts >= c.inPts})
        row(k) == c.changes[reachable[k]]
    IN  [k \in DOMAIN reachable |-> [time |-> c.ptsStart + (row(k).pts - c.inPts),
                                      byte |-> c.start + row(k).spn * tsLen]]
AnglePoints(x, tsLen) == FlattenSeq([i \in DOMAIN x.clips |-> ClipPoints(x.clips[i], tsLen)])

\* next_angle_change_point: a binary search.  It ends between a point before the
\* time and one that is not; when points are out of order there are several.
NextPoints(points, time) ==
    {k \in 1..(Len(points) + 1) :
       /\ k > 1 => points[k - 1].time < time
       /\ k <= Len(points) => points[k].time >= time}

-----------------------------------------------------------------------------
(* The same tables listed by a Disc, which opens no stream file.           *)

\* open_title_with_angle refuses an angle that some PlayItem does not have.
Opens(items, a) == items # <<>> /\ \A i \in DOMAIN items : HasAngle(items[i], a)

\* max_angle
MaxAngle(items) ==
    IF items = <<>> THEN 0 ELSE Min({Len(items[i].angles) - 1 : i \in DOMAIN items})

\* The walk over the PlayItems, with the bytes and the time so far.
Walk(items, a, tsLen) ==
    LET seen(w, item) ==
          [start |-> w.bytes, ptsStart |-> w.pts, inPts |-> 2 * item.inTime,
           changes |-> ByPts(AngleFile(item, a).rows, ChangePlaces(AngleFile(item, a).rows))]
        past(w, item) ==
          [bytes |-> w.bytes + PacketCount(item, a) * tsLen, pts |-> w.pts + Duration(item),
           clips |-> Append(w.clips, seen(w, item))]
        walk[k \in 0..Len(items)] ==
          IF k = 0 THEN [bytes |-> 0, pts |-> 0, clips |-> <<>>] ELSE past(walk[k - 1], items[k])
    IN  walk[Len(items)]

\* title_pts_continuity_segments_with_angle: the last segment ends after the
\* duration of its PlayItem.
ListedSegments(items, a, tsLen) ==
    LET w == Walk(items, a, tsLen)
        c == w.clips
        final(i) == i = Len(c)
        ptsEnd(i) == IF final(i) THEN c[i].ptsStart + Duration(items[i]) ELSE c[i + 1].ptsStart
    IN  IF ~Opens(items, a) THEN <<>>
        ELSE [i \in DOMAIN c |->
                [byteStart |-> c[i].start, ptsStart |-> c[i].ptsStart, ptsEnd |-> ptsEnd(i),
                 byteEnd |-> IF final(i) THEN w.bytes ELSE c[i + 1].start,
                 clipIn |-> c[i].inPts, clipOut |-> c[i].inPts + (ptsEnd(i) - c[i].ptsStart)]]

\* title_angle_change_points_with_angle: the loop over the rows of a clip, and
\* over the clips.
Listed(c, tsLen) ==
    LET point(row) == [time |-> c.ptsStart + (row.pts - c.inPts),
                       byte |-> c.start + row.spn * tsLen]
        got[k \in 0..Len(c.changes)] ==
          IF k = 0 THEN <<>>
          ELSE IF c.changes[k].pts < c.inPts THEN got[k - 1]
          ELSE Append(got[k - 1], point(c.changes[k]))
    IN  got[Len(c.changes)]
ListedPoints(items, a, tsLen) ==
    LET clips == Walk(items, a, tsLen).clips
    IN  IF ~Opens(items, a) THEN <<>>
        ELSE FlattenSeq([i \in DOMAIN clips |-> Listed(clips[i], tsLen)])
=============================================================================
