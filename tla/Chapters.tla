------------------------------ MODULE Chapters ------------------------------
(***************************************************************************)
(* The chapters of a PlayList (src/src/bdmv/mpls.rs) and the requests that *)
(* open_title_chapters (src/src/disc.rs) makes of them.  Pure operators.   *)
(*                                                                         *)
(* A mark is [entry, item, time]: whether it is an entry-mark, the PlayItem*)
(* it refers to, from 0, and its time on that item's clip, in 45 kHz ticks.*)
(***************************************************************************)
EXTENDS ClipIndex

\* Title time at which PlayItem i begins; one past the last gives the duration.
ItemStart(items, i) ==
    RunningSum([k \in 1..Len(items) |-> Duration(items[k])])[i - 1]
TitleEnd(items) == ItemStart(items, Len(items) + 1)

\* Marks of another type, of no PlayItem, or before its IN point are skipped.
IsChapter(items, m) ==
    /\ m.entry
    /\ m.item + 1 \in DOMAIN items
    /\ m.time >= items[m.item + 1].inTime

ChapterStart(items, m) ==
    ItemStart(items, m.item + 1) + 2 * (m.time - items[m.item + 1].inTime)

\* chapters: in the order of the marks.
ChapterStarts(items, marks) ==
    LET listed == Ranked([k \in DOMAIN marks |-> k],
                         {k \in DOMAIN marks : IsChapter(items, marks[k])})
    IN  [k \in DOMAIN listed |-> ChapterStart(items, marks[listed[k]])]

Later(a, b) == IF a >= b THEN a ELSE b

\* mutant: marks taken to be in order
AsAuthored(starts) == starts
InOrder(starts) ==
    LET order == Ranked(starts, DOMAIN starts) IN [k \in DOMAIN order |-> starts[order[k]]]

\* chapters_with_duration: in order of time.
ChapterSpans(items, marks) ==
    LET starts == InOrder(ChapterStarts(items, marks))
        until(k) == IF k = Len(starts) THEN TitleEnd(items) ELSE starts[k + 1]
    IN  [k \in DOMAIN starts |-> [start |-> starts[k], end |-> Later(until(k), starts[k])]]

-----------------------------------------------------------------------------
(* Sync windows.  A SubPlayItem is [sync, anchor, inTime, outTime]: the     *)
(* PlayItem it is locked to, from 0, the time of that item's clip at which  *)
(* it starts, its own times.                                               *)

AsyncPip == 6
NoWindow == [start |-> NoTime, end |-> NoTime]

SyncItem(items, sub) == sub.sync + 1

\* sub_play_item_sync_window: none for an asynchronous path, for a PlayItem
\* that is not there, and for an anchor before its IN point.
SyncWindow(items, type, sub) ==
    IF type = AsyncPip \/ SyncItem(items, sub) \notin DOMAIN items THEN NoWindow
    ELSE LET item == items[SyncItem(items, sub)]
             start == ItemStart(items, SyncItem(items, sub)) + 2 * (sub.anchor - item.inTime)
         IN  IF sub.anchor < item.inTime THEN NoWindow
             ELSE [start |-> start, end |-> start + Duration(sub)]

-----------------------------------------------------------------------------
(* open_title_chapters.  A selector is [kind, first, last, ids]: "all",    *)
(* "range" (last 0 for an open range) or "list".                           *)

Ids(selector, count) ==
    CASE selector.kind = "all" -> [k \in 1..count |-> k]
      [] selector.kind = "list" -> selector.ids
      [] selector.kind = "range" ->
           LET last == IF selector.last = 0 THEN count ELSE selector.last
           IN  [k \in 1..(last - selector.first + 1) |-> selector.first + k - 1]

\* A title without chapters, and an id that is not one of them, are refused.
Accepted(selector, count) ==
    /\ count > 0
    /\ \A k \in DOMAIN Ids(selector, count) : Ids(selector, count)[k] \in 1..count
    /\ selector.kind = "range" =>
         /\ selector.first \in 1..count
         /\ selector.last = 0 \/ selector.last \in selector.first..count

Requests(items, marks, selector) ==
    LET starts == ChapterStarts(items, marks)
        ids == Ids(selector, Len(starts))
    IN  [k \in DOMAIN ids |->
           LET final == ids[k] = Len(starts) IN
           [id |-> ids[k], from |-> starts[ids[k]], final |-> final,
            to |-> IF final THEN TitleEnd(items) ELSE starts[ids[k] + 1]]]

-----------------------------------------------------------------------------
(* open_bluray_multi_title.  The ids of a range or a list are not compared *)
(* with the chapters there are until one of them is opened.                *)

NoRequest == [id |-> 0, from |-> 0, to |-> 0, final |-> FALSE]

Opening(items, marks, id) ==
    LET starts == ChapterStarts(items, marks)
        final == id = Len(starts)
    IN  IF id \notin DOMAIN starts THEN NoRequest
        ELSE [id |-> id, from |-> starts[id], final |-> final,
              to |-> IF final THEN TitleEnd(items) ELSE starts[id + 1]]
=============================================================================
