------------------------- MODULE MCChapterSegments -------------------------
(***************************************************************************)
(* Chapters of small titles, read whole, in part and in another order.     *)
(***************************************************************************)
EXTENDS MultiTitle, Chapters

Row(pts, spn) == [pts |-> pts, spn |-> spn, change |-> FALSE]
File(size, rows) == [size |-> size, present |-> TRUE, rows |-> rows]
Missing == [size |-> 0, present |-> FALSE, rows |-> <<>>]
Item(in, out, f) == [inTime |-> in, outTime |-> out, angles |-> <<f>>]
Mark(item, time) == [entry |-> TRUE, item |-> item, time |-> time]

\* Keyframes off the unit grid, and a second clip with a part of a unit.
Plain == <<Item(1, 4, File(3, <<Row(2, 0), Row(5, 1)>>)),
           Item(0, 2, File(3, <<Row(0, 0), Row(2, 2)>>))>>

\* The clip in the middle is missing or empty.
Holed(f) == <<Item(0, 1, File(2, <<>>)), Item(0, 1, f),
                 Item(0, 2, File(1, <<Row(0, 0)>>))>>

\* A file shorter than its EP_map says, and a unit-sized clip before it.
Truncated == <<Item(0, 2, File(4, <<Row(0, 0), Row(2, 2)>>)),
               Item(1, 3, File(3, <<Row(2, 0), Row(4, 1), Row(5, 4)>>))>>

PlayLists == {Plain, Truncated, Holed(Missing), Holed(File(0, <<>>))}

\* In order, out of order, a mark before the IN point or of no item, one at the
\* end of the title, two that coincide, one past the file, and a single one.
MarkLists ==
    {<<Mark(0, 1), Mark(0, 3), Mark(1, 1)>>,
     <<Mark(1, 1), Mark(0, 1), Mark(0, 3)>>,
     <<Mark(0, 0), Mark(0, 1), Mark(3, 0), Mark(1, 0)>>,
     <<Mark(0, 1), Mark(1, 0), Mark(2, 2)>>,
     <<Mark(0, 2), Mark(0, 2), Mark(1, 1)>>,
     <<Mark(2, 1), Mark(1, 0), Mark(0, 1)>>,
     <<Mark(0, 1), Mark(1, 2), Mark(1, 3)>>,
     <<Mark(0, 1)>>}

Selectors ==
    {[kind |-> "all", first |-> 0, last |-> 0, ids |-> <<>>],
     [kind |-> "range", first |-> 2, last |-> 0, ids |-> <<>>],
     [kind |-> "list", first |-> 0, last |-> 0, ids |-> <<3, 1, 2>>]}

TitleOf(items) == <<BuildIndex(items, 0, TsLen)>>

SmallTitles == {TitleOf(items) : items \in PlayLists}

SmallSelections ==
    {[title |-> TitleOf(c[1]), requests |-> Requests(c[1], c[2], c[3])] :
       c \in {d \in PlayLists \X MarkLists \X Selectors :
               Accepted(d[3], Len(ChapterStarts(d[1], d[2])))}}

\* Titles opened one by one: every chapter, and an id past the last one.
SmallOpenings ==
    UNION {{[title |-> TitleOf(c[1]), request |-> Opening(c[1], c[2], id)] :
              id \in 1..(Len(ChapterStarts(c[1], c[2])) + 1)} : c \in PlayLists \X MarkLists}

\* The hypotheses of the theorems about landings.
ASSUME EpMapsRise
=============================================================================
