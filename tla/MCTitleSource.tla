--------------------------- MODULE MCTitleSource ---------------------------
(***************************************************************************)
(* Small titles for TitleSource, their index built by ClipIndex.           *)
(***************************************************************************)
EXTENDS TitleSource, ClipIndex

Row(pts, spn, change) == [pts |-> pts, spn |-> spn, change |-> change]
File(size, rows) == [size |-> size, present |-> TRUE, rows |-> rows]
Missing == [size |-> 0, present |-> FALSE, rows |-> <<>>]
Item(in, out, files) == [inTime |-> in, outTime |-> out, angles |-> files]

\* Every usable angle of a PlayList, indexed.
Opened(items) ==
    [a \in {u + 1 : u \in UsableAngles(items)} |-> BuildIndex(items, a - 1, TsLen)]

\* Two clips around an empty one; the last ends in a partial unit, and its
\* EP_map is out of order and starts after IN.
Spliced == Opened(<<
    Item(1, 4, <<File(4, <<Row(2, 0, FALSE), Row(5, 3, FALSE)>>)>>),
    Item(0, 1, <<File(0, <<>>)>>),
    Item(3, 5, <<File(3, <<Row(9, 2, FALSE), Row(7, 1, FALSE)>>)>>)>>)

\* The middle clip is not on the disc; the EP_map of the last repeats a time and
\* runs past OUT.
Gapped == Opened(<<
    Item(0, 1, <<File(2, <<>>)>>),
    Item(0, 1, <<Missing>>),
    Item(0, 1, <<File(2, <<Row(0, 0, FALSE), Row(0, 0, FALSE), Row(3, 1, FALSE)>>)>>)>>)

\* Two angles whose tables agree, a change point in each clip.
TwoAngles ==
    LET one == File(3, <<Row(0, 0, TRUE), Row(4, 2, TRUE)>>)
        two == File(2, <<Row(0, 0, FALSE), Row(2, 1, TRUE)>>)
    IN  Opened(<<Item(0, 3, <<one, one>>), Item(0, 2, <<two, two>>)>>)

\* Two angles of different length.
Uneven == Opened(<<
    Item(0, 2, <<File(3, <<Row(0, 0, TRUE), Row(2, 2, TRUE)>>),
                 File(2, <<Row(0, 0, TRUE)>>)>>)>>)

StreamTitles == {Spliced, Gapped, TwoAngles, Uneven}
SomeTimes == {0, 4, 6, 7, 9, 11}

\* A reader that reads and seeks by bytes on a disc with all its clips, of whose
\* failures only one is left: a backward seek cannot open the clip it goes to.
ReadsAndSeeks ==
    /\ Init /\ \A c \in DOMAIN Clips : Clips[c].present
    /\ [][\/ EndOfStream \/ Deliver \/ StageUnit \/ NextClip
          \/ \E n \in 1..MaxRead : ReadCall(n)
          \/ \E to \in 0..MaxSeek :
               SeekForward(to) \/ SeekBackward(to) \/ SeekBackwardFails(to)]_vars

\* The hypotheses of the theorems about landings.
ASSUME EpMapsRise /\ PointsInside
=============================================================================
