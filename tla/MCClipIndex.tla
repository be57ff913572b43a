---------------------------- MODULE MCClipIndex ----------------------------
(***************************************************************************)
(* Every PlayList of up to MaxItems items over a few clips, some with a    *)
(* second angle.                                                           *)
(***************************************************************************)
EXTENDS Timeline

CONSTANT MaxTime    \* IN and OUT times, in 45 kHz ticks

Row(pts, spn, change) == [pts |-> pts, spn |-> spn, change |-> change]

\* A missing clip whose EP_map is there, an empty one, and clips whose EP_map is
\* in disorder, starts late, or runs to the end of the clip.
Files ==
    {[size |-> 0, present |-> FALSE, rows |-> <<Row(1, 0, TRUE)>>],
     [size |-> 0, present |-> TRUE, rows |-> <<>>],
     [size |-> 2, present |-> TRUE, rows |-> <<Row(3, 1, TRUE), Row(1, 0, TRUE)>>],
     [size |-> 3, present |-> TRUE,
      rows |-> <<Row(0, 0, TRUE), Row(2, 1, FALSE), Row(4, 2, TRUE)>>]}

\* A PlayItem of two angles has a clip of other packets and rows in the second.
Angles ==
    {<<f>> : f \in Files} \union
    {<<f, [size |-> 1, present |-> TRUE, rows |-> <<Row(2, 0, TRUE)>>]>> :
       f \in {g \in Files : g.size = 3}}

Items == [inTime : 0..MaxTime, outTime : 0..MaxTime, angles : Angles]

\* SubPlayItems locked to every item and to none, at times before IN and past OUT.
Subs == [sync : 0..MaxItems, anchor : 0..(MaxTime + 1), inTime : {1}, outTime : {0, 3}]
Types == {5, AsyncPip}

\* Pairs of marks: of other types, of no item, before IN, past OUT, in any order.
Marks == [entry : {TRUE}, item : 0..MaxItems, time : 0..(MaxTime + 1)]
            \union {[entry |-> FALSE, item |-> 0, time |-> MaxTime]}
MarkPairs == {<<m, n>> : m, n \in Marks}

\* Angles a caller asks for, and times.
AngleNumbers == 0..2
Times == 0..(2 * MaxItems * MaxTime)
=============================================================================
