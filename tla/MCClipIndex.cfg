\* Every PlayList of one or two items over four clips,
\* one of them with a second angle.
CONSTANTS
    PacketLen = 2
    MaxItems = 2
    MaxTime = 2
    PlayItems <- Items
    PathTypes <- Types
    SubItems <- Subs
    MarkLists <- MarkPairs
    Asked <- AngleNumbers
    Moments <- Times
SPECIFICATION PlayListSpec
INVARIANTS OneTimeline SpansTile ListingsAgree
CHECK_DEADLOCK FALSE
