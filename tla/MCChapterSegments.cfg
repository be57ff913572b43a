\* Chapters read whole, in part and out of order, and chapters opened one by
\* one whose reader seeks where it likes, with failures anywhere.
CONSTANTS
    TsLen = 2
    UnitPkts = 2
    PtsMax = 99
    Titles <- SmallTitles
    Times = {0}
    MaxRead = 4
    MaxSeek = 0
    MaxFaults = 2
    Selections <- SmallSelections
    BufLen = 3
    Openings <- SmallOpenings
    Positions = {0, 3}
SPECIFICATION MultiSpec
INVARIANTS SegmentsAreRuns SegmentsJoin BoundedKeepsChapter
PROPERTY EveryCallReturns
CHECK_DEADLOCK FALSE
