\* A reader that reads and seeks; one backward seek fails.
CONSTANTS
    TsLen = 2
    UnitPkts = 2
    PtsMax = 9
    Titles <- StreamTitles
    Times <- SomeTimes
    MaxRead = 5
    MaxSeek = 15
    MaxFaults = 1
SPECIFICATION ReadsAndSeeks
INVARIANT SeekOkIsReadable
