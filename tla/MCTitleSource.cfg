\* Every call in every order, with up to two failures and a clip missing from the disc.
CONSTANTS
    TsLen = 2
    UnitPkts = 2
    PtsMax = 9
    Titles <- StreamTitles
    Times <- SomeTimes
    MaxRead = 5
    MaxSeek = 15
    MaxFaults = 2
SPECIFICATION FairSpec
INVARIANTS TypeOK InStep ReadsExact CapHolds UnitAligned SeekExact SeekToTight
PROPERTIES CallsReturn SwitchLands KeepsPromise
