\* Three calls by the caller on every small disc.
CONSTANTS
    WordBits = 4
    Gprs = {0}
    Psrs = {4, 13}
    ReadOnly = {13}
    Tables <- AllTables
    StepBudget = 5
    ObjectBudget = 2
    Indexes <- SmallIndexes
    NoObject = NoObject
    TitlePsr = 4
    TitleBits = 2
    TitleBudget = 2
    MaxCalls = 3
SPECIFICATION FairSpec
INVARIANTS
    TypeOK FramesAreReturnPoints PendingIsYield TitleRegisterTracks
PROPERTIES FinishedIsDone PlayerRegistersKept DrivesReturn
CHECK_DEADLOCK FALSE
