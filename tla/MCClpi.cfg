\* Four keyframes; a time is 6 bits, of which the u32 of the code holds 5.
CONSTANTS
    PtsUnit = 2
    PtsFine = 8
    PtsCoarse = 8
    PtsWord = 32
    SpnFine = 4
    MaxEntries = 4
    PtsRange = 32
    PtsSteps <- SmallPtsSteps
    SpnSteps <- SmallSpnSteps
SPECIFICATION Spec
INVARIANTS SeekWithinUnit ReadsBack
CHECK_DEADLOCK FALSE
