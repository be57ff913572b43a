\* One file in one directory, fifteen entries for it, ten volumes.
CONSTANTS
    BlockSize = 4
    LenRange = 100
    AdSize <- SmallAds
    Prefix <- SmallPrefix
    AedHeader = 1
    FidHeader = 1
    FidAlign = 2
    MaxChain = 2
    MaxExtent = 8
    Anchor = 3
    Images <- SmallImages
    Paths <- SmallPaths
    MaxFaults = 2
SPECIFICATION UdfSpec
INVARIANTS ReadsTruth
PROPERTY UdfReturns
