\* Two processes that append to one cache; a wrong Volume Identifier in a variable.
CONSTANTS
    p1 = p1
    p2 = p2
    d1 = d1
    d2 = d2
    clear = clear
    Junk = Junk
    Unset = Unset
    Malformed = Malformed
    Procs = {p1, p2}
    Discs = {d1, d2, clear}
    Protected = {d1, d2}
    NeedsKcd = {d2}
    CpsUnits <- SmallCpsUnits
    SampleUnit <- SmallSampleUnit
    Wants <- SmallWants
    Worlds <- SmallWorlds
    MaxLines = 2
SPECIFICATION Spec
INVARIANTS CacheTellsTruth KeysPlay
PROPERTIES WritesTrueLines
