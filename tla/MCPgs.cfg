\* Framings, run-length texts, fragment chains and compositions.
CONSTANTS
    SizeRange = 65536
    CountRange = 256
    Streams <- SmallStreams
SPECIFICATION PgsSpec
INVARIANTS GroupsTruth RendersTruth
CHECK_DEADLOCK FALSE
