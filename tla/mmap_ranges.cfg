SPECIFICATION Spec
CONSTANTS
    GpuPage = 2
    Frames <- MCFrames
    MaxEntries = 3
INVARIANTS
    RangesTypeOK
    EntriesMatch
    MapsWholeVma
PROPERTIES
    MmapReturns
