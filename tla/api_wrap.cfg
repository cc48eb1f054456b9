SPECIFICATION Spec
CONSTANTS
    Memhs = {h1, h2}
    Bufs = {b1, b2}
    VMAs = {v1, v2}
    None = None
    Sizes = {1}
    HandleSpace = 4
    HandleWord = 2
    Persistent = FALSE
    CouldCache = FALSE
    MustUseDevice = FALSE
    RamPages = {FALSE}
    DriverMinors = {5}
    MaxMappings = 2
SYMMETRY Symmetry
INVARIANTS
    HandleFindsOwnBuffer
