SPECIFICATION Spec
CONSTANTS
    Memhs = {h1, h2}
    Bufs = {b1, b2}
    VMAs = {v1, v2}
    None = None
    Sizes = {1}
    HandleSpace = 4
    HandleWord = 4
    Persistent = FALSE
    CouldCache = TRUE
    MustUseDevice = FALSE
    RamPages = {TRUE, FALSE}
    DriverMinors = {3, 5}
    MaxMappings = 3
SYMMETRY Symmetry
INVARIANTS
    ApiTypeOK
    OneLiveMapping
    HandleFindsOwnBuffer
    BeliefMatchesDriver
    NoLeftoverMapping
    RequestHonoured
    MixIsDetected
