SPECIFICATION Spec
CONSTANTS
    Threads = {t1, t2}
    MRs = {m1, m2}
    VMAs = {v1, v2}
    None = None
    Callback = Callback
    Sizes = {1}
    HandleSpace = 2
    Persistent = FALSE
    CouldCache = TRUE
    MustUseDevice = FALSE
    RamPages = {TRUE}
    Calls = {"pin", "unpin", "get_info", "get_cb_flag", "req_type", "mmap", "munmap", "gdr_close"}
    Liberties = {"AnyQuery"}
SYMMETRY Symmetry
INVARIANTS
    MappedAsRequested
PROPERTIES
    FlagMeansGone
    ImplementsBufferLife
