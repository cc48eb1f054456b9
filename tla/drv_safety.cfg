SPECIFICATION Spec
CONSTANTS
    Threads = {t1, t2}
    MRs = {m1, m2}
    VMAs = {v1, v2}
    None = None
    Callback = Callback
    Sizes = {0, 1, 2}
    HandleSpace = 5
    Persistent = FALSE
    CouldCache = FALSE
    MustUseDevice = FALSE
    RamPages = {FALSE}
    Calls = {"pin", "unpin", "mmap", "munmap", "gdr_close"}
    Liberties = {}
SYMMETRY Symmetry
INVARIANTS
    NoStaleMapping
    NoDanglingVma
    FreedUnderWriteLock
    HandleRangesDisjoint
PROPERTIES
    ZapIsolation
