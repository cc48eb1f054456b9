SPECIFICATION Spec
CONSTANTS
    Threads = {t1, t2}
    MRs = {m1}
    VMAs = {v1}
    None = None
    Callback = Callback
    Sizes = {1}
    HandleSpace = 3
    Persistent = FALSE
    CouldCache = FALSE
    MustUseDevice = FALSE
    RamPages = {FALSE}
    Calls = {"pin", "unpin", "mmap", "munmap", "gdr_close"}
    Liberties = {"BadFlags"}
SYMMETRY Symmetry
INVARIANTS
    FreedUnderWriteLock
