SPECIFICATION Spec
CONSTANTS
    Threads = {t1, t2}
    MRs = {m1, m2}
    VMAs = {v1, v2}
    None = None
    Callback = Callback
    Sizes = {2}
    HandleSpace = 3
    Persistent = FALSE
    CouldCache = FALSE
    MustUseDevice = FALSE
    RamPages = {FALSE}
    Calls = {"pin", "unpin", "mmap", "munmap"}
    Liberties = {"AnyHandle", "AnyQuery", "Remap", "UnpinMapped", "FreeDuringMap", "BadFlags", "Split"}
SYMMETRY Symmetry
VIEW ControlView
INVARIANTS
    TypeOK
    NoUseAfterFree
    RefcountExact
    ReleaseLeavesNothing
