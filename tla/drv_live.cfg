SPECIFICATION FairSpec
CONSTANTS
    Threads = {t1, t2}
    MRs = {m1, m2}
    VMAs = {v1}
    None = None
    Callback = Callback
    Sizes = {1}
    HandleSpace = 2
    Persistent = FALSE
    CouldCache = FALSE
    MustUseDevice = FALSE
    RamPages = {FALSE}
    Calls = {"pin", "unpin", "get_cb_flag", "mmap", "munmap", "gdr_close"}
    Liberties = {"AnyQuery"}
PROPERTIES
    RevocationCompletes
    CallsReturn
