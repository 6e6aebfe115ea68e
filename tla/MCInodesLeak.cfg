\* As MCInodes.cfg: two iputs of one inode can each leave the freeing to the other.
SPECIFICATION Spec
CONSTANTS
    NINODES = 8
    NINODE = 8
    NBLOCKS = 8
    BSIZE = 4
    NDIRECT = 2
    DIRSIZ = 14
    NoHandler = {}
    Procs = {1, 2}
    MaxCalls = 2
    Calls <- MCCalls
    Disk <- MCDisk
INVARIANTS
    NothingLeaks
CHECK_DEADLOCK FALSE
