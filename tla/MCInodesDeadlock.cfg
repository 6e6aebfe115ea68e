\* As MCInodes.cfg, with one call for each process: create and unlink put a directory
\* while they hold an inode in it.
SPECIFICATION Spec
CONSTANTS
    NINODES = 8
    NINODE = 8
    NBLOCKS = 8
    BSIZE = 4
    NDIRECT = 2
    DIRSIZ = 14
    NoHandler = {}
    Procs = {1, 2}
    MaxCalls = 1
    Calls <- MCCalls
    Disk <- MCDisk
INVARIANTS
    NoCircularWait
CHECK_DEADLOCK FALSE
