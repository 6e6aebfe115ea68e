\* Two processes with two calls each on a directory and a file.  The calls of the code can wait for
\* each other in a circle (MCInodesDeadlock.cfg), so the system may stop.
SPECIFICATION Spec
CONSTANTS
    NINODES = 8
    NINODE = 8
    NBLOCKS = 8
    BSIZE = 4
    NDIRECT = 2
    DIRSIZ = 14
    NoHandler = {}
    Procs = {1, 2}
    MaxCalls = 2
    Calls <- MCCalls
    Disk <- MCDisk
INVARIANTS
    NoPanic
    ReferencesHeld
    LocksHeld
    QuietConsistent
    CacheIsDisk
CHECK_DEADLOCK FALSE
