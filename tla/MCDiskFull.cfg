\* As MCUserTests.cfg, with files that are larger than the image.
SPECIFICATION Spec
CONSTANTS
    NINODES = 24
    NINODE = 7
    NBLOCKS = 4
    BSIZE = 4
    NDIRECT = 3
    DIRSIZ = 14
    NoHandler = {}
    NPROC = 5
    NOFILE = 6
    NFILE = 6
    MaxWrite = 8
    PIPESIZE = 3
    Pipes = {1}
    Pages = 30
    KernelPages = 3
    MaxPages = 8
    MaxArgument = 3
    MAXARGS = 5
    Images <- MCImages
    Program <- MCProgram
    Files <- LargeFiles
    Startups <- BootOnly
INVARIANTS
    DiskConsistent
