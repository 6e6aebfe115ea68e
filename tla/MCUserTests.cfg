\* init, the shell with typed sessions and the regression tests, on the image that mkfs makes.
SPECIFICATION Spec
CONSTANTS
    NINODES = 24
    NINODE = 7
    NBLOCKS = 40
    BSIZE = 4
    NDIRECT = 3
    DIRSIZ = 14
    NoHandler = {}
    NPROC = 5
    NOFILE = 6
    NFILE = 6
    MaxWrite = 8
    PIPESIZE = 3
    Pipes = {1}
    Pages = 30
    KernelPages = 3
    MaxPages = 8
    MaxArgument = 3
    MAXARGS = 5
    Images <- MCImages
    Program <- MCProgram
    Files <- MCFiles
    Startups <- MCStartups
INVARIANTS
    AsExpected
    NoPanic
    ReferencesCounted
    DiskConsistent
    WriteThrough
    AllReturned
