\* As MCUserTests.cfg, with an image whose root directory is not a whole number of entries per block.
SPECIFICATION Spec
CONSTANTS
    NINODES = 24
    NINODE = 7
    NBLOCKS = 40
    BSIZE = 4
    NDIRECT = 3
    DIRSIZ = 14
    NoHandler = {}
    NPROC = 5
    NOFILE = 6
    NFILE = 6
    MaxWrite = 8
    PIPESIZE = 3
    Pipes = {1}
    Pages = 30
    KernelPages = 3
    MaxPages = 8
    MaxArgument = 3
    MAXARGS = 5
    Images <- MCImages
    Program <- MCProgram
    Files <- TwoFiles
    Startups <- BootOnly
INVARIANTS
    WriteThrough
