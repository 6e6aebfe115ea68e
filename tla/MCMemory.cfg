\* init and one child; pages of two bytes, page tables of two pages, 8 bytes of user memory.
SPECIFICATION Spec
CONSTANTS
    Procs = {init, p1}
    initproc = init
    None = None
    Pages <- MCPages
    PGSIZE = 2
    PTSIZE = 2
    KERNBASE = 8
    KernelTables = 1
    Programs <- MCPrograms
    Arguments = {1, 2, 3, 5, 9}
    Amounts <- MCAmounts
INVARIANTS
    PageHasOneOwner
    SizeIsMapped
    NoPanic
