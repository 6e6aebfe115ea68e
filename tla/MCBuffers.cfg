\* Three accesses to three blocks through two buffers, both of which the log may pin; the
\* disk fails on one block at a time.
CONSTANTS
  Procs = {p1, p2, p3}
  Blocks = {k1, k2, k3}
  Bufs = {b1, b2}
  Values = 2
  MaxPinned = 2
  MaxBad = 1
  None = None
SPECIFICATION Spec
SYMMETRY Symmetry
INVARIANTS
  PanicOnlyWhenFull
  SleeperHasWaker
PROPERTIES
  ImplementsStore
