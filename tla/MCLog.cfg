\* Two processes, two crashes, mkfs's log with three data blocks; a call logs less than it reserves.
CONSTANTS
  Procs = {p0, p1}
  Boot = boot
  Blocks = {b0, b1, b2}
  Vals = {v0, v1}
  Blank = v0
  OpBlocks = 1
  MAXOPBLOCKS = 2
  LOGSIZE = 4
  Behind = b0
  NotCached = NotCached
  MaxCrashes = 2
SPECIFICATION FairSpec
INVARIANTS
  QuietIsDurable
  NoPanic
PROPERTIES
  Atomic
  SleeperWakes
