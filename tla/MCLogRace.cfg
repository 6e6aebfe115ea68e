\* Calls that log all they reserve: two log_writes check the size of mkfs's log at the same time.
CONSTANTS
  Procs = {p0, p1, p2}
  Boot = boot
  Blocks = {b0, b1, b2}
  Vals = {v0, v1}
  Blank = v0
  OpBlocks = 1
  MAXOPBLOCKS = 1
  LOGSIZE = 3
  Behind = b0
  NotCached = NotCached
  MaxCrashes = 1
SPECIFICATION Spec
PROPERTIES
  Atomic
CHECK_DEADLOCK FALSE
