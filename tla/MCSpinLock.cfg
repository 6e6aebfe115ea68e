\* Two CPUs, two nested locks, interrupt handlers.
CONSTANTS
  NoCpu = NoCpu
  CPUs = {cpu0, cpu1}
  Locks = {1, 2}
SPECIFICATION FairSpec
INVARIANTS
  MutualExclusion
  NoPanic
  InterruptsOffWhileHeld
  InterruptFlagRestored
PROPERTIES
  HeldLockIsFreed
