\* Three processes, two lock ids, two updates each.
CONSTANTS
  CPUs = {cpu0, cpu1, cpu2}
  NLOCKS = 2
  MaxInits = 1
  MaxUpdates = 2
SYMMETRY CpuSymmetry
SPECIFICATION Spec
INVARIANTS
  OneOwner
  NoLostUpdate
\* A panic or a lock that is never freed stops the kernel.
CHECK_DEADLOCK FALSE
