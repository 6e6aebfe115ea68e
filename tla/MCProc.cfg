\* Two CPUs, init and three more slots, pids up to 4: safety.
CONSTANTS
  CPUs = {cpu0, cpu1}
  NoCpu = NoCpu
  NPROC = 4
  Chans = {100}
  MaxPid = 4
SYMMETRY CpuSymmetry
SPECIFICATION Spec
INVARIANTS
  TypeOK
  OnOneCpu
  ParentCanReap
  WaiterNotForgotten
  PidsUnique
PROPERTIES
  ZombieUntilWait
