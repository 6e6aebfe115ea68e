\* KILL wakes no parent.
CONSTANTS
  CPUs = {cpu0}
  NoCpu = NoCpu
  NPROC = 3
  Chans = {}
  MaxPid = 4
  Signals = {"KILL"}
SPECIFICATION SpecA
INVARIANTS
  WaiterNotForgotten
