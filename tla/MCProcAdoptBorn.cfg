\* PAUSE outlives the process it was set for.
CONSTANTS
  CPUs = {cpu0}
  NoCpu = NoCpu
  NPROC = 3
  Chans = {}
  MaxPid = 4
  Signals = {"PAUSE", "CONTINUE"}
SPECIFICATION SpecA
PROPERTIES
  BornClean
