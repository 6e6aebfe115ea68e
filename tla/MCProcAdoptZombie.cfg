\* KILL makes a zombie that goes on.
CONSTANTS
  CPUs = {cpu0}
  NoCpu = NoCpu
  NPROC = 2
  Chans = {100}
  MaxPid = 3
  Signals = {"PAUSE", "CONTINUE", "KILL"}
SPECIFICATION SpecA
PROPERTIES
  ZombieUntilWait
