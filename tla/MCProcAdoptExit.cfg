\* Who adopts the children of a dead process.
CONSTANTS
  CPUs = {cpu0}
  NoCpu = NoCpu
  NPROC = 4
  Chans = {}
  MaxPid = 4
  Signals = {}
SPECIFICATION SpecA
PROPERTIES
  AdoptedByAncestor
