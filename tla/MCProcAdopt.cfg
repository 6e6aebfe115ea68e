\* One CPU, three slots, pause and continue, of init too; processes sleep in wait.
CONSTANTS
  CPUs = {cpu0}
  NoCpu = NoCpu
  NPROC = 3
  Chans = {}
  MaxPid = 3
  Signals = {"PAUSE", "CONTINUE"}
SPECIFICATION LiveSpecA
PROPERTIES
  UnpausedRuns
  OrphanReapedUnlessPaused
