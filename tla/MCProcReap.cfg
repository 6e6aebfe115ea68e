\* One CPU, init, a child and a grandchild, sleeps on other channels: liveness.
CONSTANTS
  CPUs = {cpu0}
  NoCpu = NoCpu
  NPROC = 3
  Chans = {100}
  MaxPid = 3
SPECIFICATION FairSpec
PROPERTIES
  RunnableRuns
  OrphanReaped
