\* The test program: init, acquire, update, release.
CONSTANTS
  CPUs = {cpu0, cpu1}
  NLOCKS = 2
  MaxInits = 1
  MaxUpdates = 1
SPECIFICATION FairSpec
PROPERTIES
  UpdatesDone
CHECK_DEADLOCK FALSE
