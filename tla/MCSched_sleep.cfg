CONSTANTS
  NPROC = 3
  MaxPid = 3
  MaxSleep = 1
  Codes = {0}
  Reentrant = FALSE
SPECIFICATION FairSpec
PROPERTY SleepGivesUpHart
