CONSTANTS
  NPROC = 3
  MaxPid = 4
  MaxSleep = 2
  Codes = {0, 1}
  Reentrant = TRUE
SPECIFICATION FairSpec
INVARIANTS BitmapExact ParentTree NoLostExit NoOversleep
PROPERTIES ZombieKept InitSleepEnds
