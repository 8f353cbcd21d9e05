CONSTANTS
  NPROC = 4
  MaxPid = 5
  MaxSleep = 2
  Codes = {0, 1}
  Reentrant = FALSE
  Harts = {0, 1}
  NoHart = NoHart
SPECIFICATION FairBoot
INVARIANTS OwnPc ReadyBeforeUse StuckOnlyInAlloc LinesWhole NestCovers
PROPERTY HartsArrive
