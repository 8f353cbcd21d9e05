\* Two processes, two region nodes, window of three pages.
CONSTANTS
  Procs = {p0, p1}
  Root = p0
  InitPages = 1
  Programs <- ElfFiles
  STACK_BASE = 2
  STACK_TOP = 4
  MMAP_BEGIN = 4
  MMAP_END = 7
  N_MMAP = 2
  MaxLost = 1
SPECIFICATION Spec
INVARIANTS
  RegionsCanonical
  Backed
  Accounted
  FirstFitIsLowest
  MunmapExact
CHECK_DEADLOCK FALSE
