\* Two processes, two descriptors each, four inodes, two names, two blocks.
CONSTANTS
  Procs = {p0, p1}
  Root = p0
  NOFILE = 2
  NFILE = 2
  N_INODE = 2
  NInodes = 4
  Blocks = {1, 2}
  Names = {n1, n2}
  MaxLeaks = 1
  MaxReboots = 1
SYMMETRY Symmetry
SPECIFICATION Spec
INVARIANTS
  RefCounts
  OpenStaysAllocated
  NamesLive
  LinksExact
  BlocksOwned
CHECK_DEADLOCK FALSE
