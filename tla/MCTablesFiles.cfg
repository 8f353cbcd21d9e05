\* Five pages under three levels of two entries, two processes, four pids, a
\* copy over up to three pages; two files of up to seven blocks of two cells on a
\* disk of six.
CONSTANTS
  Fan = 2
  MaxVa = 5
  KBase = 0
  Procs = {p, q}
  Kernel = Kernel
  KPages = {1,2,3,4,5,6,7,8,9,10,11,12,13,14,15,16,17,18,19,20,21,22,23,24}
  UPages = {101, 102, 103, 104}
  TrampPa = 99
  MaxPid = 4
  Nil = Nil
  PgSize = 2
  MaxCopy = 4
  FileIds = {f, g}
  NBlocks = 6
  BlockSize = 2
  Direct = 1
  NIndirect = 2
  Chunk = 2
  Seeks = {11}
  MaxLen = 3
  MaxWrites = 3
SYMMETRY Symmetries
INIT Init
NEXT Next
INVARIANTS
  
  Layout
  CopyExact
  ReadsBack
  BlocksExact
PROPERTY ImplementsMap
