----------------------------- MODULE FileData -----------------------------
(***************************************************************************)
(* The bytes of files: how fs/inode.rs finds a file's blocks through its     *)
(* direct, single and double indirect indices, how fs/bitmap.rs hands blocks *)
(* out and takes them back, and the chunk loops of fs_read and fs_write.     *)
(* Index blocks and data blocks are the same disk blocks, so a block turned  *)
(* into the other kind carries what it held before.                          *)
(***************************************************************************)
EXTENDS Naturals, Sequences, FiniteSetsExt

CONSTANTS
  FileIds,      \* files
  NBlocks,      \* sb.nblocks
  BlockSize,    \* BLOCK_SIZE, in cells
  Direct,       \* INODE_INDEX_1
  NIndirect,    \* NINDIRECT; a block holds as many cells
  Chunk,        \* the length of buf in fs_read and fs_write
  Seeks,        \* offsets that lseek sets
  MaxLen,       \* bound: the length of a call
  MaxWrites     \* bound: calls of fs_write

DiskBlocks == 1 .. NBlocks
Cells == 0 .. BlockSize - 1
Single == Direct                      \* the index of the single indirect block
Double == Direct + 2                  \* of the double indirect one; the code uses none between
FileBlocks == Direct + NIndirect + NIndirect * NIndirect
MaxSize == FileBlocks * BlockSize

VARIABLES
  bmap,      \* the blocks whose bit is set
  content,   \* the cells of every block: data, or block numbers
  size,      \* disk.size of every file
  index,     \* disk.index of every file, 0 for no block
  cur,       \* the file that the one descriptor is open on
  off,       \* and its File.off
  halted,    \* a call panicked
  writes,    \* history: calls of fs_write so far
  last,      \* history: what was last written at every offset of a file
  end        \* history: the end of the furthest write since the file was cut

fdVars == <<bmap, content, size, index, cur, off, halted, writes, last, end>>

\* What a write stores, distinct for every call, and what a block never used holds.
Byte(n) == NBlocks + n
Stale == NBlocks

FdInit ==
  /\ bmap = {}
  /\ content = [b \in DiskBlocks |-> [c \in Cells |-> Stale]]
  /\ size = [f \in FileIds |-> 0]
  /\ index = [f \in FileIds |-> [k \in 0 .. Double |-> 0]]
  /\ cur \in FileIds
  /\ off = 0
  /\ halted = FALSE
  /\ writes = 0
  /\ last = [f \in FileIds |-> [a \in 0 .. MaxSize - 1 |-> 0]]
  /\ end = [f \in FileIds |-> 0]

-----------------------------------------------------------------------------
(* A call in progress: the disk and the file so far, the block found last (0  *)
(* for none) and whether it panicked.                                         *)
Begin(f) == [bmap |-> bmap, content |-> content, size |-> size[f],
             index |-> index[f], off |-> off, blk |-> 0, panic |-> FALSE]

BugAlloc(st) ==
  LET b == Min(DiskBlocks \ st.bmap)
  IN  IF DiskBlocks \subseteq st.bmap THEN [st EXCEPT !.panic = TRUE]
      ELSE [st EXCEPT !.bmap = @ \cup {b}, !.blk = b]

\* bitmap::alloc: the lowest free bit, set before the block is cleared.
Alloc(st) ==
  LET b == Min(DiskBlocks \ st.bmap)
  IN  IF DiskBlocks \subseteq st.bmap THEN [st EXCEPT !.panic = TRUE]
      ELSE [st EXCEPT !.bmap = @ \cup {b}, !.blk = b,
                      !.content[b] = [c \in Cells |-> 0]]

\* The block at index k of the inode, and at place k of the block found last.
InInode(st, k, grow) ==
  LET new == Alloc(st)
  IN  IF st.index[k] # 0 \/ ~grow THEN [st EXCEPT !.blk = st.index[k]]
      ELSE IF new.panic THEN new ELSE [new EXCEPT !.index[k] = new.blk]

InBlock(st, k, grow) ==
  LET here == st.blk
      new == Alloc(st)
  IN  IF st.panic \/ here = 0 THEN st
      ELSE IF st.content[here][k] # 0 \/ ~grow THEN [st EXCEPT !.blk = st.content[here][k]]
      ELSE IF new.panic THEN new ELSE [new EXCEPT !.content[here][k] = new.blk]

\* locate_or_add_block.
Locate(st, lbn, grow) ==
  LET n1 == lbn - Direct
      n2 == n1 - NIndirect
  IN  IF lbn < Direct THEN InInode(st, lbn, grow)
      ELSE IF n1 < NIndirect THEN InBlock(InInode(st, Single, grow), n1, grow)
      ELSE IF n2 < NIndirect * NIndirect
      THEN InBlock(InBlock(InInode(st, Double, grow), n2 \div NIndirect, grow),
                   n2 % NIndirect, grow)
      ELSE [st EXCEPT !.panic = TRUE]

InOneBlock(a, to) == Min({BlockSize - (a % BlockSize), to - a})

\* inode_read_data between a and to: the cells, zeros where there is no block.
RECURSIVE ReadCells(_, _, _)
ReadCells(st, a, to) ==
  LET n == InOneBlock(a, to)
      b == Locate(st, a \div BlockSize, FALSE).blk
  IN  IF a >= to THEN <<>>
      ELSE [i \in 1 .. n |-> IF b = 0 THEN 0 ELSE st.content[b][(a % BlockSize) + i - 1]]
             \o ReadCells(st, a + n, to)

ReadData(st, a, len) ==
  IF a >= st.size THEN <<>> ELSE ReadCells(st, a, Min({a + len, st.size}))

\* inode_write_data of value x between a and to; the size follows at the end.
RECURSIVE WriteCells(_, _, _, _)
WriteCells(st, a, to, x) ==
  LET n == InOneBlock(a, to)
      at == Locate(st, a \div BlockSize, TRUE)
      here == (a % BlockSize) .. (a % BlockSize) + n - 1
  IN  IF a >= to \/ st.panic THEN st
      ELSE IF at.panic THEN at
      ELSE WriteCells([at EXCEPT !.content[at.blk] =
                         [c \in Cells |-> IF c \in here THEN x ELSE @[c]]],
                      a + n, to, x)

WriteData(st, a, len, x) ==
  LET done == WriteCells(st, a, a + len, x)
  IN  [done EXCEPT !.size = Max({@, a + len})]

\* fs_read: chunks until len, the end of the file, or a chunk whose copyout fails,
\* which the user page of byte bad makes happen.
RECURSIVE FsRead(_, _, _, _)
FsRead(st, len, bad, got) ==
  LET n == Min({len - Len(got), Chunk})
      data == ReadData(st, st.off, n)
      more == got \o data
  IN  IF Len(got) >= len \/ data = <<>> THEN <<"ok", st.off, got>>
      ELSE IF bad < Len(more) THEN <<"err", st.off, got>>
      ELSE IF Len(data) < n THEN <<"ok", st.off + Len(data), more>>
      ELSE FsRead([st EXCEPT !.off = @ + Len(data)], len, bad, more)

\* fs_write: as many chunks, each copied in before it is written.
RECURSIVE FsWrite(_, _, _, _, _)
FsWrite(st, len, bad, done, x) ==
  LET n == Min({len - done, Chunk})
      put == WriteData(st, st.off, n, x)
  IN  IF done >= len \/ bad < done + n THEN st
      ELSE IF put.panic THEN put
      ELSE FsWrite([put EXCEPT !.off = @ + n], len, bad, done + n, x)

-----------------------------------------------------------------------------
(* The calls: on cur, through the descriptor. *)

\* The call's state takes effect, unless it panicked: then the machine stops.
Commit(f, st) ==
  IF st.panic
  THEN halted' = TRUE /\ UNCHANGED <<bmap, content, size, index, off>>
  ELSE /\ bmap' = st.bmap /\ content' = st.content
       /\ size' = [size EXCEPT ![f] = st.size]
       /\ index' = [index EXCEPT ![f] = st.index]
       /\ off' = st.off
       /\ UNCHANGED halted

\* The bytes of a call that arrive when its user buffer ends at byte bad: whole chunks.
Arrives(len, bad) == IF bad >= len THEN len ELSE Chunk * (bad \div Chunk)

Write(len, bad) ==
  LET to == off + Arrives(len, bad)
  IN  /\ ~halted /\ writes < MaxWrites
      /\ writes' = writes + 1
      /\ Commit(cur, FsWrite(Begin(cur), len, bad, 0, Byte(writes + 1)))
      /\ last' = [last EXCEPT ![cur] = [a \in DOMAIN @ |->
                    IF a \in off .. to - 1 THEN Byte(writes + 1) ELSE @[a]]]
      /\ end' = [end EXCEPT ![cur] = IF to > off THEN Max({@, to}) ELSE @]
      /\ UNCHANGED cur

Read(len, bad) ==
  /\ ~halted
  /\ off' = FsRead(Begin(cur), len, bad, <<>>)[2]
  /\ UNCHANGED <<bmap, content, size, index, cur, halted, writes, last, end>>

\* fs_lseek from the start or from the end; the offset may lie beyond the end.
Lseek ==
  /\ ~halted
  /\ off' \in Seeks \cup {size[cur]}
  /\ UNCHANGED <<bmap, content, size, index, cur, halted, writes, last, end>>

\* fs_open: with O_TRUNC the size alone is reset, the blocks stay.
Open(f, trunc) ==
  /\ ~halted
  /\ cur' = f /\ off' = 0
  /\ size' = IF trunc THEN [size EXCEPT ![f] = 0] ELSE size
  /\ end' = IF trunc THEN [end EXCEPT ![f] = 0] ELSE end
  /\ UNCHANGED <<bmap, content, index, halted, writes, last>>

\* Every use of a block by a file: the place that names it, and the block.
IndexBlocks(f) ==
  LET top == {index[f][Single], index[f][Double]} \ {0}
      l1 == index[f][Double]
  IN  top \cup (IF l1 = 0 THEN {} ELSE {content[l1][k] : k \in 0 .. NIndirect - 1} \ {0})
Uses(f) ==
  {u \in {<<0, k, index[f][k]>> : k \in 0 .. Double}
         \cup {<<b, k, content[b][k]>> : b \in IndexBlocks(f), k \in 0 .. NIndirect - 1} :
     u[3] # 0}
Used(f) == {u[3] : u \in Uses(f)}

BugFreed(f) == bmap \ (Used(f) \ {index[f][Double]})

\* bitmap::free of each of them.
Freed(f) == bmap \ Used(f)

\* The last inode_put of an unlinked file: free_data_blocks gives every block back,
\* and bitmap::free panics on one that is free already.  The inode is then taken by
\* a new file.
Recreate(f) ==
  LET fits == Used(f) \subseteq bmap /\ Cardinality(Used(f)) = Cardinality(Uses(f))
  IN  /\ ~halted /\ f # cur
      /\ Commit(f, [Begin(f) EXCEPT !.bmap = Freed(f), !.panic = ~fits, !.size = 0,
                                    !.index = [k \in 0 .. Double |-> 0]])
      /\ last' = [last EXCEPT ![f] = [a \in DOMAIN @ |-> 0]]
      /\ end' = [end EXCEPT ![f] = 0]
      /\ UNCHANGED <<cur, writes>>

\* A panicked hart loops for good.
Stopped == halted /\ UNCHANGED fdVars

\* A buffer that ends within the first chunk changes nothing, and where it ends within
\* another makes no difference.
FdNext ==
  \/ \E len \in 1 .. MaxLen : \E bad \in {Chunk, len} : Write(len, bad) \/ Read(len, bad)
  \/ Lseek
  \/ \E f \in FileIds : Recreate(f) \/ (\E trunc \in BOOLEAN : Open(f, trunc))
  \/ Stopped

-----------------------------------------------------------------------------
\* Every read, of any length at any offset and wherever its user buffer ends, returns
\* what was last written at each place or zeros, up to the furthest write since the
\* file was cut, and moves the offset by what it returned (fs/inode.rs, syscall/fs.rs).
ReadsBack ==
  ~halted => \A f \in FileIds, a \in 0 .. MaxSize, len \in 0 .. MaxLen :
    a <= end[f] => \A bad \in 0 .. len :
    LET there == IF a < end[f] THEN Min({len, end[f] - a}) ELSE 0
        n == Arrives(there, bad)
    IN  FsRead([Begin(f) EXCEPT !.off = a], len, bad, <<>>) =
          <<IF bad < there THEN "err" ELSE "ok", a + n, [i \in 1 .. n |-> last[f][a + i - 1]]>>

\* Through any sequence of writes, cuts and deletions, the bitmap holds exactly the
\* blocks that the indices lead to, and one index leads to each (fs/bitmap.rs,
\* fs/inode.rs).
BlocksExact ==
  ~halted =>
    /\ bmap = UNION {Used(f) : f \in FileIds}
    /\ Cardinality(bmap) = MapThenSumSet(LAMBDA f : Cardinality(Uses(f)), FileIds)
=============================================================================
