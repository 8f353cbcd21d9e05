----------------------------- MODULE FileSystem -----------------------------
(***************************************************************************)
(* Files: the descriptors of the processes, the global file table, the      *)
(* inode cache's reference counts, and on disk the two bitmaps, the inodes  *)
(* and the directory entries.  A system call runs to its end with           *)
(* interrupts off, so it is one action, but the machine can stop between    *)
(* any two of its block writes: a call is computed as a record that carries *)
(* the disk states it goes through, and Outcome either commits the whole    *)
(* call or reboots on one of them.  A panic is such a stop.  exit closes    *)
(* one descriptor per step, and nothing else runs until it is done.         *)
(***************************************************************************)
EXTENDS Naturals, Sequences, FiniteSets, FiniteSetsExt

CONSTANTS
  Procs,       \* processes with a descriptor table
  Root,        \* the process that exists from boot
  NOFILE,      \* descriptors of a process
  NFILE,       \* entries of the file table
  N_INODE,     \* slots of the inode cache
  NInodes,     \* inodes on disk
  Blocks,      \* data blocks on disk, by number
  Names,       \* file names
  MaxLeaks,    \* bound: references lost by failed opens
  MaxReboots   \* bound: crashes and panics

ASSUME SizeAssumption ==
  /\ {NOFILE, NFILE, N_INODE, NInodes, MaxLeaks, MaxReboots} \subseteq Nat
  /\ NOFILE > 0 /\ NFILE > 0 /\ N_INODE > 0 /\ NInodes > 1
  /\ Root \in Procs /\ Blocks \subseteq Nat
  /\ IsFiniteSet(Procs) /\ IsFiniteSet(Blocks) /\ IsFiniteSet(Names)

Inums == 0 .. NInodes - 1
ROOT_INODE == 0
None == NInodes          \* no inode, where an inode number is expected
FDs == 1 .. NOFILE
Files == 1 .. NFILE
NoFile == 0

VARIABLES
  disk,      \* what is on the disk
  ref,       \* reference count of each inode in the cache, 0 when not there
  files,     \* the file table
  fds,       \* open_files of each process
  live,      \* processes that have a descriptor table
  closing,   \* the process inside exit, if any
  leaks,     \* history: references that no file holds any more
  linkCut,   \* history: a crash came between the two writes of a link
  reboots    \* history: how often the machine stopped

vars == <<disk, ref, files, fds, live, closing, leaks, linkCut, reboots>>

(* What fs_init's self-test leaves on a disk with root: the lowest free     *)
(* inode, used by three of its tests, ends as a data file that has a link   *)
(* count and no name.                                                       *)
Booted(d) ==
  LET i == Min(Inums \ d.ibmap)
  IN  [d EXCEPT !.ibmap = @ \cup {i}, !.type[i] = "data", !.nlink[i] = 1,
                !.blocks[i] = {}, !.dent[i] = [n \in Names |-> None]]

(* The first boot on an empty disk has made the root directory.             *)
Init ==
  /\ disk = Booted(
       [ibmap |-> {ROOT_INODE}, bmap |-> {},
        type |-> [i \in Inums |-> IF i = ROOT_INODE THEN "dir" ELSE "free"],
        nlink |-> [i \in Inums |-> IF i = ROOT_INODE THEN 2 ELSE 0],
        blocks |-> [i \in Inums |-> {}],
        dent |-> [i \in Inums |-> [n \in Names |-> None]]])
  /\ ref = [i \in Inums |-> 0]
  /\ files = [f \in Files |-> [refcnt |-> 0, inum |-> ROOT_INODE]]
  /\ fds = [p \in Procs |-> [d \in FDs |-> NoFile]]
  /\ live = {Root} /\ closing = {}
  /\ leaks = [i \in Inums |-> 0]
  /\ linkCut = FALSE
  /\ reboots = 0

-----------------------------------------------------------------------------
(* A call in progress: the memory and the disk as they are so far, the disk *)
(* states left behind, whether it panicked, and the inode it got last.      *)
Begin == [disk |-> disk, past |-> {}, ref |-> ref, files |-> files,
          fds |-> fds, leaks |-> leaks, panic |-> FALSE, ip |-> None]

Panic(st) == [st EXCEPT !.panic = TRUE]

(* One block written through the buffer cache; nothing after a panic.       *)
Writes(st, d) ==
  IF st.panic THEN st
  ELSE [st EXCEPT !.disk = d, !.past = @ \cup {st.disk}]

(* inode_get: the cached inode or a free slot, else a panic.                *)
InodeGet(st, i) ==
  IF st.ref[i] = 0 /\ Cardinality({j \in Inums : st.ref[j] > 0}) = N_INODE
  THEN Panic(st) ELSE [st EXCEPT !.ref[i] = @ + 1, !.ip = i]

(* The disk with the blocks of S given back.                                *)
Without(d, S) == [d EXCEPT !.bmap = @ \ S]

(* free_data_blocks: one bitmap write for each block of S, in the order of  *)
(* the inode's index, which the model does not have; a block that is free   *)
(* already panics after any of the others.                                  *)
FreeDataBlocks(st, S) ==
  LET own == S \cap st.disk.bmap
      freed == [st EXCEPT !.past = @ \cup {Without(st.disk, T) : T \in SUBSET own}]
  IN  IF st.panic THEN st
      ELSE IF own # S THEN Panic(freed)
      ELSE [freed EXCEPT !.disk = Without(@, S)]

(* The deletion in inode_put: the blocks and then the inode are given back  *)
(* in the bitmaps before the inode itself is cleared on disk.               *)
Delete(st, i) ==
  LET freed == FreeDataBlocks(st, st.disk.blocks[i])
      unset == Writes(freed, [freed.disk EXCEPT !.ibmap = @ \ {i}])
  IN  IF i \notin freed.disk.ibmap THEN Panic(freed)
      ELSE Writes(unset, [unset.disk EXCEPT !.type[i] = "free",
                                            !.blocks[i] = {}])

BugLastRef(st, i) == st.disk.nlink[i] = 0

(* should_delete: no reference and no name is left.                         *)
LastRef(st, i) == st.ref[i] = 0 /\ st.disk.nlink[i] = 0

InodePut(st, i) ==
  LET less == [st EXCEPT !.ref[i] = @ - 1]
  IN  IF st.panic THEN st
      ELSE IF st.ref[i] = 0 THEN Panic(st)
      ELSE IF LastRef(less, i) THEN Delete(less, i) ELSE less

BugInodeCreate(st, ty) ==
  LET frees == Inums \ st.disk.ibmap
      i == Min(frees)
      taken == InodeGet(Writes(st, [st.disk EXCEPT !.ibmap = @ \cup {i}]), i)
  IN  IF frees = {} THEN Panic(st)
      ELSE Writes(taken, [taken.disk EXCEPT !.type[i] = ty, !.nlink[i] = 1,
                            !.dent[i] = [n \in Names |-> None]])

(* alloc takes the lowest free inode, and inode_create initialises it.      *)
InodeCreate(st, ty) ==
  LET frees == Inums \ st.disk.ibmap
      i == Min(frees)
      taken == InodeGet(Writes(st, [st.disk EXCEPT !.ibmap = @ \cup {i}]), i)
  IN  IF frees = {} THEN Panic(st)
      ELSE Writes(taken, [taken.disk EXCEPT !.type[i] = ty, !.nlink[i] = 1,
                            !.blocks[i] = {},
                            !.dent[i] = [n \in Names |-> None]])

SetDentry(st, dir, n, i) == Writes(st, [st.disk EXCEPT !.dent[dir][n] = i])

SetNlink(st, i, k) == Writes(st, [st.disk EXCEPT !.nlink[i] = k])

Dirs(d) == {i \in d.ibmap : d.type[i] = "dir"}

Entries(d, i) == {e \in Dirs(d) \X Names : d.dent[e[1]][e[2]] = i}

(* The walk to the directory that holds a path's last name.  A path starts  *)
(* at the root or in the working directory, which can be any directory: the *)
(* number is stored without a reference, and directories are never deleted. *)
(* So the walk ends where it starts or comes from the directory above,      *)
(* whose inode is put once the next one is taken.                           *)
Parents == {ROOT_INODE} \cup {i \in Dirs(disk) : Entries(disk, i) # {}}

Starts(dir) == {dir} \cup {e[1] : e \in Entries(disk, dir)}

Walk(st, start, dir) ==
  IF start = dir THEN InodeGet(st, dir)
  ELSE InodePut(InodeGet(InodeGet(st, start), dir), start)

-----------------------------------------------------------------------------
BugFileClose(st, f) ==
  LET less == [st EXCEPT !.files[f].refcnt = @ - 1]
      i == st.files[f].inum
  IN  IF less.files[f].refcnt > 0 THEN less
      ELSE InodePut(InodeGet(less, i), i)

(* file_close: the last reference finds its inode again and puts it twice.  *)
FileClose(st, f) ==
  LET less == [st EXCEPT !.files[f].refcnt = @ - 1]
      i == st.files[f].inum
  IN  IF less.files[f].refcnt > 0 THEN less
      ELSE InodePut(InodePut(InodeGet(less, i), i), i)

FreeFiles(st) == {f \in Files : st.files[f].refcnt = 0}
FreeFds(st, p) == {d \in FDs : st.fds[p][d] = NoFile}

(* The end of fs_open: a file table entry, then the lowest free descriptor. *)
(* Without an entry the inode's reference stays; without a descriptor the   *)
(* entry is closed again.                                                   *)
OpenFile(st, p) ==
  LET f == Min(FreeFiles(st))
      open == [st EXCEPT !.files[f] = [refcnt |-> 1, inum |-> st.ip]]
  IN  IF st.panic THEN st
      ELSE IF FreeFiles(st) = {} THEN [st EXCEPT !.leaks[st.ip] = @ + 1]
      ELSE IF FreeFds(st, p) = {} THEN FileClose(open, f)
      ELSE [open EXCEPT !.fds[p][Min(FreeFds(st, p))] = f]

(* fs_open of a name that exists: with O_CREAT the parent is put before the *)
(* inode is taken, without it after.  A directory is not opened to write.   *)
OpenExisting(p, start, dir, n, creat, write) ==
  LET i == disk.dent[dir][n]
      at == Walk(Begin, start, dir)
      found == IF creat THEN InodeGet(InodePut(at, dir), i)
                        ELSE InodePut(InodeGet(at, i), dir)
  IN  IF write /\ disk.type[i] = "dir" THEN InodePut(found, i)
      ELSE OpenFile(found, p)

(* fs_open with O_CREAT of a name that does not exist.                      *)
OpenNew(p, start, dir, n) ==
  LET made == InodeCreate(Walk(Begin, start, dir), "data")
  IN  OpenFile(InodePut(SetDentry(made, dir, n, made.ip), dir), p)

FsClose(p, d) ==
  [FileClose(Begin, fds[p][d]) EXCEPT !.fds[p][d] = NoFile]

FsDup(p, d) ==
  LET f == fds[p][d]
  IN  IF FreeFds(Begin, p) = {} THEN Begin
      ELSE [Begin EXCEPT !.files[f].refcnt = @ + 1,
                         !.fds[p][Min(FreeFds(Begin, p))] = f]

(* A write that needs a new block: the bitmap is written, then the inode.   *)
FsWrite(p, d) ==
  LET i == files[fds[p][d]].inum
      got == InodeGet(Begin, i)
      b == Min(Blocks \ disk.bmap)
      took == Writes(got, [got.disk EXCEPT !.bmap = @ \cup {b}])
  IN  IF Blocks \subseteq disk.bmap THEN Panic(got)
      ELSE InodePut(Writes(took, [took.disk EXCEPT !.blocks[i] = @ \cup {b}]), i)

FsMkdir(p, start, dir, n) ==
  LET made == InodeCreate(Walk(Begin, start, dir), "dir")
      i == made.ip
  IN  InodePut(InodePut(SetDentry(SetNlink(made, i, 2), dir, n, i), i), dir)

(* The two lookups of fs_link, which leave both inodes referenced.          *)
LinkLookup(from, i, s1, s2, dir) ==
  Walk(InodePut(InodeGet(Walk(Begin, s1, from), i), from), s2, dir)

BugFsLink(st, i, dir, n) ==
  InodePut(InodePut(SetDentry(st, dir, n, i), dir), i)

(* fs_link: the new entry is written before the count is raised.            *)
FsLink(st, i, dir, n) ==
  LET named == SetDentry(st, dir, n, i)
  IN  InodePut(InodePut(SetNlink(named, i, named.disk.nlink[i] + 1), dir), i)

BugFsUnlink(p, start, dir, n) ==
  LET i == disk.dent[dir][n]
      st == InodeGet(Walk(Begin, start, dir), i)
      less == SetNlink(st, i, st.disk.nlink[i] - 1)
  IN  IF disk.nlink[i] = 0 THEN Panic(st)
      ELSE InodePut(SetDentry(InodePut(less, i), dir, n, None), dir)

(* fs_unlink of a file: the entry goes first, then the count, then perhaps  *)
(* the inode.  The count does not go below zero: the subtraction panics.    *)
FsUnlink(p, start, dir, n) ==
  LET i == disk.dent[dir][n]
      st == InodeGet(Walk(Begin, start, dir), i)
      gone == SetDentry(st, dir, n, None)
  IN  IF disk.nlink[i] = 0 THEN Panic(gone)
      ELSE InodePut(InodePut(SetNlink(gone, i, disk.nlink[i] - 1), i), dir)

(* fork: the child's table is a copy, and each entry counts once more.      *)
ForkFiles(p, c) ==
  [Begin EXCEPT !.fds[c] = fds[p],
     !.files = [f \in Files |->
                  [files[f] EXCEPT !.refcnt =
                     @ + Cardinality({d \in FDs : fds[p][d] = f})]]]

-----------------------------------------------------------------------------
(* The self-test at boot panics without a free inode, and without a free    *)
(* block for its second file.                                               *)
CanBoot(d) == Inums \ d.ibmap # {} /\ Blocks \ d.bmap # {}

(* The machine starts again on disk state d: nothing in memory survives,    *)
(* and no process runs unless the self-test gets through.                   *)
Restart(d) ==
  /\ reboots < MaxReboots /\ reboots' = reboots + 1
  /\ disk' = IF Inums \subseteq d.ibmap THEN d ELSE Booted(d)
  /\ ref' = [i \in Inums |-> 0] /\ leaks' = [i \in Inums |-> 0]
  /\ files' = [f \in Files |-> [refcnt |-> 0, inum |-> ROOT_INODE]]
  /\ fds' = [p \in Procs |-> [x \in FDs |-> NoFile]]
  /\ live' = IF CanBoot(d) THEN {Root} ELSE {}
  /\ closing' = {}

(* The call returns, or the machine stops before one of its writes, or the  *)
(* call panics.                                                             *)
Returns(st) ==
  /\ ~st.panic
  /\ MapThenSumSet(LAMBDA i : st.leaks[i], Inums) <= MaxLeaks
  /\ disk' = st.disk /\ ref' = st.ref /\ files' = st.files
  /\ fds' = st.fds /\ leaks' = st.leaks
  /\ UNCHANGED reboots

(* Where the machine can stop inside the call.                              *)
Stops(st) == IF st.panic THEN st.past \cup {st.disk} ELSE st.past

Outcome(st) ==
  \/ Returns(st) /\ UNCHANGED <<live, closing, linkCut>>
  \/ \E d \in Stops(st) : Restart(d) /\ UNCHANGED linkCut

(* An interrupted link leaves one more entry than the count says.           *)
LinkOutcome(st) ==
  \/ Returns(st) /\ UNCHANGED <<live, closing, linkCut>>
  \/ \E d \in Stops(st) : Restart(d) /\ linkCut' = (linkCut \/ d # disk)

Open(p) ==
  \E dir \in Parents, n \in Names : \E start \in Starts(dir) :
    \/ /\ disk.dent[dir][n] # None
       /\ \E creat, write \in BOOLEAN :
            /\ write => disk.type[disk.dent[dir][n]] = "dir"
            /\ Outcome(OpenExisting(p, start, dir, n, creat, write))
    \/ /\ disk.dent[dir][n] = None
       /\ Outcome(OpenNew(p, start, dir, n))

Descriptor(p) ==
  \E d \in FDs :
    /\ fds[p][d] # NoFile
    /\ \/ Outcome(FsClose(p, d))
       \/ Outcome(FsDup(p, d))
       \/ /\ disk.type[files[fds[p][d]].inum] = "data"
          /\ Outcome(FsWrite(p, d))

Mkdir(p) ==
  \E dir \in Parents, n \in Names : \E start \in Starts(dir) :
    disk.dent[dir][n] = None /\ Outcome(FsMkdir(p, start, dir, n))

Link(p) ==
  \E from, dir \in Parents, old, n \in Names :
    \E s1 \in Starts(from), s2 \in Starts(dir) :
      LET i == disk.dent[from][old]
      IN  /\ i # None /\ disk.dent[dir][n] = None
          /\ disk.type[i] # "dir"
          /\ LinkOutcome(FsLink(LinkLookup(from, i, s1, s2, dir), i, dir, n))

Unlink(p) ==
  \E dir \in Parents, n \in Names : \E start \in Starts(dir) :
    /\ disk.dent[dir][n] # None
    /\ disk.type[disk.dent[dir][n]] # "dir"
    /\ Outcome(FsUnlink(p, start, dir, n))

Fork(p) ==
  \E c \in Procs \ live :
    /\ Returns(ForkFiles(p, c))
    /\ live' = live \cup {c}
    /\ UNCHANGED <<closing, linkCut>>

(* exit closes every descriptor in order.                                   *)
Exit(p) ==
  /\ p # Root /\ closing' = {p}
  /\ UNCHANGED <<disk, ref, files, fds, live, leaks, linkCut, reboots>>

Opened(p) == {d \in FDs : fds[p][d] # NoFile}

ExitClose(p) ==
  /\ Opened(p) # {}
  /\ Outcome(FsClose(p, Min(Opened(p))))

ExitDone(p) ==
  /\ Opened(p) = {}
  /\ live' = live \ {p} /\ closing' = {}
  /\ UNCHANGED <<disk, ref, files, fds, leaks, linkCut, reboots>>

(* The power fails between two calls.                                       *)
Reboot == Restart(disk) /\ UNCHANGED linkCut

Next ==
  \/ /\ closing = {}
     /\ \E p \in live :
          \/ Open(p) \/ Descriptor(p) \/ Mkdir(p)
          \/ Link(p) \/ Unlink(p) \/ Fork(p) \/ Exit(p)
  \/ \E p \in closing : ExitClose(p) \/ ExitDone(p)
  \/ Reboot

Spec == Init /\ [][Next]_vars

-----------------------------------------------------------------------------
(* Every file table entry counts exactly the descriptors that refer to it,  *)
(* over open, dup, fork, close and exit (fs/file.rs:44-91,                   *)
(* proc/process.rs:237-243), so none is reused while a descriptor names it.  *)
(* Every cached inode counts the open files on it and the references that    *)
(* an fs_open without a file table entry forgot (syscall/fs.rs:60); nothing  *)
(* else keeps an inode busy between two calls (fs/inode.rs:260-329), and the *)
(* cache holds no more than N_INODE of them.                                 *)
RefCounts ==
  /\ \A f \in Files :
       files[f].refcnt = Cardinality({e \in Procs \X FDs : fds[e[1]][e[2]] = f})
  /\ \A i \in Inums :
       ref[i] = leaks[i] + Cardinality({f \in Files : /\ files[f].refcnt > 0
                                                      /\ files[f].inum = i})
  /\ Cardinality({i \in Inums : ref[i] > 0}) <= N_INODE

(* An inode that a file is open on stays allocated, unlinked or not, until   *)
(* the last close (fs/inode.rs:303-329); again but for a crash in fs_link.   *)
OpenStaysAllocated ==
  ~linkCut => \A i \in Inums : ref[i] > 0 => i \in disk.ibmap

(* No name leads to a free inode, whatever block write a crash prevented:    *)
(* inodes are written before their first entry and freed after their last.   *)
(* The one exception is what follows a crash inside fs_link, which writes    *)
(* the entry before the count (syscall/fs.rs:276-278).                       *)
NamesLive ==
  ~linkCut =>
    \A i \in Inums : Entries(disk, i) # {} =>
      i \in disk.ibmap /\ disk.type[i] # "free" /\ disk.nlink[i] > 0

(* The inode that the self-test of the first boot left behind.              *)
SelfTest == ROOT_INODE + 1

(* As long as the machine ran through, a file's count is the number of its   *)
(* names and a directory's is two (syscall/fs.rs:220-321), and an allocated  *)
(* inode has a name or is referenced: the last close of an unlinked file     *)
(* gives it back (fs/inode.rs:309).  The self-test's file alone has a count  *)
(* and neither name nor reference (fs/fs.rs:167-182).                        *)
LinksExact ==
  reboots = 0 =>
    \A i \in disk.ibmap \ {SelfTest} :
      /\ disk.nlink[i] = IF i \in Dirs(disk) THEN 2 ELSE Cardinality(Entries(disk, i))
      /\ i # ROOT_INODE => Entries(disk, i) # {} \/ ref[i] > 0

(* Two files that can be reached never share a data block and none of their  *)
(* blocks is free, also after a crash inside a write or a deletion           *)
(* (fs/bitmap.rs:8-85, fs/inode.rs:177-227).                                 *)
BlocksOwned ==
  LET reach == {i \in Inums : Entries(disk, i) # {} \/ ref[i] > 0}
  IN  ~linkCut =>
        /\ \A i \in reach : disk.blocks[i] \subseteq disk.bmap
        /\ \A i, j \in reach : i # j => disk.blocks[i] \cap disk.blocks[j] = {}
=============================================================================
