# Glenda in TLA+

Glenda is a small RISC-V kernel in Rust (`src/kernel/src`, about 8,000 lines):
processes with fork, exec, wait and sleep, Sv39 address spaces with a heap,
mmap regions and an on-demand stack, a virtio disk, a buffer cache and an
inode file system. This directory holds TLA+ models of its parts, the TLC
configurations that check them on small instances, and TLAPS proofs of the
properties that matter most. File names below are relative to
`src/kernel/src`. `PROJECT.json` names, for every definition that models code,
the lines it models.

    tlc -workers 2 -config MCSched_behind.cfg MCSched    # one run
    tlapm SchedProofs.tla                                # the proofs of a module

## The system and its parts

| part | code | model |
|---|---|---|
| process table, scheduler, fork, exit, wait, sleep, tick | `proc/`, `syscall/proc.rs`, `irq/timer.rs`, `irq/trap/` | `Sched`, `SchedProofs` |
| bring-up of the harts, printk, interrupts during boot | `main.rs`, `init/`, `hart.rs`, `irq/`, `printk.rs`, `proc/process.rs` (create) | `Boot`, composed with `Sched`; `SchedProofs` |
| physical page allocator | `mem/pmem.rs` | `PhysMem`, `PhysMemProofs` |
| page tables, kernel stacks, trapframes | `mem/pagetable.rs`, `mem/vm.rs`, `mem/pte.rs`, `mem/addr.rs`, `proc/process.rs` | `PageTable`, its abstract specification `PageMap`; `PageTableProofs` |
| copies between user and kernel | `mem/uvm.rs`, `syscall/copy.rs` | `UserCopy`, over `PageTable` |
| user address spaces | `mem/uvm.rs`, `mem/mmap.rs`, `syscall/brk.rs`, `syscall/mmap.rs`, `proc/process.rs` | `AddressSpace`, `AddressSpaceProofs` |
| virtio disk driver | `drivers/virtio/disk.rs` | `VirtioDisk`; `BlockProofs` |
| buffer cache | `fs/buffer/mod.rs` | `BufferCache`, `BufferCacheProofs` |
| its linked LRU lists | `fs/buffer/lru.rs` | `BufferLru`, a refinement of `BufferCache`; `BufferParams` has the constants of both; `BlockProofs` |
| descriptors, file table, inodes, directories, bitmaps, boot self-test | `syscall/fs.rs`, `fs/` | `FileSystem`; `FileSystemLemmas`, `FileSystemProofs` |
| blocks and contents of files | `fs/inode.rs`, `fs/bitmap.rs`, `syscall/fs.rs` | `FileData` |

A file-system call goes through `FileSystem`, whose block writes are
`BufferCache`'s reads, writes and releases, whose lists are `BufferLru`'s
nodes, and whose misses and writes are `VirtioDisk`'s requests; `FileData` is
what `FileSystem` leaves out of a file, its bytes. `AddressSpace` says which
pages a process has, `PageTable` how trees of tables hold them; both take pages
from `PhysMem`. `Boot` ends where `Sched` begins, and `Sched` decides who runs.

Two facts about the kernel shape the models.

- *Only hart 0 schedules, and a system call is not interrupted.* A trap from
  user mode clears SIE and nothing on the way sets it again, so a system call
  is one step up to its next `switch_context`. What really runs in parallel is
  the disk device, the interrupt handlers of other harts, the harts that boot
  (`Boot`), and, in the allocator, several harts (the other harts call it at
  boot and in the tests).
- *The kernel is a debug build with `panic = abort`.* An overflow, a failed
  `expect` or a full table halts the machine; the models have these outcomes.

## The modules

**Sched.** State: the `Process` fields by slot (`state`, `parent`, `pid`,
`chan`, `code`, saved `epc`, where its context resumes), `bitmap`
(`RUNNABLE_BITMAP`), `proc` (hart.proc), `mode` (what the hart executes) and
`sepc`. Each action is a stretch of kernel code between two points where
another one can run: `Dispatch` and `AfterSwitch` (the scheduler loop before
and after `switch_context`), `Preempt` (tick in user mode), `IdleTick`, `Fork`,
`Exit`, `Wait` with `Reap`, `WaitNone` and `WaitSleep`, `Sleep` with
`SleepMore` and `SleepDone`, and the panics. A program counter is represented
by the pid whose code it is in, which is what `OwnPc` needs. `spin::Mutex` is
not reentrant, and `wait` and `sleep` take `PROC_TABLE` twice: with
`Reentrant = FALSE` (the kernel as built) the hart hangs there; with `TRUE` the
model goes on to the code behind, so that it gets checked too.

**Boot.** Every hart has a `pc` in the stages of `init::init`. The global stages
are guarded by one `spin::Once` each (`done`, `inside`: the hart in the
closure), and may fail with a panic. Interrupts come on with `irq::init_hart`;
from there on `IsrEnter` and `IsrExit` interleave with the stages of the same
hart, and a handler that needs a lock waits for it. A line of printk is two
steps, the lock and the characters. Hart 0 goes on to `create` (`Alloc`,
`AllocReturn`, `Create`) and `EnterScheduler`; from there its steps are `Next`
of `Sched` (`SchedStep`), with `nest_count` kept along: raised when user code
traps, lowered on the way back, which is another process's way back when the
handler switched.

**PhysMem.** Two regions with intrusive free lists (`word` is the first word of
a page, `head` and `allocable` the region's fields) and the counters of
`PAGE_REF` modulo 256. allocate is three steps (`Pop` under the lock,
`CountUp`, `HandOut`), free is two (`FreeCount`, `Push`), interleaved over
harts. `DoubleFree` is a caller's mistake, at most `MaxDouble` times.

**PageTable, PageMap.** `entry` holds the entries of every kernel page, were it
a table; `role` says what the page is in use for. Kernel pages are one pool for
tables, trapframes and stacks, so a new table is made of a page that held
anything before, and data reads as garbage entries. `Walk`, `Translate`,
`MapPage`, `UnmapPage` and `Destroyed` are `walk`, `lookup`, `map`, `unmap` and
`destroy` for one page. `job` is the boot, create, fork or reap under way, page
by page: `NewRoot`, `MakePage` (`copy`), `Made`, `MakeStack` (`alloc_kstack`, or
the panic of `mappages`), then fork's `UnmapTf` and `RemapTf`; `Reap` and
`DropStack`. There is one job at a time, since nothing in the code switches
inside one; that other processes `Grow` and `Shrink` in between is more than
the one scheduling hart does, and costs nothing. A stack is one page
(four in the code); free pages differ in nothing but their number, so the lowest
is taken. The comment at `proc/process.rs:147` has destroy free the trapframe;
the code keeps it with the slot, and so does the model. `PageMap` is the
promise: one partial function per owner, a step changes one page of one owner or
discards an owner's, and a page that gets mapped is mapped nowhere else, the
trampoline's excepted.

**UserCopy.** `Copy` and `CopyStr` are the loops of `copyin`, `copyout` and
`copyin_str`, over whatever tables `PageTable` reaches.

**AddressSpace.** Per process: the set of mapped user pages, the break, the
region list in link order; globally: the node pool, the pages in use. One
action per system call or trap, except for the two that loop over regions: the
search of `mmap(0)` (`MmapAnywhere`, `FitTurn`, `FitPut`) and `munmap`
(`Munmap`, `CutTurn`, `CutReturn`) take a step per turn, kept in `call`, and
nothing else runs until they return. The runs of `map` and `unmap` stop where the
code stops, so half-done calls are in the model: `lost` counts pages that a
failed call forgot, `dropped` the nodes `Process::free` leaves behind, and
`torn` the processes whose list and page table came apart (a failed call, a
fork, an exec).

**VirtioDisk.** `rw` as `Enter`, `Submit`, `Mark`, `Poll`; the device as
`DevMove`, `DevStatus`, `DevFail`, `DevRaise` (external, modelled from how the
driver uses it); the handler as `Claim`, `IsrLock`, `IsrDone` on any hart.

**BufferCache, BufferLru.** Reads (`ReadActive`, `ReadInactive`,
`ReadRecycle`, `ReadFull`), `Write` and `Release` by holders that keep a
buffer between calls. `BufferCache` has the two lists as sequences;
`BufferLru` has the doubly linked nodes, and implements `BufferCache` under the
mapping that walks the links: `Walk` is the sequence that the links spell
from a head on, what the loops of `lru.rs` visit.

**FileSystem.** Descriptors, file table, inode reference counts; on disk the
two bitmaps, inodes (type, link count, blocks) and entries. A call is computed
as a record that passes through the operators named after the code's
functions (`InodeGet`, `InodePut`, `SetDentry`, ...) and carries the set `past`
of the disk states it went through. `Outcome` commits it, or stops the
machine in one of those, or, if it panicked, in any of them or the last. `Restart`
boots again, which runs the self-test of `fs_init` on the disk. The blocks of a
deleted file are freed one by one in an order the model leaves open, so any part
of them may be free after a crash. `exit` closes one descriptor per step
(`ExitClose`), in order, and until it is done nothing else runs but a crash.

**FileData.** A disk of blocks whose cells are bytes or block numbers, the bitmap,
and for every file its size and index slots. `Locate` is `locate_or_add_block`
with its direct, single and double indirect cases, `ReadData` and `WriteData`
the loops of `inode.rs`, `FsRead` and `FsWrite` the chunk loops above them, with
a user buffer that may end after any chunk. `Recreate` is the last `inode_put`
of an unlinked file followed by a new one. As in the code, O_TRUNC resets the
size and keeps the blocks; and although `inode.rs` speaks of two single indirect
slots, the second one is not used.

## What is checked

Properties are stated, with the lines they are about, at the end of each
module. The definitions whose names start with `Bug` are changes a maintainer
might plausibly make; each property is violated when one of them is in place.

| run | bounds | result |
|---|---|---|
| `sched_built` | `Boot`: 2 harts, either boots; then 4 slots, 5 pids, sleeps up to 2 ticks, non-reentrant locks | `ReadyBeforeUse`, `StuckOnlyInAlloc`, `LinesWhole`, `NestCovers`, `OwnPc` hold; `HartsArrive`: every started hart arrives |
| `sched_behind` | 3 slots, 4 pids, reentrant locks | `BitmapExact`, `ParentTree`, `NoLostExit`, `NoOversleep`, `ZombieKept` hold; `InitSleepEnds`: a sleep of slot 0 ends |
| `sched_starve` | 3 slots | `RunnableRuns` **fails**: the lowest runnable slot always wins |
| `sched_sleep` | 3 slots | `SleepGivesUpHart` **fails**: `sleep` and `wait` lock `PROC_TABLE` twice |
| `pmem_safe` | 3 harts, 4 pages in two regions, 2 double frees | free lists exact, one holder, justified panics, held pages untouched |
| `disk_safe` | 2 harts, 2 blocks, 2 values | no self-deadlock, return means completion, interrupts served |
| `disk_returns` | 2 harts | `RwReturns` **fails**: the status byte is initialised after the device was notified |
| `cache_safe` | linked nodes: 3 buffers, 4 blocks, 2 values, 2 holders | one copy, coherent, lists match counts, unshared buffers keep their block; the nodes implement `BufferCache` |
| `cache_shared` | 2 buffers, 3 blocks, 2 holders | `HeldKeepsBlock` **fails** once two holders share a block |
| `addrspace` | 2 processes, window of 3 pages, 2 nodes, stack of 2 pages above the heap | list canonical, regions and heap backed, pages and nodes accounted for, `mmap(0)` ends at the lowest gap, munmap removes its range and nothing else |
| `tables_files` | `PageTable`, `UserCopy`: 5 pages under 3 levels of 2 entries, 2 processes, 4 pids, copies over up to 3 pages; `FileData`: 2 files of up to 7 blocks of 2 cells, disk of 6 blocks, 3 writes | `ImplementsMap`, `TablesExact`, `Layout`, `CopyExact`; `ReadsBack`, `BlocksExact` hold |
| `files` | 2 processes, 2 descriptors each, 2 files, 2 cached inodes, 4 inodes, 2 names, 2 blocks, 1 reboot | counts exact, open inodes stay allocated, names live, link counts, no orphans, blocks owned |

`StuckOnlyInAlloc` and `HartsArrive` name the one deadlock there is at boot:
`alloc` sets SIE before its `PROC_TABLE` guard goes out of scope
(`proc/process.rs:567`), `create` calls it with interrupts on, and a tick in
between makes `wakeup` spin on the lock under it. Everywhere else a handler
waits for no lock of the code it interrupted: printk is safe because handlers
count themselves in `nest_count`, and `NestCovers` shows that the count stays
above 0 while any process is inside a trap, although it is raised in one
process's trap and lowered in another's.

`tables_files` has two parts that share no state. One of them moves while the
other stays where it began, so the behaviours of each are all there and not
their product.

*Why the bounds are enough.* `Sched`: four slots have a parent, a child, a
grandchild and a free slot; pids beyond the slots make slots reused.
`PhysMem`: three harts make every pair of steps meet a third one's, and four
pages in regions of three and one give an empty, a singleton and a longer list.
`AddressSpace`: three window pages allow a gap between two regions, a merge of
both neighbours and a split; two nodes can run out; the break can reach the
stack. `BufferCache`: more blocks than buffers, so buffers are recycled while
others are held. `Boot`: two harts race for every Once, whichever the firmware starts first.
`PageTable`: trees of different owners recycle each other's pages, a table is
shared by pages at two addresses, a slot is used again with the trapframe of its
predecessor, and the last pid has no room for its stack. Copies begin and end
inside a page and cross two borders. `FileData`: a file of seven blocks uses all
three kinds of index, offset 11 lies in the double indirect part and leaves a
hole below it, and the disk runs full. `FileSystem`: every table can be full, a file can have two
names, be open twice and be unlinked while open. One of the four inodes is the
root, one is the self-test's, and another one goes to the self-test of the
second boot. `MaxLost`, `MaxLeaks`, `MaxReboots`, `MaxDouble`, `MaxPid`,
`MaxSleep`, `MaxHeld`, `MaxCopy`, `MaxLen` and `MaxWrites` bound failures and counters; behaviour beyond them is
not explored.

*Fairness.* `Sched`: weak fairness of kernel code (the hart executes), strong
fairness of the tick in user mode (the timer is reprogrammed on every tick and a
tick that comes while interrupts are off stays pending); none of system calls.
`Boot`: strong fairness of each hart's own code, which gets something done
between two interrupts and gets the printk lock in the end, and weak fairness of
leaving a handler; none of interrupts.
`VirtioDisk`: weak fairness of the device and of the code, strong fairness of
taking the DISK spin lock, which each side holds for a few instructions. The
other modules have no liveness property: their actions are calls nobody has to
make.

*Deadlock* is checked except in `addrspace` and `files`, where the bounds on
failures end the behaviour.

### Disagreements between code and text

1. *Scheduling is not round-robin.* `find_runnable` takes the lowest bit
   (`proc/runnable_queue.rs:46`); `docs/doc.tmu:621` promises time slices that
   keep one process from taking the machine.
2. *sleep and wait hang the hart* (`proc/scheduler.rs:184`, `:149`): both call
   `find_proc_index`, which locks `PROC_TABLE`, while they hold it.
   `docs/doc.tmu:1578` says sleep gives up the CPU, and
   `service/hello/hello.c:180` waits for a child.
3. *A fast disk loses its completion* (`drivers/virtio/disk.rs:110`): the
   "In-progress" mark is written after the notification.
4. *A "Reference count" that does not count* (`fs/buffer/mod.rs:94`): a hit on
   an active buffer takes no reference.

## What is proved

All theorems hold for every value of the constants that satisfies the named
assumptions (`SchedAssumption`, `PhysMemAssumption`, `VirtioAssumption`,
`NoHartAssumption`, `HartAssumption`, `BufferAssumption`,
`PageTableAssumption`, `LayoutAssumption`, `SizeAssumption`), which the runs
evaluate.

- **SchedProofs** (any table size, both kinds of lock): types, `BitmapExact`,
  `OneRunning`, `ParentTree` with distinct pids, `NoLostExit` and
  `NoOversleep`, and the action property `ZombieKept`. The inductive invariant
  `IInv` adds `Support`: slot 0 stays, free slots have no parent, pids in use
  were handed out, and a process is Dying only between `exit` and the scheduler,
  when it has already woken its parent. Without the last part `NoLostExit` is
  not inductive: the parent could sleep between the wakeup and the Zombie state.
- **SchedProofs, second part** (`Reentrant = FALSE`): `OwnPc`, user code resumes
  at its own pc. `trap_user_handler` reloads `kernel_epc` from `sepc` after the switch,
  which is sound only because nobody else ran in between. The invariant
  `BuiltInv` says why: slots fill in order, and while one process has the hart
  those below have exited and those above have never run. It is an accident of
  findings 1 and 2, and a repair of either calls for a repair of
  `irq/trap/user.rs:90`. `NoExitCodeDelivered`: as built, no wait ever returns
  a child's code.
- **PhysMemProofs** (any number of harts and pages): types, `FreeLists` (each
  list null-terminated, without repetition, exactly the free pages, whatever
  the interleaving and the double frees), `OneHolder`, `PanicsJustified`,
  `AllRestored`, and the action property `HeldUntouched`. `IInv` adds `Counts`
  (a counter is 1 for a page that is held or being handed out) and `Apart` (two
  harts never have the same page in hand). The list is given as a function from
  positions to pages, so that `Pop` and `Push` need no induction.
- **SchedProofs, the boot** (any set of harts, any table size): `ReadyBeforeUse`,
  `StuckOnlyInAlloc`, `LinesWhole`, `NestCovers`. `HartsInv` says what each
  hart has behind it at its stage, that one hart is on until the others are
  started, and what `nest_count` is outside the scheduler. `Cover` counts, for
  hart 0 inside the scheduler, the traps that were switched away from: their
  number is at most `nest_count`, which is what makes `NestCovers` inductive.
  `BootedScheduler`: bring-up ends in a state of `Sched`'s `Init` and no other
  hart touches its variables, so `IInv` of the first part holds of the machine.
- **BlockProofs, the driver** (any harts, blocks, contents): types,
  `NoSelfDeadlock`, and the action property `CompleteOnReturn`, from an
  invariant on who holds DISK with which SIE (`Locking`) and on how far a
  request has got (`Progress`).
- **BlockProofs, the linked lists** (any number of buffers):
  `ImplementsCache`, and through it `OneCopy`, `Coherent`, `ListsMatchRefs` and
  `OwnKeepsBlock` of the nodes. `Linked` says that two sequences without a
  common node are spelled by the links in both directions. `Removed` and
  `Inserted` say what `remove_node` and the insertions do to a spelled
  sequence, wherever the node stands in it; `Finds` that a search along the
  links is the search in the sequence. That `Walk` reads
  what the links spell (`Spelled`) would be an induction over the length, and so
  would be that its recursive definition has a value at all (`Recursion`); both
  are proved by the least number of steps at which they would fail. The invariant of BufferCacheProofs is
  used through the same mapping, not proved again.
- **BufferCacheProofs** (any number of buffers, blocks, values and holders):
  types, `OneCopy`, `Coherent`, `ListsMatchRefs`, `OwnKeepsBlock`. `OneCopy` is
  not inductive: all buffers start labelled block 0, and a read of block 0 might
  find one of those. `UnusedLast` excludes it: buffers never used stay behind all
  others in the list, so the search meets the valid copy first.
- **AddressSpaceProofs** (any layout, any number of processes and of nodes):
  `RegionsCanonical`, `Backed`, `Accounted`, `FirstFitIsLowest`, `MunmapExact`.
  `IInv` adds that regions lie in the window and are not empty, that a slot
  without a process has nothing, that the break stays below the window, and
  what the loops know at every turn: `FitInv`, that the cursor is the end of the
  region passed last and no gap passed was large enough; `CutInv`, that the
  list covers what it covered at the call but for the range up to where munmap
  has got, and that the regions behind end there. `Accounted` counts pairs of a
  slot and a page, so a step in one slot changes the count by what it changes
  there; that a run of pages stops at the first obstacle (`Stops`) is a least
  element and needs no induction.
- **PageTableProofs** (any number of
  processes and pages, any fan-out, any size of the address space that three
  levels can hold): types, `TablesExact`, `Layout`, and `ImplementsMap`: the
  trees implement `PageMap`. The argument has three layers. `Trees` says that
  the tables form one tree per owner: entries lead from a root to an l1, from an
  l1 to an l0, no table is reached twice, and every table is reached. From `Trees`, and from the fact that the
  three digits of an address determine it, follows what `map` and `unmap` do to
  `Mapping`: one page of one owner changes (`MapStep`, `UnmapStep`), although
  `map` may write to three tables and turn two free pages into tables.
  `destroy` empties one owner (`ReapStep`). `Held` then speaks of `Mapping`
  alone: a mapped page is in use, is mapped once unless it is the trampoline's,
  and a trapframe is mapped by its own process, except while fork is between the
  copy and the remap (`Pending`). `Held` is needed to see that the page that
  gets mapped next is free of every other tree, and that what unmap frees is
  mapped nowhere else. `Laid` carries `Layout`: it adds what a process under
  construction already has (`Making`), that no two slots hold one pid and the
  latest is that of the process under construction (`Pids`), and that the kernel
  maps nothing between the latest stack and the trampoline (`Stacks`). The last
  part is why a refused stack means that the pids have run into the trampoline,
  and the pids being distinct is why dropping a stack never takes another
  process's. `PageTableAssumption` asks for one stack to fit below the
  trampoline; the code leaves 256 MB.

- **FileSystemProofs**, over **FileSystemLemmas** (any number of processes,
  descriptors, files, inodes, blocks, names and crashes): `RefCounts`,
  `OpenStaysAllocated`, `NamesLive`,
  `LinksExact`, `BlocksOwned`. What the properties say of the disk between two
  calls has to hold, in the form a crash leaves it, after each block write inside
  a call. So the proof follows a call step by step: `Good(st, h, X, L)` says that
  the call `st` holds the references `h`, that the counts of the cache are those
  of the open files, the leaks and `h`, that the disk is `Fine` for the
  references as they are, that each disk it left behind is `Fine` for a machine
  without references, and that names and counts agree but for the inodes `X` it
  has not finished. Lemmas about each write on disk (`NameFine`, `CountFine`,
  `FreshFine`, `GrowFine`, ...) carry over to one lemma per operation of the inode
  layer (`GetGood`, `PutGood`, `CreateGood`, `CloseGood`, ...) and one per system
  call, all of which end with `h` zero and `X` empty. FileSystemLemmas has the
  layers below the calls, the invariant and the calls that open, create and close;
  FileSystemProofs the other calls, the crash and the theorems. `Fine` is stronger than the
  properties: an inode has no more names than its count says, which is why the
  deletion in `inode_put` never meets a name. The properties alone are not
  inductive: unlinking one of two names of a file with count one frees an inode
  that is named. `fs_link` passes through a disk that is not `Fine`; `L` is for
  this call alone, and what a crash there leaves sets `linkCut`.

*Only model-checked:* all liveness (`InitSleepEnds`, `IrqServed`, `HartsArrive`;
fairness and ENABLED are out of the prover's reach), and the properties
of `UserCopy` and `FileData`, which use recursive operators: what those compute
for every input is an induction over data. `OneRunning` is proved and in no run.

## What is not modelled

- `Sched`, `Boot`: registers other than the pc, saved in assembly; the messages
  of fatal traps.
- `PageTable`: the identity ranges that `init_kernel_vm` maps once; running out of
  physical memory (the allocator's panic is in `PhysMem`); the printer of tables.
- `AddressSpace`: permissions, addresses inside a page; running out of physical
  memory; the file side of exec.
- `FileSystem`: access modes; the blocks of directories; the working
  directory, in whose place a path may start in any directory; paths whose
  parent is not a directory (a hazard, `fs/path.rs:92`); crashes inside the
  boot self-test; the calls that reach into the layers for testing
  (`sys_alloc_block` to `sys_path_to_parent_inode`). After a crash between the
  two writes of `fs_link` the code repairs nothing; `NamesLive`,
  `OpenStaysAllocated` and `BlocksOwned` say what holds otherwise (`linkCut`).
- `FileData`: `fstat` and `get_dentries`, which copy out and change nothing;
  crashes, which are in `FileSystem`. `ReadsBack` is about what was last written
  since the inode was created: after O_TRUNC the old bytes show again when a
  later write raises the size.
- The uart's registers and the decoding of its input, the device-tree parser,
  dispatch of system calls, the tests, the build tool. `PROJECT.json` has the
  reasons.

What would come next: paths through data files and directories with blocks in
`FileSystem`, and `AddressSpace` over `PageTable` instead of over sets of pages.
