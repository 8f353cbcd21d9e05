----------------------------- MODULE PageTable -----------------------------
(***************************************************************************)
(* The three-level page tables of mem/pagetable.rs and the operations that  *)
(* build them and take them apart: the kernel's table with the stacks of     *)
(* mem/vm.rs, the tables that create and fork fill, the pages mem/uvm.rs     *)
(* maps and unmaps, and the release of a reaped process.  Kernel pages are   *)
(* one pool for tables, trapframes and stacks, as in the code, so a table is *)
(* made of a page that held anything before.                                 *)
(***************************************************************************)
EXTENDS Naturals

CONSTANTS
  Fan,       \* PGNUM: entries of a table
  MaxVa,     \* VA_MAX, in pages
  KBase,     \* KSTACK_VA_BASE, in pages; a stack is one page here
  Procs,     \* process slots
  Kernel,    \* the owner of KERNEL_PAGE_TABLE
  KPages,    \* kernel pages; the lowest holds the kernel's root table
  UPages,    \* user pages
  TrampPa,   \* the page of the trampoline code, in no pool
  MaxPid,    \* the highest pid handed out: a bound
  Nil

ASSUME PageTableAssumption ==
  /\ Fan \in Nat \ {0} /\ MaxVa \in 4 .. Fan * Fan * Fan /\ KBase \in 0 .. MaxVa - 2
  /\ KPages \subseteq Nat /\ UPages \subseteq Nat /\ TrampPa \in Nat
  /\ KPages # {} /\ KPages \cap UPages = {} /\ {TrampPa, 0} \cap (KPages \cup UPages) = {}
  /\ Kernel \notin Procs /\ Nil \notin Nat \cup Procs \cup {Kernel} /\ MaxPid \in Nat

VARIABLES
  entry,     \* PageTable.entries of every kernel page, were it a table
  role,      \* what every kernel page is in use for
  root,      \* root_pt_pa of every owner, Nil when it has none
  ufree,     \* the free user pages
  tf,        \* trapframe_frame of every slot
  pid,       \* pid of every slot
  nextPid,
  job        \* the boot, create, fork or reap under way

ptVars == <<entry, role, root, ufree, tf, pid, nextPid, job>>

Owners == Procs \cup {Kernel}
Idx == 0 .. Fan - 1
Pages == 0 .. MaxVa - 1
TrampVa == MaxVa - 1                  \* VA_MAX - PGSIZE
TfVa == MaxVa - 2                     \* trapframe_va
CodeVa == 1                           \* the page above the unmapped lowest one
KStack(n) == KBase + n                \* kstack_base

Perms == {"user", "kernel", "tramp"}
Zero == [kind |-> "none", to |-> 0, perm |-> "kernel"]
Table(n) == [kind |-> "table", to |-> n, perm |-> "kernel"]
Leaf(pa, perm) == [kind |-> "leaf", to |-> pa, perm |-> perm]
Pas == KPages \cup UPages \cup {TrampPa, 0}
Pte == [kind : {"none", "table", "leaf"}, to : Pas, perm : Perms]
Leaves == [kind : {"leaf"}, to : Pas, perm : Perms]
Cleared == [i \in Idx |-> Zero]
Junk == [i \in Idx |-> Leaf(TrampPa, "user")]   \* what data reads as, taken for a table

Job(op, from, to, todo) == [op |-> op, from |-> from, to |-> to, todo |-> todo]
Idle == Job("idle", Nil, Nil, {})

Roles == {"free", "root", "l1", "l0", "data"}
Free == {n \in KPages : role[n] = "free"}
\* The page that alloc takes.  The free list is a stack in the code; alloc clears what
\* it hands out, so free pages differ in nothing but their number.
Lowest(n, S) == n \in S /\ \A m \in S : n <= m
Highest(n, S) == n \in S /\ \A m \in S : m <= n

-----------------------------------------------------------------------------
(* walk and lookup. *)

Vpn2(v) == ((v \div Fan) \div Fan) % Fan
Vpn1(v) == (v \div Fan) % Fan
Vpn0(v) == v % Fan

Leads(t, i) == entry[t][i].kind = "table"
Below(t, i) == entry[t][i].to

\* lookup: the last-level table and whether the walk reaches it.
LastTable(r, v) == Below(Below(r, Vpn2(v)), Vpn1(v))
Reaches(r, v) ==
  v < MaxVa /\ Leads(r, Vpn2(v)) /\ Leads(Below(r, Vpn2(v)), Vpn1(v))
Translate(r, v) ==
  IF Reaches(r, v) THEN entry[LastTable(r, v)][Vpn0(v)] ELSE Zero

\* walk with alloc: the tables n1 and n0 on the way to v, existing ones or, where
\* the entry is empty, the next free pages.
Walk(free, r, v, n1, n0) ==
  /\ v < MaxVa
  /\ IF Leads(r, Vpn2(v)) THEN n1 = Below(r, Vpn2(v))
     ELSE entry[r][Vpn2(v)].kind = "none" /\ Lowest(n1, free)
  /\ IF Leads(r, Vpn2(v)) /\ Leads(n1, Vpn1(v)) THEN n0 = Below(n1, Vpn1(v))
     ELSE /\ Leads(r, Vpn2(v)) => entry[n1][Vpn1(v)].kind = "none"
          /\ Lowest(n0, free \ {n1})

\* The entries once v is mapped through n1 and n0: a new table is cleared, by
\* pmem::alloc and again by walk, and a kernel page mapped as data holds anything.
Fill(r, v, n1, n0, pte) ==
  [t \in KPages |-> [i \in Idx |->
     IF t = pte.to THEN Junk[i]
     ELSE IF t = r /\ i = Vpn2(v) THEN Table(n1)
     ELSE IF t = n1 /\ i = Vpn1(v) THEN Table(n0)
     ELSE IF t = n0 /\ i = Vpn0(v) THEN pte
     ELSE IF t \in {n1, n0} \cap Free THEN Zero
     ELSE entry[t][i]]]

BugAccepts(r, v, pa) == v < MaxVa

\* map refuses a page at which another physical page is mapped.
Accepts(r, v, pa) ==
  /\ v < MaxVa
  /\ \/ Translate(r, v).kind = "none"
     \/ Translate(r, v).kind = "leaf" /\ Translate(r, v).to = pa

\* map of one page, the kernel pages in gone being given back at the same time.
MapPage(o, v, pte, gone) ==
  /\ Accepts(root[o], v, pte.to)
  /\ \E n1, n0 \in KPages :
       /\ Walk(Free \ {pte.to}, root[o], v, n1, n0)
       /\ entry' = Fill(root[o], v, n1, n0, pte)
       /\ role' = [n \in KPages |-> IF n = pte.to THEN "data"
                                    ELSE IF n = n1 THEN "l1"
                                    ELSE IF n = n0 THEN "l0"
                                    ELSE IF n \in gone THEN "free"
                                    ELSE role[n]]

\* unmap of one page that is mapped, with free: get_region tells the pool of its page.
UnmapPage(o, v) ==
  LET e == Translate(root[o], v)
  IN  /\ e.kind = "leaf"
      /\ entry' = [entry EXCEPT ![LastTable(root[o], v)][Vpn0(v)] = Zero]
      /\ role' = [n \in KPages |-> IF n = e.to THEN "free" ELSE role[n]]
      /\ ufree' = IF e.to \in UPages THEN ufree \cup {e.to} ELSE ufree

-----------------------------------------------------------------------------
(* Building a table: create and fork.  A created process starts from a fixed   *)
(* layout, a forked one from the pages of its parent, in ascending order.      *)

Source(v) ==
  IF job.from # Kernel THEN Translate(root[job.from], v)
  ELSE IF v = TrampVa THEN Leaf(TrampPa, "tramp")
  ELSE IF v = TfVa THEN Leaf(0, "kernel")
  ELSE Leaf(0, "user")

Started(q) == root[q] # Nil
Busy(p) == p \in {job.from, job.to}

\* init_kernel_vm: the trampoline, after which map_kstack0 makes the stack of pid 0.
BootTramp ==
  /\ job.op = "boot"
  /\ MapPage(Kernel, TrampVa, Leaf(TrampPa, "tramp"), {})
  /\ job' = Job("stack", Kernel, Kernel, {})
  /\ UNCHANGED <<root, ufree, tf, pid, nextPid>>

\* create and fork up to the new root: alloc hands out the next pid.
NewRoot(from, q) ==
  /\ job = Idle /\ ~Started(q) /\ nextPid <= MaxPid /\ Started(from)
  /\ \E n \in KPages :
       /\ Lowest(n, Free)
       /\ entry' = [entry EXCEPT ![n] = Cleared]
       /\ role' = [role EXCEPT ![n] = "root"]
       /\ root' = [root EXCEPT ![q] = n]
  /\ pid' = [pid EXCEPT ![q] = nextPid]
  /\ nextPid' = nextPid + 1
  /\ job' = Job("make", from, q,
                IF from = Kernel THEN {TrampVa, TfVa, CodeVa}
                ELSE {v \in Pages : Translate(root[from], v).kind = "leaf"})
  /\ UNCHANGED <<ufree, tf>>

\* copy of one page by its kind: a user page and a trapframe get a page of their own,
\* the trampoline is shared.  A created process keeps its trapframe page, and drops
\* the one its slot had.
MakePage(v) ==
  LET q == job.to
      old == tf[q]
  IN  /\ job.op = "make"
      /\ IF job.from = Kernel THEN Highest(v, job.todo) ELSE Lowest(v, job.todo)
      /\ job' = [job EXCEPT !.todo = @ \ {v}]
      /\ \/ /\ Source(v).perm = "user"
            /\ \E f \in UPages : /\ Lowest(f, ufree)
                                 /\ ufree' = ufree \ {f}
                                 /\ MapPage(q, v, Leaf(f, "user"), {})
            /\ UNCHANGED tf
         \/ /\ Source(v).perm = "tramp"
            /\ MapPage(q, v, Leaf(TrampPa, "tramp"), {})
            /\ UNCHANGED <<ufree, tf>>
         \/ /\ Source(v).perm = "kernel"
            /\ \E d \in KPages :
                 /\ Lowest(d, Free)
                 /\ tf' = IF job.from = Kernel THEN [tf EXCEPT ![q] = d] ELSE tf
                 /\ MapPage(q, v, Leaf(d, "kernel"),
                            IF job.from = Kernel THEN {old} ELSE {})
            /\ UNCHANGED ufree
      /\ UNCHANGED <<root, pid, nextPid>>

\* A created process goes on to its stack; fork first allocates the child's own
\* trapframe, which drops the one a reaped process left in the slot.
Made ==
  LET q == job.to
  IN  /\ job.op = "make" /\ job.todo = {}
      /\ job' = [job EXCEPT !.op = "stack"]
      /\ IF job.from = Kernel THEN UNCHANGED <<entry, role, tf>>
         ELSE \E d \in KPages :
                /\ Lowest(d, Free)
                /\ tf' = [tf EXCEPT ![q] = d]
                /\ entry' = [entry EXCEPT ![d] = Junk]
                /\ role' = [n \in KPages |-> IF n = d THEN "data"
                                             ELSE IF n = tf[q] THEN "free" ELSE role[n]]
      /\ UNCHANGED <<root, ufree, pid, nextPid>>

\* KernelStack::new: alloc_kstack maps the stack of the pid in the kernel's table;
\* mappages panics when the map is refused.
MakeStack ==
  /\ job.op = "stack"
  /\ \E d \in KPages :
       /\ Lowest(d, Free)
       /\ \/ /\ MapPage(Kernel, KStack(pid[job.to]), Leaf(d, "kernel"), {})
             /\ job' = IF job.from = Kernel THEN Idle ELSE [job EXCEPT !.op = "unmap"]
          \/ /\ ~Accepts(root[Kernel], KStack(pid[job.to]), d)
             /\ entry' = [entry EXCEPT ![d] = Junk]
             /\ role' = [role EXCEPT ![d] = "data"]
             /\ job' = [job EXCEPT !.op = "panic"]
  /\ UNCHANGED <<root, ufree, tf, pid, nextPid>>

\* fork: the trapframe page that copy made is freed, and the child's own mapped.
UnmapTf ==
  /\ job.op = "unmap"
  /\ UnmapPage(job.to, TfVa)
  /\ job' = [job EXCEPT !.op = "remap"]
  /\ UNCHANGED <<root, tf, pid, nextPid>>

BugRemapTf ==
  /\ job.op = "remap"
  /\ MapPage(job.to, TfVa, Leaf(tf[job.from], "kernel"), {})
  /\ job' = Idle
  /\ UNCHANGED <<root, ufree, tf, pid, nextPid>>

RemapTf ==
  /\ job.op = "remap"
  /\ MapPage(job.to, TfVa, Leaf(tf[job.to], "kernel"), {})
  /\ job' = Idle
  /\ UNCHANGED <<root, ufree, tf, pid, nextPid>>

-----------------------------------------------------------------------------
(* A running process, and its end. *)

Runs(p) == Started(p) /\ ~Busy(p) /\ job.op # "panic"

\* One page of heap_grow, ustack_grow, map_pages or an ELF segment.
Grow(p, v) ==
  /\ Runs(p) /\ Translate(root[p], v).kind = "none"
  /\ \E f \in UPages :
       /\ Lowest(f, ufree)
       /\ ufree' = ufree \ {f}
       /\ MapPage(p, v, Leaf(f, "user"), {})
  /\ UNCHANGED <<root, tf, pid, nextPid, job>>

\* One page of heap_ungrow or munmap.
Shrink(p, v) ==
  /\ Runs(p)
  /\ UnmapPage(p, v)
  /\ UNCHANGED <<root, tf, pid, nextPid, job>>

\* destroy: the user pages and the tables below the root.
Children(t) == {Below(t, i) : i \in {j \in Idx : Leads(t, j)}}
BugTables(r) == Children(r)
Tables(r) == Children(r) \cup UNION {Children(t) : t \in Children(r)}
Destroyed(r) == {r} \cup Tables(r)
UserPages(r) ==
  {Translate(r, v).to : v \in {w \in Pages : Translate(r, w).kind = "leaf"}} \cap UPages

\* free of a reaped process: destroy, and the root's frame is dropped.  The
\* trapframe stays with the slot.
Reap(p) ==
  /\ Runs(p) /\ job = Idle
  /\ entry' = [t \in KPages |-> IF t \in Destroyed(root[p]) THEN Cleared ELSE entry[t]]
  /\ role' = [n \in KPages |-> IF n \in Destroyed(root[p]) THEN "free" ELSE role[n]]
  /\ ufree' = ufree \cup UserPages(root[p])
  /\ root' = [root EXCEPT ![p] = Nil]
  /\ job' = Job("drop", p, p, {})
  /\ UNCHANGED <<tf, pid, nextPid>>

\* Drop of KernelStack: free_kstack.
DropStack ==
  /\ job.op = "drop"
  /\ UnmapPage(Kernel, KStack(pid[job.to]))
  /\ job' = Idle
  /\ UNCHANGED <<root, tf, pid, nextPid>>

-----------------------------------------------------------------------------
UserVas == CodeVa + 1 .. MaxVa - 3   \* the heap and the mmap window

PtInit ==
  \E k \in KPages :
    /\ Lowest(k, KPages)
    /\ entry = [t \in KPages |-> IF t = k THEN Cleared ELSE Junk]
    /\ role = [n \in KPages |-> IF n = k THEN "root" ELSE "free"]
    /\ root = [o \in Owners |-> IF o = Kernel THEN k ELSE Nil]
    /\ ufree = UPages
    /\ tf = [p \in Procs |-> Nil]
    /\ pid = [o \in Owners |-> 0]
    /\ nextPid = 1
    /\ job = Job("boot", Kernel, Kernel, {})

\* After a panic the hart loops for good.
Halted == job.op = "panic" /\ UNCHANGED ptVars

PtNext ==
  \/ BootTramp \/ Made \/ MakeStack \/ UnmapTf \/ RemapTf \/ DropStack \/ Halted
  \/ \E o \in Owners, q \in Procs : NewRoot(o, q)
  \/ \E v \in Pages : MakePage(v)
  \/ \E p \in Procs : Reap(p) \/ (\E v \in UserVas : Grow(p, v) \/ Shrink(p, v))

PtSpec == PtInit /\ [][PtNext]_ptVars

-----------------------------------------------------------------------------
(* The page tables as a map: what the hardware, and copyin, would find. *)

Mapping == [o \in Owners |-> [v \in Pages |->
              IF root[o] = Nil THEN Zero ELSE Translate(root[o], v)]]

Map == INSTANCE PageMap WITH map <- Mapping

\* Whatever trees map, unmap, copy and destroy build out of recycled pages, each of
\* them changes one page of one owner, or discards one owner's, and never maps a page
\* that another owner, or another address, already has (mem/pagetable.rs).
ImplementsMap == Map!Spec

TablesOf(o) == IF root[o] = Nil THEN {} ELSE Destroyed(root[o])
Links == {x \in KPages \X Idx : role[x[1]] \in {"root", "l1"} /\ Leads(x[1], x[2])}
MappedPas == {Mapping[o][v].to : o \in Owners, v \in Pages}

\* No kernel page is lost or used twice: the tables are exactly those that the roots
\* in use reach, each through one entry, and every other page in use is a trapframe of
\* a slot, a kernel stack, the copy fork is about to drop, or lost with a panic.
TablesExact ==
  /\ {n \in KPages : role[n] \in {"root", "l1", "l0"}} = UNION {TablesOf(o) : o \in Owners}
  /\ \A x, y \in Links : Below(x[1], x[2]) = Below(y[1], y[2]) => x = y
  /\ \A x \in Links : role[Below(x[1], x[2])] = IF role[x[1]] = "root" THEN "l1" ELSE "l0"
  /\ job.op # "panic" =>
       {n \in KPages : role[n] = "data"} = (MappedPas \cup {tf[p] : p \in Procs}) \cap KPages

\* fork, create and the release of a process give every started process the fixed
\* pages of its layout and a stack of its own below the trampoline; a refused map
\* panics only when the pids have run out of stack addresses.
Layout ==
  /\ \A p \in Procs : Runs(p) =>
       /\ Mapping[p][TrampVa] = Leaf(TrampPa, "tramp")
       /\ Mapping[p][TfVa] = Leaf(tf[p], "kernel")
       /\ Mapping[Kernel][KStack(pid[p])].perm = "kernel"
       /\ Mapping[Kernel][KStack(pid[p])].kind = "leaf"
  /\ job.op = "panic" <=> nextPid > TrampVa - KBase /\ job.op \notin {"make", "stack"}
=============================================================================
