---------------------------- MODULE AddressSpace ----------------------------
(***************************************************************************)
(* The user half of an address space: the page table's user leaves, the    *)
(* heap break, the on-demand stack and the list of mmap regions, for every  *)
(* slot of the process table, together with the shared pool of region nodes *)
(* (mem/mmap.rs) and the count of user pages handed out by the physical     *)
(* allocator.  Addresses are page numbers; a region is [b, e), b included.  *)
(* Every action is one system call or trap, which runs with interrupts off; *)
(* mmap's search and munmap take one step per turn of their loop, and       *)
(* nothing else runs until they return.                                     *)
(***************************************************************************)
EXTENDS Naturals, Sequences, FiniteSets, FiniteSetsExt

CONSTANTS
  Procs,         \* the process table's slots
  Root,          \* the slot of the first process, never reaped
  InitPages,     \* pages of the first process's payload
  Programs,      \* what an ELF file's PT_LOAD segments cover: sets of pages
  STACK_BASE,    \* first page of the stack window
  STACK_TOP,     \* page after the stack window
  MMAP_BEGIN,
  MMAP_END,
  N_MMAP,        \* nodes in the warehouse
  MaxLost        \* bound: failed calls after which the model stops

ASSUME LayoutAssumption ==
  /\ {InitPages, STACK_BASE, STACK_TOP, MMAP_BEGIN, MMAP_END, N_MMAP} \subseteq Nat
  /\ InitPages < STACK_BASE /\ STACK_BASE < STACK_TOP
  /\ STACK_TOP <= MMAP_BEGIN /\ MMAP_BEGIN < MMAP_END
  /\ IsFiniteSet(Procs) /\ Root \in Procs
  /\ \A prog \in Programs : prog \subseteq 1 .. MMAP_BEGIN - 1

VARIABLES
  live,       \* slots whose address space exists
  pt,         \* the user pages mapped in each slot's page table
  regions,    \* the list from mmap_head, in link order
  heapBase,
  heapTop,
  nodes,      \* nodes on the warehouse's free list
  used,       \* user pages the physical allocator has handed out
  lost,       \* history: pages a failed call allocated and nobody references
  dropped,    \* history: nodes that free() left out
  torn,       \* history: slots whose list and page table came apart
  call        \* the loop under way in mmap or munmap, Idle between calls

space == <<live, pt, regions, heapBase, heapTop, nodes, used, lost, dropped,
           torn>>
vars == <<space, call>>

Idle == [op |-> "none"]

Pages == 0 .. MMAP_END - 1
Window == MMAP_BEGIN .. MMAP_END - 1

Covered(list) == UNION {list[i].b .. list[i].e - 1 : i \in DOMAIN list}

Init ==
  /\ live = {Root}
  /\ pt = [p \in Procs |-> IF p = Root THEN 1 .. InitPages ELSE {}]
  /\ regions = [p \in Procs |-> <<>>]
  /\ heapBase = [p \in Procs |-> IF p = Root THEN InitPages + 1 ELSE 0]
  /\ heapTop = heapBase
  /\ nodes = N_MMAP
  /\ used = InitPages
  /\ lost = 0
  /\ dropped = 0
  /\ torn = {}
  /\ call = Idle

-----------------------------------------------------------------------------
(* Page-table runs.  map refuses a page that is already mapped elsewhere,   *)
(* so a run stops at the first such page, whose replacement is lost; unmap  *)
(* stops at the first hole, the pages before it already freed.              *)
Stops(from, to, bad) == Min({to} \cup ((from .. to - 1) \cap bad))

BugMapRun(m, from, to) ==
  LET stop == Stops(from, to - 1, m)
  IN  [ok |-> stop = to - 1, pt |-> m \cup (from .. stop - 1),
       got |-> IF stop = to - 1 THEN stop - from ELSE stop - from + 1]

MapRun(m, from, to) ==
  LET stop == Stops(from, to, m)
  IN  [ok |-> stop = to, pt |-> m \cup (from .. stop - 1),
       got |-> IF stop = to THEN to - from ELSE stop - from + 1]

BugUnmapRun(m, from, to) ==
  LET stop == Stops(from, to, Pages \ m)
  IN  [ok |-> stop = to, pt |-> m \ (from .. stop - 1), freed |-> 0]

UnmapRun(m, from, to) ==
  LET stop == Stops(from, to, Pages \ m)
  IN  [ok |-> stop = to, pt |-> m \ (from .. stop - 1),
       freed |-> Cardinality(from .. stop - 1)]

-----------------------------------------------------------------------------
(* mmap with begin = 0: the cursor walks the list and takes the first gap.  *)
BugFits(cursor, limit, n) == limit > cursor + n

Fits(cursor, limit, n) == limit >= cursor + n

(* One turn of mmap's first loop finds a place at the cursor: before the    *)
(* region it looks at, or, past the last one, before the window's end.      *)
Found(list, at, cursor, n) ==
  IF at <= Len(list) THEN list[at].b >= cursor /\ Fits(cursor, list[at].b, n)
                     ELSE Fits(cursor, MMAP_END, n)

(* The loop that looks for prev and cur stops after the k-th region.        *)
Before(list, k, b) ==
  /\ \A i \in 1 .. k : list[i].b < b
  /\ k < Len(list) => list[k + 1].b >= b

Overlaps(list, k, b, e) ==
  \/ k > 0 /\ b < list[k].e
  \/ k < Len(list) /\ e > list[k + 1].b

(* The list with the regions after the i-th and before the j-th replaced.   *)
Splice(list, i, new, j) == SubSeq(list, 1, i) \o new \o SubSeq(list, j, Len(list))

BugPlace(list, k, b, e) ==
  LET joinPrev == k > 0 /\ list[k].e = b
      joinNext == ~joinPrev /\ k < Len(list) /\ e = list[k + 1].b
      new == [b |-> IF joinPrev THEN list[k].b ELSE b,
              e |-> IF joinNext THEN list[k + 1].e ELSE e]
  IN  [list |-> Splice(list, IF joinPrev THEN k - 1 ELSE k, <<new>>,
                       IF joinNext THEN k + 2 ELSE k + 1),
       need |-> IF joinPrev \/ joinNext THEN 0 ELSE 1, spare |-> 0]

(* The list with [b, e) put in after its k-th region, merged with either    *)
(* neighbour it touches; need counts the node it takes and spare the one a  *)
(* double merge returns.                                                    *)
Place(list, k, b, e) ==
  LET joinPrev == k > 0 /\ list[k].e = b
      joinNext == k < Len(list) /\ e = list[k + 1].b
      new == [b |-> IF joinPrev THEN list[k].b ELSE b,
              e |-> IF joinNext THEN list[k + 1].e ELSE e]
  IN  [list |-> Splice(list, IF joinPrev THEN k - 1 ELSE k, <<new>>,
                       IF joinNext THEN k + 2 ELSE k + 1),
       need |-> IF joinPrev \/ joinNext THEN 0 ELSE 1,
       spare |-> IF joinPrev /\ joinNext THEN 1 ELSE 0]

(* mmap from its bounds check on: [b, b + n) is put after the k regions     *)
(* that begin below b, or refused.  The pages are mapped first and the node *)
(* is taken after, so a pool without a node leaves them mapped outside      *)
(* every region.                                                            *)
Put(p, k, b, e) ==
  LET run == MapRun(pt[p], b, e)
      put == Place(regions[p], k, b, e)
      linked == run.ok /\ put.need <= nodes
  IN  /\ pt' = [pt EXCEPT ![p] = run.pt]
      /\ used' = used + run.got
      /\ lost' = IF run.ok THEN lost ELSE lost + 1
      /\ regions' = IF linked THEN [regions EXCEPT ![p] = put.list]
                              ELSE regions
      /\ nodes' = IF linked THEN nodes - put.need + put.spare ELSE nodes
      /\ torn' = IF run.ok /\ ~linked THEN torn \cup {p} ELSE torn
      /\ UNCHANGED <<live, heapBase, heapTop, dropped>>

PutAt(p, b, e) ==
  \E k \in 0 .. Len(regions[p]) :
    /\ Before(regions[p], k, b)
    /\ IF b >= MMAP_BEGIN /\ e <= MMAP_END /\ ~Overlaps(regions[p], k, b, e)
       THEN Put(p, k, b, e)
       ELSE UNCHANGED space

Mmap(p, b, n) ==
  /\ call = Idle /\ p \in live
  /\ PutAt(p, b, b + n)
  /\ UNCHANGED call

MmapAnywhere(p, n) ==
  /\ call = Idle /\ p \in live
  /\ call' = [op |-> "fit", p |-> p, n |-> n, at |-> 1, cursor |-> MMAP_BEGIN]
  /\ UNCHANGED space

(* The cursor moves only past a region that begins at or above it.          *)
FitTurn(p) ==
  LET list == regions[p]
      at == call.at
  IN  /\ call.op = "fit" /\ call.p = p
      /\ ~Found(list, at, call.cursor, call.n)
      /\ call' = IF at > Len(list) THEN Idle
                 ELSE [call EXCEPT !.at = at + 1,
                                   !.cursor = IF list[at].b >= @ THEN list[at].e
                                                                 ELSE @]
      /\ UNCHANGED space

FitPut(p) ==
  /\ call.op = "fit" /\ call.p = p
  /\ Found(regions[p], call.at, call.cursor, call.n)
  /\ PutAt(p, call.cursor, call.cursor + call.n)
  /\ call' = Idle

-----------------------------------------------------------------------------
BugClip(r, s, e) == [b |-> Max({s, r.b}), e |-> r.e]

(* The part of region r that lies in [s, e), what one turn of the loop unmaps. *)
Clip(r, s, e) == [b |-> Max({s, r.b}), e |-> Min({e, r.e})]

(* What stays of region r once c is cut out of it: nothing, one end or both, *)
(* or all of it when c is empty.                                            *)
Keep(r, c) ==
  LET left == [b |-> r.b, e |-> c.b]
      right == [b |-> c.e, e |-> r.e]
  IN  IF c.e <= c.b THEN <<r>>
      ELSE IF c = r THEN <<>>
      ELSE IF c.b = r.b THEN <<right>>
      ELSE IF c.e = r.e THEN <<left>> ELSE <<left, right>>

(* The free list after a region was cut into kept: a region that vanished   *)
(* gives its node back, one that split takes a node.                        *)
Returned(kept, free) ==
  IF kept = <<>> THEN free + 1
  ELSE IF Len(kept) = 2 THEN free - 1 ELSE free

(* munmap's first loop passes over the k regions that end at or below s.    *)
Behind(list, k, s) ==
  /\ \A i \in 1 .. k : list[i].e <= s
  /\ k < Len(list) => list[k + 1].e > s

Munmap(p, s, e) ==
  /\ call = Idle /\ p \in live
  /\ \E k \in 0 .. Len(regions[p]) :
        /\ Behind(regions[p], k, s)
        /\ call' = [op |-> "cut", p |-> p, at |-> k + 1, s |-> s, e |-> e,
                    from |-> s, had |-> Covered(regions[p])]
  /\ UNCHANGED space

(* munmap's loop has nothing left to do at region at.                       *)
CutEnds(list, at, s, e) == at <= Len(list) => s >= e \/ e <= list[at].b

(* One turn of munmap's loop.  It stops at an unmapped page, and at a split *)
(* for which there is no node: the pages of that region are gone by then,   *)
(* and the region still claims them.                                        *)
CutTurn(p) ==
  LET list == regions[p]
      r == list[call.at]
      c == Clip(r, call.s, call.e)
      run == UnmapRun(pt[p], c.b, c.e)
      kept == Keep(r, c)
      noNode == Len(kept) = 2 /\ nodes = 0
  IN  /\ call.op = "cut" /\ call.p = p
      /\ ~CutEnds(list, call.at, call.s, call.e)
      /\ pt' = [pt EXCEPT ![p] = run.pt]
      /\ used' = used - run.freed
      /\ IF run.ok /\ ~noNode
         THEN /\ regions' = [regions EXCEPT ![p] =
                               Splice(list, call.at - 1, kept, call.at + 1)]
              /\ nodes' = Returned(kept, nodes)
              /\ call' = [call EXCEPT !.at = @ + Len(kept), !.s = c.e]
         ELSE /\ call' = Idle
              /\ UNCHANGED <<regions, nodes>>
      /\ torn' = IF run.ok /\ noNode THEN torn \cup {p} ELSE torn
      /\ UNCHANGED <<live, heapBase, heapTop, lost, dropped>>

CutReturn(p) ==
  /\ call.op = "cut" /\ call.p = p
  /\ CutEnds(regions[p], call.at, call.s, call.e)
  /\ call' = Idle
  /\ UNCHANGED space

-----------------------------------------------------------------------------
InBreakRange(p, top) == heapBase[p] <= top /\ top <= MMAP_BEGIN

(* The break moves only when the pages did.                                 *)
Break(p, top, ok) == heapTop' = IF ok THEN [heapTop EXCEPT ![p] = top]
                                      ELSE heapTop

(* sys_brk upwards: a page that is already mapped stops it half way, with   *)
(* the pages below it mapped and the break where it was.                    *)
BrkGrow(p, top) ==
  LET run == MapRun(pt[p], heapTop[p], top)
  IN  /\ p \in live /\ InBreakRange(p, top) /\ top > heapTop[p]
      /\ pt' = [pt EXCEPT ![p] = run.pt]
      /\ used' = used + run.got
      /\ lost' = IF run.ok THEN lost ELSE lost + 1
      /\ Break(p, top, run.ok)
      /\ UNCHANGED <<live, regions, heapBase, nodes, dropped, torn>>

BrkShrink(p, top) ==
  LET run == UnmapRun(pt[p], top, heapTop[p])
  IN  /\ p \in live /\ InBreakRange(p, top) /\ top < heapTop[p]
      /\ pt' = [pt EXCEPT ![p] = run.pt]
      /\ used' = used - run.freed
      /\ Break(p, top, run.ok)
      /\ UNCHANGED <<live, regions, heapBase, nodes, lost, dropped, torn>>

(* A load or store fault in the stack window maps every missing page from   *)
(* the top of the stack down to the faulting one.                           *)
StackFault(p, va) ==
  LET missing == (va .. STACK_TOP - 1) \ pt[p]
  IN  /\ p \in live /\ va \in STACK_BASE .. STACK_TOP - 1 /\ va \notin pt[p]
      /\ pt' = [pt EXCEPT ![p] = @ \cup missing]
      /\ used' = used + Cardinality(missing)
      /\ UNCHANGED <<live, regions, heapBase, heapTop, nodes, lost, dropped,
                     torn>>

-----------------------------------------------------------------------------
(* fork copies every mapped user page and the break, not the region list.   *)
Fork(p, c) ==
  /\ p \in live /\ c \notin live
  /\ live' = live \cup {c}
  /\ pt' = [pt EXCEPT ![c] = pt[p]]
  /\ used' = used + Cardinality(pt[p])
  /\ heapBase' = [heapBase EXCEPT ![c] = heapBase[p]]
  /\ heapTop' = [heapTop EXCEPT ![c] = heapTop[p]]
  /\ torn' = IF pt[p] \cap Window = {} THEN torn ELSE torn \cup {c}
  /\ UNCHANGED <<regions, nodes, lost, dropped>>

(* proc_exec maps a stack page only where lookup finds no leaf table; the   *)
(* stack and the program share one, so the first page mapped there is also  *)
(* the last.                                                                *)
Loaded(prog) == IF prog = {} THEN {STACK_TOP - 1} ELSE prog

MaxVa(prog) == IF prog = {} THEN 0 ELSE Max(prog) + 1

(* exec with its arguments copied out, or with none to copy.  The old page  *)
(* table is destroyed and the region list is kept.                          *)
Exec(p, prog, args) ==
  /\ p \in live
  /\ args => STACK_TOP - 1 \in Loaded(prog)
  /\ pt' = [pt EXCEPT ![p] = Loaded(prog)]
  /\ used' = used + Cardinality(Loaded(prog)) - Cardinality(pt[p])
  /\ heapBase' = [heapBase EXCEPT ![p] = MaxVa(prog)]
  /\ heapTop' = [heapTop EXCEPT ![p] = MaxVa(prog)]
  /\ torn' = IF regions[p] = <<>> THEN torn \ {p} ELSE torn \cup {p}
  /\ UNCHANGED <<live, regions, nodes, lost, dropped>>

(* exec that fails with n pages loaded, on a segment or on an argument that *)
(* cannot be copied: only the root of the new table is returned, its leaves *)
(* are not.                                                                 *)
ExecFails(p, prog, n) ==
  /\ p \in live
  /\ n \in 1 .. Cardinality(Loaded(prog))
  /\ used' = used + n
  /\ lost' = lost + n
  /\ UNCHANGED <<live, pt, regions, heapBase, heapTop, nodes, dropped, torn>>

(* wait reaps a zombie: Process::free and a fresh Process::new().  The page *)
(* table's leaves are freed and only the first node of the list.            *)
Reap(c) ==
  /\ c \in live \ {Root}
  /\ live' = live \ {c}
  /\ used' = used - Cardinality(pt[c])
  /\ nodes' = IF regions[c] = <<>> THEN nodes ELSE nodes + 1
  /\ dropped' = IF regions[c] = <<>> THEN dropped
                                     ELSE dropped + Len(regions[c]) - 1
  /\ pt' = [pt EXCEPT ![c] = {}]
  /\ regions' = [regions EXCEPT ![c] = <<>>]
  /\ heapBase' = [heapBase EXCEPT ![c] = 0]
  /\ heapTop' = [heapTop EXCEPT ![c] = 0]
  /\ torn' = torn \ {c}
  /\ UNCHANGED lost

(* mmap and munmap, which run through their loops turn by turn.             *)
Mapping(p) ==
  \/ \E b \in Window, n \in 1 .. MMAP_END - MMAP_BEGIN : Mmap(p, b, n)
  \/ \E n \in 1 .. MMAP_END - MMAP_BEGIN : MmapAnywhere(p, n)
  \/ FitTurn(p)
  \/ FitPut(p)
  \/ \E s \in Window, e \in Pages \cup {MMAP_END} : s < e /\ Munmap(p, s, e)
  \/ CutTurn(p)
  \/ CutReturn(p)

(* The calls and traps that are one step.                                   *)
Other(p) ==
  \/ \E top \in 1 .. MMAP_BEGIN : BrkGrow(p, top)
  \/ \E top \in 1 .. MMAP_BEGIN : BrkShrink(p, top)
  \/ \E va \in Pages : StackFault(p, va)
  \/ \E c \in Procs : Fork(p, c)
  \/ \E prog \in Programs, args \in BOOLEAN : Exec(p, prog, args)
  \/ \E prog \in Programs, n \in Pages : ExecFails(p, prog, n)
  \/ Reap(p)

Next ==
  /\ lost < MaxLost
  /\ \E p \in Procs : Mapping(p) \/ (call = Idle /\ UNCHANGED call /\ Other(p))

Spec == Init /\ [][Next]_vars

-----------------------------------------------------------------------------
(* The pairs of a slot and an element of its set, counted.                  *)
Total(f) == Cardinality(UNION {{p} \X f[p] : p \in Procs})

(* Where n pages of the window are free of every region.                     *)
Gaps(list, n) == {b \in Window : /\ b + n <= MMAP_END
                                 /\ (b .. b + n - 1) \cap Covered(list) = {}}

(* The list of every process is sorted, its regions do not overlap and no   *)
(* two of them touch: mmap merged them (uvm.rs:288-339), munmap left a gap  *)
(* (uvm.rs:384-441).                                                        *)
RegionsCanonical ==
  \A p \in Procs : \A i, j \in DOMAIN regions[p] :
    i < j => regions[p][i].e < regions[p][j].b

(* Every page from the base of the heap to the break is mapped, also after   *)
(* a brk that stopped half way, a stack fault in the heap's path, or a fork  *)
(* (syscall/brk.rs:38-58, uvm.rs:129-166).  As long as no call failed for    *)
(* want of a node and the process neither inherited nor lost its page table, *)
(* the pages mapped in the window are exactly those its regions cover        *)
(* (uvm.rs:223-443): munmap finds every page it looks for and mmap never     *)
(* meets a mapped one.                                                       *)
Backed ==
  /\ \A p \in live : heapBase[p] .. heapTop[p] - 1 \subseteq pt[p]
  /\ \A p \in live \ torn : Covered(regions[p]) = pt[p] \cap Window

(* No user page is freed twice or forgotten outside a failed call: what the  *)
(* allocator handed out is what the page tables reference and what failed    *)
(* calls lost (uvm.rs:207-221, pagetable.rs:120-151, 246-360).  Nor is any    *)
(* node on the free list and in a process's list at once, and none           *)
(* disappears but the ones Process::free leaves behind (mmap.rs:82-120,      *)
(* process.rs:144-156).                                                      *)
Accounted ==
  /\ used = Total(pt) + lost
  /\ nodes + Total([p \in Procs |-> DOMAIN regions[p]]) + dropped = N_MMAP

(* The cursor finds the lowest gap there is: mmap(0, n) answers OutOfRange   *)
(* only when the window has no gap of n pages (uvm.rs:239-263).              *)
FirstFitIsLowest ==
  call.op = "fit" =>
    LET gaps == Gaps(regions[call.p], call.n)
        list == regions[call.p]
    IN  /\ Found(list, call.at, call.cursor, call.n) =>
             call.cursor \in gaps /\ \A b \in gaps : call.cursor <= b
        /\ call.at > Len(list) /\ ~Found(list, call.at, call.cursor, call.n)
             => gaps = {}

(* munmap that returns Ok removed the pages of its range from the regions    *)
(* and nothing else, however many regions the range meets (uvm.rs:357-443).  *)
MunmapExact ==
  call.op = "cut" /\ CutEnds(regions[call.p], call.at, call.s, call.e) =>
    Covered(regions[call.p]) = call.had \ (call.from .. call.e - 1)
=============================================================================
