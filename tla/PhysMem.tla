------------------------------ MODULE PhysMem ------------------------------
(***************************************************************************)
(* The physical page allocator (mem/pmem.rs): two regions, each with a     *)
(* free list threaded through its free pages under a lock, and one         *)
(* reference count per page that is updated outside that lock.             *)
(*                                                                         *)
(* Several harts call it.  A call is cut where it leaves the region lock   *)
(* or touches an atomic, so all interleavings of those steps are covered.  *)
(* Pages are numbered; page 0 is no page and stands for the null pointer,  *)
(* which is also the first word of a zeroed page.  The end of memory       *)
(* counts whole pages: both region ends are rounded down.                  *)
(***************************************************************************)
EXTENDS Naturals

CONSTANTS
  Harts,
  AllocBegin,  \* __alloc_start
  KERN_PAGES,  \* size of the kernel region
  MemEnd,      \* end of the memory the device tree reports
  TotalEnd,    \* end of the memory PAGE_REF has counters for
  RefMod,      \* the counters are AtomicU8: arithmetic modulo this
  MaxDouble    \* bound: pages freed twice by mistake

ASSUME PhysMemAssumption ==
  /\ AllocBegin \in Nat \ {0} /\ KERN_PAGES \in Nat
  /\ MemEnd \in Nat /\ AllocBegin <= MemEnd
  /\ TotalEnd \in Nat
  /\ RefMod \in Nat /\ MaxDouble \in Nat /\ MaxDouble + 2 <= RefMod

(* Definitions whose names start with Bug are never used: each is a change *)
(* a maintainer might make to the definition below it.                     *)

Nil == 0
Data == MemEnd                 \* what a holder may have written to its page
Pages == AllocBegin .. MemEnd - 1
Regions == {"kernel", "user"}

\* initialize_regions: where the kernel region ends and the user's begins.
KernelSplit ==
  IF AllocBegin + KERN_PAGES > MemEnd THEN MemEnd ELSE AllocBegin + KERN_PAGES

Begin(r) == IF r = "kernel" THEN AllocBegin ELSE KernelSplit
End(r) == IF r = "kernel" THEN KernelSplit ELSE MemEnd

\* AllocRegion::contains.
Contains(r, p) == Begin(r) <= p /\ p < End(r)

VARIABLES
  head,       \* inner.head, by region
  allocable,  \* inner.allocable, by region
  word,       \* the first word of every page: FreePage.next, or contents
  ref,        \* PAGE_REF
  held,       \* the pages that have been handed out
  pc,         \* where each hart is
  cur,        \* the page its call is about
  doubles     \* second frees so far

vars == <<head, allocable, word, ref, held, pc, cur, doubles>>

Busy == {"popped", "counted", "push"}
Panics == {"exhausted", "range", "corrupt", "double", "outside"}

TypeOK ==
  /\ head \in [Regions -> Pages \cup {Nil}]
  /\ allocable \in [Regions -> Nat]
  /\ word \in [Pages -> Pages \cup {Nil, Data}]
  /\ ref \in [Pages -> 0 .. RefMod - 1]
  /\ held \in SUBSET Pages
  /\ pc \in [Harts -> {"idle"} \cup Busy \cup Panics]
  /\ cur \in [Harts -> Pages \cup {Nil}]
  /\ doubles \in 0 .. MaxDouble

\* AllocRegion::init pushes the pages of each region in ascending order.
Init ==
  /\ head = [r \in Regions |-> IF Begin(r) < End(r) THEN End(r) - 1 ELSE Nil]
  /\ allocable = [r \in Regions |-> End(r) - Begin(r)]
  /\ word = [p \in Pages |->
               IF p \in {Begin(r) : r \in Regions} THEN Nil ELSE p - 1]
  /\ ref = [p \in Pages |-> 0]
  /\ held = {}
  /\ pc = [h \in Harts |-> "idle"]
  /\ cur = [h \in Harts |-> Nil]
  /\ doubles = 0

-----------------------------------------------------------------------------
Goto(h, l) == pc' = [pc EXCEPT ![h] = l]

BugPopOutsideLock(h, r) ==
  /\ pc[h] = "idle" /\ head[r] # Nil
  /\ cur' = [cur EXCEPT ![h] = head[r]]
  /\ Goto(h, "popped")
  /\ UNCHANGED <<head, allocable, word, ref, held, doubles>>

\* allocate, the section under the region lock.
Pop(h, r) ==
  /\ pc[h] = "idle" /\ head[r] # Nil
  /\ cur' = [cur EXCEPT ![h] = head[r]]
  /\ head' = [head EXCEPT ![r] = word[head[r]]]
  /\ allocable' = [allocable EXCEPT ![r] = IF @ = 0 THEN 0 ELSE @ - 1]
  /\ Goto(h, "popped")
  /\ UNCHANGED <<word, ref, held, doubles>>

\* alloc panics when the region's list is empty.
Exhausted(h, r) ==
  /\ pc[h] = "idle" /\ head[r] = Nil
  /\ Goto(h, "exhausted")
  /\ UNCHANGED <<head, allocable, word, ref, held, cur, doubles>>

BugEarlyHandOut(h) ==
  /\ pc[h] = "popped"
  /\ ref' = [ref EXCEPT ![cur[h]] = (@ + 1) % RefMod]
  /\ held' = held \cup {cur[h]}
  /\ Goto(h, IF ref[cur[h]] # 0 THEN "corrupt" ELSE "counted")
  /\ UNCHANGED <<head, allocable, word, cur, doubles>>

\* allocate, pa_to_index and the fetch_add behind the lock.
CountUp(h) ==
  /\ pc[h] = "popped"
  /\ IF cur[h] >= TotalEnd
       THEN Goto(h, "range") /\ UNCHANGED ref
       ELSE /\ ref' = [ref EXCEPT ![cur[h]] = (@ + 1) % RefMod]
            /\ Goto(h, IF ref[cur[h]] # 0 THEN "corrupt" ELSE "counted")
  /\ UNCHANGED <<head, allocable, word, held, cur, doubles>>

\* allocate, write_bytes; the page is the caller's.
HandOut(h) ==
  /\ pc[h] = "counted"
  /\ word' = [word EXCEPT ![cur[h]] = Nil]
  /\ held' = held \cup {cur[h]}
  /\ Goto(h, "idle")
  /\ UNCHANGED <<head, allocable, ref, cur, doubles>>

\* A holder uses its page.
Write(p) ==
  /\ p \in held
  /\ word' = [word EXCEPT ![p] = Data]
  /\ UNCHANGED <<head, allocable, ref, held, pc, cur, doubles>>

BugFreeUnchecked(h, p) ==
  /\ ref' = [ref EXCEPT ![p] = (@ + RefMod - 1) % RefMod]
  /\ Goto(h, "push")
  /\ cur' = [cur EXCEPT ![h] = p]

BugFreeUncounted(h, p) ==
  Goto(h, "push") /\ cur' = [cur EXCEPT ![h] = p] /\ UNCHANGED ref

\* free: find the region by address, fetch_sub, and decide what to do.
FreeCount(h, p) ==
  IF (\A r \in Regions : ~ Contains(r, p)) \/ p >= TotalEnd
    THEN Goto(h, "outside") /\ UNCHANGED <<ref, cur>>
    ELSE /\ ref' = [ref EXCEPT ![p] = (@ + RefMod - 1) % RefMod]
         /\ Goto(h, IF ref[p] = 0 THEN "double"
                    ELSE IF ref[p] > 1 THEN "idle" ELSE "push")
         /\ cur' = IF ref[p] = 1 THEN [cur EXCEPT ![h] = p] ELSE cur

\* A page is given back.
Free(h, p) ==
  /\ pc[h] = "idle" /\ p \in held
  /\ held' = held \ {p}
  /\ FreeCount(h, p)
  /\ UNCHANGED <<head, allocable, word, doubles>>

\* A page that has been given back is freed again by mistake, before it is
\* counted as handed out once more.
DoubleFree(h, p) ==
  /\ pc[h] = "idle" /\ p \in Pages \ held /\ doubles < MaxDouble
  /\ \A g \in Harts : ~ (pc[g] = "counted" /\ cur[g] = p)
  /\ doubles' = doubles + 1
  /\ FreeCount(h, p)
  /\ UNCHANGED <<head, allocable, word, held>>

\* free, the section under the lock of the page's region.
Push(h) ==
  \E r \in Regions :
    /\ pc[h] = "push" /\ Contains(r, cur[h])
    /\ word' = [word EXCEPT ![cur[h]] = head[r]]
    /\ head' = [head EXCEPT ![r] = cur[h]]
    /\ allocable' = [allocable EXCEPT ![r] = @ + 1]
    /\ Goto(h, "idle")
    /\ UNCHANGED <<ref, held, cur, doubles>>

\* Every hart sits in the panic handler.
Halted == (\A h \in Harts : pc[h] \in Panics) /\ UNCHANGED vars

HartStep(h) ==
  \/ \E r \in Regions : Pop(h, r) \/ Exhausted(h, r)
  \/ CountUp(h) \/ HandOut(h) \/ Push(h)
  \/ \E p \in Pages : Free(h, p) \/ DoubleFree(h, p)

Next == (\E h \in Harts : HartStep(h)) \/ (\E p \in Pages : Write(p)) \/ Halted

Spec == Init /\ [][Next]_vars

-----------------------------------------------------------------------------
(* Properties. *)

\* The pages a call in progress, or one that ended in a panic, has taken.
Taking(h) == pc[h] \in Busy \cup {"corrupt", "range"}
Taken == {p \in Pages : \E h \in Harts : Taking(h) /\ cur[h] = p}

\* The pages of region r nobody has.
FreePages(r) == {p \in Pages : Contains(r, p)} \ (held \cup Taken)

\* f lists region r's free pages from the bottom of the list to its head.
IsList(r, f) ==
  /\ \A i, j \in 1 .. allocable[r] : f[i] = f[j] => i = j
  /\ \A p \in Pages :
       p \in FreePages(r) <=> \E i \in 1 .. allocable[r] : f[i] = p
  /\ head[r] = IF allocable[r] = 0 THEN Nil ELSE f[allocable[r]]
  /\ \A i \in 1 .. allocable[r] : word[f[i]] = IF i = 1 THEN Nil ELSE f[i - 1]

\* Whatever the harts do at the same time, including freeing pages twice, each
\* region's list is null-terminated, repeats no page, and holds exactly the
\* pages of that region nobody has; allocable is its length.
FreeLists ==
  \A r \in Regions : \E f \in [1 .. allocable[r] -> Pages] : IsList(r, f)

\* No page is handed out, or on its way out or in, twice at a time.
OneHolder ==
  \A h \in Harts : pc[h] \in Busy =>
    /\ cur[h] \notin held
    /\ \A g \in Harts \ {h} : pc[g] \in Busy => cur[g] # cur[h]

\* The allocator writes to no page that somebody holds.
HeldUntouched ==
  [][\A p \in held : p \in held' => word'[p] \in {word[p], Data}]_vars

\* A panic about a count ("ref count corrupted", "double free detected") is
\* always due to a page freed twice: interleaved calls of callers who return
\* what they got, once, never set one off.
PanicsJustified ==
  doubles = 0 => \A h \in Harts : pc[h] \notin {"corrupt", "double", "outside"}

\* tests/pmem.rs:140-145: once every hart has returned its pages, allocable is
\* what it was at the start.
AllRestored ==
  held = {} /\ (\A h \in Harts : pc[h] \in {"idle", "exhausted"}) =>
    \A r \in Regions : allocable[r] = End(r) - Begin(r)
=============================================================================
