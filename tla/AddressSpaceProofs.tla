------------------------- MODULE AddressSpaceProofs -------------------------
(***************************************************************************)
(* Proofs about AddressSpace: the region list of every process stays        *)
(* sorted and merged, the page table agrees with it, pages and nodes are    *)
(* accounted for, and mmap's search and munmap's cutting loop do what they  *)
(* are for, however many turns they take.                                   *)
(***************************************************************************)
EXTENDS AddressSpace, FiniteSetTheorems, TLAPS

(* An entry of the region list.                                             *)
Region == [b : Nat, e : Nat]

(* mmap(0, n) under way.                                                    *)
FitCalls == [op : {"fit"}, p : Procs, n : Nat \ {0}, at : Nat, cursor : Nat]

(* munmap under way.                                                        *)
CutCalls == [op : {"cut"}, p : Procs, at : Nat, s : Nat, e : Nat, from : Nat,
             had : SUBSET Window]

(* The variables have their types.                                          *)
TypeOK ==
  /\ live \subseteq Procs
  /\ pt \in [Procs -> SUBSET Pages]
  /\ regions \in [Procs -> Seq(Region)]
  /\ heapBase \in [Procs -> Nat]
  /\ heapTop \in [Procs -> Nat]
  /\ nodes \in Nat
  /\ used \in Int
  /\ lost \in Nat
  /\ dropped \in Nat
  /\ torn \subseteq Procs
  /\ call \in {Idle} \cup FitCalls \cup CutCalls

(* A list in address order within the window, with a gap between any two of *)
(* its regions, none of them empty.                                         *)
Sorted(list) ==
  /\ \A i \in DOMAIN list : /\ MMAP_BEGIN <= list[i].b
                            /\ list[i].b < list[i].e
                            /\ list[i].e <= MMAP_END
  /\ \A i, j \in DOMAIN list : i < j => list[i].e < list[j].b

(* Every slot's list is sorted.                                             *)
Lists == \A p \in Procs : Sorted(regions[p])

(* A slot without a process maps nothing and has no region.                 *)
Unused == \A p \in Procs \ live : pt[p] = {} /\ regions[p] = <<>>

(* The break stays below the window, so the heap and the window do not meet. *)
Heaps == \A p \in live : heapTop[p] <= MMAP_BEGIN

(* Where the region before the at-th ends, the window's start for the first. *)
EndBefore(list, at) == IF at = 1 THEN MMAP_BEGIN ELSE list[at - 1].e

(* mmap's search stands at the end of the region it passed last, and before  *)
(* none of the regions it passed were there n free pages.                    *)
FitInv ==
  call.op = "fit" =>
    LET list == regions[call.p]
    IN  /\ call.p \in live
        /\ call.at \in 1 .. Len(list) + 1
        /\ call.cursor = EndBefore(list, call.at)
        /\ \A i \in 1 .. call.at - 1 : list[i].b < EndBefore(list, i) + call.n

(* munmap has cut [from, s) out of what the list covered when it was called; *)
(* the regions behind it end by s unless it is done, those ahead end after.  *)
CutInv ==
  call.op = "cut" =>
    LET list == regions[call.p]
    IN  /\ call.p \in live
        /\ call.at \in 1 .. Len(list) + 1
        /\ call.from <= call.s /\ call.s <= call.e
        /\ MMAP_BEGIN <= call.from /\ call.e <= MMAP_END
        /\ call.s < call.e => \A i \in 1 .. call.at - 1 : list[i].e <= call.s
        /\ \A i \in call.at .. Len(list) : list[i].e > call.s
        /\ Covered(list) = call.had \ (call.from .. call.s - 1)

(* The inductive invariant.                                                  *)
IInv ==
  /\ TypeOK /\ Lists /\ Unused /\ Heaps /\ Backed /\ Accounted
  /\ FitInv /\ CutInv


-----------------------------------------------------------------------------
(* A set of numbers that is not empty has a least element.                  *)
LEMMA Least ==
  ASSUME NEW S \in SUBSET Nat, S # {}
  PROVE  Min(S) \in S /\ \A n \in S : Min(S) <= n
<1>1. IsWellFoundedOn(OpToRel(<, Nat), Nat)
  BY NatLessThanWellFounded, Zenon
<1>2. PICK m \in S : \A n \in S : <<n, m>> \notin OpToRel(<, Nat)
  BY <1>1, WFMin, Zenon
<1>3. \A n \in S : ~(n < m)
  BY <1>2, Zenon DEF OpToRel
<1>4. \A n \in S : m <= n
  BY <1>3
<1> QED
  BY <1>4, Zenon DEF Min

(* Of two numbers Max takes the larger one.                                 *)
LEMMA Larger ==
  ASSUME NEW a \in Nat, NEW b \in Nat
  PROVE  Max({a, b}) = IF a >= b THEN a ELSE b
<1>1. \E x \in {a, b} : \A y \in {a, b} : x >= y
  OBVIOUS
<1>2. Max({a, b}) \in {a, b} /\ \A y \in {a, b} : Max({a, b}) >= y
  BY <1>1, Zenon DEF Max
<1> QED
  BY <1>2

(* The smaller of two numbers.                                              *)
LEMMA Smaller ==
  ASSUME NEW a \in Nat, NEW b \in Nat
  PROVE  Min({a, b}) = IF a <= b THEN a ELSE b
  BY Least, {a, b} \in SUBSET Nat, {a, b} # {}

(* A run of pages stops at the first bad page or at its end.                *)
LEMMA StopsFacts ==
  ASSUME NEW from \in Nat, NEW to \in Nat, from <= to, NEW bad \in SUBSET Nat
  PROVE  /\ Stops(from, to, bad) \in from .. to
         /\ (from .. Stops(from, to, bad) - 1) \cap bad = {}
         /\ Stops(from, to, bad) # to => Stops(from, to, bad) \in bad
<1> DEFINE S == {to} \cup ((from .. to - 1) \cap bad)
           stop == Min(S)
<1>1. S \in SUBSET Nat /\ S # {}
  BY Zenon
<1>2. stop \in S /\ \A n \in S : stop <= n
  BY <1>1, Least, Zenon
<1>3. stop \in from .. to
  BY <1>2
<1>4. ASSUME NEW x \in from .. stop - 1, x \in bad PROVE FALSE
  <2>1. x \in S
    BY <1>3, <1>4
  <2> QED
    BY <2>1, <1>2, <1>3, <1>4
<1>5. stop # to => stop \in bad
  BY <1>2, Zenon
<1> QED
  BY <1>3, <1>4, <1>5, Zenon DEF Stops

(* A set of user pages is finite.                                           *)
LEMMA PagesFinite ==
  ASSUME NEW m \in SUBSET Pages
  PROVE  IsFiniteSet(m) /\ Cardinality(m) \in Nat
<1>1. IsFiniteSet(Pages)
  BY FS_Interval, LayoutAssumption DEF Pages
<1> QED
  BY <1>1, FS_Subset, FS_CardinalityType, Zenon

(* The pages of a run, counted.                                             *)
LEMMA IntervalSize ==
  ASSUME NEW from \in Nat, NEW stop \in Nat, from <= stop
  PROVE  /\ IsFiniteSet(from .. stop - 1)
         /\ Cardinality(from .. stop - 1) = stop - from
<1>1. from \in Int /\ stop - 1 \in Int
  OBVIOUS
<1>2. /\ IsFiniteSet(from .. stop - 1)
      /\ Cardinality(from .. stop - 1) =
           IF from > stop - 1 THEN 0 ELSE stop - 1 - from + 1
  BY <1>1, FS_Interval, Zenon
<1> QED
  BY <1>2

(* The pages from .. stop - 1, none of which is in m, added to it.          *)
LEMMA AddedPages ==
  ASSUME NEW m \in SUBSET Pages, NEW from \in Nat, NEW stop \in Nat,
         from <= stop, stop <= MMAP_END, (from .. stop - 1) \cap m = {}
  PROVE  Cardinality(m \cup (from .. stop - 1)) = Cardinality(m) + (stop - from)
<1>1. IsFiniteSet(m) /\ Cardinality(m) \in Nat
  BY PagesFinite, Zenon
<1>2. /\ IsFiniteSet(from .. stop - 1)
      /\ Cardinality(from .. stop - 1) = stop - from
  BY IntervalSize, Zenon
<1>3. Cardinality(m \cap (from .. stop - 1)) = 0
  BY FS_EmptySet, Zenon
<1>4. Cardinality(m \cup (from .. stop - 1)) =
        Cardinality(m) + Cardinality(from .. stop - 1)
          - Cardinality(m \cap (from .. stop - 1))
  BY <1>1, <1>2, FS_Union, Zenon
<1> QED
  BY <1>1, <1>2, <1>3, <1>4

(* What a run of map does to a page table (pagetable.rs:92-117): it adds    *)
(* pages of the range only, all of them when none was mapped, and what it   *)
(* allocated is what it added and, when it stops, one page more.            *)
LEMMA MapRunFacts ==
  ASSUME NEW m \in SUBSET Pages, NEW from \in Nat, NEW to \in Nat,
         from <= to, to <= MMAP_END
  PROVE  LET run == MapRun(m, from, to)
         IN  /\ run.pt \in SUBSET Pages
             /\ m \subseteq run.pt
             /\ run.pt \subseteq m \cup (from .. to - 1)
             /\ run.ok \in BOOLEAN
             /\ run.ok => run.pt = m \cup (from .. to - 1)
             /\ ~run.ok => (from .. to - 1) \cap m # {}
             /\ run.got \in Nat
             /\ Cardinality(run.pt) = Cardinality(m) + run.got
                                        - (IF run.ok THEN 0 ELSE 1)
<1> DEFINE stop == Stops(from, to, m)
           run == MapRun(m, from, to)
<1>1. MMAP_END \in Nat /\ m \in SUBSET Nat
  BY LayoutAssumption DEF Pages
<1>2. /\ stop \in from .. to
      /\ (from .. stop - 1) \cap m = {}
      /\ stop # to => stop \in m
  BY <1>1, StopsFacts, Zenon
<1>3. /\ run.ok \in BOOLEAN /\ (run.ok <=> stop = to)
      /\ run.pt = m \cup (from .. stop - 1)
      /\ run.got = IF stop = to THEN to - from ELSE stop - from + 1
  BY Zenon DEF MapRun
<1> HIDE DEF stop, run
<1>4. Cardinality(run.pt) = Cardinality(m) + (stop - from)
  BY <1>1, <1>2, <1>3, AddedPages
<1>5. Cardinality(m) \in Nat
  BY PagesFinite, Zenon
<1>6. run.pt \in SUBSET Pages
  BY <1>1, <1>2, <1>3 DEF Pages
<1>7. run.pt \subseteq m \cup (from .. to - 1)
  BY <1>2, <1>3
<1>8. ~run.ok => (from .. to - 1) \cap m # {}
  BY <1>2, <1>3
<1>9. /\ run.got \in Nat
      /\ Cardinality(run.pt) = Cardinality(m) + run.got
                                 - (IF run.ok THEN 0 ELSE 1)
  BY <1>2, <1>3, <1>4, <1>5
<1>10. run.ok \in BOOLEAN /\ m \subseteq run.pt
  BY <1>3, Zenon
<1>11. run.ok => run.pt = m \cup (from .. to - 1)
  BY <1>3, Zenon
<1> QED
  BY <1>6, <1>7, <1>8, <1>9, <1>10, <1>11, Zenon DEF run

(* What a run of unmap does (pagetable.rs:120-151): it removes pages of the *)
(* range only, all of them when all were mapped, and frees what it removed. *)
LEMMA UnmapRunFacts ==
  ASSUME NEW m \in SUBSET Pages, NEW from \in Nat, NEW to \in Nat,
         from <= to, to <= MMAP_END
  PROVE  LET run == UnmapRun(m, from, to)
         IN  /\ run.pt \in SUBSET Pages
             /\ run.pt \subseteq m
             /\ m \ (from .. to - 1) \subseteq run.pt
             /\ run.ok \in BOOLEAN
             /\ run.ok => run.pt = m \ (from .. to - 1)
             /\ from .. to - 1 \subseteq m => run.ok
             /\ run.freed \in Nat
             /\ Cardinality(run.pt) = Cardinality(m) - run.freed
<1> DEFINE stop == Stops(from, to, Pages \ m)
           run == UnmapRun(m, from, to)
<1>1. MMAP_END \in Nat /\ Pages \ m \in SUBSET Nat
  BY LayoutAssumption DEF Pages
<1>2. /\ stop \in from .. to
      /\ (from .. stop - 1) \cap (Pages \ m) = {}
      /\ stop # to => stop \in Pages \ m
  BY <1>1, StopsFacts, SMTT(30)
<1>3. /\ run.ok \in BOOLEAN /\ (run.ok <=> stop = to)
      /\ run.pt = m \ (from .. stop - 1)
      /\ run.freed = Cardinality(from .. stop - 1)
  BY Zenon DEF UnmapRun
<1> HIDE DEF stop, run
<1>4. from .. stop - 1 \subseteq m
  BY <1>1, <1>2 DEF Pages
<1>5. /\ run.pt \in SUBSET Pages
      /\ (from .. stop - 1) \cap run.pt = {}
      /\ run.pt \cup (from .. stop - 1) = m
  BY <1>3, <1>4, Zenon
<1>6. Cardinality(m) = Cardinality(run.pt) + (stop - from)
  BY <1>1, <1>2, <1>5, AddedPages
<1>7. Cardinality(from .. stop - 1) = stop - from
  BY <1>2, IntervalSize
<1>8. Cardinality(run.pt) \in Nat
  BY <1>5, PagesFinite, Zenon
<1>9. run.freed \in Nat /\ Cardinality(run.pt) = Cardinality(m) - run.freed
  BY <1>2, <1>3, <1>6, <1>7, <1>8
<1>10. m \ (from .. to - 1) \subseteq run.pt
  BY <1>2, <1>3
<1>11. from .. to - 1 \subseteq m => run.ok
  BY <1>2, <1>3
<1>12. run.ok \in BOOLEAN /\ (run.ok => run.pt = m \ (from .. to - 1))
  BY <1>3, Zenon
<1> QED
  BY <1>5, <1>9, <1>10, <1>11, <1>12, Zenon DEF run


-----------------------------------------------------------------------------
(* Total is the sum of the sizes, as one change to f shows.                 *)
LEMMA TotalChange ==
  ASSUME NEW f, NEW g, NEW p \in Procs,
         \A q \in Procs : IsFiniteSet(f[q]) /\ IsFiniteSet(g[q]),
         \A q \in Procs : q # p => g[q] = f[q]
  PROVE  /\ Total(f) \in Nat /\ Total(g) \in Nat
         /\ Cardinality(f[p]) \in Nat /\ Cardinality(g[p]) \in Nat
         /\ Total(g) = Total(f) - Cardinality(f[p]) + Cardinality(g[p])
<1> DEFINE Pairs(h) == UNION {{q} \X h[q] : q \in Procs}
           Rest == UNION {{q} \X f[q] : q \in Procs \ {p}}
<1>1. ASSUME NEW h, \A q \in Procs : IsFiniteSet(h[q]),
             \A q \in Procs : q # p => h[q] = f[q]
      PROVE  /\ IsFiniteSet(Rest)
             /\ Cardinality(h[p]) \in Nat
             /\ Cardinality(Rest) \in Nat
             /\ Cardinality(Pairs(h)) = Cardinality(Rest) + Cardinality(h[p])
  <2> DEFINE T == {{q} \X f[q] : q \in Procs \ {p}}
             i == [q \in Procs \ {p} |-> {q} \X f[q]]
  <2>1. IsFiniteSet(Procs \ {p})
    BY LayoutAssumption, FS_RemoveElement, Zenon
  <2>2. i \in Surjection(Procs \ {p}, T)
    BY Zenon DEF Surjection
  <2>3. IsFiniteSet(T)
    BY <2>1, <2>2, FS_Surjection, Zenon
  <2>4. \A S \in T : IsFiniteSet(S)
    <3> SUFFICES ASSUME NEW q \in Procs PROVE IsFiniteSet({q} \X f[q])
      BY Zenon
    <3> QED
      BY FS_Singleton, FS_Product, Zenon
  <2>5. IsFiniteSet(Rest)
    BY <2>3, <2>4, FS_UNION, Zenon
  <2>6. IsFiniteSet({p}) /\ Cardinality({p}) = 1
    BY FS_Singleton, Zenon
  <2>7. IsFiniteSet(h[p]) /\ Cardinality(h[p]) \in Nat
    BY <1>1, FS_CardinalityType, Zenon
  <2>8. /\ IsFiniteSet({p} \X h[p])
        /\ Cardinality({p} \X h[p]) = 1 * Cardinality(h[p])
    BY <2>6, <2>7, FS_Product, Zenon
  <2>9. Rest \cap ({p} \X h[p]) = {}
    OBVIOUS
  <2>10. Pairs(h) = Rest \cup ({p} \X h[p])
    <3>1. \A q \in Procs \ {p} : {q} \X h[q] = {q} \X f[q]
      BY <1>1, Zenon
    <3> QED
      BY <3>1, SMTT(30)
  <2>11. Cardinality(Rest) \in Nat
    BY <2>5, FS_CardinalityType, Zenon
  <2>12. Cardinality(Rest \cup ({p} \X h[p])) =
           Cardinality(Rest) + Cardinality({p} \X h[p])
             - Cardinality(Rest \cap ({p} \X h[p]))
    BY <2>5, <2>8, FS_Union, Zenon
  <2>13. Cardinality(Rest \cap ({p} \X h[p])) = 0
    BY <2>9, FS_EmptySet, Zenon
  <2> HIDE DEF Rest
  <2>14. Cardinality(Pairs(h)) = Cardinality(Rest) + 1 * Cardinality(h[p]) - 0
    BY <2>8, <2>10, <2>12, <2>13, Zenon
  <2> HIDE DEF Pairs
  <2> QED
    BY <2>5, <2>7, <2>11, <2>14
<1>2. \A q \in Procs : q # p => f[q] = f[q]
  BY Zenon
<1>3. /\ Cardinality(f[p]) \in Nat /\ Cardinality(Rest) \in Nat
      /\ Cardinality(Pairs(f)) = Cardinality(Rest) + Cardinality(f[p])
  BY <1>1, <1>2, Zenon
<1>4. /\ Cardinality(g[p]) \in Nat
      /\ Cardinality(Pairs(g)) = Cardinality(Rest) + Cardinality(g[p])
  BY <1>1, Zenon
<1>5. Total(f) = Cardinality(Pairs(f)) /\ Total(g) = Cardinality(Pairs(g))
  BY Zenon DEF Total
<1> HIDE DEF Pairs, Rest
<1> QED
  BY <1>3, <1>4, <1>5

(* Where an element behind the replaced regions came from, and where it goes. *)
LEMMA ShiftIndex ==
  ASSUME NEW i \in Nat, NEW k \in Nat, NEW j \in Nat, NEW n \in Nat, NEW m \in Int,
         i < j
  PROVE  /\ m - (i + k) \in 1 .. n + 1 - j =>
              /\ m - i - k + j - 1 \in j .. n
              /\ m - (i + k) + j - 1 = m - i - k + j - 1
         /\ m \in j .. n =>
              /\ m + i + k + 1 - j \in i + k + 1 .. i + k + (n + 1 - j)
              /\ m + i + k + 1 - j \in 1 .. i + k + (n + 1 - j)
              /\ (m + i + k + 1 - j) - i - k + j - 1 = m
  OBVIOUS

(* Comparisons of the ends of regions.                                      *)
LEMMA Ordered ==
  ASSUME NEW a \in Nat, NEW b \in Nat, NEW d \in Nat
  PROVE  /\ a < b /\ b <= d => a < d
         /\ a <= b /\ b < d => a < d /\ a <= d
  OBVIOUS
LEMMA Apart ==
  ASSUME NEW a \in Nat, NEW b \in Nat, NEW d \in Nat, NEW x \in Nat
  PROVE  /\ a < b /\ b <= d => ~(x < a /\ d <= x)
         /\ d <= b /\ b < a => ~(a <= x /\ x < d)
  OBVIOUS

(* The elements of two lists of regions, one after the other.               *)
LEMMA Joined ==
  ASSUME NEW one \in Seq(Region), NEW two \in Seq(Region)
  PROVE  /\ one \o two \in Seq(Region)
         /\ Len(one \o two) = Len(one) + Len(two)
         /\ \A m \in 1 .. Len(one) + Len(two) : (one \o two)[m] =
              IF m <= Len(one) THEN one[m] ELSE two[m - Len(one)]
  OBVIOUS

(* The elements of a list in which the regions between the i-th and the     *)
(* j-th were replaced by new.                                               *)
LEMMA SpliceElements ==
  ASSUME NEW list \in Seq(Region), NEW new \in Seq(Region),
         NEW i \in 0 .. Len(list), NEW j \in i + 1 .. Len(list) + 1
  PROVE  LET out == Splice(list, i, new, j)
         IN  /\ out \in Seq(Region)
             /\ Len(out) = i + Len(new) + (Len(list) + 1 - j)
             /\ \A m \in 1 .. i : out[m] = list[m]
             /\ \A m \in 1 .. Len(new) : out[i + m] = new[m]
             /\ \A m \in i + Len(new) + 1 .. Len(out) :
                  /\ m - i - Len(new) + j - 1 \in j .. Len(list)
                  /\ out[m] = list[m - i - Len(new) + j - 1]
<1> DEFINE left == SubSeq(list, 1, i)
           right == SubSeq(list, j, Len(list))
           out == Splice(list, i, new, j)
<1>1. /\ left \in Seq(Region) /\ Len(left) = i
      /\ \A m \in 1 .. i : left[m] = list[m]
  OBVIOUS
<1>2. /\ right \in Seq(Region) /\ Len(right) = Len(list) + 1 - j
      /\ \A m \in 1 .. Len(list) + 1 - j : right[m] = list[m + j - 1]
  OBVIOUS
<1>3. out = (left \o new) \o right
  BY Zenon DEF Splice
<1> HIDE DEF left, right, out
<1> DEFINE both == left \o new
<1>4. /\ both \in Seq(Region) /\ Len(both) = Len(left) + Len(new)
      /\ \A m \in 1 .. Len(left) + Len(new) :
           both[m] = IF m <= Len(left) THEN left[m] ELSE new[m - Len(left)]
  BY <1>1, Joined, Zenon
<1> HIDE DEF both
<1>10. out = both \o right
  BY <1>3, Zenon DEF both
<1>12. /\ both \o right \in Seq(Region)
       /\ Len(both \o right) = Len(both) + Len(right)
       /\ \A m \in 1 .. Len(both) + Len(right) : (both \o right)[m] =
            IF m <= Len(both) THEN both[m] ELSE right[m - Len(both)]
  <2>1. both \in Seq(Region) /\ right \in Seq(Region)
    BY <1>2, <1>4, Zenon
  <2> QED
    BY <2>1, Joined, Zenon
<1>5. /\ out \in Seq(Region) /\ Len(out) = Len(both) + Len(right)
      /\ \A m \in 1 .. Len(both) + Len(right) :
           out[m] = IF m <= Len(both) THEN both[m] ELSE right[m - Len(both)]
  BY <1>10, <1>12, Zenon
<1>11. Len(left) = i /\ Len(new) \in Nat /\ Len(both) = i + Len(new)
  BY <1>1, <1>4
<1>6. /\ out \in Seq(Region)
      /\ Len(out) = i + Len(new) + (Len(list) + 1 - j)
  BY <1>1, <1>2, <1>4, <1>5, Zenon
<1>7. ASSUME NEW m \in 1 .. i PROVE out[m] = list[m]
  <2>1. m \in 1 .. Len(both) + Len(right) /\ m <= Len(both)
    BY <1>2, <1>11
  <2>2. m \in 1 .. Len(left) + Len(new) /\ m <= Len(left)
    BY <1>11
  <2> QED
    BY <2>1, <2>2, <1>1, <1>4, <1>5, Zenon
<1>8. ASSUME NEW m \in 1 .. Len(new) PROVE out[i + m] = new[m]
  <2>1. i + m \in 1 .. Len(both) + Len(right) /\ i + m <= Len(both)
    BY <1>2, <1>11
  <2>2. /\ i + m \in 1 .. Len(left) + Len(new) /\ ~(i + m <= Len(left))
        /\ i + m - Len(left) = m
    BY <1>11
  <2> QED
    BY <2>1, <2>2, <1>4, <1>5, SMTT(30)
<1>9. ASSUME NEW m \in i + Len(new) + 1 .. Len(out)
      PROVE  /\ m - i - Len(new) + j - 1 \in j .. Len(list)
             /\ out[m] = list[m - i - Len(new) + j - 1]
  <2>1. m - (i + Len(new)) \in 1 .. Len(list) + 1 - j
    BY <1>6
  <2>2. out[m] = right[m - (i + Len(new))]
    BY <2>1, <1>1, <1>2, <1>4, <1>5, <1>6, SMTT(30)
  <2>3. right[m - (i + Len(new))] = list[m - (i + Len(new)) + j - 1]
    BY <2>1, <1>2, Zenon
  <2>4. /\ i \in Nat /\ j \in Nat /\ i < j /\ m \in Int
        /\ Len(new) \in Nat /\ Len(list) \in Nat
    BY <1>11
  <2>5. /\ m - i - Len(new) + j - 1 \in j .. Len(list)
        /\ m - (i + Len(new)) + j - 1 = m - i - Len(new) + j - 1
    BY <2>1, <2>4, ShiftIndex
  <2> QED
    BY <2>2, <2>3, <2>5, Zenon
<1> QED
  BY <1>6, <1>7, <1>8, <1>9, Zenon DEF out


(* The pages a list covers, page by page.                                   *)
LEMMA CoveredPages ==
  ASSUME NEW list \in Seq(Region), NEW x \in Nat
  PROVE  x \in Covered(list) <=>
           \E i \in 1 .. Len(list) : list[i].b <= x /\ x < list[i].e
<1>1. DOMAIN list = 1 .. Len(list)
  OBVIOUS
<1>2. ASSUME NEW i \in 1 .. Len(list)
      PROVE  x \in list[i].b .. list[i].e - 1 <=> list[i].b <= x /\ x < list[i].e
  <2>1. list[i] \in Region
    OBVIOUS
  <2>2. list[i].b \in Nat /\ list[i].e \in Nat
    BY <2>1, Zenon DEF Region
  <2> QED
    BY <2>2
<1>3. x \in Covered(list) <=>
        \E i \in 1 .. Len(list) : x \in list[i].b .. list[i].e - 1
  BY <1>1, Zenon DEF Covered
<1> QED
  BY <1>2, <1>3, Zenon

(* The bounds of the window and the pages in it are numbers.                *)
LEMMA WindowNumbers ==
  /\ MMAP_BEGIN \in Nat /\ MMAP_END \in Nat /\ MMAP_BEGIN < MMAP_END
  /\ Window \subseteq Nat
  BY LayoutAssumption DEF Window

(* A sorted list covers pages of the window.                                *)
LEMMA CoveredInWindow ==
  ASSUME NEW list \in Seq(Region), Sorted(list)
  PROVE  Covered(list) \subseteq Window
<1> SUFFICES ASSUME NEW i \in DOMAIN list, NEW x \in list[i].b .. list[i].e - 1
             PROVE  x \in Window
  BY Zenon DEF Covered
<1>1. list[i] \in Region
  OBVIOUS
<1>2. /\ list[i].b \in Nat /\ list[i].e \in Nat
      /\ MMAP_BEGIN <= list[i].b /\ list[i].e <= MMAP_END
  BY <1>1, Zenon DEF Region, Sorted
<1> QED
  BY <1>2, LayoutAssumption, SMTT(30) DEF Window

(* Where each region of a spliced list comes from.                          *)
LEMMA SpliceSource ==
  ASSUME NEW list \in Seq(Region), NEW new \in Seq(Region),
         NEW i \in 0 .. Len(list), NEW j \in i + 1 .. Len(list) + 1,
         NEW a \in 1 .. Len(Splice(list, i, new, j))
  PROVE  LET out == Splice(list, i, new, j)
         IN  \/ a <= i /\ out[a] = list[a]
             \/ /\ i < a /\ a - i \in 1 .. Len(new)
                /\ out[a] = new[a - i]
             \/ /\ i + Len(new) < a
                /\ a - i - Len(new) + j - 1 \in j .. Len(list)
                /\ out[a] = list[a - i - Len(new) + j - 1]
<1> DEFINE out == Splice(list, i, new, j)
<1>1. /\ Len(out) = i + Len(new) + (Len(list) + 1 - j)
      /\ \A m \in 1 .. i : out[m] = list[m]
      /\ \A m \in 1 .. Len(new) : out[i + m] = new[m]
      /\ \A m \in i + Len(new) + 1 .. Len(out) :
           /\ m - i - Len(new) + j - 1 \in j .. Len(list)
           /\ out[m] = list[m - i - Len(new) + j - 1]
  BY SpliceElements, ZenonT(40)
<1>2. Len(new) \in Nat /\ Len(list) \in Nat
  OBVIOUS
<1> HIDE DEF out
<1>3. CASE a <= i
  BY <1>1, <1>2, <1>3, SMTT(30) DEF out
<1>4. CASE i < a /\ a <= i + Len(new)
  <2>1. a - i \in 1 .. Len(new) /\ i + (a - i) = a
    BY <1>2, <1>4
  <2>2. out[i + (a - i)] = new[a - i]
    BY <2>1, <1>1, Zenon
  <2> QED
    BY <2>1, <2>2, <1>4, Zenon DEF out
<1>5. CASE i + Len(new) < a
  <2>1. a \in i + Len(new) + 1 .. Len(out)
    BY <1>1, <1>2, <1>5 DEF out
  <2> QED
    BY <2>1, <1>1, <1>5, Zenon DEF out
<1> QED
  BY <1>2, <1>3, <1>4, <1>5

(* A sorted piece put in the place of some regions, with a gap on both      *)
(* sides, leaves the list sorted.                                           *)
LEMMA SpliceSorted ==
  ASSUME NEW list \in Seq(Region), Sorted(list),
         NEW new \in Seq(Region), Sorted(new),
         NEW i \in 0 .. Len(list), NEW j \in i + 1 .. Len(list) + 1,
         \A m \in 1 .. i : \A n \in 1 .. Len(new) : list[m].e < new[n].b,
         \A m \in j .. Len(list) : \A n \in 1 .. Len(new) : new[n].e < list[m].b
  PROVE  Sorted(Splice(list, i, new, j))
<1> DEFINE out == Splice(list, i, new, j)
<1>1. out \in Seq(Region)
  BY SpliceElements, Zenon
<1>2. DOMAIN out = 1 .. Len(out)
  BY <1>1
<1>3. /\ Len(new) \in Nat /\ Len(list) \in Nat
      /\ DOMAIN list = 1 .. Len(list) /\ DOMAIN new = 1 .. Len(new)
  OBVIOUS
<1>4. ASSUME NEW a \in 1 .. Len(out)
      PROVE  \/ a <= i /\ out[a] = list[a]
             \/ /\ i < a /\ a - i \in 1 .. Len(new)
                /\ out[a] = new[a - i]
             \/ /\ i + Len(new) < a
                /\ a - i - Len(new) + j - 1 \in j .. Len(list)
                /\ out[a] = list[a - i - Len(new) + j - 1]
  BY SpliceSource, Zenon
<1> HIDE DEF out
<1>5. ASSUME NEW a \in 1 .. Len(out)
      PROVE  /\ MMAP_BEGIN <= out[a].b
             /\ out[a].b < out[a].e
             /\ out[a].e <= MMAP_END
  <2>1. CASE a <= i /\ out[a] = list[a]
    <3>1. a \in DOMAIN list
      BY <1>3, <2>1
    <3> QED
      BY <3>1, <2>1, Zenon DEF Sorted
  <2>2. CASE i < a /\ a - i \in 1 .. Len(new) /\ out[a] = new[a - i]
    BY <2>2, <1>3, Zenon DEF Sorted
  <2>3. CASE /\ i + Len(new) < a
             /\ a - i - Len(new) + j - 1 \in j .. Len(list)
             /\ out[a] = list[a - i - Len(new) + j - 1]
    <3>1. a - i - Len(new) + j - 1 \in DOMAIN list
      BY <1>3, <2>3
    <3> QED
      BY <3>1, <2>3, Zenon DEF Sorted
  <2> QED
    BY <1>4, <2>1, <2>2, <2>3, Zenon
<1>6. ASSUME NEW a \in 1 .. Len(out), NEW c \in 1 .. Len(out), a < c
      PROVE  out[a].e < out[c].b
  <2>1. CASE a <= i /\ out[a] = list[a]
    <3>1. CASE c <= i /\ out[c] = list[c]
      <4>1. a \in DOMAIN list /\ c \in DOMAIN list
        BY <1>3, <2>1, <3>1
      <4> QED
        BY <4>1, <2>1, <3>1, <1>6, Zenon DEF Sorted
    <3>2. CASE i < c /\ c - i \in 1 .. Len(new) /\ out[c] = new[c - i]
      BY <2>1, <3>2
    <3>3. CASE /\ i + Len(new) < c
               /\ c - i - Len(new) + j - 1 \in j .. Len(list)
               /\ out[c] = list[c - i - Len(new) + j - 1]
      <4>1. /\ a \in DOMAIN list /\ c - i - Len(new) + j - 1 \in DOMAIN list
            /\ a < c - i - Len(new) + j - 1
        BY <1>3, <2>1, <3>3
      <4> QED
        BY <4>1, <2>1, <3>3, Zenon DEF Sorted
    <3> QED
      BY <1>4, <3>1, <3>2, <3>3, Zenon
  <2>2. CASE i < a /\ a - i \in 1 .. Len(new) /\ out[a] = new[a - i]
    <3>1. ~(c <= i)
      BY <1>6, <2>2
    <3>2. CASE i < c /\ c - i \in 1 .. Len(new) /\ out[c] = new[c - i]
      <4>1. a - i < c - i
        BY <1>6, <2>2
      <4> QED
        BY <4>1, <2>2, <3>2, <1>3, Zenon DEF Sorted
    <3>3. CASE /\ i + Len(new) < c
               /\ c - i - Len(new) + j - 1 \in j .. Len(list)
               /\ out[c] = list[c - i - Len(new) + j - 1]
      BY <2>2, <3>3, Zenon
    <3> QED
      BY <1>4, <3>1, <3>2, <3>3, Zenon
  <2>3. CASE /\ i + Len(new) < a
             /\ a - i - Len(new) + j - 1 \in j .. Len(list)
             /\ out[a] = list[a - i - Len(new) + j - 1]
    <3>1. i + Len(new) < c
      BY <1>3, <1>6, <2>3
    <3>2. /\ c - i - Len(new) + j - 1 \in j .. Len(list)
          /\ out[c] = list[c - i - Len(new) + j - 1]
      <4>1. ~(c <= i) /\ c - i \notin 1 .. Len(new)
        BY <1>3, <3>1
      <4> QED
        BY <1>4, <4>1, Zenon
    <3>3. /\ a - i - Len(new) + j - 1 \in DOMAIN list
          /\ c - i - Len(new) + j - 1 \in DOMAIN list
          /\ a - i - Len(new) + j - 1 < c - i - Len(new) + j - 1
      BY <1>3, <1>6, <2>3, <3>2, SMTT(30)
    <3> QED
      BY <2>3, <3>2, <3>3, Zenon DEF Sorted
  <2> QED
    BY <1>4, <2>1, <2>2, <2>3, Zenon
<1> QED
  BY <1>2, <1>5, <1>6, Zenon DEF Sorted, out

(* Page x lies in region r.                                                 *)
Holds(r, x) == r.b <= x /\ x < r.e

(* The pages of a spliced list: those of new, and those of the regions that *)
(* stayed.                                                                  *)
LEMMA SpliceCovered ==
  ASSUME NEW list \in Seq(Region), NEW new \in Seq(Region),
         NEW i \in 0 .. Len(list), NEW j \in i + 1 .. Len(list) + 1,
         NEW x \in Nat
  PROVE  x \in Covered(Splice(list, i, new, j)) <=>
           \/ \E m \in 1 .. i : Holds(list[m], x)
           \/ \E m \in 1 .. Len(new) : Holds(new[m], x)
           \/ \E m \in j .. Len(list) : Holds(list[m], x)
<1> DEFINE out == Splice(list, i, new, j)
<1>1. /\ out \in Seq(Region)
      /\ Len(out) = i + Len(new) + (Len(list) + 1 - j)
      /\ \A m \in 1 .. i : out[m] = list[m]
      /\ \A m \in 1 .. Len(new) : out[i + m] = new[m]
      /\ \A m \in i + Len(new) + 1 .. Len(out) :
           /\ m - i - Len(new) + j - 1 \in j .. Len(list)
           /\ out[m] = list[m - i - Len(new) + j - 1]
  BY SpliceElements, Zenon
<1>2. Len(new) \in Nat /\ Len(list) \in Nat
  OBVIOUS
<1>3. x \in Covered(out) <=> \E a \in 1 .. Len(out) : Holds(out[a], x)
  BY <1>1, CoveredPages, Zenon DEF Holds
<1>4. ASSUME NEW a \in 1 .. Len(out), Holds(out[a], x)
      PROVE  \/ \E m \in 1 .. i : Holds(list[m], x)
             \/ \E m \in 1 .. Len(new) : Holds(new[m], x)
             \/ \E m \in j .. Len(list) : Holds(list[m], x)
  <2>1. \/ a <= i /\ out[a] = list[a]
        \/ /\ i < a /\ a - i \in 1 .. Len(new)
           /\ out[a] = new[a - i]
        \/ /\ i + Len(new) < a
           /\ a - i - Len(new) + j - 1 \in j .. Len(list)
           /\ out[a] = list[a - i - Len(new) + j - 1]
    BY SpliceSource, Zenon
  <2>2. a <= i => a \in 1 .. i
    OBVIOUS
  <2> QED
    BY <1>4, <2>1, <2>2, Zenon
<1> HIDE DEF out
<1>5. ASSUME NEW m \in 1 .. i, Holds(list[m], x)
      PROVE  \E a \in 1 .. Len(out) : Holds(out[a], x)
  <2>1. m \in 1 .. Len(out)
    BY <1>1, <1>2
  <2> QED
    BY <1>1, <1>5, <2>1, Zenon
<1>6. ASSUME NEW m \in 1 .. Len(new), Holds(new[m], x)
      PROVE  \E a \in 1 .. Len(out) : Holds(out[a], x)
  <2>1. i + m \in 1 .. Len(out)
    BY <1>1, <1>2
  <2> QED
    BY <1>1, <1>6, <2>1, Zenon
<1>7. ASSUME NEW m \in j .. Len(list), Holds(list[m], x)
      PROVE  \E a \in 1 .. Len(out) : Holds(out[a], x)
  <2> DEFINE a == m + i + Len(new) + 1 - j
  <2>0. i \in Nat /\ j \in Nat /\ i < j /\ m \in Int
    BY <1>2
  <2>1. /\ a \in i + Len(new) + 1 .. Len(out) /\ a \in 1 .. Len(out)
        /\ a - i - Len(new) + j - 1 = m
    <3>1. Len(out) = i + Len(new) + (Len(list) + 1 - j)
      BY <1>1, Zenon
    <3> QED
      BY <3>1, <2>0, <1>2, ShiftIndex
  <2> HIDE DEF a
  <2>2. out[a] = list[a - i - Len(new) + j - 1]
    BY <1>1, <2>1, Zenon
  <2>3. out[a] = list[m]
    BY <2>1, <2>2, Zenon
  <2> QED
    BY <1>7, <2>1, <2>3, Zenon
<1> QED
  BY <1>3, <1>4, <1>5, <1>6, <1>7, Zenon DEF out


(* A region of a sorted list, and its place among the others.               *)
LEMMA InSorted ==
  ASSUME NEW list \in Seq(Region), Sorted(list), NEW m \in 1 .. Len(list)
  PROVE  /\ list[m] \in Region /\ list[m].b \in Nat /\ list[m].e \in Nat
         /\ MMAP_BEGIN <= list[m].b /\ list[m].b < list[m].e
         /\ list[m].e <= MMAP_END
         /\ \A n \in 1 .. Len(list) : m < n => list[m].e < list[n].b
         /\ \A n \in 1 .. Len(list) : n < m => list[n].e < list[m].b
<1>1. DOMAIN list = 1 .. Len(list) /\ list[m] \in Region
  OBVIOUS
<1>2. list[m].b \in Nat /\ list[m].e \in Nat
  BY <1>1, Zenon DEF Region
<1> QED
  BY <1>1, <1>2, Zenon DEF Sorted

(* mmap's placement (uvm.rs:290-353): the list stays sorted and maximal, it *)
(* covers the new pages besides the old ones, and the nodes it takes and    *)
(* returns are the change of its length.                                    *)
LEMMA PlaceFacts ==
  ASSUME NEW list \in Seq(Region), Sorted(list), NEW k \in 0 .. Len(list),
         NEW b \in Nat, NEW e \in Nat, b < e, MMAP_BEGIN <= b, e <= MMAP_END,
         Before(list, k, b), ~Overlaps(list, k, b, e)
  PROVE  LET put == Place(list, k, b, e)
         IN  /\ put.list \in Seq(Region)
             /\ Sorted(put.list)
             /\ Covered(put.list) = Covered(list) \cup (b .. e - 1)
             /\ Len(put.list) = Len(list) + put.need - put.spare
             /\ put.need \in {0, 1} /\ put.spare \in {0, 1}
<1> DEFINE jp == k > 0 /\ list[k].e = b
           jn == k < Len(list) /\ e = list[k + 1].b
           nb == IF jp THEN list[k].b ELSE b
           ne == IF jn THEN list[k + 1].e ELSE e
           r == [b |-> nb, e |-> ne]
           new == <<r>>
           i == IF jp THEN k - 1 ELSE k
           j == IF jn THEN k + 2 ELSE k + 1
           out == Splice(list, i, new, j)
           put == Place(list, k, b, e)
<1>1. /\ put.list = out
      /\ put.need = IF jp \/ jn THEN 0 ELSE 1
      /\ put.spare = IF jp /\ jn THEN 1 ELSE 0
  BY Zenon DEF Place
<1>2. Len(list) \in Nat /\ k \in Nat
  OBVIOUS
<1>3. k > 0 => /\ k \in 1 .. Len(list)
               /\ list[k].b \in Nat /\ list[k].e \in Nat
               /\ MMAP_BEGIN <= list[k].b /\ list[k].b < list[k].e
               /\ list[k].e <= b
               /\ \A m \in 1 .. Len(list) : m < k => list[m].e < list[k].b
  <2>1. k > 0 => ~(b < list[k].e)
    BY Zenon DEF Overlaps
  <2>2. k > 0 => k \in 1 .. Len(list)
    BY <1>2
  <2> QED
    BY <2>1, <2>2, InSorted
<1>4. k < Len(list) =>
        /\ k + 1 \in 1 .. Len(list)
        /\ list[k + 1].b \in Nat /\ list[k + 1].e \in Nat
        /\ list[k + 1].b < list[k + 1].e /\ list[k + 1].e <= MMAP_END
        /\ e <= list[k + 1].b
        /\ \A m \in 1 .. Len(list) : k + 1 < m => list[k + 1].e < list[m].b
  <2>1. k < Len(list) => ~(e > list[k + 1].b)
    BY Zenon DEF Overlaps
  <2>2. k < Len(list) => k + 1 \in 1 .. Len(list)
    BY <1>2
  <2> QED
    BY <2>1, <2>2, InSorted
<1>5. i \in 0 .. Len(list) /\ j \in i + 1 .. Len(list) + 1
  BY <1>2, SMTT(30)
<1>6. /\ nb \in Nat /\ ne \in Nat /\ nb <= b /\ e <= ne
      /\ MMAP_BEGIN <= nb /\ ne <= MMAP_END
  BY <1>3, <1>4, LayoutAssumption, SMTT(30)
<1>7. /\ r \in Region /\ r.b = nb /\ r.e = ne
      /\ new \in Seq(Region) /\ Len(new) = 1 /\ new[1] = r
      /\ DOMAIN new = {1}
  BY <1>6 DEF Region
<1>8. Sorted(new)
  <2>1. nb < ne
    BY <1>6
  <2>2. \A m, n \in DOMAIN new : m = 1 /\ ~(m < n)
    BY <1>7
  <2> QED
    BY <1>6, <1>7, <2>1, <2>2, ZenonT(40) DEF Sorted
<1>9. ASSUME NEW m \in 1 .. i PROVE list[m].e < nb
  <2>1. CASE jp
    BY <2>1, <1>2, <1>3, SMTT(30)
  <2>2. CASE ~jp
    <3>1. k > 0 /\ list[k].e < b
      BY <2>2, <1>2, <1>3
    <3>2. CASE m = k
      BY <3>1, <3>2, <2>2, Zenon
    <3>3. CASE m < k
      <4>1. list[m].e < list[k].b /\ m \in 1 .. Len(list)
        BY <3>3, <3>1, <1>2, <1>3
      <4>2. list[m].e \in Nat
        BY <4>1, InSorted, Zenon
      <4> QED
        BY <4>1, <4>2, <3>1, <1>3, <2>2, SMTT(30)
    <3> QED
      BY <3>2, <3>3, <2>2, <1>2
  <2> QED
    BY <2>1, <2>2, Zenon
<1>10. ASSUME NEW m \in j .. Len(list) PROVE ne < list[m].b
  <2>1. CASE jn
    BY <2>1, <1>2, <1>4
  <2>2. CASE ~jn
    <3>1. k < Len(list) /\ e < list[k + 1].b
      BY <2>2, <1>2, <1>4
    <3>2. CASE m = k + 1
      BY <3>1, <3>2, <2>2, Zenon
    <3>3. CASE m > k + 1
      <4>1. list[k + 1].e < list[m].b /\ m \in 1 .. Len(list)
        BY <3>3, <3>1, <1>2, <1>4
      <4>2. list[m].b \in Nat
        BY <4>1, InSorted, Zenon
      <4> QED
        BY <4>1, <4>2, <3>1, <1>4, <2>2, SMTT(30)
    <3> QED
      BY <3>2, <3>3, <2>2, <1>2
  <2> QED
    BY <2>1, <2>2, Zenon
<1>11. ASSUME NEW x \in Nat
       PROVE  Holds(r, x) <=> \/ jp /\ Holds(list[k], x)
                              \/ b <= x /\ x < e
                              \/ jn /\ Holds(list[k + 1], x)
  BY <1>3, <1>4, <1>7, SMTT(30) DEF Holds
<1>12. /\ \A m \in 1 .. Len(list) : \/ m \in 1 .. i \/ m \in j .. Len(list)
                                    \/ (jp /\ m = k) \/ (jn /\ m = k + 1)
       /\ 1 .. i \subseteq 1 .. Len(list) /\ j .. Len(list) \subseteq 1 .. Len(list)
  <2>1. CASE jp /\ jn
    BY <2>1, <1>2
  <2>2. CASE jp /\ ~jn
    BY <2>2, <1>2
  <2>3. CASE ~jp /\ jn
    BY <2>3, <1>2
  <2>4. CASE ~jp /\ ~jn
    BY <2>4, <1>2
  <2> QED
    BY <2>1, <2>2, <2>3, <2>4, Zenon
<1>13. jp => k \in 1 .. Len(list)
  BY <1>2
<1>14. jn => k + 1 \in 1 .. Len(list)
  BY <1>2
<1> HIDE DEF jp, jn, nb, ne, r, i, j
<1>15. /\ out \in Seq(Region)
       /\ Len(out) = i + Len(new) + (Len(list) + 1 - j)
  BY <1>5, <1>7, SpliceElements, Zenon
<1>16. Sorted(out)
  <2>1. \A m \in 1 .. i : \A n \in 1 .. Len(new) : list[m].e < new[n].b
    BY <1>7, <1>9
  <2>2. \A m \in j .. Len(list) : \A n \in 1 .. Len(new) : new[n].e < list[m].b
    BY <1>7, <1>10
  <2> QED
    BY <2>1, <2>2, <1>5, <1>7, <1>8, SpliceSorted, Zenon
<1>17. Covered(out) = Covered(list) \cup (b .. e - 1)
  <2>1. ASSUME NEW x \in Nat
        PROVE  x \in Covered(out) <=> x \in Covered(list) \/ x \in b .. e - 1
    <3>1. x \in Covered(out) <=> \/ \E m \in 1 .. i : Holds(list[m], x)
                                 \/ \E m \in 1 .. Len(new) : Holds(new[m], x)
                                 \/ \E m \in j .. Len(list) : Holds(list[m], x)
      BY <1>5, <1>7, SpliceCovered, Zenon
    <3>2. x \in Covered(list) <=> \E m \in 1 .. Len(list) : Holds(list[m], x)
      BY CoveredPages, Zenon DEF Holds
    <3>3. (\E m \in 1 .. Len(new) : Holds(new[m], x)) <=> Holds(r, x)
      BY <1>7
    <3>4. x \in b .. e - 1 <=> b <= x /\ x < e
      OBVIOUS
    <3> QED
      BY <3>1, <3>2, <3>3, <3>4, <1>11, <1>12, <1>13, <1>14, Zenon
  <2>2. Covered(out) \subseteq Nat /\ Covered(list) \subseteq Nat
    BY <1>15, <1>16, CoveredInWindow, WindowNumbers, Zenon
  <2>3. b .. e - 1 \subseteq Nat
    OBVIOUS
  <2> QED
    BY <2>1, <2>2, <2>3, Zenon
<1>18. Len(out) = Len(list) + put.need - put.spare
  BY <1>1, <1>2, <1>7, <1>15 DEF i, j
<1>19. put.need \in {0, 1} /\ put.spare \in {0, 1}
  BY <1>1, Zenon
<1> QED
  BY <1>1, <1>15, <1>16, <1>17, <1>18, <1>19, Zenon

(* One turn of munmap's loop (uvm.rs:384-441), at a region that reaches     *)
(* into [s, e): what it cuts out is not empty, the list stays sorted and    *)
(* loses just those pages.                                                  *)
CutLeaves(list, at, s, e) ==
  LET r == list[at]
      c == Clip(r, s, e)
      kept == Keep(r, c)
      out == Splice(list, at - 1, kept, at + 1)
  IN  /\ c.b \in Nat /\ c.e \in Nat /\ c.b < c.e
      /\ c.b = IF s >= r.b THEN s ELSE r.b
      /\ c.e = IF e <= r.e THEN e ELSE r.e
      /\ kept \in Seq(Region) /\ Len(kept) \in {0, 1, 2}
      /\ kept = <<>> <=> Len(kept) = 0
      /\ c.e < e => \A m \in 1 .. Len(kept) : kept[m].e <= c.e
      /\ out \in Seq(Region) /\ Sorted(out)
      /\ Covered(out) = Covered(list) \ (c.b .. c.e - 1)

(* The turn does leave that.                                                *)
LEMMA CutFacts ==
  ASSUME NEW list \in Seq(Region), Sorted(list), NEW at \in 1 .. Len(list),
         NEW s \in Nat, NEW e \in Nat, s < e, list[at].e > s, list[at].b < e
  PROVE  CutLeaves(list, at, s, e)
<1> DEFINE r == list[at]
           c == Clip(r, s, e)
           kept == Keep(r, c)
           out == Splice(list, at - 1, kept, at + 1)
           left == [b |-> r.b, e |-> c.b]
           right == [b |-> c.e, e |-> r.e]
<1>1. /\ r \in Region /\ r.b \in Nat /\ r.e \in Nat
      /\ MMAP_BEGIN <= r.b /\ r.b < r.e /\ r.e <= MMAP_END
      /\ \A n \in 1 .. Len(list) : at < n => r.e < list[n].b
      /\ \A n \in 1 .. Len(list) : n < at => list[n].e < r.b
  BY InSorted, Zenon
<1>2. /\ c.b = IF s >= r.b THEN s ELSE r.b
      /\ c.e = IF e <= r.e THEN e ELSE r.e
  BY <1>1, Larger, Smaller, Zenon DEF Clip
<1>3. c = r <=> c.b = r.b /\ c.e = r.e
  BY <1>1, Zenon DEF Clip, Region
<1>4. \/ c.e <= c.b /\ kept = <<r>>
      \/ c.b > c.e - 1 
      \/ c.b = r.b /\ c.e = r.e /\ kept = <<>>
      \/ c.b = r.b /\ c.e # r.e /\ kept = <<right>>
      \/ c.b # r.b /\ c.e = r.e /\ kept = <<left>>
      \/ c.b # r.b /\ c.e # r.e /\ kept = <<left, right>>
  BY <1>3, Zenon DEF Keep
<1>5. /\ c.b \in Nat /\ c.e \in Nat /\ c.b < c.e
      /\ r.b <= c.b /\ c.e <= r.e
  BY <1>1, <1>2
<1>a. /\ r.b \in Nat /\ r.e \in Nat /\ c.b \in Nat /\ c.e \in Nat
      /\ r.b <= c.b /\ c.e <= r.e
  BY <1>1, <1>5, Zenon
<1>6. \/ c.b = r.b /\ c.e = r.e /\ kept = <<>>
      \/ c.b = r.b /\ c.e # r.e /\ kept = <<right>>
      \/ c.b # r.b /\ c.e = r.e /\ kept = <<left>>
      \/ c.b # r.b /\ c.e # r.e /\ kept = <<left, right>>
  <2>1. ~(c.e <= c.b) /\ ~(c.b > c.e - 1)
    BY <1>5
  <2> QED
    BY <1>4, <2>1, Zenon
<1> HIDE DEF r, c, kept
<1>7. /\ left \in Region /\ left.b = r.b /\ left.e = c.b
      /\ right \in Region /\ right.b = c.e /\ right.e = r.e
  BY <1>1, <1>5, Zenon DEF Region
<1> HIDE DEF left, right
<1>8. /\ kept \in Seq(Region)
      /\ \/ c.b = r.b /\ c.e = r.e /\ Len(kept) = 0 /\ kept = <<>>
         \/ /\ c.b = r.b /\ c.e # r.e /\ Len(kept) = 1
            /\ kept[1] = right
         \/ /\ c.b # r.b /\ c.e = r.e /\ Len(kept) = 1
            /\ kept[1] = left
         \/ /\ c.b # r.b /\ c.e # r.e /\ Len(kept) = 2
            /\ kept[1] = left /\ kept[2] = right
  <2>1. CASE c.b = r.b /\ c.e = r.e /\ kept = <<>>
    BY <2>1
  <2>2. CASE c.b = r.b /\ c.e # r.e /\ kept = <<right>>
    <3>1. kept \in Seq(Region) /\ Len(kept) = 1 /\ kept[1] = right
      BY <2>2, <1>7
    <3> QED
      BY <2>2, <3>1, Zenon
  <2>3. CASE c.b # r.b /\ c.e = r.e /\ kept = <<left>>
    <3>1. kept \in Seq(Region) /\ Len(kept) = 1 /\ kept[1] = left
      BY <2>3, <1>7
    <3> QED
      BY <2>3, <3>1, Zenon
  <2>4. CASE c.b # r.b /\ c.e # r.e /\ kept = <<left, right>>
    <3>1. kept \in Seq(Region) /\ Len(kept) = 2 /\ kept[1] = left /\ kept[2] = right
      BY <2>4, <1>7
    <3> QED
      BY <2>4, <3>1, Zenon
  <2> QED
    BY <1>6, <2>1, <2>2, <2>3, <2>4, Zenon
<1>18. Len(kept) \in {0, 1, 2}
  BY <1>8, Zenon
<1>19. kept = <<>> <=> Len(kept) = 0
  BY <1>8
<1>9. ASSUME NEW m \in 1 .. Len(kept)
      PROVE  /\ kept[m].b \in Nat /\ kept[m].e \in Nat
             /\ r.b <= kept[m].b /\ kept[m].b < kept[m].e /\ kept[m].e <= r.e
             /\ c.e < e => kept[m].e <= c.e
  <2>1. m = 1 \/ m = 2
    <3>1. CASE Len(kept) = 0
      BY <3>1
    <3>2. CASE Len(kept) = 1
      BY <3>2
    <3>3. CASE Len(kept) = 2
      BY <3>3
    <3> QED
      BY <1>18, <3>1, <3>2, <3>3, Zenon
  <2>2. CASE kept[m] = left /\ c.b # r.b
    BY <2>2, <1>1, <1>2, <1>5, <1>7, SMTT(30)
  <2>3. CASE kept[m] = right /\ c.e # r.e
    BY <2>3, <1>1, <1>2, <1>5, <1>7, SMTT(30)
  <2> QED
    BY <2>1, <2>2, <2>3, <1>8
<1>10. ASSUME NEW m \in 1 .. Len(kept), NEW n \in 1 .. Len(kept), m < n
       PROVE  kept[m].e < kept[n].b
  BY <1>5, <1>8, <1>7, <1>10, SMTT(30)
<1>11. DOMAIN kept = 1 .. Len(kept)
  BY <1>8
<1>12. Sorted(kept)
  <2>1. ASSUME NEW m \in 1 .. Len(kept)
        PROVE  /\ MMAP_BEGIN <= kept[m].b /\ kept[m].b < kept[m].e
               /\ kept[m].e <= MMAP_END
    BY <1>1, <1>9, LayoutAssumption, SMTT(30)
  <2> QED
    BY <2>1, <1>10, <1>11, Zenon DEF Sorted
<1>13. ASSUME NEW x \in Nat
       PROVE  (\E m \in 1 .. Len(kept) : Holds(kept[m], x)) <=>
                Holds(r, x) /\ ~(c.b <= x /\ x < c.e)
  <2>1. (\E m \in 1 .. Len(kept) : Holds(kept[m], x)) <=>
          \/ Len(kept) \in {1, 2} /\ Holds(kept[1], x)
          \/ Len(kept) = 2 /\ Holds(kept[2], x)
    <3>1. CASE Len(kept) = 0
      BY <3>1
    <3>2. CASE Len(kept) = 1
      BY <3>2
    <3>3. CASE Len(kept) = 2
      BY <3>3
    <3> QED
      BY <1>18, <3>1, <3>2, <3>3, Zenon
  <2>2. Holds(left, x) <=> r.b <= x /\ x < c.b
    BY <1>7, Zenon DEF Holds
  <2>3. Holds(right, x) <=> c.e <= x /\ x < r.e
    BY <1>7, Zenon DEF Holds
  <2>4. Holds(r, x) <=> r.b <= x /\ x < r.e
    BY Zenon DEF Holds
  <2> QED
    BY <2>1, <2>2, <2>3, <2>4, <1>1, <1>5, <1>8, SMTT(30)
<1>14. at - 1 \in 0 .. Len(list) /\ at + 1 \in (at - 1) + 1 .. Len(list) + 1
  OBVIOUS
<1>15. out \in Seq(Region)
  BY <1>8, <1>14, SpliceElements, Zenon
<1>16. Sorted(out)
  <2>1. ASSUME NEW m \in 1 .. at - 1, NEW n \in 1 .. Len(kept)
        PROVE  list[m].e < kept[n].b
    <3>1. m \in 1 .. Len(list) /\ m < at
      OBVIOUS
    <3>2. list[m].e \in Nat /\ list[m].e < r.b
      BY <3>1, <1>1, InSorted, Zenon
    <3>3. kept[n].b \in Nat /\ r.b <= kept[n].b
      BY <1>9, Zenon
    <3> QED
      BY <3>2, <3>3, <1>a, Ordered, Zenon
  <2>2. ASSUME NEW m \in at + 1 .. Len(list), NEW n \in 1 .. Len(kept)
        PROVE  kept[n].e < list[m].b
    <3>1. m \in 1 .. Len(list) /\ at < m
      OBVIOUS
    <3>2. list[m].b \in Nat /\ r.e < list[m].b
      BY <3>1, <1>1, InSorted, Zenon
    <3>3. kept[n].e \in Nat /\ kept[n].e <= r.e
      BY <1>9, Zenon
    <3> QED
      BY <3>2, <3>3, <1>a, Ordered, Zenon
  <2> QED
    BY <2>1, <2>2, <1>8, <1>12, <1>14, SpliceSorted, Zenon
<1>17. Covered(out) = Covered(list) \ (c.b .. c.e - 1)
  <2>1. ASSUME NEW x \in Nat
        PROVE  x \in Covered(out) <=> x \in Covered(list) /\ x \notin c.b .. c.e - 1
    <3>1. x \in Covered(out) <=>
            \/ \E m \in 1 .. at - 1 : Holds(list[m], x)
            \/ \E m \in 1 .. Len(kept) : Holds(kept[m], x)
            \/ \E m \in at + 1 .. Len(list) : Holds(list[m], x)
      BY <1>8, <1>14, SpliceCovered, Zenon
    <3>2. x \in Covered(list) <=> \E m \in 1 .. Len(list) : Holds(list[m], x)
      BY CoveredPages, Zenon DEF Holds
    <3>3. x \in c.b .. c.e - 1 <=> c.b <= x /\ x < c.e
      BY <1>5
    <3>4. /\ \A m \in 1 .. Len(list) :
               m \in 1 .. at - 1 \/ m = at \/ m \in at + 1 .. Len(list)
          /\ 1 .. at - 1 \subseteq 1 .. Len(list)
          /\ at + 1 .. Len(list) \subseteq 1 .. Len(list)
      OBVIOUS
    <3>5. ASSUME NEW m \in 1 .. at - 1, Holds(list[m], x)
          PROVE  ~(c.b <= x /\ x < c.e)
      <4>1. m \in 1 .. Len(list) /\ m < at
        OBVIOUS
      <4>2. list[m].e \in Nat /\ list[m].e < r.b
        BY <4>1, <1>1, InSorted, Zenon
      <4> QED
        BY <4>2, <3>5, <1>a, Apart, Zenon DEF Holds
    <3>6. ASSUME NEW m \in at + 1 .. Len(list), Holds(list[m], x)
          PROVE  ~(c.b <= x /\ x < c.e)
      <4>1. m \in 1 .. Len(list) /\ at < m
        OBVIOUS
      <4>2. list[m].b \in Nat /\ r.e < list[m].b
        BY <4>1, <1>1, InSorted, Zenon
      <4> QED
        BY <4>2, <3>6, <1>a, Apart, Zenon DEF Holds
    <3> QED
      BY <3>1, <3>2, <3>3, <3>4, <3>5, <3>6, <1>13, Zenon DEF r
  <2>2. Covered(out) \subseteq Nat /\ Covered(list) \subseteq Nat
    BY <1>15, <1>16, CoveredInWindow, WindowNumbers, Zenon
  <2> QED
    BY <2>1, <2>2, Zenon
<1> QED
  BY <1>2, <1>5, <1>8, <1>18, <1>19, <1>9, <1>15, <1>16, <1>17,
     Zenon DEF CutLeaves, r, c, kept


-----------------------------------------------------------------------------
(* The search of mmap(0, n) (uvm.rs:241-264): the cursor never passes a gap *)
(* of n pages, a place it finds is such a gap, and past the last region it  *)
(* fails only when there is none.                                           *)
LEMMA FitFacts ==
  ASSUME NEW list \in Seq(Region), Sorted(list), NEW at \in 1 .. Len(list) + 1,
         NEW n \in Nat \ {0}, NEW cursor, cursor = EndBefore(list, at),
         \A i \in 1 .. at - 1 : list[i].b < EndBefore(list, i) + n
  PROVE  /\ cursor \in Nat /\ MMAP_BEGIN <= cursor
         /\ at <= Len(list) => cursor <= list[at].b
         /\ \A x \in Gaps(list, n) : cursor <= x
         /\ Found(list, at, cursor, n) => cursor \in Gaps(list, n)
         /\ at > Len(list) /\ ~Found(list, at, cursor, n) => Gaps(list, n) = {}
<1>1. ASSUME NEW i \in 1 .. Len(list) + 1
      PROVE  /\ EndBefore(list, i) \in Nat /\ MMAP_BEGIN <= EndBefore(list, i)
             /\ EndBefore(list, i) <= MMAP_END
             /\ i > 1 => /\ i - 1 \in 1 .. Len(list)
                         /\ EndBefore(list, i) = list[i - 1].e
             /\ i <= Len(list) => EndBefore(list, i) <= list[i].b
  <2>1. CASE i = 1
    <3>1. i <= Len(list) => MMAP_BEGIN <= list[i].b
      BY <2>1, InSorted
    <3> QED
      BY <2>1, <3>1, LayoutAssumption DEF EndBefore
  <2>2. CASE i > 1
    <3>1. i - 1 \in 1 .. Len(list) /\ EndBefore(list, i) = list[i - 1].e
      BY <2>2 DEF EndBefore
    <3>2. /\ list[i - 1].b \in Nat /\ list[i - 1].e \in Nat
          /\ MMAP_BEGIN <= list[i - 1].b
          /\ list[i - 1].b < list[i - 1].e /\ list[i - 1].e <= MMAP_END
          /\ \A m \in 1 .. Len(list) : i - 1 < m => list[i - 1].e < list[m].b
      BY <3>1, InSorted, Zenon
    <3>3. i <= Len(list) => list[i].b \in Nat /\ list[i - 1].e < list[i].b
      <4>1. i <= Len(list) => i \in 1 .. Len(list) /\ i - 1 < i
        OBVIOUS
      <4> QED
        BY <4>1, <3>2, InSorted, Zenon
    <3>4. MMAP_BEGIN <= list[i - 1].e
      BY <3>2, WindowNumbers, Ordered, Zenon
    <3>5. i <= Len(list) => list[i - 1].e <= list[i].b
      BY <3>2, <3>3, SMTT(30)
    <3> QED
      BY <3>1, <3>2, <3>4, <3>5, Zenon
  <2> QED
    BY <2>1, <2>2
<1>2. ASSUME NEW x \in Gaps(list, n) PROVE cursor <= x
  <2> DEFINE S == {i \in 1 .. at : x < EndBefore(list, i)}
  <2>1. /\ x \in Nat /\ MMAP_BEGIN <= x
        /\ (x .. x + n - 1) \cap Covered(list) = {}
    BY LayoutAssumption DEF Gaps, Window
  <2>2. ASSUME NEW i \in S, \A m \in S : i <= m PROVE FALSE
    <3>1. i \in 1 .. Len(list) + 1 /\ x < EndBefore(list, i)
      OBVIOUS
    <3>2. i # 1
      BY <2>1, <3>1, LayoutAssumption, SMTT(30) DEF EndBefore
    <3>3. i - 1 \in 1 .. at /\ i - 1 \in 1 .. at - 1 /\ i - 1 \notin S
      BY <2>2, <3>1, <3>2
    <3>4. /\ i - 1 \in 1 .. Len(list)
          /\ EndBefore(list, i) = list[i - 1].e
          /\ EndBefore(list, i - 1) \in Nat
      BY <1>1, <3>1, <3>2, <3>3
    <3>5. ~(x < EndBefore(list, i - 1))
      BY <3>3, Zenon
    <3>6. /\ list[i - 1].b \in Nat /\ list[i - 1].e \in Nat
          /\ list[i - 1].b < list[i - 1].e
      BY <3>4, InSorted, Zenon
    <3>7. list[i - 1].b < EndBefore(list, i - 1) + n
      BY <3>3, Zenon
    <3>8. list[i - 1].b < x + n /\ x < list[i - 1].e
      BY <2>1, <3>1, <3>4, <3>5, <3>6, <3>7, SMTT(30)
    <3>9. CASE list[i - 1].b <= x
      <4>1. x \in Covered(list)
        BY <2>1, <3>4, <3>8, <3>9, CoveredPages, Zenon
      <4>2. x \in x .. x + n - 1
        BY <2>1
      <4> QED
        BY <4>1, <4>2, <2>1, Zenon
    <3>10. CASE x < list[i - 1].b
      <4>1. list[i - 1].b <= list[i - 1].b
        BY <3>6
      <4>2. list[i - 1].b \in Covered(list)
        BY <4>1, <3>4, <3>6, CoveredPages, Zenon
      <4>3. list[i - 1].b \in x .. x + n - 1
        BY <2>1, <3>6, <3>8, <3>10
      <4> QED
        BY <4>2, <4>3, <2>1, Zenon
    <3> QED
      BY <2>1, <3>6, <3>9, <3>10, SMTT(30)
  <2>3. S = {}
    <3>1. S \in SUBSET Nat
      OBVIOUS
    <3> HIDE DEF S
    <3> QED
      BY <2>2, <3>1, Least, Zenon
  <2>4. at \in 1 .. at
    OBVIOUS
  <2>5. ~(x < EndBefore(list, at))
    BY <2>3, <2>4, Zenon
  <2> QED
    BY <1>1, <2>1, <2>5
<1>3. /\ cursor \in Nat /\ MMAP_BEGIN <= cursor /\ cursor <= MMAP_END
      /\ at <= Len(list) => cursor <= list[at].b
  BY <1>1, Zenon
<1>4. ASSUME Found(list, at, cursor, n) PROVE cursor \in Gaps(list, n)
  <2>1. cursor + n <= MMAP_END
    <3>1. CASE at <= Len(list)
      <4>1. at \in 1 .. Len(list)
        BY <3>1
      <4>2. /\ list[at].b \in Nat /\ list[at].e \in Nat
            /\ list[at].b < list[at].e /\ list[at].e <= MMAP_END
        BY <4>1, InSorted, Zenon
      <4> QED
        BY <4>2, <3>1, <1>3, <1>4, LayoutAssumption, SMTT(30) DEF Found, Fits
    <3>2. CASE ~(at <= Len(list))
      BY <3>2, <1>3, <1>4, LayoutAssumption, Zenon DEF Found, Fits
    <3> QED
      BY <3>1, <3>2, Zenon
  <2>2. ASSUME NEW x \in cursor .. cursor + n - 1, NEW m \in 1 .. Len(list),
               list[m].b <= x, x < list[m].e
        PROVE  FALSE
    <3>1. /\ list[m].b \in Nat /\ list[m].e \in Nat
          /\ list[m].b < list[m].e
      BY InSorted, Zenon
    <3>4. x \in Nat /\ cursor <= x /\ x < cursor + n
      BY <1>3
    <3>2. CASE m < at
      <4>0. at > 1
        BY <3>2
      <4>1. at > 1 /\ at - 1 \in 1 .. Len(list) /\ cursor = list[at - 1].e
        BY <4>0, <1>1, Zenon
      <4>2. CASE m = at - 1
        BY <4>1, <4>2, <2>2, <1>3, <3>1, <3>4, SMTT(30)
      <4>3. CASE m < at - 1
        <5>1. /\ list[at - 1].b \in Nat /\ list[at - 1].b < list[at - 1].e
              /\ list[m].e < list[at - 1].b
          BY <4>1, <4>3, InSorted, Zenon
        <5> QED
          <6>1. x < list[at - 1].b
            BY <5>1, <2>2, <3>1, <3>4, SMTT(30)
          <6>2. list[at - 1].e <= x /\ list[at - 1].e \in Nat
            BY <4>1, <1>3, <3>4, Zenon
          <6> QED
            BY <5>1, <6>1, <6>2, <3>4, SMTT(30)
      <4> QED
        BY <4>2, <4>3, <3>2
    <3>3. CASE at <= m
      <4>1. at \in 1 .. Len(list) /\ at <= Len(list)
        BY <3>3
      <4>2. /\ list[at].b \in Nat /\ list[at].e \in Nat
            /\ list[at].b < list[at].e
            /\ \A q \in 1 .. Len(list) : at < q => list[at].e < list[q].b
        BY <4>1, InSorted, Zenon
      <4>3. list[at].b >= cursor + n
        BY <4>1, <1>4, Zenon DEF Found, Fits
      <4>4. list[at].b <= list[m].b
        <5>1. CASE at = m
          BY <5>1, <3>1
        <5>2. CASE at < m
          <6>1. list[at].e < list[m].b
            BY <5>2, <4>2, Zenon
          <6> QED
            BY <6>1, <4>2, <3>1, SMTT(30)
        <5> QED
          BY <5>1, <5>2, <3>3
      <4> QED
        <5>1. list[at].b <= x
          BY <4>2, <4>4, <2>2, <3>1, <3>4, SMTT(30)
        <5> QED
          BY <4>2, <4>3, <5>1, <1>3, <3>4, SMTT(30)
    <3> QED
      BY <3>2, <3>3
  <2>3. (cursor .. cursor + n - 1) \cap Covered(list) = {}
    <3>1. ASSUME NEW x \in cursor .. cursor + n - 1, x \in Covered(list)
          PROVE  FALSE
      <4>1. x \in Nat
        BY <1>3
      <4> QED
        BY <4>1, <3>1, <2>2, CoveredPages, Zenon
    <3> QED
      BY <3>1, Zenon
  <2>4. cursor \in Window
    BY <2>1, <1>3, LayoutAssumption DEF Window
  <2> QED
    BY <2>1, <2>3, <2>4, Zenon DEF Gaps
<1>5. ASSUME at > Len(list), ~Found(list, at, cursor, n), NEW x \in Gaps(list, n)
      PROVE  FALSE
  <2>1. ~(MMAP_END >= cursor + n)
    <3>1. ~(at <= Len(list))
      BY <1>5
    <3> QED
      BY <3>1, <1>5, Zenon DEF Found, Fits
  <2>2. x \in Nat /\ x + n <= MMAP_END
    BY LayoutAssumption DEF Gaps, Window
  <2>3. cursor <= x
    BY <1>2, Zenon
  <2> QED
    BY <2>1, <2>2, <2>3, <1>3, LayoutAssumption, SMTT(30)
<1> QED
  BY <1>2, <1>3, <1>4, <1>5, Zenon


-----------------------------------------------------------------------------
(* The user pages of all slots after one slot's page table changed to m.    *)
LEMMA PageCount ==
  ASSUME TypeOK, NEW p \in Procs, NEW m \in SUBSET Pages
  PROVE  /\ Total(pt) \in Nat /\ Total([pt EXCEPT ![p] = m]) \in Nat
         /\ Cardinality(pt[p]) \in Nat /\ Cardinality(m) \in Nat
         /\ Total([pt EXCEPT ![p] = m]) =
              Total(pt) - Cardinality(pt[p]) + Cardinality(m)
<1> DEFINE g == [pt EXCEPT ![p] = m]
<1>1. /\ g[p] = m
      /\ \A q \in Procs : q # p => g[q] = pt[q]
      /\ \A q \in Procs : pt[q] \in SUBSET Pages /\ g[q] \in SUBSET Pages
  BY Zenon DEF TypeOK
<1> HIDE DEF g
<1>2. \A q \in Procs : IsFiniteSet(pt[q]) /\ IsFiniteSet(g[q])
  BY <1>1, PagesFinite, Zenon
<1>3. /\ Total(pt) \in Nat /\ Total(g) \in Nat
      /\ Cardinality(pt[p]) \in Nat /\ Cardinality(g[p]) \in Nat
      /\ Total(g) = Total(pt) - Cardinality(pt[p]) + Cardinality(g[p])
  BY <1>1, <1>2, TotalChange, Zenon
<1> QED
  BY <1>1, <1>3, Zenon DEF g

(* The positions of each slot's list: one node each.                        *)
Nodes(lists) == [q \in Procs |-> DOMAIN lists[q]]

(* The nodes in all lists after one slot's list changed to l.               *)
LEMMA NodeCount ==
  ASSUME TypeOK, NEW p \in Procs, NEW l \in Seq(Region)
  PROVE  /\ Total(Nodes(regions)) \in Nat
         /\ Total(Nodes([regions EXCEPT ![p] = l])) \in Nat
         /\ Total(Nodes([regions EXCEPT ![p] = l])) =
              Total(Nodes(regions)) - Len(regions[p]) + Len(l)
<1> DEFINE next == [regions EXCEPT ![p] = l]
           f == Nodes(regions)
           g == Nodes(next)
<1>1. ASSUME NEW s \in Seq(Region)
      PROVE  /\ DOMAIN s = 1 .. Len(s) /\ Len(s) \in Nat
             /\ IsFiniteSet(DOMAIN s) /\ Cardinality(DOMAIN s) = Len(s)
  <2>1. DOMAIN s = 1 .. Len(s) /\ Len(s) \in Nat
    OBVIOUS
  <2>2. IsFiniteSet(1 .. Len(s)) /\ Cardinality(1 .. Len(s)) = Len(s)
    <3>1. 1 \in Int /\ Len(s) \in Int
      BY <2>1
    <3>2. /\ IsFiniteSet(1 .. Len(s))
          /\ Cardinality(1 .. Len(s)) = IF 1 > Len(s) THEN 0 ELSE Len(s) - 1 + 1
      BY <3>1, FS_Interval, Zenon
    <3> QED
      BY <2>1, <3>2
  <2> QED
    BY <2>1, <2>2, Zenon
<1>2. /\ next[p] = l /\ next \in [Procs -> Seq(Region)]
      /\ \A q \in Procs : q # p => next[q] = regions[q]
      /\ regions \in [Procs -> Seq(Region)]
  BY Zenon DEF TypeOK
<1> HIDE DEF next
<1>3. \A q \in Procs : f[q] = DOMAIN regions[q] /\ g[q] = DOMAIN next[q]
  BY Zenon DEF Nodes
<1> HIDE DEF f, g
<1>4. \A q \in Procs : regions[q] \in Seq(Region) /\ next[q] \in Seq(Region)
  BY <1>2, Zenon
<1>5. \A q \in Procs : IsFiniteSet(f[q]) /\ IsFiniteSet(g[q])
  BY <1>1, <1>3, <1>4, Zenon
<1>6. \A q \in Procs : q # p => g[q] = f[q]
  BY <1>2, <1>3, Zenon
<1>7. /\ Total(f) \in Nat /\ Total(g) \in Nat
      /\ Total(g) = Total(f) - Cardinality(f[p]) + Cardinality(g[p])
  BY <1>5, <1>6, TotalChange, Zenon
<1>8. Cardinality(f[p]) = Len(regions[p]) /\ Cardinality(g[p]) = Len(l)
  BY <1>1, <1>2, <1>3, <1>4, Zenon
<1> QED
  BY <1>7, <1>8, Zenon DEF f, g, next

(* Accounted with the lists' nodes as a function of the lists.              *)
LEMMA AccountedNodes ==
  Accounted <=> /\ used = Total(pt) + lost
                /\ nodes + Total(Nodes(regions)) + dropped = N_MMAP
  BY Zenon DEF Accounted, Nodes

(* A step that changes one slot's page table and counts what it changed     *)
(* keeps the pages accounted for.                                           *)
LEMMA PagesAccounted ==
  ASSUME TypeOK, Accounted, NEW p \in Procs, NEW m \in SUBSET Pages,
         pt' = [pt EXCEPT ![p] = m], lost' \in Nat,
         used' = used + Cardinality(m) - Cardinality(pt[p]) + (lost' - lost)
  PROVE  used' = Total(pt') + lost'
<1>1. /\ Total(pt) \in Nat /\ Total(pt') \in Nat
      /\ Cardinality(pt[p]) \in Nat /\ Cardinality(m) \in Nat
      /\ Total(pt') = Total(pt) - Cardinality(pt[p]) + Cardinality(m)
  BY PageCount, Zenon
<1>2. used = Total(pt) + lost /\ used \in Int /\ lost \in Nat
  BY Zenon DEF Accounted, TypeOK
<1> QED
  BY <1>1, <1>2

(* The same for the nodes of one slot's list.                               *)
LEMMA NodesAccounted ==
  ASSUME TypeOK, Accounted, NEW p \in Procs, NEW l \in Seq(Region),
         NEW n \in Int, NEW d \in Int,
         n + Len(l) + d = nodes + Len(regions[p]) + dropped
  PROVE  n + Total(Nodes([regions EXCEPT ![p] = l])) + d = N_MMAP
<1>1. PICK x \in Int, y \in Int, n0 \in Int, d0 \in Int :
        x = Len(regions[p]) /\ y = Len(l) /\ n0 = nodes /\ d0 = dropped
  BY DEF TypeOK
<1>2. PICK t \in Int, t1 \in Int :
        /\ t = Total(Nodes(regions))
        /\ t1 = Total(Nodes([regions EXCEPT ![p] = l]))
        /\ t1 = t - Len(regions[p]) + Len(l)
  <2>1. /\ Total(Nodes(regions)) \in Nat
        /\ Total(Nodes([regions EXCEPT ![p] = l])) \in Nat
        /\ Total(Nodes([regions EXCEPT ![p] = l])) =
             Total(Nodes(regions)) - Len(regions[p]) + Len(l)
    BY NodeCount, Zenon
  <2> QED
    BY <2>1
<1>3. n0 + t + d0 = N_MMAP
  BY <1>1, <1>2, AccountedNodes, Zenon
<1>4. t1 = t - x + y
  BY <1>1, <1>2, Zenon
<1>5. n + y + d = n0 + x + d0
  BY <1>1, Zenon
<1>6. n + t1 + d = n0 + t + d0
  BY <1>4, <1>5
<1> QED
  BY <1>2, <1>3, <1>6, Zenon

(* A run of pages mmap accepts meets no region.                             *)
LEMMA PlaceFree ==
  ASSUME NEW list \in Seq(Region), Sorted(list), NEW k \in 0 .. Len(list),
         NEW b \in Nat, NEW e \in Nat, ~Overlaps(list, k, b, e)
  PROVE  (b .. e - 1) \cap Covered(list) = {}
<1> SUFFICES ASSUME NEW x \in b .. e - 1, x \in Covered(list) PROVE FALSE
  BY Zenon
<1>1. x \in Nat /\ b <= x /\ x < e
  OBVIOUS
<1>2. PICK m \in 1 .. Len(list) : list[m].b <= x /\ x < list[m].e
  BY <1>1, CoveredPages, Zenon
<1>3. /\ list[m].b \in Nat /\ list[m].e \in Nat /\ list[m].b < list[m].e
  BY InSorted, Zenon
<1>4. CASE m <= k
  <2>1. k \in 1 .. Len(list) /\ k > 0
    BY <1>4
  <2>2. /\ list[k].b \in Nat /\ list[k].e \in Nat /\ list[k].b < list[k].e
        /\ \A n \in 1 .. Len(list) : n < k => list[n].e < list[k].b
    BY <2>1, InSorted, Zenon
  <2>3. list[k].e <= b
    BY <2>1, <2>2 DEF Overlaps
  <2>4. list[m].e <= list[k].e
    BY <1>3, <1>4, <2>2, SMTT(30)
  <2> QED
    BY <1>1, <1>2, <1>3, <2>2, <2>3, <2>4
<1>5. CASE m > k
  <2>1. k + 1 \in 1 .. Len(list) /\ k < Len(list)
    BY <1>5
  <2>2. /\ list[k + 1].b \in Nat /\ list[k + 1].e \in Nat
        /\ list[k + 1].b < list[k + 1].e
        /\ \A n \in 1 .. Len(list) : k + 1 < n => list[k + 1].e < list[n].b
    BY <2>1, InSorted, Zenon
  <2>3. e <= list[k + 1].b
    BY <2>1, <2>2 DEF Overlaps
  <2>4. list[k + 1].b <= list[m].b
    BY <1>3, <1>5, <2>2, SMTT(30)
  <2> QED
    BY <1>1, <1>2, <1>3, <2>2, <2>3, <2>4
<1> QED
  BY <1>4, <1>5

(* Every step changes at most one slot q: what it has to show of the slot   *)
(* for the invariant to survive.                                            *)
LEMMA SlotStep ==
  ASSUME IInv, NEW q \in Procs, NEW m \in SUBSET Pages, NEW l \in Seq(Region),
         NEW hb \in Nat, NEW ht \in Nat,
         pt' = [pt EXCEPT ![q] = m], regions' = [regions EXCEPT ![q] = l],
         heapBase' = [heapBase EXCEPT ![q] = hb],
         heapTop' = [heapTop EXCEPT ![q] = ht],
         live' \subseteq Procs, live' \ {q} = live \ {q},
         torn' \subseteq Procs, torn' \ {q} = torn \ {q},
         Sorted(l),
         q \notin live' => m = {} /\ l = <<>>,
         q \in live' => ht <= MMAP_BEGIN /\ hb .. ht - 1 \subseteq m,
         q \in live' /\ q \notin torn' => Covered(l) = m \cap Window,
         nodes' \in Nat, dropped' \in Nat, lost' \in Nat,
         used' = used + Cardinality(m) - Cardinality(pt[q]) + (lost' - lost),
         nodes' + Len(l) + dropped' = nodes + Len(regions[q]) + dropped,
         call' \in {Idle} \cup FitCalls \cup CutCalls, FitInv', CutInv'
  PROVE  IInv'
<1>1. TypeOK /\ Lists /\ Unused /\ Heaps /\ Backed /\ Accounted
  BY Zenon DEF IInv
<1>2. /\ pt \in [Procs -> SUBSET Pages] /\ regions \in [Procs -> Seq(Region)]
      /\ heapBase \in [Procs -> Nat] /\ heapTop \in [Procs -> Nat]
      /\ live \subseteq Procs /\ used \in Int /\ lost \in Nat
  BY <1>1, Zenon DEF TypeOK
<1>3. /\ pt'[q] = m /\ regions'[q] = l /\ heapBase'[q] = hb /\ heapTop'[q] = ht
      /\ \A p \in Procs : p # q => /\ pt'[p] = pt[p] /\ regions'[p] = regions[p]
                                   /\ heapBase'[p] = heapBase[p]
                                   /\ heapTop'[p] = heapTop[p]
  BY <1>2, Zenon
<1>4. \A p \in Procs : p # q => (p \in live' <=> p \in live)
                               /\ (p \in torn' <=> p \in torn)
  BY Zenon
<1>5. TypeOK'
  <2>1. /\ pt' \in [Procs -> SUBSET Pages] /\ regions' \in [Procs -> Seq(Region)]
        /\ heapBase' \in [Procs -> Nat] /\ heapTop' \in [Procs -> Nat]
    BY <1>2, Zenon
  <2>2. used' \in Int
    <3>1. Cardinality(m) \in Nat /\ Cardinality(pt[q]) \in Nat
      BY <1>2, PagesFinite, Zenon
    <3> QED
      BY <3>1, <1>2, SMTT(30)
  <2> QED
    BY <2>1, <2>2, Zenon DEF TypeOK
<1>6. Lists'
  BY <1>1, <1>3, Zenon DEF Lists
<1>7. Unused'
  BY <1>1, <1>3, <1>4, Zenon DEF Unused
<1>8. Heaps'
  BY <1>1, <1>3, <1>4, Zenon DEF Heaps
<1>9. Backed'
  <2>1. \A p \in live' : p # q => p \in live /\ p \in Procs
    BY <1>4, Zenon
  <2>2. ASSUME NEW p \in live'
        PROVE  heapBase'[p] .. heapTop'[p] - 1 \subseteq pt'[p]
    <3>1. CASE p = q
      BY <3>1, <1>3, Zenon
    <3>2. CASE p # q
      BY <3>2, <2>1, <1>1, <1>3, Zenon DEF Backed
    <3> QED
      BY <3>1, <3>2, Zenon
  <2>3. ASSUME NEW p \in live', p \notin torn'
        PROVE  Covered(regions'[p]) = pt'[p] \cap Window
    <3>1. CASE p = q
      BY <3>1, <2>3, <1>3, Zenon
    <3>2. CASE p # q
      BY <3>2, <2>1, <2>3, <1>1, <1>3, <1>4, Zenon DEF Backed
    <3> QED
      BY <3>1, <3>2, Zenon
  <2> QED
    BY <2>2, <2>3, Zenon DEF Backed
<1>10. Accounted'
  <2>1. used' = Total(pt') + lost'
    BY <1>1, PagesAccounted, Zenon
  <2>2. nodes' \in Int /\ dropped' \in Int
    OBVIOUS
  <2>3. nodes' + Total(Nodes(regions')) + dropped' = N_MMAP
    BY <2>2, <1>1, NodesAccounted, ZenonT(30)
  <2> QED
    BY <2>1, <2>3, Zenon DEF Accounted, Nodes
<1> QED
  BY <1>5, <1>6, <1>7, <1>8, <1>9, <1>10, Zenon DEF IInv

(* Nothing is under way after a step that ends a call.                      *)
LEMMA EndsIdle ==
  ASSUME call' = Idle
  PROVE  FitInv' /\ CutInv' /\ call' \in {Idle} \cup FitCalls \cup CutCalls
<1>1. call'.op = "none"
  BY Zenon DEF Idle
<1>2. call'.op # "fit" /\ call'.op # "cut"
  BY <1>1, Zenon
<1> QED
  BY <1>2, Zenon DEF FitInv, CutInv

(* A slot as it is, for the steps that leave parts of it alone.             *)
LEMMA SlotFacts ==
  ASSUME IInv, NEW p \in Procs
  PROVE  /\ pt[p] \in SUBSET Pages /\ pt = [pt EXCEPT ![p] = pt[p]]
         /\ regions[p] \in Seq(Region) /\ Sorted(regions[p])
         /\ Len(regions[p]) \in Nat
         /\ regions = [regions EXCEPT ![p] = regions[p]]
         /\ heapBase[p] \in Nat /\ heapBase = [heapBase EXCEPT ![p] = heapBase[p]]
         /\ heapTop[p] \in Nat /\ heapTop = [heapTop EXCEPT ![p] = heapTop[p]]
         /\ p \in live => /\ heapTop[p] <= MMAP_BEGIN
                          /\ heapBase[p] .. heapTop[p] - 1 \subseteq pt[p]
         /\ p \in live /\ p \notin torn => Covered(regions[p]) = pt[p] \cap Window
         /\ p \notin live => pt[p] = {} /\ regions[p] = <<>>
         /\ Cardinality(pt[p]) \in Nat
         /\ used \in Int /\ lost \in Nat /\ nodes \in Nat /\ dropped \in Nat
         /\ live \subseteq Procs /\ torn \subseteq Procs
         /\ MMAP_BEGIN \in Nat /\ MMAP_END \in Nat /\ MMAP_BEGIN < MMAP_END
<1>1. TypeOK /\ Lists /\ Unused /\ Heaps /\ Backed
  BY Zenon DEF IInv
<1>2. /\ pt[p] \in SUBSET Pages /\ pt = [pt EXCEPT ![p] = pt[p]]
      /\ regions[p] \in Seq(Region) /\ regions = [regions EXCEPT ![p] = regions[p]]
      /\ heapBase[p] \in Nat /\ heapBase = [heapBase EXCEPT ![p] = heapBase[p]]
      /\ heapTop[p] \in Nat /\ heapTop = [heapTop EXCEPT ![p] = heapTop[p]]
  BY <1>1, Zenon DEF TypeOK
<1>3. Cardinality(pt[p]) \in Nat /\ Len(regions[p]) \in Nat
  BY <1>2, PagesFinite
<1>4. MMAP_BEGIN \in Nat /\ MMAP_END \in Nat /\ MMAP_BEGIN < MMAP_END
  BY LayoutAssumption, Zenon
<1>5. p \notin live => pt[p] = {} /\ regions[p] = <<>>
  BY <1>1, Zenon DEF Unused
<1>6. /\ p \in live => /\ heapTop[p] <= MMAP_BEGIN
                       /\ heapBase[p] .. heapTop[p] - 1 \subseteq pt[p]
      /\ p \in live /\ p \notin torn => Covered(regions[p]) = pt[p] \cap Window
  BY <1>1, Zenon DEF Heaps, Backed
<1> QED
  BY <1>1, <1>2, <1>3, <1>4, <1>5, <1>6, Zenon DEF TypeOK, Lists

(* mmap's placement keeps the invariant (uvm.rs:266-355).                   *)
LEMMA PutStep ==
  ASSUME IInv, NEW p \in live, NEW k \in 0 .. Len(regions[p]),
         NEW b \in Nat, NEW e \in Nat, b < e, b >= MMAP_BEGIN, e <= MMAP_END,
         Before(regions[p], k, b), ~Overlaps(regions[p], k, b, e),
         Put(p, k, b, e), call' = Idle
  PROVE  IInv'
<1> DEFINE list == regions[p]
           run == MapRun(pt[p], b, e)
           put == Place(list, k, b, e)
           linked == run.ok /\ put.need <= nodes
           l == IF linked THEN put.list ELSE list
<1>1. p \in Procs
  BY Zenon DEF IInv, TypeOK
<1>0. /\ regions = [regions EXCEPT ![p] = regions[p]]
      /\ heapBase = [heapBase EXCEPT ![p] = heapBase[p]]
      /\ heapTop = [heapTop EXCEPT ![p] = heapTop[p]]
      /\ Len(list) \in Nat /\ Cardinality(pt[p]) \in Nat
      /\ used \in Int /\ lost \in Nat /\ nodes \in Nat /\ dropped \in Nat
  BY <1>1, SlotFacts, Zenon
<1>2. /\ pt[p] \in SUBSET Pages /\ list \in Seq(Region) /\ Sorted(list)
      /\ heapBase[p] \in Nat /\ heapTop[p] \in Nat
      /\ heapTop[p] <= MMAP_BEGIN /\ heapBase[p] .. heapTop[p] - 1 \subseteq pt[p]
      /\ p \notin torn => Covered(list) = pt[p] \cap Window
      /\ live \subseteq Procs /\ torn \subseteq Procs
      /\ MMAP_BEGIN \in Nat /\ MMAP_END \in Nat
  BY <1>1, SlotFacts, Zenon
<1>3. /\ pt' = [pt EXCEPT ![p] = run.pt]
      /\ used' = used + run.got
      /\ lost' = IF run.ok THEN lost ELSE lost + 1
      /\ regions' = IF linked THEN [regions EXCEPT ![p] = put.list] ELSE regions
      /\ nodes' = IF linked THEN nodes - put.need + put.spare ELSE nodes
      /\ torn' = IF run.ok /\ ~linked THEN torn \cup {p} ELSE torn
      /\ live' = live /\ heapBase' = heapBase /\ heapTop' = heapTop
      /\ dropped' = dropped
  BY Zenon DEF Put
<1>4. /\ run.pt \in SUBSET Pages /\ pt[p] \subseteq run.pt
      /\ run.pt \subseteq pt[p] \cup (b .. e - 1)
      /\ run.ok \in BOOLEAN
      /\ run.ok => run.pt = pt[p] \cup (b .. e - 1)
      /\ ~run.ok => (b .. e - 1) \cap pt[p] # {}
      /\ run.got \in Nat
      /\ Cardinality(run.pt) = Cardinality(pt[p]) + run.got
                                 - (IF run.ok THEN 0 ELSE 1)
  <2>1. b <= e
    OBVIOUS
  <2>2. pt[p] \in SUBSET Pages
    BY <1>2, Zenon
  <2> QED
    BY <2>1, <2>2, MapRunFacts, Zenon
<1>5. /\ put.list \in Seq(Region) /\ Sorted(put.list)
      /\ Covered(put.list) = Covered(list) \cup (b .. e - 1)
      /\ Len(put.list) = Len(list) + put.need - put.spare
      /\ put.need \in {0, 1} /\ put.spare \in {0, 1}
  <2>1. MMAP_BEGIN <= b
    BY <1>2, Zenon
  <2> QED
    BY <1>2, <2>1, PlaceFacts, SMTT(30)
<1> HIDE DEF run, put
<1>6. l \in Seq(Region) /\ Sorted(l) /\ regions' = [regions EXCEPT ![p] = l]
  BY <1>0, <1>2, <1>3, <1>5, Zenon
<1>7. p \notin torn' => Covered(l) = run.pt \cap Window
  <2> SUFFICES ASSUME p \notin torn' PROVE Covered(l) = run.pt \cap Window
    BY Zenon
  <2>1. p \notin torn /\ Covered(list) = pt[p] \cap Window
    BY <1>2, <1>3, Zenon
  <2>2. b .. e - 1 \subseteq Window
    BY <1>2, SMTT(30) DEF Window
  <2>3. (b .. e - 1) \cap Covered(list) = {}
    BY <1>2, PlaceFree, Zenon
  <2>4. run.ok
    BY <2>1, <2>2, <2>3, <1>4, Zenon
  <2>5. linked
    BY <2>4, <1>3, Zenon
  <2>6. l = put.list /\ run.pt = pt[p] \cup (b .. e - 1)
    BY <2>4, <2>5, <1>4, Zenon
  <2> QED
    BY <2>1, <2>2, <2>6, <1>5, Zenon
<1>8. /\ used' = used + Cardinality(run.pt) - Cardinality(pt[p]) + (lost' - lost)
      /\ lost' \in Nat
  <2>1. /\ used' = used + run.got /\ run.got \in Nat
        /\ lost' = IF run.ok THEN lost ELSE lost + 1
        /\ Cardinality(run.pt) = Cardinality(pt[p]) + run.got
                                    - (IF run.ok THEN 0 ELSE 1)
    BY <1>3, <1>4, Zenon
  <2> QED
    BY <2>1, <1>0, SMTT(30)
<1>9. nodes' \in Nat /\ dropped' \in Nat
  <2>1. /\ nodes' = IF linked THEN nodes - put.need + put.spare ELSE nodes
        /\ dropped' = dropped
    BY <1>3, Zenon
  <2> QED
    BY <2>1, <1>0, <1>5, SMTT(30)
<1>10. nodes' + Len(l) + dropped' = nodes + Len(list) + dropped
  <2>1. CASE ~linked
    BY <2>1, <1>3, Zenon
  <2>2. CASE linked
    <3>1. /\ nodes' = nodes - put.need + put.spare
          /\ Len(l) = Len(list) + put.need - put.spare /\ dropped' = dropped
      BY <2>2, <1>3, <1>5, Zenon
    <3>2. PICK n \in Int, d \in Int, x \in Int, i \in Int, j \in Int :
            /\ n = nodes /\ d = dropped /\ x = Len(list)
            /\ i = put.need /\ j = put.spare
      <4>1. /\ nodes \in Int /\ dropped \in Int /\ Len(list) \in Int
            /\ put.need \in Int /\ put.spare \in Int
        BY <1>0, <1>5
      <4> QED
        BY <4>1, Zenon
    <3>3. (n - i + j) + (x + i - j) + d = n + x + d
      OBVIOUS
    <3> QED
      BY <3>1, <3>2, <3>3, Zenon
  <2> QED
    BY <2>1, <2>2, Zenon
<1>11. /\ live' \subseteq Procs /\ live' \ {p} = live \ {p} /\ p \in live'
       /\ torn' \subseteq Procs /\ torn' \ {p} = torn \ {p}
       /\ heapBase[p] .. heapTop[p] - 1 \subseteq run.pt
  BY <1>1, <1>2, <1>3, <1>4, Zenon
<1>12. /\ heapBase' = [heapBase EXCEPT ![p] = heapBase[p]]
       /\ heapTop' = [heapTop EXCEPT ![p] = heapTop[p]]
  BY <1>0, <1>3, Zenon
<1>13. FitInv' /\ CutInv' /\ call' \in {Idle} \cup FitCalls \cup CutCalls
  BY EndsIdle, Zenon
<1>14. /\ p \notin live' => run.pt = {} /\ l = <<>>
       /\ p \in live' => /\ heapTop[p] <= MMAP_BEGIN
                         /\ heapBase[p] .. heapTop[p] - 1 \subseteq run.pt
       /\ p \in live' /\ p \notin torn' => Covered(l) = run.pt \cap Window
  BY <1>2, <1>7, <1>11, Zenon
<1>15. pt' = [pt EXCEPT ![p] = run.pt] /\ run.pt \in SUBSET Pages
  BY <1>3, <1>4, Zenon
<1>16. heapBase[p] \in Nat /\ heapTop[p] \in Nat
  BY <1>2, Zenon
<1> HIDE DEF l
<1> QED
  BY <1>1, <1>6, <1>8, <1>9, <1>10, <1>11, <1>12, <1>13, <1>14, <1>15, <1>16,
     SlotStep, Zenon

(* A step that changes the calls only.                                      *)
LEMMA CallStep ==
  ASSUME IInv, UNCHANGED space, FitInv', CutInv',
         call' \in {Idle} \cup FitCalls \cup CutCalls
  PROVE  IInv'
<1>1. /\ live' = live /\ pt' = pt /\ regions' = regions /\ heapBase' = heapBase
      /\ heapTop' = heapTop /\ nodes' = nodes /\ used' = used /\ lost' = lost
      /\ dropped' = dropped /\ torn' = torn
  BY Zenon DEF space
<1>2. TypeOK' /\ Lists' /\ Unused' /\ Heaps'
  BY <1>1, Zenon DEF IInv, TypeOK, Lists, Unused, Heaps
<1>3. Backed'
  BY <1>1, Zenon DEF IInv, Backed
<1>4. Accounted'
  BY <1>1, Zenon DEF IInv, Accounted, Total
<1> QED
  BY <1>2, <1>3, <1>4, Zenon DEF IInv

(* mmap from its bounds check on (uvm.rs:266-355).                          *)
LEMMA PutAtStep ==
  ASSUME IInv, NEW p \in live, NEW b \in Nat, NEW n \in Nat \ {0},
         PutAt(p, b, b + n), call' = Idle
  PROVE  IInv'
<1>1. PICK k \in 0 .. Len(regions[p]) :
        /\ Before(regions[p], k, b)
        /\ IF b >= MMAP_BEGIN /\ b + n <= MMAP_END
                /\ ~Overlaps(regions[p], k, b, b + n)
           THEN Put(p, k, b, b + n)
           ELSE UNCHANGED space
  BY Zenon DEF PutAt
<1>2. b + n \in Nat /\ b < b + n
  OBVIOUS
<1>3. CASE /\ b >= MMAP_BEGIN /\ b + n <= MMAP_END
           /\ ~Overlaps(regions[p], k, b, b + n)
  BY <1>1, <1>2, <1>3, PutStep, Zenon
<1>4. CASE UNCHANGED space
  BY <1>4, EndsIdle, CallStep, Zenon
<1> QED
  BY <1>1, <1>3, <1>4, Zenon

(* mmap of a chosen address.                                                *)
LEMMA MmapStep ==
  ASSUME IInv, NEW p \in Procs, NEW b \in Nat, NEW n \in Nat \ {0}, Mmap(p, b, n)
  PROVE  IInv'
  BY PutAtStep, Zenon DEF Mmap

(* mmap of no address starts its search at the window's first page.         *)
LEMMA MmapAnywhereStep ==
  ASSUME IInv, NEW p \in Procs, NEW n \in Nat \ {0}, MmapAnywhere(p, n)
  PROVE  IInv'
<1>1. /\ p \in live /\ UNCHANGED space /\ regions' = regions /\ live' = live
      /\ call' = [op |-> "fit", p |-> p, n |-> n, at |-> 1, cursor |-> MMAP_BEGIN]
  BY Zenon DEF MmapAnywhere, space
<1>2. /\ call'.op = "fit" /\ call'.p = p /\ call'.at = 1
      /\ call'.cursor = MMAP_BEGIN
  BY <1>1, Zenon
<1>3. Len(regions[p]) \in Nat /\ MMAP_BEGIN \in Nat
  BY SlotFacts, Zenon
<1>4. call' \in FitCalls
  BY <1>1, <1>3, Zenon DEF FitCalls
<1>5. FitInv'
  <2>1. 1 \in 1 .. Len(regions'[p]) + 1 /\ 1 .. 1 - 1 = {}
    BY <1>1, <1>3
  <2> QED
    BY <1>1, <1>2, <2>1, Zenon DEF FitInv, EndBefore
<1>6. CutInv'
  BY <1>2, Zenon DEF CutInv
<1> QED
  BY <1>1, <1>4, <1>5, <1>6, CallStep, Zenon

(* One turn of the search: the region it passes leaves no room before it.   *)
LEMMA FitTurnStep ==
  ASSUME IInv, NEW p \in Procs, FitTurn(p)
  PROVE  IInv'
<1> DEFINE list == regions[p]
           at == call.at
<1>1. /\ call.op = "fit" /\ call.p = p /\ UNCHANGED space /\ regions' = regions
      /\ live' = live /\ ~Found(list, at, call.cursor, call.n)
      /\ call' = IF at > Len(list) THEN Idle
                 ELSE [call EXCEPT !.at = at + 1,
                                   !.cursor = IF list[at].b >= @ THEN list[at].e
                                                                 ELSE @]
  BY Zenon DEF FitTurn, space
<1>4. call.p = p /\ regions' = regions /\ live' = live
  BY <1>1, Zenon
<1>2. CASE at > Len(list)
  <2>1. call' = Idle
    BY <1>1, <1>2, Zenon
  <2> QED
    BY <2>1, <1>1, EndsIdle, CallStep, Zenon
<1>3. CASE ~(at > Len(list))
  <2>1. /\ p \in live /\ at \in 1 .. Len(list) + 1
        /\ call.cursor = EndBefore(list, at)
        /\ \A i \in 1 .. at - 1 : list[i].b < EndBefore(list, i) + call.n
    BY <1>1, Zenon DEF IInv, FitInv
  <2>2. /\ list \in Seq(Region) /\ Sorted(list) /\ Len(list) \in Nat
        /\ MMAP_BEGIN \in Nat
    BY SlotFacts, Zenon
  <2>3. call \in FitCalls
    BY <1>1 DEF IInv, TypeOK, Idle, CutCalls
  <2>4. call.n \in Nat \ {0} /\ call.n \in Nat /\ call.cursor \in Nat
    BY <2>3, Zenon DEF FitCalls
  <2>5. at \in 1 .. Len(list) /\ at \in DOMAIN list /\ at \in Nat
    BY <2>1, <2>2, <1>3
  <2>6. list[at] \in Region
    BY <2>2, <2>5
  <2>7. list[at].b \in Nat /\ list[at].e \in Nat
    BY <2>6, Zenon DEF Region
  <2>8. call.cursor <= list[at].b
    <3>1. at <= Len(list)
      BY <2>5
    <3>2. at <= Len(list) => call.cursor <= list[at].b
      BY <2>1, <2>2, <2>4, FitFacts, Zenon
    <3> QED
      BY <3>1, <3>2, Zenon
  <2>9. list[at].b < call.cursor + call.n
    <3>1. at <= Len(list)
      BY <2>5
    <3>2. ~(list[at].b >= call.cursor /\ list[at].b >= call.cursor + call.n)
      BY <1>1, <3>1, Zenon DEF Found, Fits
    <3> QED
      BY <3>2, <2>4, <2>7, <2>8
  <2>10. call' = [call EXCEPT !.at = at + 1, !.cursor = list[at].e]
    <3>1. list[at].b >= call.cursor
      BY <2>4, <2>7, <2>8, Zenon
    <3> QED
      BY <3>1, <1>1, <1>3, Zenon
  <2>11. /\ call' \in FitCalls /\ call'.op = "fit" /\ call'.p = p
         /\ call'.at = at + 1 /\ call'.cursor = list[at].e /\ call'.n = call.n
    <3>1. at + 1 \in Nat
      BY <2>5
    <3> QED
      <4>1. PICK a \in Nat, x \in Nat : a = at + 1 /\ x = list[at].e
        BY <3>1, <2>7, Zenon
      <4>2. call' = [call EXCEPT !.at = a, !.cursor = x]
        BY <4>1, <2>10, Zenon
      <4>3. /\ call' \in FitCalls /\ call'.op = "fit" /\ call'.p = call.p
            /\ call'.n = call.n /\ call'.at = a /\ call'.cursor = x
        <5>1. PICK c \in FitCalls, d \in {call'} : c = call /\ d = call'
          BY <2>3, Zenon
        <5>2. d = [c EXCEPT !.at = a, !.cursor = x]
          BY <5>1, <4>2, Zenon
        <5>3. /\ d \in FitCalls /\ d.op = "fit" /\ d.p = c.p /\ d.n = c.n
              /\ d.at = a /\ d.cursor = x
          BY <5>2, Zenon DEF FitCalls
        <5> QED
          BY <5>1, <5>3, Zenon
      <4> QED
        BY <4>1, <4>3, <1>4, Zenon
  <2>12. FitInv'
    <3>1. EndBefore(list, at + 1) = list[at].e
      BY <2>5 DEF EndBefore
    <3>2. at + 1 \in 1 .. Len(list) + 1
      BY <2>5, <2>2
    <3>3. ASSUME NEW i \in 1 .. (at + 1) - 1
          PROVE  list[i].b < EndBefore(list, i) + call.n
      <4>1. i \in 1 .. at - 1 \/ i = at
        BY <2>5
      <4> QED
        BY <4>1, <2>1, <2>9, Zenon
    <3> QED
      <4>1. regions'[call'.p] = list /\ call'.p \in live'
        BY <2>1, <2>11, <1>4, Zenon
      <4>2. call'.at \in 1 .. Len(list) + 1 /\ call'.cursor = EndBefore(list, call'.at)
        BY <3>1, <3>2, <2>11, Zenon
      <4>3. \A i \in 1 .. call'.at - 1 : list[i].b < EndBefore(list, i) + call'.n
        BY <3>3, <2>11, Zenon
      <4> HIDE DEF list
      <4> QED
        BY <4>1, <4>2, <4>3, Zenon DEF FitInv, EndBefore
  <2>13. CutInv'
    BY <2>11, Zenon DEF CutInv
  <2> QED
    BY <2>11, <2>12, <2>13, <1>1, CallStep, Zenon
<1> QED
  BY <1>2, <1>3, Zenon

(* The search has found a place, and mmap goes on from there.               *)
LEMMA FitPutStep ==
  ASSUME IInv, NEW p \in Procs, FitPut(p)
  PROVE  IInv'
<1>1. /\ call.op = "fit" /\ call.p = p /\ call' = Idle
      /\ PutAt(p, call.cursor, call.cursor + call.n)
  BY Zenon DEF FitPut
<1>2. p \in live
  BY <1>1, Zenon DEF IInv, FitInv
<1>3. call \in FitCalls
  BY <1>1 DEF IInv, TypeOK, Idle, CutCalls
<1>4. call.n \in Nat \ {0} /\ call.cursor \in Nat
  BY <1>3, Zenon DEF FitCalls
<1> QED
  BY <1>1, <1>2, <1>4, PutAtStep, Zenon

-----------------------------------------------------------------------------
(* No region reaches between s and x when those before the at-th end by s   *)
(* and the at-th begins at x or later.                                      *)
LEMMA NothingBetween ==
  ASSUME NEW list \in Seq(Region), Sorted(list), NEW at \in 1 .. Len(list) + 1,
         NEW s \in Nat, NEW x \in Nat,
         \A i \in 1 .. at - 1 : list[i].e <= s,
         at <= Len(list) => x <= list[at].b
  PROVE  (s .. x - 1) \cap Covered(list) = {}
<1> SUFFICES ASSUME NEW y \in s .. x - 1, y \in Covered(list) PROVE FALSE
  BY Zenon
<1>1. y \in Nat /\ s <= y /\ y < x
  OBVIOUS
<1>2. PICK m \in 1 .. Len(list) : list[m].b <= y /\ y < list[m].e
  BY <1>1, CoveredPages, Zenon
<1>3. /\ list[m].b \in Nat /\ list[m].e \in Nat
      /\ \A n \in 1 .. Len(list) : n < m => list[n].e < list[m].b
  BY InSorted, Zenon
<1>4. CASE m < at
  <2>1. m \in 1 .. at - 1
    BY <1>4
  <2> QED
    BY <2>1, <1>1, <1>2, <1>3
<1>5. CASE m >= at
  <2>1. at \in 1 .. Len(list) /\ x <= list[at].b
    BY <1>5
  <2>2. list[at].b \in Nat /\ list[at].e \in Nat /\ list[at].b < list[at].e
    BY <2>1, InSorted, Zenon
  <2>3. list[at].b <= list[m].b
    BY <1>3, <1>5, <2>1, <2>2, SMTT(30)
  <2> QED
    BY <1>1, <1>2, <1>3, <2>1, <2>2, <2>3
<1> QED
  BY <1>4, <1>5

(* Where munmap's loop stands after a turn: the kept pieces are behind it,   *)
(* the regions that follow are still ahead (uvm.rs:384-441).                *)
LEMMA CutMoves ==
  ASSUME NEW list \in Seq(Region), Sorted(list), NEW at \in 1 .. Len(list),
         NEW s \in Nat, NEW e \in Nat, s < e, list[at].e > s, list[at].b < e,
         \A i \in 1 .. at - 1 : list[i].e <= s
  PROVE  LET c == Clip(list[at], s, e)
             kept == Keep(list[at], c)
             out == Splice(list, at - 1, kept, at + 1)
         IN  /\ Len(out) = Len(list) - 1 + Len(kept)
             /\ at + Len(kept) \in 1 .. Len(out) + 1
             /\ c.e < e => \A i \in 1 .. (at + Len(kept)) - 1 : out[i].e <= c.e
             /\ \A i \in at + Len(kept) .. Len(out) : out[i].e > c.e
<1> DEFINE r == list[at]
           c == Clip(r, s, e)
           kept == Keep(r, c)
           out == Splice(list, at - 1, kept, at + 1)
<1>1. /\ c.b \in Nat /\ c.e \in Nat /\ c.b < c.e
      /\ c.b = IF s >= r.b THEN s ELSE r.b
      /\ c.e = IF e <= r.e THEN e ELSE r.e
      /\ kept \in Seq(Region) /\ Len(kept) \in {0, 1, 2}
      /\ kept = <<>> <=> Len(kept) = 0
      /\ c.e < e => \A m \in 1 .. Len(kept) : kept[m].e <= c.e
      /\ out \in Seq(Region) /\ Sorted(out)
      /\ Covered(out) = Covered(list) \ (c.b .. c.e - 1)
  <2>1. CutLeaves(list, at, s, e)
    BY CutFacts, Zenon
  <2> QED
    BY <2>1, Zenon DEF CutLeaves
<1>2. /\ r.b \in Nat /\ r.e \in Nat
      /\ \A n \in 1 .. Len(list) : at < n => r.e < list[n].b
  BY InSorted, Zenon
<1> HIDE DEF c, kept
<1>3. /\ at - 1 \in 0 .. Len(list) /\ at + 1 \in (at - 1) + 1 .. Len(list) + 1
      /\ Len(list) \in Nat /\ at \in Nat /\ Len(kept) \in Nat
  BY <1>1
<1>9. kept \in Seq(Region)
  BY <1>1, Zenon
<1>4. /\ Len(out) = (at - 1) + Len(kept) + (Len(list) + 1 - (at + 1))
      /\ \A m \in 1 .. at - 1 : out[m] = list[m]
      /\ \A m \in 1 .. Len(kept) : out[(at - 1) + m] = kept[m]
      /\ \A m \in (at - 1) + Len(kept) + 1 .. Len(out) :
           /\ m - (at - 1) - Len(kept) + (at + 1) - 1 \in at + 1 .. Len(list)
           /\ out[m] = list[m - (at - 1) - Len(kept) + (at + 1) - 1]
  <2>1. PICK i \in 0 .. Len(list), j \in (at - 1) + 1 .. Len(list) + 1 :
          i = at - 1 /\ j = at + 1
    BY <1>3, Zenon
  <2>2. j \in i + 1 .. Len(list) + 1
    BY <2>1, Zenon
  <2>3. out = Splice(list, i, kept, j)
    BY <2>1, Zenon
  <2> HIDE DEF out
  <2>4. /\ Len(out) = i + Len(kept) + (Len(list) + 1 - j)
        /\ \A m \in 1 .. i : out[m] = list[m]
        /\ \A m \in 1 .. Len(kept) : out[i + m] = kept[m]
        /\ \A m \in i + Len(kept) + 1 .. Len(out) :
             /\ m - i - Len(kept) + j - 1 \in j .. Len(list)
             /\ out[m] = list[m - i - Len(kept) + j - 1]
    BY <2>2, <2>3, <1>9, SpliceElements, ZenonT(40)
  <2> QED
    BY <2>1, <2>4, Zenon
<1> HIDE DEF out
<1>5. Len(out) = Len(list) - 1 + Len(kept) /\ Len(out) \in Nat
  <2>1. PICK n \in Int, k \in Int : n = Len(list) /\ k = Len(kept)
    <3>1. Len(list) \in Int /\ Len(kept) \in Int
      BY <1>3
    <3> QED
      BY <3>1, Zenon
  <2>2. /\ (at - 1) + k + (n + 1 - (at + 1)) = n - 1 + k
        /\ n >= 1 /\ k >= 0
    BY <2>1, <1>3
  <2>3. n - 1 + k \in Nat
    BY <2>2
  <2> QED
    BY <2>1, <2>2, <2>3, <1>4, Zenon
<1>6. at + Len(kept) \in 1 .. Len(out) + 1
  BY <1>3, <1>5
<1>7. ASSUME c.e < e, NEW i \in 1 .. (at + Len(kept)) - 1
      PROVE  out[i].e <= c.e
  <2>1. c.e = r.e /\ s <= c.e
    BY <1>1, <1>2, <1>7, SMTT(30)
  <2>2. CASE i <= at - 1
    <3>1. i \in 1 .. at - 1 /\ i \in 1 .. Len(list)
      BY <2>2, <1>3
    <3>2. list[i].e \in Nat
      BY <3>1, InSorted, Zenon
    <3>3. out[i].e = list[i].e
      BY <3>1, <1>4, Zenon
    <3>4. list[i].e <= s
      BY <3>1, Zenon
    <3> QED
      BY <3>2, <3>3, <3>4, <2>1, <1>1, SMTT(30)
  <2>3. CASE i > at - 1
    <3>1. i - (at - 1) \in 1 .. Len(kept) /\ (at - 1) + (i - (at - 1)) = i
      <4>1. PICK k \in Nat : k = Len(kept)
        BY <1>3, Zenon
      <4>2. i \in 1 .. (at + k) - 1
        BY <4>1, Zenon
      <4>4. PICK a \in Int, x \in Int : a = at /\ x = i
        BY <4>2, <1>3
      <4>5. 1 <= x /\ x <= a + k - 1 /\ x > a - 1
        BY <4>2, <4>4, <2>3
      <4>6. x - (a - 1) \in 1 .. k /\ (a - 1) + (x - (a - 1)) = x
        BY <4>5
      <4>3. i - (at - 1) \in 1 .. k /\ (at - 1) + (i - (at - 1)) = i
        BY <4>4, <4>6, Zenon
      <4> QED
        BY <4>1, <4>3, Zenon
    <3>2. out[i] = kept[i - (at - 1)]
      BY <3>1, <1>4, Zenon
    <3> QED
      BY <3>1, <3>2, <1>1, <1>7, Zenon
  <2> QED
    BY <2>2, <2>3, <1>3
<1>8. ASSUME NEW i \in at + Len(kept) .. Len(out)
      PROVE  out[i].e > c.e
  <2>1. i \in (at - 1) + Len(kept) + 1 .. Len(out)
    BY <1>3, <1>5
  <2>2. PICK m \in at + 1 .. Len(list) : out[i] = list[m]
    BY <2>1, <1>4, Zenon
  <2>3. m \in 1 .. Len(list) /\ at < m
    BY <1>3
  <2>4. list[m].b \in Nat /\ list[m].e \in Nat /\ list[m].b < list[m].e
    BY <2>3, InSorted, Zenon
  <2>5. r.e < list[m].b
    BY <2>3, <1>2, Zenon
  <2>6. c.e <= r.e
    BY <1>1, <1>2, SMTT(30)
  <2>7. list[m].e > c.e
    <3>1. c.e \in Nat /\ r.e \in Nat
      BY <1>1, <1>2, Zenon
    <3> HIDE DEF r
    <3> QED
      BY <3>1, <2>4, <2>5, <2>6, SMTT(30)
  <2> QED
    BY <2>2, <2>7, Zenon
<1> QED
  BY <1>5, <1>6, <1>7, <1>8, Zenon DEF c, kept, out

(* munmap passes over the regions that end before its range.                *)
LEMMA MunmapStep ==
  ASSUME IInv, NEW p \in Procs, NEW s \in Nat, NEW e \in Nat, s < e,
         MMAP_BEGIN <= s, e <= MMAP_END, Munmap(p, s, e)
  PROVE  IInv'
<1> DEFINE list == regions[p]
<1>1. PICK k \in 0 .. Len(list) :
        /\ Behind(list, k, s)
        /\ call' = [op |-> "cut", p |-> p, at |-> k + 1, s |-> s, e |-> e,
                    from |-> s, had |-> Covered(list)]
  BY Zenon DEF Munmap
<1>2. p \in live /\ UNCHANGED space /\ regions' = regions /\ live' = live
  BY Zenon DEF Munmap, space
<1>3. list \in Seq(Region) /\ Sorted(list) /\ Len(list) \in Nat
  BY SlotFacts, Zenon
<1>4. Covered(list) \subseteq Window
  BY <1>3, CoveredInWindow, Zenon
<1>5. /\ call'.op = "cut" /\ call'.p = p /\ call'.at = k + 1 /\ call'.s = s
      /\ call'.e = e /\ call'.from = s /\ call'.had = Covered(list)
  BY <1>1, Zenon
<1>6. call' \in CutCalls
  <2>1. k + 1 \in Nat
    BY <1>3
  <2> HIDE DEF list
  <2> QED
    BY <2>1, <1>1, <1>4, Zenon DEF CutCalls
<1>7. k + 1 \in 1 .. Len(list) + 1 /\ s <= s /\ s <= e /\ s .. s - 1 = {}
  BY <1>3
<1>8. \A i \in 1 .. (k + 1) - 1 : list[i].e <= s
  <2>1. (k + 1) - 1 = k
    BY <1>3
  <2> QED
    BY <2>1, <1>1, Zenon DEF Behind
<1>9. ASSUME NEW i \in k + 1 .. Len(list) PROVE list[i].e > s
  <2>1. /\ k < Len(list) /\ k + 1 \in 1 .. Len(list) /\ i \in 1 .. Len(list)
        /\ i # k + 1 => k + 1 < i
    BY <1>3
  <2>2. list[k + 1].e > s
    BY <2>1, <1>1, Zenon DEF Behind
  <2>3. /\ list[k + 1].e \in Nat
        /\ \A n \in 1 .. Len(list) : k + 1 < n => list[k + 1].e < list[n].b
    BY <2>1, <1>3, InSorted, Zenon
  <2>4. list[i].b \in Nat /\ list[i].e \in Nat /\ list[i].b < list[i].e
    BY <2>1, <1>3, InSorted, Zenon
  <2>5. CASE i = k + 1
    BY <2>2, <2>5, Zenon
  <2>6. CASE i # k + 1
    <3>1. list[k + 1].e < list[i].b
      BY <2>1, <2>3, <2>6, Zenon
    <3> QED
      BY <3>1, <2>2, <2>3, <2>4, SMTT(30)
  <2> QED
    BY <2>5, <2>6, Zenon
<1>10. CutInv'
  <2>1. regions'[call'.p] = list /\ call'.p \in live'
    BY <1>2, <1>5, Zenon
  <2>2. /\ call'.at \in 1 .. Len(list) + 1
        /\ call'.from <= call'.s /\ call'.s <= call'.e
        /\ MMAP_BEGIN <= call'.from /\ call'.e <= MMAP_END
    BY <1>5, <1>7, Zenon
  <2>3. /\ \A i \in 1 .. call'.at - 1 : list[i].e <= call'.s
        /\ \A i \in call'.at .. Len(list) : list[i].e > call'.s
    BY <1>5, <1>8, <1>9, Zenon
  <2>4. Covered(list) = call'.had \ (call'.from .. call'.s - 1)
    BY <1>5, <1>7, Zenon
  <2> HIDE DEF list
  <2> QED
    BY <2>1, <2>2, <2>3, <2>4, Zenon DEF CutInv, Covered
<1>11. FitInv'
  BY <1>5, Zenon DEF FitInv
<1> QED
  BY <1>2, <1>6, <1>10, <1>11, CallStep, Zenon

(* munmap returns.                                                          *)
LEMMA CutReturnStep ==
  ASSUME IInv, NEW p \in Procs, CutReturn(p)
  PROVE  IInv'
  BY EndsIdle, CallStep, Zenon DEF CutReturn

(* One turn of munmap's loop.  Without a node missed so far the pages it     *)
(* unmaps are all there (uvm.rs:384-441).                                   *)
LEMMA CutTurnStep ==
  ASSUME IInv, NEW p \in Procs, CutTurn(p)
  PROVE  IInv'
<1> DEFINE list == regions[p]
           at == call.at
           s == call.s
           e == call.e
           r == list[at]
           c == Clip(r, s, e)
           run == UnmapRun(pt[p], c.b, c.e)
           kept == Keep(r, c)
           noNode == Len(kept) = 2 /\ nodes = 0
           done == run.ok /\ ~noNode
           out == Splice(list, at - 1, kept, at + 1)
           l == IF done THEN out ELSE list
<1>1. /\ call.op = "cut" /\ call.p = p /\ ~CutEnds(list, at, s, e)
      /\ pt' = [pt EXCEPT ![p] = run.pt]
      /\ used' = used - run.freed
      /\ regions' = IF done THEN [regions EXCEPT ![p] = out] ELSE regions
      /\ nodes' = IF done THEN Returned(kept, nodes) ELSE nodes
      /\ call' = IF done THEN [call EXCEPT !.at = @ + Len(kept), !.s = c.e] ELSE Idle
      /\ torn' = IF run.ok /\ noNode THEN torn \cup {p} ELSE torn
      /\ live' = live /\ heapBase' = heapBase /\ heapTop' = heapTop /\ lost' = lost
      /\ dropped' = dropped
  BY Zenon DEF CutTurn
<1>2. /\ regions = [regions EXCEPT ![p] = regions[p]]
      /\ heapBase = [heapBase EXCEPT ![p] = heapBase[p]]
      /\ heapTop = [heapTop EXCEPT ![p] = heapTop[p]]
      /\ Len(list) \in Nat /\ Cardinality(pt[p]) \in Nat
      /\ used \in Int /\ lost \in Nat /\ nodes \in Nat /\ dropped \in Nat
      /\ live \subseteq Procs /\ torn \subseteq Procs
  BY SlotFacts, Zenon
<1>3. /\ pt[p] \in SUBSET Pages /\ list \in Seq(Region) /\ Sorted(list)
      /\ heapBase[p] \in Nat /\ heapTop[p] \in Nat
      /\ MMAP_BEGIN \in Nat /\ MMAP_END \in Nat
  BY SlotFacts, Zenon
<1>4. /\ p \in live /\ at \in 1 .. Len(list) + 1
      /\ call.from <= s /\ s <= e /\ MMAP_BEGIN <= call.from /\ e <= MMAP_END
      /\ s < e => \A i \in 1 .. at - 1 : list[i].e <= s
      /\ \A i \in at .. Len(list) : list[i].e > s
      /\ Covered(list) = call.had \ (call.from .. s - 1)
  BY <1>1, Zenon DEF IInv, CutInv
<1>5. call \in CutCalls
  BY <1>1, SMTT(30) DEF IInv, TypeOK, Idle, FitCalls
<1>6. s \in Nat /\ e \in Nat /\ call.from \in Nat /\ at \in Nat
  BY <1>5, Zenon DEF CutCalls
<1>7. /\ heapTop[p] <= MMAP_BEGIN /\ heapBase[p] .. heapTop[p] - 1 \subseteq pt[p]
      /\ p \notin torn => Covered(list) = pt[p] \cap Window
  BY <1>4, SlotFacts, Zenon
<1>8. at <= Len(list) /\ ~(s >= e) /\ ~(e <= r.b)
  BY <1>1, Zenon DEF CutEnds
<1>9. at \in 1 .. Len(list) /\ at \in at .. Len(list)
  BY <1>2, <1>4, <1>6, <1>8
<1>10. /\ r.b \in Nat /\ r.e \in Nat /\ MMAP_BEGIN <= r.b /\ r.e <= MMAP_END
       /\ r.b < r.e
  BY <1>3, <1>9, InSorted, Zenon
<1>11. s < e /\ r.e > s /\ r.b < e
  <2>1. r.e > s
    BY <1>4, <1>9, Zenon
  <2> HIDE DEF r
  <2> QED
    BY <2>1, <1>6, <1>8, <1>10
<1>12. /\ c.b \in Nat /\ c.e \in Nat /\ c.b < c.e
       /\ c.b = IF s >= r.b THEN s ELSE r.b
       /\ c.e = IF e <= r.e THEN e ELSE r.e
       /\ kept \in Seq(Region) /\ Len(kept) \in {0, 1, 2}
       /\ kept = <<>> <=> Len(kept) = 0
       /\ c.e < e => \A m \in 1 .. Len(kept) : kept[m].e <= c.e
       /\ out \in Seq(Region) /\ Sorted(out)
       /\ Covered(out) = Covered(list) \ (c.b .. c.e - 1)
  <2>1. CutLeaves(list, at, s, e)
    BY <1>3, <1>6, <1>9, <1>11, CutFacts, Zenon
  <2> QED
    BY <2>1, Zenon DEF CutLeaves
<1>13. /\ Len(out) = Len(list) - 1 + Len(kept)
       /\ at + Len(kept) \in 1 .. Len(out) + 1
       /\ c.e < e => \A i \in 1 .. (at + Len(kept)) - 1 : out[i].e <= c.e
       /\ \A i \in at + Len(kept) .. Len(out) : out[i].e > c.e
  BY <1>3, <1>4, <1>6, <1>9, <1>11, CutMoves, Zenon
<1>14. /\ c.b <= c.e /\ c.e <= MMAP_END /\ c.e <= e /\ c.e > s /\ c.b >= s
       /\ MMAP_BEGIN <= c.b
  <2> HIDE DEF c, r
  <2>1. /\ c.b \in Nat /\ c.e \in Nat /\ c.b < c.e
        /\ c.b = IF s >= r.b THEN s ELSE r.b
        /\ c.e = IF e <= r.e THEN e ELSE r.e
    BY <1>12, Zenon
  <2> HIDE DEF s, e
  <2>2. /\ s \in Nat /\ e \in Nat /\ r.b \in Nat /\ r.e \in Nat
        /\ MMAP_BEGIN \in Nat /\ MMAP_END \in Nat /\ call.from \in Nat
        /\ MMAP_BEGIN <= r.b /\ r.e <= MMAP_END /\ s < e /\ r.e > s
        /\ MMAP_BEGIN <= call.from /\ call.from <= s
    BY <1>3, <1>4, <1>6, <1>10, <1>11, Zenon
  <2> QED
    BY <2>1, <2>2
<1> HIDE DEF c
<1>15. /\ run.pt \in SUBSET Pages
       /\ run.pt \subseteq pt[p]
       /\ pt[p] \ (c.b .. c.e - 1) \subseteq run.pt
       /\ run.ok \in BOOLEAN
       /\ run.ok => run.pt = pt[p] \ (c.b .. c.e - 1)
       /\ c.b .. c.e - 1 \subseteq pt[p] => run.ok
       /\ run.freed \in Nat
       /\ Cardinality(run.pt) = Cardinality(pt[p]) - run.freed
  <2>1. c.b \in Nat /\ c.e \in Nat
    BY <1>12, Zenon
  <2>2. pt[p] \in SUBSET Pages
    BY <1>3, Zenon
  <2>3. c.b <= c.e /\ c.e <= MMAP_END
    BY <1>14, Zenon
  <2>4. PICK m \in SUBSET Pages, f \in Nat, t \in Nat :
          m = pt[p] /\ f = c.b /\ t = c.e
    BY <2>1, <2>2, Zenon
  <2>5. f <= t /\ t <= MMAP_END /\ run = UnmapRun(m, f, t)
    BY <2>3, <2>4, Zenon
  <2> HIDE DEF run
  <2>6. /\ run.pt \in SUBSET Pages
        /\ run.pt \subseteq m
        /\ m \ (f .. t - 1) \subseteq run.pt
        /\ run.ok \in BOOLEAN
        /\ run.ok => run.pt = m \ (f .. t - 1)
        /\ f .. t - 1 \subseteq m => run.ok
        /\ run.freed \in Nat
        /\ Cardinality(run.pt) = Cardinality(m) - run.freed
    BY <2>5, UnmapRunFacts, Zenon
  <2> QED
    BY <2>4, <2>6, Zenon
<1> HIDE DEF run, kept, out
<1>16. c.b .. c.e - 1 \subseteq Covered(list) /\ c.b .. c.e - 1 \subseteq Window
  <2>1. c.b .. c.e - 1 \subseteq r.b .. r.e - 1
    <3>1. /\ c.b \in Nat /\ c.e \in Nat
          /\ c.b = IF s >= r.b THEN s ELSE r.b
          /\ c.e = IF e <= r.e THEN e ELSE r.e
      BY <1>12, Zenon
    <3> HIDE DEF r, s, e
    <3> QED
      BY <3>1, <1>6, <1>10
  <2>2. r.b .. r.e - 1 \subseteq Covered(list)
    <3>1. at \in DOMAIN list
      BY <1>3, <1>9
    <3> QED
      BY <3>1, Zenon DEF Covered
  <2>3. Covered(list) \subseteq Window
    BY <1>3, CoveredInWindow, Zenon
  <2> QED
    BY <2>1, <2>2, <2>3, Zenon
<1>17. p \notin torn => run.ok
  BY <1>7, <1>15, <1>16, Zenon
<1>18. heapBase[p] .. heapTop[p] - 1 \subseteq run.pt
  <2>1. (heapBase[p] .. heapTop[p] - 1) \cap (c.b .. c.e - 1) = {}
    <3>1. c.b \in Nat /\ c.e \in Nat /\ MMAP_BEGIN <= c.b
      BY <1>12, <1>14, Zenon
    <3> QED
      BY <3>1, <1>3, <1>7
  <2> QED
    BY <2>1, <1>7, <1>15, Zenon
<1>19. /\ used' = used + Cardinality(run.pt) - Cardinality(pt[p]) + (lost' - lost)
       /\ lost' \in Nat
  <2>1. /\ used' = used - run.freed /\ run.freed \in Nat /\ lost' = lost
        /\ Cardinality(run.pt) = Cardinality(pt[p]) - run.freed
    BY <1>1, <1>15, Zenon
  <2> QED
    BY <2>1, <1>2
<1>20. l \in Seq(Region) /\ Sorted(l) /\ regions' = [regions EXCEPT ![p] = l]
  BY <1>1, <1>2, <1>3, <1>12, Zenon
<1>21. p \notin torn' => Covered(l) = run.pt \cap Window
  <2> SUFFICES ASSUME p \notin torn' PROVE Covered(l) = run.pt \cap Window
    BY Zenon
  <2>1. p \notin torn /\ ~(run.ok /\ noNode)
    BY <1>1, Zenon
  <2>2. run.ok /\ done /\ l = out
    BY <2>1, <1>17, Zenon
  <2>3. /\ Covered(out) = Covered(list) \ (c.b .. c.e - 1)
        /\ Covered(list) = pt[p] \cap Window
        /\ run.pt = pt[p] \ (c.b .. c.e - 1)
    BY <2>1, <2>2, <1>7, <1>12, <1>15, Zenon
  <2> QED
    BY <2>2, <2>3, Zenon
<1>22. nodes' \in Nat /\ dropped' \in Nat
  <2>1. done => nodes' = Returned(kept, nodes)
    BY <1>1, Zenon
  <2>2. ~done => nodes' = nodes
    BY <1>1, Zenon
  <2>3. done => ~(Len(kept) = 2 /\ nodes = 0)
    BY Zenon
  <2>4. dropped' = dropped
    BY <1>1, Zenon
  <2> HIDE DEF done, noNode
  <2>5. CASE done
    BY <2>1, <2>3, <2>4, <2>5, <1>2 DEF Returned
  <2>6. CASE ~done
    BY <2>2, <2>4, <2>6, <1>2, Zenon
  <2> QED
    BY <2>5, <2>6, Zenon
<1>23. nodes' + Len(l) + dropped' = nodes + Len(list) + dropped
  <2>1. CASE ~done
    BY <2>1, <1>1, Zenon
  <2>2. CASE done
    <3>1. /\ nodes' = Returned(kept, nodes) /\ Len(l) = Len(list) - 1 + Len(kept)
          /\ dropped' = dropped
      BY <2>2, <1>1, <1>13, Zenon
    <3>2. Len(kept) \in {0, 1, 2} /\ (kept = <<>> <=> Len(kept) = 0)
      BY <1>12, Zenon
    <3>3. PICK n \in Int, d \in Int, x \in Int, k \in Int :
            /\ n = nodes /\ d = dropped /\ x = Len(list) /\ k = Len(kept)
      <4>1. /\ nodes \in Int /\ dropped \in Int /\ Len(list) \in Int
            /\ Len(kept) \in Int
        BY <1>2, <3>2
      <4> QED
        BY <4>1, Zenon
    <3>4. Returned(kept, nodes) = IF k = 0 THEN n + 1
                                  ELSE IF k = 2 THEN n - 1 ELSE n
      BY <3>2, <3>3, Zenon DEF Returned
    <3>5. k \in {0, 1, 2}
      BY <3>2, <3>3, Zenon
    <3>6. (IF k = 0 THEN n + 1 ELSE IF k = 2 THEN n - 1 ELSE n)
            + (x - 1 + k) + d = n + x + d
      BY <3>5
    <3> QED
      BY <3>1, <3>3, <3>4, <3>6, Zenon
  <2> QED
    BY <2>1, <2>2, Zenon
<1>24. FitInv' /\ CutInv' /\ call' \in {Idle} \cup FitCalls \cup CutCalls
  <2>1. CASE ~done
    <3>1. call' = Idle
      BY <2>1, <1>1, Zenon
    <3> QED
      BY <3>1, EndsIdle, Zenon
  <2>2. CASE done
    <3>1. call' = [call EXCEPT !.at = call.at + Len(kept), !.s = c.e]
      BY <2>2, <1>1, Zenon
    <3>2. PICK a \in Nat, x \in Nat : a = call.at + Len(kept) /\ x = c.e
      <4>1. call.at + Len(kept) \in Nat /\ c.e \in Nat
        BY <1>6, <1>12, SMTT(30)
      <4> QED
        BY <4>1, Zenon
    <3>3. call' = [call EXCEPT !.at = a, !.s = x]
      BY <3>1, <3>2, Zenon
    <3>4. PICK o \in CutCalls, d \in {call'} : o = call /\ d = call'
      BY <1>5, Zenon
    <3>5. d = [o EXCEPT !.at = a, !.s = x]
      BY <3>3, <3>4, Zenon
    <3>6. /\ d \in CutCalls /\ d.op = "cut" /\ d.p = o.p /\ d.e = o.e
          /\ d.from = o.from /\ d.had = o.had /\ d.at = a /\ d.s = x
      BY <3>5, Zenon DEF CutCalls
    <3>7. /\ call' \in CutCalls /\ call'.op = "cut" /\ call'.p = p /\ call'.e = e
          /\ call'.from = call.from /\ call'.had = call.had
          /\ call'.at = at + Len(kept) /\ call'.s = c.e
      <4>1. call.p = p
        BY <1>1, Zenon
      <4> QED
        BY <4>1, <3>2, <3>4, <3>6, Zenon
    <3>8. regions'[call'.p] = out /\ call'.p \in live'
      <4>1. regions'[p] = out
        <5>1. regions' = [regions EXCEPT ![p] = out]
          BY <2>2, <1>1, Zenon
        <5> QED
          BY <5>1, Zenon DEF IInv, TypeOK
      <4>2. p \in live'
        BY <1>1, <1>4, Zenon
      <4> QED
        BY <4>1, <4>2, <3>7, Zenon
    <3>9. /\ call'.at \in 1 .. Len(out) + 1
          /\ call'.from <= call'.s /\ call'.s <= call'.e
          /\ MMAP_BEGIN <= call'.from /\ call'.e <= MMAP_END
      <4>1. call.from <= c.e
        <5>1. c.e \in Nat
          BY <1>12, Zenon
        <5> HIDE DEF s
        <5> QED
          BY <5>1, <1>4, <1>6, <1>14
      <4>2. MMAP_BEGIN <= call.from /\ e <= MMAP_END
        BY <1>4, Zenon
      <4> QED
        BY <4>1, <4>2, <3>7, <1>13, <1>14, Zenon
    <3>10. /\ call'.s < call'.e => \A i \in 1 .. call'.at - 1 : out[i].e <= call'.s
           /\ \A i \in call'.at .. Len(out) : out[i].e > call'.s
      <4>1. CASE call'.s < call'.e
        <5>1. c.e < e
          BY <4>1, <3>7, Zenon
        <5>2. /\ \A i \in 1 .. (at + Len(kept)) - 1 : out[i].e <= c.e
              /\ \A i \in at + Len(kept) .. Len(out) : out[i].e > c.e
          BY <5>1, <1>13, Zenon
        <5>3. call'.at = at + Len(kept) /\ call'.s = c.e
          BY <3>7, Zenon
        <5>4. ASSUME NEW i \in 1 .. call'.at - 1 PROVE out[i].e <= call'.s
          <6>1. i \in 1 .. (at + Len(kept)) - 1
            BY <5>3, Zenon
          <6>2. out[i].e <= c.e
            BY <6>1, <5>2, Zenon
          <6> QED
            BY <6>2, <5>3, Zenon
        <5>5. \A i \in call'.at .. Len(out) : out[i].e > call'.s
          BY <5>2, <5>3, Zenon
        <5> QED
          BY <5>4, <5>5, Zenon
      <4>2. CASE ~(call'.s < call'.e)
        BY <4>2, <3>7, <1>13, Zenon
      <4> QED
        BY <4>1, <4>2, Zenon
    <3>11. Covered(out) = call'.had \ (call'.from .. call'.s - 1)
      <4>1. (s .. c.b - 1) \cap Covered(list) = {}
        <5>1. CASE s >= r.b
          <6>1. c.b = s
            BY <5>1, <1>12, Zenon
          <6>2. s .. s - 1 = {}
            BY <1>6
          <6> QED
            BY <6>1, <6>2, Zenon
        <5>2. CASE ~(s >= r.b)
          <6>1. c.b = r.b
            BY <5>2, <1>12, Zenon
          <6>2. at <= Len(list) => r.b <= list[at].b
            BY <1>10
          <6>3. \A i \in 1 .. at - 1 : list[i].e <= s
            BY <1>4, <1>11, Zenon
          <6>4. r.b \in Nat /\ s \in Nat /\ list \in Seq(Region) /\ Sorted(list)
            BY <1>3, <1>6, <1>10, Zenon
          <6>5. at \in 1 .. Len(list) + 1
            BY <1>4, Zenon
          <6> QED
            BY <6>1, <6>2, <6>3, <6>4, <6>5, NothingBetween, Zenon
        <5> QED
          BY <5>1, <5>2, Zenon
      <4>2. Covered(list) = call.had \ (call.from .. s - 1)
        BY <1>4, Zenon
      <4>3. Covered(out) = Covered(list) \ (c.b .. c.e - 1)
        BY <1>12, Zenon
      <4>4. \A y \in Int : y \in call.from .. c.e - 1 <=>
              \/ y \in call.from .. s - 1 \/ y \in s .. c.b - 1
              \/ y \in c.b .. c.e - 1
        <5>1. PICK f \in Nat, b1 \in Nat, e1 \in Nat, s1 \in Nat :
                f = call.from /\ b1 = c.b /\ e1 = c.e /\ s1 = s
          BY <1>6, <1>12, Zenon
        <5>2. f <= s1 /\ s1 <= b1 /\ b1 <= e1
          <6>1. call.from <= s /\ s <= c.b /\ c.b <= c.e
            <7>1. c.b >= s => s <= c.b
              BY <1>6, <1>12, Zenon
            <7> QED
              BY <7>1, <1>4, <1>14, Zenon
          <6> QED
            BY <6>1, <5>1, Zenon
        <5>3. \A y \in Int : y \in f .. e1 - 1 <=>
                \/ y \in f .. s1 - 1 \/ y \in s1 .. b1 - 1 \/ y \in b1 .. e1 - 1
          BY <5>2, SMTT(30)
        <5> QED
          BY <5>1, <5>3, Zenon
      <4>5. call.had \subseteq Int
        BY <1>3, <1>5 DEF CutCalls, Window
      <4>6. Covered(out) = call.had \ (call.from .. c.e - 1)
        BY <4>1, <4>2, <4>3, <4>4, <4>5, Zenon
      <4> QED
        BY <4>6, <3>7, Zenon
    <3>12. CutInv'
      <4> HIDE DEF done
      <4> QED
        BY <3>7, <3>8, <3>9, <3>10, <3>11, Zenon DEF CutInv, Covered
    <3>13. FitInv'
      BY <3>7, Zenon DEF FitInv
    <3> QED
      BY <3>7, <3>12, <3>13, Zenon
  <2> QED
    BY <2>1, <2>2, Zenon
<1>25. /\ live' \subseteq Procs /\ live' \ {p} = live \ {p} /\ p \in live'
       /\ torn' \subseteq Procs /\ torn' \ {p} = torn \ {p}
  BY <1>1, <1>2, <1>4, Zenon
<1>26. /\ p \notin live' => run.pt = {} /\ l = <<>>
       /\ p \in live' => /\ heapTop[p] <= MMAP_BEGIN
                         /\ heapBase[p] .. heapTop[p] - 1 \subseteq run.pt
       /\ p \in live' /\ p \notin torn' => Covered(l) = run.pt \cap Window
  BY <1>7, <1>18, <1>21, <1>25, Zenon
<1>27. pt' = [pt EXCEPT ![p] = run.pt] /\ run.pt \in SUBSET Pages
  BY <1>1, <1>15, Zenon
<1>28. /\ heapBase' = [heapBase EXCEPT ![p] = heapBase[p]]
       /\ heapTop' = [heapTop EXCEPT ![p] = heapTop[p]]
       /\ heapBase[p] \in Nat /\ heapTop[p] \in Nat
  BY <1>1, <1>2, <1>3, Zenon
<1> HIDE DEF l
<1> QED
  BY <1>19, <1>20, <1>22, <1>23, <1>24, <1>25, <1>26, <1>27, <1>28, SlotStep, Zenon

-----------------------------------------------------------------------------
(* A step outside mmap and munmap that changes the page table and the break *)
(* of one slot below the window.                                            *)
LEMMA PageStep ==
  ASSUME IInv, NEW p \in live, NEW m \in SUBSET Pages, NEW top \in Nat,
         pt' = [pt EXCEPT ![p] = m], heapTop' = [heapTop EXCEPT ![p] = top],
         used' = used + Cardinality(m) - Cardinality(pt[p]) + (lost' - lost),
         lost' \in Nat, live' = live, regions' = regions, heapBase' = heapBase,
         nodes' = nodes, dropped' = dropped, torn' = torn, call' = Idle,
         top <= MMAP_BEGIN, heapBase[p] .. top - 1 \subseteq m,
         m \cap Window = pt[p] \cap Window
  PROVE  IInv'
<1>1. p \in Procs
  BY Zenon DEF IInv, TypeOK
<1>2. /\ regions = [regions EXCEPT ![p] = regions[p]]
      /\ heapBase = [heapBase EXCEPT ![p] = heapBase[p]]
      /\ nodes \in Nat /\ dropped \in Nat
      /\ regions[p] \in Seq(Region) /\ Sorted(regions[p]) /\ heapBase[p] \in Nat
      /\ live \subseteq Procs /\ torn \subseteq Procs
      /\ p \in live /\ p \notin torn => Covered(regions[p]) = pt[p] \cap Window
  BY <1>1, SlotFacts, Zenon
<1>3. /\ live' \subseteq Procs /\ live' \ {p} = live \ {p}
      /\ torn' \subseteq Procs /\ torn' \ {p} = torn \ {p}
      /\ nodes' \in Nat /\ dropped' \in Nat
      /\ nodes' + Len(regions[p]) + dropped' = nodes + Len(regions[p]) + dropped
  BY <1>2, Zenon
<1>4. /\ p \notin live' => m = {} /\ regions[p] = <<>>
      /\ p \in live' => top <= MMAP_BEGIN /\ heapBase[p] .. top - 1 \subseteq m
      /\ p \in live' /\ p \notin torn' => Covered(regions[p]) = m \cap Window
  BY <1>2, Zenon
<1>5. FitInv' /\ CutInv' /\ call' \in {Idle} \cup FitCalls \cup CutCalls
  BY EndsIdle, Zenon
<1>6. /\ regions' = [regions EXCEPT ![p] = regions[p]]
      /\ heapBase' = [heapBase EXCEPT ![p] = heapBase[p]]
  BY <1>2, Zenon
<1>7. regions[p] \in Seq(Region) /\ Sorted(regions[p]) /\ heapBase[p] \in Nat
  BY <1>2, Zenon
<1> QED
  BY <1>1, <1>3, <1>4, <1>5, <1>6, <1>7, SlotStep, Zenon

(* sys_brk upwards (syscall/brk.rs:38-58).                                  *)
LEMMA BrkGrowStep ==
  ASSUME IInv, NEW p \in Procs, NEW top \in Nat, BrkGrow(p, top), call' = Idle
  PROVE  IInv'
<1> DEFINE run == MapRun(pt[p], heapTop[p], top)
           ht == IF run.ok THEN top ELSE heapTop[p]
<1>1. /\ p \in live /\ top <= MMAP_BEGIN /\ top > heapTop[p]
      /\ pt' = [pt EXCEPT ![p] = run.pt] /\ used' = used + run.got
      /\ lost' = IF run.ok THEN lost ELSE lost + 1
      /\ heapTop' = IF run.ok THEN [heapTop EXCEPT ![p] = top] ELSE heapTop
      /\ live' = live /\ regions' = regions /\ heapBase' = heapBase
      /\ nodes' = nodes /\ dropped' = dropped /\ torn' = torn
  BY Zenon DEF BrkGrow, Break, InBreakRange
<1>2. /\ heapTop = [heapTop EXCEPT ![p] = heapTop[p]]
      /\ Cardinality(pt[p]) \in Nat /\ used \in Int /\ lost \in Nat
  BY SlotFacts, Zenon
<1>3. /\ heapBase[p] \in Nat /\ heapTop[p] \in Nat /\ heapTop[p] <= MMAP_BEGIN
      /\ heapBase[p] .. heapTop[p] - 1 \subseteq pt[p]
      /\ MMAP_BEGIN \in Nat /\ MMAP_END \in Nat /\ MMAP_BEGIN < MMAP_END
  BY <1>1, SlotFacts, Zenon
<1>4. heapTop[p] <= top /\ top <= MMAP_END
  <2>1. top > heapTop[p] /\ top <= MMAP_BEGIN
    BY <1>1, Zenon
  <2> QED
    BY <2>1, <1>3
<1>5. /\ run.pt \in SUBSET Pages /\ pt[p] \subseteq run.pt
      /\ run.pt \subseteq pt[p] \cup (heapTop[p] .. top - 1)
      /\ run.ok \in BOOLEAN
      /\ run.ok => run.pt = pt[p] \cup (heapTop[p] .. top - 1)
      /\ ~run.ok => (heapTop[p] .. top - 1) \cap pt[p] # {}
      /\ run.got \in Nat
      /\ Cardinality(run.pt) = Cardinality(pt[p]) + run.got
                                 - (IF run.ok THEN 0 ELSE 1)
  <2>1. pt[p] \in SUBSET Pages /\ heapTop[p] \in Nat
    BY SlotFacts, Zenon
  <2> QED
    BY <2>1, <1>4, MapRunFacts, Zenon
<1> HIDE DEF run
<1>6. heapTop' = [heapTop EXCEPT ![p] = ht] /\ ht \in Nat /\ ht <= MMAP_BEGIN
  BY <1>1, <1>2, <1>3, Zenon
<1>7. heapBase[p] .. ht - 1 \subseteq run.pt
  <2>1. CASE run.ok
    <3>1. \A x \in Int : x \in heapBase[p] .. top - 1 =>
            x \in heapBase[p] .. heapTop[p] - 1 \/ x \in heapTop[p] .. top - 1
      BY <1>3
    <3>2. heapBase[p] .. top - 1 \subseteq Int
      BY <1>3
    <3>3. ht = top /\ run.pt = pt[p] \cup (heapTop[p] .. top - 1)
      BY <2>1, <1>5, Zenon
    <3> QED
      BY <3>1, <3>2, <3>3, <1>3, Zenon
  <2>2. CASE ~run.ok
    BY <2>2, <1>3, <1>5, Zenon
  <2> QED
    BY <2>1, <2>2, Zenon
<1>8. run.pt \cap Window = pt[p] \cap Window
  <2>1. (heapTop[p] .. top - 1) \cap Window = {}
    <3>1. top <= MMAP_BEGIN
      BY <1>1, Zenon
    <3> QED
      BY <3>1, <1>3 DEF Window
  <2> QED
    BY <2>1, <1>5, Zenon
<1>9. /\ used' = used + Cardinality(run.pt) - Cardinality(pt[p]) + (lost' - lost)
      /\ lost' \in Nat
  <2>1. /\ used' = used + run.got /\ run.got \in Nat
        /\ lost' = IF run.ok THEN lost ELSE lost + 1
        /\ Cardinality(run.pt) = Cardinality(pt[p]) + run.got
                                    - (IF run.ok THEN 0 ELSE 1)
    BY <1>1, <1>5, Zenon
  <2> QED
    BY <2>1, <1>2
<1> HIDE DEF ht
<1> QED
  BY <1>1, <1>5, <1>6, <1>7, <1>8, <1>9, PageStep, Zenon

(* sys_brk downwards: the pages it unmaps are all there.                    *)
LEMMA BrkShrinkStep ==
  ASSUME IInv, NEW p \in Procs, NEW top \in Nat, BrkShrink(p, top), call' = Idle
  PROVE  IInv'
<1> DEFINE run == UnmapRun(pt[p], top, heapTop[p])
<1>1. /\ p \in live /\ heapBase[p] <= top /\ top <= MMAP_BEGIN /\ top < heapTop[p]
      /\ pt' = [pt EXCEPT ![p] = run.pt] /\ used' = used - run.freed
      /\ lost' = lost
      /\ heapTop' = IF run.ok THEN [heapTop EXCEPT ![p] = top] ELSE heapTop
      /\ live' = live /\ regions' = regions /\ heapBase' = heapBase
      /\ nodes' = nodes /\ dropped' = dropped /\ torn' = torn
  BY Zenon DEF BrkShrink, Break, InBreakRange
<1>2. Cardinality(pt[p]) \in Nat /\ used \in Int /\ lost \in Nat
  BY SlotFacts, Zenon
<1>3. /\ heapBase[p] \in Nat /\ heapTop[p] \in Nat /\ heapTop[p] <= MMAP_BEGIN
      /\ heapBase[p] .. heapTop[p] - 1 \subseteq pt[p]
      /\ MMAP_BEGIN \in Nat /\ MMAP_END \in Nat /\ MMAP_BEGIN < MMAP_END
  BY <1>1, SlotFacts, Zenon
<1>4. heapBase[p] <= top /\ top <= MMAP_BEGIN /\ top < heapTop[p]
  BY <1>1, Zenon
<1>5. top <= heapTop[p] /\ heapTop[p] <= MMAP_END
  BY <1>3, <1>4
<1>6. /\ run.pt \in SUBSET Pages
      /\ run.pt \subseteq pt[p]
      /\ pt[p] \ (top .. heapTop[p] - 1) \subseteq run.pt
      /\ run.ok \in BOOLEAN
      /\ run.ok => run.pt = pt[p] \ (top .. heapTop[p] - 1)
      /\ top .. heapTop[p] - 1 \subseteq pt[p] => run.ok
      /\ run.freed \in Nat
      /\ Cardinality(run.pt) = Cardinality(pt[p]) - run.freed
  <2>1. pt[p] \in SUBSET Pages /\ heapTop[p] \in Nat
    BY SlotFacts, Zenon
  <2>2. PICK m \in SUBSET Pages, t \in Nat : m = pt[p] /\ t = heapTop[p]
    BY <2>1, Zenon
  <2>3. top <= t /\ t <= MMAP_END /\ run = UnmapRun(m, top, t)
    BY <2>2, <1>5, Zenon
  <2> HIDE DEF run
  <2>4. /\ run.pt \in SUBSET Pages
        /\ run.pt \subseteq m
        /\ m \ (top .. t - 1) \subseteq run.pt
        /\ run.ok \in BOOLEAN
        /\ run.ok => run.pt = m \ (top .. t - 1)
        /\ top .. t - 1 \subseteq m => run.ok
        /\ run.freed \in Nat
        /\ Cardinality(run.pt) = Cardinality(m) - run.freed
    BY <2>3, UnmapRunFacts, Zenon
  <2> QED
    BY <2>2, <2>4, Zenon
<1> HIDE DEF run
<1>7. run.ok
  <2>1. top .. heapTop[p] - 1 \subseteq heapBase[p] .. heapTop[p] - 1
    BY <1>3, <1>4
  <2> QED
    BY <2>1, <1>3, <1>6, Zenon
<1>8. heapBase[p] .. top - 1 \subseteq run.pt
  <2>1. heapBase[p] .. top - 1 \subseteq heapBase[p] .. heapTop[p] - 1
    BY <1>3, <1>4
  <2>2. (heapBase[p] .. top - 1) \cap (top .. heapTop[p] - 1) = {}
    BY <1>3, <1>4
  <2> QED
    BY <2>1, <2>2, <1>3, <1>6, Zenon
<1>9. run.pt \cap Window = pt[p] \cap Window
  <2>1. (top .. heapTop[p] - 1) \cap Window = {}
    BY <1>3, <1>4 DEF Window
  <2> QED
    BY <2>1, <1>6, Zenon
<1>10. /\ used' = used + Cardinality(run.pt) - Cardinality(pt[p]) + (lost' - lost)
       /\ lost' \in Nat
  <2>1. /\ used' = used - run.freed /\ run.freed \in Nat /\ lost' = lost
        /\ Cardinality(run.pt) = Cardinality(pt[p]) - run.freed
    BY <1>1, <1>6, Zenon
  <2> QED
    BY <2>1, <1>2
<1>11. heapTop' = [heapTop EXCEPT ![p] = top]
  BY <1>1, <1>7, Zenon
<1> QED
  BY <1>1, <1>6, <1>8, <1>9, <1>10, <1>11, PageStep, Zenon

(* A fault in the stack window maps the missing pages up to the top.        *)
LEMMA StackFaultStep ==
  ASSUME IInv, NEW p \in Procs, NEW va \in Pages, StackFault(p, va), call' = Idle
  PROVE  IInv'
<1> DEFINE missing == (va .. STACK_TOP - 1) \ pt[p]
           m == pt[p] \cup missing
<1>1. /\ p \in live /\ pt' = [pt EXCEPT ![p] = m]
      /\ used' = used + Cardinality(missing) /\ lost' = lost
      /\ live' = live /\ regions' = regions /\ heapBase' = heapBase
      /\ heapTop' = heapTop /\ nodes' = nodes /\ dropped' = dropped /\ torn' = torn
  BY Zenon DEF StackFault
<1>2. /\ heapTop = [heapTop EXCEPT ![p] = heapTop[p]]
      /\ Cardinality(pt[p]) \in Nat /\ used \in Int /\ lost \in Nat
  BY SlotFacts, Zenon
<1>3. /\ pt[p] \in SUBSET Pages /\ heapTop[p] \in Nat /\ heapTop[p] <= MMAP_BEGIN
      /\ heapBase[p] .. heapTop[p] - 1 \subseteq pt[p]
  BY <1>1, SlotFacts, Zenon
<1>4. /\ va .. STACK_TOP - 1 \subseteq Pages
      /\ (va .. STACK_TOP - 1) \cap Window = {}
  BY LayoutAssumption DEF Pages, Window
<1>5. m \in SUBSET Pages /\ missing \in SUBSET Pages /\ m \cap Window = pt[p] \cap Window
  BY <1>3, <1>4, Zenon
<1>6. Cardinality(m) = Cardinality(pt[p]) + Cardinality(missing)
  <2>1. /\ IsFiniteSet(pt[p]) /\ IsFiniteSet(missing)
        /\ Cardinality(missing) \in Nat
    BY <1>3, <1>5, PagesFinite, Zenon
  <2>2. pt[p] \cap missing = {}
    BY Zenon
  <2> HIDE DEF missing
  <2>3. Cardinality(m) = Cardinality(pt[p]) + Cardinality(missing)
                           - Cardinality(pt[p] \cap missing)
    BY <2>1, FS_Union, Zenon
  <2> QED
    BY <2>1, <2>2, <2>3, <1>2, FS_EmptySet
<1>7. /\ used' = used + Cardinality(m) - Cardinality(pt[p]) + (lost' - lost)
      /\ lost' \in Nat
  <2>1. used' = used + Cardinality(missing) /\ lost' = lost
    BY <1>1, Zenon
  <2>2. Cardinality(missing) \in Nat
    BY <1>5, PagesFinite, Zenon
  <2> HIDE DEF m, missing
  <2> QED
    BY <2>1, <2>2, <1>2, <1>6
<1>8. heapTop' = [heapTop EXCEPT ![p] = heapTop[p]]
      /\ heapBase[p] .. heapTop[p] - 1 \subseteq m
  BY <1>1, <1>2, <1>3, Zenon
<1>9. heapTop[p] \in Nat /\ heapTop[p] <= MMAP_BEGIN
  BY <1>3, Zenon
<1> HIDE DEF m, missing
<1> QED
  BY <1>1, <1>5, <1>7, <1>8, <1>9, PageStep, Zenon

(* The empty list covers nothing.                                           *)
LEMMA EmptyList ==
  /\ <<>> \in Seq(Region) /\ Sorted(<<>>) /\ Covered(<<>>) = {} /\ Len(<<>>) = 0
<1>1. <<>> \in Seq(Region) /\ Len(<<>>) = 0 /\ DOMAIN <<>> = {}
  OBVIOUS
<1> QED
  BY <1>1, Zenon DEF Sorted, Covered

(* fork: a copy of the page table and an empty list.                        *)
LEMMA ForkStep ==
  ASSUME IInv, NEW p \in Procs, NEW c \in Procs, Fork(p, c), call' = Idle
  PROVE  IInv'
<1> DEFINE m == pt[p]
<1>1. /\ p \in live /\ c \notin live /\ live' = live \cup {c}
      /\ pt' = [pt EXCEPT ![c] = m] /\ used' = used + Cardinality(m)
      /\ heapBase' = [heapBase EXCEPT ![c] = heapBase[p]]
      /\ heapTop' = [heapTop EXCEPT ![c] = heapTop[p]]
      /\ torn' = (IF m \cap Window = {} THEN torn ELSE torn \cup {c})
      /\ regions' = regions /\ nodes' = nodes /\ lost' = lost /\ dropped' = dropped
  BY Zenon DEF Fork
<1>2. /\ pt[c] = {} /\ regions[c] = <<>> /\ used \in Int /\ lost \in Nat
      /\ nodes \in Nat /\ dropped \in Nat
      /\ regions = [regions EXCEPT ![c] = regions[c]]
      /\ live \subseteq Procs /\ torn \subseteq Procs
  BY <1>1, SlotFacts, Zenon
<1>3. /\ m \in SUBSET Pages /\ heapBase[p] \in Nat /\ heapTop[p] \in Nat
      /\ heapTop[p] <= MMAP_BEGIN /\ heapBase[p] .. heapTop[p] - 1 \subseteq m
      /\ Cardinality(m) \in Nat
  BY <1>1, SlotFacts, Zenon
<1>4. regions' = [regions EXCEPT ![c] = <<>>]
  BY <1>1, <1>2, Zenon
<1>5. /\ live' \subseteq Procs /\ live' \ {c} = live \ {c} /\ c \in live'
      /\ torn' \subseteq Procs /\ torn' \ {c} = torn \ {c}
  BY <1>1, <1>2, Zenon
<1>6. /\ c \notin live' => m = {} /\ <<>> = <<>>
      /\ c \in live' => /\ heapTop[p] <= MMAP_BEGIN
                        /\ heapBase[p] .. heapTop[p] - 1 \subseteq m
      /\ c \in live' /\ c \notin torn' => Covered(<<>>) = m \cap Window
  BY <1>1, <1>3, <1>5, EmptyList, Zenon
<1>7. /\ used' = used + Cardinality(m) - Cardinality(pt[c]) + (lost' - lost)
      /\ lost' \in Nat
  <2>1. used' = used + Cardinality(m) /\ lost' = lost /\ Cardinality(pt[c]) = 0
    BY <1>1, <1>2, FS_EmptySet, Zenon
  <2> HIDE DEF m
  <2> QED
    BY <2>1, <1>2, <1>3
<1>8. /\ nodes' + Len(<<>>) + dropped' = nodes + Len(regions[c]) + dropped
      /\ nodes' \in Nat /\ dropped' \in Nat
  BY <1>1, <1>2, Zenon
<1>9. FitInv' /\ CutInv' /\ call' \in {Idle} \cup FitCalls \cup CutCalls
  BY EndsIdle, Zenon
<1>10. /\ pt' = [pt EXCEPT ![c] = m] /\ heapBase' = [heapBase EXCEPT ![c] = heapBase[p]]
       /\ heapTop' = [heapTop EXCEPT ![c] = heapTop[p]]
  BY <1>1, Zenon
<1>11. m \in SUBSET Pages /\ heapBase[p] \in Nat /\ heapTop[p] \in Nat
  BY <1>3, Zenon
<1> HIDE DEF m
<1> QED
  BY <1>4, <1>5, <1>6, <1>7, <1>8, <1>9, <1>10, <1>11, EmptyList, SlotStep, Zenon

(* A non-empty set of pages below some bound has a largest one.             *)
LEMMA Largest ==
  ASSUME NEW N \in Nat, NEW S \in SUBSET (1 .. N), S # {}
  PROVE  Max(S) \in S
<1> DEFINE Bounds == {n \in Nat : \A x \in S : x <= n}
<1>1. N \in Bounds /\ Bounds \in SUBSET Nat
  OBVIOUS
<1>2. Min(Bounds) \in Bounds /\ \A n \in Bounds : Min(Bounds) <= n
  BY <1>1, Least, Zenon
<1>3. PICK u \in Nat : u = Min(Bounds) /\ (\A x \in S : x <= u)
                        /\ (\A n \in Bounds : u <= n)
  BY <1>2, Zenon
<1>4. u \in S
  <2> SUFFICES ASSUME u \notin S PROVE FALSE
    BY Zenon
  <2>1. u # 0
    <3>1. PICK x \in S : x \in 1 .. N
      BY Zenon
    <3>2. x <= u /\ x >= 1
      BY <3>1, <1>3
    <3> QED
      BY <3>1, <3>2
  <2>2. u - 1 \in Nat /\ \A x \in S : x <= u - 1
    BY <1>3, <2>1
  <2>3. u - 1 \in Bounds
    BY <2>2, Zenon
  <2> QED
    BY <2>3, <1>3
<1>5. \E x \in S : \A y \in S : x >= y
  BY <1>3, <1>4, Zenon
<1> QED
  BY <1>5, Zenon DEF Max

(* What a program loads lies below the window, and so does the end of it.   *)
LEMMA LoadedFacts ==
  ASSUME NEW prog \in Programs
  PROVE  /\ Loaded(prog) \in SUBSET Pages /\ Loaded(prog) \cap Window = {}
         /\ MaxVa(prog) \in Nat /\ MaxVa(prog) <= MMAP_BEGIN
<1>1. /\ MMAP_BEGIN \in Nat /\ MMAP_END \in Nat /\ MMAP_BEGIN < MMAP_END
      /\ STACK_TOP \in Nat /\ STACK_TOP > 0 /\ STACK_TOP <= MMAP_BEGIN
      /\ prog \subseteq 1 .. MMAP_BEGIN - 1
  BY LayoutAssumption
<1>2. CASE prog = {}
  BY <1>1, <1>2 DEF Loaded, MaxVa, Pages, Window
<1>3. CASE prog # {}
  <2>1. MMAP_BEGIN - 1 \in Nat
    BY <1>1
  <2>2. Max(prog) \in prog
    BY <2>1, <1>1, <1>3, Largest, Zenon
  <2>3. Max(prog) \in 1 .. MMAP_BEGIN - 1
    BY <2>2, <1>1, Zenon
  <2>4. MaxVa(prog) = Max(prog) + 1 /\ Loaded(prog) = prog
    BY <1>3, Zenon DEF MaxVa, Loaded
  <2>5. MaxVa(prog) \in Nat /\ MaxVa(prog) <= MMAP_BEGIN
    BY <2>3, <2>4, <1>1
  <2>6. prog \in SUBSET Pages /\ prog \cap Window = {}
    BY <1>1 DEF Pages, Window
  <2> QED
    BY <2>4, <2>5, <2>6, Zenon
<1> QED
  BY <1>2, <1>3, Zenon

(* exec: a new page table below the window, the list as it was.             *)
LEMMA ExecStep ==
  ASSUME IInv, NEW p \in Procs, NEW prog \in Programs, NEW args,
         Exec(p, prog, args), call' = Idle
  PROVE  IInv'
<1> DEFINE m == Loaded(prog)
           top == MaxVa(prog)
<1>1. /\ p \in live /\ live' = live
      /\ pt' = [pt EXCEPT ![p] = m]
      /\ used' = used + Cardinality(m) - Cardinality(pt[p])
      /\ heapBase' = [heapBase EXCEPT ![p] = top]
      /\ heapTop' = [heapTop EXCEPT ![p] = top]
      /\ torn' = (IF regions[p] = <<>> THEN torn \ {p} ELSE torn \cup {p})
      /\ regions' = regions /\ nodes' = nodes /\ lost' = lost /\ dropped' = dropped
  BY Zenon DEF Exec
<1>2. /\ used \in Int /\ lost \in Nat /\ nodes \in Nat /\ dropped \in Nat
      /\ regions = [regions EXCEPT ![p] = regions[p]]
      /\ regions[p] \in Seq(Region) /\ Sorted(regions[p])
      /\ Cardinality(pt[p]) \in Nat
      /\ live \subseteq Procs /\ torn \subseteq Procs
  BY SlotFacts, Zenon
<1>3. m \in SUBSET Pages /\ m \cap Window = {} /\ top \in Nat /\ top <= MMAP_BEGIN
  BY LoadedFacts, Zenon
<1> HIDE DEF m, top
<1>4. top .. top - 1 = {} /\ Cardinality(m) \in Nat
  BY <1>3, PagesFinite
<1>5. /\ live' \subseteq Procs /\ live' \ {p} = live \ {p} /\ p \in live'
      /\ torn' \subseteq Procs /\ torn' \ {p} = torn \ {p}
  BY <1>1, <1>2, Zenon
<1>6. /\ p \notin live' => m = {} /\ regions[p] = <<>>
      /\ p \in live' => top <= MMAP_BEGIN /\ top .. top - 1 \subseteq m
      /\ p \in live' /\ p \notin torn' => Covered(regions[p]) = m \cap Window
  <2>1. p \notin torn' => regions[p] = <<>>
    BY <1>1, Zenon
  <2> QED
    BY <2>1, <1>3, <1>4, <1>5, EmptyList, Zenon
<1>7. /\ used' = used + Cardinality(m) - Cardinality(pt[p]) + (lost' - lost)
      /\ lost' \in Nat
  <2>1. used' = used + Cardinality(m) - Cardinality(pt[p]) /\ lost' = lost
    BY <1>1, Zenon
  <2> QED
    BY <2>1, <1>2, <1>4
<1>8. /\ nodes' + Len(regions[p]) + dropped' = nodes + Len(regions[p]) + dropped
      /\ nodes' \in Nat /\ dropped' \in Nat
  BY <1>1, <1>2, Zenon
<1>9. FitInv' /\ CutInv' /\ call' \in {Idle} \cup FitCalls \cup CutCalls
  BY EndsIdle, Zenon
<1>10. /\ pt' = [pt EXCEPT ![p] = m] /\ heapBase' = [heapBase EXCEPT ![p] = top]
       /\ heapTop' = [heapTop EXCEPT ![p] = top]
       /\ regions' = [regions EXCEPT ![p] = regions[p]]
  BY <1>1, <1>2, Zenon
<1>11. /\ m \in SUBSET Pages /\ top \in Nat /\ regions[p] \in Seq(Region)
       /\ Sorted(regions[p])
  BY <1>2, <1>3, Zenon
<1> QED
  BY <1>5, <1>6, <1>7, <1>8, <1>9, <1>10, <1>11, SlotStep, Zenon

(* exec that fails leaves the process as it was.                            *)
LEMMA ExecFailsStep ==
  ASSUME IInv, NEW p \in Procs, NEW prog, NEW n \in Nat, ExecFails(p, prog, n),
         call' = Idle
  PROVE  IInv'
<1>1. /\ p \in live /\ used' = used + n /\ lost' = lost + n
      /\ live' = live /\ pt' = pt /\ regions' = regions /\ heapBase' = heapBase
      /\ heapTop' = heapTop /\ nodes' = nodes /\ dropped' = dropped /\ torn' = torn
  BY Zenon DEF ExecFails
<1>2. /\ used \in Int /\ lost \in Nat /\ Cardinality(pt[p]) \in Nat
      /\ pt = [pt EXCEPT ![p] = pt[p]] /\ heapTop = [heapTop EXCEPT ![p] = heapTop[p]]
  BY SlotFacts, Zenon
<1>3. /\ pt[p] \in SUBSET Pages /\ heapTop[p] \in Nat /\ heapTop[p] <= MMAP_BEGIN
      /\ heapBase[p] .. heapTop[p] - 1 \subseteq pt[p]
  BY <1>1, SlotFacts, Zenon
<1>4. /\ used' = used + Cardinality(pt[p]) - Cardinality(pt[p]) + (lost' - lost)
      /\ lost' \in Nat
  <2>1. used' = used + n /\ lost' = lost + n
    BY <1>1, Zenon
  <2> QED
    BY <2>1, <1>2
<1>5. pt' = [pt EXCEPT ![p] = pt[p]] /\ heapTop' = [heapTop EXCEPT ![p] = heapTop[p]]
  BY <1>1, <1>2, Zenon
<1> QED
  BY <1>1, <1>3, <1>4, <1>5, PageStep, Zenon

(* wait frees the slot (process.rs:144-156).                                *)
LEMMA ReapStep ==
  ASSUME IInv, NEW c \in Procs, Reap(c), call' = Idle
  PROVE  IInv'
<1>1. /\ live' = live \ {c} /\ used' = used - Cardinality(pt[c])
      /\ nodes' = IF regions[c] = <<>> THEN nodes ELSE nodes + 1
      /\ dropped' = IF regions[c] = <<>> THEN dropped
                                         ELSE dropped + Len(regions[c]) - 1
      /\ pt' = [pt EXCEPT ![c] = {}] /\ regions' = [regions EXCEPT ![c] = <<>>]
      /\ heapBase' = [heapBase EXCEPT ![c] = 0]
      /\ heapTop' = [heapTop EXCEPT ![c] = 0]
      /\ torn' = torn \ {c} /\ lost' = lost
  BY Zenon DEF Reap
<1>2. /\ used \in Int /\ lost \in Nat /\ nodes \in Nat /\ dropped \in Nat
      /\ Cardinality(pt[c]) \in Nat /\ Len(regions[c]) \in Nat
  BY SlotFacts, Zenon
<1>3. regions[c] \in Seq(Region) /\ live \subseteq Procs /\ torn \subseteq Procs
  BY SlotFacts, Zenon
<1>4. /\ live' \subseteq Procs /\ live' \ {c} = live \ {c} /\ c \notin live'
      /\ torn' \subseteq Procs /\ torn' \ {c} = torn \ {c}
  BY <1>1, <1>3, Zenon
<1>5. /\ used' = used + Cardinality({}) - Cardinality(pt[c]) + (lost' - lost)
      /\ lost' \in Nat
  <2>1. /\ used' = used - Cardinality(pt[c]) /\ lost' = lost
        /\ Cardinality({}) = 0
    BY <1>1, FS_EmptySet, Zenon
  <2> QED
    BY <2>1, <1>2
<1>6. /\ nodes' + Len(<<>>) + dropped' = nodes + Len(regions[c]) + dropped
      /\ nodes' \in Nat /\ dropped' \in Nat
  <2>1. regions[c] = <<>> <=> Len(regions[c]) = 0
    BY <1>3
  <2>2. PICK x \in Nat, n \in Nat, d \in Nat :
          x = Len(regions[c]) /\ n = nodes /\ d = dropped
    BY <1>2, Zenon
  <2>3. /\ nodes' = IF x = 0 THEN n ELSE n + 1
        /\ dropped' = IF x = 0 THEN d ELSE d + x - 1
    BY <2>1, <2>2, <1>1, Zenon
  <2>4. /\ (IF x = 0 THEN n ELSE n + 1) + 0 + (IF x = 0 THEN d ELSE d + x - 1)
             = n + x + d
        /\ (IF x = 0 THEN n ELSE n + 1) \in Nat
        /\ (IF x = 0 THEN d ELSE d + x - 1) \in Nat
    OBVIOUS
  <2>5. Len(<<>>) = 0
    BY Zenon
  <2> QED
    BY <2>2, <2>3, <2>4, <2>5, Zenon
<1>7. FitInv' /\ CutInv' /\ call' \in {Idle} \cup FitCalls \cup CutCalls
  BY EndsIdle, Zenon
<1>8. {} \in SUBSET Pages /\ 0 \in Nat
  BY Zenon
<1>9. /\ c \notin live' => {} = {} /\ <<>> = <<>>
      /\ c \in live' => 0 <= MMAP_BEGIN /\ 0 .. 0 - 1 \subseteq {}
      /\ c \in live' /\ c \notin torn' => Covered(<<>>) = {} \cap Window
  BY <1>4, Zenon
<1>10. /\ pt' = [pt EXCEPT ![c] = {}] /\ regions' = [regions EXCEPT ![c] = <<>>]
       /\ heapBase' = [heapBase EXCEPT ![c] = 0]
       /\ heapTop' = [heapTop EXCEPT ![c] = 0]
  BY <1>1, Zenon
<1> QED
  BY <1>4, <1>5, <1>6, <1>7, <1>8, <1>9, <1>10, EmptyList, SlotStep, Zenon

(* The first process has its payload mapped and no region.                  *)
LEMMA InitHolds ==
  ASSUME Init PROVE IInv
<1> DEFINE none == [p \in Procs |-> {}]
           first == 1 .. InitPages
<1>1. /\ Root \in Procs /\ InitPages \in Nat /\ N_MMAP \in Nat
      /\ MMAP_BEGIN \in Nat /\ MMAP_END \in Nat /\ MMAP_BEGIN < MMAP_END
      /\ InitPages + 1 <= MMAP_BEGIN
  BY LayoutAssumption
<1>2. /\ live = {Root} /\ pt = [p \in Procs |-> IF p = Root THEN first ELSE {}]
      /\ regions = [p \in Procs |-> <<>>]
      /\ heapBase = [p \in Procs |-> IF p = Root THEN InitPages + 1 ELSE 0]
      /\ heapTop = heapBase /\ nodes = N_MMAP /\ used = InitPages /\ lost = 0
      /\ dropped = 0 /\ torn = {} /\ call = Idle
  BY Zenon DEF Init
<1>3. first \in SUBSET Pages /\ first \cap Window = {}
  BY <1>1 DEF Pages, Window
<1>4. /\ pt[Root] = first /\ \A p \in Procs : p # Root => pt[p] = {}
      /\ \A p \in Procs : regions[p] = <<>>
      /\ heapBase[Root] = InitPages + 1 /\ heapTop[Root] = InitPages + 1
  BY <1>1, <1>2, Zenon
<1>5. TypeOK
  <2>1. pt \in [Procs -> SUBSET Pages] /\ regions \in [Procs -> Seq(Region)]
    BY <1>2, <1>3
  <2>2. heapBase \in [Procs -> Nat] /\ heapTop \in [Procs -> Nat]
    BY <1>1, <1>2
  <2>3. /\ nodes \in Nat /\ used \in Int /\ lost \in Nat /\ dropped \in Nat
        /\ live \subseteq Procs /\ torn \subseteq Procs
    BY <1>1, <1>2
  <2>4. call \in {Idle} \cup FitCalls \cup CutCalls
    BY <1>2, Zenon
  <2> QED
    BY <2>1, <2>2, <2>3, <2>4, Zenon DEF TypeOK
<1>6. Lists
  BY <1>4, EmptyList, Zenon DEF Lists
<1>7. Unused
  BY <1>2, <1>4, Zenon DEF Unused
<1>8. Heaps
  BY <1>1, <1>2, <1>4, Zenon DEF Heaps
<1>9. Backed
  <2>1. (InitPages + 1) .. (InitPages + 1) - 1 = {}
    BY <1>1
  <2>2. heapBase[Root] .. heapTop[Root] - 1 \subseteq pt[Root]
    BY <2>1, <1>4, Zenon
  <2>3. Covered(regions[Root]) = pt[Root] \cap Window
    BY <1>1, <1>3, <1>4, EmptyList, Zenon
  <2> QED
    BY <2>2, <2>3, <1>2, Zenon DEF Backed
<1>10. \A f : (\A p \in Procs : f[p] = {}) => Total(f) = 0
  <2> SUFFICES ASSUME NEW f, \A p \in Procs : f[p] = {} PROVE Total(f) = 0
    BY Zenon
  <2>1. UNION {{p} \X f[p] : p \in Procs} = {}
    <3>1. \A p \in Procs : {p} \X f[p] = {}
      BY Zenon
    <3> QED
      BY <3>1, Zenon
  <2> QED
    BY <2>1, FS_EmptySet, Zenon DEF Total
<1>11. Total(pt) = InitPages
  <2>1. \A q \in Procs : none[q] = {}
    BY Zenon
  <2>2. Total(none) = 0 /\ none[Root] = {}
    BY <2>1, <1>1, <1>10, Zenon
  <2>3. \A q \in Procs : IsFiniteSet(none[q]) /\ IsFiniteSet(pt[q])
    BY <2>1, <1>5, PagesFinite, FS_EmptySet, Zenon DEF TypeOK
  <2>4. \A q \in Procs : q # Root => pt[q] = none[q]
    BY <2>1, <1>4, Zenon
  <2> HIDE DEF none
  <2>5. /\ Total(pt) \in Nat
        /\ Total(pt) = Total(none) - Cardinality(none[Root]) + Cardinality(pt[Root])
        /\ Cardinality(pt[Root]) \in Nat
    BY <2>3, <2>4, <1>1, TotalChange, Zenon
  <2>6. Cardinality(first) = InitPages
    BY <1>1, FS_Interval
  <2> QED
    BY <2>2, <2>5, <2>6, <1>1, <1>4, FS_EmptySet
<1>12. Accounted
  <2>1. Total(Nodes(regions)) = 0
    <3>1. \A p \in Procs : Nodes(regions)[p] = {}
      BY <1>4 DEF Nodes
    <3> QED
      BY <3>1, <1>10, Zenon
  <2>2. InitPages = InitPages + 0 /\ N_MMAP + 0 + 0 = N_MMAP
    BY <1>1
  <2> QED
    BY <2>1, <2>2, <1>2, <1>11, AccountedNodes, Zenon
<1>13. FitInv /\ CutInv
  <2>1. call.op # "fit" /\ call.op # "cut"
    BY <1>2, Zenon DEF Idle
  <2> QED
    BY <2>1, Zenon DEF FitInv, CutInv
<1> QED
  BY <1>5, <1>6, <1>7, <1>8, <1>9, <1>12, <1>13, Zenon DEF IInv

-----------------------------------------------------------------------------
(* Every step of a process keeps the invariant.                             *)
LEMMA NextHolds ==
  ASSUME IInv, Next PROVE IInv'
<1>1. PICK p \in Procs : Mapping(p) \/ (call = Idle /\ UNCHANGED call /\ Other(p))
  BY Zenon DEF Next
<1>2. /\ MMAP_BEGIN \in Nat /\ MMAP_END \in Nat /\ MMAP_BEGIN < MMAP_END
  BY LayoutAssumption, Zenon
<1>3. CASE Mapping(p)
  <2>1. ASSUME NEW b \in Window, NEW n \in 1 .. MMAP_END - MMAP_BEGIN, Mmap(p, b, n)
        PROVE  IInv'
    <3>1. b \in Nat /\ n \in Nat \ {0}
      BY <1>2 DEF Window
    <3> QED
      BY <2>1, <3>1, MmapStep, Zenon
  <2>2. ASSUME NEW n \in 1 .. MMAP_END - MMAP_BEGIN, MmapAnywhere(p, n)
        PROVE  IInv'
    <3>1. n \in Nat \ {0}
      OBVIOUS
    <3> QED
      BY <2>2, <3>1, MmapAnywhereStep, Zenon
  <2>3. ASSUME NEW s \in Window, NEW e \in Pages \cup {MMAP_END}, s < e,
               Munmap(p, s, e)
        PROVE  IInv'
    <3>1. s \in Nat /\ e \in Nat /\ MMAP_BEGIN <= s /\ e <= MMAP_END
      BY <1>2 DEF Window, Pages
    <3> QED
      BY <2>3, <3>1, MunmapStep, Zenon
  <2> QED
    BY <1>3, <2>1, <2>2, <2>3, FitTurnStep, FitPutStep, CutTurnStep, CutReturnStep,
       Zenon DEF Mapping
<1>4. CASE call = Idle /\ UNCHANGED call /\ Other(p)
  <2>1. call' = Idle
    BY <1>4, Zenon
  <2>2. ASSUME NEW top \in 1 .. MMAP_BEGIN, BrkGrow(p, top) \/ BrkShrink(p, top)
        PROVE  IInv'
    <3>1. top \in Nat
      OBVIOUS
    <3> QED
      BY <2>1, <2>2, <3>1, BrkGrowStep, BrkShrinkStep, Zenon
  <2>3. ASSUME NEW prog, NEW n \in Pages, ExecFails(p, prog, n)
        PROVE  IInv'
    <3>1. n \in Nat
      BY <1>2 DEF Pages
    <3> QED
      BY <2>1, <2>3, <3>1, ExecFailsStep, Zenon
  <2> QED
    BY <1>4, <2>1, <2>2, <2>3, StackFaultStep, ForkStep, ExecStep, ReapStep,
       Zenon DEF Other
<1> QED
  BY <1>1, <1>3, <1>4, Zenon

(* The inductive invariant holds in every reachable state.                  *)
THEOREM SpaceInvariant ==
  Spec => []IInv
<1>1. Init => IInv
  BY InitHolds, Zenon
<1>2. IInv /\ [Next]_vars => IInv'
  <2>1. ASSUME IInv, UNCHANGED vars PROVE IInv'
    <3>1. UNCHANGED space /\ call' = call
      BY <2>1, Zenon DEF vars
    <3>2. regions' = regions /\ live' = live
      BY <3>1, Zenon DEF space
    <3>3. FitInv' /\ CutInv' /\ call' \in {Idle} \cup FitCalls \cup CutCalls
      <4>1. FitInv /\ CutInv /\ TypeOK
        BY <2>1, Zenon DEF IInv
      <4>2. FitInv'
        BY <4>1, <3>1, <3>2, Zenon DEF FitInv, EndBefore
      <4>3. CutInv'
        BY <4>1, <3>1, <3>2, SMTT(30) DEF CutInv, Covered
      <4> QED
        BY <4>1, <4>2, <4>3, <3>1, Zenon DEF TypeOK
    <3> QED
      BY <2>1, <3>1, <3>3, CallStep, Zenon
  <2> QED
    BY <2>1, NextHolds, Zenon
<1> QED
  BY <1>1, <1>2, PTL DEF Spec

(* In every reachable state the region lists are sorted and merged.         *)
THEOREM RegionsSorted ==
  Spec => []RegionsCanonical
<1>1. IInv => RegionsCanonical
  BY Zenon DEF IInv, Lists, Sorted, RegionsCanonical
<1> QED
  BY <1>1, SpaceInvariant, PTL

(* The heap is mapped, and the window's mapped pages are the regions'.      *)
THEOREM RegionsBacked ==
  Spec => []Backed
<1>1. IInv => Backed
  BY Zenon DEF IInv
<1> QED
  BY <1>1, SpaceInvariant, PTL

(* Pages and region nodes are all accounted for.                            *)
THEOREM NothingFreedTwice ==
  Spec => []Accounted
<1>1. IInv => Accounted
  BY Zenon DEF IInv
<1> QED
  BY <1>1, SpaceInvariant, PTL

(* mmap(0, n) takes the lowest gap, and fails only when there is none.      *)
THEOREM LowestGap ==
  Spec => []FirstFitIsLowest
<1>1. ASSUME IInv PROVE FirstFitIsLowest
  <2> SUFFICES ASSUME call.op = "fit" PROVE FirstFitIsLowest
    BY Zenon DEF FirstFitIsLowest
  <2> DEFINE list == regions[call.p]
  <2>1. call \in FitCalls
    BY <1>1 DEF IInv, TypeOK, Idle, CutCalls
  <2>2. call.p \in Procs /\ call.n \in Nat \ {0}
    BY <2>1, Zenon DEF FitCalls
  <2>3. list \in Seq(Region) /\ Sorted(list)
    BY <1>1, <2>2, SlotFacts, Zenon
  <2>4. /\ call.at \in 1 .. Len(list) + 1
        /\ call.cursor = EndBefore(list, call.at)
        /\ \A i \in 1 .. call.at - 1 : list[i].b < EndBefore(list, i) + call.n
    BY <1>1, Zenon DEF IInv, FitInv
  <2>5. PICK a \in 1 .. Len(list) + 1, c \in {call.cursor}, n \in Nat \ {0} :
          a = call.at /\ c = call.cursor /\ n = call.n
    BY <2>2, <2>4, Zenon
  <2>6. /\ c = EndBefore(list, a)
        /\ \A i \in 1 .. a - 1 : list[i].b < EndBefore(list, i) + n
    BY <2>4, <2>5, Zenon
  <2>7. /\ \A x \in Gaps(list, n) : c <= x
        /\ Found(list, a, c, n) => c \in Gaps(list, n)
        /\ a > Len(list) /\ ~Found(list, a, c, n) => Gaps(list, n) = {}
    BY <2>3, <2>6, FitFacts, Zenon
  <2> QED
    BY <2>5, <2>7, Zenon DEF FirstFitIsLowest
<1> QED
  BY <1>1, SpaceInvariant, PTL

(* munmap that returns Ok removed its range and nothing else.               *)
THEOREM UnmapsItsRange ==
  Spec => []MunmapExact
<1>1. ASSUME IInv PROVE MunmapExact
  <2> DEFINE list == regions[call.p]
             at == call.at
             s == call.s
             e == call.e
  <2> SUFFICES ASSUME call.op = "cut", CutEnds(list, at, s, e)
               PROVE  Covered(list) = call.had \ (call.from .. e - 1)
    BY Zenon DEF MunmapExact
  <2>1. call \in CutCalls
    BY <1>1 DEF IInv, TypeOK, Idle, FitCalls
  <2>2. /\ call.p \in Procs /\ at \in Nat /\ s \in Nat /\ e \in Nat
        /\ call.from \in Nat /\ call.had \subseteq Window
    BY <2>1, Zenon DEF CutCalls
  <2>3. list \in Seq(Region) /\ Sorted(list) /\ Len(list) \in Nat
    BY <1>1, <2>2, SlotFacts, Zenon
  <2>4. /\ at \in 1 .. Len(list) + 1 /\ call.from <= s /\ s <= e
        /\ s < e => \A i \in 1 .. at - 1 : list[i].e <= s
        /\ Covered(list) = call.had \ (call.from .. s - 1)
    BY <1>1, Zenon DEF IInv, CutInv
  <2>5. (s .. e - 1) \cap Covered(list) = {}
    <3>1. CASE s < e
      <4>1. ~(s >= e)
        BY <3>1, <2>2
      <4>2. at <= Len(list) => e <= list[at].b
        BY <4>1, Zenon DEF CutEnds
      <4>3. \A i \in 1 .. at - 1 : list[i].e <= s
        BY <3>1, <2>4, Zenon
      <4>4. at \in 1 .. Len(list) + 1 /\ s \in Nat /\ e \in Nat
        BY <2>2, <2>4, Zenon
      <4>5. list \in Seq(Region) /\ Sorted(list)
        BY <2>3, Zenon
      <4> HIDE DEF list, at, s, e
      <4> QED
        BY <4>2, <4>3, <4>4, <4>5, NothingBetween, Zenon
    <3>2. CASE ~(s < e)
      <4>1. s .. e - 1 = {}
        BY <3>2, <2>2
      <4> QED
        BY <4>1, Zenon
    <3> QED
      BY <3>1, <3>2, Zenon
  <2>6. \A y \in Int : y \in call.from .. e - 1 <=>
          \/ y \in call.from .. s - 1 \/ y \in s .. e - 1
    <3>1. PICK f \in Nat, s1 \in Nat, e1 \in Nat :
            f = call.from /\ s1 = s /\ e1 = e
      BY <2>2, Zenon
    <3>2. f <= s1 /\ s1 <= e1
      BY <3>1, <2>4, Zenon
    <3>3. \A y \in Int : y \in f .. e1 - 1 <=> y \in f .. s1 - 1 \/ y \in s1 .. e1 - 1
      BY <3>2
    <3> QED
      BY <3>1, <3>3, Zenon
  <2>7. call.had \subseteq Int
    BY <2>2, LayoutAssumption DEF Window
  <2> HIDE DEF list, s, e
  <2> QED
    BY <2>4, <2>5, <2>6, <2>7, Zenon
<1> QED
  BY <1>1, SpaceInvariant, PTL
=============================================================================
