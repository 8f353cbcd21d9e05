--------------------------- MODULE PhysMemProofs ---------------------------
(***************************************************************************)
(* Safety of the page allocator for any number of harts and pages and any  *)
(* interleaving.                                                           *)
(***************************************************************************)
EXTENDS PhysMem, FiniteSetTheorems, TLAPS

\* What a page's count says about the page.
Counts ==
  /\ \A p \in held : ref[p] = 1 /\ p < TotalEnd
  /\ \A h \in Harts : pc[h] = "counted" => ref[cur[h]] = 1 /\ cur[h] < TotalEnd
  /\ \A p \in Pages :
       \/ p \in held
       \/ \E h \in Harts : pc[h] = "counted" /\ cur[h] = p
       \/ ref[p] = 0
       \/ ref[p] >= RefMod - doubles

\* A page is with at most one call, and not with a holder at the same time.
Apart ==
  /\ \A h \in Harts : Taking(h) => cur[h] \in Pages \ held
  /\ \A g, h \in Harts : Taking(g) /\ Taking(h) /\ cur[g] = cur[h] => g = h

IInv == TypeOK /\ Counts /\ Apart /\ FreeLists /\ PanicsJustified

\* The two regions are adjacent intervals of pages.
LEMMA RegionFacts ==
  /\ \A r \in Regions : Begin(r) \in Nat /\ End(r) \in Nat /\ Begin(r) <= End(r)
                        /\ AllocBegin <= Begin(r) /\ End(r) <= MemEnd
  /\ \A p \in Pages : \E r \in Regions : Contains(r, p)
  /\ \A p \in Pages, r, s \in Regions : Contains(r, p) /\ Contains(s, p) => r = s
  /\ Nil \notin Pages /\ Data \notin Pages /\ Pages \subseteq Nat
  BY PhysMemAssumption
  DEF Regions, Begin, End, KernelSplit, Contains, Pages, Nil, Data

\* initialize_regions leaves both lists complete and every count 0.
LEMMA InitIInv == Init => IInv
  <1> SUFFICES ASSUME Init PROVE IInv
    OBVIOUS
  <1>1. TypeOK
    BY PhysMemAssumption, RegionFacts
    DEF Init, TypeOK, Regions, Begin, End, KernelSplit, Pages, Nil, Data
  <1>2. Counts /\ Apart /\ PanicsJustified
    BY PhysMemAssumption
    DEF Init, Counts, Apart, PanicsJustified, Taking, Busy
  <1>3. FreeLists
    <2> SUFFICES ASSUME NEW r \in Regions
                 PROVE  \E f \in [1 .. allocable[r] -> Pages] : IsList(r, f)
      BY DEF FreeLists
    <2> DEFINE g == [i \in 1 .. allocable[r] |-> Begin(r) + i - 1]
    <2>1. allocable[r] = End(r) - Begin(r) /\ allocable[r] \in Nat
      BY RegionFacts DEF Init
    <2>2. g \in [1 .. allocable[r] -> Pages]
      BY <2>1, RegionFacts, PhysMemAssumption DEF Pages
    <2>3. FreePages(r) = {p \in Pages : Contains(r, p)}
      BY DEF Init, FreePages, Taken, Taking, Busy
    <2>4. \A p \in Pages : p \in FreePages(r)
                            <=> \E i \in 1 .. allocable[r] : g[i] = p
      <3>1. ASSUME NEW p \in Pages, p \in FreePages(r)
            PROVE  \E i \in 1 .. allocable[r] : g[i] = p
        <4>1. p - Begin(r) + 1 \in 1 .. allocable[r]
          BY <2>1, <2>3, <3>1, RegionFacts DEF Contains, Pages
        <4>2. g[p - Begin(r) + 1] = p
          BY <4>1, RegionFacts
        <4> QED
          BY <4>1, <4>2
      <3>2. ASSUME NEW i \in 1 .. allocable[r]
            PROVE  g[i] \in FreePages(r)
        BY <2>1, <2>2, <2>3, RegionFacts DEF Contains
      <3> QED
        BY <3>1, <3>2, Zenon
    <2>5. \A i \in 1 .. allocable[r] : word[g[i]] = IF i = 1 THEN Nil ELSE g[i - 1]
      <3> SUFFICES ASSUME NEW i \in 1 .. allocable[r]
                   PROVE  word[g[i]] = IF i = 1 THEN Nil ELSE g[i - 1]
        BY Zenon
      <3>1. g[i] \in Pages /\ g[i] = Begin(r) + i - 1
        BY <2>2
      <3>2. i # 1 => g[i - 1] = g[i] - 1 /\ g[i] > Begin(r) /\ g[i] < End(r)
        BY <2>1, <3>1, RegionFacts
      <3>3. \A t \in Regions : Begin(t) <= Begin(r) \/ End(r) <= Begin(t)
        BY PhysMemAssumption DEF Regions, Begin, End, KernelSplit
      <3>4. i # 1 => g[i] \notin {Begin(t) : t \in Regions}
        <4> SUFFICES ASSUME i # 1, NEW t \in Regions PROVE g[i] # Begin(t)
          BY Zenon
        <4> HIDE DEF g
        <4> QED
          BY <3>1, <3>2, <3>3, RegionFacts
      <3>5. i = 1 => g[i] = Begin(r)
        BY <3>1, RegionFacts
      <3> HIDE DEF g
      <3>6. CASE i = 1
        BY <3>1, <3>5, <3>6 DEF Init
      <3>7. CASE i # 1
        BY <3>1, <3>2, <3>4, <3>7 DEF Init
      <3> QED
        BY <3>6, <3>7
    <2>6. head[r] = IF allocable[r] = 0 THEN Nil ELSE g[allocable[r]]
      BY <2>1, RegionFacts DEF Init
    <2>7. \A i, j \in 1 .. allocable[r] : g[i] = g[j] => i = j
      BY <2>1, RegionFacts
    <2> HIDE DEF g
    <2> QED
      BY <2>2, <2>4, <2>5, <2>6, <2>7, Zenon DEF IsList
  <1> QED
    BY <1>1, <1>2, <1>3 DEF IInv

\* A step that moves no page onto or off a list, and writes to no page on one,
\* leaves the lists as they were.
LEMMA ListsKept ==
  ASSUME TypeOK, FreeLists, head' = head, allocable' = allocable,
         held' \cup Taken' = held \cup Taken,
         \A p \in Pages \ (held \cup Taken) : word'[p] = word[p]
  PROVE  FreeLists'
  <1> SUFFICES ASSUME NEW r \in Regions
               PROVE  \E f \in [1 .. allocable[r] -> Pages] : IsList(r, f)'
    BY DEF FreeLists
  <1>1. PICK f \in [1 .. allocable[r] -> Pages] : IsList(r, f)
    BY DEF FreeLists
  <1>2. FreePages(r)' = FreePages(r)
    BY DEF FreePages
  <1>3. \A i \in 1 .. allocable[r] : word'[f[i]] = word[f[i]]
    <2> SUFFICES ASSUME NEW i \in 1 .. allocable[r] PROVE word'[f[i]] = word[f[i]]
      OBVIOUS
    <2>1. f[i] \in FreePages(r)
      BY <1>1 DEF IsList
    <2> QED
      BY <2>1 DEF FreePages
  <1>4. IsList(r, f)'
    BY <1>1, <1>2, <1>3 DEF IsList
  <1> QED
    BY <1>4

\* Pop preserves the invariant: the list loses its head.
LEMMA PopStep ==
  ASSUME IInv, NEW h \in Harts, NEW r \in Regions, Pop(h, r)
  PROVE  IInv'
  <1>0. PICK n \in Nat, p \in Pages \cup {Nil} : n = allocable[r] /\ p = head[r]
    BY DEF IInv, TypeOK
  <1>1. PICK f \in [1 .. n -> Pages] : IsList(r, f)
    BY <1>0 DEF IInv, FreeLists
  <1>2. n # 0 /\ p = f[n] /\ p \in Pages /\ p \in FreePages(r)
    BY <1>0, <1>1 DEF IsList, Pop
  <1>3. word[p] = IF n = 1 THEN Nil ELSE f[n - 1]
    BY <1>0, <1>1, <1>2 DEF IsList
  <1>4. allocable'[r] = n - 1 /\ head'[r] = word[p]
    BY <1>0, <1>1, <1>2 DEF IInv, TypeOK, Pop
  <1>5. TypeOK'
    <2>1. word[p] \in Pages \cup {Nil}
      BY <1>0, <1>1, <1>2, <1>3
    <2> QED
      BY <1>0, <1>1, <1>2, <2>1 DEF IInv, TypeOK, Pop, Goto, Busy
  <1>6. ~ Taking(h) /\ p \notin held /\ p \notin Taken
    BY <1>0, <1>2 DEF Pop, Taking, Busy, FreePages
  <1>7. \A g \in Harts : Taking(g)' = (g = h \/ Taking(g))
    BY DEF IInv, TypeOK, Pop, Goto, Taking, Busy
  <1>8. cur' = [cur EXCEPT ![h] = p] /\ held' = held /\ cur'[h] = p
    BY <1>0, <1>1 DEF Pop, IInv, TypeOK
  <1>9. Counts'
    BY <1>0, <1>2 DEF IInv, TypeOK, Counts, Pop, Goto
  <1>10. Apart'
    BY <1>2, <1>6, <1>7, <1>8, Zenon DEF IInv, TypeOK, Apart, Taken
  <1>11. PanicsJustified'
    BY DEF IInv, TypeOK, PanicsJustified, Pop, Goto
  <1>12. Taken' = Taken \cup {p}
    BY <1>2, <1>6, <1>7, <1>8, Zenon DEF IInv, TypeOK, Taken
  <1>13. FreeLists'
    <2> SUFFICES ASSUME NEW t \in Regions
                 PROVE  \E g \in [1 .. allocable'[t] -> Pages] : IsList(t, g)'
      BY DEF FreeLists
    <2>1. CASE t = r
      <3> DEFINE g == [i \in 1 .. n - 1 |-> f[i]]
      <3>1. g \in [1 .. n - 1 -> Pages]
        BY <1>2
      <3>2. \A q \in Pages : q \in FreePages(r)' <=> q \in FreePages(r) /\ q # p
        BY <1>8, <1>12 DEF FreePages
      <3>3. \A q \in Pages : q \in FreePages(r)'
                              <=> \E i \in 1 .. n - 1 : g[i] = q
        <4>1. ASSUME NEW q \in Pages, q \in FreePages(r)'
              PROVE  \E i \in 1 .. n - 1 : g[i] = q
          <5>1. PICK i \in 1 .. n : f[i] = q
            BY <1>0, <1>1, <3>2, <4>1 DEF IsList
          <5>2. i # n
            BY <1>2, <3>2, <4>1, <5>1
          <5> QED
            BY <1>2, <5>1, <5>2
        <4>2. ASSUME NEW i \in 1 .. n - 1
              PROVE  g[i] \in FreePages(r)'
          <5>1. f[i] \in FreePages(r) /\ f[i] # f[n] /\ g[i] = f[i]
            BY <1>0, <1>1, <1>2, SMTT(30) DEF IsList
          <5> QED
            BY <1>2, <3>2, <5>1
        <4> QED
          BY <4>1, <4>2
      <3>4. \A i, j \in 1 .. n - 1 : g[i] = g[j] => i = j
        BY <1>0, <1>1, <1>2 DEF IsList
      <3>5. word[p] = IF n - 1 = 0 THEN Nil ELSE g[n - 1]
        BY <1>2, <1>3
      <3>6. \A i \in 1 .. n - 1 : word[g[i]] = IF i = 1 THEN Nil ELSE g[i - 1]
        BY <1>0, <1>1, <1>2 DEF IsList
      <3>7. word' = word
        BY DEF Pop
      <3> HIDE DEF g
      <3>8. IsList(r, g)'
        BY <1>4, <3>3, <3>4, <3>5, <3>6, <3>7 DEF IsList
      <3>9. g \in [1 .. allocable'[r] -> Pages]
        BY <1>4, <3>1
      <3> QED
        BY <2>1, <3>8, <3>9
    <2>2. CASE t # r
      <3>1. PICK g \in [1 .. allocable[t] -> Pages] : IsList(t, g)
        BY DEF IInv, FreeLists
      <3>2. ~ Contains(t, p)
        BY <1>2, <2>2, RegionFacts DEF FreePages
      <3>3. FreePages(t)' = FreePages(t)
        BY <1>8, <1>12, <3>2 DEF FreePages
      <3>4. allocable'[t] = allocable[t] /\ head'[t] = head[t] /\ word' = word
        BY <2>2 DEF Pop, IInv, TypeOK
      <3>5. IsList(t, g)'
        BY <3>1, <3>3, <3>4 DEF IsList
      <3> QED
        BY <3>1, <3>4, <3>5
    <2> QED
      BY <2>1, <2>2
  <1> QED
    BY <1>5, <1>9, <1>10, <1>11, <1>13 DEF IInv

\* Push preserves the invariant: the list gains a head.
LEMMA PushStep ==
  ASSUME IInv, NEW h \in Harts, Push(h)
  PROVE  IInv'
  <1>1. PICK r \in Regions :
          /\ pc[h] = "push" /\ Contains(r, cur[h])
          /\ word' = [word EXCEPT ![cur[h]] = head[r]]
          /\ head' = [head EXCEPT ![r] = cur[h]]
          /\ allocable' = [allocable EXCEPT ![r] = @ + 1]
          /\ pc' = [pc EXCEPT ![h] = "idle"]
          /\ UNCHANGED <<ref, held, cur, doubles>>
    BY Zenon DEF Push, Goto
  <1>2. PICK n \in Nat, p \in Pages \cup {Nil} : n = allocable[r] /\ p = cur[h]
    BY DEF IInv, TypeOK
  <1>3. PICK f \in [1 .. n -> Pages] : IsList(r, f)
    BY <1>2 DEF IInv, FreeLists
  <1>4. Taking(h) /\ p \in Pages \ held /\ p \in Taken
    BY <1>1, <1>2 DEF IInv, Apart, Taking, Busy, Taken
  <1>5. \A g \in Harts : Taking(g)' = (g # h /\ Taking(g))
    BY <1>1 DEF IInv, TypeOK, Taking, Busy
  <1>6. Taken' = Taken \ {p}
    BY <1>1, <1>2, <1>4, <1>5, Zenon DEF IInv, Apart, Taken
  <1>7. allocable'[r] = n + 1 /\ head'[r] = p /\ word'[p] = head[r]
        /\ \A q \in Pages \ {p} : word'[q] = word[q]
    BY <1>1, <1>2, <1>4 DEF IInv, TypeOK
  <1>8. TypeOK'
    BY <1>1, <1>2, <1>4 DEF IInv, TypeOK
  <1>9. Counts'
    BY <1>1 DEF IInv, TypeOK, Counts
  <1>10. Apart'
    BY <1>1, <1>5, Zenon DEF IInv, Apart
  <1>11. PanicsJustified'
    BY <1>1 DEF IInv, TypeOK, PanicsJustified
  <1>12. FreeLists'
    <2> SUFFICES ASSUME NEW t \in Regions
                 PROVE  \E g \in [1 .. allocable'[t] -> Pages] : IsList(t, g)'
      BY DEF FreeLists
    <2>1. CASE t = r
      <3> DEFINE g == [i \in 1 .. n + 1 |-> IF i = n + 1 THEN p ELSE f[i]]
      <3>1. g \in [1 .. n + 1 -> Pages] /\ g[n + 1] = p
            /\ \A i \in 1 .. n : g[i] = f[i]
        BY <1>4
      <3> HIDE DEF g
      <3>2. \A q \in Pages : q \in FreePages(r)' <=> q \in FreePages(r) \/ q = p
        BY <1>1, <1>2, <1>4, <1>6 DEF FreePages
      <3>3. \A i \in 1 .. n : f[i] \in FreePages(r) /\ f[i] # p
        BY <1>2, <1>3, <1>4 DEF IsList, FreePages
      <3>4. \A q \in Pages : q \in FreePages(r)'
                              <=> \E i \in 1 .. n + 1 : g[i] = q
        <4>1. ASSUME NEW q \in Pages, q \in FreePages(r)'
              PROVE  \E i \in 1 .. n + 1 : g[i] = q
          <5>1. CASE q = p
            BY <3>1, <5>1
          <5>2. CASE q # p
            <6>1. PICK i \in 1 .. n : f[i] = q
              BY <1>2, <1>3, <3>2, <4>1, <5>2 DEF IsList
            <6> QED
              BY <3>1, <6>1
          <5> QED
            BY <5>1, <5>2
        <4>2. ASSUME NEW i \in 1 .. n + 1
              PROVE  g[i] \in FreePages(r)'
          BY <3>1, <3>2, <3>3
        <4> QED
          BY <4>1, <4>2
      <3>5. \A i, j \in 1 .. n + 1 : g[i] = g[j] => i = j
        BY <1>2, <1>3, <3>1, <3>3 DEF IsList
      <3>6. ASSUME NEW i \in 1 .. n + 1
            PROVE  word'[g[i]] = IF i = 1 THEN Nil ELSE g[i - 1]
        <4>1. CASE i = n + 1
          BY <1>2, <1>3, <1>7, <3>1, <4>1 DEF IsList
        <4>2. CASE i # n + 1
          <5>1. i \in 1 .. n /\ g[i] = f[i] /\ word'[f[i]] = word[f[i]]
            BY <1>3, <1>7, <3>1, <3>3, <4>2
          <5>2. i # 1 => i - 1 \in 1 .. n /\ g[i - 1] = f[i - 1]
            BY <3>1, <5>1
          <5> QED
            BY <1>2, <1>3, <5>1, <5>2 DEF IsList
        <4> QED
          BY <4>1, <4>2
      <3>7. IsList(r, g)'
        <4>1. head'[r] = IF allocable'[r] = 0 THEN Nil ELSE g[allocable'[r]]
          BY <1>7, <3>1
        <4>2. \A i \in 1 .. allocable'[r] :
                word'[g[i]] = IF i = 1 THEN Nil ELSE g[i - 1]
          BY <1>7, <3>6
        <4> QED
          BY <1>7, <3>4, <3>5, <4>1, <4>2 DEF IsList
      <3> QED
        BY <1>7, <2>1, <3>1, <3>7
    <2>2. CASE t # r
      <3>1. PICK g \in [1 .. allocable[t] -> Pages] : IsList(t, g)
        BY DEF IInv, FreeLists
      <3>2. ~ Contains(t, p)
        BY <1>1, <1>2, <1>4, <2>2, RegionFacts
      <3>3. FreePages(t)' = FreePages(t) /\ p \notin FreePages(t)
        BY <1>1, <1>6, <3>2 DEF FreePages
      <3>4. allocable'[t] = allocable[t] /\ head'[t] = head[t]
        BY <1>1, <2>2 DEF IInv, TypeOK
      <3>5. \A i \in 1 .. allocable[t] : word'[g[i]] = word[g[i]]
        BY <1>7, <3>1, <3>3 DEF IsList
      <3>6. IsList(t, g)'
        BY <3>1, <3>3, <3>4, <3>5 DEF IsList
      <3> QED
        BY <3>1, <3>4, <3>6
    <2> QED
      BY <2>1, <2>2
  <1> QED
    BY <1>8, <1>9, <1>10, <1>11, <1>12 DEF IInv

\* Exhausted, CountUp and HandOut preserve the invariant.
LEMMA CallStep ==
  ASSUME IInv, NEW h \in Harts,
         (\E r \in Regions : Exhausted(h, r)) \/ CountUp(h) \/ HandOut(h)
  PROVE  IInv'
  <1> USE PhysMemAssumption, RegionFacts DEF IInv, Taking, Busy, Panics, Goto
  <1>1. ASSUME NEW r \in Regions, Exhausted(h, r)
        PROVE  IInv'
    <2>1. TypeOK' /\ Counts' /\ PanicsJustified'
      BY <1>1 DEF Exhausted, TypeOK, Counts, PanicsJustified
    <2>2. \A g \in Harts : Taking(g)' = Taking(g)
      BY <1>1 DEF Exhausted, TypeOK
    <2>3. Apart' /\ Taken' = Taken
      BY <1>1, <2>2 DEF Exhausted, Apart, Taken
    <2>4. FreeLists'
      BY <1>1, <2>3, ListsKept DEF Exhausted
    <2> QED
      BY <2>1, <2>3, <2>4
  <1>2. CASE CountUp(h)
    <2>1. cur[h] \in Pages \ held /\ ~ (\E g \in Harts : pc[g] = "counted" /\ cur[g] = cur[h])
      BY <1>2 DEF CountUp, Apart
    <2>2. ref[cur[h]] \in 0 .. RefMod - 1
          /\ (ref[cur[h]] = 0 \/ ref[cur[h]] >= RefMod - doubles)
      BY <2>1, Zenon DEF TypeOK, Counts
    <2>3. TypeOK'
      BY <1>2, <2>1, <2>2 DEF CountUp, TypeOK
    <2>4. Counts'
      <3>1. CASE cur[h] >= TotalEnd
        BY <1>2, <2>1, <3>1 DEF CountUp, TypeOK, Counts
      <3>2. CASE ~ (cur[h] >= TotalEnd) /\ ref[cur[h]] = 0
        <4>1. ref' = [ref EXCEPT ![cur[h]] = 1]
          BY <1>2, <2>1, <3>2 DEF CountUp, TypeOK
        <4>2. pc' = [pc EXCEPT ![h] = "counted"] /\ UNCHANGED <<held, cur, doubles>>
          BY <1>2, <3>2 DEF CountUp
        <4>3. \A g \in Harts : pc'[g] = "counted" <=> g = h \/ pc[g] = "counted"
          BY <4>2 DEF TypeOK
        <4>4. \A p \in held' : ref'[p] = 1 /\ p < TotalEnd
          BY <2>1, <4>1, <4>2 DEF TypeOK, Counts
        <4>5. \A g \in Harts : pc'[g] = "counted"
                               => ref'[cur'[g]] = 1 /\ cur'[g] < TotalEnd
          <5> SUFFICES ASSUME NEW g \in Harts, pc'[g] = "counted"
                       PROVE  ref'[cur[g]] = 1 /\ cur[g] < TotalEnd
            BY <4>2
          <5>1. CASE g = h
            <6>1. ref'[cur[h]] = 1
              BY <2>1, <4>1 DEF TypeOK
            <6>2. cur[h] < TotalEnd
              BY <2>1, <3>2 DEF Pages
            <6> QED
              BY <5>1, <6>1, <6>2
          <5>2. CASE g # h
            <6>1. pc[g] = "counted" /\ cur[g] # cur[h]
              BY <2>1, <4>3, <5>2
            <6> QED
              BY <4>1, <6>1 DEF TypeOK, Counts, Apart
          <5> QED
            BY <5>1, <5>2
        <4>6. ASSUME NEW p \in Pages
              PROVE  \/ p \in held'
                     \/ \E g \in Harts : pc'[g] = "counted" /\ cur'[g] = p
                     \/ ref'[p] = 0
                     \/ ref'[p] >= RefMod - doubles'
          <5>1. CASE p = cur[h]
            BY <4>2, <4>3, <5>1
          <5>2. CASE p # cur[h]
            BY <4>1, <4>2, <4>3, <5>2 DEF TypeOK, Counts
          <5> QED
            BY <5>1, <5>2
        <4> QED
          BY <4>4, <4>5, <4>6 DEF Counts
      <3>3. CASE ~ (cur[h] >= TotalEnd) /\ ref[cur[h]] # 0
        <4>1. PICK c \in 0 .. RefMod - 1 :
                ref' = [ref EXCEPT ![cur[h]] = c] /\ (c = 0 \/ c >= RefMod - doubles)
          <5>1. (ref[cur[h]] + 1) % RefMod =
                  IF ref[cur[h]] = RefMod - 1 THEN 0 ELSE ref[cur[h]] + 1
            BY <2>2
          <5> QED
            BY <1>2, <2>1, <2>2, <3>3, <5>1 DEF CountUp, TypeOK
        <4> QED
          BY <1>2, <2>1, <3>3, <4>1 DEF CountUp, TypeOK, Counts
      <3> QED
        BY <3>1, <3>2, <3>3
    <2>5. PanicsJustified'
      BY <1>2, <2>2 DEF CountUp, TypeOK, PanicsJustified
    <2>6. \A g \in Harts : Taking(g)' = Taking(g)
      BY <1>2 DEF CountUp, TypeOK
    <2>7. Apart' /\ Taken' = Taken
      BY <1>2, <2>6 DEF CountUp, Apart, Taken
    <2>8. FreeLists'
      BY <1>2, <2>7, ListsKept DEF CountUp
    <2> QED
      BY <2>3, <2>4, <2>5, <2>7, <2>8
  <1>3. CASE HandOut(h)
    <2>1. cur[h] \in Pages \ held /\ cur[h] \in Taken
      BY <1>3 DEF HandOut, Apart, Taken
    <2>2. TypeOK'
      BY <1>3, <2>1, Zenon DEF HandOut, TypeOK
    <2>3. Counts'
      BY <1>3, <2>1 DEF HandOut, TypeOK, Counts
    <2>4. PanicsJustified'
      BY <1>3 DEF HandOut, TypeOK, PanicsJustified
    <2>5. \A g \in Harts : Taking(g)' = (g # h /\ Taking(g))
      BY <1>3 DEF HandOut, TypeOK
    <2>6. Apart'
      BY <1>3, <2>1, <2>5 DEF HandOut, Apart
    <2>7. Taken' = Taken \ {cur[h]}
      BY <1>3, <2>1, <2>5 DEF HandOut, Apart, Taken
    <2>8. FreeLists'
      BY <1>3, <2>1, <2>7, ListsKept DEF HandOut, TypeOK
    <2> QED
      BY <2>2, <2>3, <2>4, <2>6, <2>8
  <1> QED
    BY <1>1, <1>2, <1>3

\* Write preserves the invariant: a held page is on no list.
LEMMA WriteStep ==
  ASSUME IInv, NEW p \in Pages, Write(p)
  PROVE  IInv'
  <1> USE DEF IInv, Taking
  <1>1. TypeOK' /\ Counts' /\ PanicsJustified'
    BY DEF Write, TypeOK, Counts, PanicsJustified
  <1>2. Apart' /\ Taken' = Taken
    BY DEF Write, Apart, Taken
  <1>3. FreeLists'
    BY <1>2, ListsKept DEF Write, TypeOK
  <1> QED
    BY <1>1, <1>2, <1>3

\* Free preserves the invariant: what is held is counted once and in range, so
\* the page goes from its holder to the call that pushes it.
LEMMA FreeStep ==
  ASSUME IInv, NEW h \in Harts, NEW p \in Pages, Free(h, p)
  PROVE  IInv'
  <1>1. ref[p] = 1 /\ p < TotalEnd /\ p \in held /\ pc[h] = "idle" /\ RefMod >= 2
    BY PhysMemAssumption DEF Free, IInv, Counts
  <1>2. /\ ref' = [ref EXCEPT ![p] = 0]
        /\ pc' = [pc EXCEPT ![h] = "push"]
        /\ cur' = [cur EXCEPT ![h] = p]
        /\ held' = held \ {p}
        /\ UNCHANGED <<head, allocable, word, doubles>>
    <2>1. (1 + RefMod - 1) % RefMod = 0
      BY <1>1, PhysMemAssumption
    <2>2. ~ ((\A r \in Regions : ~ Contains(r, p)) \/ p >= TotalEnd)
      BY <1>1, RegionFacts, PhysMemAssumption
    <2> QED
      BY <1>1, <2>1, <2>2 DEF Free, FreeCount, Goto, IInv, TypeOK
  <1>3. TypeOK' /\ PanicsJustified'
    BY <1>1, <1>2, PhysMemAssumption DEF IInv, TypeOK, PanicsJustified, Busy
  <1>8. Counts'
    <2>1. \A g \in Harts : pc'[g] = "counted" =>
            g # h /\ pc[g] = "counted" /\ cur'[g] = cur[g] /\ cur[g] \in Pages \ {p}
      BY <1>1, <1>2 DEF IInv, TypeOK, Apart, Taking, Busy
    <2>2. \A g \in Harts : pc[g] = "counted" => pc'[g] = "counted" /\ cur'[g] = cur[g]
      BY <1>1, <1>2 DEF IInv, TypeOK
    <2>3. \A q \in Pages : ref'[q] = IF q = p THEN 0 ELSE ref[q]
      BY <1>2 DEF IInv, TypeOK
    <2>4. \A q \in held' : ref'[q] = 1 /\ q < TotalEnd
      BY <1>2, <2>3 DEF IInv, TypeOK, Counts
    <2>5. \A g \in Harts : pc'[g] = "counted"
                           => ref'[cur'[g]] = 1 /\ cur'[g] < TotalEnd
      BY <2>1, <2>3 DEF IInv, Counts
    <2>6. ASSUME NEW q \in Pages
          PROVE  \/ q \in held'
                 \/ \E g \in Harts : pc'[g] = "counted" /\ cur'[g] = q
                 \/ ref'[q] = 0
                 \/ ref'[q] >= RefMod - doubles'
      BY <1>2, <2>2, <2>3 DEF IInv, Counts
    <2> QED
      BY <2>4, <2>5, <2>6 DEF Counts
  <1>4. \A g \in Harts : Taking(g)' = (g = h \/ Taking(g))
    BY <1>1, <1>2 DEF IInv, TypeOK, Taking, Busy
  <1>5. ~ Taking(h) /\ p \notin Taken
    BY <1>1 DEF IInv, Apart, Taken, Taking, Busy
  <1>6. Apart' /\ Taken' = Taken \cup {p}
    BY <1>1, <1>2, <1>4, <1>5, Zenon DEF IInv, TypeOK, Apart, Taken
  <1>7. FreeLists'
    BY <1>1, <1>2, <1>6, ListsKept DEF IInv
  <1> QED
    BY <1>3, <1>6, <1>7, <1>8 DEF IInv

\* DoubleFree preserves the invariant: the count of a free page is 0 or has
\* wrapped to nearly RefMod, so the page is not pushed a second time.
LEMMA DoubleFreeStep ==
  ASSUME IInv, NEW h \in Harts, NEW p \in Pages, DoubleFree(h, p)
  PROVE  IInv'
  <1>1. /\ ref[p] = 0 \/ ref[p] >= RefMod - doubles
        /\ ref[p] \in 0 .. RefMod - 1 /\ doubles < MaxDouble /\ doubles \in Nat
        /\ pc[h] = "idle" /\ doubles' = doubles + 1
        /\ p \notin held /\ \A g \in Harts : ~ (pc[g] = "counted" /\ cur[g] = p)
    BY DEF DoubleFree, IInv, TypeOK, Counts
  <1>2. PICK c \in 0 .. RefMod - 1, l \in {"idle", "double", "outside"} :
          /\ ref' = [ref EXCEPT ![p] = c]
          /\ c = ref[p] \/ c >= RefMod - doubles'
          /\ pc' = [pc EXCEPT ![h] = l]
    <2>1. CASE ref' = ref /\ pc' = [pc EXCEPT ![h] = "outside"]
      BY <1>1, <2>1 DEF IInv, TypeOK
    <2>2. CASE /\ ref' = [ref EXCEPT ![p] = (@ + RefMod - 1) % RefMod]
               /\ pc' = [pc EXCEPT ![h] = IF ref[p] = 0 THEN "double"
                                          ELSE IF ref[p] > 1 THEN "idle" ELSE "push"]
      <3>1. CASE ref[p] = 0
        <4>1. (0 + RefMod - 1) % RefMod = RefMod - 1
          BY PhysMemAssumption
        <4>2. /\ ref' = [ref EXCEPT ![p] = RefMod - 1]
              /\ pc' = [pc EXCEPT ![h] = "double"]
          BY <2>2, <3>1, <4>1, Zenon DEF IInv, TypeOK
        <4>3. RefMod - 1 \in 0 .. RefMod - 1 /\ RefMod - 1 >= RefMod - doubles'
          BY <1>1, PhysMemAssumption
        <4> QED
          BY <4>2, <4>3, Zenon
      <3>2. CASE ref[p] # 0
        <4>1. ref[p] > 1 /\ (ref[p] + RefMod - 1) % RefMod = ref[p] - 1
          BY <1>1, <3>2, PhysMemAssumption
        <4>2. /\ ref' = [ref EXCEPT ![p] = ref[p] - 1]
              /\ pc' = [pc EXCEPT ![h] = "idle"]
          BY <2>2, <3>2, <4>1, Zenon DEF IInv, TypeOK
        <4>3. ref[p] - 1 \in 0 .. RefMod - 1 /\ ref[p] - 1 >= RefMod - doubles'
          BY <1>1, <3>2, PhysMemAssumption
        <4> QED
          BY <4>2, <4>3, Zenon
      <3> QED
        BY <3>1, <3>2
    <2> QED
      BY <2>1, <2>2 DEF DoubleFree, FreeCount, Goto
  <1>3. cur' = cur /\ UNCHANGED <<head, allocable, word, held>>
    BY <1>1, PhysMemAssumption DEF DoubleFree, FreeCount
  <1>4. TypeOK'
    <2>1. pc' \in [Harts -> {"idle"} \cup Busy \cup Panics]
      BY <1>2 DEF IInv, TypeOK, Panics
    <2>2. doubles' \in 0 .. MaxDouble
      BY <1>1, PhysMemAssumption
    <2> QED
      BY <1>2, <1>3, <2>1, <2>2 DEF IInv, TypeOK
  <1>9. PanicsJustified'
    BY <1>1 DEF PanicsJustified
  <1>5. Counts'
    BY <1>1, <1>2, <1>3, PhysMemAssumption DEF IInv, TypeOK, Counts
  <1>6. \A g \in Harts : Taking(g)' = Taking(g)
    BY <1>1, <1>2 DEF IInv, TypeOK, Taking, Busy
  <1>7. Apart' /\ Taken' = Taken
    BY <1>3, <1>6 DEF IInv, Apart, Taken
  <1>8. FreeLists'
    BY <1>3, <1>7, ListsKept DEF IInv
  <1> QED
    BY <1>4, <1>5, <1>7, <1>8, <1>9 DEF IInv

\* Every step preserves the invariant.
LEMMA NextIInv == IInv /\ [Next]_vars => IInv'
  <1> SUFFICES ASSUME IInv, [Next]_vars PROVE IInv'
    OBVIOUS
  <1>1. ASSUME NEW h \in Harts, HartStep(h) PROVE IInv'
    BY <1>1, PopStep, PushStep, CallStep, FreeStep, DoubleFreeStep DEF HartStep
  <1>2. ASSUME NEW p \in Pages, Write(p) PROVE IInv'
    BY <1>2, WriteStep
  <1>3. CASE UNCHANGED vars
    <2>1. TypeOK' /\ Counts' /\ Apart' /\ PanicsJustified' /\ Taken' = Taken
      BY <1>3 DEF vars, IInv, TypeOK, Counts, Apart, PanicsJustified, Taking,
         Taken
    <2>2. FreeLists'
      BY <1>3, <2>1, ListsKept DEF vars, IInv
    <2> QED
      BY <2>1, <2>2 DEF IInv
  <1> QED
    BY <1>1, <1>2, <1>3 DEF Next, Halted

\* IInv is an invariant of the specification.
LEMMA AlwaysIInv == Spec => []IInv
  BY InitIInv, NextIInv, PTL DEF Spec

\* The allocator's state is well typed for any number of harts and pages.
THEOREM TypeCorrect == Spec => []TypeOK
  BY AlwaysIInv, PTL DEF IInv

\* The free lists stay exact under every interleaving, and even when pages are
\* freed twice: allocate never hands out a page that is in use.
THEOREM ListsExact == Spec => []FreeLists
  BY AlwaysIInv, PTL DEF IInv

\* No page is with two callers.
THEOREM SingleHolder == Spec => []OneHolder
  <1>1. IInv => OneHolder
    BY DEF IInv, Apart, OneHolder, Taking
  <1> QED
    BY <1>1, AlwaysIInv, PTL

\* Without a double free no count panic is reachable.
THEOREM NoSpuriousPanic == Spec => []PanicsJustified
  BY AlwaysIInv, PTL DEF IInv

\* The allocator never writes to a page somebody holds.
LEMMA NextUntouched ==
  IInv /\ [Next]_vars =>
    [\A p \in held : p \in held' => word'[p] \in {word[p], Data}]_vars
  <1> SUFFICES ASSUME IInv, Next, NEW p \in held, p \in held'
               PROVE  word'[p] \in {word[p], Data}
    BY DEF vars
  <1>1. p \in Pages
    BY DEF IInv, TypeOK
  <1>2. ASSUME NEW h \in Harts, HandOut(h) \/ Push(h)
        PROVE  word'[p] = word[p]
    <2>1. cur[h] # p
      BY <1>2 DEF IInv, Apart, Taking, Busy, HandOut, Push
    <2> QED
      BY <1>1, <1>2, <2>1 DEF HandOut, Push, IInv, TypeOK
  <1>3. ASSUME NEW q \in Pages, Write(q)
        PROVE  word'[p] \in {word[p], Data}
    BY <1>1, <1>3 DEF Write, IInv, TypeOK
  <1>4. CASE word' = word
    BY <1>4
  <1> QED
    BY <1>2, <1>3, <1>4
    DEF Next, HartStep, Pop, Exhausted, CountUp, Free, DoubleFree, Halted, vars

\* A holder's page is changed by nobody but holders.
THEOREM HeldPagesSafe == Spec => HeldUntouched
  BY AlwaysIInv, NextUntouched, PTL DEF Spec, HeldUntouched

\* Once every page has come back, allocable counts the whole region again
\* (what tests/pmem.rs asserts after its concurrent phase).
THEOREM PagesRestored == Spec => []AllRestored
  <1>1. IInv => AllRestored
    <2> SUFFICES ASSUME IInv, held = {}, NEW r \in Regions,
                        \A h \in Harts : pc[h] \in {"idle", "exhausted"}
                 PROVE  allocable[r] = End(r) - Begin(r)
      BY DEF AllRestored
    <2> DEFINE n == allocable[r]
               S == Begin(r) .. End(r) - 1
    <2>1. PICK f \in [1 .. n -> Pages] : IsList(r, f)
      BY DEF IInv, FreeLists
    <2>2. n \in Nat
      BY DEF IInv, TypeOK
    <2>3. FreePages(r) = S
      <3>1. Taken = {}
        BY DEF Taken, Taking, Busy
      <3> QED
        BY <3>1, RegionFacts, PhysMemAssumption, SMTT(30)
        DEF FreePages, Contains, Pages
    <2>4. f \in Bijection(1 .. n, S)
      <3>1. S \subseteq Pages
        BY <2>3 DEF FreePages
      <3>2. \A i \in 1 .. n : f[i] \in S
        BY <2>1, <2>3 DEF IsList
      <3>3. f \in [1 .. n -> S]
        BY <3>2
      <3>4. \A q \in S : \E i \in 1 .. n : f[i] = q
        BY <2>1, <2>3, <3>1 DEF IsList
      <3>5. \A i, j \in 1 .. n : f[i] = f[j] => i = j
        BY <2>1 DEF IsList
      <3> QED
        BY <3>3, <3>4, <3>5 DEF Bijection, Injection, Surjection, IsInjective
    <2>5. ExistsBijection(1 .. n, S)
      BY <2>4 DEF ExistsBijection
    <2>6. Cardinality(S) = n
      BY <2>2, <2>5, FS_CountingElements
    <2>7. Cardinality(S) = End(r) - Begin(r)
      <3>1. Begin(r) \in Int /\ End(r) - 1 \in Int /\ Begin(r) <= End(r)
        BY RegionFacts
      <3>2. Cardinality(S) =
              IF Begin(r) > End(r) - 1 THEN 0 ELSE End(r) - 1 - Begin(r) + 1
        BY <3>1, FS_Interval
      <3> QED
        BY <3>2, RegionFacts
    <2> QED
      BY <2>6, <2>7
  <1> QED
    BY <1>1, AlwaysIInv, PTL
=============================================================================
