-------------------------- MODULE PageTableProofs ---------------------------
(***************************************************************************)
(* The invariant of the page tables, for any number of processes, pages    *)
(* and entries of a table, and what each operation does to it.             *)
(*                                                                         *)
(* Trees says that the tables form one tree per owner; from it follows     *)
(* what map, unmap and destroy do to Mapping, the partial functions that   *)
(* the trees stand for.  Held says which pages may be mapped where; it     *)
(* speaks of Mapping alone, and makes sure that the page mapped next, or   *)
(* given back, is mapped nowhere else.                                     *)
(*                                                                         *)
(* Every step of PageTable keeps the invariant and changes Mapping as      *)
(* PageMap allows, and the theorems follow.                                *)
(***************************************************************************)
EXTENDS PageTable, TLAPS

Ops == {"boot", "stack", "make", "unmap", "remap", "drop", "idle", "panic"}
TypeOK ==
  /\ entry \in [KPages -> [Idx -> Pte]]
  /\ role \in [KPages -> Roles]
  /\ root \in [Owners -> KPages \cup {Nil}] /\ root[Kernel] # Nil
  /\ ufree \subseteq UPages
  /\ tf \in [Procs -> KPages \cup {Nil}]
  /\ pid \in [Owners -> Nat] /\ nextPid \in Nat
  /\ job \in [op : Ops, from : Owners \cup {Nil}, to : Owners \cup {Nil},
              todo : SUBSET Pages]

\* Entries of a table lead to tables of the next level, or, at the last, to pages.
Shape ==
  \A t \in KPages, i \in Idx :
    /\ role[t] \in {"root", "l1"} =>
         /\ entry[t][i].kind # "leaf"
         /\ Leads(t, i) => /\ Below(t, i) \in KPages
                           /\ role[Below(t, i)] = IF role[t] = "root" THEN "l1" ELSE "l0"
    /\ role[t] = "l0" => ~Leads(t, i) /\ (entry[t][i].kind = "none" => entry[t][i] = Zero)

OneParent ==
  \A t, u \in KPages, i, j \in Idx :
    /\ role[t] \in {"root", "l1"} /\ Leads(t, i)
    /\ role[u] \in {"root", "l1"} /\ Leads(u, j)
    /\ Below(t, i) = Below(u, j)
    => t = u /\ i = j

RootOk ==
  /\ \A o \in Owners : root[o] # Nil => role[root[o]] = "root"
  /\ \A o, q \in Owners : root[o] # Nil /\ root[o] = root[q] => o = q

\* No table is lost: each has a parent, and each root an owner.
Parents ==
  \A n \in KPages :
    /\ role[n] = "root" => \E o \in Owners : root[o] = n
    /\ role[n] = "l1" => \E t \in KPages, i \in Idx :
                           role[t] = "root" /\ Leads(t, i) /\ Below(t, i) = n
    /\ role[n] = "l0" => \E t \in KPages, i \in Idx :
                           role[t] = "l1" /\ Leads(t, i) /\ Below(t, i) = n

Trees == Shape /\ OneParent /\ RootOk /\ Parents

-----------------------------------------------------------------------------
(* Addresses. *)

\* Division by the width of a table.
LEMMA Division ==
  ASSUME NEW F \in Nat \ {0}, NEW x \in Nat
  PROVE  /\ x \div F \in Nat /\ x % F \in 0 .. F - 1
         /\ x = F * (x \div F) + (x % F)
BY SMT

\* The quotient of a number below a multiple.
LEMMA Quotient ==
  ASSUME NEW F \in Nat \ {0}, NEW G \in Nat, NEW x \in Nat, x < F * G
  PROVE  x \div F < G
<1> DEFINE k == x \div F
<1>1. k \in Nat /\ F * k <= x
  BY Division
<1> USE <1>1
<1>2. SUFFICES ASSUME k >= G PROVE FALSE
  OBVIOUS
<1>3. F * k >= F * G
  BY <1>2, SMT
<1> QED
  BY <1>3, SMT

\* vpn cuts an address into digits, which determine it.
LEMMA Digits ==
  /\ \A v \in Pages : Vpn2(v) \in Idx /\ Vpn1(v) \in Idx /\ Vpn0(v) \in Idx
  /\ \A v, w \in Pages :
       Vpn2(v) = Vpn2(w) /\ Vpn1(v) = Vpn1(w) /\ Vpn0(v) = Vpn0(w) => v = w
<1>0. Fan \in Nat \ {0} /\ MaxVa \in Nat /\ MaxVa <= Fan * Fan * Fan
  BY PageTableAssumption, SMT
<1> USE <1>0
<1>1. \A v \in Pages :
        /\ v \in Nat /\ v \div Fan \in Nat /\ (v \div Fan) \div Fan \in Nat
        /\ Vpn2(v) \in Idx /\ Vpn1(v) \in Idx /\ Vpn0(v) \in Idx
        /\ v = Fan * (v \div Fan) + Vpn0(v)
        /\ v \div Fan = Fan * ((v \div Fan) \div Fan) + Vpn1(v)
  <2> SUFFICES ASSUME NEW v \in Pages
               PROVE  /\ v \in Nat /\ v \div Fan \in Nat /\ (v \div Fan) \div Fan \in Nat
                      /\ Vpn2(v) \in Idx /\ Vpn1(v) \in Idx /\ Vpn0(v) \in Idx
                      /\ v = Fan * (v \div Fan) + Vpn0(v)
                      /\ v \div Fan = Fan * ((v \div Fan) \div Fan) + Vpn1(v)
    BY Zenon
  <2>1. v \in Nat
    BY DEF Pages
  <2>2. v \div Fan \in Nat /\ v % Fan \in Idx /\ v = Fan * (v \div Fan) + (v % Fan)
    BY <2>1, Division, Zenon DEF Idx
  <2>3. /\ (v \div Fan) \div Fan \in Nat /\ (v \div Fan) % Fan \in Idx
        /\ v \div Fan = Fan * ((v \div Fan) \div Fan) + ((v \div Fan) % Fan)
    BY <2>2, Division, Zenon DEF Idx
  <2>4. ((v \div Fan) \div Fan) % Fan \in Idx
    BY <2>3, Division, Zenon DEF Idx
  <2> QED
    BY <2>1, <2>2, <2>3, <2>4, Zenon DEF Vpn2, Vpn1, Vpn0
<1> USE <1>1
<1>2. \A v \in Pages : Vpn2(v) = (v \div Fan) \div Fan
  <2> SUFFICES ASSUME NEW v \in Pages PROVE Vpn2(v) = (v \div Fan) \div Fan
    BY Zenon
  <2> DEFINE b == (v \div Fan) \div Fan
  <2>1. v < Fan * (Fan * Fan)
    BY SMT DEF Pages
  <2>2. v \div Fan < Fan * Fan
    BY <2>1, Quotient
  <2>3. b < Fan /\ b \in Nat
    BY <2>2, Quotient, Zenon
  <2> HIDE DEF b
  <2>4. b % Fan = b
    BY <2>3, SMT
  <2> QED
    BY <2>4, Zenon DEF Vpn2, b
<1>3. ASSUME NEW v \in Pages, NEW w \in Pages,
             Vpn2(v) = Vpn2(w), Vpn1(v) = Vpn1(w), Vpn0(v) = Vpn0(w)
      PROVE  v = w
  <2>1. (v \div Fan) \div Fan = (w \div Fan) \div Fan
    BY <1>2, <1>3, Zenon
  <2>2. v \div Fan = w \div Fan
    BY <1>3, <2>1, Zenon
  <2> QED
    BY <1>3, <2>2, Zenon
<1> QED
  BY <1>3, Zenon

-----------------------------------------------------------------------------
(* Paths through the trees. *)

\* The tables on the way to an address have the roles of their levels.
LEMMA Path ==
  ASSUME TypeOK, Trees, NEW o \in Owners, root[o] # Nil, NEW v \in Pages
  PROVE  /\ root[o] \in KPages /\ role[root[o]] = "root"
         /\ Leads(root[o], Vpn2(v)) =>
              /\ Below(root[o], Vpn2(v)) \in KPages
              /\ role[Below(root[o], Vpn2(v))] = "l1"
         /\ Reaches(root[o], v) =>
              /\ LastTable(root[o], v) \in KPages
              /\ role[LastTable(root[o], v)] = "l0"
<1>1. root[o] \in KPages /\ role[root[o]] = "root"
  BY Zenon DEF TypeOK, Trees, RootOk
<1>2. Vpn2(v) \in Idx /\ Vpn1(v) \in Idx
  BY Digits, Zenon
<1>3. Leads(root[o], Vpn2(v)) =>
        Below(root[o], Vpn2(v)) \in KPages /\ role[Below(root[o], Vpn2(v))] = "l1"
  BY <1>1, <1>2, Zenon DEF Trees, Shape
<1>4. Reaches(root[o], v) =>
        LastTable(root[o], v) \in KPages /\ role[LastTable(root[o], v)] = "l0"
  BY <1>2, <1>3, Zenon DEF Trees, Shape, Reaches, LastTable
<1> QED
  BY <1>1, <1>3, <1>4, Zenon

\* An entry of a last-level table belongs to one address of one owner.
LEMMA OnePath ==
  ASSUME TypeOK, Trees, NEW o \in Owners, NEW q \in Owners, root[o] # Nil, root[q] # Nil,
         NEW v \in Pages, NEW w \in Pages,
         Reaches(root[o], v), Reaches(root[q], w),
         LastTable(root[o], v) = LastTable(root[q], w), Vpn0(v) = Vpn0(w)
  PROVE  o = q /\ v = w
<1> DEFINE a == Below(root[o], Vpn2(v))
           b == Below(root[q], Vpn2(w))
<1>1. /\ Vpn2(v) \in Idx /\ Vpn1(v) \in Idx /\ Vpn2(w) \in Idx /\ Vpn1(w) \in Idx
  BY Digits, Zenon
<1>2. /\ root[o] \in KPages /\ role[root[o]] = "root" /\ Leads(root[o], Vpn2(v))
      /\ a \in KPages /\ role[a] = "l1" /\ Leads(a, Vpn1(v))
  BY Path, Zenon DEF Reaches
<1>3. /\ root[q] \in KPages /\ role[root[q]] = "root" /\ Leads(root[q], Vpn2(w))
      /\ b \in KPages /\ role[b] = "l1" /\ Leads(b, Vpn1(w))
  BY Path, Zenon DEF Reaches
<1>4. Below(a, Vpn1(v)) = Below(b, Vpn1(w))
  BY Zenon DEF LastTable
<1>5. a = b /\ Vpn1(v) = Vpn1(w)
  <2> HIDE DEF a, b
  <2> QED
    BY <1>1, <1>2, <1>3, <1>4, Zenon DEF Trees, OneParent
<1>6. root[o] = root[q] /\ Vpn2(v) = Vpn2(w)
  BY <1>1, <1>2, <1>3, <1>5, Zenon DEF Trees, OneParent
<1> QED
  BY <1>5, <1>6, Digits, Zenon DEF Trees, RootOk

\* What is mapped is a leaf.
LEMMA Mapped ==
  ASSUME TypeOK, Trees, NEW o \in Owners, NEW v \in Pages
  PROVE  /\ Mapping[o][v] = IF root[o] = Nil THEN Zero ELSE Translate(root[o], v)
         /\ Mapping[o][v] \in Pte
         /\ Mapping[o][v] # Zero <=> Mapping[o][v].kind = "leaf"
<1>1. Mapping[o][v] = IF root[o] = Nil THEN Zero ELSE Translate(root[o], v)
  BY Zenon DEF Mapping
<1> USE <1>1
<1>2. Zero \in Pte /\ Zero.kind = "none"
  BY Zenon DEF Zero, Pte, Pas, Perms
<1>3. CASE root[o] = Nil \/ ~Reaches(root[o], v)
  BY <1>2, <1>3, Zenon DEF Translate
<1>4. CASE root[o] # Nil /\ Reaches(root[o], v)
  <2>1. Mapping[o][v] = entry[LastTable(root[o], v)][Vpn0(v)]
    BY <1>4, Zenon DEF Translate
  <2>2. /\ LastTable(root[o], v) \in KPages /\ role[LastTable(root[o], v)] = "l0"
        /\ Vpn0(v) \in Idx
    BY <1>4, Path, Digits, Zenon
  <2>3. entry[LastTable(root[o], v)][Vpn0(v)] \in Pte
    BY <2>2, Zenon DEF TypeOK
  <2>4. entry[LastTable(root[o], v)][Vpn0(v)].kind \in {"none", "table", "leaf"}
    BY <2>3, Zenon DEF Pte
  <2> QED
    BY <1>2, <2>1, <2>2, <2>3, <2>4, Zenon DEF Trees, Shape, Leads
<1> QED
  BY <1>3, <1>4, Zenon

\* A step that leaves the upper tables alone leaves the way to an address alone.
LEMMA SamePath ==
  ASSUME TypeOK, Trees, NEW o \in Owners, root[o] # Nil, root'[o] = root[o],
         \A t \in KPages : role[t] \in {"root", "l1"} => entry'[t] = entry[t],
         NEW v \in Pages
  PROVE  /\ Mapping'[o][v] = IF Reaches(root[o], v)
                             THEN entry'[LastTable(root[o], v)][Vpn0(v)] ELSE Zero
         /\ Mapping[o][v] = IF Reaches(root[o], v)
                            THEN entry[LastTable(root[o], v)][Vpn0(v)] ELSE Zero
<1> DEFINE a == Below(root[o], Vpn2(v))
<1>1. /\ entry'[root[o]] = entry[root[o]]
      /\ Leads(root[o], Vpn2(v)) => entry'[a] = entry[a]
  BY Path, Zenon
<1>2. (Leads(root[o], Vpn2(v)))' <=> Leads(root[o], Vpn2(v))
  BY <1>1, Zenon DEF Leads
<1>3. a' = a
  BY <1>1, Zenon DEF Below
<1>4. Leads(root[o], Vpn2(v)) => /\ (Leads(a, Vpn1(v)))' <=> Leads(a, Vpn1(v))
                                 /\ (Below(a, Vpn1(v)))' = Below(a, Vpn1(v))
  <2> HIDE DEF a
  <2> QED
    BY <1>1, <1>3, Zenon DEF Leads, Below
<1>5. (Reaches(root[o], v))' <=> Reaches(root[o], v)
  BY <1>2, <1>4, Zenon DEF Reaches
<1>6. Reaches(root[o], v) => (LastTable(root[o], v))' = LastTable(root[o], v)
  BY <1>4, Zenon DEF Reaches, LastTable
<1>7. (Translate(root[o], v))' = IF Reaches(root[o], v)
                                 THEN entry'[LastTable(root[o], v)][Vpn0(v)] ELSE Zero
  <2> HIDE DEF a
  <2>1. CASE Reaches(root[o], v)
    <3>1. (Translate(root[o], v))' = entry'[(LastTable(root[o], v))'][Vpn0(v)]
      BY <1>5, <2>1, Zenon DEF Translate
    <3> QED
      BY <1>6, <2>1, <3>1, Zenon
  <2>2. CASE ~Reaches(root[o], v)
    BY <1>5, <2>2, Zenon DEF Translate
  <2> QED
    BY <2>1, <2>2, Zenon
<1>8. Mapping'[o][v] = (Translate(root[o], v))' /\ Mapping[o][v] = Translate(root[o], v)
  BY Zenon DEF Mapping
<1> QED
  BY <1>7, <1>8 DEF Translate

\* A step that leaves the tables alone leaves the mappings of their owners alone.
LEMMA Quiet ==
  ASSUME TypeOK, Trees, NEW o \in Owners, root[o] # Nil, root'[o] = root[o],
         \A t \in KPages : role[t] \in {"root", "l1", "l0"} => entry'[t] = entry[t]
  PROVE  \A v \in Pages : Mapping'[o][v] = Mapping[o][v]
<1> SUFFICES ASSUME NEW v \in Pages PROVE Mapping'[o][v] = Mapping[o][v]
  BY Zenon
<1>1. Reaches(root[o], v) => entry'[LastTable(root[o], v)] = entry[LastTable(root[o], v)]
  BY Path, Zenon
<1> QED
  BY <1>1, SamePath, Zenon

-----------------------------------------------------------------------------
(* unmap. *)

\* unmap takes one page from one owner, and keeps the trees.
LEMMA UnmapStep ==
  ASSUME TypeOK, Trees, NEW o \in Owners, root[o] # Nil, root' = root,
         NEW v \in Pages, UnmapPage(o, v),
         Mapping[o][v].to \in KPages => role[Mapping[o][v].to] = "data"
  PROVE  /\ Trees'
         /\ entry' \in [KPages -> [Idx -> Pte]] /\ role' \in [KPages -> Roles]
         /\ Mapping[o][v] # Zero
         /\ \A q \in Owners, w \in Pages :
              Mapping'[q][w] = IF q = o /\ w = v THEN Zero ELSE Mapping[q][w]
         /\ role' = [n \in KPages |-> IF n = Mapping[o][v].to THEN "free" ELSE role[n]]
         /\ ufree' = IF Mapping[o][v].to \in UPages THEN ufree \cup {Mapping[o][v].to}
                     ELSE ufree
<1> DEFINE t0 == LastTable(root[o], v)
           i0 == Vpn0(v)
           pa == Mapping[o][v].to
<1>1. Mapping[o][v] = Translate(root[o], v)
  BY Mapped, Zenon
<1>2. Mapping[o][v].kind = "leaf" /\ Mapping[o][v] # Zero
  BY <1>1, Mapped, Zenon DEF UnmapPage
<1>3. Reaches(root[o], v)
  BY <1>1, <1>2, Zenon DEF Translate
<1>4. t0 \in KPages /\ role[t0] = "l0" /\ i0 \in Idx
  BY <1>3, Path, Digits, Zenon
<1>5. /\ role' = [n \in KPages |-> IF n = pa THEN "free" ELSE role[n]]
      /\ ufree' = IF pa \in UPages THEN ufree \cup {pa} ELSE ufree
      /\ entry' = [entry EXCEPT ![t0][i0] = Zero]
  BY <1>1, Zenon DEF UnmapPage
<1> HIDE DEF t0, i0, pa
<1>6. Zero \in Pte /\ Zero.kind = "none"
  BY Zenon DEF Zero, Pte, Pas, Perms
<1>7. /\ entry' \in [KPages -> [Idx -> Pte]]
      /\ \A t \in KPages, i \in Idx :
           entry'[t][i] = IF t = t0 /\ i = i0 THEN Zero ELSE entry[t][i]
      /\ \A t \in KPages : t # t0 => entry'[t] = entry[t]
  BY <1>4, <1>5, <1>6, Zenon DEF TypeOK
<1> USE <1>7
<1>8. \A t \in KPages : /\ role[t] \in {"root", "l1", "l0"} => role'[t] = role[t]
                        /\ role'[t] \in {"root", "l1", "l0"} => role'[t] = role[t]
  BY <1>5, Zenon DEF pa
<1>9. \A t \in KPages, i \in Idx :
        role[t] \in {"root", "l1"} =>
          /\ entry'[t][i] = entry[t][i]
          /\ (Leads(t, i))' <=> Leads(t, i)
          /\ (Below(t, i))' = Below(t, i)
  BY <1>4, Zenon DEF Leads, Below
<1>10. Trees'
  <2>1. Shape'
    <3> SUFFICES ASSUME NEW t \in KPages, NEW i \in Idx
                 PROVE  /\ role'[t] \in {"root", "l1"} =>
                             /\ entry'[t][i].kind # "leaf"
                             /\ (Leads(t, i))' =>
                                  /\ (Below(t, i))' \in KPages
                                  /\ role'[(Below(t, i))'] =
                                       IF role'[t] = "root" THEN "l1" ELSE "l0"
                        /\ role'[t] = "l0" =>
                             ~(Leads(t, i))' /\ (entry'[t][i].kind = "none" => entry'[t][i] = Zero)
      BY Zenon DEF Shape
    <3>1. CASE role'[t] \in {"root", "l1"}
      BY <1>8, <1>9, <3>1 DEF Trees, Shape
    <3>2. CASE role'[t] = "l0"
      BY <1>6, <1>8, <3>2 DEF Trees, Shape, Leads
    <3> QED
      BY <3>1, <3>2, Zenon
  <2>2. OneParent'
    BY <1>8, <1>9 DEF Trees, OneParent
  <2>3. RootOk'
    <3>1. \A q \in Owners : root[q] # Nil => root[q] \in KPages
      BY Zenon DEF TypeOK
    <3> QED
      BY <1>8, <3>1, Zenon DEF Trees, RootOk
  <2>4. Parents'
    BY <1>8, <1>9 DEF Trees, Parents
  <2> QED
    BY <2>1, <2>2, <2>3, <2>4, Zenon DEF Trees
<1>11. ASSUME NEW q \in Owners, NEW w \in Pages
       PROVE  Mapping'[q][w] = IF q = o /\ w = v THEN Zero ELSE Mapping[q][w]
  <2>1. CASE root[q] = Nil
    BY <2>1, Zenon DEF Mapping
  <2>2. CASE root[q] # Nil /\ ~Reaches(root[q], w)
    BY <1>4, <2>2, SamePath
  <2>3. CASE root[q] # Nil /\ Reaches(root[q], w)
    <3>1. LastTable(root[q], w) \in KPages /\ Vpn0(w) \in Idx
      BY <2>3, Path, Digits, Zenon
    <3>2. LastTable(root[q], w) = t0 /\ Vpn0(w) = i0 <=> q = o /\ w = v
      BY <1>3, <2>3, OnePath DEF t0, i0
    <3>3. /\ Mapping'[q][w] = entry'[LastTable(root[q], w)][Vpn0(w)]
          /\ Mapping[q][w] = entry[LastTable(root[q], w)][Vpn0(w)]
      BY <1>4, <2>3, SamePath, Zenon
    <3> QED
      BY <3>1, <3>2, <3>3, Zenon
  <2> QED
    BY <2>1, <2>2, <2>3, Zenon
<1>12. role' \in [KPages -> Roles]
  BY <1>5, Zenon DEF TypeOK, Roles
<1> QED
  BY <1>2, <1>5, <1>10, <1>11, <1>12, Zenon DEF pa

-----------------------------------------------------------------------------
(* map. *)

\* The pages that walk finds or makes on the way from the root of o to v.
Finds(o, v, pa, n1, n0) ==
  /\ root[o] \in KPages /\ role[root[o]] = "root"
  /\ \/ Leads(root[o], Vpn2(v)) /\ n1 = Below(root[o], Vpn2(v)) /\ role[n1] = "l1"
     \/ ~Leads(root[o], Vpn2(v)) /\ role[n1] = "free"
  /\ \/ /\ Leads(root[o], Vpn2(v)) /\ Leads(n1, Vpn1(v))
        /\ n0 = Below(n1, Vpn1(v)) /\ role[n0] = "l0"
     \/ /\ Leads(root[o], Vpn2(v)) => ~Leads(n1, Vpn1(v))
        /\ role[n0] = "free"
  /\ n1 # root[o] /\ n0 # root[o] /\ n1 # n0
  /\ pa # root[o] /\ pa # n1 /\ pa # n0

\* walk finds tables of the right levels, or takes free pages.
LEMMA WalkPages ==
  ASSUME TypeOK, Trees, NEW o \in Owners, root[o] # Nil, NEW v \in Pages,
         NEW pa, pa \in KPages => role[pa] \in {"free", "data"},
         NEW n1 \in KPages, NEW n0 \in KPages,
         Walk(Free \ {pa}, root[o], v, n1, n0)
  PROVE  Finds(o, v, pa, n1, n0)
<1>1. /\ root[o] \in KPages /\ role[root[o]] = "root"
      /\ Leads(root[o], Vpn2(v)) =>
           Below(root[o], Vpn2(v)) \in KPages /\ role[Below(root[o], Vpn2(v))] = "l1"
  BY Path, Zenon
<1>2. \/ Leads(root[o], Vpn2(v)) /\ n1 = Below(root[o], Vpn2(v)) /\ role[n1] = "l1"
      \/ ~Leads(root[o], Vpn2(v)) /\ role[n1] = "free" /\ n1 # pa
  BY <1>1, Zenon DEF Walk, Lowest, Free
<1>3. \/ /\ Leads(root[o], Vpn2(v)) /\ Leads(n1, Vpn1(v))
         /\ n0 = Below(n1, Vpn1(v)) /\ role[n0] = "l0"
      \/ /\ Leads(root[o], Vpn2(v)) => ~Leads(n1, Vpn1(v))
         /\ role[n0] = "free" /\ n0 # n1 /\ n0 # pa
  <2>1. CASE Leads(root[o], Vpn2(v)) /\ Leads(n1, Vpn1(v))
    <3>1. n0 = Below(n1, Vpn1(v)) /\ role[n1] = "l1" /\ Vpn1(v) \in Idx
      BY <1>2, <2>1, Digits, Zenon DEF Walk
    <3> QED
      BY <2>1, <3>1, Zenon DEF Trees, Shape
  <2>2. CASE ~(Leads(root[o], Vpn2(v)) /\ Leads(n1, Vpn1(v)))
    BY <2>2, Zenon DEF Walk, Lowest, Free
  <2> QED
    BY <2>1, <2>2, Zenon
<1> QED
  BY <1>1, <1>2, <1>3, Zenon DEF Finds

\* What map writes: the way to v, over cleared tables, and nothing else.
Writes(o, v, pte, n1, n0) ==
  /\ entry' \in [KPages -> [Idx -> Pte]]
  /\ entry'[root[o]][Vpn2(v)] = Table(n1)
  /\ entry'[n1][Vpn1(v)] = Table(n0)
  /\ entry'[n0][Vpn0(v)] = pte
  /\ role[n1] = "free" => \A i \in Idx : i # Vpn1(v) => entry'[n1][i] = Zero
  /\ role[n0] = "free" => \A i \in Idx : i # Vpn0(v) => entry'[n0][i] = Zero
  /\ \A t \in KPages, i \in Idx :
       /\ role[t] \in {"root", "l1", "l0"}
       /\ ~(t = root[o] /\ i = Vpn2(v)) /\ ~(t = n1 /\ i = Vpn1(v))
       /\ ~(t = n0 /\ i = Vpn0(v))
       => entry'[t][i] = entry[t][i]

\* Fill writes that.
LEMMA MapWrites ==
  ASSUME TypeOK, NEW o \in Owners, NEW v \in Pages, NEW pte \in Leaves,
         pte.to \in KPages => role[pte.to] \in {"free", "data"},
         NEW n1 \in KPages, NEW n0 \in KPages, Finds(o, v, pte.to, n1, n0),
         entry' = Fill(root[o], v, n1, n0, pte)
  PROVE  Writes(o, v, pte, n1, n0)
<1> DEFINE r == root[o]
<1>1. /\ r \in KPages /\ n1 # r /\ n0 # r /\ n1 # n0
      /\ pte.to # r /\ pte.to # n1 /\ pte.to # n0
  BY Zenon DEF Finds
<1>2. Vpn2(v) \in Idx /\ Vpn1(v) \in Idx /\ Vpn0(v) \in Idx
  BY Digits, Zenon
<1>3. \A t \in KPages, i \in Idx :
        entry'[t][i] = IF t = pte.to THEN Junk[i]
                       ELSE IF t = r /\ i = Vpn2(v) THEN Table(n1)
                       ELSE IF t = n1 /\ i = Vpn1(v) THEN Table(n0)
                       ELSE IF t = n0 /\ i = Vpn0(v) THEN pte
                       ELSE IF t \in {n1, n0} \cap Free THEN Zero
                       ELSE entry[t][i]
  BY Zenon DEF Fill
<1> USE <1>3
<1>4. \A i \in Idx : Junk[i] \in Pte
  BY Zenon DEF Junk, Leaf, Pte, Pas, Perms
<1>5. Table(n1) \in Pte /\ Table(n0) \in Pte /\ pte \in Pte /\ Zero \in Pte
  BY Zenon DEF Table, Zero, Pte, Pas, Perms, Leaves
<1>6. entry' \in [KPages -> [Idx -> Pte]]
  <2>1. \A t \in KPages, i \in Idx : entry'[t][i] \in Pte
    <3> HIDE DEF r
    <3> QED
      BY <1>4, <1>5 DEF TypeOK
  <2>2. entry' = [t \in KPages |-> [i \in Idx |-> entry'[t][i]]]
    BY Zenon DEF Fill
  <2> QED
    BY <2>1, <2>2
<1> HIDE DEF r
<1>7. /\ entry'[r][Vpn2(v)] = Table(n1)
      /\ entry'[n1][Vpn1(v)] = Table(n0)
      /\ entry'[n0][Vpn0(v)] = pte
  BY <1>1, <1>2, Zenon
<1>8. /\ role[n1] = "free" => \A i \in Idx : i # Vpn1(v) => entry'[n1][i] = Zero
      /\ role[n0] = "free" => \A i \in Idx : i # Vpn0(v) => entry'[n0][i] = Zero
  BY <1>1, Zenon DEF Free
<1>9. ASSUME NEW t \in KPages, NEW i \in Idx, role[t] \in {"root", "l1", "l0"},
             ~(t = r /\ i = Vpn2(v)), ~(t = n1 /\ i = Vpn1(v)), ~(t = n0 /\ i = Vpn0(v))
      PROVE  entry'[t][i] = entry[t][i]
  <2>1. t # pte.to /\ t \notin Free
    BY <1>9, Zenon DEF Free
  <2> QED
    BY <1>9, <2>1
<1> QED
  BY <1>6, <1>7, <1>8, <1>9 DEF Writes, r

\* map through the tables n1 and n0.
MapsVia(o, v, pte, gone, n1, n0) ==
  /\ root[o] # Nil /\ root' = root
  /\ pte.to \in KPages => role[pte.to] \in {"free", "data"}
  /\ \A n \in KPages : n \in gone => role[n] = "data"
  /\ Walk(Free \ {pte.to}, root[o], v, n1, n0)
  /\ entry' = Fill(root[o], v, n1, n0, pte)
  /\ role' = [n \in KPages |-> IF n = pte.to THEN "data"
                               ELSE IF n = n1 THEN "l1"
                               ELSE IF n = n0 THEN "l0"
                               ELSE IF n \in gone THEN "free"
                               ELSE role[n]]

\* The links between tables after map: those there were, and the way to v.
Linked(o, v, n1, n0) ==
  /\ \A t \in KPages :
       /\ role[t] \in {"root", "l1", "l0"} => role'[t] = role[t]
       /\ role'[t] \in {"root", "l1", "l0"} => role'[t] = role[t] \/ t \in {n1, n0}
  /\ role'[n1] = "l1" /\ role'[n0] = "l0" /\ role'[root[o]] = "root"
  /\ (Leads(root[o], Vpn2(v)))' /\ (Below(root[o], Vpn2(v)))' = n1
  /\ (Leads(n1, Vpn1(v)))' /\ (Below(n1, Vpn1(v)))' = n0
  /\ \A t \in KPages, i \in Idx :
       role[t] \in {"root", "l1"} /\ Leads(t, i) =>
         (Leads(t, i))' /\ (Below(t, i))' = Below(t, i)
  /\ \A t \in KPages, i \in Idx :
       role'[t] \in {"root", "l1"} /\ (Leads(t, i))' =>
         \/ t = root[o] /\ i = Vpn2(v)
         \/ t = n1 /\ i = Vpn1(v)
         \/ role[t] = role'[t] /\ Leads(t, i) /\ (Below(t, i))' = Below(t, i)

\* map keeps the links and adds that way.
LEMMA MapLinks ==
  ASSUME TypeOK, Trees, NEW o \in Owners, NEW v \in Pages, NEW pte \in Leaves, NEW gone,
         NEW n1 \in KPages, NEW n0 \in KPages, MapsVia(o, v, pte, gone, n1, n0)
  PROVE  /\ Finds(o, v, pte.to, n1, n0)
         /\ Writes(o, v, pte, n1, n0)
         /\ Linked(o, v, n1, n0)
<1> DEFINE r == root[o]
           i2 == Vpn2(v)
           i1 == Vpn1(v)
           i0 == Vpn0(v)
<1>0. /\ root[o] # Nil /\ root' = root
      /\ pte.to \in KPages => role[pte.to] \in {"free", "data"}
      /\ \A n \in KPages : n \in gone => role[n] = "data"
      /\ Walk(Free \ {pte.to}, root[o], v, n1, n0)
      /\ entry' = Fill(root[o], v, n1, n0, pte)
      /\ \A n \in KPages : role'[n] = IF n = pte.to THEN "data"
                                      ELSE IF n = n1 THEN "l1"
                                      ELSE IF n = n0 THEN "l0"
                                      ELSE IF n \in gone THEN "free"
                                      ELSE role[n]
  BY Zenon DEF MapsVia
<1> USE <1>0
<1>a. Finds(o, v, pte.to, n1, n0)
  BY WalkPages, Zenon
<1>b. Writes(o, v, pte, n1, n0)
  BY <1>a, MapWrites, Zenon
<1>1. /\ r \in KPages /\ role[r] = "root"
      /\ \/ Leads(r, i2) /\ n1 = Below(r, i2) /\ role[n1] = "l1"
         \/ ~Leads(r, i2) /\ role[n1] = "free"
      /\ \/ /\ Leads(r, i2) /\ Leads(n1, i1)
            /\ n0 = Below(n1, i1) /\ role[n0] = "l0"
         \/ /\ Leads(r, i2) => ~Leads(n1, i1)
            /\ role[n0] = "free"
      /\ n1 # r /\ n0 # r /\ n1 # n0
      /\ pte.to # r /\ pte.to # n1 /\ pte.to # n0
  BY <1>a, Zenon DEF Finds
<1> USE <1>1
<1>2. /\ entry' \in [KPages -> [Idx -> Pte]]
      /\ entry'[r][i2] = Table(n1)
      /\ entry'[n1][i1] = Table(n0)
      /\ entry'[n0][i0] = pte
      /\ role[n1] = "free" => \A i \in Idx : i # i1 => entry'[n1][i] = Zero
      /\ role[n0] = "free" => \A i \in Idx : i # i0 => entry'[n0][i] = Zero
      /\ \A t \in KPages, i \in Idx :
           /\ role[t] \in {"root", "l1", "l0"}
           /\ ~(t = r /\ i = i2) /\ ~(t = n1 /\ i = i1) /\ ~(t = n0 /\ i = i0)
           => entry'[t][i] = entry[t][i]
  BY <1>b, Zenon DEF Writes
<1>3. i2 \in Idx /\ i1 \in Idx /\ i0 \in Idx
  BY Digits, Zenon
<1> HIDE DEF r, i2, i1, i0
<1>4. \A t \in KPages :
        /\ role[t] \in {"root", "l1", "l0"} => role'[t] = role[t]
        /\ role'[t] \in {"root", "l1", "l0"} => role'[t] = role[t] \/ t \in {n1, n0}
  BY Zenon
<1>5. role'[n1] = "l1" /\ role'[n0] = "l0" /\ role'[r] = "root"
  BY <1>4, Zenon
<1>6. (Leads(r, i2))' /\ (Below(r, i2))' = n1 /\ (Leads(n1, i1))' /\ (Below(n1, i1))' = n0
  <2>1. r' = r /\ i2' = i2 /\ i1' = i1
    BY Zenon DEF r, i2, i1
  <2> QED
    BY <1>2, <2>1 DEF Leads, Below, Table
<1>7. ASSUME NEW t \in KPages, NEW i \in Idx, role[t] \in {"root", "l1"},
             ~(t = r /\ i = i2), ~(t = n1 /\ i = i1)
      PROVE  entry'[t][i] = entry[t][i]
  <2>1. t # n0
    BY <1>7, Zenon
  <2> QED
    BY <1>2, <1>7, <2>1, Zenon
<1>8. ASSUME NEW t \in KPages, NEW i \in Idx, role[t] \in {"root", "l1"}, Leads(t, i)
      PROVE  (Leads(t, i))' /\ (Below(t, i))' = Below(t, i)
  <2>1. CASE t = r /\ i = i2
    BY <1>2, <1>8, <2>1 DEF Leads, Below, Table
  <2>2. CASE t = n1 /\ i = i1
    BY <1>2, <1>8, <2>2 DEF Leads, Below, Table
  <2>3. CASE ~(t = r /\ i = i2) /\ ~(t = n1 /\ i = i1)
    BY <1>7, <1>8, <2>3, Zenon DEF Leads, Below
  <2> QED
    BY <2>1, <2>2, <2>3, Zenon
<1>9. ASSUME NEW t \in KPages, NEW i \in Idx, role'[t] \in {"root", "l1"}, (Leads(t, i))',
             ~(t = r /\ i = i2), ~(t = n1 /\ i = i1)
      PROVE  role[t] = role'[t] /\ Leads(t, i) /\ (Below(t, i))' = Below(t, i)
  <2>1. CASE role[t] \in {"root", "l1"}
    BY <1>4, <1>7, <1>9, <2>1, Zenon DEF Leads, Below
  <2>2. CASE role[t] \notin {"root", "l1"}
    <3>1. t = n1 /\ role[n1] = "free"
      BY <1>4, <1>5, <1>9, <2>2, Zenon
    <3>2. entry'[t][i] = Zero
      BY <1>2, <1>9, <3>1, Zenon
    <3> QED
      BY <1>9, <3>2 DEF Leads, Zero
  <2> QED
    BY <2>1, <2>2, Zenon
<1> QED
  <2>1. r' = r /\ i2' = i2 /\ i1' = i1
    BY Zenon DEF r, i2, i1
  <2>2. Linked(o, v, n1, n0)
    BY <1>4, <1>5, <1>6, <1>8, <1>9 DEF Linked, r, i2, i1
  <2> QED
    BY <1>a, <1>b, <2>2, Zenon

\* The links there were lead to n1 and n0 only on the way to v.
LEMMA NoOtherWay ==
  ASSUME TypeOK, Trees, NEW o \in Owners, NEW v \in Pages, NEW pa,
         NEW n1 \in KPages, NEW n0 \in KPages, Finds(o, v, pa, n1, n0),
         NEW t \in KPages, NEW i \in Idx, role[t] \in {"root", "l1"}, Leads(t, i)
  PROVE  /\ Below(t, i) = n1 => t = root[o] /\ i = Vpn2(v)
         /\ Below(t, i) = n0 => t = n1 /\ i = Vpn1(v)
<1> DEFINE r == root[o]
           i2 == Vpn2(v)
           i1 == Vpn1(v)
<1>0. i2 \in Idx /\ i1 \in Idx
  BY Digits, Zenon
<1>1. /\ r \in KPages /\ role[r] = "root"
      /\ \/ Leads(r, i2) /\ n1 = Below(r, i2) /\ role[n1] = "l1"
         \/ ~Leads(r, i2) /\ role[n1] = "free"
      /\ \/ /\ Leads(r, i2) /\ Leads(n1, i1)
            /\ n0 = Below(n1, i1) /\ role[n0] = "l0"
         \/ /\ Leads(r, i2) => ~Leads(n1, i1)
            /\ role[n0] = "free"
  BY Zenon DEF Finds
<1> USE <1>1
<1> HIDE DEF r, i2, i1
<1>2. role[Below(t, i)] \in {"l1", "l0"}
  BY Zenon DEF Trees, Shape
<1>3. ASSUME Below(t, i) = n1 PROVE t = r /\ i = i2
  <2>1. Leads(r, i2) /\ n1 = Below(r, i2)
    BY <1>2, <1>3, Zenon
  <2> QED
    BY <1>0, <1>3, <2>1, Zenon DEF Trees, OneParent
<1>4. ASSUME Below(t, i) = n0 PROVE t = n1 /\ i = i1
  <2>1. Leads(n1, i1) /\ n0 = Below(n1, i1) /\ role[n1] = "l1"
    BY <1>2, <1>4, Zenon
  <2> QED
    BY <1>0, <1>4, <2>1, Zenon DEF Trees, OneParent
<1> QED
  BY <1>3, <1>4, Zenon DEF r, i2, i1

\* map keeps the trees.
LEMMA MapTrees ==
  ASSUME TypeOK, Trees, NEW o \in Owners, NEW v \in Pages, NEW pte \in Leaves,
         NEW n1 \in KPages, NEW n0 \in KPages, root' = root, root[o] # Nil,
         Finds(o, v, pte.to, n1, n0), Writes(o, v, pte, n1, n0), Linked(o, v, n1, n0)
  PROVE  Trees'
<1>3. SUFFICES ASSUME NEW r, r = root[o], NEW i2, i2 = Vpn2(v),
                      NEW i1, i1 = Vpn1(v), NEW i0, i0 = Vpn0(v)
               PROVE  Trees'
  BY Zenon
<1>0. i2 \in Idx /\ i1 \in Idx /\ i0 \in Idx
  BY <1>3, Digits, Zenon
<1>1. /\ r \in KPages /\ role[r] = "root"
      /\ \/ Leads(r, i2) /\ n1 = Below(r, i2) /\ role[n1] = "l1"
         \/ ~Leads(r, i2) /\ role[n1] = "free"
      /\ \/ /\ Leads(r, i2) /\ Leads(n1, i1)
            /\ n0 = Below(n1, i1) /\ role[n0] = "l0"
         \/ /\ Leads(r, i2) => ~Leads(n1, i1)
            /\ role[n0] = "free"
      /\ n1 # r /\ n0 # r /\ n1 # n0
  BY <1>3, Zenon DEF Finds
<1>2. /\ \A t \in KPages :
           /\ role[t] \in {"root", "l1", "l0"} => role'[t] = role[t]
           /\ role'[t] \in {"root", "l1", "l0"} => role'[t] = role[t] \/ t \in {n1, n0}
      /\ role'[n1] = "l1" /\ role'[n0] = "l0" /\ role'[r] = "root"
      /\ (Leads(r, i2))' /\ (Below(r, i2))' = n1
      /\ (Leads(n1, i1))' /\ (Below(n1, i1))' = n0
      /\ \A t \in KPages, i \in Idx :
           role[t] \in {"root", "l1"} /\ Leads(t, i) =>
             (Leads(t, i))' /\ (Below(t, i))' = Below(t, i)
      /\ \A t \in KPages, i \in Idx :
           role'[t] \in {"root", "l1"} /\ (Leads(t, i))' =>
             \/ t = r /\ i = i2
             \/ t = n1 /\ i = i1
             \/ role[t] = role'[t] /\ Leads(t, i) /\ (Below(t, i))' = Below(t, i)
  BY <1>3, Zenon DEF Linked
<1> USE <1>2
<1>4. Shape'
  <2> SUFFICES ASSUME NEW t \in KPages, NEW i \in Idx
               PROVE  /\ role'[t] \in {"root", "l1"} =>
                           /\ entry'[t][i].kind # "leaf"
                           /\ (Leads(t, i))' =>
                                /\ (Below(t, i))' \in KPages
                                /\ role'[(Below(t, i))'] =
                                     IF role'[t] = "root" THEN "l1" ELSE "l0"
                      /\ role'[t] = "l0" =>
                           ~(Leads(t, i))' /\ (entry'[t][i].kind = "none" => entry'[t][i] = Zero)
    BY Zenon DEF Shape
  <2>1. CASE role'[t] \in {"root", "l1"}
    <3>1. entry'[t][i].kind # "leaf"
      <4>1. CASE (t = r /\ i = i2) \/ (t = n1 /\ i = i1)
        BY <4>1, Zenon DEF Leads
      <4>2. CASE ~(t = r /\ i = i2) /\ ~(t = n1 /\ i = i1) /\ role[t] \in {"root", "l1"}
        <5>1. entry'[t][i] = entry[t][i]
          BY <1>1, <1>3, <2>1, <4>2 DEF Writes
        <5> QED
          BY <4>2, <5>1 DEF Trees, Shape
      <4>3. CASE i # i1 /\ role[t] \notin {"root", "l1"}
        <5>1. t = n1 /\ role[n1] = "free"
          BY <1>1, <2>1, <4>3, Zenon
        <5>2. entry'[t][i] = Zero
          BY <1>3, <4>3, <5>1, Zenon DEF Writes
        <5> QED
          BY <5>2 DEF Zero
      <4> QED
        BY <1>1, <2>1, <4>1, <4>2, <4>3, Zenon
    <3>2. ASSUME (Leads(t, i))'
          PROVE  /\ (Below(t, i))' \in KPages
                 /\ role'[(Below(t, i))'] = IF role'[t] = "root" THEN "l1" ELSE "l0"
      <4>1. CASE t = r /\ i = i2
        BY <4>1, Zenon
      <4>2. CASE t = n1 /\ i = i1
        BY <4>2, Zenon
      <4>3. CASE role[t] = role'[t] /\ Leads(t, i) /\ (Below(t, i))' = Below(t, i)
        BY <2>1, <4>3 DEF Trees, Shape
      <4> QED
        BY <2>1, <3>2, <4>1, <4>2, <4>3, Zenon
    <3> QED
      BY <2>1, <3>1, <3>2, Zenon
  <2>2. CASE role'[t] = "l0"
    <3>1. CASE t = n0 /\ i = i0
      <4>1. entry'[t][i] = pte
        BY <1>3, <3>1, Zenon DEF Writes
      <4> QED
        BY <2>2, <4>1, Zenon DEF Leaves, Leads
    <3>2. CASE ~(t = n0 /\ i = i0) /\ role[t] = "l0"
      <4>1. entry'[t][i] = entry[t][i]
        BY <1>1, <1>3, <3>2 DEF Writes
      <4> QED
        BY <2>2, <3>2, <4>1 DEF Trees, Shape, Leads
    <3>3. CASE i # i0 /\ role[t] # "l0"
      <4>1. t = n0 /\ role[n0] = "free"
        BY <1>1, <2>2, <3>3, Zenon
      <4>2. entry'[t][i] = Zero
        BY <1>3, <3>3, <4>1, Zenon DEF Writes
      <4> QED
        BY <2>2, <4>2 DEF Zero, Leads
    <3> QED
      BY <1>1, <2>2, <3>1, <3>2, <3>3, Zenon
  <2> QED
    BY <2>1, <2>2, Zenon
<1>5. \A t \in KPages, i \in Idx :
        role[t] \in {"root", "l1"} /\ Leads(t, i) =>
          /\ Below(t, i) = n1 => t = r /\ i = i2
          /\ Below(t, i) = n0 => t = n1 /\ i = i1
  BY <1>3, NoOtherWay
<1>6. OneParent'
  <2> SUFFICES ASSUME NEW t \in KPages, NEW u \in KPages, NEW i \in Idx, NEW j \in Idx,
                      role'[t] \in {"root", "l1"}, (Leads(t, i))',
                      role'[u] \in {"root", "l1"}, (Leads(u, j))',
                      (Below(t, i))' = (Below(u, j))'
               PROVE  t = u /\ i = j
    BY DEF OneParent
  <2>1. ASSUME NEW s \in KPages, NEW k \in Idx, role'[s] \in {"root", "l1"}, (Leads(s, k))'
        PROVE  \/ s = r /\ k = i2 /\ (Below(s, k))' = n1
               \/ s = n1 /\ k = i1 /\ (Below(s, k))' = n0
               \/ /\ role[s] \in {"root", "l1"} /\ Leads(s, k) /\ (Below(s, k))' = Below(s, k)
                  /\ ~(s = r /\ k = i2) /\ ~(s = n1 /\ k = i1)
                  /\ Below(s, k) # n1 /\ Below(s, k) # n0
    <3>1. CASE s = r /\ k = i2
      BY <3>1, Zenon
    <3>2. CASE s = n1 /\ k = i1
      BY <3>2, Zenon
    <3>3. CASE ~(s = r /\ k = i2) /\ ~(s = n1 /\ k = i1)
      <4>1. role[s] \in {"root", "l1"} /\ Leads(s, k) /\ (Below(s, k))' = Below(s, k)
        BY <2>1, <3>3, Zenon
      <4> QED
        BY <1>5, <3>3, <4>1, Zenon
    <3> QED
      BY <3>1, <3>2, <3>3, Zenon
  <2> QED
    BY <1>1, <2>1 DEF Trees, OneParent
<1>7. RootOk'
  <2>1. \A q \in Owners : root[q] # Nil => root[q] \in KPages
    BY Zenon DEF TypeOK
  <2> QED
    BY <2>1 DEF Trees, RootOk
<1>8. Parents'
  <2> SUFFICES ASSUME NEW n \in KPages
               PROVE  /\ role'[n] = "root" => \E q \in Owners : root'[q] = n
                      /\ role'[n] = "l1" => \E t \in KPages, i \in Idx :
                           role'[t] = "root" /\ (Leads(t, i))' /\ (Below(t, i))' = n
                      /\ role'[n] = "l0" => \E t \in KPages, i \in Idx :
                           role'[t] = "l1" /\ (Leads(t, i))' /\ (Below(t, i))' = n
    BY Zenon DEF Parents
  <2>1. CASE n = n1
    BY <1>0, <1>1, <2>1, Zenon
  <2>2. CASE n = n0
    BY <1>0, <2>2, Zenon
  <2>3. CASE n # n1 /\ n # n0
    <3>1. role'[n] = "root" => \E q \in Owners : root'[q] = n
      BY <2>3 DEF Trees, Parents
    <3>2. ASSUME role'[n] = "l1"
          PROVE  \E t \in KPages, i \in Idx :
                   role'[t] = "root" /\ (Leads(t, i))' /\ (Below(t, i))' = n
      <4>1. PICK t \in KPages, i \in Idx : role[t] = "root" /\ Leads(t, i) /\ Below(t, i) = n
        BY <2>3, <3>2 DEF Trees, Parents
      <4> QED
        BY <2>3, <4>1, Zenon
    <3>3. ASSUME role'[n] = "l0"
          PROVE  \E t \in KPages, i \in Idx :
                   role'[t] = "l1" /\ (Leads(t, i))' /\ (Below(t, i))' = n
      <4>1. PICK t \in KPages, i \in Idx : role[t] = "l1" /\ Leads(t, i) /\ Below(t, i) = n
        BY <2>3, <3>3 DEF Trees, Parents
      <4> QED
        BY <2>3, <4>1, Zenon
    <3> QED
      BY <3>1, <3>2, <3>3, Zenon
  <2> QED
    BY <2>1, <2>2, <2>3, Zenon
<1> QED
  BY <1>4, <1>6, <1>7, <1>8, Zenon DEF Trees

\* map gives one page to one owner.
LEMMA MapMapping ==
  ASSUME TypeOK, Trees, NEW o \in Owners, NEW v \in Pages, NEW pte \in Leaves,
         NEW n1 \in KPages, NEW n0 \in KPages, root' = root, root[o] # Nil,
         Finds(o, v, pte.to, n1, n0), Writes(o, v, pte, n1, n0), Linked(o, v, n1, n0),
         NEW q \in Owners, NEW w \in Pages
  PROVE  Mapping'[q][w] = IF q = o /\ w = v THEN pte ELSE Mapping[q][w]
<1>0. CASE root[q] = Nil
  BY <1>0, Zenon DEF Mapping
<1>1. SUFFICES ASSUME root[q] # Nil,
                      NEW r, r = root[o], NEW R, R = root[q],
                      NEW i2, i2 = Vpn2(v), NEW i1, i1 = Vpn1(v), NEW i0, i0 = Vpn0(v),
                      NEW j2, j2 = Vpn2(w), NEW j1, j1 = Vpn1(w), NEW j0, j0 = Vpn0(w),
                      NEW E, E = entry, NEW F, F = entry',
                      NEW a, a = E[R][j2].to, NEW t, t = E[a][j1].to,
                      NEW b, b = F[R][j2].to, NEW u, u = F[b][j1].to
               PROVE  Mapping'[q][w] = IF q = o /\ w = v THEN pte ELSE Mapping[q][w]
  BY <1>0, Zenon
<1>2. /\ i2 \in Idx /\ i1 \in Idx /\ i0 \in Idx /\ j2 \in Idx /\ j1 \in Idx /\ j0 \in Idx
      /\ j2 = i2 /\ j1 = i1 /\ j0 = i0 <=> w = v
      /\ w < MaxVa
  BY <1>1, Digits, PageTableAssumption DEF Pages
<1> USE <1>2
<1>3. /\ r \in KPages /\ role[r] = "root"
      /\ \/ E[r][i2].kind = "table" /\ n1 = E[r][i2].to /\ role[n1] = "l1"
         \/ E[r][i2].kind # "table" /\ role[n1] = "free"
      /\ \/ /\ E[r][i2].kind = "table" /\ E[n1][i1].kind = "table"
            /\ n0 = E[n1][i1].to /\ role[n0] = "l0"
         \/ /\ E[r][i2].kind = "table" => E[n1][i1].kind # "table"
            /\ role[n0] = "free"
      /\ n1 # r /\ n0 # r /\ n1 # n0
  BY <1>1, Zenon DEF Finds, Leads, Below
<1>4. /\ F[n0][i0] = pte
      /\ role[n1] = "free" => \A i \in Idx : i # i1 => F[n1][i] = Zero
      /\ role[n0] = "free" => \A i \in Idx : i # i0 => F[n0][i] = Zero
      /\ \A x \in KPages, i \in Idx :
           /\ role[x] \in {"root", "l1", "l0"}
           /\ ~(x = r /\ i = i2) /\ ~(x = n1 /\ i = i1) /\ ~(x = n0 /\ i = i0)
           => F[x][i] = E[x][i]
  BY <1>1, SMTT(30) DEF Writes
<1>5. /\ F[r][i2].kind = "table" /\ F[r][i2].to = n1
      /\ F[n1][i1].kind = "table" /\ F[n1][i1].to = n0
  BY <1>1, Zenon DEF Linked, Leads, Below
<1>6. /\ R \in KPages /\ role[R] = "root" /\ (R = r <=> q = o)
      /\ E[R][j2].kind = "table" => a \in KPages /\ role[a] = "l1"
      /\ E[R][j2].kind = "table" /\ E[a][j1].kind = "table" => t \in KPages /\ role[t] = "l0"
  <2>1. R \in KPages /\ role[R] = "root" /\ (R = r <=> q = o)
    BY <1>1, Zenon DEF TypeOK, Trees, RootOk
  <2>2. \A x \in KPages, i \in Idx :
          role[x] \in {"root", "l1"} /\ E[x][i].kind = "table" =>
            /\ E[x][i].to \in KPages
            /\ role[E[x][i].to] = IF role[x] = "root" THEN "l1" ELSE "l0"
    <3>1. E = entry
      BY <1>1, Zenon
    <3> QED
      BY <3>1, Zenon DEF Trees, Shape, Leads, Below
  <2>3. a = E[R][j2].to /\ t = E[a][j1].to
    BY <1>1, Zenon
  <2>4. E[R][j2].kind = "table" => a \in KPages /\ role[a] = "l1"
    BY <2>1, <2>2, <2>3, Zenon
  <2>5. E[R][j2].kind = "table" /\ E[a][j1].kind = "table" => t \in KPages /\ role[t] = "l0"
    BY <2>2, <2>3, <2>4, Zenon
  <2> QED
    BY <2>1, <2>4, <2>5, Zenon
<1>7. /\ Mapping[q][w] = IF E[R][j2].kind = "table" /\ E[a][j1].kind = "table"
                         THEN E[t][j0] ELSE Zero
      /\ Mapping'[q][w] = IF F[R][j2].kind = "table" /\ F[b][j1].kind = "table"
                          THEN F[u][j0] ELSE Zero
  BY <1>1, Zenon DEF Mapping, Translate, Reaches, LastTable, Leads, Below
<1>8. /\ E[R][j2].kind = "table" => /\ a = n1 => R = r /\ j2 = i2
                                    /\ a # n0
      /\ E[R][j2].kind = "table" /\ E[a][j1].kind = "table" =>
           (t = n0 => a = n1 /\ j1 = i1)
  <2>1. \A x \in KPages, i \in Idx :
          role[x] \in {"root", "l1"} /\ E[x][i].kind = "table" =>
            /\ E[x][i].to = n1 => x = r /\ i = i2
            /\ E[x][i].to = n0 => x = n1 /\ i = i1
    <3>1. \A x \in KPages, i \in Idx :
            role[x] \in {"root", "l1"} /\ Leads(x, i) =>
              /\ Below(x, i) = n1 => x = root[o] /\ i = Vpn2(v)
              /\ Below(x, i) = n0 => x = n1 /\ i = Vpn1(v)
      BY NoOtherWay
    <3>2. E = entry /\ r = root[o] /\ i2 = Vpn2(v) /\ i1 = Vpn1(v)
      BY <1>1, Zenon
    <3> QED
      BY <3>1, <3>2, Zenon DEF Leads, Below
  <2>2. R # n1
    BY <1>3, <1>6, Zenon
  <2>3. a = E[R][j2].to /\ t = E[a][j1].to
    BY <1>1, Zenon
  <2> QED
    BY <1>6, <2>1, <2>2, <2>3, Zenon
<1>9. a = E[R][j2].to /\ t = E[a][j1].to /\ b = F[R][j2].to /\ u = F[b][j1].to
  BY <1>1, Zenon
<1> USE <1>9
<1>10. CASE q = o /\ j2 = i2 /\ j1 = i1
  <2>1. Mapping'[q][w] = F[n0][j0]
    <3>1. R = r /\ F[R][j2].kind = "table" /\ b = n1
      BY <1>5, <1>6, <1>10, Zenon
    <3>2. F[b][j1].kind = "table" /\ u = n0
      BY <1>5, <1>10, <3>1, Zenon
    <3> QED
      BY <1>7, <3>1, <3>2, Zenon
  <2> USE <2>1
  <2>2. CASE j0 = i0
    BY <1>4, <1>10, <2>2, Zenon
  <2>3. CASE j0 # i0
    <3>1. CASE role[n0] = "free"
      <4>1. ~(E[R][j2].kind = "table" /\ E[a][j1].kind = "table")
        BY <1>3, <1>6, <1>10, <3>1, Zenon
      <4> QED
        BY <1>4, <1>7, <2>3, <3>1, <4>1, Zenon
    <3>2. CASE role[n0] = "l0"
      <4>1. E[R][j2].kind = "table" /\ E[a][j1].kind = "table" /\ t = n0
        BY <1>3, <1>6, <1>10, <3>2, Zenon
      <4>2. F[n0][j0] = E[n0][j0]
        BY <1>3, <1>4, <2>3, <3>2, Zenon
      <4> QED
        BY <1>7, <2>3, <4>1, <4>2, Zenon
    <3> QED
      BY <1>3, <3>1, <3>2, Zenon
  <2> QED
    BY <2>2, <2>3, Zenon
<1>11. CASE q = o /\ j2 = i2 /\ j1 # i1
  <2>1. F[R][j2].kind = "table" /\ b = n1 /\ w # v
    BY <1>5, <1>6, <1>11, Zenon
  <2> USE <2>1
  <2>2. CASE role[n1] = "free"
    <3>1. F[b][j1].kind # "table"
      <4>1. F[n1][j1] = Zero
        BY <1>4, <1>11, <2>2, Zenon
      <4> QED
        BY <4>1 DEF Zero
    <3>2. E[R][j2].kind # "table"
      BY <1>3, <1>6, <1>11, <2>2, Zenon
    <3> QED
      BY <1>7, <3>1, <3>2, Zenon
  <2>3. CASE role[n1] = "l1"
    <3>1. E[R][j2].kind = "table" /\ a = n1
      BY <1>3, <1>6, <1>11, <2>3, Zenon
    <3> USE <3>1
    <3>2. F[n1][j1] = E[n1][j1]
      BY <1>3, <1>4, <1>11, <2>3, Zenon
    <3>3. u = t
      BY <3>2, Zenon
    <3>4. E[a][j1].kind = "table" => F[t][j0] = E[t][j0]
      BY <1>3, <1>4, <1>6, <1>8, <1>11, <2>3, Zenon
    <3> QED
      BY <1>7, <3>2, <3>3, <3>4, Zenon
  <2> QED
    BY <1>3, <2>2, <2>3, Zenon
<1>12. CASE ~(q = o /\ j2 = i2)
  <2>1. ~(q = o /\ w = v) /\ ~(R = r /\ j2 = i2)
    BY <1>6, <1>12, Zenon
  <2> USE <2>1
  <2>2. F[R][j2] = E[R][j2] /\ b = a
    BY <1>3, <1>4, <1>6, Zenon
  <2>3. E[R][j2].kind = "table" => F[a][j1] = E[a][j1] /\ u = t
    <3>1. SUFFICES ASSUME E[R][j2].kind = "table" PROVE F[a][j1] = E[a][j1] /\ u = t
      BY Zenon
    <3>2. a \in KPages /\ role[a] = "l1" /\ a # r /\ a # n1 /\ a # n0
      BY <1>3, <1>6, <1>8, <3>1, Zenon
    <3>3. F[a][j1] = E[a][j1]
      BY <1>4, <3>2, Zenon
    <3> QED
      BY <2>2, <3>3, Zenon
  <2>4. E[R][j2].kind = "table" /\ E[a][j1].kind = "table" => F[t][j0] = E[t][j0]
    BY <1>3, <1>4, <1>6, <1>8, Zenon
  <2> QED
    BY <1>7, <2>2, <2>3, <2>4, Zenon
<1> QED
  BY <1>10, <1>11, <1>12, Zenon

\* The effect of map: one page of one owner, and the pages in use for data.
Gives(o, v, pte, gone) ==
  /\ Trees' /\ entry' \in [KPages -> [Idx -> Pte]] /\ role' \in [KPages -> Roles]
  /\ Mapping[o][v] = Zero \/ Mapping[o][v].to = pte.to
  /\ \A q \in Owners, w \in Pages :
       Mapping'[q][w] = IF q = o /\ w = v THEN pte ELSE Mapping[q][w]
  /\ \A n \in KPages :
       role'[n] = "data" <=> n = pte.to \/ (role[n] = "data" /\ n \notin gone)

\* map has that effect.
LEMMA MapStep ==
  ASSUME TypeOK, Trees, NEW o \in Owners, NEW v \in Pages, NEW pte \in Leaves, NEW gone,
         root[o] # Nil, root' = root,
         pte.to \in KPages => role[pte.to] \in {"free", "data"},
         \A n \in KPages : n \in gone => role[n] = "data",
         MapPage(o, v, pte, gone)
  PROVE  Gives(o, v, pte, gone)
<1>1. PICK n1 \in KPages, n0 \in KPages : MapsVia(o, v, pte, gone, n1, n0)
  BY Zenon DEF MapPage, MapsVia
<1>2. Finds(o, v, pte.to, n1, n0) /\ Writes(o, v, pte, n1, n0) /\ Linked(o, v, n1, n0)
  BY <1>1, MapLinks, Zenon
<1> USE <1>2
<1>3. Trees'
  BY MapTrees, Zenon
<1>4. \A q \in Owners, w \in Pages :
        Mapping'[q][w] = IF q = o /\ w = v THEN pte ELSE Mapping[q][w]
  BY MapMapping
<1>5. entry' \in [KPages -> [Idx -> Pte]]
  BY Zenon DEF Writes
<1>6. role' = [n \in KPages |-> IF n = pte.to THEN "data"
                                ELSE IF n = n1 THEN "l1"
                                ELSE IF n = n0 THEN "l0"
                                ELSE IF n \in gone THEN "free"
                                ELSE role[n]]
  BY <1>1, Zenon DEF MapsVia
<1>7. role' \in [KPages -> Roles]
  BY <1>6, Zenon DEF TypeOK, Roles
<1>8. pte.to # n1 /\ pte.to # n0 /\ role[n1] # "data" /\ role[n0] # "data"
  BY Zenon DEF Finds
<1>9. \A n \in KPages :
        role'[n] = "data" <=> n = pte.to \/ (role[n] = "data" /\ n \notin gone)
  BY <1>6, <1>8, Zenon
<1>10. Mapping[o][v] = Zero \/ Mapping[o][v].to = pte.to
  <2>1. Mapping[o][v] = Translate(root[o], v)
    BY Mapped, Zenon
  <2>2. Translate(root[o], v).kind = "none" \/ Translate(root[o], v).to = pte.to
    BY Zenon DEF MapPage, Accepts
  <2>3. Mapping[o][v] # Zero => Mapping[o][v].kind = "leaf"
    BY Mapped, Zenon
  <2> QED
    BY <2>1, <2>2, <2>3, Zenon
<1> QED
  BY <1>3, <1>4, <1>5, <1>7, <1>9, <1>10, Zenon DEF Gives


-----------------------------------------------------------------------------
(* destroy, and pages taken or dropped outside of any tree. *)

\* destroy empties one owner, and keeps the trees of the others.
LEMMA ReapStep ==
  ASSUME TypeOK, Trees, NEW p \in Procs, root[p] # Nil,
         entry' = [t \in KPages |-> IF t \in Destroyed(root[p]) THEN Cleared ELSE entry[t]],
         role' = [n \in KPages |-> IF n \in Destroyed(root[p]) THEN "free" ELSE role[n]],
         root' = [root EXCEPT ![p] = Nil]
  PROVE  /\ Trees' /\ entry' \in [KPages -> [Idx -> Pte]] /\ role' \in [KPages -> Roles]
         /\ \A q \in Owners, w \in Pages :
              Mapping'[q][w] = IF q = p THEN Zero ELSE Mapping[q][w]
         /\ \A n \in KPages : role'[n] = "data" <=> role[n] = "data"
<1> DEFINE r == root[p]
           D == Destroyed(r)
<1>0. p \in Owners /\ r \in KPages /\ role[r] = "root"
  <2>1. p \in Owners
    BY Zenon DEF Owners
  <2> QED
    BY <2>1, Zenon DEF TypeOK, Trees, RootOk
<1>1. \A t \in KPages : t \in D <=>
        \/ t = r
        \/ \E i \in Idx : Leads(r, i) /\ Below(r, i) = t
        \/ \E i, j \in Idx : /\ Leads(r, i) /\ Leads(Below(r, i), j)
                             /\ Below(Below(r, i), j) = t
  BY DEF Destroyed, Tables, Children
<1> HIDE DEF r, D
<1>2. \A t \in KPages : t \in D => role[t] \in {"root", "l1", "l0"}
  BY <1>0, <1>1 DEF Trees, Shape
<1>3. \A t \in KPages, i \in Idx :
        role[t] \in {"root", "l1"} /\ Leads(t, i) => (Below(t, i) \in D <=> t \in D)
  <2> SUFFICES ASSUME NEW t \in KPages, NEW i \in Idx, role[t] \in {"root", "l1"}, Leads(t, i)
               PROVE  Below(t, i) \in D <=> t \in D
    BY Zenon
  <2>0. Below(t, i) \in KPages /\ role[Below(t, i)] = IF role[t] = "root" THEN "l1" ELSE "l0"
    BY Zenon DEF Trees, Shape
  <2>1. ASSUME t \in D PROVE Below(t, i) \in D
    <3>1. CASE t = r
      BY <1>1, <2>0, <3>1, Zenon
    <3>2. CASE \E j \in Idx : Leads(r, j) /\ Below(r, j) = t
      BY <1>1, <2>0, <3>2, Zenon
    <3>3. ASSUME NEW j \in Idx, NEW k \in Idx, Leads(r, j), Leads(Below(r, j), k),
                 Below(Below(r, j), k) = t
          PROVE  FALSE
      <4>1. Below(r, j) \in KPages /\ role[Below(r, j)] = "l1"
        BY <1>0, <3>3, Zenon DEF Trees, Shape
      <4>2. role[t] = "l0"
        BY <3>3, <4>1, Zenon DEF Trees, Shape
      <4> QED
        BY <4>2, Zenon
    <3> QED
      BY <1>1, <2>1, <3>1, <3>2, <3>3, Zenon
  <2>2. ASSUME Below(t, i) \in D PROVE t \in D
    <3>1. Below(t, i) # r
      BY <1>0, <2>0, Zenon
    <3>2. ASSUME NEW j \in Idx, Leads(r, j), Below(r, j) = Below(t, i) PROVE t \in D
      <4>1. t = r
        BY <1>0, <3>2, Zenon DEF Trees, OneParent
      <4> QED
        BY <1>1, <4>1, Zenon
    <3>3. ASSUME NEW j \in Idx, NEW k \in Idx, Leads(r, j), Leads(Below(r, j), k),
                 Below(Below(r, j), k) = Below(t, i)
          PROVE  t \in D
      <4>1. Below(r, j) \in KPages /\ role[Below(r, j)] = "l1"
        BY <1>0, <3>3, Zenon DEF Trees, Shape
      <4>2. t = Below(r, j)
        BY <3>3, <4>1, Zenon DEF Trees, OneParent
      <4> QED
        BY <1>1, <3>3, <4>2, Zenon
    <3> QED
      BY <1>1, <2>0, <2>2, <3>1, <3>2, <3>3, Zenon
  <2> QED
    BY <2>1, <2>2, Zenon
<1>4. \A o \in Owners : root[o] # Nil /\ o # p => root[o] \in KPages /\ root[o] \notin D
  <2> SUFFICES ASSUME NEW o \in Owners, root[o] # Nil, o # p
               PROVE  root[o] \in KPages /\ root[o] \notin D
    BY Zenon
  <2>1. root[o] \in KPages /\ role[root[o]] = "root" /\ root[o] # r
    BY <1>0, Zenon DEF TypeOK, Trees, RootOk, r
  <2>2. \A j \in Idx : Leads(r, j) => /\ Below(r, j) \in KPages /\ role[Below(r, j)] = "l1"
    BY <1>0, Zenon DEF Trees, Shape
  <2>3. \A j, k \in Idx : Leads(r, j) /\ Leads(Below(r, j), k) =>
                            role[Below(Below(r, j), k)] = "l0"
    BY <2>2, Zenon DEF Trees, Shape
  <2> QED
    BY <1>1, <2>1, <2>2, <2>3, Zenon
<1>5. /\ \A t \in KPages : t \notin D => entry'[t] = entry[t] /\ role'[t] = role[t]
      /\ \A t \in KPages : t \in D => role'[t] = "free"
      /\ \A t \in KPages : role'[t] \in {"root", "l1", "l0"} => t \notin D
  BY Zenon DEF D, r
<1> USE <1>5
<1>6. \A t \in KPages, i \in Idx : t \notin D =>
        ((Leads(t, i))' <=> Leads(t, i)) /\ (Below(t, i))' = Below(t, i)
  BY Zenon DEF Leads, Below
<1>7. Trees'
  <2>1. Shape'
    <3> SUFFICES ASSUME NEW t \in KPages, NEW i \in Idx, t \notin D
                 PROVE  /\ role'[t] \in {"root", "l1"} =>
                             /\ entry'[t][i].kind # "leaf"
                             /\ (Leads(t, i))' =>
                                  /\ (Below(t, i))' \in KPages
                                  /\ role'[(Below(t, i))'] =
                                       IF role'[t] = "root" THEN "l1" ELSE "l0"
                        /\ role'[t] = "l0" =>
                             ~(Leads(t, i))' /\ (entry'[t][i].kind = "none" => entry'[t][i] = Zero)
      BY Zenon DEF Shape
    <3> QED
      BY <1>3, <1>6 DEF Trees, Shape
  <2>2. OneParent'
    BY <1>6 DEF Trees, OneParent
  <2>3. \A o \in Owners : root'[o] # Nil => o # p /\ root'[o] = root[o] /\ root[o] # Nil
    BY <1>0, Zenon DEF TypeOK
  <2>4. RootOk'
    BY <1>4, <2>3 DEF Trees, RootOk
  <2>5. Parents'
    <3> SUFFICES ASSUME NEW n \in KPages, n \notin D
                 PROVE  /\ role'[n] = "root" => \E q \in Owners : root'[q] = n
                        /\ role'[n] = "l1" => \E t \in KPages, i \in Idx :
                             role'[t] = "root" /\ (Leads(t, i))' /\ (Below(t, i))' = n
                        /\ role'[n] = "l0" => \E t \in KPages, i \in Idx :
                             role'[t] = "l1" /\ (Leads(t, i))' /\ (Below(t, i))' = n
      BY Zenon DEF Parents
    <3>1. CASE role'[n] = "root"
      <4>1. PICK q \in Owners : root[q] = n
        BY <3>1, Zenon DEF Trees, Parents
      <4>2. q # p
        BY <1>1, <4>1, Zenon DEF r
      <4> QED
        BY <3>1, <4>1, <4>2, Zenon DEF TypeOK
    <3>2. CASE role'[n] = "l1"
      <4>1. PICK t \in KPages, i \in Idx : role[t] = "root" /\ Leads(t, i) /\ Below(t, i) = n
        BY <3>2, Zenon DEF Trees, Parents
      <4>2. t \notin D
        BY <1>3, <4>1, Zenon
      <4> QED
        BY <1>6, <3>2, <4>1, <4>2, Zenon
    <3>3. CASE role'[n] = "l0"
      <4>1. PICK t \in KPages, i \in Idx : role[t] = "l1" /\ Leads(t, i) /\ Below(t, i) = n
        BY <3>3, Zenon DEF Trees, Parents
      <4>2. t \notin D
        BY <1>3, <4>1, Zenon
      <4> QED
        BY <1>6, <3>3, <4>1, <4>2, Zenon
    <3> QED
      BY <3>1, <3>2, <3>3, Zenon
  <2> QED
    BY <2>1, <2>2, <2>4, <2>5, Zenon DEF Trees
<1>8. entry' \in [KPages -> [Idx -> Pte]] /\ role' \in [KPages -> Roles]
  <2>1. Cleared \in [Idx -> Pte]
    BY Zenon DEF Cleared, Zero, Pte, Pas, Perms
  <2> QED
    BY <2>1, Zenon DEF TypeOK, Roles
<1>9. ASSUME NEW q \in Owners, NEW w \in Pages
      PROVE  Mapping'[q][w] = IF q = p THEN Zero ELSE Mapping[q][w]
  <2>1. CASE q = p
    <3>1. root'[q] = Nil
      BY <1>0, <2>1, Zenon DEF TypeOK
    <3> QED
      BY <2>1, <3>1, Zenon DEF Mapping
  <2>2. CASE q # p /\ root[q] = Nil
    <3>1. root'[q] = Nil
      BY <2>2, Zenon DEF TypeOK
    <3> QED
      BY <2>2, <3>1, Zenon DEF Mapping
  <2>3. CASE q # p /\ root[q] # Nil
    <3> DEFINE R == root[q]
               j2 == Vpn2(w)
               j1 == Vpn1(w)
               a == Below(R, j2)
               t == Below(a, j1)
    <3>1. root'[q] = R /\ R \in KPages /\ R \notin D /\ role[R] = "root"
      BY <1>4, <2>3 DEF TypeOK, Trees, RootOk
    <3> USE <3>1
    <3>2. j2 \in Idx /\ j1 \in Idx /\ w < MaxVa
      BY Digits, PageTableAssumption DEF Pages
    <3> USE <3>2
    <3>3. Leads(R, j2) => a \in KPages /\ role[a] = "l1" /\ a \notin D
      BY <1>3, <2>3, Path, Zenon
    <3>4. Leads(R, j2) /\ Leads(a, j1) => t \in KPages /\ t \notin D
      <4> HIDE DEF R, j2, j1, a
      <4> QED
        BY <1>3, <3>3, Zenon DEF Trees, Shape
    <3>5. (Leads(R, j2))' <=> Leads(R, j2)
      BY Zenon DEF Leads
    <3>6. a' = a
      BY Zenon DEF Below
    <3>7. Leads(R, j2) => ((Leads(a, j1))' <=> Leads(a, j1)) /\ t' = t
      <4> HIDE DEF a
      <4> QED
        BY <3>3, <3>6, Zenon DEF Leads, Below
    <3>8. Mapping[q][w] = IF Leads(R, j2) /\ Leads(a, j1) THEN entry[t][Vpn0(w)] ELSE Zero
      BY <2>3, Zenon DEF Mapping, Translate, Reaches, LastTable
    <3>9. Mapping'[q][w] =
            IF (Leads(R, j2))' /\ (Leads(a, j1))' THEN entry'[t'][Vpn0(w)] ELSE Zero
      BY <2>3 DEF Mapping, Translate, Reaches, LastTable
    <3> HIDE DEF R, j2, j1, a, t
    <3> QED
      BY <2>3, <3>4, <3>5, <3>7, <3>8, <3>9
  <2> QED
    BY <2>1, <2>2, <2>3, Zenon
<1>10. \A n \in KPages : role'[n] = "data" <=> role[n] = "data"
  BY <1>2, Zenon
<1> QED
  BY <1>7, <1>8, <1>9, <1>10, Zenon

\* Pages outside of the trees may be taken and dropped.
LEMMA AsideStep ==
  ASSUME TypeOK, Trees, root' = root,
         \A t \in KPages : /\ role[t] \in {"root", "l1", "l0"} =>
                                entry'[t] = entry[t] /\ role'[t] = role[t]
                           /\ role'[t] \in {"root", "l1", "l0"} => role'[t] = role[t]
  PROVE  /\ Trees'
         /\ \A q \in Owners, w \in Pages : Mapping'[q][w] = Mapping[q][w]
<1>1. \A t \in KPages, i \in Idx : role[t] \in {"root", "l1", "l0"} =>
        /\ entry'[t][i] = entry[t][i]
        /\ ((Leads(t, i))' <=> Leads(t, i)) /\ (Below(t, i))' = Below(t, i)
  BY Zenon DEF Leads, Below
<1> USE <1>1
<1>2. Shape'
  <2> SUFFICES ASSUME NEW t \in KPages, NEW i \in Idx, role'[t] \in {"root", "l1", "l0"}
               PROVE  /\ role'[t] \in {"root", "l1"} =>
                           /\ entry'[t][i].kind # "leaf"
                           /\ (Leads(t, i))' =>
                                /\ (Below(t, i))' \in KPages
                                /\ role'[(Below(t, i))'] =
                                     IF role'[t] = "root" THEN "l1" ELSE "l0"
                      /\ role'[t] = "l0" =>
                           ~(Leads(t, i))' /\ (entry'[t][i].kind = "none" => entry'[t][i] = Zero)
    BY Zenon DEF Shape
  <2> QED
    BY DEF Trees, Shape
<1>3. OneParent'
  BY DEF Trees, OneParent
<1>4. RootOk'
  <2>1. \A q \in Owners : root[q] # Nil => root[q] \in KPages
    BY Zenon DEF TypeOK
  <2> QED
    BY <2>1, Zenon DEF Trees, RootOk
<1>5. Parents'
  BY DEF Trees, Parents
<1>6. ASSUME NEW q \in Owners, NEW w \in Pages PROVE Mapping'[q][w] = Mapping[q][w]
  <2>1. CASE root[q] = Nil
    BY <2>1, Zenon DEF Mapping
  <2>2. CASE root[q] # Nil
    BY <2>2, Quiet, Zenon
  <2> QED
    BY <2>1, <2>2, Zenon
<1> QED
  BY <1>2, <1>3, <1>4, <1>5, <1>6, Zenon DEF Trees

\* A new root maps nothing.
LEMMA NewRootStep ==
  ASSUME TypeOK, Trees, NEW q \in Procs, root[q] = Nil, NEW n \in KPages, role[n] = "free",
         entry' = [entry EXCEPT ![n] = Cleared],
         role' = [role EXCEPT ![n] = "root"],
         root' = [root EXCEPT ![q] = n]
  PROVE  /\ Trees' /\ entry' \in [KPages -> [Idx -> Pte]] /\ role' \in [KPages -> Roles]
         /\ \A o \in Owners, w \in Pages : Mapping'[o][w] = Mapping[o][w]
         /\ \A m \in KPages : role'[m] = "data" <=> role[m] = "data"
<1>0. q \in Owners /\ n # Nil
  BY PageTableAssumption, Zenon DEF Owners
<1>1. /\ \A t \in KPages : t # n => entry'[t] = entry[t] /\ role'[t] = role[t]
      /\ role'[n] = "root" /\ entry'[n] = Cleared
      /\ \A o \in Owners : o # q => root'[o] = root[o]
      /\ root'[q] = n
  BY <1>0, Zenon DEF TypeOK
<1> USE <1>1
<1>2. \A i \in Idx : entry'[n][i] = Zero /\ Zero.kind = "none"
  BY DEF Cleared, Zero
<1>3. /\ \A t \in KPages, i \in Idx : t # n =>
           /\ entry'[t][i] = entry[t][i]
           /\ ((Leads(t, i))' <=> Leads(t, i)) /\ (Below(t, i))' = Below(t, i)
      /\ \A i \in Idx : ~(Leads(n, i))'
  BY <1>2, Zenon DEF Leads, Below
<1>4. Shape'
  <2> SUFFICES ASSUME NEW t \in KPages, NEW i \in Idx
               PROVE  /\ role'[t] \in {"root", "l1"} =>
                           /\ entry'[t][i].kind # "leaf"
                           /\ (Leads(t, i))' =>
                                /\ (Below(t, i))' \in KPages
                                /\ role'[(Below(t, i))'] =
                                     IF role'[t] = "root" THEN "l1" ELSE "l0"
                      /\ role'[t] = "l0" =>
                           ~(Leads(t, i))' /\ (entry'[t][i].kind = "none" => entry'[t][i] = Zero)
    BY Zenon DEF Shape
  <2>1. CASE t = n
    BY <1>2, <1>3, <2>1, Zenon
  <2>2. CASE t # n
    BY <1>3, <2>2 DEF Trees, Shape
  <2> QED
    BY <2>1, <2>2, Zenon
<1>5. OneParent'
  BY <1>3 DEF Trees, OneParent
<1>6. RootOk'
  <2>1. \A o \in Owners : root[o] # Nil => root[o] \in KPages /\ root[o] # n
    BY Zenon DEF TypeOK, Trees, RootOk
  <2> QED
    BY <1>0, <2>1 DEF Trees, RootOk
<1>7. Parents'
  <2> SUFFICES ASSUME NEW m \in KPages
               PROVE  /\ role'[m] = "root" => \E o \in Owners : root'[o] = m
                      /\ role'[m] = "l1" => \E t \in KPages, i \in Idx :
                           role'[t] = "root" /\ (Leads(t, i))' /\ (Below(t, i))' = m
                      /\ role'[m] = "l0" => \E t \in KPages, i \in Idx :
                           role'[t] = "l1" /\ (Leads(t, i))' /\ (Below(t, i))' = m
    BY Zenon DEF Parents
  <2>1. CASE m = n
    BY <1>0, <2>1, Zenon
  <2>2. CASE m # n /\ role'[m] = "root"
    <3>1. PICK o \in Owners : root[o] = m
      BY <2>2 DEF Trees, Parents
    <3>2. o # q
      BY <3>1, PageTableAssumption, Zenon
    <3> QED
      BY <2>2, <3>1, <3>2, Zenon
  <2>3. CASE m # n /\ role'[m] # "root"
    BY <1>3, <2>3 DEF Trees, Parents
  <2> QED
    BY <2>1, <2>2, <2>3, Zenon
<1>8. entry' \in [KPages -> [Idx -> Pte]] /\ role' \in [KPages -> Roles]
  <2>1. Cleared \in [Idx -> Pte]
    BY Zenon DEF Cleared, Zero, Pte, Pas, Perms
  <2> QED
    BY <2>1, Zenon DEF TypeOK, Roles
<1>9. ASSUME NEW o \in Owners, NEW w \in Pages PROVE Mapping'[o][w] = Mapping[o][w]
  <2>1. CASE o = q
    <3>1. Mapping[o][w] = Zero
      BY <2>1, Zenon DEF Mapping
    <3>2. ~(Leads(root[o], Vpn2(w)))'
      BY <1>3, <2>1, Digits
    <3>3. Mapping'[o][w] = Zero
      BY <1>0, <2>1, <3>2, Zenon DEF Mapping, Translate, Reaches
    <3> QED
      BY <3>1, <3>3, Zenon
  <2>2. CASE o # q /\ root[o] = Nil
    BY <2>2, Zenon DEF Mapping
  <2>3. CASE o # q /\ root[o] # Nil
    <3>1. \A t \in KPages : role[t] \in {"root", "l1", "l0"} => entry'[t] = entry[t]
      BY Zenon
    <3> QED
      BY <2>3, <3>1, Quiet, Zenon
  <2> QED
    BY <2>1, <2>2, <2>3, Zenon
<1>10. \A m \in KPages : role'[m] = "data" <=> role[m] = "data"
  BY Zenon
<1> QED
  BY <1>4, <1>5, <1>6, <1>7, <1>8, <1>9, <1>10, Zenon DEF Trees
-----------------------------------------------------------------------------
(* Which pages may be mapped where. *)

\* A page that is mapped is in use, and for what its permissions say.
LeafOk ==
  \A o \in Owners, v \in Pages : Mapping[o][v] # Zero =>
    \/ Mapping[o][v].perm = "tramp" /\ Mapping[o][v].to = TrampPa
    \/ /\ Mapping[o][v].perm = "user"
       /\ Mapping[o][v].to \in UPages /\ Mapping[o][v].to \notin ufree
    \/ /\ Mapping[o][v].perm = "kernel"
       /\ Mapping[o][v].to \in KPages /\ role[Mapping[o][v].to] = "data"

\* It is mapped once.
OneLeaf ==
  \A o, q \in Owners, v, w \in Pages :
    /\ Mapping[o][v] # Zero /\ Mapping[q][w] # Zero
    /\ Mapping[o][v].to = Mapping[q][w].to /\ Mapping[o][v].to # TrampPa
    => o = q /\ v = w

\* The trapframe of the slot is not yet, or no longer, the one its table maps.
Pending(p) ==
  root[p] = Nil \/ (job.to = p /\ (job.from # Kernel \/ TfVa \in job.todo))

\* A slot's trapframe is a page in use,
TfData == \A p \in Procs : tf[p] # Nil => role[tf[p]] = "data"

\* its own,
TfOwn == \A p, q \in Procs : tf[p] # Nil /\ tf[p] = tf[q] => p = q

\* mapped by its table only, and not before that is built,
TfOnly ==
  \A p \in Procs, o \in Owners, v \in Pages :
    Mapping[o][v] # Zero /\ Mapping[o][v].to = tf[p] => o = p /\ v = TfVa /\ ~Pending(p)

\* and the one that its table maps then.
TfThere ==
  \A p \in Procs :
    ~Pending(p) /\ Mapping[p][TfVa] # Zero => Mapping[p][TfVa].to = tf[p]

TfOk == TfData /\ TfOwn /\ TfOnly /\ TfThere

\* Of the kernel's pages a process maps one at most, at the place of the trapframe.
PermOk ==
  \A p \in Procs, v \in Pages :
    Mapping[p][v] # Zero /\ Mapping[p][v].perm = "kernel" => v = TfVa

\* No page in use for data is lost.
DataOk ==
  job.op # "panic" =>
    \A n \in KPages : role[n] = "data" =>
      \/ \E p \in Procs : tf[p] = n
      \/ \E o \in Owners, v \in Pages : Mapping[o][v] # Zero /\ Mapping[o][v].to = n

\* What create, fork and the release of a process rely on between their steps.
JobOk ==
  /\ job.op = "boot" => job.to = Kernel
  /\ job.op \in {"make", "unmap", "remap"} => job.to \in Procs /\ root[job.to] # Nil
  /\ job.op = "make" =>
       /\ job.from \in Owners /\ root[job.from] # Nil /\ job.from # job.to
       /\ job.from # Kernel => \A v \in job.todo : Mapping[job.from][v] # Zero
  /\ job.op = "stack" =>
       /\ job.to \in Owners /\ job.todo = {}
       /\ job.from # Kernel => job.to \in Procs /\ root[job.to] # Nil /\ tf[job.to] # Nil
  /\ job.op \in {"unmap", "remap"} => job.from # Kernel /\ tf[job.to] # Nil
  /\ job.op = "drop" => job.to \in Procs /\ root[job.to] = Nil

Held == LeafOk /\ OneLeaf /\ TfOk /\ PermOk /\ DataOk /\ JobOk

IInv == TypeOK /\ Trees /\ Held

\* No owner maps the page.
Unmapped(n) ==
  \A q \in Owners, w \in Pages : Mapping[q][w] # Zero => Mapping[q][w].to # n

\* Mapping is a function of owners and pages.
LEMMA Pointwise ==
  ASSUME \A q \in Owners, w \in Pages : Mapping'[q][w] = Mapping[q][w]
  PROVE  Mapping' = Mapping
<1>1. ASSUME NEW q \in Owners PROVE Mapping'[q] = Mapping[q]
  <2>1. /\ Mapping[q] = [v \in Pages |-> Mapping[q][v]]
        /\ Mapping'[q] = [v \in Pages |-> Mapping'[q][v]]
    BY Zenon DEF Mapping
  <2> QED
    BY <2>1, Zenon
<1>2. /\ Mapping = [q \in Owners |-> Mapping[q]]
      /\ Mapping' = [q \in Owners |-> Mapping'[q]]
  BY Zenon DEF Mapping
<1> QED
  BY <1>1, <1>2, Zenon

\* One page of an owner changes, and no other.
LEMMA OnlyOne ==
  ASSUME NEW o \in Owners, NEW v \in Pages, NEW e,
         \A q \in Owners, w \in Pages :
           Mapping'[q][w] = IF q = o /\ w = v THEN e ELSE Mapping[q][w]
  PROVE  Map!Only(o, v) /\ Mapping'[o][v] = e
<1>1. ASSUME NEW q \in Owners \ {o} PROVE Mapping'[q] = Mapping[q]
  <2>1. \A w \in Pages : Mapping'[q][w] = Mapping[q][w]
    BY Zenon
  <2>2. /\ Mapping[q] = [w \in Pages |-> Mapping[q][w]]
        /\ Mapping'[q] = [w \in Pages |-> Mapping'[q][w]]
    BY Zenon DEF Mapping
  <2> QED
    BY <2>1, <2>2, Zenon
<1>2. \A w \in Pages \ {v} : Mapping'[o][w] = Mapping[o][w]
  BY Zenon
<1> QED
  BY <1>1, <1>2, Zenon DEF Map!Only, Map!Pages, Pages

\* The leaf that a step maps: the trampoline, or a page that is mapped nowhere.
Fresh(pte) ==
  \/ pte.perm = "tramp" /\ pte.to = TrampPa
  \/ pte.perm = "user" /\ pte.to \in UPages /\ pte.to \notin ufree' /\ Unmapped(pte.to)
  \/ pte.perm = "kernel" /\ pte.to \in KPages /\ Unmapped(pte.to)

\* What a step does to the promises about Mapping alone.
Keeps == LeafOk' /\ OneLeaf' /\ [Map!Next]_Mapping

\* map keeps them, when the leaf is fresh.
LEMMA GiveKeeps ==
  ASSUME TypeOK, Trees, LeafOk, OneLeaf,
         NEW o \in Owners, NEW v \in Pages, NEW pte \in Leaves, NEW gone,
         Gives(o, v, pte, gone), Fresh(pte), ufree' \subseteq ufree,
         \A n \in KPages : n \in gone => Unmapped(n)
  PROVE  Keeps
<1>0. /\ pte.kind = "leaf" /\ pte # Zero /\ pte.to \in Pas
      /\ TrampPa \notin KPages \cup UPages /\ KPages \cap UPages = {}
  BY PageTableAssumption DEF Leaves, Zero
<1>1. /\ Mapping[o][v] = Zero \/ Mapping[o][v].to = pte.to
      /\ \A q \in Owners, w \in Pages :
           Mapping'[q][w] = IF q = o /\ w = v THEN pte ELSE Mapping[q][w]
      /\ \A n \in KPages :
           role'[n] = "data" <=> n = pte.to \/ (role[n] = "data" /\ n \notin gone)
  BY Zenon DEF Gives
<1> USE <1>1
<1>2. LeafOk'
  <2> SUFFICES ASSUME NEW q \in Owners, NEW w \in Pages, Mapping'[q][w] # Zero
               PROVE  \/ Mapping'[q][w].perm = "tramp" /\ Mapping'[q][w].to = TrampPa
                      \/ /\ Mapping'[q][w].perm = "user"
                         /\ Mapping'[q][w].to \in UPages /\ Mapping'[q][w].to \notin ufree'
                      \/ /\ Mapping'[q][w].perm = "kernel"
                         /\ Mapping'[q][w].to \in KPages /\ role'[Mapping'[q][w].to] = "data"
    BY Zenon DEF LeafOk
  <2>1. CASE q = o /\ w = v
    BY <2>1, Zenon DEF Fresh
  <2>2. CASE ~(q = o /\ w = v)
    <3>1. Mapping'[q][w] = Mapping[q][w]
      BY <2>2, Zenon
    <3>2. \A n \in KPages : Mapping[q][w].to = n => n \notin gone
      BY <3>1, Zenon DEF Unmapped
    <3> QED
      BY <3>1, <3>2 DEF LeafOk
  <2> QED
    BY <2>1, <2>2, Zenon
<1>3. OneLeaf'
  <2>1. pte.to # TrampPa => Unmapped(pte.to)
    BY <1>0, Zenon DEF Fresh
  <2> SUFFICES ASSUME NEW q \in Owners, NEW r \in Owners, NEW w \in Pages, NEW x \in Pages,
                      Mapping'[q][w] # Zero, Mapping'[r][x] # Zero,
                      Mapping'[q][w].to = Mapping'[r][x].to, Mapping'[q][w].to # TrampPa
               PROVE  q = r /\ w = x
    BY DEF OneLeaf
  <2> QED
    BY <2>1 DEF OneLeaf, Unmapped
<1>4. Map!Only(o, v) /\ Mapping'[o][v] = pte
  BY OnlyOne
<1>5. CASE Mapping[o][v] = Zero
  <2>1. Map!Map(o, v)
    <3>1. pte.to = TrampPa \/ Unmapped(pte.to)
      BY Zenon DEF Fresh
    <3> QED
      BY <1>4, <1>5, <3>1, Zenon DEF Map!Map, Unmapped, Map!Pages, Pages
  <2> QED
    BY <1>2, <1>3, <2>1, Zenon DEF Keeps, Map!Next, Map!Pages, Pages
<1>6. CASE Mapping[o][v] # Zero
  <2>1. Mapping[o][v].to = pte.to
    BY <1>6, Zenon
  <2> USE <2>1
  <2>2. pte.perm = "tramp" /\ pte.to = TrampPa
    BY <1>6, Zenon DEF Fresh, Unmapped
  <2>3. Mapping[o][v].perm = "tramp"
    BY <1>0, <1>6, <2>2, Zenon DEF LeafOk
  <2>4. Mapping[o][v] \in Pte /\ Mapping[o][v].kind = "leaf"
    BY <1>6, Mapped, Zenon
  <2>5. Mapping[o][v] = pte
    BY <1>0, <2>2, <2>3, <2>4 DEF Pte, Leaves
  <2>6. Mapping' = Mapping
    BY <2>5, Pointwise, Zenon
  <2> QED
    BY <1>2, <1>3, <2>6, Zenon DEF Keeps
<1> QED
  BY <1>5, <1>6, Zenon

\* The effect of unmap.
Takes(o, v) ==
  /\ Trees' /\ entry' \in [KPages -> [Idx -> Pte]] /\ role' \in [KPages -> Roles]
  /\ Mapping[o][v] # Zero
  /\ \A q \in Owners, w \in Pages :
       Mapping'[q][w] = IF q = o /\ w = v THEN Zero ELSE Mapping[q][w]
  /\ \A n \in KPages : role'[n] = "data" <=> role[n] = "data" /\ n # Mapping[o][v].to
  /\ ufree' \subseteq UPages
  /\ \A u \in UPages : u \in ufree' <=> u \in ufree \/ u = Mapping[o][v].to

\* unmap keeps them.
LEMMA TakeKeeps ==
  ASSUME TypeOK, Trees, LeafOk, OneLeaf, NEW o \in Owners, NEW v \in Pages,
         root[o] # Nil, root' = root, UnmapPage(o, v)
  PROVE  Takes(o, v) /\ Keeps
<1>0. TrampPa \notin KPages \cup UPages /\ KPages \cap UPages = {}
  BY PageTableAssumption, Zenon
<1>1. Mapping[o][v] # Zero
  BY Mapped, Zenon DEF UnmapPage
<1>2. Mapping[o][v].to \in KPages => role[Mapping[o][v].to] = "data"
  BY <1>0, <1>1, Zenon DEF LeafOk
<1>3. /\ Trees'
      /\ entry' \in [KPages -> [Idx -> Pte]] /\ role' \in [KPages -> Roles]
      /\ \A q \in Owners, w \in Pages :
           Mapping'[q][w] = IF q = o /\ w = v THEN Zero ELSE Mapping[q][w]
      /\ role' = [n \in KPages |-> IF n = Mapping[o][v].to THEN "free" ELSE role[n]]
      /\ ufree' = IF Mapping[o][v].to \in UPages THEN ufree \cup {Mapping[o][v].to}
                  ELSE ufree
  BY <1>2, UnmapStep
<1>4. Takes(o, v)
  BY <1>1, <1>3, Zenon DEF Takes, TypeOK
<1>5. ASSUME NEW q \in Owners, NEW w \in Pages, Mapping'[q][w] # Zero
      PROVE  /\ Mapping'[q][w] = Mapping[q][w]
             /\ Mapping[q][w].to = TrampPa \/ Mapping[q][w].to # Mapping[o][v].to
  BY <1>1, <1>3, <1>5 DEF OneLeaf
<1>6. LeafOk'
  <2> SUFFICES ASSUME NEW q \in Owners, NEW w \in Pages, Mapping'[q][w] # Zero
               PROVE  \/ Mapping'[q][w].perm = "tramp" /\ Mapping'[q][w].to = TrampPa
                      \/ /\ Mapping'[q][w].perm = "user"
                         /\ Mapping'[q][w].to \in UPages /\ Mapping'[q][w].to \notin ufree'
                      \/ /\ Mapping'[q][w].perm = "kernel"
                         /\ Mapping'[q][w].to \in KPages /\ role'[Mapping'[q][w].to] = "data"
    BY Zenon DEF LeafOk
  <2> QED
    BY <1>0, <1>3, <1>5 DEF LeafOk
<1>7. OneLeaf'
  BY <1>5 DEF OneLeaf
<1>8. Map!Unmap(o, v)
  <2>0. \A q \in Owners, w \in Pages :
          Mapping'[q][w] = IF q = o /\ w = v THEN Zero ELSE Mapping[q][w]
    BY <1>3, Zenon
  <2>1. Map!Only(o, v) /\ Mapping'[o][v] = Zero
    BY <2>0, OnlyOne
  <2> QED
    BY <2>1, Zenon DEF Map!Unmap
<1> QED
  BY <1>4, <1>6, <1>7, <1>8, Zenon DEF Keeps, Map!Next, Map!Pages, Pages

\* A step that changes no mapping keeps them, when it drops no mapped page.
LEMMA SameKeeps ==
  ASSUME LeafOk, OneLeaf, ufree' = ufree,
         \A q \in Owners, w \in Pages : Mapping'[q][w] = Mapping[q][w],
         \A n \in KPages : role[n] = "data" /\ ~Unmapped(n) => role'[n] = "data"
  PROVE  Keeps
<1>1. LeafOk'
  BY DEF LeafOk, Unmapped
<1>2. OneLeaf'
  BY DEF OneLeaf
<1>3. Mapping' = Mapping
  BY Pointwise, Zenon
<1> QED
  BY <1>1, <1>2, <1>3, Zenon DEF Keeps

-----------------------------------------------------------------------------
(* Trapframes and data pages under map and unmap. *)

SamePending == \A p \in Procs : (Pending(p))' <=> Pending(p)

\* A trapframe is a page of the kernel's, in use.
LEMMA TfPages ==
  ASSUME TypeOK, TfOk
  PROVE  \A p \in Procs : tf[p] # Nil => tf[p] \in KPages /\ role[tf[p]] = "data"
<1>1. \A p \in Procs : tf[p] \in KPages \cup {Nil}
  BY Zenon DEF TypeOK
<1> QED
  BY <1>1, Zenon DEF TfOk, TfData

\* Who maps a trapframe.
LEMMA TfMapped ==
  ASSUME TfOk, NEW p \in Procs, NEW o \in Owners, NEW w \in Pages,
         Mapping[o][w] # Zero, Mapping[o][w].to = tf[p]
  PROVE  o = p /\ w = TfVa /\ ~Pending(p)
  BY Zenon DEF TfOk, TfOnly

\* map of a page that is no trapframe.
LEMMA GiveOther ==
  ASSUME TypeOK, Trees, Held, NEW o \in Owners, NEW v \in Pages, NEW pte \in Leaves,
         Gives(o, v, pte, {}), tf' = tf, SamePending,
         \A p \in Procs : pte.to # tf[p] /\ (o = p /\ v = TfVa => Pending(p)),
         o # Kernel /\ pte.perm = "kernel" => v = TfVa,
         job.op # "panic"
  PROVE  TfOk' /\ PermOk' /\ DataOk'
<1>0. pte # Zero /\ \A p \in Procs : p \in Owners /\ p # Kernel
  BY PageTableAssumption DEF Leaves, Zero, Owners
<1>1. /\ Mapping[o][v] = Zero \/ Mapping[o][v].to = pte.to
      /\ \A q \in Owners, w \in Pages :
           Mapping'[q][w] = IF q = o /\ w = v THEN pte ELSE Mapping[q][w]
      /\ \A n \in KPages : role'[n] = "data" <=> n = pte.to \/ role[n] = "data"
  BY Zenon DEF Gives
<1>2. TfOk /\ PermOk /\ DataOk
  BY Zenon DEF Held
<1> USE <1>2
<1>3. TfOk'
  <2>1. TfData'
    BY <1>1, TfPages, Zenon DEF TfData
  <2>2. TfOwn'
    BY Zenon DEF TfOk, TfOwn
  <2>3. TfOnly'
    <3> SUFFICES ASSUME NEW p \in Procs, NEW q \in Owners, NEW w \in Pages,
                        Mapping'[q][w] # Zero, Mapping'[q][w].to = tf'[p]
                 PROVE  q = p /\ w = TfVa /\ ~(Pending(p))'
      BY Zenon DEF TfOnly
    <3>1. Mapping'[q][w] = Mapping[q][w]
      BY <1>1, Zenon
    <3>2. Mapping[q][w] # Zero /\ Mapping[q][w].to = tf[p]
      BY <3>1, Zenon
    <3>3. q = p /\ w = TfVa /\ ~Pending(p)
      BY <3>2, TfMapped, SMT
    <3> QED
      BY <3>3, Zenon DEF SamePending
  <2>4. TfThere'
    <3> SUFFICES ASSUME NEW p \in Procs, ~(Pending(p))', Mapping'[p][TfVa] # Zero
                 PROVE  Mapping'[p][TfVa].to = tf'[p]
      BY Zenon DEF TfThere
    <3>1. ~Pending(p) /\ TfVa \in Pages
      BY PageTableAssumption DEF SamePending, TfVa, Pages
    <3>2. Mapping'[p][TfVa] = Mapping[p][TfVa]
      BY <1>0, <1>1, <3>1, Zenon
    <3> QED
      BY <3>1, <3>2, Zenon DEF TfOk, TfThere
  <2> QED
    BY <2>1, <2>2, <2>3, <2>4, Zenon DEF TfOk
<1>4. PermOk'
  BY <1>0, <1>1 DEF PermOk
<1>5. DataOk'
  <2> SUFFICES ASSUME NEW n \in KPages, role'[n] = "data"
               PROVE  \/ \E p \in Procs : tf'[p] = n
                      \/ \E q \in Owners, w \in Pages :
                           Mapping'[q][w] # Zero /\ Mapping'[q][w].to = n
    BY Zenon DEF DataOk
  <2>1. CASE n = pte.to
    BY <1>0, <1>1, <2>1, Zenon
  <2>2. CASE n # pte.to
    <3>1. role[n] = "data"
      BY <1>1, <2>2, Zenon
    <3>2. CASE \E p \in Procs : tf[p] = n
      BY <3>2, Zenon
    <3>3. ASSUME NEW q \in Owners, NEW w \in Pages, Mapping[q][w] # Zero, Mapping[q][w].to = n
          PROVE  Mapping'[q][w] # Zero /\ Mapping'[q][w].to = n
      BY <1>1, <2>2, <3>3, Zenon
    <3> QED
      BY <3>1, <3>2, <3>3 DEF DataOk
  <2> QED
    BY <2>1, <2>2, Zenon
<1> QED
  BY <1>3, <1>4, <1>5, Zenon

\* unmap of a page that is no trapframe.
LEMMA TakeOther ==
  ASSUME TypeOK, Trees, Held, NEW o \in Owners, NEW v \in Pages,
         Takes(o, v), tf' = tf, SamePending,
         \A p \in Procs : Mapping[o][v].to # tf[p], job.op # "panic"
  PROVE  TfOk' /\ PermOk' /\ DataOk'
<1>0. \A p \in Procs : p \in Owners
  BY Zenon DEF Owners
<1>1. /\ Mapping[o][v] # Zero
      /\ \A q \in Owners, w \in Pages :
           Mapping'[q][w] = IF q = o /\ w = v THEN Zero ELSE Mapping[q][w]
      /\ \A n \in KPages : role'[n] = "data" <=> role[n] = "data" /\ n # Mapping[o][v].to
  BY Zenon DEF Takes
<1>2. TfOk /\ PermOk /\ DataOk
  BY Zenon DEF Held
<1> USE <1>2
<1>3. TfOk'
  <2>1. TfData'
    BY <1>1, TfPages, Zenon DEF TfData
  <2>2. TfOwn'
    BY Zenon DEF TfOk, TfOwn
  <2>3. TfOnly'
    <3> SUFFICES ASSUME NEW p \in Procs, NEW q \in Owners, NEW w \in Pages,
                        Mapping'[q][w] # Zero, Mapping'[q][w].to = tf'[p]
                 PROVE  q = p /\ w = TfVa /\ ~(Pending(p))'
      BY ZenonT(40) DEF TfOnly
    <3>1. Mapping'[q][w] = Mapping[q][w]
      BY <1>1, Zenon
    <3>2. Mapping[q][w] # Zero /\ Mapping[q][w].to = tf[p]
      BY <3>1, Zenon
    <3>3. q = p /\ w = TfVa /\ ~Pending(p)
      BY <3>2, TfMapped, Zenon
    <3> QED
      BY <3>3, Zenon DEF SamePending
  <2>4. TfThere'
    <3> SUFFICES ASSUME NEW p \in Procs, ~(Pending(p))', Mapping'[p][TfVa] # Zero
                 PROVE  Mapping'[p][TfVa].to = tf'[p]
      BY Zenon DEF TfThere
    <3>1. ~Pending(p) /\ TfVa \in Pages
      BY PageTableAssumption DEF SamePending, TfVa, Pages
    <3>2. Mapping'[p][TfVa] = Mapping[p][TfVa]
      BY <1>0, <1>1, <3>1, Zenon
    <3> QED
      BY <3>1, <3>2, Zenon DEF TfOk, TfThere
  <2> QED
    BY <2>1, <2>2, <2>3, <2>4, Zenon DEF TfOk
<1>4. PermOk'
  BY <1>0, <1>1 DEF PermOk
<1>5. DataOk'
  <2> SUFFICES ASSUME NEW n \in KPages, role'[n] = "data"
               PROVE  \/ \E p \in Procs : tf'[p] = n
                      \/ \E q \in Owners, w \in Pages :
                           Mapping'[q][w] # Zero /\ Mapping'[q][w].to = n
    BY Zenon DEF DataOk
  <2>1. role[n] = "data" /\ n # Mapping[o][v].to
    BY <1>1, Zenon
  <2>2. CASE \E p \in Procs : tf[p] = n
    BY <2>2, Zenon
  <2>3. ASSUME NEW q \in Owners, NEW w \in Pages, Mapping[q][w] # Zero, Mapping[q][w].to = n
        PROVE  Mapping'[q][w] # Zero /\ Mapping'[q][w].to = n
    BY <1>1, <2>1, <2>3, Zenon
  <2> QED
    BY <2>1, <2>2, <2>3 DEF DataOk
<1> QED
  BY <1>3, <1>4, <1>5, Zenon

-----------------------------------------------------------------------------
(* The steps, one by one. *)

Kept == IInv' /\ [Map!Next]_Mapping

\* Where the fixed pages lie.
LEMMA Places ==
  /\ TrampVa \in Pages /\ TfVa \in Pages /\ CodeVa \in Pages /\ TrampVa # TfVa
  /\ \A v \in UserVas : v \in Pages /\ v # TfVa
  /\ \A p \in Procs : p \in Owners /\ p # Kernel /\ p # Nil
  /\ Kernel \in Owners /\ Kernel # Nil
<1>1. MaxVa \in Nat /\ MaxVa >= 4
  BY PageTableAssumption
<1>2. /\ TrampVa \in Pages /\ TfVa \in Pages /\ CodeVa \in Pages /\ TrampVa # TfVa
      /\ \A v \in UserVas : v \in Pages /\ v # TfVa
  BY <1>1 DEF TrampVa, TfVa, CodeVa, UserVas, Pages
<1> QED
  BY <1>2, PageTableAssumption, Zenon DEF Owners

\* A step that leaves the mapping and the trapframes alone keeps them apart.
LEMMA SameTf ==
  ASSUME TfOk, SamePending, tf' = tf,
         \A o \in Owners, w \in Pages : Mapping'[o][w] = Mapping[o][w],
         \A p \in Procs : tf[p] # Nil => role'[tf[p]] = "data"
  PROVE  TfOk'
<1>1. \A p, q \in Procs : tf'[p] # Nil /\ tf'[p] = tf'[q] => p = q
  BY Zenon DEF TfOk, TfOwn
<1>2. \A p \in Procs, o \in Owners, v \in Pages :
        Mapping'[o][v] # Zero /\ Mapping'[o][v].to = tf'[p] =>
          o = p /\ v = TfVa /\ ~(Pending(p))'
  <2> SUFFICES ASSUME NEW p \in Procs, NEW o \in Owners, NEW v \in Pages,
                      Mapping'[o][v] # Zero, Mapping'[o][v].to = tf'[p]
               PROVE  o = p /\ v = TfVa /\ ~(Pending(p))'
    BY Zenon
  <2>1. Mapping[o][v] # Zero /\ Mapping[o][v].to = tf[p]
    BY Zenon
  <2>2. o = p /\ v = TfVa /\ ~Pending(p)
    BY <2>1, TfMapped, Zenon
  <2> QED
    BY <2>2, Zenon DEF SamePending
<1>3. \A p \in Procs :
        ~(Pending(p))' /\ Mapping'[p][TfVa] # Zero => Mapping'[p][TfVa].to = tf'[p]
  BY Places, Zenon DEF TfOk, TfThere, SamePending
<1> QED
  BY <1>1, <1>2, <1>3, Zenon DEF TfOk, TfData, TfOwn, TfOnly, TfThere

\* A leaf is what it is made of.
LEMMA LeafFacts ==
  ASSUME NEW pa \in Pas, NEW perm \in Perms
  PROVE  /\ Leaf(pa, perm) \in Leaves
         /\ Leaf(pa, perm).to = pa /\ Leaf(pa, perm).perm = perm
BY Zenon DEF Leaf, Leaves

\* Free pages are mapped nowhere, and are no trapframe.
LEMMA FreeUnmapped ==
  ASSUME TypeOK, Held
  PROVE  /\ \A f \in UPages : f \in ufree => Unmapped(f) /\ \A p \in Procs : f # tf[p]
         /\ \A d \in KPages : role[d] # "data" => Unmapped(d) /\ \A p \in Procs : d # tf[p]
         /\ \A p \in Procs : TrampPa # tf[p]
<1>0. /\ TrampPa \notin KPages \cup UPages /\ KPages \cap UPages = {} /\ Nil # TrampPa
      /\ Nil \notin UPages /\ Nil \notin KPages
  BY PageTableAssumption, Zenon
<1>1. LeafOk /\ TfOk
  BY Zenon DEF Held
<1>2. \A p \in Procs : tf[p] \in KPages \cup {Nil}
  BY Zenon DEF TypeOK
<1> QED
  <2>1. \A f \in UPages : f \in ufree => Unmapped(f) /\ \A p \in Procs : f # tf[p]
    <3>1. \A f \in UPages : f \in ufree => Unmapped(f)
      BY <1>0, <1>1, Zenon DEF LeafOk, Unmapped
    <3> QED
      BY <1>0, <1>2, <3>1, Zenon
  <2>2. \A d \in KPages : role[d] # "data" => Unmapped(d) /\ \A p \in Procs : d # tf[p]
    <3>1. \A d \in KPages : role[d] # "data" => Unmapped(d)
      BY <1>0, <1>1, Zenon DEF LeafOk, Unmapped
    <3> QED
      BY <1>0, <1>1, <3>1, Zenon DEF TfOk, TfData
  <2>3. \A p \in Procs : TrampPa # tf[p]
    BY <1>0, <1>2, Zenon
  <2> QED
    BY <2>1, <2>2, <2>3, Zenon

\* Grow maps a page that was free.
LEMMA GrowKept ==
  ASSUME IInv, NEW p \in Procs, NEW v \in UserVas, Grow(p, v)
  PROVE  Kept
<1>0. /\ TypeOK /\ Trees /\ Held /\ LeafOk /\ OneLeaf /\ TfOk /\ JobOk
      /\ p \in Owners /\ p # Kernel /\ v \in Pages /\ v # TfVa
  BY Places, Zenon DEF IInv, Held
<1> USE <1>0
<1>1. PICK f \in UPages : f \in ufree /\ ufree' = ufree \ {f} /\ MapPage(p, v, Leaf(f, "user"), {})
  BY Zenon DEF Grow, Lowest
<1> USE <1>1
<1>2. /\ root' = root /\ tf' = tf /\ pid' = pid /\ nextPid' = nextPid /\ job' = job
      /\ root[p] # Nil /\ p # job.from /\ p # job.to /\ job.op # "panic"
  BY Zenon DEF Grow, Runs, Started, Busy
<1> USE <1>2
<1> DEFINE pte == Leaf(f, "user")
<1>3. pte \in Leaves /\ pte.to = f /\ pte.perm = "user" /\ f \notin KPages
  BY LeafFacts, PageTableAssumption, Zenon DEF Pas, Perms
<1> USE <1>3
<1> HIDE DEF pte
<1>4. Gives(p, v, pte, {})
  BY MapStep, Zenon DEF pte
<1> USE <1>4
<1>5. Unmapped(f) /\ \A q \in Procs : f # tf[q]
  BY FreeUnmapped, Zenon
<1>6. Keeps
  <2>1. Fresh(pte) /\ ufree' \subseteq ufree
    BY <1>5, Zenon DEF Fresh
  <2> QED
    BY <2>1, GiveKeeps, SMTT(30)
<1>7. TfOk' /\ PermOk' /\ DataOk'
  <2>1. SamePending
    BY Zenon DEF SamePending, Pending
  <2> QED
    BY <1>5, <2>1, GiveOther, Zenon
<1>8. TypeOK'
  BY Zenon DEF TypeOK, Gives
<1>9. JobOk'
  <2>1. \A q \in Owners, w \in Pages : q # p => Mapping'[q][w] = Mapping[q][w]
    BY Zenon DEF Gives
  <2>2. job.todo \subseteq Pages
    BY Zenon DEF TypeOK
  <2> QED
    BY <2>1, <2>2, Zenon DEF JobOk
<1> QED
  BY <1>6, <1>7, <1>8, <1>9, Zenon DEF Kept, IInv, Held, Keeps, Gives

\* Shrink unmaps a page of the user's.
LEMMA ShrinkKept ==
  ASSUME IInv, NEW p \in Procs, NEW v \in UserVas, Shrink(p, v)
  PROVE  Kept
<1>0. /\ TypeOK /\ Trees /\ Held /\ LeafOk /\ OneLeaf /\ TfOk /\ JobOk
      /\ p \in Owners /\ p # Kernel /\ v \in Pages /\ v # TfVa
  BY Places, Zenon DEF IInv, Held
<1> USE <1>0
<1>1. /\ root' = root /\ tf' = tf /\ pid' = pid /\ nextPid' = nextPid /\ job' = job
      /\ root[p] # Nil /\ p # job.from /\ p # job.to /\ job.op # "panic" /\ UnmapPage(p, v)
  BY Zenon DEF Shrink, Runs, Started, Busy
<1> USE <1>1
<1>2. Takes(p, v) /\ Keeps
  BY TakeKeeps, Zenon
<1> USE <1>2
<1>3. TfOk' /\ PermOk' /\ DataOk'
  <2>1. SamePending
    BY Zenon DEF SamePending, Pending
  <2>2. \A q \in Procs : Mapping[p][v].to # tf[q]
    <3>1. Mapping[p][v] # Zero
      BY Zenon DEF Takes
    <3> QED
      BY <3>1, TfMapped, Zenon
  <2> QED
    BY <2>1, <2>2, TakeOther, Zenon
<1>4. TypeOK'
  BY Zenon DEF TypeOK, Takes
<1>5. JobOk'
  <2>1. \A q \in Owners, w \in Pages : q # p => Mapping'[q][w] = Mapping[q][w]
    BY Zenon DEF Takes
  <2>2. job.todo \subseteq Pages
    BY Zenon DEF TypeOK
  <2> QED
    BY <2>1, <2>2, Zenon DEF JobOk
<1> QED
  BY <1>3, <1>4, <1>5, Zenon DEF Kept, IInv, Held, Keeps, Takes

\* The trampoline of the kernel.
LEMMA BootKept ==
  ASSUME IInv, BootTramp
  PROVE  Kept
<1>0. /\ TypeOK /\ Trees /\ Held /\ LeafOk /\ OneLeaf /\ JobOk
      /\ Kernel \in Owners /\ TrampVa \in Pages
  BY Places, Zenon DEF IInv, Held
<1> USE <1>0
<1>1. /\ job.op = "boot" /\ MapPage(Kernel, TrampVa, Leaf(TrampPa, "tramp"), {})
      /\ job' = Job("stack", Kernel, Kernel, {})
      /\ root' = root /\ ufree' = ufree /\ tf' = tf /\ pid' = pid /\ nextPid' = nextPid
  BY Zenon DEF BootTramp
<1> USE <1>1
<1>2. job'.op = "stack" /\ job'.from = Kernel /\ job'.to = Kernel /\ job'.todo = {}
  BY Zenon DEF Job
<1> DEFINE pte == Leaf(TrampPa, "tramp")
<1>3. pte \in Leaves /\ pte.to = TrampPa /\ pte.perm = "tramp" /\ TrampPa \notin KPages
  BY LeafFacts, PageTableAssumption, Zenon DEF Pas, Perms
<1> USE <1>3
<1> HIDE DEF pte
<1>4. Gives(Kernel, TrampVa, pte, {})
  <2>1. root[Kernel] # Nil
    BY Zenon DEF TypeOK
  <2> QED
    BY <2>1, MapStep, Zenon DEF pte
<1> USE <1>4
<1>5. Keeps
  <2>1. Fresh(pte) /\ ufree' \subseteq ufree
    BY Zenon DEF Fresh
  <2> QED
    BY <2>1, GiveKeeps
<1>6. TfOk' /\ PermOk' /\ DataOk'
  <2>1. SamePending
    BY <1>2, Places, Zenon DEF SamePending, Pending, JobOk
  <2>2. \A p \in Procs : pte.to # tf[p] /\ p # Kernel
    BY FreeUnmapped, Places, Zenon
  <2> QED
    BY <2>1, <2>2, GiveOther, Zenon
<1>7. TypeOK'
  <2>1. job' \in [op : Ops, from : Owners \cup {Nil}, to : Owners \cup {Nil},
                  todo : SUBSET Pages]
    BY Zenon DEF Job, Ops
  <2> QED
    BY <2>1, Zenon DEF TypeOK, Gives
<1>8. JobOk'
  BY <1>2, Zenon DEF JobOk
<1> QED
  BY <1>5, <1>6, <1>7, <1>8, Zenon DEF Kept, IInv, Held, Keeps, Gives

\* fork drops the copy of the parent's trapframe.
LEMMA UnmapTfKept ==
  ASSUME IInv, UnmapTf
  PROVE  Kept
<1> DEFINE q == job.to
<1>0. /\ TypeOK /\ Trees /\ Held /\ LeafOk /\ OneLeaf /\ TfOk /\ JobOk /\ TfVa \in Pages
      /\ job.op = "unmap"
  BY Places, Zenon DEF IInv, Held, UnmapTf
<1> USE <1>0
<1>1. /\ q \in Procs /\ root[q] # Nil /\ job.from # Kernel /\ tf[q] # Nil
      /\ q \in Owners /\ q # Kernel
  BY Places, Zenon DEF JobOk
<1>a. Mapping[q][TfVa] # Zero =>
        \A p \in Procs : Mapping[q][TfVa].to = tf[p] => q = p /\ ~Pending(p)
  BY <1>1, TfMapped, ZenonT(40)
<1> USE <1>1
<1>2. /\ UnmapPage(q, TfVa) /\ job' = [job EXCEPT !.op = "remap"]
      /\ root' = root /\ tf' = tf /\ pid' = pid /\ nextPid' = nextPid
  BY Zenon DEF UnmapTf
<1> USE <1>2
<1>3. /\ job'.op = "remap" /\ job'.from = job.from /\ job'.to = q /\ job'.todo = job.todo
      /\ job' \in [op : Ops, from : Owners \cup {Nil}, to : Owners \cup {Nil},
                   todo : SUBSET Pages]
  BY Zenon DEF TypeOK, Ops
<1> USE <1>3
<1> HIDE DEF q
<1>4. Takes(q, TfVa) /\ Keeps
  BY TakeKeeps, Zenon
<1> USE <1>4
<1>5. TfOk' /\ PermOk' /\ DataOk'
  <2>1. SamePending
    BY Zenon DEF SamePending, Pending, q
  <2>2. Pending(q)
    BY Zenon DEF Pending, q
  <2>3. \A p \in Procs : Mapping[q][TfVa].to # tf[p]
    <3>1. Mapping[q][TfVa] # Zero
      BY Zenon DEF Takes
    <3> QED
      BY <1>a, <2>2, <3>1, Zenon
  <2> QED
    BY <2>1, <2>3, TakeOther, Zenon
<1>6. TypeOK'
  BY Zenon DEF TypeOK, Takes
<1>7. JobOk'
  BY Zenon DEF JobOk
<1> QED
  BY <1>5, <1>6, <1>7, Zenon DEF Kept, IInv, Held, Keeps, Takes

\* The stack of a reaped process.
LEMMA DropStackKept ==
  ASSUME IInv, DropStack
  PROVE  Kept
<1> DEFINE v == KStack(pid[job.to])
<1>0. /\ TypeOK /\ Trees /\ Held /\ LeafOk /\ OneLeaf /\ TfOk /\ JobOk
      /\ Kernel \in Owners /\ job.op = "drop"
  BY Places, Zenon DEF IInv, Held, DropStack
<1> USE <1>0
<1>1. job.to \in Procs /\ root[job.to] = Nil /\ job.to \in Owners /\ root[Kernel] # Nil
  BY Places, Zenon DEF JobOk, TypeOK
<1>2. /\ UnmapPage(Kernel, v) /\ job' = Idle
      /\ root' = root /\ tf' = tf /\ pid' = pid /\ nextPid' = nextPid
  BY Zenon DEF DropStack
<1> USE <1>2
<1>3. v \in Pages
  <2>1. v \in Nat
    BY <1>1, PageTableAssumption DEF TypeOK, KStack
  <2> HIDE DEF v
  <2>2. v < MaxVa
    <3>1. Translate(root[Kernel], v).kind = "leaf"
      BY Zenon DEF UnmapPage
    <3>2. Zero.kind # "leaf"
      BY Zenon DEF Zero
    <3> QED
      BY <3>1, <3>2, Zenon DEF Translate, Reaches
  <2> QED
    BY <2>1, <2>2, PageTableAssumption DEF Pages
<1> USE <1>3
<1> HIDE DEF v
<1>4. /\ job'.op = "idle" /\ job'.from = Nil /\ job'.to = Nil /\ job'.todo = {}
      /\ job' \in [op : Ops, from : Owners \cup {Nil}, to : Owners \cup {Nil},
                   todo : SUBSET Pages]
  BY Zenon DEF Idle, Job, Ops
<1> USE <1>4
<1>5. Takes(Kernel, v) /\ Keeps
  BY <1>1, TakeKeeps, Zenon
<1> USE <1>5
<1>6. TfOk' /\ PermOk' /\ DataOk'
  <2>1. SamePending
    BY <1>1, Places, Zenon DEF SamePending, Pending
  <2>2. \A p \in Procs : Mapping[Kernel][v].to # tf[p]
    <3>1. Mapping[Kernel][v] # Zero
      BY Zenon DEF Takes
    <3> QED
      BY Places, <3>1, TfMapped, ZenonT(40)
  <2> QED
    BY <2>1, <2>2, TakeOther, Zenon
<1>7. TypeOK'
  BY Zenon DEF TypeOK, Takes
<1>8. JobOk'
  BY Zenon DEF JobOk
<1> QED
  BY <1>6, <1>7, <1>8, Zenon DEF Kept, IInv, Held, Keeps, Takes

\* The stack of a new process.
LEMMA MakeStackKept ==
  ASSUME IInv, MakeStack
  PROVE  Kept
<1> DEFINE v == KStack(pid[job.to])
<1>0. /\ TypeOK /\ Trees /\ Held /\ LeafOk /\ OneLeaf /\ TfOk /\ PermOk /\ DataOk /\ JobOk
      /\ Kernel \in Owners /\ job.op = "stack" /\ root[Kernel] # Nil
  BY Places, Zenon DEF IInv, Held, MakeStack, TypeOK
<1> USE <1>0
<1>1. /\ job.to \in Owners /\ job.todo = {}
      /\ job.from # Kernel => job.to \in Procs /\ root[job.to] # Nil /\ tf[job.to] # Nil
  BY Zenon DEF JobOk
<1>2. /\ root' = root /\ ufree' = ufree /\ tf' = tf /\ pid' = pid /\ nextPid' = nextPid
  BY Zenon DEF MakeStack
<1> USE <1>2
<1>3. PICK d \in KPages :
        /\ role[d] = "free"
        /\ \/ /\ MapPage(Kernel, v, Leaf(d, "kernel"), {})
              /\ job' = IF job.from = Kernel THEN Idle ELSE [job EXCEPT !.op = "unmap"]
           \/ /\ entry' = [entry EXCEPT ![d] = Junk]
              /\ role' = [role EXCEPT ![d] = "data"]
              /\ job' = [job EXCEPT !.op = "panic"]
  BY Zenon DEF MakeStack, Lowest, Free
<1>4. Unmapped(d) /\ \A p \in Procs : d # tf[p]
  BY <1>3, FreeUnmapped, Zenon
<1>5. CASE /\ MapPage(Kernel, v, Leaf(d, "kernel"), {})
           /\ job' = IF job.from = Kernel THEN Idle ELSE [job EXCEPT !.op = "unmap"]
  <2>1. v \in Pages
    <3>1. v \in Nat
      BY <1>1, PageTableAssumption DEF TypeOK, KStack
    <3> HIDE DEF v
    <3>2. v < MaxVa
      BY <1>5, Zenon DEF MapPage, Accepts
    <3> QED
      BY <3>1, <3>2, PageTableAssumption DEF Pages
  <2> HIDE DEF v
  <2>2. \/ /\ job.from = Kernel /\ job'.op = "idle" /\ job'.from = Nil /\ job'.to = Nil
           /\ job'.todo = {}
        \/ /\ job.from # Kernel /\ job'.op = "unmap" /\ job'.from = job.from
           /\ job'.to = job.to /\ job'.todo = {}
    BY <1>1, <1>5, Zenon DEF TypeOK, Idle, Job
  <2>3. job' \in [op : Ops, from : Owners \cup {Nil}, to : Owners \cup {Nil},
                  todo : SUBSET Pages]
    BY <1>5, Zenon DEF TypeOK, Idle, Job, Ops
  <2> DEFINE pte == Leaf(d, "kernel")
  <2>4. pte \in Leaves /\ pte.to = d /\ pte.perm = "kernel"
    BY LeafFacts, Zenon DEF Pas, Perms
  <2> USE <2>4
  <2> HIDE DEF pte
  <2>5. Gives(Kernel, v, pte, {})
    BY <1>3, <1>5, <2>1, MapStep, Zenon DEF pte
  <2> USE <2>5
  <2>6. Keeps
    <3>1. Fresh(pte) /\ ufree' \subseteq ufree
      BY <1>4, Zenon DEF Fresh
    <3> QED
      BY <2>1, <3>1, GiveKeeps
  <2>7. TfOk' /\ PermOk' /\ DataOk'
    <3>1. SamePending
      BY <1>1, <2>2, Places, Zenon DEF SamePending, Pending
    <3>2. \A p \in Procs : pte.to # tf[p] /\ p # Kernel
      BY <1>4, Places, Zenon
    <3> QED
      BY <2>1, <3>1, <3>2, GiveOther, Zenon
  <2>8. TypeOK'
    BY <2>3, Zenon DEF TypeOK, Gives
  <2>9. JobOk'
    BY <1>1, <2>2, Zenon DEF JobOk
  <2> QED
    BY <2>6, <2>7, <2>8, <2>9, Zenon DEF Kept, IInv, Held, Keeps, Gives
<1>6. CASE /\ entry' = [entry EXCEPT ![d] = Junk]
           /\ role' = [role EXCEPT ![d] = "data"]
           /\ job' = [job EXCEPT !.op = "panic"]
  <2>1. /\ job'.op = "panic" /\ job'.from = job.from /\ job'.to = job.to
        /\ job'.todo = job.todo
        /\ job' \in [op : Ops, from : Owners \cup {Nil}, to : Owners \cup {Nil},
                     todo : SUBSET Pages]
    BY <1>6, Zenon DEF TypeOK, Ops
  <2>2. \A t \in KPages : IF t = d THEN role'[t] = "data" ELSE /\ entry'[t] = entry[t]
                                                              /\ role'[t] = role[t]
    BY <1>6, Zenon DEF TypeOK
  <2> USE <2>2
  <2>3. Trees' /\ \A q \in Owners, w \in Pages : Mapping'[q][w] = Mapping[q][w]
    BY <1>3, AsideStep, Zenon
  <2> USE <2>3
  <2>4. Keeps
    BY SameKeeps, Zenon
  <2>5. TypeOK'
    <3>1. Junk \in [Idx -> Pte]
      BY Zenon DEF Junk, Leaf, Pte, Pas, Perms
    <3>2. entry' \in [KPages -> [Idx -> Pte]] /\ role' \in [KPages -> Roles]
      BY <1>6, <3>1, Zenon DEF TypeOK, Roles
    <3> QED
      BY <2>1, <3>2, Zenon DEF TypeOK
  <2>6. TfOk'
    <3>1. SamePending
      BY <2>1, Zenon DEF SamePending, Pending
    <3>2. \A p \in Procs : tf[p] # Nil => role'[tf[p]] = "data"
      BY TfPages, Zenon
    <3> QED
      BY <3>1, <3>2, SameTf, Zenon
  <2>7. PermOk' /\ DataOk' /\ JobOk'
    BY <2>1, Places DEF PermOk, DataOk, JobOk
  <2> QED
    BY <2>4, <2>5, <2>6, <2>7, Zenon DEF Kept, IInv, Held, Keeps
<1> QED
  BY <1>3, <1>5, <1>6, Zenon

\* The root of a new table.
LEMMA NewRootKept ==
  ASSUME IInv, NEW from \in Owners, NEW q \in Procs, NewRoot(from, q)
  PROVE  Kept
<1>0. /\ TypeOK /\ Trees /\ Held /\ LeafOk /\ OneLeaf /\ TfOk /\ PermOk /\ DataOk /\ JobOk
      /\ q \in Owners /\ q # Kernel /\ q # Nil
  BY Places, Zenon DEF IInv, Held
<1> USE <1>0
<1> DEFINE todo == IF from = Kernel THEN {TrampVa, TfVa, CodeVa}
                   ELSE {v \in Pages : Translate(root[from], v).kind = "leaf"}
<1>1. /\ job = Idle /\ root[q] = Nil /\ root[from] # Nil
      /\ pid' = [pid EXCEPT ![q] = nextPid] /\ nextPid' = nextPid + 1
      /\ job' = Job("make", from, q, todo) /\ ufree' = ufree /\ tf' = tf
  BY Zenon DEF NewRoot, Started
<1> USE <1>1
<1>2. PICK n \in KPages :
        /\ role[n] = "free"
        /\ entry' = [entry EXCEPT ![n] = Cleared]
        /\ role' = [role EXCEPT ![n] = "root"]
        /\ root' = [root EXCEPT ![q] = n]
  BY Zenon DEF NewRoot, Lowest, Free
<1>3. /\ todo \subseteq Pages /\ (from = Kernel => TfVa \in todo)
      /\ from # Kernel => \A v \in todo : Mapping[from][v] # Zero
  <2>1. from # Kernel => \A v \in todo : v \in Pages /\ Mapping[from][v] # Zero
    BY Mapped, Zenon
  <2> QED
    BY <2>1, Places, Zenon
<1> HIDE DEF todo
<1>4. /\ job.op = "idle" /\ job.to = Nil
      /\ job'.op = "make" /\ job'.from = from /\ job'.to = q /\ job'.todo = todo
      /\ job' \in [op : Ops, from : Owners \cup {Nil}, to : Owners \cup {Nil},
                   todo : SUBSET Pages]
  BY <1>3, Zenon DEF Idle, Job, Ops
<1>5. /\ Trees' /\ entry' \in [KPages -> [Idx -> Pte]] /\ role' \in [KPages -> Roles]
      /\ \A o \in Owners, w \in Pages : Mapping'[o][w] = Mapping[o][w]
      /\ \A m \in KPages : role'[m] = "data" <=> role[m] = "data"
  BY <1>2, NewRootStep, Zenon
<1> USE <1>5
<1>6. /\ root' \in [Owners -> KPages \cup {Nil}] /\ root'[q] # Nil
      /\ \A o \in Owners : o # q => root'[o] = root[o]
  BY <1>2, PageTableAssumption DEF TypeOK
<1> USE <1>6
<1>7. Keeps
  BY SameKeeps, Zenon
<1>8. TypeOK'
  <2>1. pid' \in [Owners -> Nat] /\ nextPid' \in Nat
    BY SMTT(30) DEF TypeOK
  <2>2. root'[Kernel] # Nil
    BY Places, Zenon DEF TypeOK
  <2> QED
    BY <1>4, <2>1, <2>2, Zenon DEF TypeOK
<1>9. TfOk'
  <2>1. SamePending
    BY <1>3, <1>4, Places DEF SamePending, Pending
  <2>2. \A p \in Procs : tf[p] # Nil => role'[tf[p]] = "data"
    BY TfPages, Zenon
  <2> QED
    BY <2>1, <2>2, SameTf, Zenon
<1>10. PermOk'
  BY Places, SMTT(30) DEF PermOk
<1>11. DataOk'
  <2> SUFFICES ASSUME NEW m \in KPages, role'[m] = "data"
               PROVE  \/ \E p \in Procs : tf'[p] = m
                      \/ \E o \in Owners, w \in Pages :
                           Mapping'[o][w] # Zero /\ Mapping'[o][w].to = m
    BY Zenon DEF DataOk
  <2>1. \/ \E p \in Procs : tf[p] = m
        \/ \E o \in Owners, w \in Pages : Mapping[o][w] # Zero /\ Mapping[o][w].to = m
    BY <1>4, Zenon DEF DataOk
  <2> QED
    BY <2>1
<1>12. JobOk'
  <2>1. from # q /\ root'[from] # Nil
    BY Zenon
  <2> QED
    BY <1>3, <1>4, <2>1, SMTT(30) DEF JobOk
<1> QED
  BY <1>7, <1>8, <1>9, <1>10, <1>11, <1>12, Zenon DEF Kept, IInv, Held, Keeps

\* fork maps the trapframe of the child.
LEMMA RemapTfKept ==
  ASSUME IInv, RemapTf
  PROVE  Kept
<1>0. /\ TypeOK /\ Trees /\ Held /\ LeafOk /\ OneLeaf /\ TfOk /\ PermOk /\ DataOk /\ JobOk
      /\ TfVa \in Pages /\ job.op = "remap"
  BY Places, Zenon DEF IInv, Held, RemapTf
<1> USE <1>0
<1>a. PICK q \in Procs : q = job.to /\ root[q] # Nil /\ job.from # Kernel /\ tf[q] # Nil
  BY Zenon DEF JobOk
<1>b. PICK d \in KPages : d = tf[q]
  BY <1>a, Zenon DEF TypeOK
<1>1. q \in Owners /\ q # Kernel /\ d # Nil
  BY <1>a, <1>b, Places, Zenon
<1>2. /\ MapPage(q, TfVa, Leaf(d, "kernel"), {}) /\ job' = Idle
      /\ root' = root /\ ufree' = ufree /\ tf' = tf /\ pid' = pid /\ nextPid' = nextPid
  BY <1>a, <1>b, Zenon DEF RemapTf
<1> USE <1>2
<1>3. /\ job'.op = "idle" /\ job'.from = Nil /\ job'.to = Nil /\ job'.todo = {}
      /\ job' \in [op : Ops, from : Owners \cup {Nil}, to : Owners \cup {Nil},
                   todo : SUBSET Pages]
  BY Zenon DEF Idle, Job, Ops
<1>4. /\ Pending(q) /\ ~(Pending(q))'
      /\ \A p \in Procs : p # q => ((Pending(p))' <=> Pending(p))
  BY <1>a, <1>3, Places, Zenon DEF Pending
<1>5. /\ role[d] = "data" /\ Unmapped(d)
      /\ \A p \in Procs : tf[p] = d => p = q
  <2>1. role[d] = "data"
    BY <1>1, <1>b, Zenon DEF TfOk, TfData
  <2>2. Unmapped(d)
    BY <1>b, <1>4, Zenon DEF TfOk, TfOnly, Unmapped
  <2>3. \A p \in Procs : tf[p] = d => p = q
    BY <1>1, <1>b, Zenon DEF TfOk, TfOwn
  <2> QED
    BY <2>1, <2>2, <2>3, Zenon
<1> DEFINE pte == Leaf(d, "kernel")
<1>6. pte \in Leaves /\ pte.to = d /\ pte.perm = "kernel" /\ pte # Zero
  <2>1. pte.kind # Zero.kind
    BY Zenon DEF Leaf, Zero
  <2> QED
    BY <1>5, <2>1, LeafFacts, Zenon DEF Pas, Perms
<1> USE <1>6
<1> HIDE DEF pte
<1>7. Gives(q, TfVa, pte, {})
  BY <1>a, <1>1, <1>5, MapStep, Zenon DEF pte
<1>8. Keeps
  <2>1. Fresh(pte) /\ ufree' \subseteq ufree
    BY <1>5, Zenon DEF Fresh
  <2> QED
    BY <1>1, <1>7, <2>1, GiveKeeps
<1>9. /\ Mapping[q][TfVa] = Zero
      /\ \A o \in Owners, w \in Pages :
           Mapping'[o][w] = IF o = q /\ w = TfVa THEN pte ELSE Mapping[o][w]
      /\ \A n \in KPages : role'[n] = "data" <=> role[n] = "data"
  BY <1>1, <1>5, <1>7, Zenon DEF Gives, Unmapped
<1>10. TfOk'
  <2>1. TfData'
    BY <1>9, TfPages, Zenon DEF TfData
  <2>2. TfOwn'
    BY Zenon DEF TfOk, TfOwn
  <2>3. TfOnly'
    <3> SUFFICES ASSUME NEW p \in Procs, NEW o \in Owners, NEW w \in Pages,
                        Mapping'[o][w] # Zero, Mapping'[o][w].to = tf'[p]
                 PROVE  o = p /\ w = TfVa /\ ~(Pending(p))'
      BY Zenon DEF TfOnly
    <3>1. CASE o = q /\ w = TfVa
      <4>1. tf[p] = d
        BY <1>9, <3>1, Zenon
      <4> QED
        BY <1>4, <1>5, <3>1, <4>1, Zenon
    <3>2. CASE ~(o = q /\ w = TfVa)
      <4>1. Mapping'[o][w] = Mapping[o][w]
        BY <1>9, <3>2, Zenon
      <4>2. Mapping[o][w] # Zero /\ Mapping[o][w].to = tf[p]
        BY <4>1, Zenon
      <4>3. o = p /\ w = TfVa /\ ~Pending(p)
        BY <4>2, TfMapped, Zenon
      <4> QED
        BY <1>4, <4>3, Zenon
    <3> QED
      BY <3>1, <3>2, Zenon
  <2>4. TfThere'
    <3> SUFFICES ASSUME NEW p \in Procs, ~(Pending(p))', Mapping'[p][TfVa] # Zero
                 PROVE  Mapping'[p][TfVa].to = tf'[p]
      BY Zenon DEF TfThere
    <3>1. CASE p = q
      BY <1>1, <1>b, <1>9, <3>1, Zenon
    <3>2. CASE p # q
      <4>1. Mapping'[p][TfVa] = Mapping[p][TfVa]
        BY <1>9, <3>2, Places, Zenon
      <4>2. ~Pending(p)
        BY <1>4, <3>2, Zenon
      <4> QED
        BY <4>1, <4>2, Zenon DEF TfOk, TfThere
    <3> QED
      BY <3>1, <3>2, Zenon
  <2> QED
    BY <2>1, <2>2, <2>3, <2>4, Zenon DEF TfOk
<1>11. PermOk'
  BY <1>9, Places DEF PermOk
<1>12. DataOk'
  <2> SUFFICES ASSUME NEW m \in KPages, role'[m] = "data"
               PROVE  \/ \E p \in Procs : tf'[p] = m
                      \/ \E o \in Owners, w \in Pages :
                           Mapping'[o][w] # Zero /\ Mapping'[o][w].to = m
    BY Zenon DEF DataOk
  <2>1. role[m] = "data" /\ job.op # "panic"
    BY <1>9, Zenon
  <2>2. CASE \E p \in Procs : tf[p] = m
    BY <2>2, Zenon
  <2>3. ASSUME NEW o \in Owners, NEW w \in Pages, Mapping[o][w] # Zero, Mapping[o][w].to = m
        PROVE  Mapping'[o][w] # Zero /\ Mapping'[o][w].to = m
    BY <1>9, <2>3, Zenon
  <2> QED
    BY <2>1, <2>2, <2>3, ZenonT(40) DEF DataOk
<1>13. TypeOK'
  BY <1>3, <1>7, Zenon DEF TypeOK, Gives
<1>14. JobOk'
  BY <1>3, Zenon DEF JobOk
<1> QED
  BY <1>7, <1>8, <1>10, <1>11, <1>12, <1>13, <1>14, Zenon DEF Kept, IInv, Held, Keeps, Gives

\* fork allocates the trapframe of the child.
LEMMA MadeKept ==
  ASSUME IInv, Made
  PROVE  Kept
<1>0. /\ TypeOK /\ Trees /\ Held /\ LeafOk /\ OneLeaf /\ TfOk /\ PermOk /\ DataOk /\ JobOk
      /\ job.op = "make" /\ job.todo = {} /\ job' = [job EXCEPT !.op = "stack"]
      /\ root' = root /\ ufree' = ufree /\ pid' = pid /\ nextPid' = nextPid
  BY Zenon DEF IInv, Held, Made
<1> USE <1>0
<1>1. PICK q \in Procs : q = job.to /\ root[q] # Nil
  BY Zenon DEF JobOk
<1>2. /\ job'.op = "stack" /\ job'.from = job.from /\ job'.to = q /\ job'.todo = {}
      /\ job' \in [op : Ops, from : Owners \cup {Nil}, to : Owners \cup {Nil},
                   todo : SUBSET Pages]
  BY <1>1, Zenon DEF TypeOK, Ops
<1>3. SamePending
  BY <1>1, <1>2, Zenon DEF SamePending, Pending
<1>4. CASE job.from = Kernel
  <2>1. entry' = entry /\ role' = role /\ tf' = tf
    BY <1>4, Zenon DEF Made
  <2> USE <2>1
  <2>2. Trees' /\ \A o \in Owners, w \in Pages : Mapping'[o][w] = Mapping[o][w]
    BY AsideStep, Zenon
  <2> USE <2>2
  <2>3. Keeps
    BY SameKeeps, Zenon
  <2>4. TypeOK'
    BY <1>2, Zenon DEF TypeOK
  <2>5. TfOk'
    <3>1. \A p \in Procs : tf[p] # Nil => role'[tf[p]] = "data"
      BY Zenon DEF TfOk, TfData
    <3> QED
      BY <1>3, <3>1, SameTf, Zenon
  <2>6. PermOk'
    BY Places DEF PermOk
  <2>7. DataOk'
    <3>1. Mapping' = Mapping
      BY Pointwise, Zenon
    <3> QED
      BY <3>1 DEF DataOk
  <2>8. JobOk'
    BY <1>1, <1>2, <1>4, Places, Zenon DEF JobOk
  <2> QED
    BY <2>3, <2>4, <2>5, <2>6, <2>7, <2>8, Zenon DEF Kept, IInv, Held, Keeps
<1>5. CASE job.from # Kernel
  <2>1. PICK d \in KPages :
          /\ role[d] = "free"
          /\ tf' = [tf EXCEPT ![q] = d]
          /\ entry' = [entry EXCEPT ![d] = Junk]
          /\ role' = [n \in KPages |-> IF n = d THEN "data"
                                       ELSE IF n = tf[q] THEN "free" ELSE role[n]]
    BY <1>1, <1>5 DEF Made, Lowest, Free
  <2>2. Pending(q) /\ (Pending(q))'
    BY <1>1, <1>2, <1>5, Zenon DEF Pending
  <2>3. /\ tf[q] # Nil => role[tf[q]] = "data" /\ Unmapped(tf[q])
        /\ \A p \in Procs : p # q /\ tf[p] # Nil => tf[p] # tf[q]
    <3>1. tf[q] # Nil => Unmapped(tf[q])
      BY <2>2, Zenon DEF TfOk, TfOnly, Unmapped
    <3> QED
      BY <3>1, Zenon DEF TfOk, TfData, TfOwn
  <2>4. Unmapped(d) /\ d # Nil /\ \A p \in Procs : d # tf[p]
    BY <2>1, FreeUnmapped, PageTableAssumption, Zenon
  <2>5. /\ tf'[q] = d /\ tf' \in [Procs -> KPages \cup {Nil}]
        /\ \A p \in Procs : p # q => tf'[p] = tf[p]
    BY <2>1, Zenon DEF TypeOK
  <2> USE <2>5
  <2>6. \A t \in KPages : role[t] \in {"root", "l1", "l0"} => t # d /\ t # tf[q]
    BY <2>1, <2>3, PageTableAssumption
  <2>7. Trees' /\ \A o \in Owners, w \in Pages : Mapping'[o][w] = Mapping[o][w]
    <3>1. \A t \in KPages : /\ role[t] \in {"root", "l1", "l0"} =>
                                 entry'[t] = entry[t] /\ role'[t] = role[t]
                            /\ role'[t] \in {"root", "l1", "l0"} => role'[t] = role[t]
      BY <2>1, <2>6, Zenon DEF TypeOK
    <3> QED
      BY <3>1, AsideStep, Zenon
  <2>8. Keeps
    <3>1. ASSUME NEW n \in KPages, role[n] = "data", ~Unmapped(n) PROVE role'[n] = "data"
      <4>1. n # Nil
        BY PageTableAssumption, Zenon
      <4>2. n # tf[q]
        BY <2>3, <3>1, <4>1, Zenon
      <4> QED
        BY <2>1, <3>1, <4>2, Zenon
    <3> QED
      BY <2>7, <3>1, SameKeeps, Zenon
  <2>9. TypeOK'
    <3>1. Junk \in [Idx -> Pte]
      BY Zenon DEF Junk, Leaf, Pte, Pas, Perms
    <3>2. entry' \in [KPages -> [Idx -> Pte]] /\ role' \in [KPages -> Roles]
      BY <2>1, <3>1, Zenon DEF TypeOK, Roles
    <3> QED
      BY <1>2, <3>2, Zenon DEF TypeOK
  <2>10. TfOk'
    <3>1. TfData'
      <4>1. \A p \in Procs : p # q /\ tf[p] # Nil => tf[p] \in KPages /\ role[tf[p]] = "data"
        BY TfPages, Zenon
      <4> QED
        BY <2>1, <2>3, <2>4, <4>1 DEF TfData
    <3>2. TfOwn'
      BY <2>4, Zenon DEF TfOk, TfOwn
    <3>3. TfOnly'
      <4> SUFFICES ASSUME NEW p \in Procs, NEW o \in Owners, NEW w \in Pages,
                          Mapping'[o][w] # Zero, Mapping'[o][w].to = tf'[p]
                   PROVE  o = p /\ w = TfVa /\ ~(Pending(p))'
        BY Zenon DEF TfOnly
      <4>1. Mapping[o][w] # Zero /\ Mapping[o][w].to = tf'[p]
        BY <2>7, Zenon
      <4>2. p # q
        BY <2>4, <4>1, Zenon DEF Unmapped
      <4> QED
        <5>1. Mapping[o][w].to = tf[p]
          BY <4>1, <4>2, Zenon
        <5>2. o = p /\ w = TfVa /\ ~Pending(p)
          BY <4>1, <5>1, TfMapped, Zenon
        <5> QED
          BY <1>3, <5>2, Zenon DEF SamePending
    <3>4. TfThere'
      <4> SUFFICES ASSUME NEW p \in Procs, ~(Pending(p))', Mapping'[p][TfVa] # Zero
                   PROVE  Mapping'[p][TfVa].to = tf'[p]
        BY Zenon DEF TfThere
      <4>1. p # q
        BY <2>2, Zenon
      <4> QED
        BY <1>3, <2>7, <4>1, Places, Zenon DEF TfOk, TfThere, SamePending
    <3> QED
      BY <3>1, <3>2, <3>3, <3>4, Zenon DEF TfOk
  <2>11. PermOk'
    BY <2>7, Places DEF PermOk
  <2>12. DataOk'
    <3> SUFFICES ASSUME NEW m \in KPages, role'[m] = "data"
                 PROVE  \/ \E p \in Procs : tf'[p] = m
                        \/ \E o \in Owners, w \in Pages :
                             Mapping'[o][w] # Zero /\ Mapping'[o][w].to = m
      BY Zenon DEF DataOk
    <3>1. CASE m = d
      BY <3>1, Zenon
    <3>2. CASE m # d
      <4>1. role[m] = "data" /\ m # tf[q]
        BY <2>1, <3>2, Zenon
      <4>2. \/ \E p \in Procs : tf[p] = m
            \/ \E o \in Owners, w \in Pages : Mapping[o][w] # Zero /\ Mapping[o][w].to = m
        BY <4>1, Zenon DEF DataOk
      <4> QED
        BY <2>7, <4>1, <4>2
    <3> QED
      BY <3>1, <3>2, Zenon
  <2>13. JobOk'
    BY <1>1, <1>2, <2>4, Places, Zenon DEF JobOk
  <2> QED
    BY <2>7, <2>8, <2>9, <2>10, <2>11, <2>12, <2>13, Zenon DEF Kept, IInv, Held, Keeps
<1> QED
  BY <1>4, <1>5, Zenon

\* The pages of a reaped process, but for its trapframe.
LEMMA ReapKept ==
  ASSUME IInv, NEW p \in Procs, Reap(p)
  PROVE  Kept
<1>0. /\ TypeOK /\ Trees /\ Held /\ LeafOk /\ OneLeaf /\ TfOk /\ PermOk /\ DataOk /\ JobOk
      /\ p \in Owners /\ p # Kernel
  BY Places, Zenon DEF IInv, Held
<1> USE <1>0
<1>1. /\ root[p] # Nil /\ job = Idle
      /\ entry' = [t \in KPages |-> IF t \in Destroyed(root[p]) THEN Cleared ELSE entry[t]]
      /\ role' = [n \in KPages |-> IF n \in Destroyed(root[p]) THEN "free" ELSE role[n]]
      /\ ufree' = ufree \cup UserPages(root[p])
      /\ root' = [root EXCEPT ![p] = Nil]
      /\ job' = Job("drop", p, p, {})
      /\ tf' = tf /\ pid' = pid /\ nextPid' = nextPid
  BY Zenon DEF Reap, Runs, Started
<1>2. /\ job.op = "idle" /\ job.to = Nil
      /\ job'.op = "drop" /\ job'.from = p /\ job'.to = p /\ job'.todo = {}
      /\ job' \in [op : Ops, from : Owners \cup {Nil}, to : Owners \cup {Nil},
                   todo : SUBSET Pages]
  BY <1>1, Zenon DEF Idle, Job, Ops
<1>3. /\ Trees' /\ entry' \in [KPages -> [Idx -> Pte]] /\ role' \in [KPages -> Roles]
      /\ \A q \in Owners, w \in Pages :
           Mapping'[q][w] = IF q = p THEN Zero ELSE Mapping[q][w]
      /\ \A n \in KPages : role'[n] = "data" <=> role[n] = "data"
  BY <1>1, ReapStep, Zenon
<1>4. /\ root' \in [Owners -> KPages \cup {Nil}] /\ root'[p] = Nil
      /\ \A o \in Owners : o # p => root'[o] = root[o]
  BY <1>1, Zenon DEF TypeOK
<1>5. /\ ufree' \subseteq UPages
      /\ \A u \in ufree' : u \in ufree \/ \E w \in Pages :
           Mapping[p][w] # Zero /\ Mapping[p][w].to = u
  <2>1. \A w \in Pages : /\ Mapping[p][w] = Translate(root[p], w)
                         /\ Mapping[p][w].kind = "leaf" => Mapping[p][w] # Zero
    BY <1>1, Mapped, Zenon
  <2>2. \A u \in UserPages(root[p]) : u \in UPages /\ \E w \in Pages :
           Mapping[p][w] # Zero /\ Mapping[p][w].to = u
    BY <2>1, Zenon DEF UserPages
  <2> QED
    BY <1>1, <2>2, Zenon DEF TypeOK
<1>6. LeafOk'
  <2> SUFFICES ASSUME NEW q \in Owners, NEW w \in Pages, Mapping'[q][w] # Zero
               PROVE  \/ Mapping'[q][w].perm = "tramp" /\ Mapping'[q][w].to = TrampPa
                      \/ /\ Mapping'[q][w].perm = "user"
                         /\ Mapping'[q][w].to \in UPages /\ Mapping'[q][w].to \notin ufree'
                      \/ /\ Mapping'[q][w].perm = "kernel"
                         /\ Mapping'[q][w].to \in KPages /\ role'[Mapping'[q][w].to] = "data"
    BY Zenon DEF LeafOk
  <2>1. q # p /\ Mapping'[q][w] = Mapping[q][w]
    BY <1>3, Zenon
  <2> USE <2>1
  <2>2. CASE Mapping[q][w].to \in UPages
    <3>1. Mapping[q][w].to # TrampPa
      BY <2>2, PageTableAssumption, Zenon
    <3>2. \A x \in Pages : Mapping[p][x] # Zero => Mapping[p][x].to # Mapping[q][w].to
      BY <3>1, Zenon DEF OneLeaf
    <3>3. Mapping[q][w].perm = "user" /\ Mapping[q][w].to \notin ufree
      BY <2>2, <3>1, PageTableAssumption, Zenon DEF LeafOk
    <3>4. Mapping[q][w].to \notin ufree'
      BY <1>5, <3>2, <3>3, Zenon
    <3> QED
      BY <2>2, <3>3, <3>4, Zenon
  <2>3. CASE Mapping[q][w].to \notin UPages
    <3>1. TrampPa \notin UPages
      BY PageTableAssumption, Zenon
    <3>2. \/ Mapping[q][w].perm = "tramp" /\ Mapping[q][w].to = TrampPa
          \/ /\ Mapping[q][w].perm = "kernel"
             /\ Mapping[q][w].to \in KPages /\ role[Mapping[q][w].to] = "data"
      BY <2>3, Zenon DEF LeafOk
    <3> QED
      BY <1>3, <3>2, Zenon
  <2> QED
    BY <2>2, <2>3, Zenon
<1>7. OneLeaf'
  <2>1. \A q \in Owners, w \in Pages : Mapping'[q][w] # Zero => Mapping'[q][w] = Mapping[q][w]
    BY <1>3, Zenon
  <2> QED
    BY <2>1 DEF OneLeaf
<1>8. Map!Next
  <2>1. \A w \in Pages : Mapping'[p][w] = Zero
    BY <1>3, Zenon
  <2>2. ASSUME NEW q \in Owners \ {p} PROVE Mapping'[q] = Mapping[q]
    <3>1. \A w \in Pages : Mapping'[q][w] = Mapping[q][w]
      BY <1>3, Zenon
    <3>2. /\ Mapping[q] = [w \in Pages |-> Mapping[q][w]]
          /\ Mapping'[q] = [w \in Pages |-> Mapping'[q][w]]
      BY Zenon DEF Mapping
    <3> QED
      BY <3>1, <3>2, Zenon
  <2>3. Map!Destroy(p)
    BY <2>1, <2>2, Zenon DEF Map!Destroy, Map!Pages, Pages
  <2> QED
    BY <2>3, Zenon DEF Map!Next
<1>9. TypeOK'
  <2>1. root'[Kernel] # Nil
    BY <1>4, Places DEF TypeOK
  <2> QED
    BY <1>1, <1>2, <1>3, <1>4, <1>5, <2>1, Zenon DEF TypeOK
<1>10. TfOk'
  <2>1. (Pending(p))' /\ ~Pending(p)
    BY <1>1, <1>2, <1>4, Places, Zenon DEF Pending
  <2>2. \A q \in Procs : q # p => ((Pending(q))' <=> Pending(q))
    BY <1>2, <1>4, Places, Zenon DEF Pending
  <2>3. TfData'
    BY <1>1, <1>3, TfPages, Zenon DEF TfData
  <2>4. \A q \in Owners, w \in Pages :
          Mapping'[q][w] # Zero => q # p /\ Mapping'[q][w] = Mapping[q][w]
    BY <1>3, Zenon
  <2>5. TfOnly'
    <3> SUFFICES ASSUME NEW q \in Procs, NEW o \in Owners, NEW w \in Pages,
                        Mapping'[o][w] # Zero, Mapping'[o][w].to = tf'[q]
                 PROVE  o = q /\ w = TfVa /\ ~(Pending(q))'
      BY Zenon DEF TfOnly
    <3>1. o # p /\ Mapping[o][w] # Zero /\ Mapping[o][w].to = tf[q]
      BY <1>1, <2>4, Zenon
    <3>2. o = q /\ w = TfVa /\ ~Pending(q)
      BY <3>1, TfMapped, Zenon
    <3> QED
      BY <2>2, <3>1, <3>2, Zenon
  <2>6. TfThere'
    <3> SUFFICES ASSUME NEW q \in Procs, ~(Pending(q))', Mapping'[q][TfVa] # Zero
                 PROVE  Mapping'[q][TfVa].to = tf'[q]
      BY Zenon DEF TfThere
    <3>1. q # p /\ ~Pending(q)
      BY <2>1, <2>2, Zenon
    <3>2. Mapping'[q][TfVa] = Mapping[q][TfVa]
      BY <2>4, Places, Zenon
    <3> QED
      BY <1>1, <3>1, <3>2, Zenon DEF TfOk, TfThere
  <2>7. TfOwn'
    BY <1>1, Zenon DEF TfOk, TfOwn
  <2> QED
    BY <2>3, <2>5, <2>6, <2>7, Zenon DEF TfOk
<1>11. PermOk'
  BY <1>3, Places DEF PermOk
<1>12. DataOk'
  <2> SUFFICES ASSUME NEW m \in KPages, role'[m] = "data"
               PROVE  \/ \E q \in Procs : tf'[q] = m
                      \/ \E o \in Owners, w \in Pages :
                           Mapping'[o][w] # Zero /\ Mapping'[o][w].to = m
    BY Zenon DEF DataOk
  <2>1. \/ \E q \in Procs : tf[q] = m
        \/ \E o \in Owners, w \in Pages : Mapping[o][w] # Zero /\ Mapping[o][w].to = m
    BY <1>2, <1>3, Zenon DEF DataOk
  <2>2. ASSUME NEW w \in Pages, Mapping[p][w] # Zero, Mapping[p][w].to = m PROVE tf[p] = m
    <3>1. Mapping[p][w].perm = "kernel"
      BY <2>2, PageTableAssumption, Zenon DEF LeafOk
    <3>2. w = TfVa
      BY <2>2, <3>1, Zenon DEF PermOk
    <3>3. ~Pending(p)
      BY <1>1, <1>2, Places, Zenon DEF Pending
    <3> QED
      BY <2>2, <3>2, <3>3, Zenon DEF TfOk, TfThere
  <2>3. \A o \in Owners, w \in Pages : o # p => Mapping'[o][w] = Mapping[o][w]
    BY <1>3, Zenon
  <2> QED
    <3>1. CASE \E q \in Procs : tf[q] = m
      BY <1>1, <3>1, Zenon
    <3>2. ASSUME NEW o \in Owners, NEW w \in Pages, Mapping[o][w] # Zero, Mapping[o][w].to = m
          PROVE  \/ \E q \in Procs : tf'[q] = m
                 \/ \E s \in Owners, x \in Pages :
                      Mapping'[s][x] # Zero /\ Mapping'[s][x].to = m
      <4>1. CASE o = p
        BY <1>1, <2>2, <3>2, <4>1, Zenon
      <4>2. CASE o # p
        BY <2>3, <3>2, <4>2, Zenon
      <4> QED
        BY <4>1, <4>2, Zenon
    <3> QED
      BY <2>1, <3>1, <3>2, Zenon
<1>13. JobOk'
  BY <1>2, <1>4, Zenon DEF JobOk
<1> QED
  BY <1>3, <1>6, <1>7, <1>8, <1>9, <1>10, <1>11, <1>12, <1>13, Zenon DEF Kept, IInv, Held

\* What a page of a new table starts from.
LEMMA SourceFacts ==
  ASSUME TypeOK, Trees, Held, job.op = "make", NEW v \in job.todo
  PROVE  /\ v \in Pages
         /\ job.from = Kernel => (Source(v).perm = "kernel" <=> v = TfVa)
         /\ Source(v).perm = "kernel" => v = TfVa
<1>1. v \in Pages
  BY Zenon DEF TypeOK
<1> USE <1>1
<1>2. CASE job.from = Kernel
  BY <1>2, Places, Zenon DEF Source, Leaf
<1>3. CASE job.from # Kernel
  <2>1. job.from \in Procs /\ root[job.from] # Nil /\ Mapping[job.from][v] # Zero
    BY <1>3, Zenon DEF Held, JobOk, Owners
  <2>2. Source(v) = Mapping[job.from][v]
    BY <1>3, <2>1, Mapped, Places, Zenon DEF Source
  <2> QED
    BY <1>3, <2>1, <2>2, Zenon DEF Held, PermOk
<1> QED
  BY <1>2, <1>3, Zenon

\* The new table gets the trampoline, or a page that was free.
LEMMA MakeOther ==
  ASSUME IInv, job.op = "make", NEW v \in job.todo, NEW pte \in Leaves,
         job' = [job EXCEPT !.todo = @ \ {v}], MapPage(job.to, v, pte, {}),
         root' = root, tf' = tf, pid' = pid, nextPid' = nextPid,
         ufree' \subseteq ufree, Fresh(pte), pte.to \in KPages => role[pte.to] = "free",
         \A p \in Procs : pte.to # tf[p],
         pte.perm = "kernel" => v = TfVa,
         job.from = Kernel => v # TfVa
  PROVE  Kept
<1>0. /\ TypeOK /\ Trees /\ Held /\ LeafOk /\ OneLeaf /\ TfOk /\ PermOk /\ DataOk /\ JobOk
      /\ v \in Pages
  BY SourceFacts, Zenon DEF IInv, Held
<1> USE <1>0
<1>1. PICK q \in Procs : q = job.to /\ root[q] # Nil
  BY Zenon DEF JobOk
<1> USE <1>1
<1>2. /\ job.from \in Owners /\ root[job.from] # Nil /\ job.from # q
      /\ job.from # Kernel => \A w \in job.todo : Mapping[job.from][w] # Zero
  BY Zenon DEF JobOk
<1>3. /\ job'.op = "make" /\ job'.from = job.from /\ job'.to = q /\ job'.todo = job.todo \ {v}
      /\ job' \in [op : Ops, from : Owners \cup {Nil}, to : Owners \cup {Nil},
                   todo : SUBSET Pages]
  BY Zenon DEF TypeOK, Ops
<1>4. Gives(q, v, pte, {})
  BY Places, MapStep, Zenon
<1> USE <1>4
<1>5. Keeps
  BY Places, GiveKeeps
<1>6. TfOk' /\ PermOk' /\ DataOk'
  <2>1. SamePending
    BY <1>3, Zenon DEF SamePending, Pending
  <2>2. \A p \in Procs : q = p /\ v = TfVa => Pending(p)
    BY Zenon DEF Pending
  <2>3. q \in Owners
    BY Places, Zenon
  <2> QED
    BY <2>1, <2>2, <2>3, GiveOther
<1>7. TypeOK'
  BY <1>3, Zenon DEF TypeOK, Gives
<1>8. JobOk'
  <2>1. \A w \in Pages : Mapping'[job.from][w] = Mapping[job.from][w]
    BY <1>2, Zenon DEF Gives
  <2>2. job.todo \subseteq Pages
    BY Zenon DEF TypeOK
  <2> QED
    BY <1>2, <1>3, <2>1, <2>2, Zenon DEF JobOk
<1> QED
  BY <1>5, <1>6, <1>7, <1>8, Zenon DEF Kept, IInv, Held, Keeps, Gives

\* create maps the new trapframe, and drops the one that the slot had.
LEMMA MakeTf ==
  ASSUME IInv, job.op = "make", job.from = Kernel, TfVa \in job.todo,
         NEW d \in KPages, role[d] = "free",
         job' = [job EXCEPT !.todo = @ \ {TfVa}],
         tf' = [tf EXCEPT ![job.to] = d],
         MapPage(job.to, TfVa, Leaf(d, "kernel"), {tf[job.to]}),
         root' = root, ufree' = ufree, pid' = pid, nextPid' = nextPid
  PROVE  Kept
<1>0. /\ TypeOK /\ Trees /\ Held /\ LeafOk /\ OneLeaf /\ TfOk /\ PermOk /\ DataOk /\ JobOk
      /\ TfVa \in Pages
  BY Places, Zenon DEF IInv, Held
<1> USE <1>0
<1>1. PICK q \in Procs : q = job.to /\ root[q] # Nil
  BY Zenon DEF JobOk
<1>2. /\ job'.op = "make" /\ job'.from = Kernel /\ job'.to = q
      /\ job'.todo = job.todo \ {TfVa}
      /\ job' \in [op : Ops, from : Owners \cup {Nil}, to : Owners \cup {Nil},
                   todo : SUBSET Pages]
  BY <1>1, Zenon DEF TypeOK, Ops
<1>3. /\ Pending(q) /\ ~(Pending(q))' /\ q \in Owners /\ q # Kernel
      /\ \A p \in Procs : p # q => ((Pending(p))' <=> Pending(p))
  BY <1>1, <1>2, Places, Zenon DEF Pending
<1>4. /\ tf[q] # Nil => role[tf[q]] = "data" /\ Unmapped(tf[q])
      /\ \A p \in Procs : p # q /\ tf[p] # Nil => tf[p] # tf[q]
  <2>1. tf[q] # Nil => Unmapped(tf[q])
    BY <1>3, ZenonT(40) DEF TfOk, TfOnly, Unmapped
  <2> QED
    BY <2>1, Zenon DEF TfOk, TfData, TfOwn
<1>5. Unmapped(d) /\ d # Nil /\ \A p \in Procs : d # tf[p]
  BY FreeUnmapped, PageTableAssumption, Zenon
<1>6. /\ tf'[q] = d /\ tf' \in [Procs -> KPages \cup {Nil}]
      /\ \A p \in Procs : p # q => tf'[p] = tf[p]
  BY <1>1, Zenon DEF TypeOK
<1> DEFINE pte == Leaf(d, "kernel")
           gone == {tf[q]}
<1>7. pte \in Leaves /\ pte.to = d /\ pte.perm = "kernel" /\ pte # Zero
  <2>1. pte.kind # Zero.kind
    BY Zenon DEF Leaf, Zero
  <2> QED
    BY <2>1, LeafFacts, Zenon DEF Pas, Perms
<1>8. \A n \in KPages : n \in gone => role[n] = "data" /\ Unmapped(n)
  BY <1>4, PageTableAssumption, Zenon
<1>9. MapPage(q, TfVa, pte, gone)
  BY <1>1, Zenon
<1> HIDE DEF pte, gone
<1>10. Gives(q, TfVa, pte, gone)
  BY <1>1, <1>3, <1>7, <1>8, <1>9, MapStep, Zenon
<1>11. Keeps
  <2>1. Fresh(pte) /\ ufree' \subseteq ufree
    BY <1>5, <1>7, Zenon DEF Fresh
  <2> QED
    BY <1>3, <1>7, <1>8, <1>10, <2>1, GiveKeeps, Zenon
<1>12. /\ \A o \in Owners, w \in Pages :
            Mapping'[o][w] = IF o = q /\ w = TfVa THEN pte ELSE Mapping[o][w]
       /\ \A n \in KPages : role'[n] = "data" <=> n = d \/ (role[n] = "data" /\ n # tf[q])
  BY <1>7, <1>10, Zenon DEF Gives, gone
<1>13. TfOk'
  <2>1. TfData'
    <3>1. \A p \in Procs : p # q /\ tf[p] # Nil => tf[p] \in KPages /\ role[tf[p]] = "data"
      BY TfPages, Zenon
    <3> QED
      BY <1>4, <1>6, <1>12, <3>1, Zenon DEF TfData
  <2>2. TfOwn'
    BY <1>5, <1>6, Zenon DEF TfOk, TfOwn
  <2>3. TfOnly'
    <3> SUFFICES ASSUME NEW p \in Procs, NEW o \in Owners, NEW w \in Pages,
                        Mapping'[o][w] # Zero, Mapping'[o][w].to = tf'[p]
                 PROVE  o = p /\ w = TfVa /\ ~(Pending(p))'
      BY Zenon DEF TfOnly
    <3>1. CASE o = q /\ w = TfVa
      <4>1. tf'[p] = d
        BY <1>7, <1>12, <3>1, Zenon
      <4>2. p = q
        BY <1>5, <1>6, <4>1, Zenon
      <4> QED
        BY <1>3, <3>1, <4>2, Zenon
    <3>2. CASE ~(o = q /\ w = TfVa)
      <4>1. Mapping[o][w] # Zero /\ Mapping[o][w].to = tf'[p]
        BY <1>12, <3>2, Zenon
      <4>2. p # q
        BY <1>5, <1>6, <4>1 DEF Unmapped
      <4> QED
        <5>1. Mapping[o][w].to = tf[p]
          BY <1>6, <4>1, <4>2, Zenon
        <5>2. o = p /\ w = TfVa /\ ~Pending(p)
          BY <4>1, <5>1, TfMapped, Zenon
        <5> QED
          BY <1>3, <4>2, <5>2, Zenon
    <3> QED
      BY <3>1, <3>2, Zenon
  <2>4. TfThere'
    <3> SUFFICES ASSUME NEW p \in Procs, ~(Pending(p))', Mapping'[p][TfVa] # Zero
                 PROVE  Mapping'[p][TfVa].to = tf'[p]
      BY Zenon DEF TfThere
    <3>1. CASE p = q
      BY <1>3, <1>6, <1>7, <1>12, <3>1, Zenon
    <3>2. CASE p # q
      <4>1. ~Pending(p) /\ Mapping'[p][TfVa] = Mapping[p][TfVa]
        BY <1>3, <1>12, <3>2, Places, Zenon
      <4> QED
        BY <1>6, <3>2, <4>1, Zenon DEF TfOk, TfThere
    <3> QED
      BY <3>1, <3>2, Zenon
  <2> QED
    BY <2>1, <2>2, <2>3, <2>4, Zenon DEF TfOk
<1>14. PermOk'
  BY <1>12, Places DEF PermOk
<1>15. DataOk'
  <2> SUFFICES ASSUME NEW m \in KPages, role'[m] = "data"
               PROVE  \/ \E p \in Procs : tf'[p] = m
                      \/ \E o \in Owners, w \in Pages :
                           Mapping'[o][w] # Zero /\ Mapping'[o][w].to = m
    BY Zenon DEF DataOk
  <2>1. CASE m = d
    BY <1>6, <2>1, Zenon
  <2>2. CASE m # d
    <3>1. role[m] = "data" /\ m # tf[q]
      BY <1>12, <2>2, Zenon
    <3>2. \/ \E p \in Procs : tf[p] = m
          \/ \E o \in Owners, w \in Pages : Mapping[o][w] # Zero /\ Mapping[o][w].to = m
      BY <3>1, Zenon DEF DataOk
    <3>3. \A o \in Owners, w \in Pages :
            Mapping[o][w] # Zero /\ Mapping[o][w].to = m => Mapping'[o][w] = Mapping[o][w]
      <4>1. Mapping[q][TfVa] = Zero \/ Mapping[q][TfVa].to = d
        BY <1>7, <1>10, Zenon DEF Gives
      <4> QED
        BY <1>12, <2>2, <4>1, Zenon
    <3> QED
      BY <1>6, <3>1, <3>2, <3>3
  <2> QED
    BY <2>1, <2>2, Zenon
<1>16. TypeOK'
  BY <1>2, <1>6, <1>10, Zenon DEF TypeOK, Gives
<1>17. JobOk'
  BY <1>1, <1>2, Places, Zenon DEF JobOk
<1> QED
  BY <1>10, <1>11, <1>13, <1>14, <1>15, <1>16, <1>17, Zenon DEF Kept, IInv, Held, Keeps, Gives

\* A page of a new table.
LEMMA MakePageKept ==
  ASSUME IInv, NEW v \in Pages, MakePage(v)
  PROVE  Kept
<1>0. TypeOK /\ Trees /\ Held
  BY Zenon DEF IInv
<1>1. /\ job.op = "make" /\ v \in job.todo /\ job' = [job EXCEPT !.todo = @ \ {v}]
      /\ root' = root /\ pid' = pid /\ nextPid' = nextPid
  BY Zenon DEF MakePage, Highest, Lowest
<1>2. /\ job.from = Kernel => (Source(v).perm = "kernel" <=> v = TfVa)
      /\ Source(v).perm = "kernel" => v = TfVa
  BY <1>0, <1>1, SourceFacts, Zenon
<1>3. CASE /\ Source(v).perm = "user"
           /\ \E f \in UPages : /\ Lowest(f, ufree)
                                /\ ufree' = ufree \ {f}
                                /\ MapPage(job.to, v, Leaf(f, "user"), {})
           /\ tf' = tf
  <2>1. PICK f \in UPages : f \in ufree /\ ufree' = ufree \ {f}
                            /\ MapPage(job.to, v, Leaf(f, "user"), {})
    BY <1>3, Zenon DEF Lowest
  <2> USE <2>1
  <2> DEFINE pte == Leaf(f, "user")
  <2>2. pte \in Leaves /\ pte.to = f /\ pte.perm = "user" /\ f \notin KPages
    BY LeafFacts, PageTableAssumption, Zenon DEF Pas, Perms
  <2>3. Unmapped(f) /\ \A p \in Procs : f # tf[p]
    BY <1>0, FreeUnmapped, Zenon
  <2>4. MapPage(job.to, v, pte, {})
    BY Zenon
  <2> HIDE DEF pte
  <2>5. Fresh(pte) /\ ufree' \subseteq ufree
    BY <2>2, <2>3, Zenon DEF Fresh
  <2>6. job.from = Kernel => v # TfVa
    BY <1>2, <1>3, Zenon
  <2> QED
    BY <1>1, <1>3, <2>2, <2>3, <2>4, <2>5, <2>6, MakeOther, Zenon
<1>4. CASE /\ Source(v).perm = "tramp"
           /\ MapPage(job.to, v, Leaf(TrampPa, "tramp"), {})
           /\ ufree' = ufree /\ tf' = tf
  <2> DEFINE pte == Leaf(TrampPa, "tramp")
  <2>2. pte \in Leaves /\ pte.to = TrampPa /\ pte.perm = "tramp" /\ TrampPa \notin KPages
    BY LeafFacts, PageTableAssumption, Zenon DEF Pas, Perms
  <2>3. \A p \in Procs : TrampPa # tf[p]
    BY <1>0, FreeUnmapped, Zenon
  <2>4. MapPage(job.to, v, pte, {})
    BY <1>4, Zenon
  <2> HIDE DEF pte
  <2>5. Fresh(pte) /\ ufree' \subseteq ufree
    BY <1>4, <2>2, Zenon DEF Fresh
  <2>6. job.from = Kernel => v # TfVa
    BY <1>2, <1>4, Zenon
  <2> QED
    BY <1>1, <1>4, <2>2, <2>3, <2>4, <2>5, <2>6, MakeOther, Zenon
<1>5. CASE /\ Source(v).perm = "kernel"
           /\ \E d \in KPages :
                /\ Lowest(d, Free)
                /\ tf' = IF job.from = Kernel THEN [tf EXCEPT ![job.to] = d] ELSE tf
                /\ MapPage(job.to, v, Leaf(d, "kernel"),
                           IF job.from = Kernel THEN {tf[job.to]} ELSE {})
           /\ ufree' = ufree
  <2>1. PICK d \in KPages :
          /\ role[d] = "free"
          /\ tf' = IF job.from = Kernel THEN [tf EXCEPT ![job.to] = d] ELSE tf
          /\ MapPage(job.to, v, Leaf(d, "kernel"),
                     IF job.from = Kernel THEN {tf[job.to]} ELSE {})
    BY <1>5, Zenon DEF Lowest, Free
  <2> USE <2>1
  <2>2. v = TfVa
    BY <1>2, <1>5, Zenon
  <2> USE <2>2
  <2>3. CASE job.from = Kernel
    <3>1. tf' = [tf EXCEPT ![job.to] = d]
      BY <2>3, Zenon
    <3>2. MapPage(job.to, TfVa, Leaf(d, "kernel"), {tf[job.to]})
      BY <2>3, Zenon
    <3> QED
      BY <1>1, <1>5, <2>3, <3>1, <3>2, MakeTf, Zenon
  <2>4. CASE job.from # Kernel
    <3> DEFINE pte == Leaf(d, "kernel")
    <3>1. pte \in Leaves /\ pte.to = d /\ pte.perm = "kernel"
      BY LeafFacts, Zenon DEF Pas, Perms
    <3>2. Unmapped(d) /\ \A p \in Procs : d # tf[p]
      BY <1>0, FreeUnmapped, Zenon
    <3>3. MapPage(job.to, v, pte, {}) /\ tf' = tf
      BY <2>4, Zenon
    <3> HIDE DEF pte
    <3>4. Fresh(pte) /\ ufree' \subseteq ufree
      BY <1>5, <3>1, <3>2, Zenon DEF Fresh
    <3> QED
      BY <1>1, <2>4, <3>1, <3>2, <3>3, <3>4, MakeOther, Zenon
  <2> QED
    BY <2>3, <2>4, Zenon
<1> QED
  BY <1>3, <1>4, <1>5, Zenon DEF MakePage

\* A step that changes nothing.
LEMMA StutterKept ==
  ASSUME IInv, UNCHANGED ptVars
  PROVE  Kept
<1>1. /\ entry' = entry /\ role' = role /\ root' = root /\ ufree' = ufree /\ tf' = tf
      /\ pid' = pid /\ nextPid' = nextPid /\ job' = job
  BY Zenon DEF ptVars
<1> USE <1>1
<1>2. Mapping' = Mapping
  BY DEF Mapping, Translate, Reaches, LastTable, Leads, Below
<1> USE <1>2
<1>3. TypeOK'
  BY Zenon DEF IInv, TypeOK
<1>4. Trees'
  BY SMTT(30) DEF IInv, Trees, Shape, OneParent, RootOk, Parents, Leads, Below
<1>5. Held'
  <2>1. LeafOk' /\ OneLeaf'
    BY SMTT(30) DEF IInv, Held, LeafOk, OneLeaf
  <2>2. TfOk'
    <3>1. TypeOK /\ TfOk
      BY Zenon DEF IInv, Held
    <3>2. SamePending
      BY Zenon DEF SamePending, Pending
    <3>3. \A p \in Procs : tf[p] # Nil => role'[tf[p]] = "data"
      BY <3>1, TfPages, Zenon
    <3>4. \A o \in Owners, w \in Pages : Mapping'[o][w] = Mapping[o][w]
      BY Zenon
    <3> QED
      BY <3>1, <3>2, <3>3, <3>4, SameTf, Zenon
  <2>3. PermOk' /\ DataOk'
    BY Zenon DEF IInv, Held, PermOk, DataOk
  <2>4. JobOk'
    BY Zenon DEF IInv, Held, JobOk
  <2> QED
    BY <2>1, <2>2, <2>3, <2>4, Zenon DEF Held
<1> QED
  BY <1>3, <1>4, <1>5, Zenon DEF Kept, IInv

\* Every step keeps the invariant, and is a step of the map.
LEMMA NextKept ==
  ASSUME IInv, [PtNext]_ptVars
  PROVE  Kept
<1>1. CASE BootTramp
  BY <1>1, BootKept, Zenon
<1>2. CASE Made
  BY <1>2, MadeKept, Zenon
<1>3. CASE MakeStack
  BY <1>3, MakeStackKept, Zenon
<1>4. CASE UnmapTf
  BY <1>4, UnmapTfKept, Zenon
<1>5. CASE RemapTf
  BY <1>5, RemapTfKept, Zenon
<1>6. CASE DropStack
  BY <1>6, DropStackKept, Zenon
<1>7. CASE Halted \/ UNCHANGED ptVars
  BY <1>7, StutterKept, Zenon DEF Halted
<1>8. ASSUME NEW o \in Owners, NEW q \in Procs, NewRoot(o, q) PROVE Kept
  BY <1>8, NewRootKept, Zenon
<1>9. ASSUME NEW v \in Pages, MakePage(v) PROVE Kept
  BY <1>9, MakePageKept, Zenon
<1>10. ASSUME NEW p \in Procs, Reap(p) PROVE Kept
  BY <1>10, ReapKept, Zenon
<1>11. ASSUME NEW p \in Procs, NEW v \in UserVas, Grow(p, v) \/ Shrink(p, v) PROVE Kept
  BY <1>11, GrowKept, ShrinkKept, Zenon
<1> QED
  BY <1>1, <1>2, <1>3, <1>4, <1>5, <1>6, <1>7, <1>8, <1>9, <1>10, <1>11, Zenon DEF PtNext

\* At boot there is the kernel's root, and it maps nothing.
LEMMA InitKept ==
  ASSUME PtInit
  PROVE  IInv /\ Map!Init
<1>1. PICK k \in KPages :
        /\ entry = [t \in KPages |-> IF t = k THEN Cleared ELSE Junk]
        /\ role = [n \in KPages |-> IF n = k THEN "root" ELSE "free"]
        /\ root = [o \in Owners |-> IF o = Kernel THEN k ELSE Nil]
  BY Zenon DEF PtInit
<1>2. /\ ufree = UPages /\ tf = [p \in Procs |-> Nil] /\ pid = [o \in Owners |-> 0]
      /\ nextPid = 1 /\ job = Job("boot", Kernel, Kernel, {})
  BY Zenon DEF PtInit
<1>3. job.op = "boot" /\ job.from = Kernel /\ job.to = Kernel /\ job.todo = {}
  BY <1>2, Zenon DEF Job
<1>4. k # Nil /\ Kernel \in Owners /\ Kernel # Nil
  BY Places, PageTableAssumption, Zenon
<1>5. TypeOK
  <2>1. Cleared \in [Idx -> Pte] /\ Junk \in [Idx -> Pte]
    BY Zenon DEF Cleared, Zero, Junk, Leaf, Pte, Pas, Perms
  <2>2. job \in [op : Ops, from : Owners \cup {Nil}, to : Owners \cup {Nil},
                 todo : SUBSET Pages]
    BY <1>2, <1>4, Zenon DEF Job, Ops
  <2> QED
    BY <1>1, <1>2, <1>4, <2>1, <2>2, Zenon DEF TypeOK, Roles
<1>6. \A i \in Idx : entry[k][i] = Zero /\ ~Leads(k, i) /\ entry[k][i].kind # "leaf"
  BY <1>1, Zenon DEF Cleared, Zero, Leads
<1>7. Trees
  <2>1. \A t \in KPages : role[t] \in {"root", "l1", "l0"} => t = k /\ role[t] = "root"
    BY <1>1, Zenon
  <2> USE <2>1
  <2>2. Shape
    BY <1>6, Zenon DEF Shape
  <2>3. OneParent
    BY <1>6, Zenon DEF OneParent
  <2>4. RootOk
    BY <1>1, Zenon DEF RootOk
  <2>5. Parents
    BY <1>1, <1>4, Zenon DEF Parents
  <2> QED
    BY <2>2, <2>3, <2>4, <2>5, Zenon DEF Trees
<1>8. \A o \in Owners, v \in Pages : Mapping[o][v] = Zero
  <2> SUFFICES ASSUME NEW o \in Owners, NEW v \in Pages PROVE Mapping[o][v] = Zero
    BY Zenon
  <2>1. CASE o # Kernel
    BY <1>1, <2>1, Zenon DEF Mapping
  <2>2. CASE o = Kernel
    <3>1. root[o] = k /\ Vpn2(v) \in Idx
      BY <1>1, <2>2, Digits, Zenon
    <3>2. ~Reaches(root[o], v)
      BY <1>6, <3>1, Zenon DEF Reaches
    <3> QED
      BY <3>2, Zenon DEF Mapping, Translate
  <2> QED
    BY <2>1, <2>2, Zenon
<1>9. Held
  <2>1. LeafOk /\ OneLeaf /\ PermOk
    BY <1>8, Places, Zenon DEF LeafOk, OneLeaf, PermOk
  <2>2. TfOk
    BY <1>2, <1>8, Places, Zenon DEF TfOk, TfData, TfOwn, TfOnly, TfThere
  <2>3. DataOk
    BY <1>1, Zenon DEF DataOk
  <2>4. JobOk
    BY <1>3, Zenon DEF JobOk
  <2> QED
    BY <2>1, <2>2, <2>3, <2>4, Zenon DEF Held
<1>10. Map!Init
  <2>1. Mapping = [o \in Owners |-> [v \in Pages |-> Zero]]
    <3>1. ASSUME NEW o \in Owners PROVE Mapping[o] = [v \in Pages |-> Zero]
      <4>1. Mapping[o] = [v \in Pages |-> Mapping[o][v]]
        BY Zenon DEF Mapping
      <4> QED
        BY <1>8, <4>1, Zenon
    <3>2. Mapping = [o \in Owners |-> Mapping[o]]
      BY Zenon DEF Mapping
    <3> QED
      BY <3>1, <3>2, Zenon
  <2> QED
    BY <2>1, Zenon DEF Map!Init, Map!Pages, Pages
<1> QED
  BY <1>5, <1>7, <1>9, <1>10, Zenon DEF IInv

\* The tables are what the roots reach.
LEMMA Reached ==
  ASSUME TypeOK, Trees
  PROVE  {n \in KPages : role[n] \in {"root", "l1", "l0"}} = UNION {TablesOf(o) : o \in Owners}
<1>0. /\ \A o \in Owners : root[o] # Nil => root[o] \in KPages /\ role[root[o]] = "root"
      /\ \A n \in KPages : n # Nil
  BY PageTableAssumption DEF TypeOK, Trees, RootOk
<1>1. \A t \in KPages, i \in Idx : role[t] \in {"root", "l1"} /\ Leads(t, i) =>
        /\ Below(t, i) \in KPages
        /\ role[Below(t, i)] = IF role[t] = "root" THEN "l1" ELSE "l0"
  BY Zenon DEF Trees, Shape
<1>2. ASSUME NEW o \in Owners, root[o] # Nil, NEW n
      PROVE  n \in TablesOf(o) <=>
               \/ n = root[o]
               \/ \E i \in Idx : Leads(root[o], i) /\ n = Below(root[o], i)
               \/ \E i, j \in Idx : /\ Leads(root[o], i) /\ Leads(Below(root[o], i), j)
                                    /\ n = Below(Below(root[o], i), j)
  BY <1>2 DEF TablesOf, Destroyed, Tables, Children
<1>3. ASSUME NEW o \in Owners, NEW n \in TablesOf(o)
      PROVE  n \in KPages /\ role[n] \in {"root", "l1", "l0"}
  <2>1. root[o] # Nil
    BY <1>3, Zenon DEF TablesOf
  <2> QED
    BY <1>0, <1>1, <1>2, <1>3, <2>1
<1>4. ASSUME NEW n \in KPages, role[n] \in {"root", "l1", "l0"}
      PROVE  \E o \in Owners : n \in TablesOf(o)
  <2>1. CASE role[n] = "root"
    <3>1. PICK o \in Owners : root[o] = n
      BY <2>1, Zenon DEF Trees, Parents
    <3> QED
      BY <1>0, <1>2, <3>1, Zenon
  <2>2. ASSUME NEW m \in KPages, role[m] = "l1"
        PROVE  \E o \in Owners, i \in Idx :
                 root[o] # Nil /\ Leads(root[o], i) /\ Below(root[o], i) = m
    <3>1. PICK t \in KPages, i \in Idx : role[t] = "root" /\ Leads(t, i) /\ Below(t, i) = m
      BY <2>2, Zenon DEF Trees, Parents
    <3>2. PICK o \in Owners : root[o] = t
      BY <3>1, Zenon DEF Trees, Parents
    <3> QED
      BY <1>0, <3>1, <3>2, Zenon
  <2>3. CASE role[n] = "l1"
    <3>1. PICK o \in Owners, i \in Idx :
            root[o] # Nil /\ Leads(root[o], i) /\ Below(root[o], i) = n
      BY <2>2, <2>3, Zenon
    <3> QED
      BY <1>2, <3>1, Zenon
  <2>4. CASE role[n] = "l0"
    <3>1. PICK t \in KPages, j \in Idx : role[t] = "l1" /\ Leads(t, j) /\ Below(t, j) = n
      BY <2>4, Zenon DEF Trees, Parents
    <3>2. PICK o \in Owners, i \in Idx :
            root[o] # Nil /\ Leads(root[o], i) /\ Below(root[o], i) = t
      BY <2>2, <3>1, Zenon
    <3> QED
      BY <1>2, <3>1, <3>2, Zenon
  <2> QED
    BY <1>4, <2>1, <2>3, <2>4, Zenon
<1> QED
  BY <1>3, <1>4, Zenon

\* The invariant says that no kernel page is lost or used twice.
LEMMA Exact ==
  ASSUME IInv
  PROVE  TablesExact
<1>0. TypeOK /\ Trees /\ LeafOk /\ TfOk /\ DataOk
  BY Zenon DEF IInv, Held
<1> USE <1>0
<1>1. {n \in KPages : role[n] \in {"root", "l1", "l0"}} = UNION {TablesOf(o) : o \in Owners}
  BY Reached, Zenon
<1>2. \A x \in Links : /\ x[1] \in KPages /\ x[2] \in Idx /\ x = <<x[1], x[2]>>
                       /\ role[x[1]] \in {"root", "l1"} /\ Leads(x[1], x[2])
  BY DEF Links
<1> USE <1>2
<1>3. \A x, y \in Links : Below(x[1], x[2]) = Below(y[1], y[2]) => x = y
  <2> SUFFICES ASSUME NEW x \in Links, NEW y \in Links, Below(x[1], x[2]) = Below(y[1], y[2])
               PROVE  x = y
    BY Zenon
  <2>1. x[1] = y[1] /\ x[2] = y[2]
    BY DEF Trees, OneParent
  <2> QED
    BY <2>1, Zenon
<1>4. \A x \in Links : role[Below(x[1], x[2])] = IF role[x[1]] = "root" THEN "l1" ELSE "l0"
  BY Zenon DEF Trees, Shape
<1>5. ASSUME job.op # "panic"
      PROVE  {n \in KPages : role[n] = "data"} =
               (MappedPas \cup {tf[p] : p \in Procs}) \cap KPages
  <2>1. \A o \in Owners, v \in Pages :
          Mapping[o][v].to \in KPages => role[Mapping[o][v].to] = "data"
    <3>1. Zero.to \notin KPages
      BY PageTableAssumption, Zenon DEF Zero
    <3> QED
      BY <3>1, PageTableAssumption, Zenon DEF LeafOk
  <2>2. \A p \in Procs : tf[p] \in KPages => role[tf[p]] = "data"
    BY PageTableAssumption, Zenon DEF TfOk, TfData
  <2>3. \A n \in KPages : role[n] = "data" =>
          n \in MappedPas \/ n \in {tf[p] : p \in Procs}
    BY <1>5 DEF DataOk, MappedPas
  <2> QED
    BY <2>1, <2>2, <2>3 DEF MappedPas
<1> QED
  BY <1>1, <1>3, <1>4, <1>5, Zenon DEF TablesExact

-----------------------------------------------------------------------------
(* The theorems. *)

\* One tree of tables per owner, and every mapped page mapped once and in use, through
\* every interleaving of create, fork and reap with the processes that grow and shrink.
THEOREM PtInvariant == PtSpec => []IInv
<1>1. PtInit => IInv
  BY InitKept, Zenon
<1>2. IInv /\ [PtNext]_ptVars => IInv'
  BY NextKept, Zenon DEF Kept
<1> QED
  BY <1>1, <1>2, PTL DEF PtSpec

\* The tables hold entries, the slots hold pages: no operation writes outside of them.
THEOREM PtTypeCorrect == PtSpec => []TypeOK
<1>1. IInv => TypeOK
  BY Zenon DEF IInv
<1> QED
  BY <1>1, PtInvariant, PTL

\* For any number of processes, pages and entries of a table: walk, map, unmap, copy and
\* destroy lose no kernel page, and use none for two purposes.
THEOREM NoTableLost == PtSpec => []TablesExact
<1>1. IInv => TablesExact
  BY Exact, Zenon
<1> QED
  BY <1>1, PtInvariant, PTL

\* For any number of processes, pages and entries of a table: the trees implement one
\* partial function per owner, in which a step changes one page or discards one owner's.
THEOREM Refinement == PtSpec => ImplementsMap
<1>1. PtInit => Map!Init
  BY InitKept, Zenon
<1>2. IInv /\ [PtNext]_ptVars => [Map!Next]_Mapping
  BY NextKept, Zenon DEF Kept
<1> QED
  BY <1>1, <1>2, PtInvariant, PTL DEF PtSpec, ImplementsMap, Map!Spec

-----------------------------------------------------------------------------
(* The layout of every process. *)

\* The slots whose pid stands for a kernel stack: a reaped process keeps its own
\* until Drop of KernelStack has run.
Holds(p) == root[p] # Nil \/ (job.op = "drop" /\ job.to = p)

\* The trampoline and the trapframe of a process, where its layout has them.
FixedAt(p) ==
  /\ Mapping[p][TrampVa] = Leaf(TrampPa, "tramp")
  /\ Mapping[p][TfVa] = Leaf(tf[p], "kernel")

\* A process that is not under construction has its fixed pages.
Fixed == \A p \in Procs : root[p] # Nil /\ p # job.to => FixedAt(p)

\* One that is has those that create or the copy of fork are done with.
Making ==
  job.op \in {"make", "stack", "unmap", "remap"} /\ job.to \in Procs =>
    /\ TrampVa \notin job.todo => Mapping[job.to][TrampVa] = Leaf(TrampPa, "tramp")
    /\ job.from = Kernel /\ TfVa \notin job.todo =>
         Mapping[job.to][TfVa] = Leaf(tf[job.to], "kernel")
    /\ job.op # "make" => job.todo = {}

\* Pids are handed out once; the latest is that of the process under construction.
Pids ==
  /\ pid[Kernel] = 0 /\ nextPid >= 1
  /\ \A p \in Procs : Holds(p) => pid[p] >= 1 /\ pid[p] < nextPid
  /\ \A p, q \in Procs : Holds(p) /\ Holds(q) /\ pid[p] = pid[q] => p = q
  /\ job.op = "boot" => nextPid = 1
  /\ job.op \in {"make", "stack"} => pid[job.to] = nextPid - 1

\* How many pids have had a stack made for them.
Stacked ==
  IF job.op \in {"boot", "make", "stack", "panic"} THEN nextPid - 1 ELSE nextPid

\* The kernel maps the trampoline and, below it, stacks of pids handed out, among them
\* those of all processes that have got so far.
Stacks ==
  /\ job.op # "boot" => Mapping[Kernel][TrampVa] = Leaf(TrampPa, "tramp")
  /\ \A v \in Pages : Mapping[Kernel][v] # Zero => v = TrampVa \/ v < KBase + Stacked
  /\ \A p \in Procs :
       Holds(p) /\ ~(job.to = p /\ job.op \in {"make", "stack", "panic"}) =>
         /\ KStack(pid[p]) < TrampVa
         /\ Mapping[Kernel][KStack(pid[p])].perm = "kernel"
         /\ Mapping[Kernel][KStack(pid[p])].kind = "leaf"

\* The stack of every pid below the trampoline could be made, and no other.
PanicExact ==
  job.op = "panic" <=> nextPid > TrampVa - KBase /\ job.op \notin {"make", "stack"}

Laid == Fixed /\ Making /\ Pids /\ Stacks /\ PanicExact

\* The addresses of the layout, as numbers.
LEMMA Numbers ==
  /\ TrampVa \in Nat /\ KBase \in Nat /\ KBase < TrampVa /\ MaxVa = TrampVa + 1
  /\ \A v : v \in Pages <=> v \in Nat /\ v <= TrampVa
  BY PageTableAssumption DEF TrampVa, Pages

\* The pid after the latest.
LEMMA NextNumber ==
  ASSUME NEW n \in Nat
  PROVE  /\ n + 1 >= 1 /\ n < n + 1 /\ (n + 1) - 1 = n
         /\ \A m \in Nat : m < n => m < n + 1 /\ m # n
  OBVIOUS

\* No page lies below itself.
LEMMA NotBelow ==
  ASSUME NEW n \in Nat
  PROVE  ~(n < n)
  OBVIOUS

\* No pid lies before the first.
LEMMA FirstNumber ==
  ASSUME NEW n \in Nat, n >= 1
  PROVE  ~(n < 1)
  OBVIOUS

\* A stack below the trampoline lies on a page.
LEMMA StackPages ==
  ASSUME TypeOK
  PROVE  \A p \in Procs : KStack(pid[p]) < TrampVa => KStack(pid[p]) \in Pages
<1>1. \A p \in Procs : p \in Owners /\ pid[p] \in Nat
  BY Places, Zenon DEF TypeOK
<1> QED
  BY <1>1, Numbers DEF KStack

\* Steps that leave the fixed pages, the stacks and the job alone.
LEMMA SameLaid ==
  ASSUME TypeOK, Laid, root' = root, tf' = tf, pid' = pid, nextPid' = nextPid, job' = job,
         \A w \in Pages : Mapping'[Kernel][w] = Mapping[Kernel][w],
         \A p \in Procs : /\ Mapping'[p][TrampVa] = Mapping[p][TrampVa]
                          /\ Mapping'[p][TfVa] = Mapping[p][TfVa]
  PROVE  Laid'
<1>1. Fixed' /\ Making'
  BY Zenon DEF Laid, Fixed, FixedAt, Making
<1>2. Pids' /\ PanicExact'
  BY Zenon DEF Laid, Pids, PanicExact, Holds
<1>3. Stacks'
  <2>1. Stacked' = Stacked /\ \A p \in Procs : (Holds(p))' <=> Holds(p)
    BY Zenon DEF Stacked, Holds
  <2>2. TrampVa \in Pages
    BY Places, Zenon
  <2>3. \A p \in Procs : KStack(pid[p]) < TrampVa => KStack(pid[p]) \in Pages
    BY StackPages, Zenon
  <2> QED
    BY <2>1, <2>2, <2>3, Zenon DEF Laid, Stacks
<1> QED
  BY <1>1, <1>2, <1>3, Zenon DEF Laid

\* Grow maps a page between the fixed ones.
LEMMA GrowLaid ==
  ASSUME IInv, Laid, NEW p \in Procs, NEW v \in UserVas, Grow(p, v)
  PROVE  Laid'
<1>0. /\ TypeOK /\ Trees /\ Held
      /\ p \in Owners /\ p # Kernel /\ v \in Pages /\ v # TfVa /\ v # TrampVa
  <2>1. v # TrampVa
    BY PageTableAssumption DEF UserVas, TrampVa, CodeVa
  <2> QED
    BY <2>1, Places, Zenon DEF IInv
<1> USE <1>0
<1>1. PICK f \in UPages : MapPage(p, v, Leaf(f, "user"), {})
  BY Zenon DEF Grow
<1>2. /\ root' = root /\ tf' = tf /\ pid' = pid /\ nextPid' = nextPid /\ job' = job
      /\ root[p] # Nil
  BY Zenon DEF Grow, Runs, Started
<1> DEFINE pte == Leaf(f, "user")
<1>3. pte \in Leaves /\ pte.to = f /\ f \notin KPages
  BY LeafFacts, PageTableAssumption, Zenon DEF Pas, Perms
<1> HIDE DEF pte
<1>4. Gives(p, v, pte, {})
  BY <1>1, <1>2, <1>3, MapStep, Zenon DEF pte
<1>5. \A q \in Owners, w \in Pages : ~(q = p /\ w = v) => Mapping'[q][w] = Mapping[q][w]
  BY <1>4, Zenon DEF Gives
<1> QED
  BY <1>2, <1>5, Places, SameLaid, Zenon

\* Shrink unmaps a page between the fixed ones.
LEMMA ShrinkLaid ==
  ASSUME IInv, Laid, NEW p \in Procs, NEW v \in UserVas, Shrink(p, v)
  PROVE  Laid'
<1>0. /\ TypeOK /\ Trees /\ Held /\ LeafOk /\ OneLeaf
      /\ p \in Owners /\ p # Kernel /\ v \in Pages /\ v # TfVa /\ v # TrampVa
  <2>1. v # TrampVa
    BY PageTableAssumption DEF UserVas, TrampVa, CodeVa
  <2> QED
    BY <2>1, Places, Zenon DEF IInv, Held
<1> USE <1>0
<1>1. /\ root' = root /\ tf' = tf /\ pid' = pid /\ nextPid' = nextPid /\ job' = job
      /\ root[p] # Nil /\ UnmapPage(p, v)
  BY Zenon DEF Shrink, Runs, Started
<1>2. Takes(p, v)
  BY <1>1, TakeKeeps, Zenon
<1>3. \A q \in Owners, w \in Pages : ~(q = p /\ w = v) => Mapping'[q][w] = Mapping[q][w]
  BY <1>2, Zenon DEF Takes
<1> QED
  BY <1>1, <1>3, Places, SameLaid, Zenon

\* The kernel gets its trampoline.
LEMMA BootLaid ==
  ASSUME IInv, Laid, BootTramp
  PROVE  Laid'
<1>0. /\ TypeOK /\ Trees /\ Held /\ JobOk /\ Fixed /\ Pids /\ Stacks
      /\ Kernel \in Owners /\ TrampVa \in Pages
  BY Places, Zenon DEF IInv, Held, Laid
<1> USE <1>0
<1>1. /\ job.op = "boot" /\ MapPage(Kernel, TrampVa, Leaf(TrampPa, "tramp"), {})
      /\ job' = Job("stack", Kernel, Kernel, {})
      /\ root' = root /\ ufree' = ufree /\ tf' = tf /\ pid' = pid /\ nextPid' = nextPid
  BY Zenon DEF BootTramp
<1> USE <1>1
<1>2. /\ job'.op = "stack" /\ job'.from = Kernel /\ job'.to = Kernel /\ job'.todo = {}
      /\ job.to = Kernel
  BY Zenon DEF Job, JobOk
<1> USE <1>2
<1> DEFINE pte == Leaf(TrampPa, "tramp")
<1>3. pte \in Leaves /\ pte.to = TrampPa /\ TrampPa \notin KPages
  BY LeafFacts, PageTableAssumption, Zenon DEF Pas, Perms
<1> HIDE DEF pte
<1>4. Gives(Kernel, TrampVa, pte, {})
  <2>1. root[Kernel] # Nil
    BY Zenon DEF TypeOK
  <2> QED
    BY <1>3, <2>1, MapStep, Zenon DEF pte
<1>5. \A q \in Owners, w \in Pages :
        Mapping'[q][w] = IF q = Kernel /\ w = TrampVa THEN pte ELSE Mapping[q][w]
  BY <1>4, Zenon DEF Gives
<1> USE <1>5
<1>6. Fixed'
  <2> SUFFICES ASSUME NEW p \in Procs, root[p] # Nil PROVE (FixedAt(p))'
    BY Zenon DEF Fixed
  <2>1. p \in Owners /\ p # Kernel
    BY Places, Zenon
  <2>2. FixedAt(p)
    BY <2>1, Zenon DEF Fixed
  <2>3. Mapping'[p][TrampVa] = Mapping[p][TrampVa] /\ Mapping'[p][TfVa] = Mapping[p][TfVa]
    BY <2>1, Places, Zenon
  <2> QED
    BY <2>2, <2>3, Zenon DEF FixedAt
<1>7. Making'
  BY Places, Zenon DEF Making
<1>8. Pids'
  <2>1. pid[Kernel] = 0 /\ nextPid = 1
    BY Zenon DEF Pids
  <2>2. pid[Kernel] = nextPid - 1
    BY <2>1
  <2>3. \A p \in Procs : (Holds(p))' <=> Holds(p)
    BY Zenon DEF Holds
  <2> QED
    BY <2>1, <2>2, <2>3, Zenon DEF Pids
<1>9. Stacks'
  <2>1. \A p \in Procs : ~Holds(p)
    <3> SUFFICES ASSUME NEW p \in Procs, Holds(p) PROVE FALSE
      BY Zenon
    <3>1. pid[p] >= 1 /\ pid[p] < 1
      BY Zenon DEF Pids
    <3>2. pid[p] \in Nat
      BY Places, Zenon DEF TypeOK
    <3> QED
      BY <3>1, <3>2, FirstNumber, Zenon
  <2>2. Stacked' = Stacked
    BY Zenon DEF Stacked
  <2>3. \A p \in Procs : ~(Holds(p))'
    BY <2>1, Zenon DEF Holds
  <2> QED
    BY <2>2, <2>3, Zenon DEF Stacks, pte
<1> QED
  BY <1>6, <1>7, <1>8, <1>9, Zenon DEF Laid, PanicExact

\* The new process gets the latest pid, and no pages yet.
LEMMA NewRootLaid ==
  ASSUME IInv, Laid, NEW from \in Owners, NEW q \in Procs, NewRoot(from, q)
  PROVE  Laid'
<1>0. /\ TypeOK /\ Trees /\ Fixed /\ Pids /\ Stacks /\ PanicExact
      /\ q \in Owners /\ q # Kernel /\ q # Nil /\ TrampVa \in Pages
  BY Places, Zenon DEF IInv, Laid
<1> USE <1>0
<1> DEFINE todo == IF from = Kernel THEN {TrampVa, TfVa, CodeVa}
                   ELSE {v \in Pages : Translate(root[from], v).kind = "leaf"}
<1>1. /\ job = Idle /\ root[q] = Nil /\ root[from] # Nil
      /\ pid' = [pid EXCEPT ![q] = nextPid] /\ nextPid' = nextPid + 1
      /\ job' = Job("make", from, q, todo) /\ ufree' = ufree /\ tf' = tf
  BY Zenon DEF NewRoot, Started
<1> USE <1>1
<1>2. PICK n \in KPages :
        /\ role[n] = "free"
        /\ entry' = [entry EXCEPT ![n] = Cleared]
        /\ role' = [role EXCEPT ![n] = "root"]
        /\ root' = [root EXCEPT ![q] = n]
  BY Zenon DEF NewRoot, Lowest, Free
<1>3. job.op = "idle" /\ job.to = Nil
  BY Zenon DEF Idle, Job
<1>4. TrampVa \in todo /\ (from = Kernel => TfVa \in todo)
  <2>1. CASE from = Kernel
    BY <2>1, Zenon
  <2>2. CASE from # Kernel
    <3>1. from \in Procs /\ from # Nil
      BY <2>2, Places, Zenon DEF Owners
    <3>2. Mapping[from][TrampVa] = Leaf(TrampPa, "tramp")
      BY <1>3, <3>1, Zenon DEF Fixed, FixedAt
    <3>3. Translate(root[from], TrampVa).kind = "leaf"
      <4>1. Translate(root[from], TrampVa) = Leaf(TrampPa, "tramp")
        BY <3>2, Mapped, Zenon
      <4>2. Leaf(TrampPa, "tramp").kind = "leaf"
        BY Zenon DEF Leaf
      <4> QED
        BY <4>1, <4>2
    <3> QED
      BY <2>2, <3>3, Zenon
  <2> QED
    BY <2>1, <2>2, Zenon
<1> HIDE DEF todo
<1>5. job'.op = "make" /\ job'.from = from /\ job'.to = q /\ job'.todo = todo
  BY Zenon DEF Job
<1>6. \A o \in Owners, w \in Pages : Mapping'[o][w] = Mapping[o][w]
  BY <1>2, NewRootStep, Zenon
<1>7. \A o \in Owners : o # q => root'[o] = root[o] /\ pid'[o] = pid[o]
  BY <1>2, Zenon DEF TypeOK
<1>8. pid'[q] = nextPid /\ nextPid \in Nat
  BY Zenon DEF TypeOK
<1>a. /\ nextPid' >= 1 /\ nextPid < nextPid' /\ nextPid' - 1 = nextPid
      /\ \A m \in Nat : m < nextPid => m < nextPid' /\ m # nextPid
  BY <1>8, NextNumber, Zenon
<1>9. Fixed'
  <2> SUFFICES ASSUME NEW p \in Procs, root'[p] # Nil, p # q PROVE (FixedAt(p))'
    BY <1>5, Zenon DEF Fixed
  <2>1. FixedAt(p)
    BY <1>3, <1>7, Places, Zenon DEF Fixed
  <2> QED
    BY <1>6, <2>1, Places, Zenon DEF FixedAt
<1>10. Making'
  BY <1>4, <1>5, Zenon DEF Making
<1>11. \A p \in Procs : p # q /\ (Holds(p))' => Holds(p) /\ pid'[p] = pid[p]
  BY <1>5, <1>7, Places, Zenon DEF Holds
<1>12. \A p \in Procs : pid[p] \in Nat /\ p \in Owners
  BY Places, Zenon DEF TypeOK
<1>13. Pids'
  <2>1. pid'[Kernel] = 0 /\ nextPid' >= 1
    BY <1>7, <1>a, Places, Zenon DEF Pids
  <2>2. \A p \in Procs : (Holds(p))' => pid'[p] >= 1 /\ pid'[p] < nextPid'
    <3>1. nextPid >= 1 /\ \A p \in Procs : Holds(p) => pid[p] >= 1 /\ pid[p] < nextPid
      BY Zenon DEF Pids
    <3> QED
      BY <1>8, <1>a, <1>11, <1>12, <3>1, Zenon
  <2>3. \A p, r \in Procs : (Holds(p))' /\ (Holds(r))' /\ pid'[p] = pid'[r] => p = r
    <3>1. \A p \in Procs : Holds(p) => pid[p] < nextPid
      BY Zenon DEF Pids
    <3>2. \A p \in Procs : p # q /\ (Holds(p))' => pid'[p] # nextPid
      BY <1>a, <1>11, <1>12, <3>1, Zenon
    <3> QED
      BY <1>8, <1>11, <3>2, Zenon DEF Pids
  <2>4. pid'[job'.to] = nextPid' - 1
    BY <1>5, <1>8, <1>a, Zenon
  <2> QED
    BY <1>5, <2>1, <2>2, <2>3, <2>4, Zenon DEF Pids
<1>14. Stacks'
  <2>1. Stacked' = Stacked
    <3>1. Stacked = nextPid
      BY <1>3, Zenon DEF Stacked
    <3>2. Stacked' = nextPid' - 1
      BY <1>5, Zenon DEF Stacked
    <3> QED
      BY <1>a, <3>1, <3>2, Zenon
  <2>2. \A p \in Procs : KStack(pid[p]) < TrampVa => KStack(pid[p]) \in Pages
    BY StackPages, Zenon
  <2>3. \A p \in Procs : (Holds(p))' /\ p # q =>
          /\ (KStack(pid[p]))' = KStack(pid[p]) /\ KStack(pid[p]) < TrampVa
          /\ Mapping[Kernel][KStack(pid[p])].perm = "kernel"
          /\ Mapping[Kernel][KStack(pid[p])].kind = "leaf"
    BY <1>3, <1>11, Places, Zenon DEF Stacks, KStack
  <2> QED
    <3>1. Mapping'[Kernel][TrampVa] = Leaf(TrampPa, "tramp")
      BY <1>3, <1>6, Places, Zenon DEF Stacks
    <3>2. \A w \in Pages : Mapping'[Kernel][w] # Zero => w = TrampVa \/ w < KBase + Stacked'
      BY <1>6, <2>1, Places, Zenon DEF Stacks
    <3>3. \A p \in Procs : (Holds(p))' /\ p # q =>
            /\ (KStack(pid[p]))' < TrampVa
            /\ Mapping'[Kernel][(KStack(pid[p]))'].perm = "kernel"
            /\ Mapping'[Kernel][(KStack(pid[p]))'].kind = "leaf"
      <4> SUFFICES ASSUME NEW p \in Procs, (Holds(p))', p # q
                   PROVE  /\ (KStack(pid[p]))' < TrampVa
                          /\ Mapping'[Kernel][(KStack(pid[p]))'].perm = "kernel"
                          /\ Mapping'[Kernel][(KStack(pid[p]))'].kind = "leaf"
        BY Zenon
      <4>1. (KStack(pid[p]))' = KStack(pid[p]) /\ KStack(pid[p]) \in Pages
        BY <2>2, <2>3, Zenon
      <4>2. Mapping'[Kernel][KStack(pid[p])] = Mapping[Kernel][KStack(pid[p])]
        BY <1>6, <4>1, Places, Zenon
      <4> QED
        BY <2>3, <4>1, <4>2, Zenon
    <3> QED
      BY <1>5, <3>1, <3>2, <3>3, Zenon DEF Stacks
<1> QED
  BY <1>5, <1>9, <1>10, <1>13, <1>14, Zenon DEF Laid, PanicExact

\* What stays of the stacks while the kernel's table does, and with it the pids.
LEMMA SameStacks ==
  ASSUME TypeOK, Stacks, pid' = pid, nextPid' = nextPid, Stacked' = Stacked,
         job.op # "boot", job'.op # "boot",
         \A p \in Procs :
           (Holds(p))' /\ ~(job'.to = p /\ job'.op \in {"make", "stack", "panic"}) =>
             Holds(p) /\ ~(job.to = p /\ job.op \in {"make", "stack", "panic"}),
         \A w \in Pages : Mapping'[Kernel][w] = Mapping[Kernel][w]
  PROVE  Stacks'
<1>1. \A p \in Procs : KStack(pid[p]) < TrampVa => KStack(pid[p]) \in Pages
  BY StackPages, Zenon
<1>2. TrampVa \in Pages
  BY Places, Zenon
<1> QED
  BY <1>1, <1>2, Zenon DEF Stacks

\* A page of a new table.
LEMMA MakeLaid ==
  ASSUME TypeOK, JobOk, Laid, job.op = "make", NEW v \in job.todo, NEW pte,
         job' = [job EXCEPT !.todo = @ \ {v}],
         root' = root, pid' = pid, nextPid' = nextPid,
         \A q \in Owners, w \in Pages :
           Mapping'[q][w] = IF q = job.to /\ w = v THEN pte ELSE Mapping[q][w],
         v = TrampVa => pte = Leaf(TrampPa, "tramp"),
         job.from = Kernel =>
           IF v = TfVa THEN pte = Leaf(tf'[job.to], "kernel") ELSE tf'[job.to] = tf[job.to],
         \A p \in Procs : p # job.to => tf'[p] = tf[p]
  PROVE  Laid'
<1>0. Fixed /\ Making /\ Pids /\ Stacks /\ v \in Pages
  BY Zenon DEF Laid, TypeOK
<1> USE <1>0
<1>1. PICK q \in Procs : q = job.to
  BY Zenon DEF JobOk
<1> USE <1>1
<1>2. job'.op = "make" /\ job'.from = job.from /\ job'.to = q /\ job'.todo = job.todo \ {v}
  BY Zenon DEF TypeOK
<1> USE <1>2
<1>3. q \in Owners /\ q # Kernel /\ TrampVa \in Pages /\ TfVa \in Pages
  BY Places, Zenon
<1>4. Fixed'
  <2> SUFFICES ASSUME NEW p \in Procs, root[p] # Nil, p # q PROVE (FixedAt(p))'
    BY Zenon DEF Fixed
  <2>1. FixedAt(p) /\ tf'[p] = tf[p] /\ p \in Owners
    BY Places, Zenon DEF Fixed
  <2>2. Mapping'[p][TrampVa] = Mapping[p][TrampVa] /\ Mapping'[p][TfVa] = Mapping[p][TfVa]
    BY <1>3, <2>1, Zenon
  <2> QED
    BY <2>1, <2>2, Zenon DEF FixedAt
<1>5. Making'
  <2>1. ASSUME TrampVa \notin job.todo \ {v}
        PROVE  Mapping'[q][TrampVa] = Leaf(TrampPa, "tramp")
    <3>1. CASE v = TrampVa
      BY <1>3, <3>1, Zenon
    <3>2. CASE v # TrampVa
      <4>1. Mapping'[q][TrampVa] = Mapping[q][TrampVa] /\ TrampVa \notin job.todo
        BY <1>3, <2>1, <3>2, Zenon
      <4> QED
        BY <4>1 DEF Making
    <3> QED
      BY <3>1, <3>2, Zenon
  <2>2. ASSUME job.from = Kernel, TfVa \notin job.todo \ {v}
        PROVE  Mapping'[q][TfVa] = Leaf(tf'[q], "kernel")
    <3>1. CASE v = TfVa
      BY <1>3, <2>2, <3>1, Zenon
    <3>2. CASE v # TfVa
      <4>1. /\ Mapping'[q][TfVa] = Mapping[q][TfVa] /\ TfVa \notin job.todo
            /\ tf'[q] = tf[q]
        BY <1>3, <2>2, <3>2, Zenon
      <4> QED
        BY <2>2, <4>1 DEF Making
    <3> QED
      BY <3>1, <3>2, Zenon
  <2> QED
    BY <2>1, <2>2, Zenon DEF Making
<1>6. Pids'
  BY Zenon DEF Pids, Holds
<1>7. Stacks'
  <2>1. Stacked' = Stacked
    BY Zenon DEF Stacked
  <2>2. \A p \in Procs : (Holds(p))' <=> Holds(p)
    BY Zenon DEF Holds
  <2>3. \A w \in Pages : Mapping'[Kernel][w] = Mapping[Kernel][w]
    BY <1>3, Places, Zenon
  <2> QED
    BY <2>1, <2>2, <2>3, SameStacks, Zenon
<1> QED
  BY <1>4, <1>5, <1>6, <1>7, Zenon DEF Laid, PanicExact

\* create and the copy of fork give the trampoline its place, and create the trapframe.
LEMMA MakePageLaid ==
  ASSUME IInv, Laid, NEW v \in Pages, MakePage(v)
  PROVE  Laid'
<1>0. TypeOK /\ Trees /\ Held /\ TfOk /\ JobOk /\ Fixed
  BY Zenon DEF IInv, Held, Laid
<1> USE <1>0
<1>1. /\ job.op = "make" /\ v \in job.todo /\ job' = [job EXCEPT !.todo = @ \ {v}]
      /\ root' = root /\ pid' = pid /\ nextPid' = nextPid
  BY Zenon DEF MakePage, Highest, Lowest
<1> USE <1>1
<1>2. /\ job.from = Kernel => (Source(v).perm = "kernel" <=> v = TfVa)
      /\ Source(v).perm = "kernel" => v = TfVa
  BY SourceFacts, Zenon
<1>3. v = TrampVa => Source(v).perm = "tramp"
  <2>1. CASE job.from = Kernel
    BY <2>1, Zenon DEF Source, Leaf
  <2>2. CASE job.from # Kernel
    <3>1. job.from \in Procs /\ root[job.from] # Nil /\ job.from # job.to
      BY <2>2, Zenon DEF JobOk, Owners
    <3>2. Mapping[job.from][TrampVa] = Leaf(TrampPa, "tramp")
      BY <3>1, Zenon DEF Fixed, FixedAt
    <3>3. v = TrampVa => Source(v) = Mapping[job.from][TrampVa]
      BY <2>2, <3>1, Mapped, Places, ZenonT(40) DEF Source
    <3>4. Leaf(TrampPa, "tramp").perm = "tramp"
      BY Zenon DEF Leaf
    <3> QED
      BY <3>2, <3>3, <3>4
  <2> QED
    BY <2>1, <2>2, Zenon
<1>4. job.to \in Procs /\ job.to \in Owners /\ root[job.to] # Nil
  BY Places, Zenon DEF JobOk
<1> USE <1>4
<1>5. CASE /\ Source(v).perm = "user"
           /\ \E f \in UPages : MapPage(job.to, v, Leaf(f, "user"), {})
           /\ tf' = tf
  <2>1. PICK f \in UPages : MapPage(job.to, v, Leaf(f, "user"), {})
    BY <1>5, Zenon
  <2> DEFINE pte == Leaf(f, "user")
  <2>2. pte \in Leaves /\ pte.to = f /\ f \notin KPages
    BY LeafFacts, PageTableAssumption, Zenon DEF Pas, Perms
  <2> HIDE DEF pte
  <2>3. Gives(job.to, v, pte, {})
    BY <2>1, <2>2, MapStep, Zenon DEF pte
  <2>4. \A q \in Owners, w \in Pages :
          Mapping'[q][w] = IF q = job.to /\ w = v THEN pte ELSE Mapping[q][w]
    BY <2>3, Zenon DEF Gives
  <2>5. v # TrampVa /\ (job.from = Kernel => v # TfVa)
    BY <1>2, <1>3, <1>5, Zenon
  <2> QED
    BY <1>5, <2>4, <2>5, MakeLaid
<1>6. CASE /\ Source(v).perm = "tramp"
           /\ MapPage(job.to, v, Leaf(TrampPa, "tramp"), {})
           /\ tf' = tf
  <2> DEFINE pte == Leaf(TrampPa, "tramp")
  <2>1. pte \in Leaves /\ pte.to = TrampPa /\ TrampPa \notin KPages
    BY LeafFacts, PageTableAssumption, Zenon DEF Pas, Perms
  <2>2. v = TrampVa => pte = Leaf(TrampPa, "tramp")
    BY Zenon
  <2> HIDE DEF pte
  <2>3. Gives(job.to, v, pte, {})
    BY <1>6, <2>1, MapStep, Zenon DEF pte
  <2>4. \A q \in Owners, w \in Pages :
          Mapping'[q][w] = IF q = job.to /\ w = v THEN pte ELSE Mapping[q][w]
    BY <2>3, Zenon DEF Gives
  <2>5. job.from = Kernel => v # TfVa
    BY <1>2, <1>6, Zenon
  <2> QED
    BY <1>6, <2>2, <2>4, <2>5, MakeLaid
<1>7. CASE /\ Source(v).perm = "kernel"
           /\ \E d \in KPages :
                /\ Lowest(d, Free)
                /\ tf' = IF job.from = Kernel THEN [tf EXCEPT ![job.to] = d] ELSE tf
                /\ MapPage(job.to, v, Leaf(d, "kernel"),
                           IF job.from = Kernel THEN {tf[job.to]} ELSE {})
  <2>1. PICK d \in KPages :
          /\ role[d] = "free"
          /\ tf' = IF job.from = Kernel THEN [tf EXCEPT ![job.to] = d] ELSE tf
          /\ MapPage(job.to, v, Leaf(d, "kernel"),
                     IF job.from = Kernel THEN {tf[job.to]} ELSE {})
    BY <1>7, Zenon DEF Lowest, Free
  <2> DEFINE pte == Leaf(d, "kernel")
             gone == IF job.from = Kernel THEN {tf[job.to]} ELSE {}
  <2>2. pte \in Leaves /\ pte.to = d
    BY LeafFacts, Zenon DEF Pas, Perms
  <2>3. \A n \in KPages : n \in gone => role[n] = "data"
    BY PageTableAssumption, Zenon DEF TfOk, TfData
  <2>4. MapPage(job.to, v, pte, gone)
    BY <2>1, Zenon
  <2>5. /\ job.from = Kernel => tf'[job.to] = d
        /\ \A p \in Procs : p # job.to => tf'[p] = tf[p]
    BY <2>1, Zenon DEF TypeOK
  <2>6. job.from = Kernel => pte = Leaf(tf'[job.to], "kernel")
    BY <2>5, Zenon
  <2> HIDE DEF pte, gone
  <2>7. Gives(job.to, v, pte, gone)
    BY <2>1, <2>2, <2>3, <2>4, MapStep, Zenon
  <2>8. \A q \in Owners, w \in Pages :
          Mapping'[q][w] = IF q = job.to /\ w = v THEN pte ELSE Mapping[q][w]
    BY <2>7, Zenon DEF Gives
  <2>9. v = TfVa /\ v # TrampVa
    BY <1>2, <1>7, Places, Zenon
  <2> QED
    BY <2>5, <2>6, <2>8, <2>9, MakeLaid
<1> QED
  <2>1. \/ /\ Source(v).perm = "user"
           /\ \E f \in UPages : MapPage(job.to, v, Leaf(f, "user"), {})
           /\ tf' = tf
        \/ /\ Source(v).perm = "tramp"
           /\ MapPage(job.to, v, Leaf(TrampPa, "tramp"), {})
           /\ tf' = tf
        \/ /\ Source(v).perm = "kernel"
           /\ \E d \in KPages :
                /\ Lowest(d, Free)
                /\ tf' = IF job.from = Kernel THEN [tf EXCEPT ![job.to] = d] ELSE tf
                /\ MapPage(job.to, v, Leaf(d, "kernel"),
                           IF job.from = Kernel THEN {tf[job.to]} ELSE {})
    BY Zenon DEF MakePage
  <2> QED
    BY <1>5, <1>6, <1>7, <2>1, Zenon

\* The pages of the new table are all there; fork has the trapframe yet to map.
LEMMA MadeLaid ==
  ASSUME IInv, Laid, Made
  PROVE  Laid'
<1>0. /\ TypeOK /\ Trees /\ TfOk /\ JobOk /\ Fixed /\ Making /\ Pids /\ Stacks
      /\ job.op = "make" /\ job.todo = {} /\ job' = [job EXCEPT !.op = "stack"]
      /\ root' = root /\ pid' = pid /\ nextPid' = nextPid
  BY Zenon DEF IInv, Held, Laid, Made
<1> USE <1>0
<1>1. PICK q \in Procs : q = job.to
  BY Zenon DEF JobOk
<1>2. job'.op = "stack" /\ job'.from = job.from /\ job'.to = q /\ job'.todo = {}
  BY <1>1, Zenon DEF TypeOK
<1>3. /\ \A o \in Owners, w \in Pages : Mapping'[o][w] = Mapping[o][w]
      /\ \A p \in Procs : p # q => tf'[p] = tf[p]
      /\ job.from = Kernel => tf' = tf
  <2>1. CASE job.from = Kernel
    <3>1. entry' = entry /\ role' = role /\ tf' = tf
      BY <2>1, Zenon DEF Made
    <3> QED
      BY <3>1, AsideStep, Zenon
  <2>2. CASE job.from # Kernel
    <3>1. PICK d \in KPages :
            /\ role[d] = "free"
            /\ tf' = [tf EXCEPT ![q] = d]
            /\ entry' = [entry EXCEPT ![d] = Junk]
            /\ role' = [n \in KPages |-> IF n = d THEN "data"
                                         ELSE IF n = tf[q] THEN "free" ELSE role[n]]
      BY <1>1, <2>2 DEF Made, Lowest, Free
    <3>2. \A t \in KPages : role[t] \in {"root", "l1", "l0"} => t # d /\ t # tf[q]
      BY <3>1, PageTableAssumption DEF TfOk, TfData
    <3>3. \A t \in KPages : /\ role[t] \in {"root", "l1", "l0"} =>
                                 entry'[t] = entry[t] /\ role'[t] = role[t]
                            /\ role'[t] \in {"root", "l1", "l0"} => role'[t] = role[t]
      BY <3>1, <3>2, Zenon DEF TypeOK
    <3>4. \A o \in Owners, w \in Pages : Mapping'[o][w] = Mapping[o][w]
      BY <3>3, AsideStep, Zenon
    <3> QED
      BY <2>2, <3>1, <3>4, Zenon DEF TypeOK
  <2> QED
    BY <2>1, <2>2, Zenon
<1>4. Fixed'
  BY <1>1, <1>2, <1>3, Places, Zenon DEF Fixed, FixedAt
<1>5. Making'
  <2>1. /\ Mapping[q][TrampVa] = Leaf(TrampPa, "tramp")
        /\ job.from = Kernel => Mapping[q][TfVa] = Leaf(tf[q], "kernel")
    BY <1>1 DEF Making
  <2>2. Mapping'[q][TrampVa] = Mapping[q][TrampVa] /\ Mapping'[q][TfVa] = Mapping[q][TfVa]
    BY <1>3, Places, Zenon
  <2> QED
    BY <1>2, <1>3, <2>1, <2>2 DEF Making
<1>6. Pids'
  BY <1>1, <1>2, Zenon DEF Pids, Holds
<1>7. Stacks'
  <2>1. Stacked' = Stacked
    BY <1>2, Zenon DEF Stacked
  <2>2. \A p \in Procs : (Holds(p))' <=> Holds(p)
    BY <1>2, Zenon DEF Holds
  <2>3. \A w \in Pages : Mapping'[Kernel][w] = Mapping[Kernel][w]
    BY <1>3, Places, Zenon
  <2> QED
    BY <1>1, <1>2, <2>1, <2>2, <2>3, SameStacks, Zenon
<1> QED
  BY <1>2, <1>4, <1>5, <1>6, <1>7, Zenon DEF Laid, PanicExact

\* The stack of a new process: it is refused only where the trampoline is, or above.
LEMMA MakeStackLaid ==
  ASSUME IInv, Laid, MakeStack
  PROVE  Laid'
<1> DEFINE v == KStack(pid[job.to])
<1>0. /\ TypeOK /\ Trees /\ Held /\ JobOk /\ Fixed /\ Making /\ Pids /\ Stacks
      /\ Kernel \in Owners /\ job.op = "stack" /\ root[Kernel] # Nil
  BY Places, Zenon DEF IInv, Held, Laid, MakeStack, TypeOK
<1> USE <1>0
<1>1. /\ job.to \in Owners /\ job.todo = {} /\ pid[job.to] = nextPid - 1
      /\ job.from # Kernel => job.to \in Procs
  BY Zenon DEF JobOk, Pids
<1>2. root' = root /\ tf' = tf /\ pid' = pid /\ nextPid' = nextPid
  BY Zenon DEF MakeStack
<1> USE <1>2
<1>3. PICK d \in KPages :
        /\ role[d] = "free"
        /\ \/ /\ MapPage(Kernel, v, Leaf(d, "kernel"), {})
              /\ job' = IF job.from = Kernel THEN Idle ELSE [job EXCEPT !.op = "unmap"]
           \/ /\ ~Accepts(root[Kernel], v, d)
              /\ entry' = [entry EXCEPT ![d] = Junk]
              /\ role' = [role EXCEPT ![d] = "data"]
              /\ job' = [job EXCEPT !.op = "panic"]
  BY Zenon DEF MakeStack, Lowest, Free
<1>4. v \in Nat /\ v = KBase + (nextPid - 1) /\ nextPid \in Nat /\ nextPid >= 1
  BY <1>1, Numbers DEF TypeOK, KStack, Pids
<1>5. Stacked = nextPid - 1
  BY Zenon DEF Stacked
<1>6. Mapping[Kernel][TrampVa] = Leaf(TrampPa, "tramp") /\ TrampVa \in Pages
  BY Places, ZenonT(40) DEF Stacks
<1>7. \A w \in Pages : w = v /\ w # TrampVa => Mapping[Kernel][w] = Zero
  <2>1. KBase + Stacked = v /\ ~(v < v)
    <3>1. ~(v < v)
      BY <1>4, NotBelow, Zenon
    <3> QED
      BY <3>1, <1>4, <1>5, Zenon
  <2> QED
    BY <2>1, Zenon DEF Stacks
<1>8. \A p \in Procs : pid[p] \in Nat /\ p \in Owners /\ p # Kernel /\ p # Nil
  BY Places, Zenon DEF TypeOK
<1>9. CASE /\ MapPage(Kernel, v, Leaf(d, "kernel"), {})
           /\ job' = IF job.from = Kernel THEN Idle ELSE [job EXCEPT !.op = "unmap"]
  <2>1. v < MaxVa /\ Accepts(root[Kernel], v, d)
    BY <1>9, LeafFacts, Zenon DEF MapPage, Accepts, Pas, Perms
  <2>2. v \in Pages
    BY <1>4, <2>1, Numbers
  <2>3. v # TrampVa
    <3>1. ASSUME v = TrampVa PROVE FALSE
      <4>1. Translate(root[Kernel], v) = Leaf(TrampPa, "tramp")
        BY <1>6, <3>1, Mapped, Zenon
      <4>2. Leaf(TrampPa, "tramp").kind = "leaf" /\ Leaf(TrampPa, "tramp").to = TrampPa
        BY Zenon DEF Leaf
      <4>3. d = TrampPa
        BY <2>1, <4>1, <4>2 DEF Accepts
      <4> QED
        BY <4>3, PageTableAssumption, Zenon
    <3> QED
      BY <3>1, Zenon
  <2>4. v < TrampVa
    BY <2>2, <2>3, <1>4, Numbers
  <2>5. \/ job.from = Kernel /\ job'.op = "idle" /\ job'.to = Nil
        \/ /\ job.from # Kernel /\ job'.op = "unmap" /\ job'.from = job.from
           /\ job'.to = job.to /\ job'.todo = {}
    BY <1>1, <1>9, Zenon DEF TypeOK, Idle, Job
  <2> DEFINE pte == Leaf(d, "kernel")
  <2>6. pte \in Leaves /\ pte.to = d /\ pte.perm = "kernel" /\ pte.kind = "leaf"
    BY LeafFacts, Zenon DEF Pas, Perms, Leaf
  <2>7. MapPage(Kernel, v, pte, {})
    BY <1>9, Zenon
  <2> HIDE DEF v, pte
  <2>8. Gives(Kernel, v, pte, {})
    BY <1>3, <2>2, <2>6, <2>7, MapStep, Zenon
  <2>9. \A q \in Owners, w \in Pages :
          Mapping'[q][w] = IF q = Kernel /\ w = v THEN pte ELSE Mapping[q][w]
    BY <2>8, Zenon DEF Gives
  <2>10. Fixed'
    <3> SUFFICES ASSUME NEW p \in Procs, root[p] # Nil, p # job'.to PROVE (FixedAt(p))'
      BY Zenon DEF Fixed
    <3>1. FixedAt(p)
      <4>1. CASE p = job.to
        <5>1. job.from = Kernel
          BY <2>5, <4>1, Zenon
        <5> QED
          BY <1>1, <4>1, <5>1, Zenon DEF Making, FixedAt
      <4>2. CASE p # job.to
        BY <4>2, Zenon DEF Fixed
      <4> QED
        BY <4>1, <4>2, Zenon
    <3>2. /\ Mapping'[p][TrampVa] = Mapping[p][TrampVa]
          /\ Mapping'[p][TfVa] = Mapping[p][TfVa]
      BY <1>8, <2>9, Places, Zenon
    <3> QED
      BY <3>1, <3>2, Zenon DEF FixedAt
  <2>11. Making'
    <3> SUFFICES ASSUME job'.op \in {"unmap"}, job'.to \in Procs
                 PROVE  /\ Mapping'[job.to][TrampVa] = Leaf(TrampPa, "tramp")
                        /\ job.from # Kernel /\ job'.from = job.from
                        /\ job'.to = job.to /\ job'.todo = {}
      BY <2>5, Zenon DEF Making
    <3>1. job.from # Kernel /\ job'.from = job.from /\ job'.to = job.to /\ job'.todo = {}
      BY <2>5
    <3>2. Mapping[job.to][TrampVa] = Leaf(TrampPa, "tramp")
      BY <1>1, <3>1, Zenon DEF Making
    <3>3. Mapping'[job.to][TrampVa] = Mapping[job.to][TrampVa]
      BY <1>1, <1>6, <1>8, <2>9, <3>1, Zenon
    <3> QED
      BY <3>1, <3>2, <3>3, Zenon
  <2>12. \A p \in Procs : (Holds(p))' => Holds(p)
    BY <2>5 DEF Holds
  <2>13. Pids'
    BY <2>5, <2>12, Zenon DEF Pids
  <2>14. Stacks'
    <3>1. job'.op # "boot" /\ Stacked' = nextPid
      BY <2>5 DEF Stacked
    <3>2. Mapping'[Kernel][TrampVa] = Leaf(TrampPa, "tramp")
      BY <1>6, <2>3, <2>9, Zenon
    <3>3. ASSUME NEW w \in Pages, Mapping'[Kernel][w] # Zero
          PROVE  w = TrampVa \/ w < KBase + nextPid
      <4>1. CASE w = v
        BY <1>4, <4>1, Numbers
      <4>2. CASE w # v
        <5>1. Mapping[Kernel][w] # Zero
          BY <2>9, <3>3, <4>2, Zenon
        <5>2. w = TrampVa \/ w < KBase + (nextPid - 1)
          BY <1>5, <5>1, Zenon DEF Stacks
        <5> QED
          BY <1>4, <5>2, Numbers DEF Pages
      <4> QED
        BY <4>1, <4>2, Zenon
    <3>4. ASSUME NEW p \in Procs, (Holds(p))'
          PROVE  /\ KStack(pid[p]) < TrampVa
                 /\ Mapping'[Kernel][KStack(pid[p])].perm = "kernel"
                 /\ Mapping'[Kernel][KStack(pid[p])].kind = "leaf"
      <4>1. CASE KStack(pid[p]) = v
        BY <2>2, <2>4, <2>6, <2>9, <4>1, Zenon
      <4>2. CASE KStack(pid[p]) # v
        <5>1. p # job.to
          BY <4>2, Zenon DEF v
        <5>2. /\ KStack(pid[p]) < TrampVa
              /\ Mapping[Kernel][KStack(pid[p])].perm = "kernel"
              /\ Mapping[Kernel][KStack(pid[p])].kind = "leaf"
          BY <2>12, <3>4, <5>1, Zenon DEF Stacks
        <5>3. KStack(pid[p]) \in Pages
          BY <1>8, <5>2, Numbers DEF KStack
        <5> QED
          BY <2>9, <4>2, <5>2, <5>3, Zenon
      <4> QED
        BY <4>1, <4>2, Zenon
    <3> QED
      BY <3>1, <3>2, <3>3, <3>4, Zenon DEF Stacks
  <2>15. PanicExact'
    <3>1. job'.op \notin {"panic", "make", "stack"}
      BY <2>5
    <3>2. ~(nextPid > TrampVa - KBase)
      BY <1>4, <2>4, Numbers
    <3> QED
      BY <3>1, <3>2, Zenon DEF PanicExact
  <2> QED
    BY <2>10, <2>11, <2>13, <2>14, <2>15, Zenon DEF Laid
<1>10. CASE /\ ~Accepts(root[Kernel], v, d)
            /\ entry' = [entry EXCEPT ![d] = Junk]
            /\ role' = [role EXCEPT ![d] = "data"]
            /\ job' = [job EXCEPT !.op = "panic"]
  <2>1. /\ job'.op = "panic" /\ job'.from = job.from /\ job'.to = job.to
        /\ job'.todo = job.todo
    BY <1>10, Zenon DEF TypeOK
  <2>2. v >= TrampVa
    <3>1. ASSUME v < TrampVa PROVE FALSE
      <4>1. v \in Pages /\ v # TrampVa /\ v < MaxVa
        BY <1>4, <3>1, Numbers
      <4>2. Mapping[Kernel][v] = Zero
        BY <1>7, <4>1, Zenon
      <4>3. Translate(root[Kernel], v).kind = "none"
        <5>1. Translate(root[Kernel], v) = Zero
          BY <4>1, <4>2, Mapped, Zenon
        <5>2. Zero.kind = "none"
          BY Zenon DEF Zero
        <5> QED
          BY <5>1, <5>2
      <4> QED
        BY <1>10, <4>1, <4>3, Zenon DEF Accepts
    <3> QED
      BY <1>4, <3>1, Numbers
  <2> HIDE DEF v
  <2>3. \A q \in Owners, w \in Pages : Mapping'[q][w] = Mapping[q][w]
    <3>1. \A t \in KPages : IF t = d THEN role'[t] = "data" ELSE /\ entry'[t] = entry[t]
                                                                /\ role'[t] = role[t]
      BY <1>10, Zenon DEF TypeOK
    <3> QED
      BY <1>3, <3>1, AsideStep, Zenon
  <2>4. Fixed'
    BY <2>1, <2>3, Places, Zenon DEF Fixed, FixedAt
  <2>5. Making'
    BY <2>1, Zenon DEF Making
  <2>6. \A p \in Procs : (Holds(p))' <=> Holds(p)
    BY <2>1, Zenon DEF Holds
  <2>7. Pids'
    BY <2>1, <2>6, Zenon DEF Pids
  <2>8. Stacks'
    <3>1. Stacked' = Stacked
      BY <2>1, Zenon DEF Stacked
    <3>2. \A w \in Pages : Mapping'[Kernel][w] = Mapping[Kernel][w]
      BY <2>3, Zenon
    <3> QED
      BY <2>1, <2>6, <3>1, <3>2, SameStacks, Zenon
  <2>9. PanicExact'
    <3>1. nextPid > TrampVa - KBase
      BY <1>4, <2>2, Numbers
    <3> QED
      BY <2>1, <3>1, Zenon DEF PanicExact
  <2> QED
    BY <2>4, <2>5, <2>7, <2>8, <2>9, Zenon DEF Laid
<1> QED
  BY <1>3, <1>9, <1>10, Zenon

\* fork drops the copy of the parent's trapframe.
LEMMA UnmapTfLaid ==
  ASSUME IInv, Laid, UnmapTf
  PROVE  Laid'
<1>0. /\ TypeOK /\ Trees /\ LeafOk /\ OneLeaf /\ JobOk /\ Fixed /\ Making /\ Pids /\ Stacks
      /\ PanicExact /\ TfVa \in Pages /\ TrampVa \in Pages /\ job.op = "unmap"
  BY Places, Zenon DEF IInv, Held, Laid, UnmapTf
<1> USE <1>0
<1>1. PICK q \in Procs : q = job.to /\ root[q] # Nil /\ job.from # Kernel
  BY Zenon DEF JobOk
<1>2. q \in Owners /\ q # Kernel
  BY Places, Zenon
<1>3. /\ UnmapPage(q, TfVa) /\ job' = [job EXCEPT !.op = "remap"]
      /\ root' = root /\ tf' = tf /\ pid' = pid /\ nextPid' = nextPid
  BY <1>1, Zenon DEF UnmapTf
<1>4. job'.op = "remap" /\ job'.from = job.from /\ job'.to = q /\ job'.todo = job.todo
  BY <1>1, <1>3, Zenon DEF TypeOK
<1>5. Takes(q, TfVa)
  BY <1>1, <1>2, <1>3, TakeKeeps, Zenon
<1>6. \A o \in Owners, w \in Pages : ~(o = q /\ w = TfVa) => Mapping'[o][w] = Mapping[o][w]
  BY <1>5, Zenon DEF Takes
<1>7. Fixed'
  BY <1>1, <1>3, <1>4, <1>6, Places, ZenonT(40) DEF Fixed, FixedAt
<1>8. Making'
  BY <1>1, <1>2, <1>4, <1>6, Places, Zenon DEF Making
<1>9. \A p \in Procs : (Holds(p))' <=> Holds(p)
  BY <1>3, <1>4, Zenon DEF Holds
<1>10. Pids'
  BY <1>3, <1>4, <1>9, Zenon DEF Pids
<1>11. Stacks'
  <2>1. Stacked' = Stacked
    BY <1>3, <1>4, Zenon DEF Stacked
  <2>2. \A w \in Pages : Mapping'[Kernel][w] = Mapping[Kernel][w]
    BY <1>2, <1>6, Places, Zenon
  <2> QED
    BY <1>3, <1>4, <1>9, <2>1, <2>2, SameStacks, Zenon
<1> QED
  BY <1>3, <1>4, <1>7, <1>8, <1>10, <1>11, Zenon DEF Laid, PanicExact

\* fork maps the trapframe of the child.
LEMMA RemapTfLaid ==
  ASSUME IInv, Laid, RemapTf
  PROVE  Laid'
<1>0. /\ TypeOK /\ Trees /\ TfOk /\ JobOk /\ Fixed /\ Making /\ Pids /\ Stacks
      /\ PanicExact /\ TfVa \in Pages /\ TrampVa \in Pages /\ job.op = "remap"
  BY Places, Zenon DEF IInv, Held, Laid, RemapTf
<1> USE <1>0
<1>1. PICK q \in Procs : q = job.to /\ root[q] # Nil /\ job.from # Kernel /\ tf[q] # Nil
  BY Zenon DEF JobOk
<1>2. PICK d \in KPages : d = tf[q]
  BY <1>1, Zenon DEF TypeOK
<1>3. q \in Owners /\ q # Kernel /\ role[d] = "data"
  BY <1>1, <1>2, Places, Zenon DEF TfOk, TfData
<1>4. /\ MapPage(q, TfVa, Leaf(d, "kernel"), {}) /\ job' = Idle
      /\ root' = root /\ tf' = tf /\ pid' = pid /\ nextPid' = nextPid
  BY <1>1, <1>2, Zenon DEF RemapTf
<1>5. job'.op = "idle" /\ job'.to = Nil
  BY <1>4, Zenon DEF Idle, Job
<1> DEFINE pte == Leaf(d, "kernel")
<1>6. pte \in Leaves /\ pte.to = d /\ pte = Leaf(tf[q], "kernel")
  BY <1>2, LeafFacts, Zenon DEF Pas, Perms
<1>7. MapPage(q, TfVa, pte, {})
  BY <1>4, Zenon
<1> HIDE DEF pte
<1>8. Gives(q, TfVa, pte, {})
  BY <1>1, <1>3, <1>4, <1>6, <1>7, MapStep, Zenon
<1>9. \A o \in Owners, w \in Pages :
        Mapping'[o][w] = IF o = q /\ w = TfVa THEN pte ELSE Mapping[o][w]
  BY <1>8, Zenon DEF Gives
<1>10. Fixed'
  <2> SUFFICES ASSUME NEW p \in Procs, root[p] # Nil PROVE (FixedAt(p))'
    BY <1>4, Zenon DEF Fixed
  <2>1. CASE p = q
    <3>1. Mapping[q][TrampVa] = Leaf(TrampPa, "tramp")
      BY <1>1, Zenon DEF Making
    <3>2. Mapping'[q][TrampVa] = Mapping[q][TrampVa] /\ Mapping'[q][TfVa] = pte
      BY <1>3, <1>9, Places, Zenon
    <3> QED
      BY <1>4, <1>6, <2>1, <3>1, <3>2, Zenon DEF FixedAt
  <2>2. CASE p # q
    <3>1. FixedAt(p)
      BY <1>1, <2>2, Zenon DEF Fixed
    <3>2. /\ Mapping'[p][TrampVa] = Mapping[p][TrampVa]
          /\ Mapping'[p][TfVa] = Mapping[p][TfVa]
      BY <1>9, <2>2, Places, Zenon
    <3> QED
      BY <1>4, <3>1, <3>2, Zenon DEF FixedAt
  <2> QED
    BY <2>1, <2>2, Zenon
<1>11. Making'
  BY <1>5, Zenon DEF Making
<1>12. \A p \in Procs : (Holds(p))' <=> Holds(p)
  BY <1>4, <1>5, Zenon DEF Holds
<1>13. Pids'
  BY <1>4, <1>5, <1>12, Zenon DEF Pids
<1>14. Stacks'
  <2>1. Stacked' = Stacked
    BY <1>4, <1>5, Zenon DEF Stacked
  <2>2. \A w \in Pages : Mapping'[Kernel][w] = Mapping[Kernel][w]
    BY <1>3, <1>9, Places, Zenon
  <2> QED
    BY <1>4, <1>5, <1>12, <2>1, <2>2, SameStacks, Zenon
<1> QED
  BY <1>4, <1>5, <1>10, <1>11, <1>13, <1>14, Zenon DEF Laid, PanicExact

\* A reaped process keeps its stack, and no page of its own.
LEMMA ReapLaid ==
  ASSUME IInv, Laid, NEW p \in Procs, Reap(p)
  PROVE  Laid'
<1>0. /\ TypeOK /\ Trees /\ Fixed /\ Pids /\ Stacks /\ PanicExact
      /\ p \in Owners /\ p # Kernel /\ p # Nil
  BY Places, Zenon DEF IInv, Laid
<1> USE <1>0
<1>1. /\ root[p] # Nil /\ job = Idle
      /\ entry' = [t \in KPages |-> IF t \in Destroyed(root[p]) THEN Cleared ELSE entry[t]]
      /\ role' = [n \in KPages |-> IF n \in Destroyed(root[p]) THEN "free" ELSE role[n]]
      /\ root' = [root EXCEPT ![p] = Nil]
      /\ job' = Job("drop", p, p, {})
      /\ tf' = tf /\ pid' = pid /\ nextPid' = nextPid
  BY Zenon DEF Reap, Runs, Started
<1>2. job.op = "idle" /\ job.to = Nil /\ job'.op = "drop" /\ job'.to = p
  BY <1>1, Zenon DEF Idle, Job
<1>3. \A q \in Owners, w \in Pages :
        Mapping'[q][w] = IF q = p THEN Zero ELSE Mapping[q][w]
  BY <1>1, ReapStep, Zenon
<1>4. root'[p] = Nil /\ \A o \in Owners : o # p => root'[o] = root[o]
  BY <1>1, Zenon DEF TypeOK
<1>5. Fixed'
  <2> SUFFICES ASSUME NEW q \in Procs, root'[q] # Nil, q # p PROVE (FixedAt(q))'
    BY <1>2, Zenon DEF Fixed
  <2>1. FixedAt(q)
    BY <1>2, <1>4, Places, Zenon DEF Fixed
  <2>2. Mapping'[q][TrampVa] = Mapping[q][TrampVa] /\ Mapping'[q][TfVa] = Mapping[q][TfVa]
    BY <1>3, Places, Zenon
  <2> QED
    BY <1>1, <2>1, <2>2, Zenon DEF FixedAt
<1>6. Making'
  BY <1>2, Zenon DEF Making
<1>7. \A q \in Procs : (Holds(q))' => Holds(q)
  BY <1>1, <1>2, <1>4, Places, Zenon DEF Holds
<1>8. Pids'
  BY <1>1, <1>2, <1>7, Zenon DEF Pids
<1>9. Stacks'
  <2>1. Stacked' = Stacked
    BY <1>1, <1>2, Zenon DEF Stacked
  <2>2. \A w \in Pages : Mapping'[Kernel][w] = Mapping[Kernel][w]
    BY <1>3, Places, Zenon
  <2> QED
    BY <1>1, <1>2, <1>7, <2>1, <2>2, SameStacks, Zenon
<1> QED
  BY <1>1, <1>2, <1>5, <1>6, <1>8, <1>9, Zenon DEF Laid, PanicExact

\* Drop of KernelStack takes the stack of the reaped process, and no other's.
LEMMA DropStackLaid ==
  ASSUME IInv, Laid, DropStack
  PROVE  Laid'
<1> DEFINE v == KStack(pid[job.to])
<1>0. /\ TypeOK /\ Trees /\ LeafOk /\ OneLeaf /\ JobOk /\ Fixed /\ Pids /\ Stacks /\ PanicExact
      /\ Kernel \in Owners /\ job.op = "drop"
  BY Places, Zenon DEF IInv, Held, Laid, DropStack
<1> USE <1>0
<1>1. job.to \in Procs /\ root[job.to] = Nil /\ root[Kernel] # Nil /\ Holds(job.to)
  BY Zenon DEF JobOk, TypeOK, Holds
<1>2. /\ UnmapPage(Kernel, v) /\ job' = Idle
      /\ root' = root /\ tf' = tf /\ pid' = pid /\ nextPid' = nextPid
  BY Zenon DEF DropStack
<1>3. \A p \in Procs : pid[p] \in Nat /\ p \in Owners /\ p # Kernel /\ p # Nil
  BY Places, Zenon DEF TypeOK
<1>4. v < TrampVa
  BY <1>1, Zenon DEF Stacks
<1>5. v \in Pages
  BY <1>1, <1>3, <1>4, Numbers DEF KStack
<1>6. \A p \in Procs : root[p] # Nil => KStack(pid[p]) # v
  <2> SUFFICES ASSUME NEW p \in Procs, root[p] # Nil PROVE pid[p] # pid[job.to]
    BY <1>1, <1>3, Numbers DEF KStack
  <2> QED
    BY <1>1, Zenon DEF Pids, Holds
<1> HIDE DEF v
<1>7. job'.op = "idle" /\ job'.to = Nil
  BY <1>2, Zenon DEF Idle, Job
<1>8. Takes(Kernel, v)
  BY <1>1, <1>2, <1>5, TakeKeeps, Zenon
<1>9. \A q \in Owners, w \in Pages :
        Mapping'[q][w] = IF q = Kernel /\ w = v THEN Zero ELSE Mapping[q][w]
  BY <1>8, Zenon DEF Takes
<1>10. Fixed'
  <2> SUFFICES ASSUME NEW p \in Procs, root[p] # Nil PROVE (FixedAt(p))'
    BY <1>2, Zenon DEF Fixed
  <2>1. FixedAt(p)
    BY <1>1, Zenon DEF Fixed
  <2>2. Mapping'[p][TrampVa] = Mapping[p][TrampVa] /\ Mapping'[p][TfVa] = Mapping[p][TfVa]
    BY <1>3, <1>9, Places, Zenon
  <2> QED
    BY <1>2, <2>1, <2>2, Zenon DEF FixedAt
<1>11. Making'
  BY <1>7, Zenon DEF Making
<1>12. \A p \in Procs : (Holds(p))' => Holds(p) /\ root[p] # Nil
  BY <1>2, <1>7, Zenon DEF Holds
<1>13. Pids'
  BY <1>2, <1>7, <1>12, Zenon DEF Pids
<1>14. Stacks'
  <2>1. Stacked' = Stacked
    BY <1>2, <1>7, Zenon DEF Stacked
  <2>2. Mapping'[Kernel][TrampVa] = Leaf(TrampPa, "tramp")
    <3>1. TrampVa # v
      BY <1>4, <1>5, Numbers
    <3> QED
      BY <1>9, <3>1, Places, Zenon DEF Stacks
  <2>3. \A w \in Pages : Mapping'[Kernel][w] # Zero => w = TrampVa \/ w < KBase + Stacked
    BY <1>9, Zenon DEF Stacks
  <2>4. ASSUME NEW p \in Procs, (Holds(p))'
        PROVE  /\ KStack(pid[p]) < TrampVa
               /\ Mapping'[Kernel][KStack(pid[p])].perm = "kernel"
               /\ Mapping'[Kernel][KStack(pid[p])].kind = "leaf"
    <3>1. /\ KStack(pid[p]) < TrampVa
          /\ Mapping[Kernel][KStack(pid[p])].perm = "kernel"
          /\ Mapping[Kernel][KStack(pid[p])].kind = "leaf"
      BY <1>12, <2>4, Zenon DEF Stacks
    <3>2. KStack(pid[p]) \in Pages /\ KStack(pid[p]) # v
      BY <1>3, <1>6, <1>12, <2>4, <3>1, Numbers DEF KStack
    <3> QED
      BY <1>9, <3>1, <3>2, Zenon
  <2> QED
    BY <1>2, <2>1, <2>2, <2>3, <2>4, Zenon DEF Stacks
<1> QED
  BY <1>2, <1>7, <1>10, <1>11, <1>13, <1>14, Zenon DEF Laid, PanicExact

\* A step that changes nothing.
LEMMA StutterLaid ==
  ASSUME IInv, Laid, UNCHANGED ptVars
  PROVE  Laid'
<1>1. /\ entry' = entry /\ root' = root /\ tf' = tf /\ pid' = pid /\ nextPid' = nextPid
      /\ job' = job
  BY Zenon DEF ptVars
<1>2. Mapping' = Mapping
  BY <1>1 DEF Mapping, Translate, Reaches, LastTable, Leads, Below
<1> QED
  BY <1>1, <1>2, SameLaid, Zenon DEF IInv

\* Every step keeps the layout.
LEMMA NextLaid ==
  ASSUME IInv, Laid, [PtNext]_ptVars
  PROVE  Laid'
<1>1. CASE PtNext
  BY <1>1, BootLaid, MadeLaid, MakeStackLaid, UnmapTfLaid, RemapTfLaid, DropStackLaid,
     StutterLaid, NewRootLaid, MakePageLaid, ReapLaid, GrowLaid, ShrinkLaid, Zenon
     DEF PtNext, Halted
<1> QED
  BY <1>1, StutterLaid, Zenon

\* No process has started, and the kernel maps nothing.
LEMMA InitLaid ==
  ASSUME PtInit
  PROVE  Laid
<1>1. PICK k \in KPages :
        /\ entry = [t \in KPages |-> IF t = k THEN Cleared ELSE Junk]
        /\ root = [o \in Owners |-> IF o = Kernel THEN k ELSE Nil]
        /\ pid = [o \in Owners |-> 0]
        /\ nextPid = 1
        /\ job = Job("boot", Kernel, Kernel, {})
  BY Zenon DEF PtInit
<1>2. job.op = "boot" /\ job.to = Kernel
  BY <1>1, Zenon DEF Job
<1>3. \A p \in Procs : root[p] = Nil /\ ~Holds(p)
  BY <1>1, <1>2, Places, Zenon DEF Holds
<1>4. pid[Kernel] = 0
  BY <1>1, Places, Zenon
<1>5. \A v \in Pages : Mapping[Kernel][v] = Zero
  <2>1. root[Kernel] = k /\ k # Nil
    BY <1>1, Places, PageTableAssumption, Zenon
  <2>2. \A i \in Idx : ~Leads(k, i)
    BY <1>1, Zenon DEF Leads, Cleared, Zero
  <2>3. \A v \in Pages : Translate(k, v) = Zero
    BY <2>2, Digits, Zenon DEF Translate, Reaches
  <2> QED
    BY <2>1, <2>3, Places, Zenon DEF Mapping
<1>6. Fixed /\ Making
  BY <1>2, <1>3, Zenon DEF Fixed, Making
<1>7. Pids
  BY <1>1, <1>2, <1>3, <1>4 DEF Pids
<1>8. Stacks
  BY <1>2, <1>3, <1>5, Zenon DEF Stacks
<1>9. PanicExact
  <2>1. ~(nextPid > TrampVa - KBase)
    BY <1>1, Numbers
  <2> QED
    BY <1>2, <2>1, Zenon DEF PanicExact
<1> QED
  BY <1>6, <1>7, <1>8, <1>9, Zenon DEF Laid

\* The layout that the runs check is part of it.
LEMMA LaidOut ==
  ASSUME IInv, Laid
  PROVE  Layout
<1>1. ASSUME NEW p \in Procs, Runs(p)
      PROVE  /\ Mapping[p][TrampVa] = Leaf(TrampPa, "tramp")
             /\ Mapping[p][TfVa] = Leaf(tf[p], "kernel")
             /\ Mapping[Kernel][KStack(pid[p])].perm = "kernel"
             /\ Mapping[Kernel][KStack(pid[p])].kind = "leaf"
  <2>1. root[p] # Nil /\ p # job.to /\ Holds(p)
    BY <1>1, Zenon DEF Runs, Started, Busy, Holds
  <2> QED
    BY <2>1, Zenon DEF Laid, Fixed, FixedAt, Stacks
<1> QED
  BY <1>1, Zenon DEF Laid, PanicExact, Layout

\* In every reachable state, and for every size of the address space, every running
\* process has its trampoline, its trapframe and its kernel stack where trap return and
\* swtch look for them (proc/process.rs, mem/vm.rs), and the map of a new stack is
\* refused, a panic, exactly when the pids have run into the trampoline.
THEOREM LayoutKept == PtSpec => []Layout
<1>1. PtInit => IInv /\ Laid
  BY InitKept, InitLaid, Zenon
<1>2. IInv /\ Laid /\ [PtNext]_ptVars => (IInv /\ Laid)'
  BY NextKept, NextLaid, Zenon DEF Kept
<1>3. IInv /\ Laid => Layout
  BY LaidOut, Zenon
<1> QED
  BY <1>1, <1>2, <1>3, PTL DEF PtSpec
=============================================================================
