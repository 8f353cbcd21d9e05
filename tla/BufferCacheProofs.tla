------------------------- MODULE BufferCacheProofs -------------------------
(***************************************************************************)
(* Proofs about the buffer cache, for any number of buffers, blocks,       *)
(* values and holders.                                                     *)
(*                                                                         *)
(* OneCopy is not inductive by itself: a read of block 0 might find one of *)
(* the buffers that were never used, all labelled 0, and not the copy that *)
(* is there.  What excludes it is the order of the list: buffers that were *)
(* never used stay behind all others (UnusedLast).                         *)
(***************************************************************************)
EXTENDS BufferCache, TLAPS

In(s, b) == \E i \in 1 .. Len(s) : s[i] = b
Distinct(s) == \A i, j \in 1 .. Len(s) : s[i] = s[j] => i = j

\* Every buffer is in one list, once, according to its reference count.
Lists ==
  /\ Distinct(active) /\ Distinct(inactive)
  /\ \A b \in Bufs : ref[b] = 1 <=> In(active, b)
  /\ \A b \in Bufs : ref[b] = 0 <=> In(inactive, b)

\* Buffers that were never used have label 0 and are the last ones released.
UnusedLast ==
  /\ \A b \in Bufs : ~valid[b] => block[b] = 0 /\ ref[b] = 0
  /\ \A i, j \in 1 .. Len(inactive) :
       i < j /\ valid[inactive[j]] => valid[inactive[i]]

HeldValid == \A h \in Holders : \A e \in holds[h] : valid[e[1]]

\* Until a block has two holders, it has one reference at most.
Unshared ==
  ~shared => \A g, h \in Holders : \A d \in holds[g], e \in holds[h] :
               d[2] = e[2] => g = h /\ d = e

IInv ==
  /\ TypeOK /\ Lists /\ UnusedLast
  /\ OneCopy /\ Coherent
  /\ HeldValid /\ Unshared /\ OwnKeepsBlock

-----------------------------------------------------------------------------
(* Sequences. *)

\* x put in front of s.
LEMMA ConsElements ==
  ASSUME NEW S, NEW s \in Seq(S), NEW x \in S
  PROVE  /\ <<x>> \o s \in Seq(S)
         /\ Len(<<x>> \o s) = Len(s) + 1
         /\ (<<x>> \o s)[1] = x
         /\ \A i \in 1 .. Len(s) : (<<x>> \o s)[i + 1] = s[i]
OBVIOUS

\* s without its i-th element.
LEMMA WithoutElements ==
  ASSUME NEW S, NEW s \in Seq(S), NEW i \in 1 .. Len(s)
  PROVE  /\ Without(s, i) \in Seq(S)
         /\ Len(Without(s, i)) = Len(s) - 1
         /\ \A j \in 1 .. Len(s) - 1 :
              Without(s, i)[j] = IF j < i THEN s[j] ELSE s[j + 1]
<1> DEFINE w == [j \in 1 .. Len(s) - 1 |-> IF j < i THEN s[j] ELSE s[j + 1]]
<1>1. Len(s) - 1 \in Nat
  OBVIOUS
<1>2. \A j \in 1 .. Len(s) - 1 : j \in 1 .. Len(s) /\ j + 1 \in 1 .. Len(s)
  OBVIOUS
<1>3. \A j \in 1 .. Len(s) - 1 : (IF j < i THEN s[j] ELSE s[j + 1]) \in S
  BY <1>2
<1>4. w \in [1 .. Len(s) - 1 -> S]
  BY <1>3
<1>5. w \in Seq(S) /\ Len(w) = Len(s) - 1
  BY <1>1, <1>4
<1> QED
  BY <1>5 DEF Without

\* An element that moves from its place in s to the front of t, as
\* promote_to_active, recycle_lru and demote_to_inactive do it.
LEMMA Moved ==
  ASSUME NEW s \in Seq(Bufs), NEW t \in Seq(Bufs), NEW i \in 1 .. Len(s),
         Distinct(s), Distinct(t), ~In(t, s[i])
  PROVE  /\ Without(s, i) \in Seq(Bufs) /\ <<s[i]>> \o t \in Seq(Bufs)
         /\ Distinct(Without(s, i)) /\ Distinct(<<s[i]>> \o t)
         /\ \A b \in Bufs : In(Without(s, i), b) <=> In(s, b) /\ b # s[i]
         /\ \A b \in Bufs : In(<<s[i]>> \o t, b) <=> In(t, b) \/ b = s[i]
<1> DEFINE w == Without(s, i)
           c == <<s[i]>> \o t
<1>1. /\ w \in Seq(Bufs) /\ Len(w) = Len(s) - 1
      /\ \A j \in 1 .. Len(s) - 1 : w[j] = IF j < i THEN s[j] ELSE s[j + 1]
  BY WithoutElements
<1>2. /\ c \in Seq(Bufs) /\ Len(c) = Len(t) + 1 /\ c[1] = s[i]
      /\ \A j \in 1 .. Len(t) : c[j + 1] = t[j]
  BY ConsElements
<1>3. \A j \in 2 .. Len(t) + 1 : j - 1 \in 1 .. Len(t) /\ c[j] = t[j - 1]
  <2> TAKE j \in 2 .. Len(t) + 1
  <2>1. j - 1 \in 1 .. Len(t) /\ (j - 1) + 1 = j
    OBVIOUS
  <2> QED
    BY <2>1, <1>2
<1> HIDE DEF w, c
<1>4. Distinct(w)
  <2> SUFFICES ASSUME NEW j \in 1 .. Len(w), NEW k \in 1 .. Len(w), w[j] = w[k]
               PROVE  j = k
    BY DEF Distinct
  <2>1. j \in 1 .. Len(s) - 1 /\ k \in 1 .. Len(s) - 1 /\ Len(s) \in Nat
    BY <1>1
  <2> DEFINE a == IF j < i THEN j ELSE j + 1
             b == IF k < i THEN k ELSE k + 1
  <2>2. a \in 1 .. Len(s) /\ b \in 1 .. Len(s) /\ (a = b => j = k)
    BY <2>1
  <2>3. w[j] = s[a] /\ w[k] = s[b]
    BY <1>1, <2>1
  <2> HIDE DEF a, b
  <2> QED
    BY <2>2, <2>3, Zenon DEF Distinct
<1>5. Distinct(c)
  <2>1. \A j \in 2 .. Len(t) + 1 : c[j] # c[1]
    BY <1>2, <1>3 DEF In
  <2>2. \A j, k \in 2 .. Len(t) + 1 : c[j] = c[k] => j = k
    BY <1>3, SMTT(30) DEF Distinct
  <2>3. \A j \in 1 .. Len(c) : j = 1 \/ j \in 2 .. Len(t) + 1
    BY <1>2
  <2> QED
    BY <2>1, <2>2, <2>3 DEF Distinct
<1>6. ASSUME NEW b \in Bufs PROVE In(w, b) <=> In(s, b) /\ b # s[i]
  <2>1. ASSUME In(w, b) PROVE In(s, b) /\ b # s[i]
    BY <2>1, <1>1 DEF In, Distinct
  <2>2. ASSUME In(s, b), b # s[i] PROVE In(w, b)
    <3>1. PICK j \in 1 .. Len(s) : s[j] = b
      BY <2>2 DEF In
    <3>2. CASE j < i
      BY <3>1, <3>2, <1>1 DEF In
    <3>3. CASE j > i
      <4>1. j - 1 \in 1 .. Len(s) - 1 /\ ~(j - 1 < i) /\ (j - 1) + 1 = j
        BY <3>3
      <4> QED
        BY <4>1, <3>1, <1>1, Zenon DEF In
    <3> QED
      BY <3>1, <3>2, <3>3, <2>2
  <2> QED
    BY <2>1, <2>2
<1>7. ASSUME NEW b \in Bufs PROVE In(c, b) <=> In(t, b) \/ b = s[i]
  <2>1. ASSUME In(c, b) PROVE In(t, b) \/ b = s[i]
    BY <2>1, <1>2, <1>3 DEF In
  <2>2. ASSUME In(t, b) PROVE In(c, b)
    <3>1. PICK j \in 1 .. Len(t) : t[j] = b
      BY <2>2 DEF In
    <3>2. j + 1 \in 1 .. Len(c) /\ c[j + 1] = b
      BY <3>1, <1>2
    <3> QED
      BY <3>2 DEF In
  <2>3. ASSUME b = s[i] PROVE In(c, b)
    <3>1. 1 \in 1 .. Len(c)
      BY <1>2
    <3> QED
      BY <2>3, <3>1, <1>2 DEF In
  <2> QED
    BY <2>1, <2>2, <2>3
<1> QED
  BY <1>1, <1>2, <1>4, <1>5, <1>6, <1>7 DEF w, c

-----------------------------------------------------------------------------
(* Initially, and the two moves between the lists. *)

\* Buffer::new and LRUCache::init establish the invariant.
LEMMA InitInv == Init => IInv
<1> SUFFICES ASSUME Init PROVE IInv
  OBVIOUS
<1> USE BufferAssumption
<1>1. inactive \in Seq(Bufs) /\ Len(inactive) = N
  <2>1. [i \in 1 .. N |-> i - 1] \in [1 .. N -> Bufs]
    BY DEF Bufs
  <2> QED
    BY <2>1 DEF Init
<1>2. active \in Seq(Bufs) /\ Len(active) = 0
  BY DEF Init
<1>3. TypeOK
  <2>1. block \in [Bufs -> Blocks] /\ ref \in [Bufs -> 0 .. 1]
    BY DEF Init
  <2>2. valid \in [Bufs -> BOOLEAN] /\ shared \in BOOLEAN
    BY Zenon DEF Init
  <2>3. holds \in [Holders -> SUBSET (Bufs \X Blocks)]
    BY DEF Init
  <2>4. /\ data \in [Bufs -> Values] /\ disk \in [Blocks -> Values]
        /\ panic \in {"none", "full", "underflow"}
    BY DEF Init
  <2> QED
    BY <1>1, <1>2, <2>1, <2>2, <2>3, <2>4 DEF TypeOK
<1>4. Lists
  <2>1. \A b \in Bufs : b + 1 \in 1 .. N /\ inactive[b + 1] = b
    BY DEF Init, Bufs
  <2>2. \A i \in 1 .. N : inactive[i] = i - 1
    BY DEF Init
  <2>3. Distinct(inactive) /\ Distinct(active)
    BY <1>1, <1>2, <2>2 DEF Distinct
  <2>4. \A b \in Bufs : In(inactive, b) /\ ~In(active, b)
    BY <1>1, <1>2, <2>1 DEF In
  <2>5. \A b \in Bufs : ref[b] = 0
    BY DEF Init
  <2> QED
    BY <2>3, <2>4, <2>5 DEF Lists
<1>5. UnusedLast
  <2>1. \A i \in 1 .. Len(inactive) : inactive[i] \in Bufs
    BY <1>1
  <2>2. \A b \in Bufs : ~valid[b] /\ block[b] = 0 /\ ref[b] = 0
    BY DEF Init
  <2> QED
    BY <2>1, <2>2 DEF UnusedLast
<1>6. OneCopy /\ Coherent /\ HeldValid /\ Unshared /\ OwnKeepsBlock
  BY DEF Init, OneCopy, Coherent, HeldValid, Unshared, OwnKeepsBlock, HeldKeepsBlock
<1> QED
  BY <1>3, <1>4, <1>5, <1>6 DEF IInv

\* Position i of the inactive list becomes the head of the active one.
LEMMA Activated ==
  ASSUME TypeOK, Lists, NEW i \in 1 .. Len(inactive),
         active' = <<inactive[i]>> \o active,
         inactive' = Without(inactive, i),
         ref' = [ref EXCEPT ![inactive[i]] = 1]
  PROVE  /\ inactive[i] \in Bufs /\ ref[inactive[i]] = 0
         /\ active' \in Seq(Bufs) /\ inactive' \in Seq(Bufs)
         /\ ref' \in [Bufs -> 0 .. 1]
         /\ Lists'
<1> DEFINE b == inactive[i]
<1>1. b \in Bufs /\ In(inactive, b)
  BY DEF TypeOK, In
<1>2. ref[b] = 0 /\ ~In(active, b)
  BY <1>1 DEF Lists
<1>3. /\ inactive' \in Seq(Bufs) /\ active' \in Seq(Bufs)
      /\ Distinct(inactive') /\ Distinct(active')
      /\ \A c \in Bufs : In(inactive', c) <=> In(inactive, c) /\ c # b
      /\ \A c \in Bufs : In(active', c) <=> In(active, c) \/ c = b
  BY <1>2, Moved DEF TypeOK, Lists
<1> HIDE DEF b
<1>4. ref' \in [Bufs -> 0 .. 1] /\ \A c \in Bufs : ref'[c] = IF c = b THEN 1 ELSE ref[c]
  BY <1>1 DEF TypeOK, b
<1>5. Lists'
  <2>1. \A c \in Bufs : ref[c] \in 0 .. 1
    BY DEF TypeOK
  <2>2. ASSUME NEW c \in Bufs
        PROVE  /\ ref'[c] = 1 <=> In(active', c)
               /\ ref'[c] = 0 <=> In(inactive', c)
    BY <1>3, <1>4, <2>1 DEF Lists
  <2> QED
    BY <1>3, <2>2 DEF Lists
<1> QED
  BY <1>1, <1>2, <1>3, <1>4, <1>5 DEF b

\* What is left of the inactive list without position i is as UnusedLast says,
\* if nothing but that buffer became valid.
LEMMA StaysLast ==
  ASSUME TypeOK, UnusedLast, Distinct(inactive), NEW i \in 1 .. Len(inactive),
         inactive' = Without(inactive, i),
         valid' = [valid EXCEPT ![inactive[i]] = TRUE]
  PROVE  \A j, k \in 1 .. Len(inactive') :
           j < k /\ valid'[inactive'[k]] => valid'[inactive'[j]]
<1>1. /\ inactive \in Seq(Bufs)
      /\ Len(inactive') = Len(inactive) - 1
      /\ \A j \in 1 .. Len(inactive) - 1 :
           inactive'[j] = IF j < i THEN inactive[j] ELSE inactive[j + 1]
  BY WithoutElements, Zenon DEF TypeOK
<1> DEFINE at(j) == IF j < i THEN j ELSE j + 1
<1>2. \A j \in 1 .. Len(inactive') :
        /\ at(j) \in 1 .. Len(inactive) /\ at(j) # i
        /\ inactive'[j] = inactive[at(j)]
  BY <1>1
<1>3. \A j \in 1 .. Len(inactive') : valid'[inactive'[j]] = valid[inactive[at(j)]]
  <2> TAKE j \in 1 .. Len(inactive')
  <2>1. inactive[at(j)] # inactive[i] /\ inactive[at(j)] \in Bufs
    BY <1>1, <1>2 DEF Distinct
  <2> QED
    BY <1>2, <2>1, Zenon DEF TypeOK
<1>4. \A j, k \in 1 .. Len(inactive') : j < k => at(j) < at(k)
  BY <1>1
<1> HIDE DEF at
<1> SUFFICES ASSUME NEW j \in 1 .. Len(inactive'), NEW k \in 1 .. Len(inactive'), j < k,
                    valid'[inactive'[k]]
             PROVE  valid'[inactive'[j]]
  OBVIOUS
<1>5. at(j) \in 1 .. Len(inactive) /\ at(k) \in 1 .. Len(inactive) /\ at(j) < at(k)
  BY <1>2, <1>4
<1>6. valid[inactive[at(k)]]
  BY <1>3, Zenon
<1>7. valid[inactive[at(j)]]
  BY <1>5, <1>6 DEF UnusedLast
<1> QED
  BY <1>3, <1>7, Zenon

-----------------------------------------------------------------------------
(* References. *)

\* read hands buffer b out for block k: it is valid and labelled k, its label
\* changed only if nobody had it, and the other buffers are as before.
LEMMA Granted ==
  ASSUME TypeOK, HeldValid, Unshared, OwnKeepsBlock,
         NEW h \in Holders, NEW b \in Bufs, NEW k \in Blocks, Grant(h, b, k),
         valid'[b], \A c \in Bufs : valid[c] => valid'[c],
         block'[b] = k, ref'[b] = 1, ref[b] = 1 => block[b] = k,
         \A c \in Bufs \ {b} : block'[c] = block[c] /\ ref'[c] = ref[c]
  PROVE  /\ holds' \in [Holders -> SUBSET (Bufs \X Blocks)]
         /\ shared' \in BOOLEAN
         /\ HeldValid' /\ Unshared' /\ OwnKeepsBlock'
<1> DEFINE r == <<b, k>>
<1>1. /\ holds' \in [Holders -> SUBSET (Bufs \X Blocks)]
      /\ \A g \in Holders : \A e \in holds'[g] :
           e \in holds[g] \/ (g = h /\ e = r)
  BY DEF Grant, TypeOK
<1>2. shared' \in BOOLEAN
  BY DEF Grant, TypeOK
<1>3. \A g \in Holders : \A e \in holds[g] :
        e[1] \in Bufs /\ e[2] \in Blocks /\ e = <<e[1], e[2]>>
  BY DEF TypeOK
<1>4. r[1] = b /\ r[2] = k
  OBVIOUS
<1> HIDE DEF r
<1>5. HeldValid'
  BY <1>1, <1>3, <1>4 DEF HeldValid
<1>6. ASSUME ~shared'
      PROVE  ~shared /\ \A g \in Holders : \A e \in holds[g] : e[2] # k
  <2>1. ~shared /\ \A g \in Holders : ~Asks(g, k)
    BY <1>6, Zenon DEF Grant
  <2> SUFFICES ASSUME NEW g \in Holders, NEW e \in holds[g], e[2] = k PROVE FALSE
    BY <2>1
  <2>2. e[1] \in Bufs /\ <<e[1], k>> \in holds[g]
    BY <1>3
  <2> QED
    BY <2>1, <2>2, Zenon DEF Asks
<1>7. Unshared'
  <2> SUFFICES ASSUME ~shared',
                      NEW g \in Holders, NEW f \in Holders,
                      NEW d \in holds'[g], NEW e \in holds'[f], d[2] = e[2]
               PROVE  g = f /\ d = e
    BY DEF Unshared
  <2>1. CASE d \in holds[g] /\ e \in holds[f]
    BY <1>6, <2>1 DEF Unshared
  <2>2. CASE g = h /\ d = r /\ e \in holds[f]
    BY <1>4, <1>6, <2>2
  <2>3. CASE d \in holds[g] /\ f = h /\ e = r
    BY <1>4, <1>6, <2>3
  <2> QED
    BY <1>1, <2>1, <2>2, <2>3
<1>8. OwnKeepsBlock'
  <2> SUFFICES ASSUME ~shared', NEW g \in Holders, NEW e \in holds'[g]
               PROVE  block'[e[1]] = e[2] /\ ref'[e[1]] = 1
    BY DEF OwnKeepsBlock, HeldKeepsBlock
  <2>1. CASE g = h /\ e = r
    BY <1>4, <2>1
  <2>2. CASE e \in holds[g]
    <3>1. e[1] \in Bufs /\ block[e[1]] = e[2] /\ ref[e[1]] = 1
      BY <1>3, <1>6, <2>2 DEF OwnKeepsBlock, HeldKeepsBlock
    <3> QED
      BY <3>1
  <2> QED
    BY <1>1, <2>1, <2>2
<1> QED
  BY <1>1, <1>2, <1>5, <1>7, <1>8

\* A buffer that somebody asked for is used, hence Write and Release keep to
\* valid buffers.
LEMMA HeldInType ==
  ASSUME TypeOK, HeldValid, NEW h \in Holders, NEW b, NEW k,
         <<b, k>> \in holds[h]
  PROVE  b \in Bufs /\ k \in Blocks /\ valid[b]
<1>1. <<b, k>> \in Bufs \X Blocks
  BY DEF TypeOK
<1>2. valid[<<b, k>>[1]]
  BY DEF HeldValid
<1> QED
  BY <1>1, <1>2

\* Every buffer is in a list: a label that both lists miss is on no buffer.
LEMMA NoLabel ==
  ASSUME TypeOK, Lists, NEW k, Missing(active, k), Missing(inactive, k)
  PROVE  \A c \in Bufs : block[c] # k
<1> TAKE c \in Bufs
<1>1. ref[c] = 0 \/ ref[c] = 1
  BY DEF TypeOK
<1> QED
  BY <1>1 DEF Lists, In, Missing

-----------------------------------------------------------------------------
(* One lemma per operation. *)

\* get on an active buffer.
LEMMA StepReadActive ==
  ASSUME IInv, NEW h \in Holders, NEW k \in Blocks, ReadActive(h, k)
  PROVE  IInv'
<1> USE DEF IInv
<1>1. PICK i \in 1 .. Len(active) :
        Found(active, k, i) /\ Fetch(active[i], k) /\ Grant(h, active[i], k)
  BY DEF ReadActive
<1> DEFINE b == active[i]
<1>2. b \in Bufs /\ In(active, b) /\ block[b] = k
  BY <1>1 DEF TypeOK, In, Found
<1>3. ref[b] = 1
  BY <1>2 DEF Lists
<1>4. valid[b]
  BY <1>2, <1>3 DEF UnusedLast
<1>5. data' = data /\ valid' = valid
  BY <1>1, <1>2, <1>4 DEF Fetch, TypeOK
<1>6. UNCHANGED <<active, inactive, block, ref, disk, panic>>
  BY DEF ReadActive
<1>7. /\ holds' \in [Holders -> SUBSET (Bufs \X Blocks)] /\ shared' \in BOOLEAN
      /\ HeldValid' /\ Unshared' /\ OwnKeepsBlock'
  BY <1>1, <1>2, <1>3, <1>4, <1>5, <1>6, Granted
<1>8. TypeOK'
  BY <1>5, <1>6, <1>7 DEF TypeOK
<1>9. Lists' /\ UnusedLast' /\ OneCopy' /\ Coherent'
  BY <1>5, <1>6 DEF Lists, UnusedLast, OneCopy, Coherent
<1> QED
  BY <1>7, <1>8, <1>9

\* get on an inactive buffer, used before or not.
LEMMA StepReadInactive ==
  ASSUME IInv, NEW h \in Holders, NEW k \in Blocks, ReadInactive(h, k)
  PROVE  IInv'
<1> USE DEF IInv
<1>1. PICK i \in 1 .. Len(inactive) :
        /\ Found(inactive, k, i)
        /\ active' = <<inactive[i]>> \o active
        /\ inactive' = Without(inactive, i)
        /\ ref' = Take(inactive[i])
        /\ Fetch(inactive[i], k) /\ Grant(h, inactive[i], k)
  BY DEF ReadInactive
<1> DEFINE b == inactive[i]
<1>2. b \in Bufs /\ In(inactive, b) /\ block[b] = k
  BY <1>1 DEF TypeOK, In, Found
<1>3. ref[b] = 0 /\ ref' = [ref EXCEPT ![b] = 1]
  <2>1. ref[b] = 0
    BY <1>2 DEF Lists
  <2>2. ref' = [ref EXCEPT ![b] = ref[b] + 1]
    BY <1>1 DEF Take
  <2> QED
    BY <2>1, <2>2
<1>4. UNCHANGED <<block, disk, panic>> /\ Missing(active, k)
  BY DEF ReadInactive
<1>5. /\ active' \in Seq(Bufs) /\ inactive' \in Seq(Bufs)
      /\ ref' \in [Bufs -> 0 .. 1] /\ Lists'
  BY <1>1, <1>3, Activated, Zenon
<1>6. /\ data' \in [Bufs -> Values] /\ valid' = [valid EXCEPT ![b] = TRUE]
      /\ \A c \in Bufs \ {b} : data'[c] = data[c]
      /\ data'[b] = disk[k]
  <2>1. data' = [data EXCEPT ![b] = IF valid[b] THEN @ ELSE disk[k]]
    BY <1>1 DEF Fetch
  <2>2. valid[b] => data[b] = disk[k]
    BY <1>2 DEF Coherent
  <2>3. disk[k] \in Values /\ data[b] \in Values
    BY <1>2 DEF TypeOK
  <2> QED
    BY <1>1, <1>2, <2>1, <2>2, <2>3 DEF Fetch, TypeOK
<1>7. valid' \in [Bufs -> BOOLEAN] /\ valid'[b]
      /\ \A c \in Bufs \ {b} : valid'[c] = valid[c]
  BY <1>2, <1>6, Zenon DEF TypeOK
<1>8. \A c \in Bufs : valid[c] => valid'[c]
  BY <1>7
<1>9. \A c \in Bufs \ {b} : ref'[c] = ref[c]
  BY <1>3 DEF TypeOK
<1>10. ref'[b] = 1
  BY <1>2, <1>3 DEF TypeOK
<1>11. /\ holds' \in [Holders -> SUBSET (Bufs \X Blocks)] /\ shared' \in BOOLEAN
       /\ HeldValid' /\ Unshared' /\ OwnKeepsBlock'
  BY <1>1, <1>2, <1>4, <1>7, <1>8, <1>9, <1>10, Granted
<1>12. TypeOK'
  BY <1>4, <1>5, <1>6, <1>7, <1>11 DEF TypeOK
<1>13. UnusedLast'
  <2>1. \A c \in Bufs : ~valid'[c] => block'[c] = 0 /\ ref'[c] = 0
    BY <1>4, <1>7, <1>9 DEF UnusedLast
  <2>2. \A j, l \in 1 .. Len(inactive') :
           j < l /\ valid'[inactive'[l]] => valid'[inactive'[j]]
    BY <1>1, <1>6, StaysLast, Zenon DEF Lists
  <2> QED
    BY <2>1, <2>2 DEF UnusedLast
<1>14. \A c \in Bufs \ {b} : valid[c] => block[c] # k
  <2> SUFFICES ASSUME NEW c \in Bufs \ {b}, valid[c], block[c] = k PROVE FALSE
    OBVIOUS
  <2>1. ~valid[b]
    BY <1>2 DEF OneCopy
  <2>2. ref[c] # 1
    BY <1>4 DEF Lists, In, Missing
  <2>3. ref[c] = 0
    BY <2>2 DEF TypeOK
  <2>4. PICK j \in 1 .. Len(inactive) : inactive[j] = c
    BY <2>3 DEF Lists, In
  <2>5. ~(j < i)
    BY <1>1, <2>4 DEF Found
  <2>6. ~(i < j)
    BY <2>1, <2>4 DEF UnusedLast
  <2> QED
    BY <2>4, <2>5, <2>6
<1>15. OneCopy' /\ Coherent'
  BY <1>2, <1>4, <1>6, <1>7, <1>14 DEF OneCopy, Coherent
<1> QED
  BY <1>5, <1>11, <1>12, <1>13, <1>15

\* get on no buffer: the last inactive one is relabelled.
LEMMA StepReadRecycle ==
  ASSUME IInv, NEW h \in Holders, NEW k \in Blocks, ReadRecycle(h, k)
  PROVE  IInv'
<1> USE DEF IInv
<1> DEFINE i == LruPos
           b == inactive[LruPos]
<1>1. i \in 1 .. Len(inactive)
  BY DEF ReadRecycle, LruPos, TypeOK
<1>2. /\ Missing(active, k) /\ Missing(inactive, k) /\ Recycle(b, k)
      /\ active' = <<b>> \o active /\ inactive' = Without(inactive, i)
      /\ Grant(h, b, k) /\ UNCHANGED <<disk, panic>>
  BY DEF ReadRecycle
<1>3. /\ block' = [block EXCEPT ![b] = k] /\ data' = [data EXCEPT ![b] = disk[k]]
      /\ valid' = [valid EXCEPT ![b] = TRUE] /\ ref' = [ref EXCEPT ![b] = 1]
  BY <1>2 DEF Recycle
<1>4. /\ b \in Bufs /\ ref[b] = 0
      /\ active' \in Seq(Bufs) /\ inactive' \in Seq(Bufs)
      /\ ref' \in [Bufs -> 0 .. 1] /\ Lists'
  BY <1>1, <1>2, <1>3, Activated, Zenon
<1>5. \A j, l \in 1 .. Len(inactive') :
         j < l /\ valid'[inactive'[l]] => valid'[inactive'[j]]
  BY <1>1, <1>2, <1>3, StaysLast, Zenon DEF Lists
<1>6. \A c \in Bufs : block[c] # k
  BY <1>2, NoLabel
<1> HIDE DEF b, i
<1>7. /\ block' \in [Bufs -> Blocks] /\ block'[b] = k
      /\ data' \in [Bufs -> Values] /\ data'[b] = disk[k] /\ ref'[b] = 1
      /\ \A c \in Bufs \ {b} :
           block'[c] = block[c] /\ data'[c] = data[c] /\ ref'[c] = ref[c]
  BY <1>3, <1>4 DEF TypeOK
<1>8. /\ valid' \in [Bufs -> BOOLEAN] /\ valid'[b]
      /\ \A c \in Bufs \ {b} : valid'[c] = valid[c]
  BY <1>3, <1>4 DEF TypeOK
<1>9. \A c \in Bufs : valid[c] => valid'[c]
  BY <1>8
<1>10. /\ holds' \in [Holders -> SUBSET (Bufs \X Blocks)] /\ shared' \in BOOLEAN
       /\ HeldValid' /\ Unshared' /\ OwnKeepsBlock'
  BY <1>2, <1>4, <1>7, <1>8, <1>9, Granted
<1>11. TypeOK'
  BY <1>2, <1>4, <1>7, <1>8, <1>10 DEF TypeOK
<1>12. UnusedLast'
  BY <1>5, <1>7, <1>8 DEF UnusedLast
<1>13. OneCopy' /\ Coherent'
  BY <1>2, <1>6, <1>7, <1>8, SMTT(30) DEF OneCopy, Coherent
<1> QED
  BY <1>4, <1>10, <1>11, <1>12, <1>13

\* write.
LEMMA StepWrite ==
  ASSUME IInv, NEW h \in Holders, NEW b, NEW k, NEW v \in Values,
         Write(h, b, k, v)
  PROVE  IInv'
<1> USE DEF IInv
<1>1. b \in Bufs /\ valid[b]
  BY HeldInType DEF Write
<1>2. /\ UNCHANGED <<active, inactive, block, ref, valid, holds, shared, panic>>
      /\ data' = [data EXCEPT ![b] = v] /\ disk' = [disk EXCEPT ![block[b]] = v]
  BY DEF Write
<1>3. TypeOK'
  BY <1>1, <1>2 DEF TypeOK
<1>4. Coherent'
  <2> SUFFICES ASSUME NEW c \in Bufs, valid[c] PROVE data'[c] = disk'[block[c]]
    BY <1>2 DEF Coherent
  <2>1. block[c] \in Blocks /\ (block[c] = block[b] <=> c = b)
    BY <1>1 DEF TypeOK, OneCopy
  <2> QED
    BY <1>1, <1>2, <2>1 DEF TypeOK, Coherent
<1>5. Lists' /\ UnusedLast' /\ OneCopy' /\ HeldValid' /\ Unshared'
  BY <1>2 DEF Lists, UnusedLast, OneCopy, HeldValid, Unshared
<1>6. OwnKeepsBlock'
  BY <1>2 DEF OwnKeepsBlock, HeldKeepsBlock
<1> QED
  BY <1>3, <1>4, <1>5, <1>6

\* release.
LEMMA StepRelease ==
  ASSUME IInv, NEW h \in Holders, NEW b, NEW k, Release(h, b, k)
  PROVE  IInv'
<1> USE DEF IInv
<1> DEFINE r == <<b, k>>
<1>1. b \in Bufs /\ k \in Blocks /\ valid[b] /\ r \in holds[h]
  BY HeldInType DEF Release
<1>2. /\ UNCHANGED <<block, valid, data, disk, shared>>
      /\ holds' = [holds EXCEPT ![h] = @ \ {r}]
  BY DEF Release
<1>3. OneCopy' /\ Coherent'
  BY <1>2 DEF OneCopy, Coherent
<1>4. /\ holds' \in [Holders -> SUBSET (Bufs \X Blocks)]
      /\ \A g \in Holders : \A e \in holds'[g] :
           e \in holds[g] /\ (g = h => e # r)
  BY <1>2 DEF TypeOK
<1>5. HeldValid' /\ Unshared'
  BY <1>2, <1>4 DEF HeldValid, Unshared
<1>6. CASE ref[b] = 0
  <2>1. /\ UNCHANGED <<active, inactive, ref>> /\ panic' = "underflow"
    BY <1>6 DEF Release
  <2>2. TypeOK'
    BY <1>2, <1>4, <2>1 DEF TypeOK
  <2>3. Lists' /\ UnusedLast'
    BY <1>2, <2>1 DEF Lists, UnusedLast
  <2>4. OwnKeepsBlock'
    BY <1>2, <1>4, <2>1 DEF OwnKeepsBlock, HeldKeepsBlock
  <2> QED
    BY <1>3, <1>5, <2>2, <2>3, <2>4
<1>7. CASE ref[b] = 1
  <2>1. /\ UNCHANGED panic /\ ref' = Drop(b)
        /\ \E i \in 1 .. Len(active) :
             /\ active[i] = b
             /\ active' = Without(active, i)
             /\ inactive' = <<b>> \o inactive
    BY <1>7 DEF Release
  <2>2. PICK i \in 1 .. Len(active) :
          /\ active[i] = b
          /\ active' = Without(active, i)
          /\ inactive' = <<b>> \o inactive
    BY <2>1
  <2>3. ref' = [ref EXCEPT ![b] = 0]
    <3>1. ref' = [ref EXCEPT ![b] = ref[b] - 1]
      BY <2>1 DEF Drop
    <3> QED
      BY <3>1, <1>7
  <2>4. ref' \in [Bufs -> 0 .. 1] /\ \A c \in Bufs : ref'[c] = IF c = b THEN 0 ELSE ref[c]
    BY <1>1, <2>3 DEF TypeOK
  <2>5. ~In(inactive, b)
    BY <1>1, <1>7 DEF Lists
  <2>6. /\ active' \in Seq(Bufs) /\ inactive' \in Seq(Bufs)
        /\ Distinct(active') /\ Distinct(inactive')
        /\ \A c \in Bufs : In(active', c) <=> In(active, c) /\ c # b
        /\ \A c \in Bufs : In(inactive', c) <=> In(inactive, c) \/ c = b
    BY <2>2, <2>5, Moved DEF TypeOK, Lists
  <2>7. Lists'
    <3>1. \A c \in Bufs : ref[c] \in 0 .. 1
      BY DEF TypeOK
    <3>2. ASSUME NEW c \in Bufs
          PROVE  /\ ref'[c] = 1 <=> In(active', c)
                 /\ ref'[c] = 0 <=> In(inactive', c)
      BY <2>4, <2>6, <3>1 DEF Lists
    <3> QED
      BY <2>6, <3>2 DEF Lists
  <2>8. TypeOK'
    BY <1>2, <1>4, <2>1, <2>4, <2>6 DEF TypeOK
  <2>9. UnusedLast'
    <3>1. /\ Len(inactive') = Len(inactive) + 1 /\ inactive'[1] = b
          /\ \A j \in 1 .. Len(inactive) : inactive'[j + 1] = inactive[j]
      BY <1>1, <2>2, ConsElements DEF TypeOK
    <3>2. ASSUME NEW j \in 1 .. Len(inactive'), NEW l \in 1 .. Len(inactive'),
                 j < l, valid'[inactive'[l]]
          PROVE  valid'[inactive'[j]]
      <4>1. CASE j = 1
        BY <1>1, <1>2, <3>1, <4>1
      <4>2. CASE j # 1
        <5>1. /\ j - 1 \in 1 .. Len(inactive) /\ (j - 1) + 1 = j
              /\ l - 1 \in 1 .. Len(inactive) /\ (l - 1) + 1 = l
              /\ j - 1 < l - 1
          BY <3>1, <3>2, <4>2 DEF TypeOK
        <5>2. inactive'[j] = inactive[j - 1] /\ inactive'[l] = inactive[l - 1]
          BY <3>1, <5>1
        <5>3. valid[inactive[l - 1]]
          BY <1>2, <3>2, <5>2
        <5> QED
          BY <1>2, <5>1, <5>2, <5>3 DEF UnusedLast
      <4> QED
        BY <4>1, <4>2
    <3>3. \A c \in Bufs : ~valid'[c] => block'[c] = 0 /\ ref'[c] = 0
      BY <1>2, <2>4 DEF UnusedLast
    <3> QED
      BY <3>2, <3>3 DEF UnusedLast
  <2>10. OwnKeepsBlock'
    <3> SUFFICES ASSUME ~shared', NEW g \in Holders, NEW e \in holds'[g]
                 PROVE  block'[e[1]] = e[2] /\ ref'[e[1]] = 1
      BY DEF OwnKeepsBlock, HeldKeepsBlock
    <3>1. e \in holds[g] /\ (g = h => e # r) /\ ~shared
      BY <1>2, <1>4
    <3>2. e[1] \in Bufs /\ block[e[1]] = e[2] /\ ref[e[1]] = 1
      BY <3>1 DEF TypeOK, OwnKeepsBlock, HeldKeepsBlock
    <3>3. block[r[1]] = r[2] /\ r[1] = b
      BY <1>1, <3>1 DEF OwnKeepsBlock, HeldKeepsBlock
    <3>4. e[1] # b
      BY <1>1, <3>1, <3>2, <3>3 DEF Unshared
    <3> QED
      BY <1>2, <2>4, <3>2, <3>4
  <2> QED
    BY <1>3, <1>5, <2>7, <2>8, <2>9, <2>10
<1> QED
  BY <1>1, <1>6, <1>7 DEF TypeOK

\* Steps that stop the kernel or do nothing.
LEMMA StepIdle ==
  ASSUME IInv, UNCHANGED <<active, inactive, block, ref, valid, data, disk,
                           holds, shared>>,
         panic' \in {"none", "full", "underflow"}
  PROVE  IInv'
<1> USE DEF IInv
<1>1. TypeOK' /\ Lists' /\ UnusedLast'
  BY DEF TypeOK, Lists, UnusedLast
<1>2. OneCopy' /\ Coherent' /\ HeldValid' /\ Unshared'
  BY DEF OneCopy, Coherent, HeldValid, Unshared
<1>3. OwnKeepsBlock'
  BY DEF OwnKeepsBlock, HeldKeepsBlock
<1> QED
  BY <1>1, <1>2, <1>3

-----------------------------------------------------------------------------
(* The theorems. *)

\* Every step preserves the invariant.
LEMMA Inductive == IInv /\ [Next]_vars => IInv'
<1> SUFFICES ASSUME IInv, [Next]_vars PROVE IInv'
  OBVIOUS
<1>1. ASSUME NEW h \in Holders, NEW k \in Blocks, Read(h, k) PROVE IInv'
  <2>1. CASE ReadFull(h, k)
    BY <2>1, StepIdle DEF ReadFull
  <2> QED
    BY <1>1, <2>1, StepReadActive, StepReadInactive, StepReadRecycle DEF Read
<1>2. ASSUME NEW h \in Holders, NEW b \in Bufs, NEW k \in Blocks, Release(h, b, k)
      PROVE  IInv'
  BY <1>2, StepRelease
<1>3. ASSUME NEW h \in Holders, NEW b \in Bufs, NEW k \in Blocks, NEW v \in Values,
             Write(h, b, k, v)
      PROVE  IInv'
  BY <1>3, StepWrite
<1>4. CASE UNCHANGED vars
  <2>1. panic' \in {"none", "full", "underflow"}
    BY <1>4 DEF vars, IInv, TypeOK
  <2> QED
    BY <1>4, <2>1, StepIdle DEF vars
<1> QED
  BY <1>1, <1>2, <1>3, <1>4 DEF Next, Step, Stopped

\* The invariant holds throughout.
THEOREM Invariant == Spec => []IInv
BY InitInv, Inductive, PTL DEF Spec

\* Every variable of the buffer cache keeps its type (buffer/mod.rs).
THEOREM TypeCorrect == Spec => []TypeOK
<1>1. IInv => TypeOK
  BY DEF IInv
<1> QED
  BY <1>1, Invariant, PTL

\* No block is ever in two valid buffers, for any number of buffers.
THEOREM SingleCopy == Spec => []OneCopy
<1>1. IInv => OneCopy
  BY DEF IInv
<1> QED
  BY <1>1, Invariant, PTL

\* A valid buffer has the contents of its block on the disk.
THEOREM CacheCoherent == Spec => []Coherent
<1>1. IInv => Coherent
  BY DEF IInv
<1> QED
  BY <1>1, Invariant, PTL

\* The two lists hold every buffer once, according to its reference count.
THEOREM ListsExact == Spec => []ListsMatchRefs
<1>1. IInv => ListsMatchRefs
  BY DEF IInv, Lists, ListsMatchRefs, In, Distinct
<1> QED
  BY <1>1, Invariant, PTL

\* As long as no block has had two holders, a held buffer keeps its block.
THEOREM UnsharedSafe == Spec => []OwnKeepsBlock
<1>1. IInv => OwnKeepsBlock
  BY DEF IInv
<1> QED
  BY <1>1, Invariant, PTL
=============================================================================
