---------------------------- MODULE BlockProofs -----------------------------
(***************************************************************************)
(* The block layer: the driver, for any number of harts, blocks and        *)
(* contents, and the buffer cache over linked nodes, for any number of     *)
(* buffers, blocks, contents and holders.                                  *)
(*                                                                         *)
(* The cache is shown to implement BufferCache, whose invariant            *)
(* BufferCacheProofs proves: the links always spell two lists, in both     *)
(* directions and with no node in common (Linked), so each helper of       *)
(* lru.rs does to the lists what BufferCache says.  What holds of the      *)
(* lists then holds of the nodes.                                          *)
(***************************************************************************)
EXTENDS BufferLru, VirtioDisk, WellFoundedInduction, TLAPS

-----------------------------------------------------------------------------
(* The driver. *)

\* Who holds the lock, and when a handler can be running on rw's own hart.
Locking ==
  /\ lock = "rw" <=> pc = "notified"
  /\ pc \in {"want", "notified"} => ~ sie /\ claimed # Me
  /\ lock = "isr" => claimed # NoHart

\* What the status byte and the device's progress say about the data.
Progress ==
  /\ pc \in {"idle", "want"} => dev = "idle"
  /\ dev = "moved" => stored[req.block] = buf
  /\ pc = "poll" /\ status # 255 =>
       dev = "idle" /\ (status = 0 => stored[req.block] = buf)

RwInv == RwTypeOK /\ Locking /\ Progress

\* Before the first request nothing is held and nothing is going on.
LEMMA InitRw == RwInit => RwInv
  BY NoHartAssumption, Zenon DEF RwInit, RwInv, RwTypeOK, Locking, Progress

\* rw, the device and the handler preserve the invariant, action by action.
LEMMA NextRw == RwInv /\ [RwNext]_rwVars => RwInv'
  <1> SUFFICES ASSUME RwInv, [RwNext]_rwVars PROVE RwInv'
    BY Zenon
  <1> USE VirtioAssumption, NoHartAssumption
         DEF RwInv, RwTypeOK, Locking, Progress, Request, Undisturbed
  <1>1. ASSUME NEW b \in BlockNos, NEW w \in BOOLEAN, NEW v \in Contents,
               NEW s \in BOOLEAN, Enter(b, w, v, s)
        PROVE  RwInv'
    BY <1>1, Zenon DEF Enter
  <1>2. CASE Submit
    BY <1>2, Zenon DEF Submit
  <1>3. CASE Mark
    BY <1>3, Zenon DEF Mark
  <1>4. CASE Poll
    <2>1. RwTypeOK'
      <3>1. pc' \in {"idle", "want", "notified", "poll"} /\ sie' \in BOOLEAN
        BY <1>4, Zenon DEF Poll
      <3> QED
        BY <1>4, <3>1 DEF Poll
    <2>2. Locking' /\ Progress'
      BY <1>4 DEF Poll
    <2> QED
      BY <2>1, <2>2, Zenon
  <1>5. CASE DevMove
    BY <1>5 DEF DevMove
  <1>6. CASE DevStatus
    BY <1>6 DEF DevStatus
  <1>7. CASE DevFail
    BY <1>7 DEF DevFail
  <1>8. CASE DevRaise
    <2>1. RwTypeOK'
      <3>1. irq' \in BOOLEAN /\ owed' \in BOOLEAN
        BY <1>8, Zenon DEF DevRaise
      <3> QED
        BY <1>8, <3>1 DEF DevRaise
    <2>2. Locking' /\ Progress'
      BY <1>8 DEF DevRaise
    <2> QED
      BY <2>1, <2>2, Zenon
  <1>9. ASSUME NEW h \in Harts, Claim(h) PROVE RwInv'
    BY <1>9 DEF Claim
  <1>10. CASE IsrLock
    BY <1>10 DEF IsrLock
  <1>11. CASE IsrDone
    <2>1. RwTypeOK'
      <3>1. irq' \in BOOLEAN
        BY <1>11, Zenon DEF IsrDone
      <3> QED
        BY <1>11, <3>1 DEF IsrDone
    <2>2. Locking' /\ Progress'
      BY <1>11 DEF IsrDone
    <2> QED
      BY <2>1, <2>2, Zenon
  <1>12. CASE UNCHANGED rwVars
    BY <1>12 DEF rwVars
  <1> QED
    BY <1>1, <1>2, <1>3, <1>4, <1>5, <1>6, <1>7, <1>8, <1>9, <1>10, <1>11,
       <1>12
    DEF RwNext, Device, DevServe, Isr, RwStep, Call

\* RwInv is an invariant of the specification.
LEMMA AlwaysRw == RwSpec => []RwInv
  BY InitRw, NextRw, PTL DEF RwSpec

\* The driver's state is well typed.
THEOREM RwTypeCorrect == RwSpec => []RwTypeOK
  BY AlwaysRw, PTL DEF RwInv

\* Clearing SIE before DISK is taken keeps the handler from spinning on a lock
\* that the rw underneath it holds.
THEOREM NoIsrDeadlock == RwSpec => []NoSelfDeadlock
  <1>1. RwInv => NoSelfDeadlock
    BY Zenon DEF RwInv, Locking, NoSelfDeadlock
  <1> QED
    BY <1>1, AlwaysRw, PTL

\* rw never returns early: the device is done with the chain and, if it
\* succeeded, the transfer has happened.
THEOREM ReturnIsCompletion == RwSpec => CompleteOnReturn
  <1>1. RwInv /\ [RwNext]_rwVars =>
          [pc = "poll" /\ pc' = "idle" =>
             dev = "idle" /\ (status = 0 => stored[req.block] = buf)]_rwVars
    <2> SUFFICES ASSUME RwInv, RwNext, pc = "poll", pc' = "idle"
                 PROVE  dev = "idle" /\ (status = 0 => stored[req.block] = buf)
      BY Zenon DEF rwVars
    <2>1. Poll
      BY Zenon DEF RwNext, Device, DevServe, Isr, RwStep, Call, DevMove, DevStatus,
         DevFail, DevRaise, Claim, IsrLock, IsrDone, Submit, Mark, Enter
    <2>2. status # 255
      BY <2>1, Zenon DEF Poll
    <2> QED
      BY <2>2, Zenon DEF RwInv, Progress
  <1> QED
    BY <1>1, AlwaysRw, PTL DEF RwSpec, CompleteOnReturn
-----------------------------------------------------------------------------
(* The buffer cache over linked nodes. *)

P == INSTANCE BufferCacheProofs WITH active <- Active, inactive <- Inactive

Links ==
  [activeHead : Bufs \cup {nil}, inactiveHead : Bufs \cup {nil},
   next : [Bufs -> Bufs \cup {nil}], prev : [Bufs -> Bufs \cup {nil}]]

\* The nodes from h on are those of s, in both directions.
Chain(l, h, s) ==
  /\ h = IF s = <<>> THEN nil ELSE s[1]
  /\ \A i \in 1 .. Len(s) :
       /\ l.next[s[i]] = IF i = Len(s) THEN nil ELSE s[i + 1]
       /\ l.prev[s[i]] = IF i = 1 THEN nil ELSE s[i - 1]

USE BufferAssumption

\* The buffers are the same ones in both modules.
LEMMA SameBufs == P!Bufs = Bufs /\ Cache!Bufs = Bufs
  BY Zenon DEF P!Bufs, Cache!Bufs, Bufs

\* A set of numbers has a least one.
LEMMA Least ==
  ASSUME NEW S \in SUBSET Nat, S # {}
  PROVE  \E m \in S : \A n \in S : m <= n
<1>1. IsWellFoundedOn(OpToRel(<, Nat), Nat)
  BY NatLessThanWellFounded, Zenon
<1>2. PICK m \in S : \A n \in S : <<n, m>> \notin OpToRel(<, Nat)
  BY <1>1, WFMin, Zenon
<1>3. \A n \in S : ~(n < m)
  BY <1>2, Zenon DEF OpToRel
<1> QED
  BY <1>3

\* nil is no buffer.
LEMMA Nil == nil \notin Bufs
  BY BufferAssumption DEF nil, Bufs

\* What Walk reads from each node in n steps, when f says it for n - 1 steps.
Row(next, f, n) ==
  [b \in Bufs \cup {nil} |->
     IF b = nil \/ n = 0 THEN <<>> ELSE <<b>> \o f[n - 1][next[b]]]

\* The function that Walk defines by recursion on the number of steps exists.
LEMMA Recursion ==
  ASSUME NEW next
  PROVE  \E f : f = [n \in 0 .. N |-> Row(next, f, n)]
<1> DEFINE upTo(k, f) == f = [n \in 0 .. k |-> Row(next, f, n)]
           D == {k \in 0 .. N : ~\E f : upTo(k, f)}
<1>1. ASSUME D # {} PROVE FALSE
  <2>1. D \in SUBSET Nat
    OBVIOUS
  <2>2. PICK m \in D : \A k \in D : m <= k
    BY <2>1, <1>1, Least, Zenon
  <2>3. m \in 0 .. N /\ ~\E f : upTo(m, f)
    BY <2>2, Zenon
  <2> HIDE DEF upTo
  <2>4. CASE m = 0
    <3> DEFINE g == [n \in 0 .. 0 |-> [b \in Bufs \cup {nil} |-> <<>>]]
    <3>1. \A n \in 0 .. 0 : g[n] = Row(next, g, n)
      BY DEF Row
    <3>2. g = [n \in 0 .. 0 |-> Row(next, g, n)]
      BY <3>1
    <3> HIDE DEF g
    <3> QED
      BY <3>2, <2>3, <2>4, Zenon DEF upTo
  <2>5. CASE m # 0
    <3>1. m - 1 \in 0 .. N /\ ~(m <= m - 1)
      BY <2>3, <2>5
    <3>2. PICK f : upTo(m - 1, f)
      BY <3>1, <2>2, Zenon
    <3> DEFINE g == [n \in 0 .. m |-> IF n = m THEN Row(next, f, m) ELSE f[n]]
    <3>3. ASSUME NEW n \in 0 .. m PROVE Row(next, g, n) = Row(next, f, n)
      <4>1. CASE n = 0
        BY <4>1, Zenon DEF Row
      <4>2. CASE n # 0
        <5>1. g[n - 1] = f[n - 1]
          BY <4>2, <2>3
        <5> HIDE DEF g
        <5> QED
          BY <5>1, Zenon DEF Row
      <4> QED
        BY <4>1, <4>2, Zenon
    <3>4. \A n \in 0 .. m : n # m => f[n] = Row(next, f, n)
      <4>1. ASSUME NEW n \in 0 .. m, n # m PROVE f[n] = Row(next, f, n)
        <5>1. n \in 0 .. m - 1
          BY <4>1, <2>3
        <5>2. f = [k \in 0 .. m - 1 |-> Row(next, f, k)]
          BY <3>2, Zenon DEF upTo
        <5> QED
          BY <5>1, <5>2
      <4> QED
        BY <4>1, Zenon
    <3>5. g = [n \in 0 .. m |-> Row(next, f, n)]
      BY <3>4, Zenon
    <3>6. g = [n \in 0 .. m |-> Row(next, g, n)]
      <4> HIDE DEF g
      <4> QED
        BY <3>3, <3>5, Zenon
    <3> HIDE DEF g
    <3> QED
      BY <3>6, <2>3, Zenon DEF upTo
  <2> QED
    BY <2>4, <2>5, Zenon
<1>2. N \in 0 .. N
  OBVIOUS
<1> QED
  BY <1>1, <1>2, Zenon

\* What the links spell is what Walk reads.
LEMMA Spelled ==
  ASSUME NEW l \in Links, NEW h, NEW s \in Seq(Bufs), Chain(l, h, s), Len(s) <= N
  PROVE  Walk(l, h) = s
<1> DEFINE from == CHOOSE f : f = [n \in 0 .. N |-> Row(l.next, f, n)]
           first(j) == IF j = 0 THEN nil ELSE s[Len(s) - j + 1]
           last(j) == [i \in 1 .. j |-> s[Len(s) - j + i]]
           steps(j) == N - Len(s) + j
           D == {j \in 0 .. Len(s) : from[steps(j)][first(j)] # last(j)}
<1>1. Walk(l, h) = from[N][h]
  BY Zenon DEF Walk, Row
<1>2. from = [n \in 0 .. N |-> Row(l.next, from, n)]
  BY Recursion, Zenon
<1> HIDE DEF from
<1>3. ASSUME NEW j \in 0 .. Len(s), from[steps(j)][first(j)] # last(j),
             \A k \in D : j <= k
      PROVE  FALSE
  <2>1. steps(j) \in 0 .. N /\ first(j) \in Bufs \cup {nil}
    OBVIOUS
  <2>2. from[steps(j)][first(j)] =
          IF first(j) = nil \/ steps(j) = 0 THEN <<>>
          ELSE <<first(j)>> \o from[steps(j) - 1][l.next[first(j)]]
    <3>1. from[steps(j)] = Row(l.next, from, steps(j))
      BY <2>1, <1>2, Zenon
    <3> QED
      BY <3>1, <2>1, Zenon DEF Row
  <2>3. CASE j = 0
    BY <2>2, <2>3, <1>3
  <2>4. CASE j # 0
    <3>1. /\ j - 1 \in 0 .. Len(s) /\ ~(j <= j - 1)
          /\ steps(j) # 0 /\ steps(j) - 1 = steps(j - 1)
          /\ Len(s) - j + 1 \in 1 .. Len(s)
      BY <2>4
    <3>2. first(j) = s[Len(s) - j + 1] /\ first(j) \in Bufs /\ first(j) # nil
      BY <2>4, <3>1, Nil
    <3>3. l.next[first(j)] = first(j - 1)
      <4>1. l.next[s[Len(s) - j + 1]] = IF Len(s) - j + 1 = Len(s) THEN nil
                                         ELSE s[Len(s) - j + 1 + 1]
        BY <3>1, Zenon DEF Chain
      <4>2. /\ Len(s) - j + 1 = Len(s) <=> j - 1 = 0
            /\ Len(s) - j + 1 + 1 = Len(s) - (j - 1) + 1
        BY <2>4
      <4> QED
        BY <4>1, <4>2, <3>2, Zenon
    <3>4. from[steps(j - 1)][first(j - 1)] = last(j - 1)
      BY <3>1, <1>3, Zenon
    <3>5. from[steps(j)][first(j)] = <<first(j)>> \o last(j - 1)
      BY <2>2, <3>1, <3>2, <3>3, <3>4, Zenon
    <3>6. <<s[Len(s) - j + 1]>> \o last(j - 1) = last(j)
      BY <2>4
    <3> QED
      BY <3>2, <3>5, <3>6, <1>3, Zenon
  <2> QED
    BY <2>3, <2>4, Zenon
<1>4. D = {}
  <2> SUFFICES ASSUME D # {} PROVE FALSE
    BY Zenon
  <2>1. D \in SUBSET Nat
    OBVIOUS
  <2>2. PICK j \in D : \A k \in D : j <= k
    <3> HIDE DEF D
    <3> QED
      BY <2>1, Least, Zenon
  <2> QED
    BY <2>2, <1>3, Zenon
<1>5. from[steps(Len(s))][first(Len(s))] = last(Len(s))
  <2>1. Len(s) \in 0 .. Len(s)
    OBVIOUS
  <2> HIDE DEF first, last, steps
  <2> QED
    BY <1>4, <2>1, Zenon
<1>6. steps(Len(s)) = N /\ first(Len(s)) = h /\ last(Len(s)) = s
  BY DEF Chain
<1> QED
  BY <1>1, <1>5, <1>6, Zenon

\* remove_node takes s[i] out of its list and leaves the other list alone.
LEMMA Removed ==
  ASSUME NEW l \in Links, NEW h, NEW g, NEW s \in Seq(Bufs), NEW t \in Seq(Bufs),
         Chain(l, h, s), Chain(l, g, t), P!Distinct(s),
         \A i \in 1 .. Len(s), j \in 1 .. Len(t) : s[i] # t[j],
         NEW i \in 1 .. Len(s)
  PROVE  /\ RemoveNode(l, s[i]) \in Links
         /\ Chain(RemoveNode(l, s[i]), IF h = s[i] THEN l.next[s[i]] ELSE h,
                  P!Without(s, i))
         /\ Chain(RemoveNode(l, s[i]), g, t)
         /\ l.prev[s[i]] = nil <=> h = s[i]
<1> DEFINE b == s[i]
           m == RemoveNode(l, b)
           w == P!Without(s, i)
<1>1. b \in Bufs /\ l.next[b] \in Bufs \cup {nil} /\ l.prev[b] \in Bufs \cup {nil}
  BY DEF Links
<1>2. m \in Links
  BY <1>1, Zenon DEF RemoveNode, Links
<1>3. /\ m.next = [c \in Bufs |-> IF c = b THEN nil ELSE IF c = l.prev[b]
                                    THEN l.next[b] ELSE l.next[c]]
      /\ m.prev = [c \in Bufs |-> IF c = b THEN nil ELSE IF c = l.next[b]
                                    THEN l.prev[b] ELSE l.prev[c]]
  BY Zenon DEF RemoveNode, Links
<1>4. /\ l.next[b] = IF i = Len(s) THEN nil ELSE s[i + 1]
      /\ l.prev[b] = IF i = 1 THEN nil ELSE s[i - 1]
  BY Zenon DEF Chain
<1>5. /\ w \in Seq(Bufs) /\ Len(w) = Len(s) - 1
      /\ \A j \in 1 .. Len(s) - 1 : w[j] = IF j < i THEN s[j] ELSE s[j + 1]
  BY P!WithoutElements, Zenon
<1>6. l.prev[b] = nil <=> h = b
  BY <1>4, Nil DEF Chain, P!Distinct
<1> HIDE DEF m, w
<1>7. Chain(m, g, t)
  <2>1. \A j \in 1 .. Len(t) : t[j] \in Bufs /\ t[j] # b
    OBVIOUS
  <2>2. \A j \in 1 .. Len(t) : t[j] # l.next[b] /\ t[j] # l.prev[b]
    <3>1. i # Len(s) => i + 1 \in 1 .. Len(s)
      OBVIOUS
    <3>2. i # 1 => i - 1 \in 1 .. Len(s)
      OBVIOUS
    <3> QED
      BY <1>4, <2>1, <3>1, <3>2, Nil, Zenon
  <2> QED
    BY <1>3, <2>1, <2>2 DEF Chain
<1>8. Chain(m, IF h = b THEN l.next[b] ELSE h, w)
  <2>1. (IF h = b THEN l.next[b] ELSE h) = IF w = <<>> THEN nil ELSE w[1]
    BY <1>4, <1>5, <1>6, Nil DEF Chain
  <2>2. ASSUME NEW j \in 1 .. Len(w)
        PROVE  m.next[w[j]] = IF j = Len(w) THEN nil ELSE w[j + 1]
    <3>1. w[j] \in Bufs /\ w[j] # b
      BY <1>5 DEF P!Distinct
    <3>2. CASE j < i
      <4>1. w[j] = s[j] /\ l.next[s[j]] = s[j + 1]
        BY <1>5, <3>2 DEF Chain
      <4>2. s[j] = l.prev[b] <=> j + 1 = i
        BY <1>4, <3>2, Nil DEF P!Distinct
      <4>3. m.next[w[j]] = IF s[j] = l.prev[b] THEN l.next[b] ELSE l.next[s[j]]
        BY <1>3, <3>1, <4>1
      <4>4. CASE j + 1 = i
        BY <1>4, <1>5, <4>2, <4>3, <4>4
      <4>5. CASE j + 1 # i
        <5>1. j + 1 \in 1 .. Len(s) - 1 /\ j + 1 < i /\ j # Len(w)
          BY <1>5, <3>2, <4>5
        <5>2. w[j + 1] = s[j + 1]
          BY <1>5, <5>1, Zenon
        <5> QED
          BY <4>1, <4>2, <4>3, <4>5, <5>1, <5>2, Zenon
      <4> QED
        BY <4>4, <4>5, Zenon
    <3>3. CASE ~(j < i)
      <4>1. /\ w[j] = s[j + 1] /\ j + 1 \in 1 .. Len(s)
            /\ l.next[s[j + 1]] = IF j + 1 = Len(s) THEN nil ELSE s[j + 2]
        BY <1>5, <3>3 DEF Chain
      <4>2. s[j + 1] # l.prev[b]
        BY <1>4, <3>3, <4>1, Nil, SMTT(30) DEF P!Distinct
      <4> QED
        BY <1>3, <1>5, <3>1, <3>3, <4>1, <4>2
    <3> QED
      BY <3>2, <3>3, Zenon
  <2>3. ASSUME NEW j \in 1 .. Len(w)
        PROVE  m.prev[w[j]] = IF j = 1 THEN nil ELSE w[j - 1]
    <3>1. w[j] \in Bufs /\ w[j] # b
      BY <1>5 DEF P!Distinct
    <3>2. CASE j < i
      <4>1. w[j] = s[j] /\ l.prev[s[j]] = IF j = 1 THEN nil ELSE s[j - 1]
        BY <1>5, <3>2 DEF Chain
      <4>2. s[j] # l.next[b]
        <5>1. /\ i # Len(s) => i + 1 \in 1 .. Len(s) /\ i + 1 # j
              /\ j \in 1 .. Len(s)
          BY <1>5, <3>2
        <5> QED
          BY <1>4, <3>1, <4>1, <5>1, Nil, Zenon DEF P!Distinct
      <4> QED
        BY <1>3, <1>5, <3>1, <3>2, <4>1, <4>2
    <3>3. CASE ~(j < i)
      <4>1. /\ w[j] = s[j + 1] /\ j + 1 \in 1 .. Len(s) /\ l.prev[s[j + 1]] = s[j]
        BY <1>5, <3>3 DEF Chain
      <4>2. s[j + 1] = l.next[b] <=> j = i
        BY <1>4, <3>3, <4>1, Nil, SMTT(30) DEF P!Distinct
      <4> QED
        BY <1>3, <1>4, <1>5, <3>1, <3>3, <4>1, <4>2
    <3> QED
      BY <3>2, <3>3, Zenon
  <2> QED
    BY <2>1, <2>2, <2>3, Zenon DEF Chain
<1> QED
  BY <1>2, <1>6, <1>7, <1>8, Zenon DEF m, w

\* The node b, in no list, is put in front of s; the other list is left alone.
LEMMA Inserted ==
  ASSUME NEW l \in Links, NEW h, NEW g, NEW s \in Seq(Bufs), NEW t \in Seq(Bufs),
         Chain(l, h, s), Chain(l, g, t), P!Distinct(s), NEW b \in Bufs,
         \A i \in 1 .. Len(s), j \in 1 .. Len(t) : s[i] # t[j],
         ~P!In(s, b), ~P!In(t, b)
  PROVE  /\ LinkBefore(l, b, h) \in Links
         /\ Chain(LinkBefore(l, b, h), b, <<b>> \o s)
         /\ Chain(LinkBefore(l, b, h), g, t)
<1> DEFINE m == LinkBefore(l, b, h)
           c == <<b>> \o s
<1>1. h \in Bufs \cup {nil}
  BY DEF Chain
<1>2. m \in Links
  BY <1>1, Zenon DEF LinkBefore, Links
<1>3. /\ m.next = [l.next EXCEPT ![b] = h]
      /\ m.prev = [d \in Bufs |-> IF d = h THEN b ELSE IF d = b THEN nil
                                                             ELSE l.prev[d]]
  BY Zenon DEF LinkBefore, Links
<1>4. /\ c \in Seq(Bufs) /\ Len(c) = Len(s) + 1 /\ c[1] = b
      /\ \A i \in 1 .. Len(s) : c[i + 1] = s[i]
  BY P!ConsElements
<1>5. l.next \in [Bufs -> Bufs \cup {nil}]
  BY Zenon DEF Links
<1> HIDE DEF m, c
<1>6. Chain(m, g, t)
  <2>1. \A j \in 1 .. Len(t) : t[j] \in Bufs /\ t[j] # b /\ t[j] # h
    <3>1. s # <<>> => 1 \in 1 .. Len(s)
      OBVIOUS
    <3> QED
      BY <3>1, Nil DEF Chain, P!In
  <2> QED
    BY <1>3, <1>5, <2>1 DEF Chain
<1>7. h # b
  BY Nil DEF Chain, P!In
<1>8. Chain(m, b, c)
  <2>1. b = IF c = <<>> THEN nil ELSE c[1]
    BY <1>4
  <2>2. ASSUME NEW i \in 1 .. Len(s)
        PROVE  /\ m.next[s[i]] = IF i + 1 = Len(c) THEN nil ELSE c[i + 2]
               /\ m.prev[s[i]] = c[i]
    <3>1. /\ s[i] \in Bufs /\ s[i] # b /\ (s[i] = h <=> i = 1)
          /\ l.next[s[i]] = IF i = Len(s) THEN nil ELSE s[i + 1]
          /\ l.prev[s[i]] = IF i = 1 THEN nil ELSE s[i - 1]
      BY DEF Chain, P!In, P!Distinct
    <3>2. m.next[s[i]] = l.next[s[i]]
      BY <1>3, <1>5, <3>1, Zenon
    <3>3. m.prev[s[i]] = IF i = 1 THEN b ELSE s[i - 1]
      BY <1>3, <3>1, Zenon
    <3>4. i # Len(s) => c[(i + 1) + 1] = s[i + 1]
      <4>1. i # Len(s) => i + 1 \in 1 .. Len(s)
        OBVIOUS
      <4> QED
        BY <1>4, <4>1, Zenon
    <3>5. i # 1 => c[(i - 1) + 1] = s[i - 1]
      BY <1>4
    <3> QED
      BY <1>4, <3>1, <3>2, <3>3, <3>4, <3>5
  <2>3. /\ m.next[b] = IF 1 = Len(c) THEN nil ELSE c[2]
        /\ m.prev[b] = nil
    <3>1. s # <<>> => c[1 + 1] = s[1]
      BY <1>4
    <3> QED
      BY <1>3, <1>4, <1>5, <1>7, <3>1 DEF Chain
  <2>4. ASSUME NEW j \in 1 .. Len(c)
        PROVE  /\ m.next[c[j]] = IF j = Len(c) THEN nil ELSE c[j + 1]
               /\ m.prev[c[j]] = IF j = 1 THEN nil ELSE c[j - 1]
    <3>1. CASE j = 1
      BY <1>4, <2>3, <3>1
    <3>2. CASE j # 1
      <4>1. PICK i \in 1 .. Len(s) : j = i + 1 /\ c[j] = s[i]
        <5>1. j - 1 \in 1 .. Len(s) /\ j = (j - 1) + 1
          BY <1>4, <3>2
        <5> QED
          BY <1>4, <5>1, Zenon
      <4> QED
        BY <2>2, <4>1, <1>4
    <3> QED
      BY <3>1, <3>2, Zenon
  <2> QED
    BY <2>1, <2>4, Zenon DEF Chain
<1> QED
  BY <1>2, <1>6, <1>8, Zenon DEF m, c

-----------------------------------------------------------------------------
\* The links, and what they spell.
Linked ==
  /\ links \in Links
  /\ Chain(links, links.activeHead, Active)
  /\ Chain(links, links.inactiveHead, Inactive)
  /\ Len(Active) + Len(Inactive) = N

USE SameBufs

\* No buffer is in both lists.
LEMMA Apart ==
  ASSUME P!IInv
  PROVE  /\ Active \in Seq(Bufs) /\ Inactive \in Seq(Bufs)
         /\ P!Distinct(Active) /\ P!Distinct(Inactive)
         /\ \A i \in 1 .. Len(Active), j \in 1 .. Len(Inactive) :
              Active[i] # Inactive[j]
<1>1. /\ Active \in Seq(Bufs) /\ Inactive \in Seq(Bufs)
      /\ P!Distinct(Active) /\ P!Distinct(Inactive)
  BY Zenon DEF P!IInv, P!TypeOK, P!Lists
<1>2. ASSUME NEW i \in 1 .. Len(Active), NEW j \in 1 .. Len(Inactive),
             Active[i] = Inactive[j]
      PROVE  FALSE
  <2>1. Active[i] \in Bufs /\ P!In(Active, Active[i]) /\ P!In(Inactive, Active[i])
    BY <1>1, <1>2 DEF P!In
  <2> QED
    BY <2>1 DEF P!IInv, P!Lists
<1> QED
  BY <1>1, <1>2, Zenon

\* insert_active_head on a node of the inactive list.
LEMMA Activates ==
  ASSUME Linked, P!IInv, NEW i \in 1 .. Len(Inactive),
         links' = InsertActiveHead(links, Inactive[i])
  PROVE  /\ Active' = <<Inactive[i]>> \o Active
         /\ Inactive' = P!Without(Inactive, i)
         /\ Linked'
<1> DEFINE b == Inactive[i]
           a == Active
           n == Inactive
           w == P!Without(Inactive, i)
           c == <<Inactive[i]>> \o Active
           r == RemoveNode(links, b)
           m == LinkBefore(r, b, r.activeHead)
<1>1. /\ a \in Seq(Bufs) /\ n \in Seq(Bufs) /\ b \in Bufs
      /\ P!Distinct(a) /\ P!Distinct(n) /\ ~P!In(a, b)
      /\ \A j \in 1 .. Len(n), k \in 1 .. Len(a) : n[j] # a[k]
  BY Apart DEF P!In
<1>2. /\ w \in Seq(Bufs) /\ c \in Seq(Bufs) /\ P!Distinct(w) /\ P!Distinct(c)
      /\ \A d \in Bufs : P!In(w, d) <=> P!In(n, d) /\ d # b
  BY <1>1, P!Moved, Zenon
<1>3. Len(w) = Len(n) - 1 /\ Len(c) = Len(a) + 1
  BY <1>1, P!WithoutElements
<1>4. /\ r \in Links /\ Chain(r, links.activeHead, a)
      /\ Chain(r, IF links.inactiveHead = b THEN links.next[b] ELSE links.inactiveHead, w)
      /\ links.prev[b] = nil <=> links.inactiveHead = b
  BY <1>1, Removed DEF Linked
<1>5. links.activeHead # b
  BY <1>1, Nil DEF Linked, Chain, P!In
<1>6. /\ r.activeHead = links.activeHead
      /\ r.inactiveHead = IF links.inactiveHead = b THEN links.next[b]
                                                    ELSE links.inactiveHead
  BY <1>4, <1>5, Zenon DEF RemoveNode
<1>7. ~P!In(w, b) /\ \A j \in 1 .. Len(a), k \in 1 .. Len(w) : a[j] # w[k]
  <2>1. \A k \in 1 .. Len(w) : w[k] \in Bufs /\ P!In(w, w[k])
    BY <1>2 DEF P!In
  <2>2. \A k \in 1 .. Len(w) : P!In(n, w[k]) /\ w[k] # b
    BY <1>2, <2>1, Zenon
  <2> QED
    BY <1>1, <1>2, <2>2 DEF P!In
<1> HIDE DEF r, b, w, c
<1>8. m \in Links /\ Chain(m, b, c) /\ Chain(m, r.inactiveHead, w)
  BY <1>1, <1>2, <1>4, <1>6, <1>7, Inserted, Zenon DEF b, c
<1>9. /\ links' \in Links /\ links'.next = m.next /\ links'.prev = m.prev
      /\ links'.activeHead = b /\ links'.inactiveHead = r.inactiveHead
  BY <1>1, <1>4, <1>8, Zenon DEF InsertActiveHead, r, b, Links, LinkBefore
<1> HIDE DEF m
<1>10. Chain(links', links'.activeHead, c) /\ Chain(links', links'.inactiveHead, w)
  BY <1>8, <1>9 DEF Chain
<1>11. Len(w) <= N /\ Len(c) <= N /\ Len(w) + Len(c) = N
  BY <1>1, <1>2, <1>3 DEF Linked
<1>12. Active' = c /\ Inactive' = w
  BY <1>2, <1>9, <1>10, <1>11, Spelled, Zenon DEF Active, Inactive
<1> QED
  BY <1>9, <1>10, <1>11, <1>12 DEF Linked, c, w, b

\* insert_inactive_head on a node of the active list.
LEMMA Deactivates ==
  ASSUME Linked, P!IInv, NEW i \in 1 .. Len(Active),
         links' = InsertInactiveHead(links, Active[i])
  PROVE  /\ Inactive' = <<Active[i]>> \o Inactive
         /\ Active' = P!Without(Active, i)
         /\ Linked'
<1> DEFINE b == Active[i]
           a == Active
           n == Inactive
           w == P!Without(Active, i)
           c == <<Active[i]>> \o Inactive
           r == RemoveNode(links, b)
           m == LinkBefore(r, b, r.inactiveHead)
<1>1. /\ a \in Seq(Bufs) /\ n \in Seq(Bufs) /\ b \in Bufs
      /\ P!Distinct(a) /\ P!Distinct(n) /\ ~P!In(n, b)
      /\ \A j \in 1 .. Len(a), k \in 1 .. Len(n) : a[j] # n[k]
  BY Apart DEF P!In
<1>2. /\ w \in Seq(Bufs) /\ c \in Seq(Bufs) /\ P!Distinct(w) /\ P!Distinct(c)
      /\ \A d \in Bufs : P!In(w, d) <=> P!In(a, d) /\ d # b
  BY <1>1, P!Moved, Zenon
<1>3. Len(w) = Len(a) - 1 /\ Len(c) = Len(n) + 1
  BY <1>1, P!WithoutElements
<1>4. /\ r \in Links /\ Chain(r, links.inactiveHead, n)
      /\ Chain(r, IF links.activeHead = b THEN links.next[b] ELSE links.activeHead, w)
      /\ links.prev[b] = nil <=> links.activeHead = b
  BY <1>1, Removed DEF Linked
<1>5. links.inactiveHead # b
  BY <1>1, Nil DEF Linked, Chain, P!In
<1>6. /\ r.inactiveHead = links.inactiveHead
      /\ r.activeHead = IF links.activeHead = b THEN links.next[b]
                                                ELSE links.activeHead
  BY <1>4, <1>5, Zenon DEF RemoveNode
<1>7. ~P!In(w, b) /\ \A j \in 1 .. Len(n), k \in 1 .. Len(w) : n[j] # w[k]
  <2>1. \A k \in 1 .. Len(w) : w[k] \in Bufs /\ P!In(w, w[k])
    BY <1>2 DEF P!In
  <2>2. \A k \in 1 .. Len(w) : P!In(a, w[k]) /\ w[k] # b
    BY <1>2, <2>1, Zenon
  <2> QED
    BY <1>1, <1>2, <2>2 DEF P!In
<1> HIDE DEF r, b, w, c
<1>8. m \in Links /\ Chain(m, b, c) /\ Chain(m, r.activeHead, w)
  BY <1>1, <1>2, <1>4, <1>6, <1>7, Inserted, Zenon DEF b, c
<1>9. /\ links' \in Links /\ links'.next = m.next /\ links'.prev = m.prev
      /\ links'.inactiveHead = b /\ links'.activeHead = r.activeHead
  BY <1>1, <1>4, <1>8, Zenon DEF InsertInactiveHead, r, b, Links, LinkBefore
<1> HIDE DEF m
<1>10. Chain(links', links'.inactiveHead, c) /\ Chain(links', links'.activeHead, w)
  BY <1>8, <1>9 DEF Chain
<1>11. Len(w) <= N /\ Len(c) <= N /\ Len(w) + Len(c) = N
  BY <1>1, <1>2, <1>3 DEF Linked
<1>12. Inactive' = c /\ Active' = w
  BY <1>2, <1>9, <1>10, <1>11, Spelled, Zenon DEF Active, Inactive
<1> QED
  BY <1>9, <1>10, <1>11, <1>12, Zenon DEF Linked, c, w, b

\* find_active and find_inactive find what BufferCache finds.
LEMMA Finds ==
  ASSUME NEW h, Walk(links, h) \in Seq(Bufs), NEW k
  PROVE  /\ Find(h, k) = nil => P!Missing(Walk(links, h), k)
         /\ Find(h, k) \in Bufs =>
              \E i \in 1 .. Len(Walk(links, h)) :
                P!Found(Walk(links, h), k, i) /\ Find(h, k) = Walk(links, h)[i]
<1> DEFINE s == Walk(links, h)
           D == {i \in 1 .. Len(s) : block[s[i]] = k}
<1>1. ASSUME D # {}
      PROVE  \E i \in 1 .. Len(s) : P!Found(s, k, i) /\ Find(h, k) = s[i]
  <2>1. PICK m \in D : \A i \in D : m <= i
    <3>1. D \in SUBSET Nat
      OBVIOUS
    <3> HIDE DEF D
    <3> QED
      BY <1>1, <3>1, Least, Zenon
  <2>2. Cache!Found(s, k, m)
    BY <2>1 DEF Cache!Found
  <2>3. Find(h, k) = s[CHOOSE i \in 1 .. Len(s) : Cache!Found(s, k, i)]
    BY <1>1, Zenon DEF Find
  <2> QED
    BY <2>1, <2>2, <2>3, Zenon DEF Cache!Found, P!Found
<1>2. ASSUME D = {} PROVE Find(h, k) = nil /\ P!Missing(s, k)
  BY <1>2, Zenon DEF Find, P!Missing
<1>3. D # {} => Find(h, k) \in Bufs
  BY <1>1
<1> QED
  BY <1>1, <1>2, <1>3, Nil, Zenon

\* BufferCache and the module that proves it invariant mean the same steps.
LEMMA SameCache ==
  /\ Cache!Init <=> P!Init
  /\ Cache!Next <=> P!Next
  /\ Cache!vars = P!vars
<1>0. \A S : Cache!Cardinality(S) = P!Cardinality(S)
  BY Zenon DEF Cache!Cardinality, P!Cardinality
<1> USE <1>0 DEF Cache!MayRead, P!MayRead, Cache!Asks, P!Asks, Cache!Grant, P!Grant,
            Cache!Fetch, P!Fetch, Cache!Bufs, P!Bufs
<1>1. Cache!Init <=> P!Init
  BY Zenon DEF Cache!Init, P!Init
<1>2. Cache!vars = P!vars
  BY Zenon DEF Cache!vars, P!vars
<1>3. ASSUME NEW h, NEW k PROVE Cache!Read(h, k) <=> P!Read(h, k)
  <2>1. Cache!ReadActive(h, k) <=> P!ReadActive(h, k)
    BY Zenon DEF Cache!ReadActive, P!ReadActive, Cache!Found, P!Found
  <2>2. Cache!ReadInactive(h, k) <=> P!ReadInactive(h, k)
    BY Zenon DEF Cache!ReadInactive, P!ReadInactive, Cache!Found, P!Found, Cache!Missing,
       P!Missing, Cache!Take, P!Take, Cache!Without, P!Without
  <2>3. Cache!ReadRecycle(h, k) <=> P!ReadRecycle(h, k)
    BY Zenon DEF Cache!ReadRecycle, P!ReadRecycle, Cache!Recycle, P!Recycle, Cache!Missing,
       P!Missing, Cache!LruPos, P!LruPos, Cache!Without, P!Without
  <2>4. Cache!ReadFull(h, k) <=> P!ReadFull(h, k)
    BY Zenon DEF Cache!ReadFull, P!ReadFull, Cache!Missing, P!Missing
  <2> QED
    BY <2>1, <2>2, <2>3, <2>4, Zenon DEF Cache!Read, P!Read
<1>4. ASSUME NEW h, NEW b, NEW k PROVE Cache!Release(h, b, k) <=> P!Release(h, b, k)
  BY Zenon DEF Cache!Release, P!Release, Cache!Drop, P!Drop, Cache!Without, P!Without
<1>5. ASSUME NEW h, NEW b, NEW k, NEW v
      PROVE  Cache!Write(h, b, k, v) <=> P!Write(h, b, k, v)
  BY Zenon DEF Cache!Write, P!Write
<1>6. Cache!Stopped <=> P!Stopped
  BY <1>2, Zenon DEF Cache!Stopped, P!Stopped, Cache!vars, P!vars
<1>7. Cache!Next <=> P!Next
  BY <1>3, <1>4, <1>5, <1>6, Zenon DEF Cache!Next, P!Next, Cache!Step, P!Step
<1> QED
  BY <1>1, <1>2, <1>7, Zenon

-----------------------------------------------------------------------------
LruInv == Linked /\ P!IInv

\* LRUCache::init.
LEMMA InitLru == Init => P!Init /\ Linked
<1> SUFFICES ASSUME Init PROVE P!Init /\ Linked
  BY Zenon
<1> DEFINE s == [i \in 1 .. N |-> i - 1]
<1>1. s \in Seq(Bufs) /\ Len(s) = N /\ s # <<>> /\ \A i \in 1 .. N : s[i] = i - 1
  <2>1. s \in [1 .. N -> Bufs]
    BY DEF Bufs
  <2> QED
    BY <2>1
<1> HIDE DEF s
<1>2. links \in Links
  BY DEF Init, Links, Bufs, nil
<1>3. Chain(links, links.inactiveHead, s)
  <2>1. /\ \A b \in Bufs : links.next[b] = IF b < N - 1 THEN b + 1 ELSE nil
        /\ \A b \in Bufs : links.prev[b] = IF b > 0 THEN b - 1 ELSE nil
        /\ links.inactiveHead = 0
    BY Zenon DEF Init
  <2>2. \A i \in 1 .. N : s[i] \in Bufs
    BY <1>1 DEF Bufs
  <2> QED
    BY <1>1, <2>1, <2>2 DEF Chain
<1>4. Chain(links, links.activeHead, <<>>)
  BY DEF Init, Chain
<1>5. Inactive = s
  BY <1>1, <1>2, <1>3, Spelled DEF Inactive
<1>6. Active = <<>>
  <2> DEFINE e == <<>>
  <2>1. e \in Seq(Bufs) /\ Len(e) <= N /\ Chain(links, links.activeHead, e)
    BY <1>4
  <2> HIDE DEF e
  <2>2. Active = e
    BY <2>1, <1>2, Spelled, Zenon DEF Active
  <2> QED
    BY <2>2, Zenon DEF e
<1>7. P!Init
  BY <1>5, <1>6, Zenon DEF Init, P!Init, s
<1> QED
  BY <1>1, <1>2, <1>3, <1>4, <1>5, <1>6, <1>7 DEF Linked

\* What leaves the links alone leaves the lists alone.
LEMMA Kept ==
  ASSUME Linked, links' = links
  PROVE  Active' = Active /\ Inactive' = Inactive /\ Linked'
  BY Zenon DEF Linked, Active, Inactive

\* The parts of the operations that the two modules share.
LEMMA SameParts ==
  ASSUME NEW h, NEW b, NEW k
  PROVE  /\ Cache!MayRead(h, k) <=> P!MayRead(h, k)
         /\ Cache!Fetch(b, k) <=> P!Fetch(b, k)
         /\ Cache!Grant(h, b, k) <=> P!Grant(h, b, k)
         /\ Cache!Recycle(b, k) <=> P!Recycle(b, k)
         /\ Cache!Take(b) = P!Take(b) /\ Cache!Drop(b) = P!Drop(b)
<1>1. Cache!Cardinality(holds[h]) = P!Cardinality(holds[h])
  BY Zenon DEF Cache!Cardinality, P!Cardinality
<1>2. \A g : Cache!Asks(g, k) <=> P!Asks(g, k)
  BY Zenon DEF Cache!Asks, P!Asks
<1>3. Cache!Fetch(b, k) <=> P!Fetch(b, k)
  BY Zenon DEF Cache!Fetch, P!Fetch
<1>4. Cache!Recycle(b, k) <=> P!Recycle(b, k)
  BY Zenon DEF Cache!Recycle, P!Recycle
<1>5. Cache!Take(b) = P!Take(b) /\ Cache!Drop(b) = P!Drop(b)
  BY Zenon DEF Cache!Take, P!Take, Cache!Drop, P!Drop
<1>6. Cache!MayRead(h, k) <=> P!MayRead(h, k)
  BY <1>1, <1>2, Zenon DEF Cache!MayRead, P!MayRead
<1>7. Cache!Grant(h, b, k) <=> P!Grant(h, b, k)
  BY <1>2, Zenon DEF Cache!Grant, P!Grant
<1> QED
  BY <1>3, <1>4, <1>5, <1>6, <1>7, Zenon

\* get on an active buffer.
LEMMA ActiveRefines ==
  ASSUME LruInv, NEW h, NEW k, GetActive(h, k)
  PROVE  P!ReadActive(h, k) /\ Linked'
<1>1. Active \in Seq(Bufs)
  BY Apart, Zenon DEF LruInv
<1>2. PICK b \in Bufs : /\ b = Find(links.activeHead, k)
                        /\ Cache!Fetch(b, k) /\ Cache!Grant(h, b, k)
  BY Zenon DEF GetActive
<1>3. PICK i \in 1 .. Len(Active) : P!Found(Active, k, i) /\ b = Active[i]
  BY <1>1, <1>2, Finds, Zenon DEF Active
<1>4. Active' = Active /\ Inactive' = Inactive /\ Linked'
  BY Kept, Zenon DEF GetActive, LruInv
<1>5. P!MayRead(h, k) /\ P!Fetch(Active[i], k) /\ P!Grant(h, Active[i], k)
  BY <1>2, <1>3, SameParts, Zenon DEF GetActive
<1>6. UNCHANGED <<block, ref, disk, panic>>
  BY Zenon DEF GetActive
<1> QED
  BY <1>3, <1>4, <1>5, <1>6, Zenon DEF P!ReadActive

\* get on an inactive buffer.
LEMMA PromoteRefines ==
  ASSUME LruInv, NEW h, NEW k, Promote(h, k)
  PROVE  P!ReadInactive(h, k) /\ Linked'
<1>1. Active \in Seq(Bufs) /\ Inactive \in Seq(Bufs)
  BY Apart, Zenon DEF LruInv
<1>2. PICK b \in Bufs : /\ b = Find(links.inactiveHead, k)
                        /\ ref' = Cache!Take(b) /\ links' = InsertActiveHead(links, b)
                        /\ Cache!Fetch(b, k) /\ Cache!Grant(h, b, k)
  BY Zenon DEF Promote
<1>3. PICK i \in 1 .. Len(Inactive) : P!Found(Inactive, k, i) /\ b = Inactive[i]
  BY <1>1, <1>2, Finds, Zenon DEF Inactive
<1>4. P!Missing(Active, k)
  BY <1>1, Finds, Zenon DEF Active, Promote
<1>5. Active' = <<Inactive[i]>> \o Active /\ Inactive' = P!Without(Inactive, i) /\ Linked'
  BY <1>2, <1>3, Activates, Zenon DEF LruInv
<1>6. /\ P!MayRead(h, k) /\ P!Fetch(Inactive[i], k) /\ P!Grant(h, Inactive[i], k)
      /\ ref' = P!Take(Inactive[i])
  BY <1>2, <1>3, SameParts, Zenon DEF Promote
<1>7. UNCHANGED <<block, disk, panic>>
  BY Zenon DEF Promote
<1> QED
  BY <1>3, <1>4, <1>5, <1>6, <1>7, Zenon DEF P!ReadInactive

\* get on no buffer.
LEMMA RecycleRefines ==
  ASSUME LruInv, NEW h, NEW k, RecycleLru(h, k)
  PROVE  (P!ReadRecycle(h, k) \/ P!ReadFull(h, k)) /\ Linked'
<1>1. Active \in Seq(Bufs) /\ Inactive \in Seq(Bufs)
  BY Apart, Zenon DEF LruInv
<1>2. P!MayRead(h, k) /\ P!Missing(Active, k) /\ P!Missing(Inactive, k)
  BY <1>1, Finds, SameParts, Zenon DEF Active, Inactive, RecycleLru
<1>3. links.inactiveHead = nil <=> Inactive = <<>>
  BY <1>1, Nil DEF LruInv, Linked, Chain
<1>4. CASE Inactive = <<>>
  <2>1. /\ panic' = "full"
        /\ UNCHANGED <<links, block, ref, valid, data, disk, holds, shared>>
    BY <1>3, <1>4, Zenon DEF RecycleLru
  <2>2. Active' = Active /\ Inactive' = Inactive /\ Linked'
    BY <2>1, Kept, Zenon DEF LruInv
  <2> QED
    BY <1>2, <1>4, <2>1, <2>2, Zenon DEF P!ReadFull
<1>5. CASE Inactive # <<>>
  <2> DEFINE i == Len(Inactive)
             b == Inactive[i]
  <2>1. i \in 1 .. Len(Inactive) /\ b = LastFrom(links.inactiveHead) /\ i = P!LruPos
    BY <1>1, <1>5 DEF LastFrom, Inactive, P!LruPos
  <2>2. /\ Cache!Recycle(b, k) /\ links' = InsertActiveHead(links, b)
        /\ Cache!Grant(h, b, k) /\ UNCHANGED <<disk, panic>>
    BY <1>3, <1>5, <2>1, Zenon DEF RecycleLru
  <2>3. Active' = <<b>> \o Active /\ Inactive' = P!Without(Inactive, i) /\ Linked'
    BY <2>1, <2>2, Activates, Zenon DEF LruInv
  <2>4. P!Recycle(b, k) /\ P!Grant(h, b, k)
    BY <2>2, SameParts, Zenon
  <2> HIDE DEF i
  <2> QED
    BY <1>2, <1>5, <2>1, <2>2, <2>3, <2>4, Zenon DEF P!ReadRecycle
<1> QED
  BY <1>4, <1>5, Zenon

\* release.
LEMMA ReleaseRefines ==
  ASSUME LruInv, NEW h \in Holders, NEW b \in Bufs, NEW k, Release(h, b, k)
  PROVE  P!Release(h, b, k) /\ Linked'
<1>1. /\ panic = "none" /\ <<b, k>> \in holds[h]
      /\ holds' = [holds EXCEPT ![h] = @ \ {<<b, k>>}]
      /\ UNCHANGED <<block, valid, data, disk, shared>>
  BY Zenon DEF Release
<1>2. ref[b] \in 0 .. 1
  BY Zenon DEF LruInv, P!IInv, P!TypeOK
<1>3. CASE ref[b] = 0
  <2>1. panic' = "underflow" /\ UNCHANGED <<links, ref>>
    BY <1>3, Zenon DEF Release
  <2>2. Active' = Active /\ Inactive' = Inactive /\ Linked'
    BY <2>1, Kept, Zenon DEF LruInv
  <2> QED
    BY <1>1, <1>3, <2>1, <2>2, Zenon DEF P!Release
<1>4. CASE ref[b] = 1
  <2>1. ref' = P!Drop(b) /\ links' = InsertInactiveHead(links, b) /\ UNCHANGED panic
    BY <1>4, SameParts DEF Release
  <2>2. PICK i \in 1 .. Len(Active) : Active[i] = b
    BY <1>4, Zenon DEF LruInv, P!IInv, P!Lists, P!In
  <2>3. Inactive' = <<b>> \o Inactive /\ Active' = P!Without(Active, i) /\ Linked'
    BY <2>1, <2>2, Deactivates, Zenon DEF LruInv
  <2> QED
    BY <1>1, <1>4, <2>1, <2>2, <2>3, Zenon DEF P!Release
<1> QED
  BY <1>2, <1>3, <1>4

\* Every step of the linked lists is a step of BufferCache, or none.
LEMMA StepRefines == LruInv /\ [Next]_vars => [P!Next]_(P!vars) /\ Linked'
<1> SUFFICES ASSUME LruInv, [Next]_vars PROVE [P!Next]_(P!vars) /\ Linked'
  BY Zenon
<1>1. ASSUME NEW h \in Holders, NEW k \in Blocks,
             GetActive(h, k) \/ Promote(h, k) \/ RecycleLru(h, k)
      PROVE  P!Next /\ Linked'
  <2>1. P!Read(h, k) /\ Linked'
    BY <1>1, ActiveRefines, PromoteRefines, RecycleRefines, Zenon DEF P!Read
  <2> QED
    BY <2>1, Zenon DEF P!Next, P!Step
<1>2. ASSUME NEW h \in Holders, NEW b \in Bufs, NEW k \in Blocks, Release(h, b, k)
      PROVE  P!Next /\ Linked'
  BY <1>2, ReleaseRefines, Zenon DEF P!Next, P!Step
<1>3. ASSUME NEW h \in Holders, NEW b \in Bufs, NEW k \in Blocks, NEW v \in Values,
             Write(h, b, k, v)
      PROVE  P!Next /\ Linked'
  <2>1. P!Write(h, b, k, v) /\ Linked'
    BY <1>3, Kept, Zenon DEF LruInv, Write, P!Write
  <2> QED
    BY <2>1, Zenon DEF P!Next, P!Step
<1>4. CASE UNCHANGED vars
  BY <1>4, Kept, Zenon DEF LruInv, vars, P!vars
<1> QED
  BY <1>1, <1>2, <1>3, <1>4, Zenon DEF Next, Step, Stopped

\* The lists that the links spell have every property of BufferCache's.
LEMMA AlwaysLru == Spec => []LruInv
<1>1. Init => LruInv
  BY InitLru, P!InitInv, Zenon DEF LruInv
<1>2. LruInv /\ [Next]_vars => LruInv'
  BY StepRefines, P!Inductive, Zenon DEF LruInv
<1> QED
  BY <1>1, <1>2, PTL DEF Spec

\* lru.rs implements the two lists of the buffer cache: whatever is promoted,
\* demoted and recycled, for any number of buffers, the links spell both lists.
THEOREM LruImplements == Spec => ImplementsCache
<1>1. Init => Cache!Init
  BY InitLru, SameCache, Zenon
<1>2. LruInv /\ [Next]_vars => [Cache!Next]_(Cache!vars)
  BY StepRefines, SameCache, Zenon DEF Cache!vars, P!vars
<1> QED
  BY <1>1, <1>2, AlwaysLru, PTL DEF Spec, ImplementsCache, Cache!Spec

\* No block is in two valid buffers of the linked lists.
THEOREM LruSingleCopy == Spec => []OneCopy
<1>1. LruInv => OneCopy
  BY Zenon DEF LruInv, P!IInv, P!OneCopy, OneCopy, Cache!OneCopy
<1> QED
  BY <1>1, AlwaysLru, PTL

\* A valid buffer of the linked lists has the contents of its block on the disk.
THEOREM LruCoherent == Spec => []Coherent
<1>1. LruInv => Coherent
  BY Zenon DEF LruInv, P!IInv, P!Coherent, Coherent, Cache!Coherent
<1> QED
  BY <1>1, AlwaysLru, PTL

\* The chains from the two heads hold every buffer once, according to its
\* reference count.
THEOREM LruListsExact == Spec => []ListsMatchRefs
<1>1. LruInv => ListsMatchRefs
  BY Zenon DEF LruInv, P!IInv, P!Lists, P!Distinct, P!In, ListsMatchRefs, Cache!ListsMatchRefs
<1> QED
  BY <1>1, AlwaysLru, PTL

\* As long as no block has had two holders, a held buffer keeps its block.
THEOREM LruUnsharedSafe == Spec => []OwnKeepsBlock
<1>1. LruInv => OwnKeepsBlock
  BY Zenon DEF LruInv, P!IInv, P!OwnKeepsBlock, P!HeldKeepsBlock, OwnKeepsBlock,
     Cache!OwnKeepsBlock, Cache!HeldKeepsBlock
<1> QED
  BY <1>1, AlwaysLru, PTL
=============================================================================
