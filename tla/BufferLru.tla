----------------------------- MODULE BufferLru -----------------------------
(***************************************************************************)
(* The buffer cache over the linked nodes of fs/buffer/lru.rs, and that it *)
(* implements BufferCache: the links always spell the two lists.           *)
(*                                                                         *)
(* The four link variables live in one record, links, so that the          *)
(* helpers of lru.rs, which call each other, are functions from links to   *)
(* links.  nil is Option::None.                                            *)
(***************************************************************************)
EXTENDS BufferParams, Sequences

nil == N

VARIABLES links, block, ref, valid, data, disk, holds, shared, panic

vars == <<links, block, ref, valid, data, disk, holds, shared, panic>>

(* Definitions whose names start with Bug are never used: each is a change *)
(* a maintainer might make to the definition below it.                     *)

\* remove_node.
RemoveNode(l, b) ==
  LET p == l.prev[b]
      n == l.next[b]
      atHead(h) == p = nil /\ h = b
  IN  [activeHead |-> IF atHead(l.activeHead) THEN n ELSE l.activeHead,
       inactiveHead |-> IF ~atHead(l.activeHead) /\ atHead(l.inactiveHead)
                          THEN n ELSE l.inactiveHead,
       next |-> [c \in DOMAIN l.next |->
                   IF c = b THEN nil ELSE IF c = p THEN n ELSE l.next[c]],
       prev |-> [c \in DOMAIN l.prev |->
                   IF c = b THEN nil ELSE IF c = n THEN p ELSE l.prev[c]]]

\* The links after node b, detached, is put in front of node h.
LinkBefore(l, b, h) ==
  [l EXCEPT !.next[b] = h,
            !.prev = [c \in DOMAIN l.prev |->
                        IF c = h THEN b ELSE IF c = b THEN nil ELSE l.prev[c]]]

BugInsertActiveHead(l, b) ==
  [LinkBefore(l, b, l.activeHead) EXCEPT !.activeHead = b]

\* insert_active_head and insert_inactive_head.
InsertActiveHead(l, b) ==
  LET r == RemoveNode(l, b)
  IN  [LinkBefore(r, b, r.activeHead) EXCEPT !.activeHead = b]
InsertInactiveHead(l, b) ==
  LET r == RemoveNode(l, b)
  IN  [LinkBefore(r, b, r.inactiveHead) EXCEPT !.inactiveHead = b]

\* The nodes met from node h on along next, in order: at most N of them.
Walk(l, h) ==
  LET from[n \in 0 .. N] ==
        [b \in Bufs \cup {nil} |->
           IF b = nil \/ n = 0 THEN <<>> ELSE <<b>> \o from[n - 1][l.next[b]]]
  IN  from[N][h]

Active == Walk(links, links.activeHead)
Inactive == Walk(links, links.inactiveHead)

Cache == INSTANCE BufferCache WITH active <- Active, inactive <- Inactive

\* find_active and find_inactive: the first node from h on labelled k, or nil.
BugFind(h, k) ==
  LET s == Walk(links, h)
  IN  IF \E i \in 1 .. Len(s) - 1 : block[s[i]] = k
        THEN s[CHOOSE i \in 1 .. Len(s) - 1 : Cache!Found(s, k, i)] ELSE nil
Find(h, k) ==
  LET s == Walk(links, h)
  IN  IF \E i \in 1 .. Len(s) : block[s[i]] = k
        THEN s[CHOOSE i \in 1 .. Len(s) : Cache!Found(s, k, i)] ELSE nil

\* get_lru.
BugLastFrom(b) == b
LastFrom(b) == Walk(links, b)[Len(Walk(links, b))]

\* LRUCache::init.
Init ==
  /\ links = [activeHead |-> nil, inactiveHead |-> 0,
              next |-> [b \in Bufs |-> IF b < N - 1 THEN b + 1 ELSE nil],
              prev |-> [b \in Bufs |-> IF b > 0 THEN b - 1 ELSE nil]]
  /\ block = [b \in Bufs |-> 0]
  /\ ref = [b \in Bufs |-> 0]
  /\ valid = [b \in Bufs |-> FALSE]
  /\ data \in [Bufs -> Values] /\ disk \in [Blocks -> Values]
  /\ holds = [h \in Holders |-> {}] /\ shared = FALSE
  /\ panic = "none"

\* get on an active buffer.
GetActive(h, k) ==
  /\ Cache!MayRead(h, k)
  /\ \E b \in Bufs \cap {Find(links.activeHead, k)} :
       Cache!Fetch(b, k) /\ Cache!Grant(h, b, k)
  /\ UNCHANGED <<links, block, ref, disk, panic>>

\* get on an inactive buffer: promote_to_active.
Promote(h, k) ==
  /\ Cache!MayRead(h, k) /\ Find(links.activeHead, k) = nil
  /\ \E b \in Bufs \cap {Find(links.inactiveHead, k)} :
       /\ ref' = Cache!Take(b)
       /\ links' = InsertActiveHead(links, b)
       /\ Cache!Fetch(b, k) /\ Cache!Grant(h, b, k)
  /\ UNCHANGED <<block, disk, panic>>

\* get on no buffer: recycle_lru.
RecycleLru(h, k) ==
  /\ Cache!MayRead(h, k)
  /\ Find(links.activeHead, k) = nil /\ Find(links.inactiveHead, k) = nil
  /\ IF links.inactiveHead = nil
       THEN /\ panic' = "full"
            /\ UNCHANGED <<links, block, ref, valid, data, holds, shared>>
       ELSE LET b == LastFrom(links.inactiveHead)
            IN  /\ Cache!Recycle(b, k)
                /\ links' = InsertActiveHead(links, b)
                /\ Cache!Grant(h, b, k)
                /\ UNCHANGED panic
  /\ UNCHANGED disk

\* write, by a holder that has changed its buffer.
Write(h, b, k, v) ==
  /\ panic = "none" /\ <<b, k>> \in holds[h]
  /\ data' = [data EXCEPT ![b] = v]
  /\ disk' = [disk EXCEPT ![block[b]] = v]
  /\ UNCHANGED <<links, block, ref, valid, holds, shared, panic>>

\* release, with demote_to_inactive.
Release(h, b, k) ==
  /\ panic = "none" /\ <<b, k>> \in holds[h]
  /\ holds' = [holds EXCEPT ![h] = @ \ {<<b, k>>}]
  /\ IF ref[b] = 0
       THEN panic' = "underflow" /\ UNCHANGED <<links, ref>>
       ELSE /\ ref' = Cache!Drop(b)
            /\ links' = IF ref[b] = 1 THEN InsertInactiveHead(links, b) ELSE links
            /\ UNCHANGED panic
  /\ UNCHANGED <<block, valid, data, disk, shared>>

Stopped == panic # "none" /\ UNCHANGED vars

Step(h) ==
  \/ \E k \in Blocks : GetActive(h, k) \/ Promote(h, k) \/ RecycleLru(h, k)
  \/ \E b \in Bufs, k \in Blocks :
       Release(h, b, k) \/ \E v \in Values : Write(h, b, k, v)

Next == (\E h \in Holders : Step(h)) \/ Stopped

Spec == Init /\ [][Next]_vars

-----------------------------------------------------------------------------
(* Properties. *)

\* The linked lists of lru.rs behave as the lists of BufferCache: every
\* sequence of promotions, demotions and recyclings keeps both of them intact.
ImplementsCache == Cache!Spec

\* What BufferCache says of the lists, copies and references, said of the
\* linked nodes (lru.rs, buffer/mod.rs).
OneCopy == Cache!OneCopy
Coherent == Cache!Coherent
ListsMatchRefs == Cache!ListsMatchRefs
OwnKeepsBlock == Cache!OwnKeepsBlock
=============================================================================
