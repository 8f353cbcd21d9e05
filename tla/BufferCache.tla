---------------------------- MODULE BufferCache ----------------------------
(***************************************************************************)
(* The buffer cache (fs/buffer/mod.rs) over its two recency lists, which   *)
(* are sequences here, most recent first; BufferLru has the linked nodes.  *)
(*                                                                         *)
(* A system call runs on hart 0 with interrupts off, so read, write and    *)
(* release are one step each.  A reference outlives the call: system code  *)
(* keeps one buffer while it reads others, and sys_get_block hands one to  *)
(* a process that gives it back with sys_put_block.  There is one device.  *)
(* Block 0 is the superblock, and the label every buffer starts with.      *)
(***************************************************************************)
EXTENDS BufferParams, Sequences, FiniteSets

VARIABLES
  active, inactive,   \* the two lists
  block, ref, valid,  \* block_no, refcnt and valid, by buffer
  data,               \* contents of the buffers
  disk,               \* contents of the blocks
  holds,              \* by holder, <<buffer, block it asked for>>
  shared,             \* history: has a block ever had two holders at a time?
  panic               \* why the kernel has stopped, or "none"

vars == <<active, inactive, block, ref, valid, data, disk, holds, shared, panic>>

TypeOK ==
  /\ active \in Seq(Bufs) /\ inactive \in Seq(Bufs)
  /\ block \in [Bufs -> Blocks]
  /\ ref \in [Bufs -> 0 .. 1]
  /\ valid \in [Bufs -> BOOLEAN]
  /\ data \in [Bufs -> Values]
  /\ disk \in [Blocks -> Values]
  /\ holds \in [Holders -> SUBSET (Bufs \X Blocks)]
  /\ shared \in BOOLEAN
  /\ panic \in {"none", "full", "underflow"}

\* Buffer::new and LRUCache::init: buffer 0 is at the head.
Init ==
  /\ active = <<>> /\ inactive = [i \in 1 .. N |-> i - 1]
  /\ block = [b \in Bufs |-> 0]
  /\ ref = [b \in Bufs |-> 0]
  /\ valid = [b \in Bufs |-> FALSE]
  /\ data \in [Bufs -> Values] /\ disk \in [Blocks -> Values]
  /\ holds = [h \in Holders |-> {}] /\ shared = FALSE
  /\ panic = "none"

-----------------------------------------------------------------------------
(* Definitions whose names start with Bug are never used: each is a change *)
(* a maintainer might make to the definition below it.                     *)

\* s without its i-th element.
Without(s, i) ==
  [j \in 1 .. Len(s) - 1 |-> IF j < i THEN s[j] ELSE s[j + 1]]

\* find_active, find_inactive: position i of s is the first one labelled k.
Found(s, k, i) ==
  /\ i \in 1 .. Len(s) /\ block[s[i]] = k
  /\ \A j \in 1 .. i - 1 : block[s[j]] # k
Missing(s, k) == \A i \in 1 .. Len(s) : block[s[i]] # k

Asks(g, k) == \E b \in Bufs : <<b, k>> \in holds[g]

MayRead(h, k) ==
  panic = "none" /\ Cardinality(holds[h]) < MaxHeld /\ ~Asks(h, k)

\* The holder h gets buffer b for block k.
Grant(h, b, k) ==
  /\ holds' = [holds EXCEPT ![h] = @ \cup {<<b, k>>}]
  /\ shared' = (shared \/ \E g \in Holders : Asks(g, k))

\* The part of read behind get: fetch the block unless the buffer is valid.
Fetch(b, k) ==
  /\ data' = [data EXCEPT ![b] = IF valid[b] THEN @ ELSE disk[k]]
  /\ valid' = [valid EXCEPT ![b] = TRUE]

\* read, the block is in an active buffer: get takes no further reference.
ReadActive(h, k) ==
  /\ MayRead(h, k)
  /\ \E i \in 1 .. Len(active) :
       /\ Found(active, k, i)
       /\ Fetch(active[i], k)
       /\ Grant(h, active[i], k)
  /\ UNCHANGED <<active, inactive, block, ref, disk, panic>>

BugTake(b) == ref

\* promote_to_active: refcnt += 1.
Take(b) == [ref EXCEPT ![b] = @ + 1]

\* read, the block is in an inactive buffer.
ReadInactive(h, k) ==
  /\ MayRead(h, k) /\ Missing(active, k)
  /\ \E i \in 1 .. Len(inactive) :
       /\ Found(inactive, k, i)
       /\ active' = <<inactive[i]>> \o active
       /\ inactive' = Without(inactive, i)
       /\ ref' = Take(inactive[i])
       /\ Fetch(inactive[i], k)
       /\ Grant(h, inactive[i], k)
  /\ UNCHANGED <<block, disk, panic>>

BugRecycle(b, k) ==
  /\ block' = [block EXCEPT ![b] = k]
  /\ data' = [data EXCEPT ![b] = IF valid[b] THEN @ ELSE disk[k]]
  /\ valid' = [valid EXCEPT ![b] = TRUE]
  /\ ref' = [ref EXCEPT ![b] = 1]

\* recycle_lru on buffer b clears valid, so that read fetches block k.
Recycle(b, k) ==
  /\ block' = [block EXCEPT ![b] = k]
  /\ data' = [data EXCEPT ![b] = disk[k]]
  /\ valid' = [valid EXCEPT ![b] = TRUE]
  /\ ref' = [ref EXCEPT ![b] = 1]

\* get_lru: the last of the inactive buffers.
LruPos == Len(inactive)

\* read, the block is in no buffer: the least recently released one is used.
ReadRecycle(h, k) ==
  /\ MayRead(h, k) /\ Missing(active, k) /\ Missing(inactive, k)
  /\ inactive # <<>>
  /\ Recycle(inactive[LruPos], k)
  /\ active' = <<inactive[LruPos]>> \o active
  /\ inactive' = Without(inactive, LruPos)
  /\ Grant(h, inactive[LruPos], k)
  /\ UNCHANGED <<disk, panic>>

\* read, and there is no inactive buffer: "No buffers available".
ReadFull(h, k) ==
  /\ MayRead(h, k) /\ Missing(active, k)
  /\ inactive = <<>>
  /\ panic' = "full"
  /\ UNCHANGED <<active, inactive, block, ref, valid, data, disk, holds,
                 shared>>

Read(h, k) ==
  ReadActive(h, k) \/ ReadInactive(h, k) \/ ReadRecycle(h, k) \/ ReadFull(h, k)

\* A holder changes its buffer and calls write, which stores it under the label
\* the buffer has now.
Write(h, b, k, v) ==
  /\ panic = "none" /\ <<b, k>> \in holds[h]
  /\ data' = [data EXCEPT ![b] = v]
  /\ disk' = [disk EXCEPT ![block[b]] = v]
  /\ UNCHANGED <<active, inactive, block, ref, valid, holds, shared, panic>>

\* release: refcnt -= 1.
Drop(b) == [ref EXCEPT ![b] = @ - 1]

\* release, with demote_to_inactive when nobody is left.  The subtraction is
\* checked.
Release(h, b, k) ==
  /\ panic = "none" /\ <<b, k>> \in holds[h]
  /\ holds' = [holds EXCEPT ![h] = @ \ {<<b, k>>}]
  /\ \/ /\ ref[b] = 0
        /\ panic' = "underflow"
        /\ UNCHANGED <<active, inactive, ref>>
     \/ /\ ref[b] = 1
        /\ ref' = Drop(b)
        /\ \E i \in 1 .. Len(active) :
             /\ active[i] = b
             /\ active' = Without(active, i)
             /\ inactive' = <<b>> \o inactive
        /\ UNCHANGED panic
  /\ UNCHANGED <<block, valid, data, disk, shared>>

Stopped == panic # "none" /\ UNCHANGED vars

Step(h) ==
  \/ \E k \in Blocks : Read(h, k)
  \/ \E b \in Bufs, k \in Blocks :
       Release(h, b, k) \/ \E v \in Values : Write(h, b, k, v)

Next == (\E h \in Holders : Step(h)) \/ Stopped

Spec == Init /\ [][Next]_vars

-----------------------------------------------------------------------------
(* Properties. *)

\* A reference is worth something: as long as it is held, its buffer is active
\* and contains the block that was asked for, whatever the others read and
\* release.  Hence write stores it where it belongs.  buffer/mod.rs:20 calls
\* refcnt the buffer's "Reference count".
HeldKeepsBlock ==
  \A h \in Holders : \A e \in holds[h] : block[e[1]] = e[2] /\ ref[e[1]] = 1

\* The same as long as no block has had two holders, which is how the file
\* system's own code uses the cache.
OwnKeepsBlock == ~shared => HeldKeepsBlock

\* No block is in two valid buffers, so no write gets lost in a second copy,
\* although at first all buffers are labelled with the superblock.
OneCopy ==
  \A b, c \in Bufs : valid[b] /\ valid[c] /\ block[b] = block[c] => b = c

\* What a valid buffer contains is what is on the disk: a hit after any
\* sequence of writes, releases and recyclings gives the last value written.
Coherent == \A b \in Bufs : valid[b] => data[b] = disk[block[b]]

\* The two lists hold every buffer once, the active one those with a reference
\* (docs/doc.tmu:1778).
ListsMatchRefs ==
  /\ \A i, j \in 1 .. Len(active) : active[i] = active[j] => i = j
  /\ \A i, j \in 1 .. Len(inactive) : inactive[i] = inactive[j] => i = j
  /\ \A b \in Bufs : ref[b] = 1 <=> \E i \in 1 .. Len(active) : active[i] = b
  /\ \A b \in Bufs : ref[b] = 0 <=> \E i \in 1 .. Len(inactive) : inactive[i] = b
=============================================================================
