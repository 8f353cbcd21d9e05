------------------------------ MODULE PageMap ------------------------------
(***************************************************************************)
(* What the page tables of the kernel promise, whatever trees they are made *)
(* of: every owner (a process, or the kernel) has a partial function from    *)
(* pages to physical pages; a step changes one page of one owner, or         *)
(* discards a whole owner's; and a page that gets mapped belongs to nobody   *)
(* else, the trampoline's excepted.                                          *)
(***************************************************************************)
EXTENDS Naturals

CONSTANTS
  MaxVa,      \* VA_MAX, in pages
  Owners,     \* the processes and the kernel
  TrampPa,    \* the physical page of the trampoline
  Leaves,     \* the leaf entries: physical page and permissions
  Zero        \* the entry that maps nothing

VARIABLE map

Pages == 0 .. MaxVa - 1

Init == map = [o \in Owners |-> [v \in Pages |-> Zero]]

\* Only page v of owner o changes.
Only(o, v) ==
  /\ \A q \in Owners \ {o} : map'[q] = map[q]
  /\ \A w \in Pages \ {v} : map'[o][w] = map[o][w]

\* The page that o maps at v is, unless it is the trampoline's, mapped by no one.
Map(o, v) ==
  /\ map[o][v] = Zero
  /\ map'[o][v] \in Leaves
  /\ \/ map'[o][v].to = TrampPa
     \/ \A q \in Owners, w \in Pages : map[q][w] # Zero => map[q][w].to # map'[o][v].to
  /\ Only(o, v)

Unmap(o, v) == map'[o][v] = Zero /\ Only(o, v)

Destroy(o) ==
  /\ \A v \in Pages : map'[o][v] = Zero
  /\ \A q \in Owners \ {o} : map'[q] = map[q]

Next ==
  \E o \in Owners : Destroy(o) \/ (\E v \in Pages : Map(o, v) \/ Unmap(o, v))

Spec == Init /\ [][Next]_map
=============================================================================
