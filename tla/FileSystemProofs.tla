-------------------------- MODULE FileSystemProofs --------------------------
(***************************************************************************)
(* Proofs about FileSystem, for every number of processes, descriptors,     *)
(* files, inodes, blocks and names, and any number of crashes.  What the    *)
(* layers below the system calls do, and what open, create and close do, is *)
(* in FileSystemLemmas; here are the other calls, the crash and the         *)
(* theorems: every call of syscall/fs.rs ends in order, and a crash finds   *)
(* one of the disks the call in progress left on its way.                   *)
(***************************************************************************)
EXTENDS FileSystemLemmas

(* fs_dup: one more descriptor and one more reference of the file.          *)
LEMMA DupFinished ==
  ASSUME IInv, NEW p \in live, NEW d \in FDs, fds[p][d] # NoFile
  PROVE  Finished(FsDup(p, d), linkCut)
<1> DEFINE L == linkCut
           f == fds[p][d]
           c == Min(FreeFds(Begin, p))
           more == [Begin EXCEPT !.files[f].refcnt = @ + 1]
           new == FsDup(p, d)
<1>1. p \in Procs /\ f \in Files /\ files[f].refcnt > 0
  BY Descriptors, Zenon
<1>2. /\ Good(Begin, Zero, {}, L) /\ Tabled(Begin) /\ Begin \in Calls
      /\ Begin.files = files /\ Begin.fds = fds /\ Zero \in [Inums -> Nat]
      /\ fds \in [Procs -> FdTable] /\ files \in [Files -> FileEntry]
  BY BeginGood, Zenon DEF IInv, TypeOK
<1>3. new = IF FreeFds(Begin, p) = {} THEN Begin
            ELSE [Begin EXCEPT !.files[f].refcnt = @ + 1, !.fds[p][c] = f]
  BY Zenon DEF FsDup
<1> HIDE DEF f, new, L
<1>4. CASE FreeFds(Begin, p) = {}
  BY <1>2, <1>3, <1>4, Zenon DEF Finished, new, L
<1>5. CASE FreeFds(Begin, p) # {}
  <2>1. c \in FDs /\ fds[p][c] = NoFile
    <3>1. FreeFds(Begin, p) \subseteq Nat
      BY Sizes DEF FreeFds, FDs
    <3>2. c \in FreeFds(Begin, p)
      BY <3>1, <1>5, LowestFree, Zenon
    <3> QED
      BY <3>2, <1>2, Zenon DEF FreeFds
  <2> HIDE DEF c
  <2> DEFINE e == [files[f] EXCEPT !.refcnt = files[f].refcnt + 1]
             fs == [files EXCEPT ![f] = e]
  <2>2. e \in FileEntry /\ e.refcnt = files[f].refcnt + 1 /\ e.inum = files[f].inum
    <3>1. files[f] \in FileEntry
      BY <1>1, <1>2, Zenon
    <3> QED
      BY <3>1 DEF FileEntry
  <2>3. more = [Begin EXCEPT !.files = fs]
    BY <1>1, <1>2 DEF Calls
  <2>4. new = StoredIn(more, p, c, f)
    BY <1>3, <1>5, <1>2, Zenon DEF StoredIn
  <2> HIDE DEF e, more
  <2>5. /\ fs \in [Files -> FileEntry] /\ fs[f] = e
        /\ \A g \in Files : g # f => fs[g] = files[g]
    BY <2>2, <1>1, <1>2, Zenon
  <2> HIDE DEF fs
  <2>6. /\ more \in Calls /\ more.disk = Begin.disk /\ more.past = Begin.past
        /\ more.ref = Begin.ref /\ more.fds = Begin.fds /\ more.leaks = Begin.leaks
        /\ more.panic = Begin.panic /\ more.files = fs
    BY <2>3, <2>5, <1>2 DEF Calls
  <2>7. \A g \in Files : (fs[g].refcnt > 0 <=> files[g].refcnt > 0)
                         /\ fs[g].inum = files[g].inum
    <3>1. files[f].refcnt \in Nat
      BY <1>1, <1>2 DEF FileEntry
    <3> QED
      BY <3>1, <2>2, <2>5, <1>1, SMTT(30)
  <2>8. \A j \in Inums : Openers(more, j) = Openers(Begin, j)
    BY <2>6, <2>7, <1>2, Zenon DEF Openers
  <2>9. Good(more, Zero, {}, L)
    <3>1. \A j \in Inums : more.leaks[j] + Cardinality(Openers(more, j)) + Zero[j]
                         = Begin.leaks[j] + Cardinality(Openers(Begin, j)) + Zero[j]
      BY <2>6, <2>8, Zenon
    <3> QED
      BY <3>1, <2>6, <1>2, FiledGood, Zenon
  <2>10. /\ Good(new, Zero, {}, L) /\ new.fds = Stored(fds, p, c, f)
         /\ new.files = fs
    <3>1. f \in Files \cup {NoFile}
      BY <1>1, Zenon
    <3>2. p \in Procs /\ c \in FDs /\ Good(more, Zero, {}, L)
      BY <2>1, <2>9, <1>1, Zenon
    <3>3. LET w == StoredIn(more, p, c, f)
          IN  /\ Good(w, Zero, {}, L) /\ w.fds = Stored(more.fds, p, c, f)
              /\ w.files = more.files /\ w.panic = more.panic
      BY <3>1, <3>2, StoreGood, SMTT(60)
    <3> QED
      BY <3>3, <2>4, <2>6, <1>2, Zenon
  <2> DEFINE u == Stored(fds, p, c, f)
  <2>11. /\ Users(u, f) = Users(fds, f) \cup {<<p, c>>}
         /\ \A g : g # f => Users(u, g) = Users(fds, g) \ {<<p, c>>}
         /\ \A q \in Procs : q # p => u[q] = fds[q]
    BY <2>1, <1>1, <1>2, StoredUsers, SMTT(30)
  <2> HIDE DEF u
  <2>12. ASSUME NEW g \in Files PROVE new.files[g].refcnt = Cardinality(Users(u, g))
    <3>1. files[g].refcnt = Cardinality(Users(fds, g)) /\ g # NoFile
      BY <1>2, Sizes, Zenon DEF Tabled
    <3>2. <<p, c>> \notin Users(fds, g)
      BY <3>1, <2>1 DEF Users
    <3>3. CASE g = f
      <4>1. Cardinality(Users(u, g)) = Cardinality(Users(fds, g)) + 1
        BY <3>2, <3>3, <2>11, UsersFinite, FS_AddElement, Zenon
      <4> QED
        BY <4>1, <3>1, <3>3, <2>2, <2>5, <2>10, Zenon
    <3>4. CASE g # f
      <4>1. Users(u, g) = Users(fds, g)
        BY <3>2, <3>4, <2>11, SMTT(30)
      <4> QED
        BY <4>1, <3>1, <3>4, <2>5, <2>10, Zenon
    <3> QED
      BY <3>3, <3>4, Zenon
  <2>13. \A q \in Procs \ live : \A x \in FDs : new.fds[q][x] = NoFile
    BY <1>2, <2>10, <2>11, SMTT(30) DEF Tabled, u
  <2> QED
    BY <2>10, <2>12, <2>13, Zenon DEF Finished, Tabled, new, u, L
<1> QED
  BY <1>4, <1>5, Zenon

(* A write that needs a block: the block is marked before the inode has it, *)
(* and was nobody else's.                                                   *)
LEMMA WriteFinished ==
  ASSUME IInv, NEW p \in live, NEW d \in FDs, fds[p][d] # NoFile,
         disk.type[files[fds[p][d]].inum] = "data"
  PROVE  Finished(FsWrite(p, d), linkCut)
<1> DEFINE L == linkCut
           i == files[fds[p][d]].inum
           got == InodeGet(Begin, i)
           b == Min(Blocks \ disk.bmap)
           m == Marked(got.disk, b)
           took == Writes(got, m)
           e == Grown(took.disk, i, b)
           grew == Writes(took, e)
           end == InodePut(grew, i)
           new == FsWrite(p, d)
<1>1. i \in Inums /\ ref[i] > 0
  BY Descriptors, Zenon
<1>2. /\ Good(Begin, Zero, {}, L) /\ Tabled(Begin) /\ Zero \in [Inums -> Nat]
      /\ Begin.disk = disk /\ Begin.ref = ref /\ DiskOK(disk)
  BY BeginGood, Zenon
<1>3. new = IF Blocks \subseteq disk.bmap THEN Panic(got) ELSE end
  BY Zenon DEF FsWrite, Marked, Grown
<1>3a. disk.type[i] = "data"
  OBVIOUS
<1> HIDE DEF L, i, new
<1>4. /\ Good(got, Plus(Zero, i), {}, L) /\ Same(Begin, got) /\ got.disk = disk
  <2>1. linkCut \/ Begin.panic \/
          (i \in Begin.disk.ibmap
           /\ (Kept(Begin.disk, Begin.ref, i) \/ Begin.disk.type[i] = "dir"))
    BY <1>1, <1>2, Zenon DEF IInv, Fine, Held, Kept
  <2> QED
    BY <2>1, <1>1, <1>2, GetGood, Zenon
<1> HIDE DEF got
<1>5. CASE Blocks \subseteq disk.bmap
  <2>1. Good(Panic(got), Zero, {}, L) /\ Panic(got).panic
    BY <1>2, <1>4, PanicGood, Zenon
  <2> QED
    BY <2>1, <1>3, <1>5, Zenon DEF Finished, L, new
<1>6. CASE ~(Blocks \subseteq disk.bmap)
  <2>1. b \in Blocks /\ b \notin disk.bmap
    <3>1. Blocks \ disk.bmap # {} /\ Blocks \ disk.bmap \subseteq Nat
      BY <1>6, SizeAssumption, Zenon
    <3>2. b \in Blocks \ disk.bmap
      BY <3>1, LowestFree, Zenon
    <3> QED
      BY <3>2, Zenon
  <2> HIDE DEF b
  <2>2. CASE got.panic
    <3>1. took = got
      BY <2>2, Stuck, Zenon
    <3> HIDE DEF took
    <3>2. grew = got
      BY <3>1, <2>2, Stuck, Zenon
    <3> HIDE DEF grew
    <3>3. end = got
      BY <3>2, <2>2, Stuck, Zenon
    <3> QED
      BY <3>3, <2>2, <1>3, <1>4, <1>6, PanicFinished, Zenon DEF L, new
  <2>3. CASE ~got.panic
    <3>1. /\ ~linkCut => Fine(disk, got.ref)
          /\ reboots = 0 => Exact(disk, got.ref, {})
      BY <2>3, <1>4, GoodDisk, Zenon
    <3>2. /\ DiskOK(m) /\ m.bmap = disk.bmap \cup {b}
          /\ m.type = disk.type /\ m.blocks = disk.blocks /\ m.dent = disk.dent
          /\ m.ibmap = disk.ibmap
          /\ Fine(disk, got.ref) => Fine(m, got.ref)
          /\ Exact(disk, got.ref, {}) => Exact(m, got.ref, {})
      <4>1. m = Marked(disk, b)
        BY <1>4, Zenon
      <4> HIDE DEF m
      <4> QED
        BY <4>1, <2>1, <1>2, BmapFine, ZenonT(30)
    <3> HIDE DEF m
    <3>3. /\ Good(took, Plus(Zero, i), {}, L) /\ Same(got, took)
          /\ took.ref = got.ref /\ took.panic = got.panic /\ took.disk = m
      BY <3>1, <3>2, <2>3, <1>4, WriteGood, SMTT(30)
    <3> HIDE DEF took
    <3>4. ~linkCut => Apart(m, got.ref, b)
      <4>1. \A j \in Inums : Kept(m, got.ref, j) => Kept(disk, got.ref, j)
        BY <3>2, Zenon DEF Kept, Entries, Dirs
      <4>2. ~linkCut => \A j \in Inums :
               Kept(disk, got.ref, j) => disk.blocks[j] \subseteq disk.bmap
        BY <3>1, Zenon DEF Fine, Owned
      <4> QED
        BY <4>1, <4>2, <3>2, <2>1, Zenon DEF Apart
    <3>5. /\ DiskOK(e)
          /\ Fine(m, got.ref) /\ Apart(m, got.ref, b) => Fine(e, got.ref)
          /\ Exact(m, got.ref, {}) => Exact(e, got.ref, {})
      <4>1. DiskOK(m) /\ m.type[i] # "dir" /\ b \in m.bmap
        BY <3>2, <1>3a, Zenon
      <4> QED
        BY <4>1, <3>3, <1>1, GrowFine, ZenonT(30)
    <3> HIDE DEF e
    <3>6. Good(grew, Plus(Zero, i), {}, L) /\ Same(took, grew)
      <4>1. /\ ~linkCut => Fine(e, took.ref)
            /\ reboots = 0 => Exact(e, took.ref, {})
        BY <3>1, <3>2, <3>3, <3>4, <3>5, Zenon
      <4> QED
        BY <4>1, <3>3, <3>5, WriteGood, Zenon
    <3> HIDE DEF grew
    <3>7. Good(end, Zero, {}, L) /\ Same(grew, end)
      BY <3>6, <1>1, <1>2, PutOne, Zenon
    <3>8. Tabled(end)
      <4> HIDE DEF end
      <4> QED
        BY <3>3, <3>6, <3>7, <1>2, <1>4, SameTabled, Zenon
    <3> QED
      BY <3>7, <3>8, <1>3, <1>6, Zenon DEF Finished, L, new
  <2> QED
    BY <2>2, <2>3, Zenon
<1> QED
  BY <1>5, <1>6, Zenon

(* What the count of an inode with a name says.                             *)
LEMMA NamedCount ==
  ASSUME NEW d, DiskOK(d), NEW r, NEW dir \in Dirs(d), NEW n \in Names,
         NEW i \in Inums, d.dent[dir][n] = i, d.type[i] # "dir"
  PROVE  /\ Fine(d, r) => /\ Cardinality(Entries(d, i)) <= d.nlink[i]
                          /\ d.type[i] # "free" /\ i \in d.ibmap
         /\ Fine(d, r) /\ Exact(d, r, {}) =>
              i = SelfTest \/ d.nlink[i] = Cardinality(Entries(d, i))
         /\ \A Y : Exact(d, r, {}) => Exact(d, r, Y)
         /\ Cardinality(Entries(d, i)) \in Nat /\ d.nlink[i] \in Nat
<1>1. <<dir, n>> \in Entries(d, i)
  BY DEF Entries
<1>2. Cardinality(Entries(d, i)) \in Nat
  BY EntriesFinite, Zenon DEF DiskOK
<1>3. d.nlink[i] \in Nat
  BY OnDisk, Zenon DEF DiskOK
<1>4. Fine(d, r) => /\ Cardinality(Entries(d, i)) <= d.nlink[i]
                    /\ d.type[i] # "free" /\ i \in d.ibmap
  BY <1>1, Zenon DEF Fine, Named
<1>5. Fine(d, r) /\ Exact(d, r, {}) =>
        i = SelfTest \/ d.nlink[i] = Cardinality(Entries(d, i))
  BY <1>4, Zenon DEF Exact
<1>6. \A Y : Exact(d, r, {}) => Exact(d, r, Y)
  BY Zenon DEF Exact
<1> QED
  BY <1>2, <1>3, <1>4, <1>5, <1>6, Zenon

(* fs_unlink: the name goes before the count, so the count is never too     *)
(* small; an inode without name or reference goes, too.                     *)
LEMMA UnlinkFinished ==
  ASSUME IInv, NEW p \in live, NEW dir \in Dirs(disk), NEW start \in Dirs(disk),
         NEW n \in Names, disk.dent[dir][n] # None,
         disk.type[disk.dent[dir][n]] # "dir"
  PROVE  Finished(FsUnlink(p, start, dir, n), linkCut)
<1> DEFINE L == linkCut
           i == disk.dent[dir][n]
           at == Walk(Begin, start, dir)
           got == InodeGet(at, i)
           e == Entered(got.disk, dir, n, None)
           gone == Writes(got, e)
           c == Linked(gone.disk, i, disk.nlink[i] - 1)
           less == Writes(gone, c)
           left == InodePut(less, i)
           end == InodePut(left, dir)
           new == FsUnlink(p, start, dir, n)
           h == Plus(Plus(Zero, dir), i)
<1>1. /\ Good(Begin, Zero, {}, L) /\ Tabled(Begin) /\ Zero \in [Inums -> Nat]
      /\ Begin.disk = disk /\ DiskOK(disk)
  BY BeginGood, Zenon
<1>2. i \in Inums /\ disk.type[i] # "dir"
  <2>1. dir \in Inums /\ disk \in Disk
    BY <1>1, DirsOf, Zenon DEF DiskOK
  <2>2. disk.dent[dir][n] \in Inums \cup {None}
    BY <2>1, OnDisk
  <2> QED
    BY <2>2, Zenon
<1>3. new = IF disk.nlink[i] = 0 THEN Panic(gone) ELSE end
  <2>1. new = IF disk.nlink[i] = 0 THEN Panic(SetDentry(got, dir, n, None))
              ELSE InodePut(InodePut(SetNlink(SetDentry(got, dir, n, None), i,
                                       disk.nlink[i] - 1), i), dir)
    BY Zenon DEF FsUnlink, at, got
  <2> HIDE DEF got, new, i
  <2>2. SetDentry(got, dir, n, None) = gone
    BY SetDentryIs, Zenon
  <2> HIDE DEF gone
  <2>3. SetNlink(gone, i, disk.nlink[i] - 1) = less
    BY SetDentryIs, Zenon
  <2> QED
    BY <2>1, <2>2, <2>3, Zenon
<1>3a. disk.dent[dir][n] = i
  BY Zenon
<1> HIDE DEF L, new, i
<1>4. /\ Good(at, Plus(Zero, dir), {}, L) /\ Same(Begin, at)
      /\ at.disk = disk /\ dir \in Inums
  BY <1>1, WalkGood, Zenon
<1> HIDE DEF at
<1>5. /\ Good(got, h, {}, L) /\ Same(at, got) /\ got.disk = disk
  <2>1. dir \in Dirs(at.disk) /\ at.disk.dent[dir][n] = i
    BY <1>3a, <1>4, Zenon
  <2>2. /\ Good(got, h, {}, L) /\ Same(at, got) /\ got.disk = at.disk
    BY <2>1, <1>2, <1>4, NameGet, SMTT(30)
  <2> QED
    BY <2>2, <1>4, Zenon
<1> HIDE DEF got
<1>6. CASE got.panic
  <2>1. gone = got
    BY <1>6, Stuck, Zenon
  <2> HIDE DEF gone
  <2>2. less = got
    BY <2>1, <1>6, Stuck, Zenon
  <2> HIDE DEF less
  <2>3. left = got
    BY <2>2, <1>6, Stuck, Zenon
  <2> HIDE DEF left
  <2>4. end = got
    BY <2>3, <1>6, Stuck, Zenon
  <2>5. Good(Panic(got), Zero, {}, L) /\ Panic(got).panic
    BY <1>1, <1>5, PanicGood, Zenon
  <2>6. Finished(got, L) /\ Finished(Panic(got), L)
    BY <2>5, <1>5, <1>6, PanicFinished, Zenon DEF Finished
  <2> QED
    BY <2>1, <2>4, <2>6, <1>3, Zenon DEF L, new
<1>7. CASE ~got.panic
  <2>1. h[i] > 0 /\ h \in [Inums -> Nat] /\ Plus(Zero, dir) \in [Inums -> Nat]
    BY <1>1, <1>2, <1>4, PlusLess, Zenon
  <2> HIDE DEF h
  <2>2. /\ ~linkCut => Fine(disk, got.ref)
        /\ reboots = 0 => Exact(disk, got.ref, {}) /\ ~linkCut
        /\ got.ref[i] > 0
    <3>1. reboots = 0 => ~linkCut
      BY DEF IInv
    <3> QED
      BY <3>1, <2>1, <1>2, <1>5, <1>7, GoodDisk, Zenon
  <2>3. /\ DiskOK(e) /\ e.type = disk.type /\ e.nlink = disk.nlink
        /\ e.ibmap = disk.ibmap
        /\ Cardinality(Entries(e, i)) = Cardinality(Entries(disk, i)) - 1
        /\ Cardinality(Entries(disk, i)) \in Nat
        /\ Fine(disk, got.ref) => Fine(e, got.ref)
        /\ Exact(disk, got.ref, {}) => Exact(e, got.ref, {i})
    <3>1. e = Entered(disk, dir, n, None)
      BY <1>5, Zenon
    <3> HIDE DEF e
    <3> QED
      BY <3>1, <1>1, <1>2, <1>3a, UnnameFine, ZenonT(30)
  <2> HIDE DEF e
  <2>4. /\ Good(gone, h, {i}, L) /\ Same(got, gone) /\ gone.ref = got.ref
        /\ gone.panic = got.panic /\ gone.disk = e
    BY <2>2, <2>3, <1>5, <1>7, WriteGood, SMTT(30)
  <2> HIDE DEF gone
  <2>5. CASE disk.nlink[i] = 0
    <3>1. Good(Panic(gone), Zero, {}, L) /\ Panic(gone).panic
      BY <2>4, <1>1, PanicGood, Zenon
    <3> QED
      BY <3>1, <2>5, <1>3, Zenon DEF Finished, L, new
  <2>6. CASE disk.nlink[i] # 0
    <3> DEFINE k == disk.nlink[i] - 1
    <3>1. /\ Fine(disk, got.ref) => Cardinality(Entries(disk, i)) <= disk.nlink[i]
          /\ Fine(disk, got.ref) /\ Exact(disk, got.ref, {}) =>
               i = SelfTest \/ disk.nlink[i] = Cardinality(Entries(disk, i))
          /\ disk.nlink[i] \in Nat
      BY <1>1, <1>2, <1>3a, NamedCount, Zenon
    <3>2. /\ k \in Nat
          /\ Fine(disk, got.ref) => ~(Cardinality(Entries(e, i)) > k)
          /\ Fine(disk, got.ref) /\ Exact(disk, got.ref, {}) =>
               i = SelfTest \/ k = Cardinality(Entries(e, i))
      BY <3>1, <2>3, <2>6, SMTT(30)
    <3>3. c = Linked(e, i, k)
      BY <2>4, Zenon
    <3> HIDE DEF k, c
    <3>4. /\ DiskOK(c)
          /\ \/ ~Fine(e, got.ref)
             \/ e.type[i] # "dir" /\ Cardinality(Entries(e, i)) > k
             \/ Fine(c, got.ref)
          /\ \/ ~Exact(e, got.ref, {i})
             \/ e.type[i] = "dir" \/ k # Cardinality(Entries(e, i))
             \/ ~Kept(e, got.ref, i)
             \/ Exact(c, got.ref, {})
          /\ i = SelfTest /\ Exact(e, got.ref, {i}) => Exact(c, got.ref, {})
      <4>1. e.type[i] = "dir" => k > 0
        BY <2>3, <1>2, Zenon
      <4> QED
        BY <4>1, <3>2, <3>3, <2>3, <1>2, CountFine, ZenonT(30)
    <3>5. /\ ~linkCut => Fine(c, gone.ref)
          /\ reboots = 0 => Exact(c, gone.ref, {})
      <4>1. Kept(e, got.ref, i) /\ e.type[i] # "dir"
        BY <2>2, <2>3, <1>2, Zenon DEF Kept
      <4> QED
        BY <4>1, <3>2, <3>4, <2>2, <2>3, <2>4, Zenon
    <3>6. Good(less, h, {}, L) /\ Same(gone, less)
      BY <3>4, <3>5, <2>4, WriteGood, Zenon
    <3> HIDE DEF less
    <3>7. Good(left, Plus(Zero, dir), {}, L) /\ Same(less, left)
      BY <3>6, <2>1, <1>2, PutOne, Zenon DEF h
    <3> HIDE DEF left
    <3>8. Good(end, Zero, {}, L) /\ Same(left, end)
      BY <3>7, <1>1, <1>4, PutOne, Zenon
    <3>9. Tabled(end)
      <4> HIDE DEF end
      <4> QED
        BY <3>6, <3>7, <3>8, <2>4, <1>1, <1>4, <1>5, SameTabled, Zenon
    <3> QED
      BY <3>8, <3>9, <2>6, <1>3, Zenon DEF Finished, L, new
  <2> QED
    BY <2>5, <2>6, Zenon
<1> QED
  BY <1>6, <1>7, Zenon

(* Two block writes of which only the second leaves the disk as it has to   *)
(* be: allowed where the disk left to a crash is excused.                   *)
LEMMA WriteTwice ==
  ASSUME NEW st, NEW h, NEW X, NEW L, Good(st, h, X, L), L, NEW d, NEW e, NEW Y,
         DiskOK(d), DiskOK(e), ~st.panic,
         ~linkCut => Fine(e, st.ref), reboots = 0 => Exact(e, st.ref, Y)
  PROVE  LET new == Writes(Writes(st, d), e)
         IN  /\ Good(new, h, Y, L) /\ Same(st, new) /\ new.disk = e
<1> DEFINE mid == Writes(st, d)
           new == Writes(mid, e)
<1>1. /\ st \in Calls /\ st.disk \in Disk /\ st.past \in SUBSET Disk /\ d \in Disk
      /\ e \in Disk
  BY InCall, Zenon DEF Good, DiskOK
<1>2. st.past \cup {st.disk} \in SUBSET Disk
  BY <1>1, Zenon
<1>3. /\ mid \in Calls /\ mid.ref = st.ref /\ mid.disk = d
      /\ mid.past = st.past \cup {st.disk} /\ mid.files = st.files
      /\ mid.fds = st.fds /\ mid.leaks = st.leaks /\ mid.panic = st.panic
  BY <1>1, <1>2, Zenon DEF Writes, Calls
<1> HIDE DEF mid
<1>4. mid.past \cup {mid.disk} \in SUBSET Disk
  BY <1>1, <1>2, <1>3, Zenon
<1>5. /\ new \in Calls /\ new.ref = st.ref /\ new.disk = e
      /\ new.past = mid.past \cup {mid.disk} /\ new.files = st.files
      /\ new.fds = st.fds /\ new.leaks = st.leaks /\ new.panic = st.panic
  BY <1>1, <1>3, <1>4, Zenon DEF Writes, Calls
<1> HIDE DEF new
<1>6. \A x \in new.past \cup {new.disk} : DiskOK(x) /\ (~L => Fine(x, Zero))
  BY <1>3, <1>5, Zenon DEF Good
<1>7. Counted(new, h)
  BY <1>5, Zenon DEF Good, Counted, Openers
<1>8. Good(new, h, Y, L)
  BY <1>5, <1>6, <1>7, Zenon DEF Good
<1> QED
  BY <1>5, <1>8, Zenon DEF Same, new, mid

(* Disks with equal parts are equal.                                        *)
LEMMA SameDisk ==
  ASSUME NEW d \in Disk, NEW e \in Disk, d.ibmap = e.ibmap, d.bmap = e.bmap,
         d.type = e.type, d.nlink = e.nlink, d.blocks = e.blocks, d.dent = e.dent
  PROVE  d = e
  BY DEF Disk

(* A second name and a count that goes with it.                             *)
LEMMA LinkedFine ==
  ASSUME NEW d, DiskOK(d), NEW r, NEW dir \in Dirs(d), NEW n \in Names,
         d.dent[dir][n] = None, NEW i \in Inums, d.type[i] # "dir", r[i] > 0,
         NEW from \in Dirs(d), NEW old \in Names, d.dent[from][old] = i
  PROVE  LET one == Entered(d, dir, n, i)
             two == Linked(one, i, one.nlink[i] + 1)
         IN  /\ DiskOK(one) /\ DiskOK(two)
             /\ Fine(d, r) => Fine(two, r)
             /\ Fine(d, r) /\ Exact(d, r, {}) => Exact(two, r, {})
<1> DEFINE one == Entered(d, dir, n, i)
           k == d.nlink[i] + 1
           c == Linked(d, i, k)
           two == Linked(one, i, one.nlink[i] + 1)
           e == Entered(c, dir, n, i)
<1>1. d \in Disk /\ dir \in Inums /\ i \in Inums \cup {None}
  <2>1. Dirs(d) = {j \in Inums : d.type[j] = "dir"}
    BY DirsOf, Zenon
  <2> QED
    BY <2>1, Zenon DEF DiskOK
<1>2. /\ Fine(d, r) => /\ Cardinality(Entries(d, i)) <= d.nlink[i]
                       /\ d.type[i] # "free" /\ i \in d.ibmap
      /\ Fine(d, r) /\ Exact(d, r, {}) =>
           i = SelfTest \/ d.nlink[i] = Cardinality(Entries(d, i))
      /\ Exact(d, r, {}) => Exact(d, r, {i})
      /\ Cardinality(Entries(d, i)) \in Nat /\ d.nlink[i] \in Nat
  BY NamedCount, Zenon
<1>3. /\ k \in Nat /\ k > 0 /\ k # 0
      /\ Fine(d, r) => ~(Cardinality(Entries(d, i)) > k)
      /\ Fine(d, r) => ~(Cardinality(Entries(d, i)) >= k)
      /\ Fine(d, r) /\ Exact(d, r, {}) =>
           i = SelfTest \/ k = Cardinality(Entries(d, i)) + 1
  BY <1>2
<1>4. DiskOK(one) /\ one.nlink = d.nlink
  <2> HIDE DEF one
  <2> QED
    BY <1>1, DentSet DEF one
<1>5. /\ DiskOK(c) /\ c.type = d.type /\ c.dent = d.dent
      /\ c.nlink = [d.nlink EXCEPT ![i] = k] /\ c.ibmap = d.ibmap
      /\ SameNames(c, d)
      /\ \/ ~Fine(d, r)
         \/ d.type[i] # "dir" /\ Cardinality(Entries(d, i)) > k
         \/ Fine(c, r)
      /\ Exact(d, r, {i}) => Exact(c, r, {i})
  <2> HIDE DEF k
  <2> QED
    BY <1>3, CountFine, ZenonT(30)
<1>6. c.nlink[i] = k /\ Entries(c, i) = Entries(d, i) /\ dir \in Dirs(c)
      /\ c.dent[dir][n] = None /\ c.type[i] # "dir"
  <2>1. d.nlink \in [Inums -> Nat]
    BY <1>1, OnDisk, Zenon
  <2>2. dir \in Dirs(c)
    BY <1>5, Zenon DEF Dirs
  <2> HIDE DEF c, k
  <2> QED
    BY <2>1, <2>2, <1>5, Zenon DEF SameNames
<1>7. two = e
  <2>1. /\ one \in Disk /\ one.ibmap = d.ibmap /\ one.bmap = d.bmap
        /\ one.type = d.type /\ one.nlink = d.nlink /\ one.blocks = d.blocks
        /\ one.dent = [d.dent EXCEPT ![dir] = [d.dent[dir] EXCEPT ![n] = i]]
    BY <1>1, SetDent DEF Entered
  <2>2. /\ c \in Disk /\ c.ibmap = d.ibmap /\ c.bmap = d.bmap
        /\ c.type = d.type /\ c.dent = d.dent /\ c.blocks = d.blocks
        /\ c.nlink = [d.nlink EXCEPT ![i] = k]
    BY <1>1, <1>3, SetCount DEF Linked
  <2>3. two = Linked(one, i, k)
    BY <2>1, Zenon
  <2> HIDE DEF one, c, k, two
  <2>4. /\ two \in Disk /\ two.ibmap = one.ibmap /\ two.bmap = one.bmap
        /\ two.type = one.type /\ two.dent = one.dent /\ two.blocks = one.blocks
        /\ two.nlink = [one.nlink EXCEPT ![i] = k]
    BY <2>1, <2>3, <1>3, SetCount, SMTT(30) DEF Linked
  <2>5. /\ e \in Disk /\ e.ibmap = c.ibmap /\ e.bmap = c.bmap
        /\ e.type = c.type /\ e.nlink = c.nlink /\ e.blocks = c.blocks
        /\ e.dent = [c.dent EXCEPT ![dir] = [c.dent[dir] EXCEPT ![n] = i]]
    BY <2>2, <1>1, SetDent DEF Entered
  <2> HIDE DEF e
  <2>6. /\ two.ibmap = e.ibmap /\ two.bmap = e.bmap /\ two.type = e.type
        /\ two.nlink = e.nlink /\ two.blocks = e.blocks /\ two.dent = e.dent
    <3>1. two.nlink = e.nlink
      BY <2>1, <2>2, <2>4, <2>5, SMTT(30)
    <3>2. two.dent = e.dent
      BY <2>1, <2>2, <2>4, <2>5, SMTT(30)
    <3> QED
      BY <3>1, <3>2, <2>1, <2>2, <2>4, <2>5, SMTT(30)
  <2> QED
    BY <2>4, <2>5, <2>6, SameDisk, Zenon
<1> HIDE DEF c, k, two
<1>8. /\ DiskOK(e)
      /\ \/ ~Fine(c, r) \/ c.type[i] = "free"
         \/ c.type[i] # "dir" /\ Cardinality(Entries(c, i)) >= c.nlink[i]
         \/ Fine(e, r)
      /\ \/ ~Exact(c, r, {i})
         \/ c.nlink[i] # IF c.type[i] = "dir" THEN 2
                         ELSE Cardinality(Entries(c, i)) + 1
         \/ Exact(e, r, {})
      /\ i = SelfTest /\ Exact(c, r, {i}) => Exact(e, r, {})
  BY <1>5, <1>6, NameFine, ZenonT(30)
<1> HIDE DEF e
<1>9. Fine(d, r) => Fine(e, r)
  BY <1>2, <1>3, <1>5, <1>6, <1>8, Zenon
<1>10. Fine(d, r) /\ Exact(d, r, {}) => Exact(e, r, {})
  BY <1>2, <1>3, <1>5, <1>6, <1>8, Zenon
<1> QED
  BY <1>4, <1>7, <1>8, <1>9, <1>10, Zenon DEF two

(* fs_link of a file. In between there is a name more than the count says,  *)
(* which only a crash can see.                                              *)
LEMMA LinkFinished ==
  ASSUME IInv, NEW from \in Dirs(disk), NEW dir \in Dirs(disk), NEW old \in Names,
         NEW n \in Names, NEW s1 \in Dirs(disk), NEW s2 \in Dirs(disk),
         disk.dent[from][old] # None, disk.dent[dir][n] = None,
         disk.type[disk.dent[from][old]] # "dir"
  PROVE  LET i == disk.dent[from][old]
         IN  Finished(FsLink(LinkLookup(from, i, s1, s2, dir), i, dir, n), TRUE)
<1> DEFINE L == TRUE
           i == disk.dent[from][old]
           a1 == Walk(Begin, s1, from)
           got == InodeGet(a1, i)
           put == InodePut(got, from)
           st == Walk(put, s2, dir)
           d1 == Entered(st.disk, dir, n, i)
           named == Writes(st, d1)
           d2 == Linked(named.disk, i, named.disk.nlink[i] + 1)
           two == Writes(named, d2)
           left == InodePut(two, dir)
           end == InodePut(left, i)
           new == FsLink(LinkLookup(from, i, s1, s2, dir), i, dir, n)
           h == Plus(Plus(Zero, i), dir)
<1>0. L
  OBVIOUS
<1>1. /\ Good(Begin, Zero, {}, L) /\ Tabled(Begin) /\ Zero \in [Inums -> Nat]
      /\ Begin.disk = disk /\ DiskOK(disk)
  BY BeginGood, Zenon
<1>2. i \in Inums /\ disk.type[i] # "dir"
  <2>1. from \in Inums /\ disk \in Disk
    BY <1>1, DirsOf, Zenon DEF DiskOK
  <2>2. disk.dent[from][old] \in Inums \cup {None}
    BY <2>1, OnDisk
  <2> QED
    BY <2>2, Zenon
<1>3. new = end
  <2>1. LinkLookup(from, i, s1, s2, dir) = st
    BY Zenon DEF LinkLookup, a1, got, put
  <2> HIDE DEF st, i
  <2>2. SetDentry(st, dir, n, i) = named
    BY SetDentryIs, Zenon
  <2>3. FsLink(st, i, dir, n) = InodePut(InodePut(SetNlink(named, i, named.disk.nlink[i] + 1), dir), i)
    BY <2>2, Zenon DEF FsLink
  <2> HIDE DEF named
  <2>4. SetNlink(named, i, named.disk.nlink[i] + 1) = two
    BY SetDentryIs, Zenon
  <2> QED
    BY <2>1, <2>3, <2>4, Zenon
<1>3a. disk.dent[from][old] = i
  BY Zenon
<1> HIDE DEF L, new, i
<1>4. /\ Good(a1, Plus(Zero, from), {}, L) /\ Same(Begin, a1)
      /\ a1.disk = disk /\ from \in Inums /\ disk.nlink[from] > 0
  BY <1>1, WalkGood, Zenon
<1> HIDE DEF a1
<1>5. /\ Good(got, Plus(Plus(Zero, from), i), {}, L) /\ Same(a1, got)
      /\ got.disk = disk
  <2>1. from \in Dirs(a1.disk) /\ a1.disk.dent[from][old] = i
    BY <1>3a, <1>4, Zenon
  <2>2. /\ Good(got, Plus(Plus(Zero, from), i), {}, L) /\ Same(a1, got)
        /\ got.disk = a1.disk
    BY <2>1, <1>2, <1>4, NameGet, SMTT(30)
  <2> QED
    BY <2>2, <1>4, Zenon
<1> HIDE DEF got
<1>6. /\ Good(put, Plus(Zero, i), {}, L) /\ Same(got, put) /\ put.disk = disk
  <2>1. /\ Good(put, Plus(Zero, i), {}, L) /\ Same(got, put)
        /\ got.disk.nlink[from] > 0 => put.disk = got.disk
    BY <1>1, <1>2, <1>4, <1>5, PutUnder, Zenon
  <2> QED
    BY <2>1, <1>4, <1>5, Zenon
<1> HIDE DEF put
<1>7. /\ Good(st, h, {}, L) /\ Same(put, st) /\ st.disk = disk /\ dir \in Inums
  <2>1. dir \in Dirs(put.disk) /\ s2 \in Dirs(put.disk)
    BY <1>6, Zenon
  <2>2. /\ Good(st, h, {}, L) /\ Same(put, st) /\ st.disk = put.disk /\ dir \in Inums
    BY <2>1, <1>6, WalkGood
  <2> QED
    BY <2>2, <1>6, Zenon
<1> HIDE DEF st
<1>8. CASE st.panic
  <2>1. named = st
    BY <1>8, Stuck, Zenon
  <2> HIDE DEF named
  <2>2. two = st
    BY <2>1, <1>8, Stuck, Zenon
  <2> HIDE DEF two
  <2>3. left = st
    BY <2>2, <1>8, Stuck, Zenon
  <2> HIDE DEF left
  <2>4. end = st
    BY <2>3, <1>8, Stuck, Zenon
  <2> HIDE DEF end, h
  <2>5. Finished(st, L)
    BY <1>7, <1>8, PanicFinished, Zenon
  <2> QED
    BY <2>4, <2>5, <1>3, Zenon DEF L, new, i
<1>9. CASE ~st.panic
  <2>1. h[i] > 0 /\ h \in [Inums -> Nat] /\ Plus(Zero, i) \in [Inums -> Nat]
    BY <1>1, <1>2, <1>7, PlusLess, Zenon
  <2> HIDE DEF h
  <2>2. /\ ~linkCut => Fine(disk, st.ref)
        /\ reboots = 0 => Exact(disk, st.ref, {}) /\ ~linkCut
        /\ st.ref[i] > 0
    <3>1. reboots = 0 => ~linkCut
      BY DEF IInv
    <3> QED
      BY <3>1, <2>1, <1>2, <1>7, <1>9, GoodDisk, Zenon
  <2>3. d1 = Entered(disk, dir, n, i)
    BY <1>7, Zenon
  <2> HIDE DEF d1
  <2>4. named.disk = d1
    BY <1>7, <1>9, GoodDisk DEF Writes, Calls
  <2>5. d2 = Linked(d1, i, d1.nlink[i] + 1)
    BY <2>4, Zenon
  <2> HIDE DEF d2
  <2>6. /\ DiskOK(d1) /\ DiskOK(d2)
        /\ Fine(disk, st.ref) => Fine(d2, st.ref)
        /\ Fine(disk, st.ref) /\ Exact(disk, st.ref, {}) => Exact(d2, st.ref, {})
    BY <2>2, <2>3, <2>5, <1>1, <1>2, <1>3a, LinkedFine, ZenonT(30)
  <2>7. Good(two, h, {}, L) /\ Same(st, two)
    BY <2>2, <2>6, <1>0, <1>7, <1>9, WriteTwice, Zenon
  <2> HIDE DEF two
  <2>8. Good(left, Plus(Zero, i), {}, L) /\ Same(two, left)
    BY <2>1, <2>7, <1>7, PutOne, Zenon DEF h
  <2> HIDE DEF left
  <2>9. Good(end, Zero, {}, L) /\ Same(left, end)
    BY <2>8, <1>1, <1>2, PutOne, Zenon
  <2> HIDE DEF end
  <2>10. Tabled(end)
    BY <2>7, <2>8, <2>9, <1>1, <1>4, <1>5, <1>6, <1>7, SameTabled, Zenon
  <2> QED
    BY <2>9, <2>10, <1>3, Zenon DEF Finished, L, new, i
<1> QED
  BY <1>8, <1>9, Zenon

-----------------------------------------------------------------------------
(* What a call that returns leaves in the variables.                        *)
LEMMA ReturnsIs ==
  ASSUME NEW st, Returns(st)
  PROVE  /\ ~st.panic /\ disk' = st.disk /\ ref' = st.ref /\ files' = st.files
         /\ fds' = st.fds /\ leaks' = st.leaks /\ reboots' = reboots
  BY Zenon DEF Returns

(* A call that returns keeps the invariant.                                 *)
LEMMA ReturnsInv ==
  ASSUME IInv, NEW st, NEW L, Good(st, Zero, {}, L), Returns(st),
         \A f \in Files : st.files[f].refcnt = Cardinality(Users(st.fds, f)),
         live' \in SUBSET Procs, closing' \in SUBSET live', linkCut' = linkCut,
         \A q \in Procs \ live' : \A d \in FDs : st.fds[q][d] = NoFile
  PROVE  IInv'
<1>1. /\ ~st.panic /\ disk' = st.disk /\ ref' = st.ref /\ files' = st.files
      /\ fds' = st.fds /\ leaks' = st.leaks /\ reboots' = reboots
  BY ReturnsIs, Zenon
<1>2. st \in Calls /\ DiskOK(st.disk) /\ Counted(st, Zero)
      /\ (~linkCut => Fine(st.disk, st.ref))
      /\ (reboots = 0 => Exact(st.disk, st.ref, {}))
  BY <1>1, GoodDisk, Zenon
<1>3. TypeOK'
  <2>1. linkCut \in BOOLEAN /\ reboots \in Nat
    BY Zenon DEF IInv, TypeOK
  <2>2. closing' \in SUBSET Procs
    BY Zenon
  <2> QED
    BY <2>1, <2>2, <1>1, <1>2, InCall, Zenon DEF TypeOK
<1>4. RefCounts'
  <2>1. \A f \in Files : files'[f].refcnt
                         = Cardinality({e \in Procs \X FDs : fds'[e[1]][e[2]] = f})
    BY <1>1, Zenon DEF Users
  <2>2. ASSUME NEW i \in Inums
        PROVE  ref'[i] = leaks'[i] + Cardinality({f \in Files :
                                        files'[f].refcnt > 0 /\ files'[f].inum = i})
    <3>1. Openers(st, i) = {f \in Files : files'[f].refcnt > 0 /\ files'[f].inum = i}
      BY <1>1, Zenon DEF Openers
    <3>2. st.ref[i] = st.leaks[i] + Cardinality(Openers(st, i)) + Zero[i]
      BY <1>2, Zenon DEF Counted
    <3>3. Zero[i] = 0 /\ st.leaks[i] \in Nat /\ Cardinality(Openers(st, i)) \in Nat
      BY <1>2, InCall, OpenersFinite DEF Zero
    <3>4. st.ref[i] = st.leaks[i] + Cardinality(Openers(st, i))
      BY <3>2, <3>3, SMTT(30)
    <3> QED
      BY <3>1, <3>4, <1>1, Zenon
  <2>3. Cardinality({i \in Inums : ref'[i] > 0}) <= N_INODE
    BY <1>1, <1>2, Zenon DEF Counted, Cached
  <2> QED
    BY <2>1, <2>2, <2>3, Zenon DEF RefCounts
<1>5. \A q \in Procs \ live' : \A d \in FDs : fds'[q][d] = NoFile
  BY <1>1, Zenon
<1>6. linkCut => reboots > 0
  BY Zenon DEF IInv
<1> QED
  BY <1>1, <1>2, <1>3, <1>4, <1>5, <1>6, Zenon DEF IInv

(* So does a start of the machine on a disk that is in order.               *)
LEMMA RestartInv ==
  ASSUME IInv, NEW d, DiskOK(d), Restart(d), linkCut' \in BOOLEAN,
         ~linkCut' => Fine(d, Zero)
  PROVE  IInv'
<1>1. /\ reboots \in Nat /\ reboots' = reboots + 1
      /\ disk' = (IF Inums \subseteq d.ibmap THEN d ELSE Booted(d))
      /\ ref' = Zero /\ leaks' = Zero
      /\ files' = [f \in Files |-> [refcnt |-> 0, inum |-> ROOT_INODE]]
      /\ fds' = [p \in Procs |-> [x \in FDs |-> NoFile]]
      /\ live' \in {{Root}, {}} /\ closing' = {}
  BY Zenon DEF Restart, IInv, TypeOK, Zero
<1>2. reboots' \in Nat /\ reboots' > 0 /\ reboots' # 0
  BY <1>1
<1>3. DiskOK(disk') /\ (~linkCut' => Fine(disk', ref'))
  BY <1>1, BootFine, Zenon
<1>4. Zero \in [Inums -> Nat] /\ \A i \in Inums : Zero[i] = 0
  BY DEF Zero
<1>5. /\ files' \in [Files -> FileEntry]
      /\ \A f \in Files : files'[f].refcnt = 0
  BY <1>1, Sizes DEF FileEntry
<1>6. fds' \in [Procs -> FdTable] /\ \A q \in Procs, x \in FDs : fds'[q][x] = NoFile
  BY <1>1, Sizes DEF FdTable
<1>7. TypeOK'
  BY <1>1, <1>2, <1>3, <1>4, <1>5, <1>6, SizeAssumption, Zenon DEF TypeOK, DiskOK
<1>8. RefCounts'
  <2>1. ASSUME NEW f \in Files
        PROVE  files'[f].refcnt
               = Cardinality({e \in Procs \X FDs : fds'[e[1]][e[2]] = f})
    <3>1. f # NoFile
      BY Sizes, Zenon
    <3>2. {e \in Procs \X FDs : fds'[e[1]][e[2]] = f} = {}
      BY <3>1, <1>6
    <3> QED
      BY <3>2, <1>5, FS_EmptySet, Zenon
  <2>2. ASSUME NEW i \in Inums
        PROVE  ref'[i] = leaks'[i] + Cardinality({f \in Files :
                                        files'[f].refcnt > 0 /\ files'[f].inum = i})
    <3>1. {f \in Files : files'[f].refcnt > 0 /\ files'[f].inum = i} = {}
      BY <1>5
    <3>2. Cardinality({}) = 0
      BY FS_EmptySet, Zenon
    <3>3. ref'[i] = 0 /\ leaks'[i] = 0
      BY <1>1, <1>4, Zenon
    <3> HIDE DEF Zero
    <3>4. Cardinality({f \in Files : files'[f].refcnt > 0 /\ files'[f].inum = i}) = 0
      BY <3>1, <3>2, Zenon
    <3> QED
      BY <3>3, <3>4
  <2>3. Cardinality({i \in Inums : ref'[i] > 0}) <= N_INODE
    <3>1. {i \in Inums : ref'[i] > 0} = {}
      BY <1>1, <1>4
    <3>2. Cardinality({}) = 0
      BY FS_EmptySet, Zenon
    <3> QED
      BY <3>1, <3>2, Sizes
  <2> QED
    BY <2>1, <2>2, <2>3, Zenon DEF RefCounts
<1> QED
  BY <1>1, <1>2, <1>3, <1>6, <1>7, <1>8, Zenon DEF IInv

(* A system call keeps the invariant, whether it returns, panics or is      *)
(* stopped between two of its writes.                                       *)
LEMMA OutcomeInv ==
  ASSUME IInv, NEW st, Finished(st, linkCut), Outcome(st)
  PROVE  IInv'
<1> DEFINE L == linkCut
<1>1. Good(st, Zero, {}, L) /\ (~st.panic => Tabled(st))
  BY Zenon DEF Finished
<1>2. linkCut' = linkCut /\ linkCut \in BOOLEAN /\ live \in SUBSET Procs
      /\ closing \in SUBSET live
  BY Zenon DEF Outcome, IInv, TypeOK
<1>3. CASE Returns(st) /\ UNCHANGED <<live, closing, linkCut>>
  <2>1. live' = live /\ closing' = closing
    BY <1>3
  <2>2. Tabled(st)
    BY <1>1, <1>3, ReturnsIs, Zenon
  <2> HIDE DEF L
  <2> QED
    BY <2>1, <2>2, <1>1, <1>2, <1>3, ReturnsInv, Zenon DEF Tabled
<1>4. ASSUME NEW d \in Stops(st), Restart(d) PROVE IInv'
  <2>1. d \in st.past \cup {st.disk}
    BY <1>4, Zenon DEF Stops
  <2>2. DiskOK(d) /\ (~linkCut => Fine(d, Zero))
    BY <2>1, <1>1, Zenon DEF Good
  <2> QED
    BY <2>2, <1>2, <1>4, RestartInv, Zenon
<1> QED
  BY <1>3, <1>4, Zenon DEF Outcome

(* fs_link keeps the invariant, too; it records that a crash cut it short.  *)
LEMMA LinkOutcomeInv ==
  ASSUME IInv, NEW st, Finished(st, TRUE), LinkOutcome(st)
  PROVE  IInv'
<1> DEFINE L == TRUE
<1>1. Good(st, Zero, {}, L) /\ (~st.panic => Tabled(st))
  BY Zenon DEF Finished
<1>2. linkCut \in BOOLEAN /\ live \in SUBSET Procs /\ closing \in SUBSET live
  BY Zenon DEF IInv, TypeOK
<1>3. CASE Returns(st) /\ UNCHANGED <<live, closing, linkCut>>
  <2>1. live' = live /\ closing' = closing /\ linkCut' = linkCut
    BY <1>3
  <2>2. Tabled(st)
    BY <1>1, <1>3, ReturnsIs, Zenon
  <2> HIDE DEF L
  <2> QED
    BY <2>1, <2>2, <1>1, <1>2, <1>3, ReturnsInv, Zenon DEF Tabled
<1>4. ASSUME NEW d \in Stops(st), Restart(d), linkCut' = (linkCut \/ d # disk)
      PROVE IInv'
  <2>1. d \in st.past \cup {st.disk}
    BY <1>4, Zenon DEF Stops
  <2>2. DiskOK(d)
    BY <2>1, <1>1, Zenon DEF Good
  <2>3. linkCut' \in BOOLEAN /\ (~linkCut' => ~linkCut /\ d = disk)
    BY <1>2, <1>4, Zenon
  <2>4. ~linkCut' => Fine(d, Zero)
    BY <2>3, FineZero, Zenon DEF IInv
  <2> QED
    BY <2>2, <2>3, <2>4, <1>4, RestartInv, Zenon
<1> QED
  BY <1>3, <1>4, Zenon DEF LinkOutcome

-----------------------------------------------------------------------------
(* The descriptors of p that refer to file f.                               *)
Refers(p, f) == {d \in FDs : fds[p][d] = f}

(* The descriptors of a process that refer to a file are finitely many.     *)
LEMMA RefersFinite ==
  ASSUME NEW p, NEW f
  PROVE  IsFiniteSet(Refers(p, f)) /\ Cardinality(Refers(p, f)) \in Nat
<1>1. IsFiniteSet(FDs) /\ Refers(p, f) \in SUBSET FDs
  BY Sizes, Zenon DEF Refers
<1> QED
  BY <1>1, FS_Subset, FS_CardinalityType, Zenon

(* fork: the child's descriptors were vacant, so each file counts exactly   *)
(* the new ones.                                                            *)
LEMMA ForkInv ==
  ASSUME IInv, NEW p \in live, NEW c \in Procs \ live, Returns(ForkFiles(p, c)),
         live' = live \cup {c}, closing' = closing, linkCut' = linkCut
  PROVE  IInv'
<1> DEFINE L == linkCut
           new == ForkFiles(p, c)
           u == [fds EXCEPT ![c] = fds[p]]
           e == [f \in Files |-> [files[f] EXCEPT !.refcnt =
                                    files[f].refcnt + Cardinality(Refers(p, f))]]
<1>1. /\ Good(Begin, Zero, {}, L) /\ Tabled(Begin) /\ Begin \in Calls
      /\ Begin.files = files /\ Begin.fds = fds /\ Zero \in [Inums -> Nat]
      /\ fds \in [Procs -> FdTable] /\ files \in [Files -> FileEntry]
      /\ live \in SUBSET Procs /\ closing \in SUBSET live
  BY BeginGood, Zenon DEF IInv, TypeOK
<1> HIDE DEF L
<1>2. new = [Begin EXCEPT !.fds = u, !.files = e]
  BY <1>1 DEF ForkFiles, Refers, Calls
<1>3. /\ u \in [Procs -> FdTable] /\ u[c] = fds[p]
      /\ \A q \in Procs : q # c => u[q] = fds[q]
  BY <1>1
<1>4. ASSUME NEW f \in Files
      PROVE  /\ e[f] \in FileEntry /\ e[f].inum = files[f].inum
             /\ e[f].refcnt = files[f].refcnt + Cardinality(Refers(p, f))
  <2>1. files[f] \in FileEntry
    BY <1>1, Zenon
  <2> DEFINE k == Cardinality(Refers(p, f))
  <2>2. k \in Nat
    BY RefersFinite, Zenon
  <2>3. e[f] = [files[f] EXCEPT !.refcnt = files[f].refcnt + k]
    BY Zenon
  <2> HIDE DEF k, e
  <2>4. /\ e[f] \in FileEntry /\ e[f].inum = files[f].inum
        /\ e[f].refcnt = files[f].refcnt + k
    BY <2>1, <2>2, <2>3 DEF FileEntry
  <2> QED
    BY <2>4, Zenon DEF k
<1>5. e \in [Files -> FileEntry]
  BY <1>4, Zenon
<1> HIDE DEF new, u, e
<1>6. /\ new \in Calls /\ new.disk = Begin.disk /\ new.past = Begin.past
      /\ new.ref = Begin.ref /\ new.fds = u /\ new.leaks = Begin.leaks
      /\ new.panic = Begin.panic /\ new.files = e
  BY <1>1, <1>2, <1>3, <1>5, Zenon DEF Calls
<1>7. ASSUME NEW f \in Files
      PROVE  e[f].refcnt = Cardinality(Users(u, f))
  <2> DEFINE S == {c} \X Refers(p, f)
  <2>1. f # NoFile /\ c \in Procs
    BY Sizes, Zenon
  <2>2. \A d \in FDs : fds[c][d] # f
    BY <2>1, <1>1, Zenon DEF Tabled
  <2>3. \A x : x \in Users(u, f) <=> x \in Users(fds, f) \cup S
    <3>1. ASSUME NEW x \in Procs \X FDs, x[1] = c
          PROVE  x \in Users(u, f) <=> x \in S
      <4>1. x = <<x[1], x[2]>> /\ x[2] \in FDs
        BY <3>1
      <4>2. x \in S <=> fds[p][x[2]] = f
        BY <4>1, <3>1 DEF Refers
      <4>3. x \in Users(u, f) <=> u[c][x[2]] = f
        BY <3>1, Zenon DEF Users
      <4> QED
        BY <4>2, <4>3, <1>3, Zenon
    <3>2. ASSUME NEW x \in Procs \X FDs, x[1] = c PROVE x \notin Users(fds, f)
      <4>1. x[2] \in FDs
        BY <3>2
      <4> QED
        BY <4>1, <3>2, <2>2, Zenon DEF Users
    <3>3. ASSUME NEW x \in Procs \X FDs, x[1] # c
          PROVE  (x \in Users(u, f) <=> x \in Users(fds, f)) /\ x \notin S
      <4>1. x[1] \in Procs
        BY <3>3
      <4>2. x \notin S
        BY <3>3
      <4> QED
        BY <4>1, <4>2, <3>3, <1>3, Zenon DEF Users
    <3>4. \A x \in S : x \in Procs \X FDs
      BY <2>1 DEF Refers
    <3>5. \A x : x \in Users(u, f) \cup Users(fds, f) => x \in Procs \X FDs
      BY Zenon DEF Users
    <3> HIDE DEF S
    <3> QED
      BY <3>1, <3>2, <3>3, <3>4, <3>5, Zenon
  <2>4. Users(fds, f) \cap S = {}
    <3>1. ASSUME NEW x \in Users(fds, f), x \in S PROVE FALSE
      <4>1. x[1] = c /\ x[2] \in FDs
        BY <3>1 DEF Refers
      <4>2. fds[x[1]][x[2]] = f
        BY <3>1, Zenon DEF Users
      <4> QED
        BY <4>1, <4>2, <2>2, Zenon
    <3> HIDE DEF S
    <3> QED
      BY <3>1, Zenon
  <2>5. IsFiniteSet(S) /\ Cardinality(S) = Cardinality(Refers(p, f))
    <3>1. IsFiniteSet({c}) /\ Cardinality({c}) = 1
      BY FS_Singleton, Zenon
    <3>2. IsFiniteSet(S) /\ Cardinality(S) = Cardinality({c}) * Cardinality(Refers(p, f))
      BY <3>1, RefersFinite, FS_Product, Zenon
    <3>3. Cardinality(Refers(p, f)) \in Nat
      BY RefersFinite, Zenon
    <3> QED
      BY <3>1, <3>2, <3>3
  <2> HIDE DEF S
  <2>6. Users(u, f) = Users(fds, f) \cup S
    BY <2>3, Zenon
  <2>7. Cardinality(Users(u, f)) = Cardinality(Users(fds, f)) + Cardinality(S)
    <3>1. Cardinality(Users(fds, f) \cup S)
          = Cardinality(Users(fds, f)) + Cardinality(S) - Cardinality(Users(fds, f) \cap S)
      BY <2>5, UsersFinite, FS_Union, Zenon
    <3>2. Cardinality(Users(fds, f) \cap S) = 0
      BY <2>4, FS_EmptySet, Zenon
    <3>3. Cardinality(Users(fds, f)) \in Nat /\ Cardinality(S) \in Nat
      BY <2>5, UsersFinite, RefersFinite, Zenon
    <3> QED
      BY <3>1, <3>2, <3>3, <2>6, SMTT(30)
  <2>8. files[f].refcnt = Cardinality(Users(fds, f))
    BY <1>1, Zenon DEF Tabled
  <2> QED
    BY <2>5, <2>7, <2>8, <1>4, Zenon
<1>8. ASSUME NEW f \in Files
      PROVE  e[f].refcnt > 0 <=> files[f].refcnt > 0
  <2>1. files[f].refcnt = Cardinality(Users(fds, f))
    BY <1>1, Zenon DEF Tabled
  <2>2. ASSUME NEW d \in Refers(p, f) PROVE <<p, d>> \in Users(fds, f)
    BY <2>2, <1>1 DEF Users, Refers
  <2>3. Users(fds, f) = {} => Refers(p, f) = {}
    BY <2>2, Zenon
  <2>4. /\ Cardinality(Users(fds, f)) = 0 => Cardinality(Refers(p, f)) = 0
        /\ Cardinality(Users(fds, f)) \in Nat /\ Cardinality(Refers(p, f)) \in Nat
    BY <2>3, UsersFinite, RefersFinite, FS_EmptySet, Zenon
  <2> QED
    BY <2>1, <2>4, <1>4, SMTT(30)
<1>9. \A j \in Inums : Openers(new, j) = Openers(Begin, j)
  BY <1>1, <1>4, <1>6, <1>8, Zenon DEF Openers
<1>10. Good(new, Zero, {}, L)
  <2>1. \A j \in Inums : new.leaks[j] + Cardinality(Openers(new, j)) + Zero[j]
                       = Begin.leaks[j] + Cardinality(Openers(Begin, j)) + Zero[j]
    BY <1>6, <1>9, Zenon
  <2> QED
    BY <2>1, <1>1, <1>6, FiledGood, Zenon
<1>11. \A q \in Procs \ live' : \A d \in FDs : new.fds[q][d] = NoFile
  <2>1. \A q \in Procs \ live' : q # c /\ q \in Procs \ live
    OBVIOUS
  <2>2. \A q \in Procs \ live : \A d \in FDs : fds[q][d] = NoFile
    BY <1>1, Zenon DEF Tabled
  <2>3. \A q \in Procs \ live' : new.fds[q] = fds[q]
    BY <2>1, <1>3, <1>6, Zenon
  <2> QED
    BY <2>1, <2>2, <2>3, Zenon
<1>12. /\ \A f \in Files : new.files[f].refcnt = Cardinality(Users(new.fds, f))
       /\ live' \in SUBSET Procs /\ closing' \in SUBSET live' /\ Returns(new)
  BY <1>1, <1>6, <1>7, Zenon DEF new
<1> QED
  BY <1>10, <1>11, <1>12, ReturnsInv, Zenon

(* The first disk.                                                          *)
LEMMA InitInv == Init => IInv
<1> SUFFICES ASSUME Init PROVE IInv
  OBVIOUS
<1> DEFINE d0 == [ibmap |-> {ROOT_INODE}, bmap |-> {},
        type |-> [i \in Inums |-> IF i = ROOT_INODE THEN "dir" ELSE "free"],
        nlink |-> [i \in Inums |-> IF i = ROOT_INODE THEN 2 ELSE 0],
        blocks |-> [i \in Inums |-> {}],
        dent |-> [i \in Inums |-> [n \in Names |-> None]]]
<1>1. /\ disk = Booted(d0) /\ ref = Zero /\ leaks = Zero
      /\ files = [f \in Files |-> [refcnt |-> 0, inum |-> ROOT_INODE]]
      /\ fds = [p \in Procs |-> [d \in FDs |-> NoFile]]
      /\ live = {Root} /\ closing = {} /\ linkCut = FALSE /\ reboots = 0
  BY Zenon DEF Init, Zero
<1>2. /\ d0 \in Disk /\ d0.ibmap = {ROOT_INODE} /\ d0.bmap = {}
      /\ \A i \in Inums : /\ d0.type[i] = IF i = ROOT_INODE THEN "dir" ELSE "free"
                          /\ d0.nlink[i] = IF i = ROOT_INODE THEN 2 ELSE 0
                          /\ d0.blocks[i] = {}
                          /\ \A n \in Names : d0.dent[i][n] = None
  BY Sizes, Zenon DEF Disk
<1> HIDE DEF d0
<1>3. DiskOK(d0)
  BY <1>2, Sizes DEF DiskOK
<1>4. \A i \in Inums : Entries(d0, i) = {}
  BY <1>2, Sizes DEF Entries, Dirs
<1>5. Zero \in [Inums -> Nat] /\ \A i \in Inums : Zero[i] = 0
  BY DEF Zero
<1>6. Fine(d0, Zero)
  <2>1. Cardinality({}) = 0
    BY FS_EmptySet, Zenon
  <2>2. Named(d0)
    BY <2>1, <1>2, <1>4, Sizes, SMTT(30) DEF Named
  <2>3. Owned(d0, Zero) /\ Held(d0, Zero)
    BY <1>2, <1>4, <1>5, SMTT(30) DEF Owned, Held, Kept
  <2> QED
    BY <2>2, <2>3, Zenon DEF Fine
<1>7. SelfTest \in Inums \ d0.ibmap
  BY <1>2, Sizes, Zenon
<1>8. DiskOK(disk) /\ Fine(disk, ref)
  BY <1>1, <1>3, <1>6, <1>7, BootFine, Zenon
<1>9. Exact(disk, ref, {})
  <2> DEFINE m == Min(Inums \ d0.ibmap)
  <2>1. m = SelfTest
    <3>1. SelfTest = 1 /\ \A y \in Inums \ d0.ibmap : y \in Nat /\ y >= 1
      BY <1>2, Sizes DEF SelfTest, ROOT_INODE, Inums
    <3>2. m \in Inums \ d0.ibmap /\ \A y \in Inums \ d0.ibmap : m <= y
      BY <3>1, <1>7, Zenon DEF Min
    <3> HIDE DEF m
    <3>3. m <= 1
      BY <3>1, <3>2, <1>7, Zenon
    <3>4. m \in Nat /\ m >= 1
      BY <3>1, <3>2, Zenon
    <3> QED
      BY <3>1, <3>3, <3>4
  <2>2. /\ disk.ibmap = {ROOT_INODE, SelfTest}
        /\ disk.type[ROOT_INODE] = "dir" /\ disk.nlink[ROOT_INODE] = 2
    BY <2>1, <1>1, <1>2, Sizes, SMTT(30) DEF Booted, Disk
  <2> QED
    BY <2>2, Zenon DEF Exact
<1>10. /\ files \in [Files -> FileEntry]
       /\ \A f \in Files : files[f].refcnt = 0
  BY <1>1, Sizes DEF FileEntry
<1>11. fds \in [Procs -> FdTable] /\ \A q \in Procs, x \in FDs : fds[q][x] = NoFile
  BY <1>1, Sizes DEF FdTable
<1>12. TypeOK
  BY <1>1, <1>5, <1>8, <1>10, <1>11, SizeAssumption, Zenon DEF TypeOK, DiskOK
<1>13. RefCounts
  <2>1. Cardinality({}) = 0
    BY FS_EmptySet, Zenon
  <2>2. ASSUME NEW f \in Files
        PROVE  files[f].refcnt = Cardinality({e \in Procs \X FDs : fds[e[1]][e[2]] = f})
    <3>1. f # NoFile
      BY Sizes, Zenon
    <3>2. {e \in Procs \X FDs : fds[e[1]][e[2]] = f} = {}
      BY <3>1, <1>11
    <3> QED
      BY <3>2, <2>1, <1>10, Zenon
  <2>3. ASSUME NEW i \in Inums
        PROVE  ref[i] = leaks[i] + Cardinality({f \in Files :
                                      files[f].refcnt > 0 /\ files[f].inum = i})
    <3>1. {f \in Files : files[f].refcnt > 0 /\ files[f].inum = i} = {}
      BY <1>10
    <3>2. Cardinality({f \in Files : files[f].refcnt > 0 /\ files[f].inum = i}) = 0
      BY <3>1, <2>1, Zenon
    <3>3. ref[i] = 0 /\ leaks[i] = 0
      BY <1>1, <1>5, Zenon
    <3> QED
      BY <3>2, <3>3
  <2>4. Cardinality({i \in Inums : ref[i] > 0}) <= N_INODE
    <3>1. {i \in Inums : ref[i] > 0} = {}
      BY <1>1, <1>5
    <3> QED
      BY <3>1, <2>1, Sizes
  <2> QED
    BY <2>2, <2>3, <2>4, Zenon DEF RefCounts
<1> QED
  BY <1>1, <1>8, <1>9, <1>11, <1>12, <1>13, Zenon DEF IInv

-----------------------------------------------------------------------------
(* Every step of the system keeps the invariant.                            *)
LEMMA NextInv == IInv /\ [Next]_vars => IInv'
<1> SUFFICES ASSUME IInv, [Next]_vars PROVE IInv'
  OBVIOUS
<1>1. ASSUME NEW p \in live, Open(p) PROVE IInv'
  <2>1. PICK dir \in Parents, n \in Names : \E start \in Starts(dir) :
          \/ /\ disk.dent[dir][n] # None
             /\ \E creat, write \in BOOLEAN :
                  Outcome(OpenExisting(p, start, dir, n, creat, write))
          \/ /\ disk.dent[dir][n] = None
             /\ Outcome(OpenNew(p, start, dir, n))
    BY <1>1, Zenon DEF Open
  <2>2. PICK start \in Starts(dir) :
          \/ /\ disk.dent[dir][n] # None
             /\ \E creat, write \in BOOLEAN :
                  Outcome(OpenExisting(p, start, dir, n, creat, write))
          \/ /\ disk.dent[dir][n] = None
             /\ Outcome(OpenNew(p, start, dir, n))
    BY <2>1, Zenon
  <2>3. dir \in Dirs(disk) /\ start \in Dirs(disk)
    BY WhereDirs, Zenon
  <2>4. ASSUME disk.dent[dir][n] # None, NEW creat \in BOOLEAN, NEW write \in BOOLEAN,
               Outcome(OpenExisting(p, start, dir, n, creat, write))
        PROVE  IInv'
    BY <2>3, <2>4, <1>1, OpenExistingGood, OutcomeInv, Zenon
  <2>5. ASSUME disk.dent[dir][n] = None, Outcome(OpenNew(p, start, dir, n))
        PROVE  IInv'
    BY <2>3, <2>5, <1>1, OpenNewGood, OutcomeInv, Zenon
  <2> QED
    BY <2>2, <2>4, <2>5, Zenon
<1>2. ASSUME NEW p \in live, Descriptor(p) PROVE IInv'
  <2>1. PICK d \in FDs :
          /\ fds[p][d] # NoFile
          /\ \/ Outcome(FsClose(p, d))
             \/ Outcome(FsDup(p, d))
             \/ /\ disk.type[files[fds[p][d]].inum] = "data"
                /\ Outcome(FsWrite(p, d))
    BY <1>2, Zenon DEF Descriptor
  <2>2. /\ Finished(FsClose(p, d), linkCut) /\ Finished(FsDup(p, d), linkCut)
        /\ disk.type[files[fds[p][d]].inum] = "data" => Finished(FsWrite(p, d), linkCut)
    BY <2>1, <1>2, CloseFinished, DupFinished, WriteFinished, Zenon
  <2> QED
    BY <2>1, <2>2, OutcomeInv, Zenon
<1>3. ASSUME NEW p \in live, Mkdir(p) PROVE IInv'
  <2>1. PICK dir \in Parents, n \in Names : \E start \in Starts(dir) :
          disk.dent[dir][n] = None /\ Outcome(FsMkdir(p, start, dir, n))
    BY <1>3, Zenon DEF Mkdir
  <2>2. PICK start \in Starts(dir) :
          disk.dent[dir][n] = None /\ Outcome(FsMkdir(p, start, dir, n))
    BY <2>1, Zenon
  <2>3. dir \in Dirs(disk) /\ start \in Dirs(disk)
    BY WhereDirs, Zenon
  <2>4. Finished(FsMkdir(p, start, dir, n), linkCut)
    BY <2>2, <2>3, <1>3, MkdirGood, Zenon
  <2> QED
    BY <2>2, <2>4, OutcomeInv, Zenon
<1>4. ASSUME NEW p \in live, Link(p) PROVE IInv'
  <2>1. PICK from \in Parents, dir \in Parents, old \in Names, n \in Names :
          \E s1 \in Starts(from), s2 \in Starts(dir) :
            /\ disk.dent[from][old] # None /\ disk.dent[dir][n] = None
            /\ disk.type[disk.dent[from][old]] # "dir"
            /\ LinkOutcome(FsLink(LinkLookup(from, disk.dent[from][old], s1, s2, dir),
                                  disk.dent[from][old], dir, n))
    BY <1>4, Zenon DEF Link
  <2>2. PICK s1 \in Starts(from), s2 \in Starts(dir) :
            /\ disk.dent[from][old] # None /\ disk.dent[dir][n] = None
            /\ disk.type[disk.dent[from][old]] # "dir"
            /\ LinkOutcome(FsLink(LinkLookup(from, disk.dent[from][old], s1, s2, dir),
                                  disk.dent[from][old], dir, n))
    BY <2>1, Zenon
  <2>3. /\ from \in Dirs(disk) /\ s1 \in Dirs(disk)
        /\ dir \in Dirs(disk) /\ s2 \in Dirs(disk)
    BY WhereDirs, Zenon
  <2>4. Finished(FsLink(LinkLookup(from, disk.dent[from][old], s1, s2, dir),
                        disk.dent[from][old], dir, n), TRUE)
    BY <2>2, <2>3, LinkFinished, Zenon
  <2> QED
    BY <2>2, <2>4, LinkOutcomeInv, Zenon
<1>5. ASSUME NEW p \in live, Unlink(p) PROVE IInv'
  <2>1. PICK dir \in Parents, n \in Names : \E start \in Starts(dir) :
          /\ disk.dent[dir][n] # None /\ disk.type[disk.dent[dir][n]] # "dir"
          /\ Outcome(FsUnlink(p, start, dir, n))
    BY <1>5, Zenon DEF Unlink
  <2>2. PICK start \in Starts(dir) :
          /\ disk.dent[dir][n] # None /\ disk.type[disk.dent[dir][n]] # "dir"
          /\ Outcome(FsUnlink(p, start, dir, n))
    BY <2>1, Zenon
  <2>3. dir \in Dirs(disk) /\ start \in Dirs(disk)
    BY WhereDirs, Zenon
  <2>4. Finished(FsUnlink(p, start, dir, n), linkCut)
    BY <2>2, <2>3, <1>5, UnlinkFinished, Zenon
  <2> QED
    BY <2>2, <2>4, OutcomeInv, Zenon
<1>6. ASSUME NEW p \in live, Fork(p) PROVE IInv'
  <2>1. PICK c \in Procs \ live :
          /\ Returns(ForkFiles(p, c)) /\ live' = live \cup {c}
          /\ UNCHANGED <<closing, linkCut>>
    BY <1>6, Zenon DEF Fork
  <2>2. closing' = closing /\ linkCut' = linkCut
    BY <2>1
  <2> QED
    BY <2>1, <2>2, <1>6, ForkInv, Zenon
<1>7. ASSUME NEW p \in live, Exit(p) PROVE IInv'
  <2>1. /\ closing' = {p} /\ disk' = disk /\ ref' = ref /\ files' = files
        /\ fds' = fds /\ live' = live /\ leaks' = leaks /\ linkCut' = linkCut
        /\ reboots' = reboots
    BY <1>7 DEF Exit
  <2>2. closing' \subseteq live' /\ closing' \in SUBSET Procs
    BY <2>1, <1>7, Zenon DEF IInv, TypeOK
  <2> QED
    BY <2>1, <2>2, Zenon DEF IInv, TypeOK, RefCounts
<1>8. ASSUME NEW p \in closing, ExitClose(p) PROVE IInv'
  <2> DEFINE d == Min(Opened(p))
  <2>1. Opened(p) # {} /\ Outcome(FsClose(p, d)) /\ p \in live
    BY <1>8, Zenon DEF ExitClose, IInv
  <2>2. d \in Opened(p)
    <3>1. Opened(p) \subseteq Nat
      BY Sizes DEF Opened, FDs
    <3> QED
      BY <3>1, <2>1, LowestFree, Zenon
  <2> HIDE DEF d
  <2>3. d \in FDs /\ fds[p][d] # NoFile
    BY <2>2, Zenon DEF Opened
  <2>4. Finished(FsClose(p, d), linkCut)
    BY <2>1, <2>3, CloseFinished, Zenon
  <2> QED
    BY <2>1, <2>4, OutcomeInv, Zenon
<1>9. ASSUME NEW p \in closing, ExitDone(p) PROVE IInv'
  <2>1. /\ live' = live \ {p} /\ closing' = {} /\ disk' = disk /\ ref' = ref
        /\ files' = files /\ fds' = fds /\ leaks' = leaks /\ linkCut' = linkCut
        /\ reboots' = reboots /\ Opened(p) = {}
    BY <1>9 DEF ExitDone
  <2>2. live' \in SUBSET Procs /\ closing' \in SUBSET Procs /\ closing' \subseteq live'
    BY <2>1, Zenon DEF IInv, TypeOK
  <2>3. \A q \in Procs \ live' : \A d \in FDs : fds'[q][d] = NoFile
    BY <2>1, Zenon DEF IInv, Opened
  <2> QED
    BY <2>1, <2>2, <2>3, Zenon DEF IInv, TypeOK, RefCounts
<1>10. CASE Reboot
  <2>1. linkCut' = linkCut /\ linkCut \in BOOLEAN /\ Restart(disk)
    BY <1>10, Zenon DEF Reboot, IInv, TypeOK
  <2>2. DiskOK(disk) /\ (~linkCut' => Fine(disk, Zero))
    BY <2>1, FineZero, Zenon DEF IInv
  <2> QED
    BY <2>1, <2>2, RestartInv, Zenon
<1>11. CASE UNCHANGED vars
  <2>1. /\ live' = live /\ closing' = closing /\ disk' = disk /\ ref' = ref
        /\ files' = files /\ fds' = fds /\ leaks' = leaks /\ linkCut' = linkCut
        /\ reboots' = reboots
    BY <1>11 DEF vars
  <2> QED
    BY <2>1, Zenon DEF IInv, TypeOK, RefCounts
<1> QED
  BY <1>1, <1>2, <1>3, <1>4, <1>5, <1>6, <1>7, <1>8, <1>9, <1>10, <1>11, Zenon
     DEF Next

-----------------------------------------------------------------------------
(* The invariant holds in every reachable state, for any number of          *)
(* processes, files, inodes, blocks and names, and any number of crashes.   *)
THEOREM Invariance == Spec => []IInv
<1>1. Init => IInv
  BY InitInv
<1>2. IInv /\ [Next]_vars => IInv'
  BY NextInv
<1> QED
  BY <1>1, <1>2, PTL DEF Spec

(* In every reachable state a file table entry counts exactly its           *)
(* descriptors, over open, dup, fork, close and exit, and a cached inode    *)
(* counts exactly its open files and the references that failed opens       *)
(* forgot (fs/file.rs:44-91, fs/inode.rs:260-329, syscall/fs.rs:60).        *)
THEOREM ReferencesCounted == Spec => []RefCounts
<1>1. IInv => RefCounts
  BY Zenon DEF IInv
<1> QED
  BY <1>1, Invariance, PTL

(* An inode that a file is open on stays allocated until the last close,    *)
(* also when its last name is unlinked (fs/inode.rs:303-329).               *)
THEOREM OpenInodesAllocated == Spec => []OpenStaysAllocated
<1>1. IInv => OpenStaysAllocated
  BY Zenon DEF IInv, Fine, Held, OpenStaysAllocated
<1> QED
  BY <1>1, Invariance, PTL

(* Whatever block write a crash prevented, no name leads to a free inode or *)
(* one without a count, unless the crash was inside fs_link                 *)
(* (syscall/fs.rs:276-278).                                                 *)
THEOREM NamesLeadToInodes == Spec => []NamesLive
<1>1. ASSUME IInv, ~linkCut, NEW i \in Inums, Entries(disk, i) # {}
      PROVE  i \in disk.ibmap /\ disk.type[i] # "free" /\ disk.nlink[i] > 0
  <2>1. DiskOK(disk) /\ Named(disk) /\ disk \in Disk
    BY <1>1, Zenon DEF IInv, Fine, DiskOK
  <2>2. i \in disk.ibmap /\ disk.type[i] # "free"
    BY <2>1, <1>1, Zenon DEF Named
  <2>3. CASE disk.type[i] = "dir"
    BY <2>1, <2>2, <2>3, Zenon DEF DiskOK
  <2>4. CASE disk.type[i] # "dir"
    <3>1. Cardinality(Entries(disk, i)) <= disk.nlink[i]
      BY <2>1, <2>4, Zenon DEF Named
    <3>2. Cardinality(Entries(disk, i)) \in Nat /\ Cardinality(Entries(disk, i)) # 0
      BY <2>1, <1>1, EntriesFinite, Zenon
    <3>3. disk.nlink[i] \in Nat
      BY <2>1, OnDisk, Zenon
    <3> QED
      BY <3>1, <3>2, <3>3, <2>2
  <2> QED
    BY <2>3, <2>4, Zenon
<1>2. IInv => NamesLive
  BY <1>1, Zenon DEF NamesLive
<1> QED
  BY <1>2, Invariance, PTL

(* As long as the machine ran through, link counts are the numbers of       *)
(* names, and nothing stays allocated that has neither name nor reference   *)
(* (syscall/fs.rs:220-321, fs/inode.rs:309).                                *)
THEOREM LinkCountsExact == Spec => []LinksExact
<1>1. ASSUME IInv, reboots = 0, NEW i \in disk.ibmap \ {SelfTest}
      PROVE  /\ disk.nlink[i] = IF i \in Dirs(disk) THEN 2
                                ELSE Cardinality(Entries(disk, i))
             /\ i # ROOT_INODE => Entries(disk, i) # {} \/ ref[i] > 0
  <2>1. i \in Dirs(disk) <=> disk.type[i] = "dir"
    BY Zenon DEF Dirs
  <2>2. IF disk.type[i] = "dir"
        THEN disk.nlink[i] = 2 /\ (i # ROOT_INODE => Entries(disk, i) # {})
        ELSE disk.nlink[i] = Cardinality(Entries(disk, i)) /\ Kept(disk, ref, i)
    BY <1>1, Zenon DEF IInv, Exact
  <2> QED
    BY <2>1, <2>2, Zenon DEF Kept
<1>2. IInv => LinksExact
  BY <1>1, Zenon DEF LinksExact
<1> QED
  BY <1>2, Invariance, PTL

(* No two files that can be reached share a data block and none of their    *)
(* blocks is free, also after a crash inside a write or a deletion          *)
(* (fs/bitmap.rs:8-85, fs/inode.rs:177-227).                                *)
THEOREM BlocksNotShared == Spec => []BlocksOwned
<1>1. IInv => BlocksOwned
  BY Zenon DEF IInv, Fine, Owned, Kept, BlocksOwned
<1> QED
  BY <1>1, Invariance, PTL
=============================================================================
