-------------------------- MODULE FileSystemLemmas --------------------------
(***************************************************************************)
(* What FileSystemProofs rests on, for every number of processes,           *)
(* descriptors, files, inodes, blocks and names, and any number of crashes. *)
(* A call is followed step by step: Good(st, h, X, L) says that it is in    *)
(* order when it holds the references h and has yet to finish the inodes X. *)
(* Each operation of the inode layer takes one such state to another, and   *)
(* Finished says that a call ends in one that holds nothing, the disks it   *)
(* left behind on its way being those a crash may find.  Here are the       *)
(* layers below the system calls, the inductive invariant, and the calls    *)
(* that open, create and close.                                             *)
(***************************************************************************)
EXTENDS FileSystem, FiniteSetTheorems, TLAPS

(* What can be on the disk.                                                 *)
Disk == [ibmap : SUBSET Inums, bmap : SUBSET Blocks,
         type : [Inums -> {"free", "data", "dir"}], nlink : [Inums -> Nat],
         blocks : [Inums -> SUBSET Blocks],
         dent : [Inums -> [Names -> Inums \cup {None}]]]

(* An entry of the file table.                                              *)
FileEntry == [refcnt : Nat, inum : Inums]

(* The descriptors of a process.                                            *)
FdTable == [FDs -> Files \cup {NoFile}]

(* A call in progress.                                                      *)
Calls == [disk : Disk, past : SUBSET Disk, ref : [Inums -> Nat],
          files : [Files -> FileEntry], fds : [Procs -> FdTable],
          leaks : [Inums -> Nat], panic : BOOLEAN, ip : Inums \cup {None}]

(* The types of the variables.                                              *)
TypeOK ==
  /\ disk \in Disk /\ ref \in [Inums -> Nat] /\ leaks \in [Inums -> Nat]
  /\ files \in [Files -> FileEntry] /\ fds \in [Procs -> FdTable]
  /\ live \in SUBSET Procs /\ closing \in SUBSET Procs
  /\ linkCut \in BOOLEAN /\ reboots \in Nat

-----------------------------------------------------------------------------
(* A write of the block bitmap changes nothing else on the disk.            *)
LEMMA SetBmap ==
  ASSUME NEW d \in Disk, NEW S \in SUBSET Blocks
  PROVE  LET new == [d EXCEPT !.bmap = S]
         IN  /\ new \in Disk /\ new.bmap = S /\ new.ibmap = d.ibmap
             /\ new.type = d.type /\ new.nlink = d.nlink
             /\ new.blocks = d.blocks /\ new.dent = d.dent
  BY DEF Disk

(* A write of the inode bitmap changes nothing else.                        *)
LEMMA SetIbmap ==
  ASSUME NEW d \in Disk, NEW S \in SUBSET Inums
  PROVE  LET new == [d EXCEPT !.ibmap = S]
         IN  /\ new \in Disk /\ new.ibmap = S /\ new.bmap = d.bmap
             /\ new.type = d.type /\ new.nlink = d.nlink
             /\ new.blocks = d.blocks /\ new.dent = d.dent
  BY Zenon DEF Disk

(* Clearing an inode, as inode_put does, changes its type and its blocks.   *)
LEMMA SetCleared ==
  ASSUME NEW d \in Disk, NEW i \in Inums
  PROVE  LET new == [d EXCEPT !.type[i] = "free", !.blocks[i] = {}]
         IN  /\ new \in Disk /\ new.ibmap = d.ibmap /\ new.bmap = d.bmap
             /\ new.type = [d.type EXCEPT ![i] = "free"] /\ new.nlink = d.nlink
             /\ new.blocks = [d.blocks EXCEPT ![i] = {}] /\ new.dent = d.dent
  BY Zenon DEF Disk

(* A directory entry changes one name of one directory.                     *)
LEMMA SetDent ==
  ASSUME NEW d \in Disk, NEW i \in Inums, NEW n \in Names,
         NEW v \in Inums \cup {None}
  PROVE  LET new == [d EXCEPT !.dent[i][n] = v]
         IN  /\ new \in Disk /\ new.ibmap = d.ibmap /\ new.bmap = d.bmap
             /\ new.type = d.type /\ new.nlink = d.nlink /\ new.blocks = d.blocks
             /\ new.dent = [d.dent EXCEPT ![i] = [d.dent[i] EXCEPT ![n] = v]]
  BY Zenon DEF Disk

(* A link count changes for one inode.                                      *)
LEMMA SetCount ==
  ASSUME NEW d \in Disk, NEW i \in Inums, NEW k \in Nat
  PROVE  LET new == [d EXCEPT !.nlink[i] = k]
         IN  /\ new \in Disk /\ new.ibmap = d.ibmap /\ new.bmap = d.bmap
             /\ new.type = d.type /\ new.dent = d.dent /\ new.blocks = d.blocks
             /\ new.nlink = [d.nlink EXCEPT ![i] = k]
  BY Zenon DEF Disk

(* A block entered in an inode is added to its blocks.                      *)
LEMMA SetBlocks ==
  ASSUME NEW d \in Disk, NEW i \in Inums, NEW b \in Blocks
  PROVE  LET new == [d EXCEPT !.blocks[i] = @ \cup {b}]
         IN  /\ new \in Disk /\ new.ibmap = d.ibmap /\ new.bmap = d.bmap
             /\ new.type = d.type /\ new.dent = d.dent /\ new.nlink = d.nlink
             /\ new.blocks = [d.blocks EXCEPT ![i] = d.blocks[i] \cup {b}]
  BY Zenon DEF Disk

(* A panic changes nothing but the flag.                                    *)
LEMMA SetPanic ==
  ASSUME NEW st \in Calls
  PROVE  LET new == Panic(st)
         IN  /\ new \in Calls /\ new.ref = st.ref /\ new.ip = st.ip
             /\ new.disk = st.disk /\ new.past = st.past /\ new.files = st.files
             /\ new.fds = st.fds /\ new.leaks = st.leaks /\ new.panic = TRUE
  BY Zenon DEF Calls, Panic

(* The types of the parts of a call in progress.                            *)
LEMMA InCall ==
  ASSUME NEW st \in Calls
  PROVE  /\ st.disk \in Disk /\ st.past \in SUBSET Disk
         /\ st.ref \in [Inums -> Nat] /\ st.files \in [Files -> FileEntry]
         /\ st.fds \in [Procs -> FdTable] /\ st.leaks \in [Inums -> Nat]
         /\ st.panic \in BOOLEAN /\ st.ip \in Inums \cup {None}
  BY DEF Calls

(* The types of the parts of the disk.                                      *)
LEMMA OnDisk ==
  ASSUME NEW d \in Disk
  PROVE  /\ d.ibmap \in SUBSET Inums /\ d.bmap \in SUBSET Blocks
         /\ d.type \in [Inums -> {"free", "data", "dir"}]
         /\ d.nlink \in [Inums -> Nat] /\ d.blocks \in [Inums -> SUBSET Blocks]
         /\ d.dent \in [Inums -> [Names -> Inums \cup {None}]]
  BY DEF Disk

(* What the assumption on the constants gives about the index sets.         *)
LEMMA Sizes ==
  /\ NInodes \in Nat /\ NInodes > 1 /\ N_INODE \in Nat /\ NFILE \in Nat /\ NOFILE \in Nat
  /\ ROOT_INODE \in Inums /\ SelfTest \in Inums /\ ROOT_INODE # SelfTest
  /\ None \notin Inums /\ NoFile \notin Files /\ Inums \in SUBSET Nat
  /\ IsFiniteSet(Inums) /\ IsFiniteSet(Files) /\ IsFiniteSet(FDs)
<1>1. NInodes \in Nat /\ NInodes > 1 /\ N_INODE \in Nat /\ NFILE \in Nat /\ NOFILE \in Nat
  BY SizeAssumption
<1>2. /\ ROOT_INODE \in Inums /\ SelfTest \in Inums /\ ROOT_INODE # SelfTest
      /\ None \notin Inums /\ NoFile \notin Files /\ Inums \in SUBSET Nat
  BY <1>1 DEF ROOT_INODE, SelfTest, Inums, None, NoFile, Files
<1>3. IsFiniteSet(Inums) /\ IsFiniteSet(Files) /\ IsFiniteSet(FDs)
  BY <1>1, FS_Interval DEF Inums, Files, FDs
<1> QED
  BY <1>1, <1>2, <1>3

(* A call that holds no inode.                                              *)
Zero == [i \in Inums |-> 0]

(* The directories of d are directories of e with the same entries.        *)
KeepsDirs(e, d) == \A j \in Dirs(d) : j \in Dirs(e) /\ e.dent[j] = d.dent[j]

(* One reference more to i.                                                 *)
Plus(h, i) == [h EXCEPT ![i] = h[i] + 1]

(* One reference less to i.                                                 *)
Less(h, i) == [h EXCEPT ![i] = h[i] - 1]

(* An inode somebody can get at, when r counts the references.              *)
Kept(d, r, i) == Entries(d, i) # {} \/ r[i] > 0

(* What holds of the disk in all circumstances: directories stay.           *)
DiskOK(d) ==
  /\ d \in Disk
  /\ d.type[ROOT_INODE] = "dir"
  /\ \A i \in Inums : d.type[i] = "dir" =>
       i \in d.ibmap /\ d.nlink[i] > 0 /\ d.blocks[i] = {}

(* A name leads to an allocated inode, and no file has more names than its  *)
(* count says.                                                              *)
Named(d) ==
  \A i \in Inums :
    /\ Entries(d, i) # {} => i \in d.ibmap /\ d.type[i] # "free"
    /\ d.type[i] # "dir" => Cardinality(Entries(d, i)) <= d.nlink[i]

(* Inodes that somebody can get at have their blocks marked, each its own.  *)
Owned(d, r) ==
  /\ \A i \in Inums : Kept(d, r, i) => d.blocks[i] \subseteq d.bmap
  /\ \A i, j \in Inums : i # j /\ Kept(d, r, i) /\ Kept(d, r, j) =>
       d.blocks[i] \cap d.blocks[j] = {}

(* The two disks have the same names.                                       *)
SameNames(e, d) == \A i \in Inums : Entries(e, i) = Entries(d, i)

(* Referenced inodes are allocated.                                         *)
Held(d, r) == \A i \in Inums : r[i] > 0 => i \in d.ibmap

(* What holds of the disk as long as no crash cut a link short.             *)
Fine(d, r) == Named(d) /\ Owned(d, r) /\ Held(d, r)

(* The counts agree with the names, but for the inodes in X that a call has *)
(* not finished with: then nothing is allocated that nobody can get at.     *)
Exact(d, r, X) ==
  \A i \in d.ibmap \ (X \cup {SelfTest}) :
    IF d.type[i] = "dir"
    THEN d.nlink[i] = 2 /\ (i # ROOT_INODE => Entries(d, i) # {})
    ELSE d.nlink[i] = Cardinality(Entries(d, i)) /\ Kept(d, r, i)

-----------------------------------------------------------------------------
(* The names of an inode are finitely many.                                 *)
LEMMA EntriesFinite ==
  ASSUME NEW d \in Disk, NEW i
  PROVE  /\ IsFiniteSet(Entries(d, i)) /\ Cardinality(Entries(d, i)) \in Nat
         /\ Cardinality(Entries(d, i)) = 0 <=> Entries(d, i) = {}
<1>1. IsFiniteSet(Inums \X Names)
  BY Sizes, SizeAssumption, FS_Product, Zenon
<1>2. Entries(d, i) \in SUBSET (Inums \X Names)
  BY OnDisk, Zenon DEF Entries, Dirs
<1>3. IsFiniteSet(Entries(d, i))
  BY <1>1, <1>2, FS_Subset, Zenon
<1> QED
  BY <1>3, FS_CardinalityType, FS_EmptySet, Zenon

(* Directories are allocated, so their type alone tells them.               *)
LEMMA DirsOf ==
  ASSUME NEW d, DiskOK(d)
  PROVE  /\ Dirs(d) = {i \in Inums : d.type[i] = "dir"}
         /\ ROOT_INODE \in Dirs(d)
  BY OnDisk, Sizes, Zenon DEF DiskOK, Dirs

(* Entries are read from directories only.                                  *)
LEMMA SameEntries ==
  ASSUME NEW d, DiskOK(d), NEW e, DiskOK(e), NEW i,
         \A j \in Inums : e.type[j] = "dir" <=> d.type[j] = "dir",
         \A j \in Inums : d.type[j] = "dir" => e.dent[j] = d.dent[j]
  PROVE  Entries(e, i) = Entries(d, i)
<1>1. Dirs(e) = Dirs(d)
  BY DirsOf, Zenon
<1>2. \A j \in Dirs(d) : e.dent[j] = d.dent[j]
  BY DirsOf, Zenon
<1>3. \A x \in Dirs(d) \X Names : x[1] \in Dirs(d)
  BY Zenon
<1> QED
  BY <1>1, <1>2, <1>3, Zenon DEF Entries

(* With fewer references no more is asked of the disk.                      *)
LEMMA FineLess ==
  ASSUME NEW d, NEW r, NEW s, Fine(d, r),
         \A i \in Inums : s[i] > 0 => r[i] > 0
  PROVE  Fine(d, s)
  BY Zenon DEF Fine, Owned, Held, Kept

(* A fine disk stays fine when a crash takes all references away.           *)
LEMMA FineZero ==
  ASSUME NEW d, NEW r, Fine(d, r)
  PROVE  Fine(d, Zero)
<1>1. \A i \in Inums : Zero[i] > 0 => r[i] > 0
  BY DEF Zero
<1> QED
  BY <1>1, FineLess, Zenon

(* A reference to an inode that could be got at already asks nothing new.   *)
LEMMA FineGet ==
  ASSUME NEW d, DiskOK(d), NEW r \in [Inums -> Nat], Fine(d, r), NEW i \in Inums,
         i \in d.ibmap, Kept(d, r, i) \/ d.type[i] = "dir"
  PROVE  Fine(d, Plus(r, i))
<1> DEFINE s == Plus(r, i)
<1>1. \A j \in Inums : s[j] > 0 => r[j] > 0 \/ j = i
  BY Zenon DEF Plus
<1>2. \A j \in Inums : Kept(d, s, j) => Kept(d, r, j) \/ d.blocks[j] = {}
  BY <1>1, Zenon DEF Kept, DiskOK
<1> HIDE DEF s
<1>3. Held(d, s)
  BY <1>1, Zenon DEF Fine, Held
<1>4. Owned(d, s)
  BY <1>2 DEF Fine, Owned
<1> QED
  BY <1>3, <1>4, Zenon DEF Fine, s

(* More references do not disturb the counts.                               *)
LEMMA ExactGet ==
  ASSUME NEW d, DiskOK(d), NEW r, NEW s, NEW X, Exact(d, r, X),
         \A i \in Inums : r[i] > 0 => s[i] > 0
  PROVE  Exact(d, s, X)
<1>1. d.ibmap \in SUBSET Inums
  BY OnDisk, Zenon DEF DiskOK
<1> QED
  BY <1>1, Zenon DEF Exact, Kept

-----------------------------------------------------------------------------
(* An inode with count zero has no name.                                    *)
LEMMA GoneEntries ==
  ASSUME NEW d, DiskOK(d), Named(d), NEW i \in Inums, d.nlink[i] = 0
  PROVE  d.type[i] # "dir" /\ Entries(d, i) = {}
<1>1. d.type[i] # "dir"
  BY DEF DiskOK
<1>2. Cardinality(Entries(d, i)) <= d.nlink[i]
  BY <1>1, Zenon DEF Named
<1>3. d \in Disk
  BY Zenon DEF DiskOK
<1>4. Cardinality(Entries(d, i)) \in Nat
  BY <1>3, EntriesFinite, Zenon
<1>5. Cardinality(Entries(d, i)) = 0
  BY <1>2, <1>4
<1> QED
  BY <1>1, <1>3, <1>5, EntriesFinite, Zenon

(* An inode without count, or not allocated, is no directory.               *)
LEMMA NotDir ==
  ASSUME NEW d, DiskOK(d), NEW i \in Inums, d.nlink[i] = 0 \/ i \notin d.ibmap
  PROVE  d.type[i] # "dir"
  BY DEF DiskOK

(* free_data_blocks: after any part T of the blocks of an inode that is     *)
(* deleted, the disk is fine for a machine that starts on it.               *)
LEMMA WithoutFine ==
  ASSUME NEW d, DiskOK(d), NEW r \in [Inums -> Nat], NEW i \in Inums,
         d.nlink[i] = 0, r[i] > 0, NEW T \in SUBSET d.blocks[i]
  PROVE  LET e == Without(d, T)
         IN  /\ DiskOK(e)
             /\ Fine(d, r) => Fine(e, [r EXCEPT ![i] = 0])
<1> DEFINE e == Without(d, T)
           s == [r EXCEPT ![i] = 0]
<1>1. d \in Disk
  BY Zenon DEF DiskOK
<1>2. /\ e \in Disk /\ e.bmap = d.bmap \ T /\ e.ibmap = d.ibmap
      /\ e.type = d.type /\ e.nlink = d.nlink
      /\ e.blocks = d.blocks /\ e.dent = d.dent
  <2>1. d.bmap \ T \in SUBSET Blocks
    BY <1>1, OnDisk, Zenon
  <2> QED
    BY <1>1, <2>1, SetBmap, Zenon DEF Without
<1> HIDE DEF e
<1>3. DiskOK(e)
  BY <1>2, Zenon DEF DiskOK
<1>4. ASSUME Fine(d, r) PROVE Fine(e, s)
  <2>1. \A j \in Inums : Entries(e, j) = Entries(d, j)
    BY <1>2, <1>3, SameEntries, Zenon
  <2>2. Entries(d, i) = {}
    BY <1>4, GoneEntries, Zenon DEF Fine
  <2>3. \A j \in Inums : s[j] > 0 => r[j] > 0 /\ j # i
    OBVIOUS
  <2> HIDE DEF s
  <2>4. \A j \in Inums : Kept(e, s, j) => Kept(d, r, j) /\ j # i
    BY <2>1, <2>2, <2>3, Zenon DEF Kept
  <2>5. Kept(d, r, i)
    BY Zenon DEF Kept
  <2>6. Named(e)
    BY <2>1, <1>2, <1>4, Zenon DEF Named, Fine
  <2>7. Held(e, s)
    BY <2>3, <1>2, <1>4, Zenon DEF Held, Fine
  <2>8. ASSUME NEW j \in Inums, Kept(e, s, j) PROVE e.blocks[j] \subseteq e.bmap
    <3>1. d.blocks[j] \subseteq d.bmap /\ d.blocks[j] \cap d.blocks[i] = {}
      BY <2>4, <2>5, <2>8, <1>4, Zenon DEF Fine, Owned
    <3> QED
      BY <3>1, <1>2, Zenon
  <2>9. ASSUME NEW j \in Inums, NEW k \in Inums, j # k, Kept(e, s, j), Kept(e, s, k)
        PROVE  e.blocks[j] \cap e.blocks[k] = {}
    BY <2>4, <2>9, <1>2, <1>4, Zenon DEF Fine, Owned
  <2>10. Owned(e, s)
    BY <2>8, <2>9, Zenon DEF Owned
  <2> QED
    BY <2>6, <2>7, <2>10, Zenon DEF Fine
<1> QED
  BY <1>3, <1>4, Zenon DEF e

(* The inode given back in the bitmap.                                      *)
Unset(d, i) == [d EXCEPT !.ibmap = @ \ {i}]

(* Giving the inode back in the bitmap leaves a fine disk fine.             *)
LEMMA UnsetFine ==
  ASSUME NEW d, DiskOK(d), NEW s \in [Inums -> Nat], NEW i \in Inums,
         d.nlink[i] = 0, s[i] = 0
  PROVE  LET e == Unset(d, i)
         IN  /\ DiskOK(e) /\ e.ibmap = d.ibmap \ {i} /\ e.bmap = d.bmap
             /\ e.type = d.type /\ e.nlink = d.nlink
             /\ e.blocks = d.blocks /\ e.dent = d.dent
             /\ Fine(d, s) => Fine(e, s)
<1> DEFINE e == Unset(d, i)
<1>1. d \in Disk
  BY Zenon DEF DiskOK
<1>2. /\ e \in Disk /\ e.ibmap = d.ibmap \ {i} /\ e.bmap = d.bmap
      /\ e.type = d.type /\ e.nlink = d.nlink
      /\ e.blocks = d.blocks /\ e.dent = d.dent
  <2>1. d.ibmap \ {i} \in SUBSET Inums
    BY <1>1, OnDisk, Zenon
  <2> QED
    BY <1>1, <2>1, SetIbmap, Zenon DEF Unset
<1> HIDE DEF e
<1>3. d.type[i] # "dir"
  BY NotDir, Zenon
<1>4. DiskOK(e)
  BY <1>2, <1>3, Zenon DEF DiskOK
<1>5. ASSUME Fine(d, s) PROVE Fine(e, s)
  <2>1. \A j \in Inums : Entries(e, j) = Entries(d, j)
    BY <1>2, <1>4, SameEntries, SMTT(30)
  <2>2. Entries(d, i) = {}
    BY <1>5, GoneEntries, Zenon DEF Fine
  <2>3. Named(e)
    BY <2>1, <2>2, <1>2, <1>5, Zenon DEF Named, Fine
  <2>4. ~(s[i] > 0)
    OBVIOUS
  <2>5. Held(e, s)
    BY <2>4, <1>2, <1>5, Zenon DEF Held, Fine
  <2>6. Owned(e, s)
    BY <2>1, <1>2, <1>5, Zenon DEF Owned, Kept, Fine
  <2> QED
    BY <2>3, <2>5, <2>6, Zenon DEF Fine
<1> QED
  BY <1>2, <1>4, <1>5, Zenon DEF e

(* The inode cleared on disk.                                               *)
Cleared(d, i) == [d EXCEPT !.type[i] = "free", !.blocks[i] = {}]

(* Clearing the inode on disk leaves a fine disk fine.                      *)
LEMMA ClearFine ==
  ASSUME NEW d, DiskOK(d), NEW s \in [Inums -> Nat], NEW i \in Inums,
         d.nlink[i] = 0, s[i] = 0
  PROVE  LET e == Cleared(d, i)
         IN  /\ DiskOK(e) /\ e.ibmap = d.ibmap /\ e.bmap = d.bmap
             /\ e.type = [d.type EXCEPT ![i] = "free"] /\ e.nlink = d.nlink
             /\ e.blocks = [d.blocks EXCEPT ![i] = {}] /\ e.dent = d.dent
             /\ SameNames(e, d)
             /\ Fine(d, s) => Fine(e, s)
<1> DEFINE e == Cleared(d, i)
<1>1. d \in Disk
  BY Zenon DEF DiskOK
<1>2. /\ e \in Disk /\ e.ibmap = d.ibmap /\ e.bmap = d.bmap
      /\ e.type = [d.type EXCEPT ![i] = "free"] /\ e.nlink = d.nlink
      /\ e.blocks = [d.blocks EXCEPT ![i] = {}] /\ e.dent = d.dent
  BY <1>1, SetCleared, Zenon DEF Cleared
<1> HIDE DEF e
<1>3. d.type[i] # "dir"
  BY NotDir, Zenon
<1>4. /\ \A j \in Inums : j # i => e.type[j] = d.type[j] /\ e.blocks[j] = d.blocks[j]
      /\ e.type[i] = "free" /\ e.blocks[i] = {}
  BY <1>1, <1>2, OnDisk, Zenon
<1>5. DiskOK(e)
  <2>1. ROOT_INODE # i
    BY <1>3, Zenon DEF DiskOK
  <2> QED
    BY <1>2, <1>4, <2>1, Sizes, Zenon DEF DiskOK
<1>6. \A j \in Inums : Entries(e, j) = Entries(d, j)
  <2>1. \A j \in Inums : e.type[j] = "dir" <=> d.type[j] = "dir"
    BY <1>3, <1>4
  <2> QED
    BY <2>1, <1>2, <1>5, SameEntries, Zenon
<1>7. ASSUME Fine(d, s) PROVE Fine(e, s)
  <2>2. Entries(d, i) = {}
    BY <1>7, GoneEntries, Zenon DEF Fine
  <2>3. Named(e)
    BY <2>2, <1>2, <1>3, <1>4, <1>6, <1>7, Zenon DEF Named, Fine
  <2>4. \A j \in Inums : Kept(e, s, j) => Kept(d, s, j) /\ j # i
    BY <1>6, <2>2 DEF Kept
  <2>5. Held(e, s)
    BY <1>2, <1>7, Zenon DEF Held, Fine
  <2>6. Owned(e, s)
    BY <2>4, <1>2, <1>4, <1>7, Zenon DEF Owned, Fine
  <2> QED
    BY <2>3, <2>5, <2>6, Zenon DEF Fine
<1> QED
  BY <1>2, <1>5, <1>6, <1>7, Zenon DEF e, SameNames

(* inode_put of an inode that keeps a count or a reference leaves nothing   *)
(* allocated for nobody.                                                    *)
LEMMA ExactPut ==
  ASSUME NEW d, DiskOK(d), NEW r \in [Inums -> Nat], Exact(d, r, {}),
         NEW i \in Inums, d.nlink[i] > 0 \/ r[i] > 1
  PROVE  Exact(d, [r EXCEPT ![i] = r[i] - 1], {})
<1> DEFINE s == [r EXCEPT ![i] = r[i] - 1]
<1>1. d \in Disk /\ d.ibmap \in SUBSET Inums
  BY OnDisk, Zenon DEF DiskOK
<1>2. \A j \in Inums : j # i => s[j] = r[j]
  BY Zenon
<1>3. r[i] > 1 => s[i] > 0
  OBVIOUS
<1> HIDE DEF s
<1> SUFFICES ASSUME NEW j \in d.ibmap \ {SelfTest}, d.type[j] # "dir"
             PROVE  Kept(d, s, j)
  BY Zenon DEF Exact, s
<1>4. j \in Inums /\ d.nlink[j] = Cardinality(Entries(d, j)) /\ Kept(d, r, j)
  BY <1>1, Zenon DEF Exact
<1>5. CASE j # i
  BY <1>2, <1>4, <1>5, Zenon DEF Kept
<1>6. CASE j = i
  <2>1. d.nlink[i] > 0 => Cardinality(Entries(d, i)) # 0
    BY <1>4, <1>6
  <2> QED
    BY <2>1, <1>1, <1>3, <1>6, EntriesFinite, Zenon DEF Kept
<1> QED
  BY <1>5, <1>6, Zenon

-----------------------------------------------------------------------------
(* alloc: the inode is marked in the bitmap.                                *)
Taken(d, i) == [d EXCEPT !.ibmap = @ \cup {i}]

(* The mark alone disturbs nothing; the inode is unfinished.                *)
LEMMA TakenFine ==
  ASSUME NEW d, DiskOK(d), NEW r, NEW i \in Inums, i \notin d.ibmap
  PROVE  LET e == Taken(d, i)
         IN  /\ DiskOK(e) /\ e.ibmap = d.ibmap \cup {i} /\ e.bmap = d.bmap
             /\ e.type = d.type /\ e.nlink = d.nlink
             /\ e.blocks = d.blocks /\ e.dent = d.dent
             /\ SameNames(e, d)
             /\ Fine(d, r) => Fine(e, r)
             /\ Exact(d, r, {}) => Exact(e, r, {i})
<1> DEFINE e == Taken(d, i)
<1>1. d \in Disk
  BY Zenon DEF DiskOK
<1>2. /\ e \in Disk /\ e.ibmap = d.ibmap \cup {i} /\ e.bmap = d.bmap
      /\ e.type = d.type /\ e.nlink = d.nlink
      /\ e.blocks = d.blocks /\ e.dent = d.dent
  <2>1. d.ibmap \cup {i} \in SUBSET Inums
    BY <1>1, OnDisk, Zenon
  <2> QED
    BY <1>1, <2>1, SetIbmap, Zenon DEF Taken
<1> HIDE DEF e
<1>3. DiskOK(e)
  BY <1>2, Zenon DEF DiskOK
<1>4. \A j \in Inums : Entries(e, j) = Entries(d, j)
  BY <1>2, <1>3, SameEntries, ZenonT(40)
<1>5. ASSUME Fine(d, r) PROVE Fine(e, r)
  <2>1. Named(e) /\ Held(e, r)
    BY <1>2, <1>4, <1>5, Zenon DEF Named, Held, Fine
  <2>2. Owned(e, r)
    BY <1>2, <1>4, <1>5, Zenon DEF Owned, Kept, Fine
  <2> QED
    BY <2>1, <2>2, Zenon DEF Fine
<1>6. ASSUME Exact(d, r, {}) PROVE Exact(e, r, {i})
  <2>1. \A j \in e.ibmap \ ({i} \cup {SelfTest}) :
          j \in d.ibmap \ ({} \cup {SelfTest}) /\ j \in Inums
    BY <1>1, <1>2, OnDisk, Zenon
  <2> QED
    BY <2>1, <1>2, <1>4, <1>6, Zenon DEF Exact, Kept
<1> QED
  BY <1>2, <1>3, <1>4, <1>5, <1>6, Zenon DEF SameNames, e

(* inode_create: the inode is initialised.                                  *)
Fresh(d, i, ty) ==
  [d EXCEPT !.type[i] = ty, !.nlink[i] = 1, !.blocks[i] = {},
            !.dent[i] = [n \in Names |-> None]]

(* A fresh inode gets the reference of its creator. It needs no name to be  *)
(* kept, and no directory changes.                                          *)
LEMMA FreshFine ==
  ASSUME NEW d, DiskOK(d), NEW r \in [Inums -> Nat], NEW i \in Inums,
         d.type[i] # "dir", i \in d.ibmap, NEW ty \in {"data", "dir"}
  PROVE  LET e == Fresh(d, i, ty)
         IN  /\ DiskOK(e) /\ e.ibmap = d.ibmap /\ e.bmap = d.bmap
             /\ e.type[i] = ty /\ e.nlink[i] = 1 /\ SameNames(e, d)
             /\ KeepsDirs(e, d)
             /\ Fine(d, r) /\ Entries(d, i) = {} =>
                  Fine(e, Plus(r, i))
             /\ Exact(d, r, {i}) => Exact(e, Plus(r, i), {i})
<1> DEFINE none == [n \in Names |-> None]
           e == Fresh(d, i, ty)
           s == Plus(r, i)
<1>1. d \in Disk
  BY Zenon DEF DiskOK
<1>2. /\ e \in Disk /\ e.ibmap = d.ibmap /\ e.bmap = d.bmap
      /\ e.type = [d.type EXCEPT ![i] = ty]
      /\ e.nlink = [d.nlink EXCEPT ![i] = 1]
      /\ e.blocks = [d.blocks EXCEPT ![i] = {}]
      /\ e.dent = [d.dent EXCEPT ![i] = none]
  BY <1>1, Zenon DEF Disk, Fresh
<1> HIDE DEF e
<1>3. /\ \A j \in Inums : j # i =>
           /\ e.type[j] = d.type[j] /\ e.blocks[j] = d.blocks[j]
           /\ e.nlink[j] = d.nlink[j] /\ e.dent[j] = d.dent[j]
      /\ e.type[i] = ty /\ e.blocks[i] = {} /\ e.nlink[i] = 1 /\ e.dent[i] = none
  BY <1>1, <1>2, OnDisk, SMTT(30)
<1>4. DiskOK(e)
  <2>1. ROOT_INODE # i
    BY Zenon DEF DiskOK
  <2>2. e.nlink[i] > 0
    BY <1>3
  <2> QED
    BY <1>2, <1>3, <2>1, <2>2, Sizes, ZenonT(40) DEF DiskOK
<1>4a. /\ Dirs(d) = {j \in Inums : d.type[j] = "dir"}
       /\ Dirs(e) = {j \in Inums : e.type[j] = "dir"}
  BY <1>4, DirsOf, Zenon
<1>5. \A j \in Dirs(d) : j \in Inums /\ j # i /\ e.dent[j] = d.dent[j] /\ j \in Dirs(e)
  <2>1. \A j \in Dirs(d) : j \in Inums /\ j # i
    BY DirsOf, Zenon
  <2> QED
    BY <2>1, <1>3, <1>4a, Zenon
<1>6. \A j \in Dirs(e) : j \in Dirs(d) \/ j = i
  BY <1>3, <1>4a, Zenon
<1>7. ASSUME NEW j \in Inums PROVE Entries(e, j) = Entries(d, j)
  <2>1. \A n \in Names : none[n] = None
    BY Zenon
  <2> HIDE DEF none
  <2>2. ASSUME NEW x \in Entries(e, j) PROVE x \in Entries(d, j)
    <3>1. x \in Dirs(e) \X Names /\ e.dent[x[1]][x[2]] = j
      BY Zenon DEF Entries
    <3>2. x[1] \in Dirs(e) /\ x[2] \in Names /\ x = <<x[1], x[2]>>
      BY <3>1
    <3>3. x[1] # i
      BY <3>1, <3>2, <2>1, <1>3, Sizes, SMTT(30)
    <3>4. x[1] \in Dirs(d)
      BY <3>2, <3>3, <1>6, Zenon
    <3>5. x \in Dirs(d) \X Names
      BY <3>2, <3>4, Zenon
    <3> QED
      BY <3>1, <3>4, <3>5, <1>5, Zenon DEF Entries
  <2>3. ASSUME NEW x \in Entries(d, j) PROVE x \in Entries(e, j)
    <3>1. x \in Dirs(d) \X Names /\ d.dent[x[1]][x[2]] = j
      BY Zenon DEF Entries
    <3>2. x[1] \in Dirs(d) /\ x[2] \in Names /\ x = <<x[1], x[2]>>
      BY <3>1
    <3>5. x \in Dirs(e) \X Names
      BY <3>2, <1>5, Zenon
    <3> QED
      BY <3>1, <3>2, <3>5, <1>5, Zenon DEF Entries
  <2> QED
    BY <2>2, <2>3, Zenon
<1>8. \A j \in Inums : s[j] > 0 => r[j] > 0 \/ j = i
  BY Zenon DEF Plus
<1>8a. s[i] > 0 /\ \A j \in Inums : j # i => s[j] = r[j]
  BY DEF Plus
<1> HIDE DEF s
<1>9. ASSUME Fine(d, r), Entries(d, i) = {} PROVE Fine(e, s)
  <2>1. Held(e, s)
    BY <1>2, <1>8, <1>9, Zenon DEF Held, Fine
  <2>2. \A j \in Inums : Kept(e, s, j) => Kept(d, r, j) \/ j = i
    BY <1>7, <1>8, Zenon DEF Kept
  <2>3. Owned(e, s)
    <3>1. ASSUME NEW j \in Inums, Kept(e, s, j) PROVE e.blocks[j] \subseteq e.bmap
      BY <3>1, <2>2, <1>2, <1>3, <1>9, Zenon DEF Owned, Fine
    <3>2. ASSUME NEW j \in Inums, NEW k \in Inums, j # k, Kept(e, s, j), Kept(e, s, k)
          PROVE  e.blocks[j] \cap e.blocks[k] = {}
      BY <3>2, <2>2, <1>3, <1>9, Zenon DEF Owned, Fine
    <3> QED
      BY <3>1, <3>2, Zenon DEF Owned
  <2>4. Cardinality(Entries(e, i)) = 0
    BY <1>7, <1>9, FS_EmptySet, Zenon
  <2>5. Cardinality(Entries(e, i)) <= e.nlink[i]
    BY <2>4, <1>3
  <2>6. ASSUME NEW j \in Inums
        PROVE  /\ Entries(e, j) # {} => j \in e.ibmap /\ e.type[j] # "free"
               /\ e.type[j] # "dir" => Cardinality(Entries(e, j)) <= e.nlink[j]
    <3>1. CASE j = i
      BY <3>1, <2>5, <1>7, <1>9, Zenon
    <3>2. CASE j # i
      BY <3>2, <1>2, <1>3, <1>7, <1>9, SMTT(30) DEF Named, Fine
    <3> QED
      BY <3>1, <3>2, Zenon
  <2>7. Named(e)
    BY <2>6, Zenon DEF Named
  <2> QED
    BY <2>1, <2>3, <2>7, Zenon DEF Fine
<1>10. ASSUME Exact(d, r, {i}) PROVE Exact(e, s, {i})
  <2>1. \A j \in e.ibmap \ ({i} \cup {SelfTest}) :
          j \in d.ibmap \ ({i} \cup {SelfTest}) /\ j \in Inums /\ j # i
    BY <1>1, <1>2, OnDisk, Zenon
  <2>2. \A j \in Inums : j # i =>
          e.type[j] = d.type[j] /\ e.nlink[j] = d.nlink[j] /\ s[j] = r[j]
    BY <1>3, <1>8a, Zenon
  <2> QED
    BY <2>1, <2>2, <1>7, <1>10, Zenon DEF Exact, Kept
<1> QED
  BY <1>2, <1>3, <1>4, <1>5, <1>7, <1>9, <1>10, Zenon DEF SameNames, KeepsDirs, e, s

-----------------------------------------------------------------------------
(* A directory entry is written.                                            *)
Entered(d, dir, n, v) == [d EXCEPT !.dent[dir][n] = v]

(* What the entry changes: one name moves from its old inode to v.          *)
LEMMA DentSet ==
  ASSUME NEW d, DiskOK(d), NEW dir \in Dirs(d), NEW n \in Names,
         NEW v \in Inums \cup {None}
  PROVE  LET e == Entered(d, dir, n, v)
         IN  /\ DiskOK(e) /\ e.ibmap = d.ibmap /\ e.bmap = d.bmap
             /\ e.type = d.type /\ e.nlink = d.nlink /\ e.blocks = d.blocks
             /\ Entries(e, v) = Entries(d, v) \cup {<<dir, n>>}
             /\ \A j : j # v => Entries(e, j) = Entries(d, j) \ {<<dir, n>>}
<1> DEFINE e == Entered(d, dir, n, v)
<1>1. d \in Disk /\ dir \in Inums
  BY DirsOf, Zenon DEF DiskOK
<1>2. /\ e \in Disk /\ e.ibmap = d.ibmap /\ e.bmap = d.bmap
      /\ e.type = d.type /\ e.nlink = d.nlink /\ e.blocks = d.blocks
      /\ e.dent = [d.dent EXCEPT ![dir] = [d.dent[dir] EXCEPT ![n] = v]]
  BY <1>1, SetDent DEF Entered
<1> HIDE DEF e
<1>3. DiskOK(e)
  BY <1>2, Zenon DEF DiskOK
<1>4. Dirs(e) = Dirs(d) /\ \A j \in Dirs(d) : j \in Inums
  BY <1>2, DirsOf, SMTT(30) DEF Dirs
<1>5. \A j \in Inums, m \in Names :
        e.dent[j][m] = IF j = dir /\ m = n THEN v ELSE d.dent[j][m]
  <2>1. d.dent \in [Inums -> [Names -> Inums \cup {None}]]
    BY <1>1, OnDisk, Zenon
  <2> QED
    BY <2>1, <1>1, <1>2
<1>6. ASSUME NEW j
      PROVE  \A x : x \in Entries(e, j) <=>
               \/ x = <<dir, n>> /\ v = j
               \/ x # <<dir, n>> /\ x \in Entries(d, j)
  <2> SUFFICES ASSUME NEW x
               PROVE  x \in Entries(e, j) <=>
                       \/ x = <<dir, n>> /\ v = j
                       \/ x # <<dir, n>> /\ x \in Entries(d, j)
    BY Zenon
  <2>1. CASE x \notin Dirs(d) \X Names
    BY <2>1, <1>4 DEF Entries
  <2>2. CASE x \in Dirs(d) \X Names
    <3>1. PICK a \in Dirs(d), m \in Names : x = <<a, m>>
      BY <2>2
    <3>2. x[1] = a /\ x[2] = m /\ (x = <<dir, n>> <=> a = dir /\ m = n)
      BY <3>1
    <3>3. x \in Entries(e, j) <=> e.dent[a][m] = j
      BY <3>2, <2>2, <1>4, Zenon DEF Entries
    <3>4. x \in Entries(d, j) <=> d.dent[a][m] = j
      BY <3>2, <2>2, <1>4, Zenon DEF Entries
    <3>5. e.dent[a][m] = IF a = dir /\ m = n THEN v ELSE d.dent[a][m]
      BY <1>4, <1>5, Zenon
    <3> QED
      BY <3>2, <3>3, <3>4, <3>5, Zenon
  <2> QED
    BY <2>1, <2>2, Zenon
<1>7. Entries(e, v) = Entries(d, v) \cup {<<dir, n>>}
  BY <1>6, Zenon
<1>8. ASSUME NEW j, j # v PROVE Entries(e, j) = Entries(d, j) \ {<<dir, n>>}
  BY <1>6, <1>8, Zenon
<1> QED
  BY <1>2, <1>3, <1>7, <1>8, Zenon DEF e

(* The first entry for a name: fine when the count allows for one more      *)
(* name, and exact when it then agrees.                                     *)
LEMMA NameFine ==
  ASSUME NEW d, DiskOK(d), NEW dir \in Dirs(d), NEW n \in Names,
         d.dent[dir][n] = None, NEW i \in Inums, NEW r, r[i] > 0
  PROVE  LET e == Entered(d, dir, n, i)
         IN  /\ DiskOK(e) /\ e.ibmap = d.ibmap /\ e.type = d.type
             /\ e.nlink = d.nlink
             /\ \/ ~Fine(d, r) \/ d.type[i] = "free"
                \/ d.type[i] # "dir" /\ Cardinality(Entries(d, i)) >= d.nlink[i]
                \/ Fine(e, r)
             /\ \/ ~Exact(d, r, {i})
                \/ d.nlink[i] # IF d.type[i] = "dir" THEN 2
                                ELSE Cardinality(Entries(d, i)) + 1
                \/ Exact(e, r, {})
             /\ i = SelfTest /\ Exact(d, r, {i}) => Exact(e, r, {})
<1> DEFINE e == Entered(d, dir, n, i)
<1>1. /\ DiskOK(e) /\ e.ibmap = d.ibmap /\ e.bmap = d.bmap
      /\ e.type = d.type /\ e.nlink = d.nlink /\ e.blocks = d.blocks
      /\ Entries(e, i) = Entries(d, i) \cup {<<dir, n>>}
      /\ \A j : j # i => Entries(e, j) = Entries(d, j) \ {<<dir, n>>}
  BY DentSet
<1> HIDE DEF e
<1>2. \A j \in Inums : <<dir, n>> \notin Entries(d, j)
  BY Sizes, Zenon DEF Entries
<1>3. \A j \in Inums : j # i => Entries(e, j) = Entries(d, j)
  BY <1>1, <1>2, ZenonT(40)
<1>4. d \in Disk /\ d.ibmap \in SUBSET Inums /\ d.nlink \in [Inums -> Nat]
  BY OnDisk, Zenon DEF DiskOK
<1>5. Cardinality(Entries(e, i)) = Cardinality(Entries(d, i)) + 1
  BY <1>1, <1>2, <1>4, EntriesFinite, FS_AddElement, Zenon
<1>5a. Cardinality(Entries(d, i)) \in Nat
  BY <1>4, EntriesFinite, Zenon
<1>6. ASSUME Fine(d, r), d.type[i] # "free",
             d.type[i] # "dir" => ~(Cardinality(Entries(d, i)) >= d.nlink[i])
      PROVE  Fine(e, r)
  <2>1. i \in d.ibmap
    BY <1>6, Zenon DEF Fine, Held
  <2>2. d.type[i] # "dir" => Cardinality(Entries(e, i)) <= e.nlink[i]
    BY <1>1, <1>4, <1>5, <1>5a, <1>6
  <2>3. Named(e)
    BY <2>1, <2>2, <1>1, <1>3, <1>6, Zenon DEF Named, Fine
  <2>4. Held(e, r)
    BY <1>1, <1>6, Zenon DEF Held, Fine
  <2>5. \A j \in Inums : Kept(e, r, j) => Kept(d, r, j)
    BY <1>3, Zenon DEF Kept
  <2>6. Owned(e, r)
    BY <2>5, <1>1, <1>6, Zenon DEF Owned, Fine
  <2> QED
    BY <2>3, <2>4, <2>6, Zenon DEF Fine
<1>7. ASSUME Exact(d, r, {i}),
             d.nlink[i] = IF d.type[i] = "dir" THEN 2
                          ELSE Cardinality(Entries(d, i)) + 1
      PROVE  Exact(e, r, {})
  <2> SUFFICES ASSUME NEW j \in d.ibmap \ {SelfTest}
               PROVE  IF d.type[j] = "dir"
                      THEN d.nlink[j] = 2 /\ (j # ROOT_INODE => Entries(e, j) # {})
                      ELSE d.nlink[j] = Cardinality(Entries(e, j)) /\ Kept(e, r, j)
    BY <1>1, Zenon DEF Exact
  <2>1. CASE j = i
    BY <2>1, <1>1, <1>5, <1>7, Zenon DEF Kept
  <2>2. CASE j # i
    BY <2>2, <1>3, <1>4, <1>7, Zenon DEF Exact, Kept
  <2> QED
    BY <2>1, <2>2, Zenon
<1>8. ASSUME i = SelfTest, Exact(d, r, {i}) PROVE Exact(e, r, {})
  BY <1>1, <1>3, <1>4, <1>8, Zenon DEF Exact, Kept
<1> QED
  BY <1>1, <1>6, <1>7, <1>8, Zenon DEF e

(* The entry is cleared: one name less, and the inode is unfinished until   *)
(* its count follows.                                                       *)
LEMMA UnnameFine ==
  ASSUME NEW d, DiskOK(d), NEW dir \in Dirs(d), NEW n \in Names,
         NEW i \in Inums, d.dent[dir][n] = i, NEW r
  PROVE  LET e == Entered(d, dir, n, None)
         IN  /\ DiskOK(e) /\ e.ibmap = d.ibmap /\ e.type = d.type
             /\ e.nlink = d.nlink
             /\ Cardinality(Entries(e, i)) = Cardinality(Entries(d, i)) - 1
             /\ Cardinality(Entries(d, i)) \in Nat
             /\ Fine(d, r) => Fine(e, r)
             /\ Exact(d, r, {}) => Exact(e, r, {i})
<1> DEFINE e == Entered(d, dir, n, None)
<1>1. /\ DiskOK(e) /\ e.ibmap = d.ibmap /\ e.bmap = d.bmap
      /\ e.type = d.type /\ e.nlink = d.nlink /\ e.blocks = d.blocks
      /\ \A j : j # None => Entries(e, j) = Entries(d, j) \ {<<dir, n>>}
  BY DentSet
<1> HIDE DEF e
<1>2. \A j : j # i => <<dir, n>> \notin Entries(d, j)
  BY Zenon DEF Entries
<1>2a. <<dir, n>> \in Entries(d, i)
  BY Zenon DEF Entries
<1>3. \A j \in Inums : j # i => Entries(e, j) = Entries(d, j)
  BY <1>1, <1>2, Sizes, Zenon
<1>3a. \A j \in Inums : Entries(e, j) = Entries(d, j) \ {<<dir, n>>}
  BY <1>1, Sizes, Zenon
<1>4. d \in Disk /\ d.ibmap \in SUBSET Inums /\ d.nlink \in [Inums -> Nat]
  BY OnDisk, Zenon DEF DiskOK
<1>5. Cardinality(Entries(e, i)) = Cardinality(Entries(d, i)) - 1
  BY <1>3a, <1>2a, <1>4, EntriesFinite, FS_RemoveElement
<1>5a. Cardinality(Entries(d, i)) \in Nat /\ Cardinality(Entries(e, i)) \in Nat
  BY <1>1, <1>4, EntriesFinite, Zenon DEF DiskOK
<1>6. ASSUME Fine(d, r) PROVE Fine(e, r)
  <2>1. ASSUME NEW j \in Inums, d.type[j] # "dir"
        PROVE  Cardinality(Entries(e, j)) <= d.nlink[j]
    <3>1. Cardinality(Entries(d, j)) <= d.nlink[j]
      BY <2>1, <1>6, Zenon DEF Fine, Named
    <3>2. CASE j = i
      BY <3>1, <3>2, <1>4, <1>5, <1>5a
    <3>3. CASE j # i
      BY <3>1, <3>3, <1>3, Zenon
    <3> QED
      BY <3>2, <3>3, Zenon
  <2>2. \A j \in Inums : Entries(e, j) # {} => Entries(d, j) # {}
    BY <1>3a, Zenon
  <2>3. Named(e)
    BY <2>1, <2>2, <1>1, <1>6, Zenon DEF Named, Fine
  <2>4. Held(e, r)
    BY <1>1, <1>6, Zenon DEF Held, Fine
  <2>5. \A j \in Inums : Kept(e, r, j) => Kept(d, r, j)
    BY <2>2, Zenon DEF Kept
  <2>6. Owned(e, r)
    BY <2>5, <1>1, <1>6, Zenon DEF Owned, Fine
  <2> QED
    BY <2>3, <2>4, <2>6, Zenon DEF Fine
<1>7. ASSUME Exact(d, r, {}) PROVE Exact(e, r, {i})
  BY <1>1, <1>3, <1>4, <1>7, Zenon DEF Exact, Kept
<1> QED
  BY <1>1, <1>5, <1>5a, <1>6, <1>7, Zenon DEF e

-----------------------------------------------------------------------------
(* A link count is written.                                                 *)
Linked(d, i, k) == [d EXCEPT !.nlink[i] = k]

(* A count that is not below the number of names is fine, one that agrees   *)
(* with them is exact, and the self-test file may have any.                 *)
LEMMA CountFine ==
  ASSUME NEW d, DiskOK(d), NEW i \in Inums, NEW k \in Nat, NEW r,
         d.type[i] = "dir" => k > 0
  PROVE  LET e == Linked(d, i, k)
         IN  /\ DiskOK(e) /\ e.ibmap = d.ibmap /\ e.type = d.type
             /\ e.dent = d.dent /\ e.nlink = [d.nlink EXCEPT ![i] = k]
             /\ SameNames(e, d)
             /\ \/ ~Fine(d, r)
                \/ d.type[i] # "dir" /\ Cardinality(Entries(d, i)) > k
                \/ Fine(e, r)
             /\ Exact(d, r, {i}) => Exact(e, r, {i})
             /\ \/ ~Exact(d, r, {i})
                \/ d.type[i] = "dir" \/ k # Cardinality(Entries(d, i)) \/ ~Kept(d, r, i)
                \/ Exact(e, r, {})
             /\ i = SelfTest /\ Exact(d, r, {i}) => Exact(e, r, {})
<1> DEFINE e == Linked(d, i, k)
<1>1. d \in Disk
  BY Zenon DEF DiskOK
<1>2. /\ e \in Disk /\ e.ibmap = d.ibmap /\ e.bmap = d.bmap
      /\ e.type = d.type /\ e.dent = d.dent /\ e.blocks = d.blocks
      /\ e.nlink = [d.nlink EXCEPT ![i] = k]
  BY <1>1, SetCount, Zenon DEF Linked
<1> HIDE DEF e
<1>3. e.nlink[i] = k /\ \A j \in Inums : j # i => e.nlink[j] = d.nlink[j]
  BY <1>1, <1>2, OnDisk, Zenon
<1>4. DiskOK(e)
  BY <1>2, <1>3, Zenon DEF DiskOK
<1>5. \A j \in Inums : Entries(e, j) = Entries(d, j)
  BY <1>2, <1>4, SameEntries, SMTT(30)
<1>5a. d.ibmap \in SUBSET Inums /\ Cardinality(Entries(d, i)) \in Nat
  BY <1>1, OnDisk, EntriesFinite, Zenon
<1>6. ASSUME Fine(d, r), d.type[i] # "dir" => ~(Cardinality(Entries(d, i)) > k)
      PROVE  Fine(e, r)
  <2>1. d.type[i] # "dir" => Cardinality(Entries(e, i)) <= e.nlink[i]
    <3>1. ASSUME d.type[i] # "dir" PROVE Cardinality(Entries(d, i)) <= k
      BY <3>1, <1>5a, <1>6
    <3> QED
      BY <3>1, <1>3, <1>5, Zenon
  <2>2. Named(e)
    BY <2>1, <1>2, <1>3, <1>5, <1>6, Zenon DEF Named, Fine
  <2>3. Held(e, r)
    BY <1>2, <1>6, Zenon DEF Held, Fine
  <2>4. \A j \in Inums : Kept(e, r, j) => Kept(d, r, j)
    BY <1>5, Zenon DEF Kept
  <2>5. Owned(e, r)
    BY <2>4, <1>2, <1>6, Zenon DEF Owned, Fine
  <2> QED
    BY <2>2, <2>3, <2>5, Zenon DEF Fine
<1>7. ASSUME Exact(d, r, {i}) PROVE Exact(e, r, {i})
  BY <1>2, <1>3, <1>5, <1>5a, <1>7, Zenon DEF Exact, Kept
<1>8. ASSUME Exact(d, r, {i}), d.type[i] # "dir", k = Cardinality(Entries(d, i)),
             Kept(d, r, i)
      PROVE  Exact(e, r, {})
  <2> SUFFICES ASSUME NEW j \in d.ibmap \ {SelfTest}
               PROVE  IF d.type[j] = "dir"
                      THEN e.nlink[j] = 2 /\ (j # ROOT_INODE => Entries(e, j) # {})
                      ELSE e.nlink[j] = Cardinality(Entries(e, j)) /\ Kept(e, r, j)
    BY <1>2, Zenon DEF Exact
  <2>1. CASE j = i
    BY <2>1, <1>3, <1>5, <1>8, Zenon DEF Kept
  <2>2. CASE j # i
    BY <2>2, <1>3, <1>5, <1>5a, <1>8, Zenon DEF Exact, Kept
  <2> QED
    BY <2>1, <2>2, Zenon
<1>9. ASSUME i = SelfTest, Exact(d, r, {i}) PROVE Exact(e, r, {})
  BY <1>2, <1>3, <1>5, <1>5a, <1>9, Zenon DEF Exact, Kept
<1> QED
  BY <1>2, <1>4, <1>5, <1>6, <1>7, <1>8, <1>9, Zenon DEF SameNames, e

(* A block is marked in the bitmap.                                         *)
Marked(d, b) == [d EXCEPT !.bmap = @ \cup {b}]

(* Marking a block leaves a fine disk fine and an exact one exact.          *)
LEMMA BmapFine ==
  ASSUME NEW d, DiskOK(d), NEW b \in Blocks, NEW r
  PROVE  LET e == Marked(d, b)
         IN  /\ DiskOK(e) /\ e.ibmap = d.ibmap /\ e.bmap = d.bmap \cup {b}
             /\ e.type = d.type /\ e.nlink = d.nlink
             /\ e.blocks = d.blocks /\ e.dent = d.dent
             /\ Fine(d, r) => Fine(e, r)
             /\ Exact(d, r, {}) => Exact(e, r, {})
<1> DEFINE e == Marked(d, b)
<1>1. d \in Disk /\ d.ibmap \in SUBSET Inums
  BY OnDisk, Zenon DEF DiskOK
<1>2. /\ e \in Disk /\ e.ibmap = d.ibmap /\ e.bmap = d.bmap \cup {b}
      /\ e.type = d.type /\ e.nlink = d.nlink
      /\ e.blocks = d.blocks /\ e.dent = d.dent
  <2>1. d.bmap \cup {b} \in SUBSET Blocks
    BY <1>1, OnDisk, Zenon
  <2> QED
    BY <1>1, <2>1, SetBmap, Zenon DEF Marked
<1> HIDE DEF e
<1>3. DiskOK(e)
  BY <1>2, Zenon DEF DiskOK
<1>4. \A j \in Inums : Entries(e, j) = Entries(d, j)
  BY <1>2, <1>3, SameEntries, ZenonT(40)
<1>5. ASSUME Fine(d, r) PROVE Fine(e, r)
  <2>1. Named(e) /\ Held(e, r)
    BY <1>2, <1>4, <1>5, Zenon DEF Named, Held, Fine
  <2>2. Owned(e, r)
    BY <1>2, <1>4, <1>5, Zenon DEF Owned, Kept, Fine
  <2> QED
    BY <2>1, <2>2, Zenon DEF Fine
<1>6. ASSUME Exact(d, r, {}) PROVE Exact(e, r, {})
  BY <1>1, <1>2, <1>4, <1>6, Zenon DEF Exact, Kept
<1> QED
  BY <1>2, <1>3, <1>5, <1>6, Zenon DEF e

(* The block is entered in the inode.                                       *)
Grown(d, i, b) == [d EXCEPT !.blocks[i] = @ \cup {b}]

(* No inode that can be got at has block b.                                 *)
Apart(d, r, b) == \A j \in Inums : Kept(d, r, j) => b \notin d.blocks[j]

(* A block that no inode had before is not shared after it is entered.      *)
LEMMA GrowFine ==
  ASSUME NEW d, DiskOK(d), NEW i \in Inums, d.type[i] # "dir",
         NEW b \in d.bmap, NEW r
  PROVE  LET e == Grown(d, i, b)
         IN  /\ DiskOK(e) /\ e.ibmap = d.ibmap /\ e.type = d.type
             /\ e.nlink = d.nlink
             /\ Fine(d, r) /\ Apart(d, r, b) => Fine(e, r)
             /\ Exact(d, r, {}) => Exact(e, r, {})
<1> DEFINE e == Grown(d, i, b)
<1>1. d \in Disk /\ d.ibmap \in SUBSET Inums /\ b \in Blocks
  BY OnDisk, Zenon DEF DiskOK
<1>2. /\ e \in Disk /\ e.ibmap = d.ibmap /\ e.bmap = d.bmap
      /\ e.type = d.type /\ e.nlink = d.nlink /\ e.dent = d.dent
      /\ e.blocks = [d.blocks EXCEPT ![i] = d.blocks[i] \cup {b}]
  BY <1>1, SetBlocks DEF Grown
<1> HIDE DEF e
<1>2a. /\ e.blocks[i] = d.blocks[i] \cup {b}
       /\ \A j \in Inums : j # i => e.blocks[j] = d.blocks[j]
  BY <1>1, <1>2, OnDisk, Zenon
<1>3. DiskOK(e)
  BY <1>2, <1>2a, Zenon DEF DiskOK
<1>4. \A j \in Inums : Entries(e, j) = Entries(d, j)
  <2>1. e.type = d.type /\ e.dent = d.dent
    BY <1>2, Zenon
  <2> QED
    BY <1>3, <2>1, SameEntries, ZenonT(40)
<1>5. ASSUME Fine(d, r), Apart(d, r, b) PROVE Fine(e, r)
  <2>1. Named(e) /\ Held(e, r)
    BY <1>2, <1>4, <1>5, Zenon DEF Named, Held, Fine
  <2>2. \A j \in Inums : Kept(e, r, j) => Kept(d, r, j) /\ b \notin d.blocks[j]
    BY <1>4, <1>5, Zenon DEF Kept, Apart
  <2>3. ASSUME NEW j \in Inums, Kept(e, r, j) PROVE e.blocks[j] \subseteq e.bmap
    <3>1. d.blocks[j] \subseteq d.bmap
      BY <2>2, <2>3, <1>5, Zenon DEF Owned, Fine
    <3> QED
      BY <3>1, <1>2, <1>2a, Zenon
  <2>4. ASSUME NEW j \in Inums, NEW k \in Inums, j # k, Kept(e, r, j), Kept(e, r, k)
        PROVE  e.blocks[j] \cap e.blocks[k] = {}
    <3>1. d.blocks[j] \cap d.blocks[k] = {}
      BY <2>2, <2>4, <1>5, Zenon DEF Owned, Fine
    <3>2. b \notin d.blocks[j] /\ b \notin d.blocks[k]
      BY <2>2, <2>4, Zenon
    <3>3. CASE j = i
      <4>1. e.blocks[j] = d.blocks[j] \cup {b} /\ e.blocks[k] = d.blocks[k]
        BY <3>3, <2>4, <1>2a, Zenon
      <4> QED
        BY <4>1, <3>1, <3>2, Zenon
    <3>4. CASE k = i
      <4>1. e.blocks[k] = d.blocks[k] \cup {b} /\ e.blocks[j] = d.blocks[j]
        BY <3>4, <2>4, <1>2a, Zenon
      <4> QED
        BY <4>1, <3>1, <3>2, Zenon
    <3>5. CASE j # i /\ k # i
      BY <3>5, <3>1, <1>2a, Zenon
    <3> QED
      BY <3>3, <3>4, <3>5, Zenon
  <2>5. Owned(e, r)
    BY <2>3, <2>4, Zenon DEF Owned
  <2> QED
    BY <2>1, <2>5, Zenon DEF Fine
<1>6. ASSUME Exact(d, r, {}) PROVE Exact(e, r, {})
  BY <1>1, <1>2, <1>4, <1>6, Zenon DEF Exact, Kept
<1> QED
  BY <1>2, <1>3, <1>5, <1>6, Zenon DEF e

-----------------------------------------------------------------------------
(* The lowest element of a set of numbers is one of them.                   *)
LEMMA LowestFree ==
  ASSUME NEW S, S \subseteq Nat, S # {}
  PROVE  Min(S) \in S
<1>1. IsWellFoundedOn(OpToRel(<, Nat), Nat)
  BY NatLessThanWellFounded, Zenon
<1>2. PICK m \in S : \A n \in S : <<n, m>> \notin OpToRel(<, Nat)
  BY <1>1, WFMin, Zenon
<1>3. \A n \in S : ~(n < m)
  BY <1>2, Zenon DEF OpToRel
<1>4. \E x \in S : \A y \in S : x <= y
  BY <1>3
<1> QED
  BY <1>4, Zenon DEF Min

(* The self-test at boot leaves a disk in order in order.                   *)
LEMMA BootFine ==
  ASSUME NEW d, DiskOK(d), Inums \ d.ibmap # {}
  PROVE  /\ DiskOK(Booted(d))
         /\ Fine(d, Zero) => Fine(Booted(d), Zero)
<1> DEFINE i == Min(Inums \ d.ibmap)
           c == Taken(d, i)
           e == Fresh(c, i, "data")
<1>1. i \in Inums /\ i \notin d.ibmap
  BY LowestFree, Sizes, Zenon
<1> HIDE DEF i
<1>2. d \in Disk
  BY Zenon DEF DiskOK
<1>3. Booted(d) = e
  BY <1>1, <1>2 DEF Booted, Disk, i, Taken, Fresh
<1>4. /\ DiskOK(c) /\ c.ibmap = d.ibmap \cup {i} /\ c.type = d.type
      /\ SameNames(c, d)
      /\ Fine(d, Zero) => Fine(c, Zero)
  BY <1>1, TakenFine, Zenon
<1>5. c.type[i] # "dir" /\ i \in c.ibmap
  BY <1>1, <1>4, NotDir, Zenon
<1>6. Zero \in [Inums -> Nat]
  BY DEF Zero
<1> HIDE DEF c
<1>7. /\ DiskOK(e)
      /\ Fine(c, Zero) /\ Entries(c, i) = {} =>
           Fine(e, Plus(Zero, i))
  BY <1>1, <1>4, <1>5, <1>6, FreshFine, Zenon
<1> HIDE DEF e
<1>8. ASSUME Fine(d, Zero) PROVE Fine(e, Zero)
  <2>1. Entries(c, i) = {}
    BY <1>1, <1>4, <1>8, Zenon DEF Fine, Named, SameNames
  <2> QED
    BY <2>1, <1>4, <1>7, <1>8, FineZero, Zenon
<1> QED
  BY <1>3, <1>7, <1>8, Zenon

-----------------------------------------------------------------------------
(* The files open on inode i.                                               *)
Openers(st, i) == {f \in Files : st.files[f].refcnt > 0 /\ st.files[f].inum = i}

(* The inodes in the cache.                                                 *)
Cached(r) == {i \in Inums : r[i] > 0}

(* The references of each inode are the leaks, the open files and those     *)
(* that the call itself holds, h.                                           *)
Counted(st, h) ==
  /\ \A i \in Inums : st.ref[i] = st.leaks[i] + Cardinality(Openers(st, i)) + h[i]
  /\ Cardinality(Cached(st.ref)) <= N_INODE

(* A call that holds the references h and has yet to write the entries or   *)
(* the counts of the inodes X; L excuses the disks it leaves to a crash.    *)
Good(st, h, X, L) ==
  /\ st \in Calls /\ h \in [Inums -> Nat]
  /\ ~L => ~linkCut
  /\ \A d \in st.past \cup {st.disk} : DiskOK(d) /\ (~L => Fine(d, Zero))
  /\ ~st.panic =>
       /\ Counted(st, h)
       /\ ~linkCut => Fine(st.disk, st.ref)
       /\ reboots = 0 => Exact(st.disk, st.ref, X)

(* Files, descriptors and leaks are the same, and a panic stays.            *)
Same(st, new) ==
  /\ new.files = st.files /\ new.fds = st.fds /\ new.leaks = st.leaks
  /\ st.panic => new.panic

-----------------------------------------------------------------------------
(* The files open on an inode are finitely many.                            *)
LEMMA OpenersFinite ==
  ASSUME NEW st, NEW i
  PROVE  IsFiniteSet(Openers(st, i)) /\ Cardinality(Openers(st, i)) \in Nat
<1>1. Openers(st, i) \in SUBSET Files
  BY Zenon DEF Openers
<1> QED
  BY <1>1, Sizes, FS_Subset, FS_CardinalityType, Zenon

(* The cached inodes are finitely many.                                     *)
LEMMA CachedFinite ==
  ASSUME NEW r
  PROVE  IsFiniteSet(Cached(r)) /\ Cardinality(Cached(r)) \in Nat
<1>1. Cached(r) \in SUBSET Inums
  BY Zenon DEF Cached
<1> QED
  BY <1>1, Sizes, FS_Subset, FS_CardinalityType, Zenon

(* An inode the call holds is referenced.                                   *)
LEMMA HeldRef ==
  ASSUME NEW st \in Calls, NEW h \in [Inums -> Nat], Counted(st, h), NEW i \in Inums
  PROVE  st.ref[i] >= h[i]
<1>1. st.leaks[i] \in Nat /\ st.ref[i] \in Nat /\ h[i] \in Nat
  BY InCall, Zenon
<1>2. st.ref[i] = st.leaks[i] + Cardinality(Openers(st, i)) + h[i]
  BY Zenon DEF Counted
<1> QED
  BY <1>1, <1>2, OpenersFinite

(* Taking and putting references.                                           *)
LEMMA PlusLess ==
  ASSUME NEW h \in [Inums -> Nat], NEW i \in Inums
  PROVE  /\ Plus(h, i) \in [Inums -> Nat] /\ Plus(h, i)[i] > 0
         /\ \A j \in Inums : h[j] > 0 => Plus(h, i)[j] > 0
         /\ Less(Plus(h, i), i) = h
         /\ h[i] > 0 => Less(h, i) \in [Inums -> Nat]
         /\ \A j \in Inums : Less(Plus(Plus(h, i), j), i) = Plus(h, j)
<1>1. /\ Plus(h, i) \in [Inums -> Nat] /\ Plus(h, i)[i] > 0
      /\ \A j \in Inums : h[j] > 0 => Plus(h, i)[j] > 0
      /\ h[i] > 0 => Less(h, i) \in [Inums -> Nat]
  BY DEF Plus, Less
<1>2. Less(Plus(h, i), i) = h
  <2>1. Less(Plus(h, i), i) = [Plus(h, i) EXCEPT ![i] = Plus(h, i)[i] - 1]
    BY Zenon DEF Less
  <2>2. Plus(h, i)[i] - 1 = h[i] /\ \A j \in Inums : j # i => Plus(h, i)[j] = h[j]
    BY DEF Plus
  <2> QED
    BY <2>1, <2>2, <1>1
<1>3. ASSUME NEW j \in Inums PROVE Less(Plus(Plus(h, i), j), i) = Plus(h, j)
  BY DEF Plus, Less
<1> QED
  BY <1>1, <1>2, <1>3, Zenon

(* A panic ends whatever the call was about to do.                          *)
LEMMA PanicGood ==
  ASSUME NEW st, NEW h, NEW X, NEW L, Good(st, h, X, L),
         NEW g \in [Inums -> Nat], NEW Y
  PROVE  /\ Good(Panic(st), g, Y, L) /\ Same(st, Panic(st))
         /\ Panic(st).disk = st.disk /\ Panic(st).panic
<1>1. st \in Calls
  BY Zenon DEF Good
<1>2. /\ Panic(st) \in Calls /\ Panic(st).disk = st.disk
      /\ Panic(st).past = st.past /\ Panic(st).panic = TRUE
      /\ Panic(st).files = st.files /\ Panic(st).fds = st.fds
      /\ Panic(st).leaks = st.leaks
  BY <1>1, SetPanic, Zenon
<1> QED
  BY <1>2, Zenon DEF Good, Same

(* A block write, when the disk it leaves is in order.                      *)
LEMMA WriteGood ==
  ASSUME NEW st, NEW h, NEW X, NEW L, Good(st, h, X, L), NEW d, NEW Y,
         st.panic \/ (/\ DiskOK(d)
                      /\ ~linkCut => Fine(d, st.ref)
                      /\ reboots = 0 => Exact(d, st.ref, Y))
  PROVE  LET new == Writes(st, d)
         IN  /\ Good(new, h, Y, L) /\ Same(st, new) /\ new.ref = st.ref
             /\ new.ip = st.ip /\ new.panic = st.panic
             /\ ~st.panic => new.disk = d
<1> DEFINE new == Writes(st, d)
<1>1. CASE st.panic
  <2>1. new = st
    BY <1>1, Zenon DEF Writes
  <2> QED
    BY <2>1, <1>1, Zenon DEF Good, Same
<1>2. CASE ~st.panic
  <2>1. st \in Calls /\ st.disk \in Disk /\ st.past \in SUBSET Disk /\ d \in Disk
    BY <1>2, InCall, Zenon DEF Good, DiskOK
  <2>2. st.past \cup {st.disk} \in SUBSET Disk
    BY <2>1, Zenon
  <2>3. /\ new \in Calls /\ new.ref = st.ref /\ new.ip = st.ip
        /\ new.disk = d /\ new.past = st.past \cup {st.disk}
        /\ new.files = st.files
        /\ new.fds = st.fds /\ new.leaks = st.leaks /\ new.panic = st.panic
    BY <2>1, <2>2, <1>2, Zenon DEF Writes, Calls
  <2> HIDE DEF new
  <2>4. \A e \in new.past \cup {new.disk} : DiskOK(e) /\ (~L => Fine(e, Zero))
    BY <2>3, <1>2, FineZero, Zenon DEF Good
  <2>5. Counted(new, h)
    BY <2>3, <1>2, ZenonT(40) DEF Good, Counted, Openers
  <2>6. Good(new, h, Y, L)
    BY <2>3, <2>4, <2>5, <1>2, Zenon DEF Good
  <2> QED
    BY <2>3, <2>6, <1>2, Zenon DEF Same, new
<1> QED
  BY <1>1, <1>2, Zenon

(* The counts agree after references moved.                                 *)
LEMMA CountedRef ==
  ASSUME NEW st \in Calls, NEW h \in [Inums -> Nat], NEW new \in Calls,
         NEW g \in [Inums -> Nat], Same(st, new), Counted(st, h),
         \A j \in Inums : new.ref[j] + h[j] = st.ref[j] + g[j],
         Cardinality(Cached(new.ref)) <= N_INODE
  PROVE  Counted(new, g)
<1>1. \A j \in Inums : Openers(new, j) = Openers(st, j) /\ new.leaks[j] = st.leaks[j]
  BY Zenon DEF Same, Openers
<1>2. ASSUME NEW j \in Inums
      PROVE  new.ref[j] = new.leaks[j] + Cardinality(Openers(new, j)) + g[j]
  <2>1. /\ st.ref[j] = st.leaks[j] + Cardinality(Openers(st, j)) + h[j]
        /\ Openers(new, j) = Openers(st, j) /\ new.leaks[j] = st.leaks[j]
    BY <1>1, Zenon DEF Counted
  <2>2. /\ st.leaks[j] \in Nat /\ st.ref[j] \in Nat /\ new.ref[j] \in Nat
        /\ h[j] \in Nat /\ g[j] \in Nat /\ Cardinality(Openers(st, j)) \in Nat
    BY InCall, OpenersFinite, Zenon
  <2>3. new.ref[j] + h[j] = st.ref[j] + g[j]
    BY Zenon
  <2> QED
    BY <2>1, <2>2, <2>3
<1> QED
  BY <1>2, Zenon DEF Counted

(* inode_get takes a reference or panics, and leaves the disk alone.        *)
LEMMA GetRaw ==
  ASSUME NEW st, NEW h, NEW X, NEW L, Good(st, h, X, L), NEW i \in Inums
  PROVE  LET new == InodeGet(st, i)
             r == Plus(st.ref, i)
         IN  \/ new = Panic(st)
             \/ /\ new \in Calls /\ new.ref = r /\ new.ip = i
                /\ new.disk = st.disk /\ new.past = st.past /\ Same(st, new)
                /\ new.panic = st.panic
                /\ ~st.panic => Counted(new, Plus(h, i))
<1> DEFINE new == InodeGet(st, i)
           r == Plus(st.ref, i)
<1>1. st \in Calls /\ h \in [Inums -> Nat] /\ st.ref \in [Inums -> Nat]
  BY InCall, Zenon DEF Good
<1>2. Plus(h, i) \in [Inums -> Nat]
  BY <1>1, PlusLess, Zenon
<1>3. CASE st.ref[i] = 0 /\ Cardinality({j \in Inums : st.ref[j] > 0}) = N_INODE
  BY <1>3, Zenon DEF InodeGet
<1>4. CASE ~(st.ref[i] = 0 /\ Cardinality(Cached(st.ref)) = N_INODE)
  <2>1. r \in [Inums -> Nat] /\ i \in Inums \cup {None}
    BY <1>1, PlusLess, Zenon
  <2>2. new = [st EXCEPT !.ref = r, !.ip = i]
    BY <1>1, <1>4 DEF InodeGet, Cached, Calls, Plus
  <2> HIDE DEF new, r
  <2>3. /\ new \in Calls /\ new.ref = r /\ new.ip = i /\ new.disk = st.disk
        /\ new.past = st.past /\ new.files = st.files /\ new.fds = st.fds
        /\ new.leaks = st.leaks /\ new.panic = st.panic
    BY <2>1, <2>2, <1>1, Zenon DEF Calls
  <2>4. Same(st, new)
    BY <2>3, Zenon DEF Same
  <2>5. /\ \A j \in Inums : j # i => r[j] = st.ref[j]
        /\ r[i] = st.ref[i] + 1
    BY <1>1 DEF r, Plus
  <2>6. ASSUME ~st.panic PROVE Counted(new, Plus(h, i))
    <3>1. Counted(st, h)
      BY <2>6, Zenon DEF Good
    <3>4. Cached(r) = Cached(st.ref) \cup {i}
      BY <1>1, <2>5 DEF Cached
    <3>5. Cardinality(Cached(r)) <= N_INODE
      <4>1. /\ Cardinality(Cached(st.ref)) <= N_INODE
            /\ Cardinality(Cached(st.ref)) \in Nat /\ N_INODE \in Nat
        BY <3>1, CachedFinite, Sizes, Zenon DEF Counted
      <4>2. CASE i \in Cached(st.ref)
        <5>1. Cached(r) = Cached(st.ref)
          BY <4>2, <3>4, Zenon
        <5> QED
          BY <5>1, <4>1, Zenon
      <4>3. CASE i \notin Cached(st.ref)
        <5>1. Cardinality(Cached(r)) = Cardinality(Cached(st.ref)) + 1
          BY <4>3, <3>4, CachedFinite, FS_AddElement, Zenon
        <5>2. st.ref[i] = 0
          BY <4>3, <1>1 DEF Cached
        <5> QED
          BY <5>1, <5>2, <4>1, <1>4
      <4> QED
        BY <4>2, <4>3, Zenon
    <3>6. /\ \A j \in Inums : j # i => Plus(h, i)[j] = h[j]
          /\ r[i] + h[i] = st.ref[i] + Plus(h, i)[i]
      BY <1>1, <2>5 DEF Plus
    <3>7. \A j \in Inums : new.ref[j] + h[j] = st.ref[j] + Plus(h, i)[j]
      BY <3>6, <2>3, <2>5, Zenon
    <3>8. Cardinality(Cached(new.ref)) <= N_INODE
      BY <3>5, <2>3, Zenon
    <3>9. new \in Calls /\ st \in Calls /\ h \in [Inums -> Nat]
      BY <2>3, <1>1, Zenon
    <3> QED
      BY <3>1, <3>7, <3>8, <3>9, <2>4, <1>2, CountedRef
  <2> QED
    BY <2>3, <2>4, <2>6, Zenon DEF new, r
<1> QED
  BY <1>3, <1>4, Zenon DEF Cached

(* inode_get keeps the call in order when the inode could be got at before. *)
LEMMA GetGood ==
  ASSUME NEW st, NEW h, NEW X, NEW L, Good(st, h, X, L), NEW i \in Inums,
         linkCut \/ st.panic \/
           (i \in st.disk.ibmap
            /\ (Kept(st.disk, st.ref, i) \/ st.disk.type[i] = "dir"))
  PROVE  LET new == InodeGet(st, i)
         IN  /\ Good(new, Plus(h, i), X, L) /\ Same(st, new)
             /\ new.disk = st.disk /\ (~new.panic => new.ip = i)
<1> DEFINE new == InodeGet(st, i)
           r == Plus(st.ref, i)
<1>1. st \in Calls /\ h \in [Inums -> Nat] /\ st.ref \in [Inums -> Nat]
  BY InCall, Zenon DEF Good
<1>2. Plus(h, i) \in [Inums -> Nat]
  BY <1>1, PlusLess, Zenon
<1>3. CASE new = Panic(st)
  BY <1>2, <1>3, PanicGood, Zenon
<1>4. CASE /\ new \in Calls /\ new.ref = r /\ new.ip = i
           /\ new.disk = st.disk /\ new.past = st.past /\ Same(st, new)
           /\ new.panic = st.panic
           /\ ~st.panic => Counted(new, Plus(h, i))
  <2> HIDE DEF new
  <2>1. \A j \in Inums : st.ref[j] > 0 => r[j] > 0
    BY <1>1 DEF Plus
  <2>2. ASSUME ~st.panic
        PROVE  /\ ~linkCut => Fine(st.disk, r)
               /\ reboots = 0 => Exact(st.disk, r, X)
    <3>1. DiskOK(st.disk)
      BY Zenon DEF Good
    <3>2. ~linkCut => Fine(st.disk, r)
      BY <2>2, <3>1, <1>1, FineGet, Zenon DEF Good
    <3> HIDE DEF r
    <3>3. reboots = 0 => Exact(st.disk, r, X)
      BY <2>1, <2>2, <3>1, ExactGet, Zenon DEF Good
    <3> QED
      BY <3>2, <3>3, Zenon
  <2> HIDE DEF r
  <2>3. Good(new, Plus(h, i), X, L)
    BY <2>2, <1>2, <1>4, Zenon DEF Good
  <2> QED
    BY <2>3, <1>4, Zenon DEF new
<1> QED
  BY <1>3, <1>4, GetRaw, Zenon

-----------------------------------------------------------------------------
(* The last put of inode i without a name, before its deletion; r is what   *)
(* the references were before it.                                           *)
LastPut(st, g, L, i, r) ==
  /\ st \in Calls /\ g \in [Inums -> Nat] /\ r \in [Inums -> Nat]
  /\ r[i] > 0 /\ st.ref = [r EXCEPT ![i] = 0]
  /\ ~st.panic /\ st.disk.nlink[i] = 0
  /\ Counted(st, g)
  /\ ~L => ~linkCut
  /\ \A d \in st.past \cup {st.disk} : DiskOK(d) /\ (~L => Fine(d, Zero))
  /\ ~linkCut => Fine(st.disk, r)
  /\ reboots = 0 => Exact(st.disk, r, {})

(* Blocks given back change nothing but the block bitmap.                   *)
LEMMA WithoutSame ==
  ASSUME NEW d, DiskOK(d), NEW T
  PROVE  LET e == Without(d, T)
         IN  /\ e.ibmap = d.ibmap /\ e.type = d.type /\ e.nlink = d.nlink
             /\ e.blocks = d.blocks /\ DiskOK(e)
             /\ \A j \in Inums : Entries(e, j) = Entries(d, j)
<1> DEFINE e == Without(d, T)
<1>1. d \in Disk /\ d.bmap \ T \in SUBSET Blocks
  BY OnDisk, Zenon DEF DiskOK
<1>2. /\ e \in Disk /\ e.bmap = d.bmap \ T /\ e.ibmap = d.ibmap
      /\ e.type = d.type /\ e.nlink = d.nlink
      /\ e.blocks = d.blocks /\ e.dent = d.dent
  BY <1>1, SetBmap, Zenon DEF Without
<1> HIDE DEF e
<1>3. DiskOK(e)
  BY <1>2, Zenon DEF DiskOK
<1>4. \A j \in Inums : Entries(e, j) = Entries(d, j)
  BY <1>2, <1>3, SameEntries, ZenonT(40)
<1> QED
  BY <1>2, <1>3, <1>4, Zenon DEF e

(* free_data_blocks in the last put keeps the call in order, whichever      *)
(* blocks were given back before a crash.                                   *)
LEMMA FreedGood ==
  ASSUME NEW st, NEW g, NEW L, NEW i \in Inums, NEW r, LastPut(st, g, L, i, r)
  PROVE  LET new == FreeDataBlocks(st, st.disk.blocks[i])
         IN  /\ Good(new, g, {i}, L) /\ Same(st, new) /\ new.ref = st.ref
             /\ new.disk.nlink = st.disk.nlink
<1> DEFINE d == st.disk
           S == d.blocks[i]
           own == S \cap d.bmap
           W == {Without(d, T) : T \in SUBSET own}
           new == FreeDataBlocks(st, S)
<1>0. /\ st \in Calls /\ g \in [Inums -> Nat] /\ r \in [Inums -> Nat]
      /\ r[i] > 0 /\ st.ref = [r EXCEPT ![i] = 0]
      /\ ~st.panic /\ st.disk.nlink[i] = 0 /\ Counted(st, g)
      /\ ~L => ~linkCut
      /\ \A e \in st.past \cup {st.disk} : DiskOK(e) /\ (~L => Fine(e, Zero))
      /\ ~linkCut => Fine(st.disk, r)
      /\ reboots = 0 => Exact(st.disk, r, {})
  BY Zenon DEF LastPut
<1>1. DiskOK(d) /\ d \in Disk /\ st.past \in SUBSET Disk
  BY <1>0, InCall, Zenon
<1>2. \A e \in W : DiskOK(e) /\ (~L => Fine(e, Zero))
  <2> SUFFICES ASSUME NEW T \in SUBSET own
               PROVE  DiskOK(Without(d, T)) /\ (~L => Fine(Without(d, T), Zero))
    BY Zenon
  <2>1. T \in SUBSET d.blocks[i]
    BY Zenon
  <2>2. /\ DiskOK(Without(d, T))
        /\ Fine(d, r) => Fine(Without(d, T), [r EXCEPT ![i] = 0])
    BY <2>1, <1>0, <1>1, WithoutFine, Zenon
  <2> QED
    BY <2>2, <1>0, FineZero, Zenon
<1>3. st.past \cup W \in SUBSET Disk
  BY <1>1, <1>2, Zenon DEF DiskOK
<1>4. new = IF own # S THEN Panic([st EXCEPT !.past = st.past \cup W])
            ELSE [st EXCEPT !.disk = Without(d, S), !.past = st.past \cup W]
  BY <1>0, Zenon DEF FreeDataBlocks, Calls, Panic
<1>5. Without(d, S) \in Disk
  BY <1>1, WithoutSame, Zenon DEF DiskOK
<1>5a. S \in SUBSET d.blocks[i] /\ d.nlink[i] = 0
  BY <1>0, Zenon
<1> HIDE DEF new, W, own, d, S
<1>6. /\ new \in Calls /\ new.past = st.past \cup W /\ new.ref = st.ref
      /\ new.files = st.files /\ new.fds = st.fds /\ new.leaks = st.leaks
      /\ new.panic <=> own # S
      /\ new.disk = IF own # S THEN d ELSE Without(d, S)
  <2>1. CASE own # S
    BY <2>1, <1>0, <1>3, <1>4, Zenon DEF Calls, Panic, d
  <2>2. CASE own = S
    BY <2>2, <1>0, <1>3, <1>4, <1>5, Zenon DEF Calls
  <2> QED
    BY <2>1, <2>2, Zenon
<1>7. Same(st, new) /\ Counted(new, g)
  <2>1. Same(st, new)
    BY <1>0, <1>6, Zenon DEF Same
  <2>2. \A j \in Inums : Openers(new, j) = Openers(st, j)
    BY <1>6, Zenon DEF Openers
  <2>3. Counted(new, g)
    BY <2>2, <1>0, <1>6, Zenon DEF Counted
  <2> QED
    BY <2>1, <2>3, Zenon
<1>8. new.disk.nlink = d.nlink
  <2>1. Without(d, S).nlink = d.nlink
    BY <1>1, WithoutSame, Zenon
  <2> QED
    BY <2>1, <1>6, Zenon
<1>9. \A e \in new.past \cup {new.disk} : DiskOK(e) /\ (~L => Fine(e, Zero))
  <2>1. Without(d, S) \in W \/ own # S
    BY Zenon DEF W
  <2>2. d \in st.past \cup {st.disk}
    BY Zenon DEF d
  <2> QED
    BY <2>1, <2>2, <1>0, <1>2, <1>6, Zenon
<1>10. ASSUME own = S
       PROVE  /\ ~linkCut => Fine(Without(d, S), st.ref)
              /\ reboots = 0 => Exact(Without(d, S), st.ref, {i})
  <2>1. Fine(d, r) => Fine(Without(d, S), st.ref)
    <3>1. Fine(d, r) => Fine(Without(d, S), [r EXCEPT ![i] = 0])
      BY <1>0, <1>1, <1>5a, WithoutFine, Zenon
    <3> QED
      BY <3>1, <1>0, Zenon
  <2>2. ASSUME Exact(d, r, {}) PROVE Exact(Without(d, S), st.ref, {i})
    <3>1. \A j \in Inums : j # i => st.ref[j] = r[j]
      BY <1>0, Zenon
    <3>2. d.ibmap \in SUBSET Inums
      BY <1>1, OnDisk, Zenon
    <3> QED
      <4> DEFINE e == Without(d, S)
      <4>1. /\ e.ibmap = d.ibmap /\ e.type = d.type /\ e.nlink = d.nlink
            /\ \A j \in Inums : Entries(e, j) = Entries(d, j)
        BY <1>1, WithoutSame, Zenon
      <4> HIDE DEF e
      <4>2. Exact(e, st.ref, {i})
        BY <2>2, <3>1, <3>2, <4>1, Zenon DEF Exact, Kept
      <4> QED
        BY <4>2, Zenon DEF e
  <2> QED
    BY <2>1, <2>2, <1>0, Zenon DEF d
<1>11. Good(new, g, {i}, L)
  BY <1>0, <1>6, <1>7, <1>9, <1>10, Zenon DEF Good
<1> QED
  BY <1>6, <1>7, <1>8, <1>11, Zenon DEF new, d, S

(* The whole deletion, blocks, bitmap and inode, keeps the call in order at *)
(* each of its writes.                                                      *)
LEMMA DeleteGood ==
  ASSUME NEW st, NEW g, NEW L, NEW i \in Inums, NEW r, LastPut(st, g, L, i, r)
  PROVE  Good(Delete(st, i), g, {}, L) /\ Same(st, Delete(st, i))
<1> DEFINE freed == FreeDataBlocks(st, st.disk.blocks[i])
           d1 == freed.disk
           d2 == Unset(d1, i)
           unset == Writes(freed, d2)
           d3 == Cleared(unset.disk, i)
<1>1. /\ Good(freed, g, {i}, L) /\ Same(st, freed) /\ freed.ref = st.ref
      /\ d1.nlink = st.disk.nlink
  BY FreedGood, Zenon
<1> HIDE DEF freed, d1
<1>2. CASE i \notin d1.ibmap
  <2>1. Delete(st, i) = Panic(freed)
    BY <1>2, Zenon DEF Delete, Unset, Cleared, freed, d1
  <2> QED
    <3>1. Good(Panic(freed), g, {}, L) /\ Same(freed, Panic(freed))
      BY <1>1, PanicGood, Zenon DEF LastPut
    <3> QED
      BY <2>1, <3>1, <1>1, Zenon DEF Same
<1>3. CASE i \in d1.ibmap
  <2>1. Delete(st, i) = Writes(unset, d3)
    BY <1>3, Zenon DEF Delete, Unset, Cleared, freed, d1
  <2>2. DiskOK(d1) /\ freed.ref \in [Inums -> Nat] /\ freed.ref[i] = 0
    <3>1. freed.disk \in freed.past \cup {freed.disk} /\ freed \in Calls
      BY <1>1, Zenon DEF Good
    <3>2. freed.ref[i] = 0
      BY <1>1, Zenon DEF LastPut
    <3> QED
      BY <1>1, <3>1, <3>2, InCall, Zenon DEF Good, d1
  <2>3. d1.nlink[i] = 0
    BY <1>1, Zenon DEF LastPut
  <2>4. /\ DiskOK(d2) /\ d2.ibmap = d1.ibmap \ {i}
        /\ d2.type = d1.type /\ d2.nlink = d1.nlink
        /\ d2.dent = d1.dent
        /\ Fine(d1, freed.ref) => Fine(d2, freed.ref)
    BY <2>2, <2>3, UnsetFine
  <2> HIDE DEF d2
  <2>5. \A j \in Inums : Entries(d2, j) = Entries(d1, j)
    <3>1. DiskOK(d2) /\ d2.type = d1.type /\ d2.dent = d1.dent
      BY <2>4, Zenon
    <3> QED
      BY <3>1, <2>2, SameEntries, Zenon
  <2>6. ASSUME Exact(d1, freed.ref, {i}) PROVE Exact(d2, freed.ref, {})
    <3>1. d1.ibmap \in SUBSET Inums
      BY <2>2, OnDisk, Zenon DEF DiskOK
    <3> QED
      BY <3>1, <2>4, <2>5, <2>6, Zenon DEF Exact, Kept
  <2>7. freed.panic \/ (/\ DiskOK(d2)
                        /\ ~linkCut => Fine(d2, freed.ref)
                        /\ reboots = 0 => Exact(d2, freed.ref, {}))
    BY <2>4, <2>6, <1>1, Zenon DEF Good, d1
  <2>8. /\ Good(unset, g, {}, L) /\ Same(freed, unset) /\ unset.ref = freed.ref
        /\ unset.panic = freed.panic
        /\ ~freed.panic => unset.disk = d2
    BY <2>7, <1>1, WriteGood
  <2> HIDE DEF unset
  <2>9. ASSUME ~unset.panic
        PROVE  /\ DiskOK(d3)
               /\ ~linkCut => Fine(d3, unset.ref)
               /\ reboots = 0 => Exact(d3, unset.ref, {})
    <3>1. unset.disk = d2 /\ d2.nlink[i] = 0 /\ unset.ref[i] = 0
      BY <2>2, <2>3, <2>4, <2>8, <2>9, Zenon
    <3>2. /\ DiskOK(d3) /\ d3.ibmap = d2.ibmap
          /\ d3.type = [d2.type EXCEPT ![i] = "free"] /\ d3.nlink = d2.nlink
          /\ \A j \in Inums : Entries(d3, j) = Entries(d2, j)
          /\ Fine(d2, unset.ref) => Fine(d3, unset.ref)
      <4>1. unset.ref \in [Inums -> Nat] /\ DiskOK(d2)
        BY <2>2, <2>4, <2>8, Zenon
      <4> QED
        <5>1. d3 = Cleared(d2, i)
          BY <3>1, Zenon
        <5> HIDE DEF d3
        <5>2. d2.nlink[i] = 0 /\ unset.ref[i] = 0
          BY <3>1, Zenon
        <5> DEFINE e == Cleared(d2, i)
        <5>3. /\ DiskOK(e) /\ e.ibmap = d2.ibmap /\ e.nlink = d2.nlink
              /\ e.type = [d2.type EXCEPT ![i] = "free"] /\ SameNames(e, d2)
              /\ Fine(d2, unset.ref) => Fine(e, unset.ref)
          BY <5>2, <4>1, ClearFine, ZenonT(30)
        <5> HIDE DEF e
        <5> QED
          BY <5>1, <5>3, Zenon DEF SameNames, e
    <3> HIDE DEF d3
    <3>3. ASSUME Exact(d2, unset.ref, {}) PROVE Exact(d3, unset.ref, {})
      <4>1. \A j \in d2.ibmap : j \in Inums /\ j # i /\ d3.type[j] = d2.type[j]
        BY <3>2, <2>4, OnDisk, Zenon DEF DiskOK
      <4> QED
        BY <4>1, <3>2, <3>3, Zenon DEF Exact, Kept
    <3> QED
      BY <3>1, <3>2, <3>3, <2>8, <2>9, Zenon DEF Good
  <2>10. Good(Writes(unset, d3), g, {}, L) /\ Same(unset, Writes(unset, d3))
    BY <2>8, <2>9, WriteGood, Zenon
  <2> QED
    BY <2>1, <2>8, <2>10, <1>1, Zenon DEF Same
<1> QED
  BY <1>2, <1>3, Zenon

(* inode_put gives back one reference that the call holds, and deletes      *)
(* nothing that has a count.                                                *)
LEMMA PutGood ==
  ASSUME NEW st, NEW h, NEW L, Good(st, h, {}, L), NEW i \in Inums, h[i] > 0
  PROVE  LET new == InodePut(st, i)
         IN  /\ Good(new, Less(h, i), {}, L) /\ Same(st, new)
             /\ st.disk.nlink[i] > 0 => new.disk = st.disk /\ new.ip = st.ip
<1> DEFINE new == InodePut(st, i)
           s == [st.ref EXCEPT ![i] = st.ref[i] - 1]
           less == [st EXCEPT !.ref[i] = @ - 1]
<1>1. /\ st \in Calls /\ h \in [Inums -> Nat] /\ st.ref \in [Inums -> Nat]
      /\ DiskOK(st.disk)
  BY InCall, Zenon DEF Good
<1>2. Less(h, i) \in [Inums -> Nat]
  BY <1>1, PlusLess, Zenon
<1>3. CASE st.panic
  <2>1. new = st
    BY <1>3, Zenon DEF InodePut
  <2> QED
    BY <2>1, <1>2, <1>3, Zenon DEF Good, Same
<1>4. CASE ~st.panic
  <2>1. Counted(st, h)
    BY <1>4, Zenon DEF Good
  <2>2. st.ref[i] >= h[i]
    BY <2>1, <1>1, HeldRef, Zenon
  <2>3. st.ref[i] > 0 /\ st.ref[i] # 0 /\ s \in [Inums -> Nat]
    BY <2>2, <1>1
  <2>4. /\ less \in Calls /\ less.ref = s /\ less.disk = st.disk
        /\ less.past = st.past /\ less.files = st.files /\ less.fds = st.fds
        /\ less.leaks = st.leaks /\ less.panic = st.panic /\ less.ip = st.ip
    BY <2>3, <1>1 DEF Calls
  <2>5. new = IF LastRef(less, i) THEN Delete(less, i) ELSE less
    BY <2>3, <1>4, Zenon DEF InodePut
  <2> HIDE DEF less, new
  <2>6. /\ \A j \in Inums : j # i => s[j] = st.ref[j]
        /\ s[i] = st.ref[i] - 1 /\ \A j \in Inums : s[j] > 0 => st.ref[j] > 0
    BY <2>3, <1>1
  <2>7. Counted(less, Less(h, i))
    <3>1. \A j \in Inums : s[j] + h[j] = st.ref[j] + Less(h, i)[j]
      BY <2>3, <1>1 DEF Less
    <3>2. Cached(s) \in SUBSET Cached(st.ref)
      BY <2>6, Zenon DEF Cached
    <3>3. Cardinality(Cached(s)) <= N_INODE
      <4>1. Cardinality(Cached(s)) <= Cardinality(Cached(st.ref))
        BY <3>2, CachedFinite, FS_Subset, Zenon
      <4>2. Cardinality(Cached(st.ref)) <= N_INODE
        BY <2>1, Zenon DEF Counted
      <4> QED
        BY <4>1, <4>2, CachedFinite, Sizes
    <3> HIDE DEF s
    <3>4. \A j \in Inums : less.ref[j] + h[j] = st.ref[j] + Less(h, i)[j]
      BY <3>1, <2>4, Zenon
    <3>5. Cardinality(Cached(less.ref)) <= N_INODE
      BY <3>3, <2>4, Zenon
    <3>6. Same(st, less) /\ less \in Calls
      BY <2>4, Zenon DEF Same
    <3>7. st \in Calls /\ h \in [Inums -> Nat]
      BY <1>1, Zenon
    <3> QED
      BY <3>4, <3>5, <3>6, <3>7, <2>1, <1>2, CountedRef
  <2>8. /\ ~L => ~linkCut
        /\ \A d \in st.past \cup {st.disk} : DiskOK(d) /\ (~L => Fine(d, Zero))
        /\ ~linkCut => Fine(st.disk, st.ref)
        /\ reboots = 0 => Exact(st.disk, st.ref, {})
    BY <1>4, Zenon DEF Good
  <2>9. CASE LastRef(less, i)
    <3>1. s[i] = 0 /\ st.disk.nlink[i] = 0
      BY <2>9, <2>4, Zenon DEF LastRef
    <3>2. s = [st.ref EXCEPT ![i] = 0]
      BY <3>1, <2>6, Zenon
    <3> HIDE DEF s
    <3>3. Good(Delete(less, i), Less(h, i), {}, L) /\ Same(less, Delete(less, i))
      <4>1. LastPut(less, Less(h, i), L, i, st.ref)
        BY <3>1, <3>2, <2>3, <2>4, <2>7, <2>8, <1>1, <1>2, <1>4, Zenon DEF LastPut
      <4> QED
        BY <4>1, DeleteGood, Zenon
    <3>4. ~(st.disk.nlink[i] > 0)
      BY <3>1
    <3> QED
      BY <3>3, <3>4, <2>4, <2>5, <2>9, Zenon DEF Same, new
  <2>10. CASE ~LastRef(less, i)
    <3>1. s[i] # 0 \/ st.disk.nlink[i] # 0
      BY <2>10, <2>4, Zenon DEF LastRef
    <3>2. st.disk.nlink[i] > 0 \/ st.ref[i] > 1
      <4>1. st.disk.nlink[i] \in Nat
        BY <1>1, OnDisk, Zenon DEF DiskOK
      <4> QED
        BY <3>1, <4>1, <2>3, <2>6, <1>1
    <3>3. reboots = 0 => Exact(st.disk, s, {})
      BY <3>2, <2>8, <1>1, ExactPut, Zenon
    <3>4. ~linkCut => Fine(st.disk, s)
      <4>1. \A j \in Inums : s[j] > 0 => st.ref[j] > 0
        BY <2>6, Zenon
      <4> HIDE DEF s
      <4> QED
        BY <4>1, <2>8, FineLess
    <3> HIDE DEF s
    <3>5. Good(less, Less(h, i), {}, L) /\ Same(st, less)
      BY <3>3, <3>4, <2>4, <2>7, <2>8, <1>2, Zenon DEF Good, Same
    <3> QED
      BY <3>5, <2>4, <2>5, <2>10, Zenon DEF new
  <2> QED
    BY <2>9, <2>10, Zenon
<1> QED
  BY <1>3, <1>4, Zenon

-----------------------------------------------------------------------------
(* After a panic it does not matter what the call held.                     *)
LEMMA AnyPanic ==
  ASSUME NEW st, NEW h, NEW X, NEW L, Good(st, h, X, L), st.panic,
         NEW g \in [Inums -> Nat], NEW Y
  PROVE  Good(st, g, Y, L)
  BY Zenon DEF Good

(* What a call in order says about its disk.                                *)
LEMMA GoodDisk ==
  ASSUME NEW st, NEW h, NEW X, NEW L, Good(st, h, X, L)
  PROVE  /\ DiskOK(st.disk) /\ st.disk \in Disk /\ st \in Calls
         /\ h \in [Inums -> Nat] /\ st.ref \in [Inums -> Nat]
         /\ ~st.panic => /\ Counted(st, h)
                         /\ ~linkCut => Fine(st.disk, st.ref)
                         /\ reboots = 0 => Exact(st.disk, st.ref, X)
                         /\ \A i \in Inums : h[i] > 0 => st.ref[i] > 0
<1>1. st \in Calls /\ h \in [Inums -> Nat] /\ st.disk \in st.past \cup {st.disk}
  BY Zenon DEF Good
<1>2. /\ DiskOK(st.disk)
      /\ ~st.panic => /\ Counted(st, h)
                      /\ ~linkCut => Fine(st.disk, st.ref)
                      /\ reboots = 0 => Exact(st.disk, st.ref, X)
  BY <1>1, Zenon DEF Good
<1>3. ASSUME ~st.panic, NEW i \in Inums, h[i] > 0 PROVE st.ref[i] > 0
  <2>1. st.ref[i] >= h[i]
    BY <1>1, <1>2, <1>3, HeldRef, Zenon
  <2> QED
    BY <2>1, <1>1, <1>3, InCall
<1>4. st.disk \in Disk /\ st.ref \in [Inums -> Nat]
  BY <1>1, InCall, Zenon
<1> QED
  BY <1>1, <1>2, <1>3, <1>4, Zenon

(* A directory can always be taken.                                         *)
LEMMA DirGet ==
  ASSUME NEW st, NEW h, NEW X, NEW L, Good(st, h, X, L), NEW i \in Dirs(st.disk)
  PROVE  LET new == InodeGet(st, i)
         IN  /\ Good(new, Plus(h, i), X, L) /\ Same(st, new)
             /\ new.disk = st.disk /\ (~new.panic => new.ip = i)
             /\ i \in Inums /\ st.disk.type[i] = "dir" /\ st.disk.nlink[i] > 0
<1>1. DiskOK(st.disk)
  BY GoodDisk, Zenon
<1>2. i \in Inums /\ i \in st.disk.ibmap /\ st.disk.type[i] = "dir"
  BY <1>1, DirsOf, Zenon DEF Dirs
<1>3. st.disk.nlink[i] > 0
  BY <1>1, <1>2, Zenon DEF DiskOK
<1> QED
  BY <1>2, <1>3, GetGood, Zenon

(* A path walk ends with a reference to the directory and no other, on the  *)
(* same disk.                                                               *)
LEMMA WalkGood ==
  ASSUME NEW st, NEW h, NEW L, Good(st, h, {}, L),
         NEW start \in Dirs(st.disk), NEW dir \in Dirs(st.disk)
  PROVE  LET new == Walk(st, start, dir)
         IN  /\ Good(new, Plus(h, dir), {}, L) /\ Same(st, new)
             /\ new.disk = st.disk /\ dir \in Inums
             /\ st.disk.type[dir] = "dir" /\ st.disk.nlink[dir] > 0
<1>1. CASE start = dir
  <2>1. Walk(st, start, dir) = InodeGet(st, dir)
    BY <1>1, Zenon DEF Walk
  <2> QED
    BY <2>1, DirGet
<1>2. CASE start # dir
  <2> DEFINE one == InodeGet(st, start)
             two == InodeGet(one, dir)
             end == InodePut(two, start)
  <2>1. Walk(st, start, dir) = end
    BY <1>2, Zenon DEF Walk
  <2>2. /\ Good(one, Plus(h, start), {}, L) /\ Same(st, one)
        /\ one.disk = st.disk /\ start \in Inums /\ st.disk.nlink[start] > 0
    BY DirGet, Zenon
  <2> HIDE DEF one
  <2>3. /\ Good(two, Plus(Plus(h, start), dir), {}, L) /\ Same(one, two)
        /\ two.disk = one.disk /\ dir \in Inums
        /\ one.disk.type[dir] = "dir" /\ one.disk.nlink[dir] > 0
    <3>1. dir \in Dirs(one.disk)
      BY <2>2, Zenon
    <3> QED
      BY <3>1, <2>2, DirGet
  <2> HIDE DEF two
  <2>4. h \in [Inums -> Nat]
    BY Zenon DEF Good
  <2>5. /\ Plus(Plus(h, start), dir)[start] > 0
        /\ Less(Plus(Plus(h, start), dir), start) = Plus(h, dir)
    BY <2>2, <2>3, <2>4, PlusLess, Zenon
  <2>6. /\ Good(end, Less(Plus(Plus(h, start), dir), start), {}, L)
        /\ Same(two, end)
        /\ two.disk.nlink[start] > 0 => end.disk = two.disk
    BY <2>2, <2>3, <2>5, PutGood, Zenon
  <2>7. end.disk = st.disk
    BY <2>2, <2>3, <2>6, Zenon
  <2>8. Same(st, end)
    BY <2>2, <2>3, <2>6, Zenon DEF Same
  <2>9. Good(end, Plus(h, dir), {}, L)
    BY <2>5, <2>6, Zenon
  <2>10. dir \in Inums /\ st.disk.type[dir] = "dir" /\ st.disk.nlink[dir] > 0
    BY <2>2, <2>3, Zenon
  <2> HIDE DEF end
  <2> QED
    BY <2>1, <2>7, <2>8, <2>9, <2>10, Zenon
<1> QED
  BY <1>1, <1>2, Zenon

(* inode_create gives a new inode that the call holds and that has yet to   *)
(* get its name.                                                            *)
LEMMA CreateGood ==
  ASSUME NEW st, NEW h, NEW L, Good(st, h, {}, L), NEW ty \in {"data", "dir"}
  PROVE  LET new == InodeCreate(st, ty)
             i == new.ip
         IN  /\ Same(st, new)
             /\ new.panic => \A Y : Good(new, h, Y, L)
             /\ ~new.panic =>
                  /\ i \in Inums /\ Good(new, Plus(h, i), {i}, L)
                  /\ new.disk.type[i] = ty /\ new.disk.nlink[i] = 1
                  /\ ~linkCut => Entries(new.disk, i) = {}
                  /\ KeepsDirs(new.disk, st.disk)
<1> DEFINE new == InodeCreate(st, ty)
           frees == Inums \ st.disk.ibmap
           i == Min(frees)
           d1 == Taken(st.disk, i)
           kept == Writes(st, d1)
           got == InodeGet(kept, i)
           d2 == Fresh(got.disk, i, ty)
<1>0. /\ DiskOK(st.disk) /\ st.disk \in Disk /\ st \in Calls
      /\ h \in [Inums -> Nat] /\ st.ref \in [Inums -> Nat]
  BY GoodDisk, Zenon
<1>1. CASE frees = {}
  <2>1. new = Panic(st)
    BY <1>1, Zenon DEF InodeCreate
  <2>2. /\ \A Y : Good(Panic(st), h, Y, L)
        /\ Same(st, Panic(st)) /\ Panic(st).panic
    BY <1>0, PanicGood, Zenon
  <2> QED
    BY <2>1, <2>2, Zenon
<1>2. CASE frees # {}
  <2>1. i \in Inums /\ i \notin st.disk.ibmap
    BY <1>2, LowestFree, Sizes, Zenon
  <2>2. new = Writes(got, d2)
    BY <1>2 DEF InodeCreate, Taken, Fresh
  <2> HIDE DEF i, new
  <2>3. /\ DiskOK(d1) /\ d1.ibmap = st.disk.ibmap \cup {i}
        /\ d1.type = st.disk.type /\ d1.dent = st.disk.dent
        /\ SameNames(d1, st.disk)
        /\ Fine(st.disk, st.ref) => Fine(d1, st.ref)
        /\ Exact(st.disk, st.ref, {}) => Exact(d1, st.ref, {i})
    BY <2>1, <1>0, TakenFine, Zenon
  <2> HIDE DEF d1
  <2>4. /\ Good(kept, h, {i}, L) /\ Same(st, kept) /\ kept.ref = st.ref
        /\ kept.panic = st.panic /\ (~st.panic => kept.disk = d1)
    <3>1. st.panic \/ (/\ DiskOK(d1)
                       /\ ~linkCut => Fine(d1, st.ref)
                       /\ reboots = 0 => Exact(d1, st.ref, {i}))
      BY <2>3, GoodDisk, Zenon
    <3> QED
      BY <3>1, WriteGood, Zenon
  <2> HIDE DEF kept
  <2>5. CASE kept.panic
    <3>1. got.panic /\ Good(got, h, {i}, L) /\ Same(kept, got)
      <4>1. linkCut \/ kept.panic \/
              (i \in kept.disk.ibmap
               /\ (Kept(kept.disk, kept.ref, i) \/ kept.disk.type[i] = "dir"))
        BY <2>5, Zenon
      <4>2. Good(got, Plus(h, i), {i}, L) /\ Same(kept, got)
        BY <4>1, <2>1, <2>4, GetGood, Zenon
      <4>3. got.panic
        BY <4>2, <2>5, Zenon DEF Same
      <4> QED
        BY <4>2, <4>3, <1>0, AnyPanic, Zenon
    <3>2. new = got
      BY <3>1, <2>2, Zenon DEF Writes
    <3> HIDE DEF got
    <3>3. \A Y : Good(got, h, Y, L)
      BY <3>1, <1>0, AnyPanic, Zenon
    <3> QED
      BY <3>1, <3>2, <3>3, <2>4, Zenon DEF Same, new
  <2>6. CASE ~kept.panic
    <3>1. ~st.panic /\ kept.disk = d1 /\ kept.ref = st.ref
      BY <2>4, <2>6, Zenon
    <3>2. CASE got = Panic(kept)
      <4>1. /\ \A Y : Good(got, h, Y, L)
            /\ Same(kept, got) /\ got.panic
        BY <3>2, <2>4, <1>0, PanicGood, Zenon
      <4>2. new = got
        BY <4>1, <2>2, Zenon DEF Writes
      <4> HIDE DEF got
      <4> QED
        BY <4>1, <4>2, <2>4, Zenon DEF Same, new
    <3>3. CASE got # Panic(kept)
      <4> DEFINE s == Plus(st.ref, i)
                 d3 == Fresh(d1, i, ty)
      <4>1. /\ got \in Calls /\ got.ref = s /\ got.ip = i
            /\ got.disk = d1 /\ got.past = kept.past /\ Same(kept, got)
            /\ ~got.panic /\ Counted(got, Plus(h, i))
        <5>1. /\ got \in Calls /\ got.ref = Plus(kept.ref, i) /\ got.ip = i
              /\ got.disk = kept.disk /\ got.past = kept.past /\ Same(kept, got)
              /\ got.panic = kept.panic
              /\ ~kept.panic => Counted(got, Plus(h, i))
          BY <3>3, <2>1, <2>4, GetRaw
        <5> QED
          BY <5>1, <3>1, <2>6
      <4> HIDE DEF got
      <4>2. d1.type[i] # "dir" /\ i \in d1.ibmap
        BY <2>1, <2>3, <1>0, NotDir, Zenon
      <4>3. /\ DiskOK(d3) /\ d3.ibmap = d1.ibmap
            /\ d3.type[i] = ty /\ d3.nlink[i] = 1 /\ SameNames(d3, d1)
            /\ KeepsDirs(d3, d1)
            /\ Fine(d1, st.ref) /\ Entries(d1, i) = {} => Fine(d3, s)
            /\ Exact(d1, st.ref, {i}) => Exact(d3, s, {i})
        <5>1. /\ DiskOK(d1) /\ st.ref \in [Inums -> Nat] /\ i \in Inums
              /\ d1.type[i] # "dir" /\ i \in d1.ibmap
          BY <4>2, <2>1, <2>3, <1>0, Zenon
        <5> QED
          BY <5>1, FreshFine, ZenonT(90)
      <4>4. /\ d3.type[i] = ty /\ d3.nlink[i] = 1 /\ Dirs(d1) = Dirs(st.disk)
            /\ d1.dent = st.disk.dent
        <5>3. Dirs(d1) = Dirs(st.disk)
          BY <2>3, <1>0, DirsOf, Zenon
        <5> QED
          BY <5>3, <4>3, <2>3, Zenon
      <4>5. new = Writes(got, d3)
        BY <4>1, <2>2, Zenon
      <4> HIDE DEF d3, s
      <4>6. ASSUME ~linkCut PROVE Entries(d1, i) = {} /\ Entries(d3, i) = {}
        <5>1. Entries(st.disk, i) = {}
          BY <4>6, <3>1, <2>1, GoodDisk, Zenon DEF Fine, Named
        <5> QED
          BY <5>1, <4>3, <2>1, <2>3, Zenon DEF SameNames
      <4>7. /\ ~linkCut => Fine(d3, s)
            /\ reboots = 0 => Exact(d3, s, {i})
        BY <4>3, <4>6, <3>1, <2>3, GoodDisk, Zenon
      <4>8. /\ new \in Calls /\ new.ref = s /\ new.ip = i /\ new.disk = d3
            /\ new.past = got.past \cup {d1} /\ ~new.panic
            /\ new.files = got.files /\ new.fds = got.fds /\ new.leaks = got.leaks
        <5>1. d3 \in Disk /\ d1 \in Disk
          BY <4>3, <2>3, Zenon DEF DiskOK
        <5> QED
          BY <5>1, <4>1, <4>5, Zenon DEF Writes, Calls
      <4>9. Same(st, new) /\ Counted(new, Plus(h, i))
        <5>1. Same(st, new)
          BY <4>8, <4>1, <3>1, <2>4, Zenon DEF Same
        <5>2. \A j \in Inums : Openers(new, j) = Openers(got, j)
          BY <4>8, Zenon DEF Openers
        <5>3. Counted(new, Plus(h, i))
          BY <5>2, <4>1, <4>8, Zenon DEF Counted
        <5> QED
          BY <5>1, <5>3, Zenon
      <4>10. \A e \in new.past \cup {new.disk} : DiskOK(e) /\ (~L => Fine(e, Zero))
        <5>1. \A e \in kept.past \cup {d1} : DiskOK(e) /\ (~L => Fine(e, Zero))
          BY <3>1, <2>4, Zenon DEF Good
        <5>2. ~L => ~linkCut
          BY Zenon DEF Good
        <5>3. ~L => Fine(d3, Zero)
          BY <5>2, <4>7, FineZero, Zenon
        <5> QED
          BY <5>1, <5>3, <4>1, <4>3, <4>8, Zenon
      <4>11. Good(new, Plus(h, i), {i}, L)
        <5>1. Plus(h, i) \in [Inums -> Nat]
          BY <1>0, <2>1, PlusLess, Zenon
        <5>2. ~L => ~linkCut
          BY Zenon DEF Good
        <5> QED
          BY <5>1, <5>2, <4>7, <4>8, <4>9, <4>10, Zenon DEF Good
      <4>12. KeepsDirs(new.disk, st.disk)
        BY <4>3, <4>4, <4>8, Zenon DEF KeepsDirs
      <4> QED
        BY <4>4, <4>6, <4>8, <4>9, <4>11, <4>12, <2>1, Zenon DEF new
    <3> QED
      BY <3>2, <3>3, Zenon
  <2> QED
    BY <2>5, <2>6, Zenon
<1> QED
  BY <1>1, <1>2, Zenon

-----------------------------------------------------------------------------
(* inode_put of the inode that the call took last.                          *)
LEMMA PutOne ==
  ASSUME NEW st, NEW h \in [Inums -> Nat], NEW L, NEW i \in Inums,
         Good(st, Plus(h, i), {}, L)
  PROVE  LET new == InodePut(st, i)
         IN  /\ Good(new, h, {}, L) /\ Same(st, new)
             /\ st.disk.nlink[i] > 0 => new.disk = st.disk /\ new.ip = st.ip
<1>1. Plus(h, i)[i] > 0 /\ Less(Plus(h, i), i) = h
  BY PlusLess, Zenon
<1>2. LET new == InodePut(st, i)
      IN  /\ Good(new, Less(Plus(h, i), i), {}, L) /\ Same(st, new)
          /\ st.disk.nlink[i] > 0 => new.disk = st.disk /\ new.ip = st.ip
  BY <1>1, PutGood, Zenon
<1> QED
  BY <1>1, <1>2, Zenon

(* inode_put of the inode that the call took before the last.               *)
LEMMA PutUnder ==
  ASSUME NEW st, NEW h \in [Inums -> Nat], NEW L, NEW i \in Inums, NEW j \in Inums,
         Good(st, Plus(Plus(h, i), j), {}, L)
  PROVE  LET new == InodePut(st, i)
         IN  /\ Good(new, Plus(h, j), {}, L) /\ Same(st, new)
             /\ st.disk.nlink[i] > 0 => new.disk = st.disk /\ new.ip = st.ip
<1> DEFINE g == Plus(Plus(h, i), j)
<1>1. g[i] > 0 /\ Less(g, i) = Plus(h, j)
  BY PlusLess, Zenon
<1> HIDE DEF g
<1>2. LET new == InodePut(st, i)
      IN  /\ Good(new, Less(g, i), {}, L) /\ Same(st, new)
          /\ st.disk.nlink[i] > 0 => new.disk = st.disk /\ new.ip = st.ip
  BY <1>1, PutGood, Zenon DEF g
<1> QED
  BY <1>1, <1>2, Zenon

(* A file loses a reference.                                                *)
Unfiled(st, f) == [st EXCEPT !.files[f].refcnt = @ - 1]

(* What a lost reference of a file changes.                                 *)
LEMMA UnfiledIs ==
  ASSUME NEW st \in Calls, NEW f \in Files, st.files[f].refcnt > 0
  PROVE  LET new == Unfiled(st, f)
         IN  /\ new \in Calls /\ new.disk = st.disk /\ new.past = st.past
             /\ new.ref = st.ref /\ new.fds = st.fds /\ new.leaks = st.leaks
             /\ new.panic = st.panic /\ new.ip = st.ip
             /\ \A g \in Files : g # f => new.files[g] = st.files[g]
             /\ new.files[f].refcnt = st.files[f].refcnt - 1
             /\ new.files[f].inum = st.files[f].inum
             /\ st.files[f].refcnt \in Nat /\ st.files[f].inum \in Inums
<1>1. st.files \in [Files -> FileEntry]
  BY InCall, Zenon
<1>2. /\ st.files[f].refcnt \in Nat /\ st.files[f].inum \in Inums
      /\ st.files[f].refcnt - 1 \in Nat
  BY <1>1 DEF FileEntry
<1> DEFINE e == [st.files[f] EXCEPT !.refcnt = st.files[f].refcnt - 1]
           fs == [st.files EXCEPT ![f] = e]
<1>3. e \in FileEntry /\ e.refcnt = st.files[f].refcnt - 1 /\ e.inum = st.files[f].inum
  BY <1>1, <1>2 DEF FileEntry
<1>4. Unfiled(st, f) = [st EXCEPT !.files = fs]
  BY <1>1 DEF Unfiled, Calls
<1> HIDE DEF e
<1>5. /\ fs \in [Files -> FileEntry] /\ fs[f] = e
      /\ \A g \in Files : g # f => fs[g] = st.files[g]
  BY <1>1, <1>3, Zenon
<1> HIDE DEF fs
<1>6. LET new == [st EXCEPT !.files = fs]
      IN  /\ new \in Calls /\ new.disk = st.disk /\ new.past = st.past
          /\ new.ref = st.ref /\ new.fds = st.fds /\ new.leaks = st.leaks
          /\ new.panic = st.panic /\ new.ip = st.ip /\ new.files = fs
  BY <1>5 DEF Calls
<1> QED
  BY <1>2, <1>3, <1>4, <1>5, <1>6, Zenon

(* A change of the file table that moves references between files, leaks    *)
(* and the call.                                                            *)
LEMMA FiledGood ==
  ASSUME NEW st, NEW h, NEW X, NEW L, Good(st, h, X, L), NEW new \in Calls,
         NEW g \in [Inums -> Nat],
         new.disk = st.disk, new.past = st.past, new.ref = st.ref,
         new.panic = st.panic,
         \A j \in Inums : new.leaks[j] + Cardinality(Openers(new, j)) + g[j]
                          = st.leaks[j] + Cardinality(Openers(st, j)) + h[j]
  PROVE  Good(new, g, X, L)
<1>1. ASSUME Counted(st, h) PROVE Counted(new, g)
  BY <1>1, Zenon DEF Counted
<1> QED
  BY <1>1, Zenon DEF Good

(* file_close: the last close finds the inode again and puts it twice, once *)
(* for itself and once for the file.                                        *)
LEMMA CloseGood ==
  ASSUME NEW st, NEW h, NEW L, Good(st, h, {}, L), ~st.panic,
         NEW f \in Files, st.files[f].refcnt > 0
  PROVE  LET new == FileClose(st, f)
         IN  /\ Good(new, h, {}, L) /\ new.fds = st.fds /\ new.leaks = st.leaks
             /\ \A g \in Files : g # f => new.files[g].refcnt = st.files[g].refcnt
             /\ new.files[f].refcnt = st.files[f].refcnt - 1
<1> DEFINE less == Unfiled(st, f)
           i == st.files[f].inum
           one == InodeGet(less, i)
           two == InodePut(one, i)
           end == InodePut(two, i)
<1>1. st \in Calls /\ h \in [Inums -> Nat]
  BY GoodDisk, Zenon
<1>2. /\ less \in Calls /\ less.disk = st.disk /\ less.past = st.past
      /\ less.ref = st.ref /\ less.fds = st.fds /\ less.leaks = st.leaks
      /\ less.panic = st.panic
      /\ \A g \in Files : g # f => less.files[g] = st.files[g]
      /\ less.files[f].refcnt = st.files[f].refcnt - 1
      /\ less.files[f].inum = i
      /\ st.files[f].refcnt \in Nat /\ i \in Inums
  BY <1>1, UnfiledIs, Zenon
<1>3. FileClose(st, f) = IF less.files[f].refcnt > 0 THEN less ELSE end
  BY Zenon DEF FileClose, Unfiled
<1> HIDE DEF less, i
<1>4. \A j \in Inums : j # i => Openers(less, j) = Openers(st, j)
  BY <1>2, Zenon DEF Openers, i
<1>5. f \in Openers(st, i)
  BY Zenon DEF Openers, i
<1>6. CASE less.files[f].refcnt > 0
  <2>1. \A j \in Inums : Openers(less, j) = Openers(st, j)
    BY <1>2, <1>6, Zenon DEF Openers, i
  <2>2. \A j \in Inums : less.leaks[j] + Cardinality(Openers(less, j)) + h[j]
                         = st.leaks[j] + Cardinality(Openers(st, j)) + h[j]
    BY <2>1, <1>2, Zenon
  <2>3. Good(less, h, {}, L)
    BY <2>2, <1>1, <1>2, FiledGood, Zenon
  <2> QED
    BY <2>3, <1>2, <1>3, <1>6, Zenon
<1>7. CASE ~(less.files[f].refcnt > 0)
  <2>1. Openers(less, i) = Openers(st, i) \ {f}
    BY <1>2, <1>7, Zenon DEF Openers
  <2>2. Cardinality(Openers(less, i)) = Cardinality(Openers(st, i)) - 1
    BY <2>1, <1>5, OpenersFinite, FS_RemoveElement, Zenon
  <2>3. less.leaks[i] + Cardinality(Openers(less, i)) + Plus(h, i)[i]
          = st.leaks[i] + Cardinality(Openers(st, i)) + h[i]
    <3>1. /\ Cardinality(Openers(st, i)) \in Nat /\ st.leaks[i] \in Nat
          /\ h[i] \in Nat /\ Plus(h, i)[i] = h[i] + 1
      BY <1>1, <1>2, OpenersFinite, InCall, SMTT(30) DEF Plus
    <3> QED
      BY <3>1, <2>2, <1>2
  <2>4. \A j \in Inums : j # i => Plus(h, i)[j] = h[j]
    BY <1>1, <1>2 DEF Plus
  <2>5. \A j \in Inums : less.leaks[j] + Cardinality(Openers(less, j)) + Plus(h, i)[j]
                         = st.leaks[j] + Cardinality(Openers(st, j)) + h[j]
    BY <2>3, <2>4, <1>2, <1>4, Zenon
  <2>6. /\ Plus(h, i) \in [Inums -> Nat] /\ Plus(h, i)[i] > 0
        /\ Plus(Plus(h, i), i) \in [Inums -> Nat]
    BY <1>1, <1>2, PlusLess, Zenon
  <2>7. Good(less, Plus(h, i), {}, L)
    <3> DEFINE g == Plus(h, i)
    <3>1. /\ g \in [Inums -> Nat]
          /\ \A j \in Inums : less.leaks[j] + Cardinality(Openers(less, j)) + g[j]
                             = st.leaks[j] + Cardinality(Openers(st, j)) + h[j]
      BY <2>5, <2>6, Zenon
    <3> HIDE DEF g
    <3>2. Good(less, g, {}, L)
      BY <3>1, <1>2, FiledGood
    <3> QED
      BY <3>2, Zenon DEF g
  <2>8. linkCut \/ less.panic \/
          (i \in less.disk.ibmap
           /\ (Kept(less.disk, less.ref, i) \/ less.disk.type[i] = "dir"))
    <3>1. less.ref[i] > 0 /\ (~linkCut => Fine(less.disk, less.ref))
      BY <2>6, <2>7, <1>2, GoodDisk, Zenon
    <3> QED
      BY <3>1, <1>2, Zenon DEF Fine, Held, Kept
  <2>9. Good(one, Plus(Plus(h, i), i), {}, L) /\ Same(less, one)
    BY <2>7, <2>8, <1>2, GetGood, Zenon
  <2> HIDE DEF one
  <2>10. Good(two, Plus(h, i), {}, L) /\ Same(one, two)
    BY <2>6, <2>9, <1>2, PutOne, Zenon
  <2> HIDE DEF two
  <2>11. Good(end, h, {}, L) /\ Same(two, end)
    BY <2>10, <1>1, <1>2, PutOne, Zenon
  <2> HIDE DEF end
  <2>12. end.files = less.files /\ end.fds = less.fds /\ end.leaks = less.leaks
    BY <2>9, <2>10, <2>11, Zenon DEF Same
  <2> QED
    BY <2>11, <2>12, <1>2, <1>3, <1>7, Zenon
<1> QED
  BY <1>6, <1>7, Zenon

-----------------------------------------------------------------------------
(* The descriptors that refer to file f in the tables t.                    *)
Users(t, f) == {e \in Procs \X FDs : t[e[1]][e[2]] = f}

(* A descriptor set to f.                                                   *)
Stored(t, p, d, f) == [t EXCEPT ![p][d] = f]

(* The descriptors of a file are finitely many.                             *)
LEMMA UsersFinite ==
  ASSUME NEW t, NEW f
  PROVE  IsFiniteSet(Users(t, f)) /\ Cardinality(Users(t, f)) \in Nat
<1>1. IsFiniteSet(Procs \X FDs)
  BY Sizes, SizeAssumption, FS_Product, Zenon
<1>2. Users(t, f) \in SUBSET (Procs \X FDs)
  BY Zenon DEF Users
<1> QED
  BY <1>1, <1>2, FS_Subset, FS_CardinalityType, Zenon

(* Setting a descriptor moves it from one file to another.                  *)
LEMMA StoredUsers ==
  ASSUME NEW t \in [Procs -> FdTable], NEW p \in Procs, NEW d \in FDs,
         NEW v \in Files \cup {NoFile}
  PROVE  LET u == Stored(t, p, d, v)
         IN  /\ u \in [Procs -> FdTable]
             /\ Users(u, v) = Users(t, v) \cup {<<p, d>>}
             /\ \A f : f # v => Users(u, f) = Users(t, f) \ {<<p, d>>}
             /\ \A q \in Procs : q # p => u[q] = t[q]
<1> DEFINE u == Stored(t, p, d, v)
<1>1. t[p] \in FdTable
  OBVIOUS
<1>2. /\ u \in [Procs -> FdTable] /\ u[p][d] = v
      /\ \A q \in Procs : q # p => u[q] = t[q]
      /\ \A c \in FDs : c # d => u[p][c] = t[p][c]
  BY <1>1 DEF FdTable, Stored
<1> HIDE DEF u
<1>3. ASSUME NEW e \in Procs \X FDs
      PROVE  u[e[1]][e[2]] = IF e = <<p, d>> THEN v ELSE t[e[1]][e[2]]
  <2>1. e = <<e[1], e[2]>> /\ e[1] \in Procs /\ e[2] \in FDs
    BY <1>3
  <2>2. e = <<p, d>> <=> e[1] = p /\ e[2] = d
    BY <2>1
  <2> QED
    BY <2>1, <2>2, <1>2, Zenon
<1>4. <<p, d>> \in Procs \X FDs
  BY Zenon
<1>5. Users(u, v) = Users(t, v) \cup {<<p, d>>}
  <2>1. \A e : e \in Users(u, v) <=> e \in Users(t, v) \cup {<<p, d>>}
    BY <1>3, <1>4, Zenon DEF Users
  <2> QED
    BY <2>1, Zenon
<1>6. ASSUME NEW f, f # v PROVE Users(u, f) = Users(t, f) \ {<<p, d>>}
  <2>1. \A e : e \in Users(u, f) <=> e \in Users(t, f) \ {<<p, d>>}
    BY <1>3, <1>4, <1>6, Zenon DEF Users
  <2> QED
    BY <2>1, Zenon
<1> QED
  BY <1>2, <1>5, <1>6, Zenon DEF u

(* The descriptors and the file table agree; who has no table has no entry. *)
Tabled(st) ==
  /\ \A f \in Files : st.files[f].refcnt = Cardinality(Users(st.fds, f))
  /\ \A q \in Procs \ live : \A d \in FDs : st.fds[q][d] = NoFile

(* Calls that leave files and descriptors alone keep them in agreement.     *)
LEMMA SameTabled ==
  ASSUME NEW st, NEW new, Same(st, new), Tabled(st)
  PROVE  Tabled(new)
  BY Zenon DEF Same, Tabled

(* A system call of p has come to its end.                                  *)
Finished(st, L) == Good(st, Zero, {}, L) /\ (~st.panic => Tabled(st))

-----------------------------------------------------------------------------
(* One more file in the table.                                              *)
Filed(st, f) == [st EXCEPT !.files[f] = [refcnt |-> 1, inum |-> st.ip]]

(* What a new file table entry changes.                                     *)
LEMMA FiledIs ==
  ASSUME NEW st \in Calls, NEW f \in Files, st.ip \in Inums
  PROVE  LET new == Filed(st, f)
         IN  /\ new \in Calls /\ new.disk = st.disk /\ new.past = st.past
             /\ new.ref = st.ref /\ new.fds = st.fds /\ new.leaks = st.leaks
             /\ new.panic = st.panic /\ new.ip = st.ip
             /\ \A g \in Files : g # f => new.files[g] = st.files[g]
             /\ new.files[f].refcnt = 1 /\ new.files[f].inum = st.ip
<1> DEFINE e == [refcnt |-> 1, inum |-> st.ip]
           fs == [st.files EXCEPT ![f] = e]
<1>1. st.files \in [Files -> FileEntry]
  BY InCall, Zenon
<1>2. e \in FileEntry /\ e.refcnt = 1 /\ e.inum = st.ip
  BY DEF FileEntry
<1>3. Filed(st, f) = [st EXCEPT !.files = fs]
  BY DEF Filed, Calls
<1> HIDE DEF e
<1>4. /\ fs \in [Files -> FileEntry] /\ fs[f] = e
      /\ \A g \in Files : g # f => fs[g] = st.files[g]
  BY <1>1, <1>2, Zenon
<1> HIDE DEF fs
<1>5. LET new == [st EXCEPT !.files = fs]
      IN  /\ new \in Calls /\ new.disk = st.disk /\ new.past = st.past
          /\ new.ref = st.ref /\ new.fds = st.fds /\ new.leaks = st.leaks
          /\ new.panic = st.panic /\ new.ip = st.ip /\ new.files = fs
  BY <1>4 DEF Calls
<1> QED
  BY <1>2, <1>3, <1>4, <1>5, Zenon

(* The end of fs_open in its three outcomes: the reference goes to a file,  *)
(* or is forgotten, or is put again by file_close.                          *)
LEMMA OpenGood ==
  ASSUME NEW st, NEW L, NEW i \in Inums, Good(st, Plus(Zero, i), {}, L),
         ~st.panic => st.ip = i /\ Tabled(st), NEW p \in live, live \in SUBSET Procs
  PROVE  Finished(OpenFile(st, p), L)
<1> DEFINE new == OpenFile(st, p)
           f == Min(FreeFiles(st))
           open == Filed(st, f)
           d == Min(FreeFds(st, p))
<1>0. Zero \in [Inums -> Nat] /\ \A j \in Inums : Zero[j] = 0
  BY DEF Zero
<1>1. CASE st.panic
  <2>1. new = st
    BY <1>1, Zenon DEF OpenFile
  <2> QED
    BY <2>1, <1>0, <1>1, AnyPanic, Zenon DEF Finished
<1>2. CASE ~st.panic
  <2>1. st.ip = i /\ Tabled(st) /\ st \in Calls
    BY <1>2, GoodDisk, Zenon
  <2>2. CASE FreeFiles(st) = {}
    <3> DEFINE ls == [st.leaks EXCEPT ![i] = st.leaks[i] + 1]
    <3>1. st.leaks \in [Inums -> Nat] /\ ls \in [Inums -> Nat]
      BY <2>1, InCall
    <3>2. new = [st EXCEPT !.leaks = ls]
      BY <1>2, <2>1, <2>2 DEF OpenFile, Calls
    <3>3. /\ \A j \in Inums : ls[j] + Zero[j] = st.leaks[j] + Plus(Zero, i)[j]
      BY <3>1, <1>0 DEF Plus
    <3> HIDE DEF ls, new
    <3>4. /\ new \in Calls /\ new.disk = st.disk /\ new.past = st.past
          /\ new.ref = st.ref /\ new.fds = st.fds /\ new.leaks = ls
          /\ new.panic = st.panic /\ new.files = st.files
      BY <3>1, <3>2, <2>1 DEF Calls
    <3>5. \A j \in Inums : Openers(new, j) = Openers(st, j)
      BY <3>4, Zenon DEF Openers
    <3>6. \A j \in Inums : new.leaks[j] + Cardinality(Openers(new, j)) + Zero[j]
                           = st.leaks[j] + Cardinality(Openers(st, j)) + Plus(Zero, i)[j]
      <4>1. ASSUME NEW j \in Inums
            PROVE  new.leaks[j] + Cardinality(Openers(new, j)) + Zero[j]
                   = st.leaks[j] + Cardinality(Openers(st, j)) + Plus(Zero, i)[j]
        <5>1. /\ st.leaks[j] \in Nat /\ ls[j] \in Nat /\ Plus(Zero, i)[j] \in Nat
              /\ Zero[j] \in Nat /\ Cardinality(Openers(st, j)) \in Nat
          BY <3>1, <1>0, OpenersFinite, PlusLess
        <5>2. /\ new.leaks[j] = ls[j]
              /\ Cardinality(Openers(new, j)) = Cardinality(Openers(st, j))
              /\ ls[j] + Zero[j] = st.leaks[j] + Plus(Zero, i)[j]
          BY <3>3, <3>4, <3>5, Zenon
        <5> QED
          BY <5>1, <5>2
      <4> QED
        BY <4>1, Zenon
    <3>7. Good(new, Zero, {}, L)
      BY <3>4, <3>6, <1>0, FiledGood
    <3> QED
      BY <3>4, <3>7, <2>1, Zenon DEF Finished, Tabled, new
  <2>3. CASE FreeFiles(st) # {}
    <3>1. f \in Files /\ st.files[f].refcnt = 0
      <4>1. FreeFiles(st) \subseteq Nat
        BY Sizes DEF FreeFiles, Files
      <4>2. f \in FreeFiles(st)
        BY <4>1, <2>3, LowestFree, Zenon
      <4> QED
        BY <4>2, Zenon DEF FreeFiles
    <3>2. new = IF FreeFds(st, p) = {} THEN FileClose(open, f)
                ELSE [open EXCEPT !.fds[p][d] = f]
      BY <1>2, <2>3, Zenon DEF OpenFile, Filed
    <3> HIDE DEF f, new
    <3>3. /\ open \in Calls /\ open.disk = st.disk /\ open.past = st.past
          /\ open.ref = st.ref /\ open.fds = st.fds /\ open.leaks = st.leaks
          /\ open.panic = st.panic
          /\ \A g \in Files : g # f => open.files[g] = st.files[g]
          /\ open.files[f].refcnt = 1 /\ open.files[f].inum = i
      BY <2>1, <3>1, FiledIs, Zenon
    <3> HIDE DEF open
    <3>4. Good(open, Zero, {}, L)
      <4>1. \A j \in Inums : j # i => Openers(open, j) = Openers(st, j)
        <5>1. ASSUME NEW j \in Inums, j # i PROVE Openers(open, j) = Openers(st, j)
          <6>1. f \notin Openers(st, j) /\ f \notin Openers(open, j)
            BY <5>1, <3>1, <3>3 DEF Openers
          <6> QED
            BY <6>1, <3>3, Zenon DEF Openers
        <5> QED
          BY <5>1, Zenon
      <4>2. f \notin Openers(st, i) /\ f \in Openers(open, i)
        BY <3>1, <3>3 DEF Openers
      <4>3. Openers(open, i) = Openers(st, i) \cup {f}
        BY <4>2, <3>1, <3>3, Zenon DEF Openers
      <4>4. Cardinality(Openers(open, i)) = Cardinality(Openers(st, i)) + 1
        BY <4>2, <4>3, OpenersFinite, FS_AddElement, Zenon
      <4>5. /\ \A j \in Inums : j # i => Plus(Zero, i)[j] = Zero[j]
            /\ Plus(Zero, i)[i] = 1 /\ Zero[i] = 0
        BY <1>0 DEF Plus
      <4>6. open.leaks[i] + Cardinality(Openers(open, i)) + Zero[i]
              = st.leaks[i] + Cardinality(Openers(st, i)) + Plus(Zero, i)[i]
        <5>1. st.leaks[i] \in Nat /\ Cardinality(Openers(st, i)) \in Nat
          BY <2>1, InCall, OpenersFinite
        <5> QED
          BY <5>1, <4>4, <4>5, <3>3, SMTT(30)
      <4>7. \A j \in Inums : open.leaks[j] + Cardinality(Openers(open, j)) + Zero[j]
                             = st.leaks[j] + Cardinality(Openers(st, j)) + Plus(Zero, i)[j]
        BY <4>1, <4>5, <4>6, <3>3, Zenon
      <4> QED
        BY <4>7, <3>3, <1>0, FiledGood
    <3>5. CASE FreeFds(st, p) = {}
      <4>1. /\ Good(new, Zero, {}, L) /\ new.fds = open.fds
            /\ \A g \in Files : g # f => new.files[g].refcnt = open.files[g].refcnt
            /\ new.files[f].refcnt = open.files[f].refcnt - 1
        <5>1. ~open.panic /\ open.files[f].refcnt > 0
          BY <3>3, <1>2
        <5>2. new = FileClose(open, f)
          BY <3>2, <3>5, Zenon
        <5> QED
          BY <5>1, <5>2, <3>1, <3>4, CloseGood, Zenon
      <4>2. \A g \in Files : new.files[g].refcnt = st.files[g].refcnt
        BY <4>1, <3>1, <3>3
      <4> QED
        BY <4>1, <4>2, <3>3, <2>1, SMTT(30) DEF Finished, Tabled, new
    <3>6. CASE FreeFds(st, p) # {}
      <4>1. d \in FDs /\ st.fds[p][d] = NoFile /\ p \in Procs
        <5>1. FreeFds(st, p) \subseteq Nat
          BY Sizes DEF FreeFds, FDs
        <5>2. d \in FreeFds(st, p)
          BY <5>1, <3>6, LowestFree, Zenon
        <5> QED
          BY <5>2, Zenon DEF FreeFds
      <4> HIDE DEF d
      <4> DEFINE u == Stored(st.fds, p, d, f)
      <4>2. st.fds \in [Procs -> FdTable] /\ f \in Files \cup {NoFile}
        BY <2>1, <3>1, InCall, Zenon
      <4>3. /\ u \in [Procs -> FdTable]
            /\ Users(u, f) = Users(st.fds, f) \cup {<<p, d>>}
            /\ \A g : g # f => Users(u, g) = Users(st.fds, g) \ {<<p, d>>}
            /\ \A q \in Procs : q # p => u[q] = st.fds[q]
        BY <4>1, <4>2, StoredUsers
      <4>4. new = [open EXCEPT !.fds = u]
        BY <3>2, <3>3, <3>6 DEF Stored, Calls
      <4> HIDE DEF u
      <4>5. /\ new \in Calls /\ new.disk = open.disk /\ new.past = open.past
            /\ new.ref = open.ref /\ new.fds = u /\ new.leaks = open.leaks
            /\ new.panic = open.panic /\ new.files = open.files
        BY <4>3, <4>4, <3>3 DEF Calls
      <4>6. \A j \in Inums : Openers(new, j) = Openers(open, j)
        BY <4>5, Zenon DEF Openers
      <4>7. Good(new, Zero, {}, L)
        <5>1. \A j \in Inums : new.leaks[j] + Cardinality(Openers(new, j)) + Zero[j]
                             = open.leaks[j] + Cardinality(Openers(open, j)) + Zero[j]
          BY <4>5, <4>6, Zenon
        <5> QED
          BY <5>1, <4>5, <3>4, <1>0, FiledGood, Zenon
      <4>8. ASSUME NEW g \in Files
            PROVE  new.files[g].refcnt = Cardinality(Users(new.fds, g))
        <5>1. <<p, d>> \notin Users(st.fds, g)
          <6>1. NoFile # g
            BY Sizes, Zenon
          <6> QED
            BY <6>1, <4>1 DEF Users
        <5>2. CASE g = f
          <6>1. Cardinality(Users(st.fds, f)) = 0
            BY <3>1, <2>1, Zenon DEF Tabled
          <6>2. Cardinality(Users(u, f)) = Cardinality(Users(st.fds, f)) + 1
            BY <5>1, <5>2, <4>3, UsersFinite, FS_AddElement, Zenon
          <6> QED
            BY <6>1, <6>2, <5>2, <4>5, <3>3, SMTT(30)
        <5>3. CASE g # f
          <6>1. Users(u, g) = Users(st.fds, g)
            BY <5>1, <5>3, <4>3, Zenon
          <6> QED
            BY <6>1, <5>3, <4>5, <3>3, <2>1, Zenon DEF Tabled
        <5> QED
          BY <5>2, <5>3, Zenon
      <4>9. \A q \in Procs \ live : \A c \in FDs : new.fds[q][c] = NoFile
        BY <4>3, <4>5, <2>1, Zenon DEF Tabled
      <4> QED
        BY <4>7, <4>8, <4>9, Zenon DEF Finished, Tabled, new
    <3> QED
      BY <3>5, <3>6, Zenon
  <2> QED
    BY <2>2, <2>3, Zenon
<1> QED
  BY <1>1, <1>2, Zenon

-----------------------------------------------------------------------------
(* The inductive invariant. The disk is in order in every state, not only   *)
(* what the properties say of it: after a crash only what was written       *)
(* counts, so names, counts, blocks and bitmaps have to agree between any   *)
(* two writes.                                                              *)
IInv ==
  /\ TypeOK /\ DiskOK(disk)
  /\ linkCut => reboots > 0
  /\ ~linkCut => Fine(disk, ref)
  /\ reboots = 0 => Exact(disk, ref, {})
  /\ RefCounts
  /\ \A q \in Procs \ live : \A d \in FDs : fds[q][d] = NoFile
  /\ closing \subseteq live

(* A call starts in order and holds nothing.                                *)
LEMMA BeginGood ==
  ASSUME IInv, NEW L, ~L => ~linkCut
  PROVE  /\ Good(Begin, Zero, {}, L) /\ Tabled(Begin) /\ Zero \in [Inums -> Nat]
         /\ Begin.disk = disk /\ Begin.ref = ref /\ Begin.files = files
         /\ Begin.fds = fds /\ Begin.leaks = leaks /\ Begin.panic = FALSE
         /\ Begin \in Calls /\ DiskOK(disk) /\ live \in SUBSET Procs
<1>1. /\ Begin.disk = disk /\ Begin.ref = ref /\ Begin.files = files
      /\ Begin.fds = fds /\ Begin.leaks = leaks /\ Begin.panic = FALSE
      /\ Begin.past = {}
  BY DEF Begin
<1>2. Begin \in Calls
  BY Sizes DEF Begin, Calls, IInv, TypeOK
<1> HIDE DEF Begin
<1>3. Zero \in [Inums -> Nat]
  BY DEF Zero
<1>4. Tabled(Begin)
  BY <1>1, Zenon DEF IInv, RefCounts, Tabled, Users
<1>5. Counted(Begin, Zero)
  <2>1. ASSUME NEW i \in Inums
        PROVE  Begin.ref[i] = Begin.leaks[i] + Cardinality(Openers(Begin, i)) + Zero[i]
    <3>1. Openers(Begin, i) = {f \in Files : files[f].refcnt > 0 /\ files[f].inum = i}
      BY <1>1, Zenon DEF Openers
    <3>2. Begin.ref[i] = Begin.leaks[i] + Cardinality(Openers(Begin, i))
      BY <3>1, <1>1, Zenon DEF IInv, RefCounts
    <3>3. Zero[i] = 0 /\ Begin.leaks[i] \in Nat /\ Cardinality(Openers(Begin, i)) \in Nat
      BY <1>2, InCall, OpenersFinite DEF Zero
    <3> QED
      BY <3>2, <3>3
  <2>2. Cardinality(Cached(Begin.ref)) <= N_INODE
    BY <1>1, Zenon DEF IInv, RefCounts, Cached
  <2> QED
    BY <2>1, <2>2, Zenon DEF Counted
<1>6. ~L => Fine(disk, Zero)
  BY FineZero, Zenon DEF IInv
<1>7. Good(Begin, Zero, {}, L)
  BY <1>1, <1>2, <1>3, <1>5, <1>6, Zenon DEF Good, IInv
<1> QED
  BY <1>1, <1>2, <1>3, <1>4, <1>7, Zenon DEF IInv, TypeOK

(* A path walk starts and ends in directories.                              *)
LEMMA WhereDirs ==
  ASSUME IInv, NEW dir \in Parents, NEW start \in Starts(dir)
  PROVE  dir \in Dirs(disk) /\ start \in Dirs(disk)
<1>1. DiskOK(disk)
  BY Zenon DEF IInv
<1>2. ROOT_INODE \in Dirs(disk)
  BY <1>1, Sizes, DirsOf, Zenon DEF DiskOK
<1>3. dir \in Dirs(disk)
  BY <1>2, Zenon DEF Parents
<1>4. \A e \in Entries(disk, dir) : e[1] \in Dirs(disk)
  BY DEF Entries
<1> QED
  BY <1>3, <1>4, Zenon DEF Starts

(* The inode a name leads to can be taken.                                  *)
LEMMA NameGet ==
  ASSUME NEW st, NEW h, NEW X, NEW L, Good(st, h, X, L), NEW dir \in Dirs(st.disk),
         NEW n \in Names, NEW i \in Inums, st.disk.dent[dir][n] = i
  PROVE  LET new == InodeGet(st, i)
         IN  /\ Good(new, Plus(h, i), X, L) /\ Same(st, new)
             /\ new.disk = st.disk /\ (~new.panic => new.ip = i)
<1>1. <<dir, n>> \in Entries(st.disk, i)
  BY DEF Entries
<1>2. linkCut \/ st.panic \/ Fine(st.disk, st.ref)
  BY GoodDisk, Zenon
<1>3. linkCut \/ st.panic \/
        (i \in st.disk.ibmap
         /\ (Kept(st.disk, st.ref, i) \/ st.disk.type[i] = "dir"))
  BY <1>1, <1>2, Zenon DEF Fine, Named, Kept
<1> QED
  BY <1>3, GetGood, Zenon

(* fs_open of a name that exists comes to a good end.                       *)
LEMMA OpenExistingGood ==
  ASSUME IInv, NEW p \in live, NEW dir \in Dirs(disk), NEW start \in Dirs(disk),
         NEW n \in Names, disk.dent[dir][n] # None, NEW creat, NEW write
  PROVE  Finished(OpenExisting(p, start, dir, n, creat, write), linkCut)
<1> DEFINE L == linkCut
           i == disk.dent[dir][n]
           at == Walk(Begin, start, dir)
           left == InodePut(at, dir)
           both == InodeGet(at, i)
           found == IF creat THEN InodeGet(left, i) ELSE InodePut(both, dir)
           new == OpenExisting(p, start, dir, n, creat, write)
<1>1. /\ Good(Begin, Zero, {}, L) /\ Tabled(Begin) /\ Zero \in [Inums -> Nat]
      /\ Begin.disk = disk /\ DiskOK(disk) /\ live \in SUBSET Procs
  BY BeginGood, Zenon
<1>2. i \in Inums
  <2>1. dir \in Inums /\ disk \in Disk
    BY <1>1, DirsOf, Zenon DEF DiskOK
  <2>2. disk.dent[dir][n] \in Inums \cup {None}
    BY <2>1, OnDisk
  <2> QED
    BY <2>2, Zenon
<1> HIDE DEF L
<1>3. /\ Good(at, Plus(Zero, dir), {}, L) /\ Same(Begin, at)
      /\ at.disk = disk /\ dir \in Inums /\ disk.nlink[dir] > 0
  BY <1>1, WalkGood, Zenon
<1> HIDE DEF at
<1>4. /\ Good(found, Plus(Zero, i), {}, L) /\ Same(Begin, found)
      /\ ~found.panic => found.ip = i
  <2>1. CASE creat
    <3>1. /\ Good(left, Zero, {}, L) /\ Same(at, left)
          /\ at.disk.nlink[dir] > 0 => left.disk = at.disk /\ left.ip = at.ip
      BY <1>1, <1>3, PutOne, Zenon
    <3>2. left.disk = disk
      BY <3>1, <1>3, Zenon
    <3> HIDE DEF left
    <3>3. /\ Good(InodeGet(left, i), Plus(Zero, i), {}, L)
          /\ Same(left, InodeGet(left, i))
          /\ ~InodeGet(left, i).panic => InodeGet(left, i).ip = i
      <4>1. dir \in Dirs(left.disk) /\ left.disk.dent[dir][n] = i
        BY <3>2, Zenon
      <4> HIDE DEF i
      <4> QED
        BY <4>1, <3>1, <1>2, NameGet
    <3> QED
      BY <3>1, <3>3, <2>1, <1>3, Zenon DEF Same
  <2>2. CASE ~creat
    <3>1. /\ Good(both, Plus(Plus(Zero, dir), i), {}, L) /\ Same(at, both)
          /\ both.disk = at.disk /\ (~both.panic => both.ip = i)
      <4>1. dir \in Dirs(at.disk) /\ at.disk.dent[dir][n] = i
        BY <1>3, Zenon
      <4> HIDE DEF i
      <4> QED
        BY <4>1, <1>2, <1>3, NameGet
    <3> HIDE DEF both
    <3>2. /\ Good(InodePut(both, dir), Plus(Zero, i), {}, L)
          /\ Same(both, InodePut(both, dir))
          /\ both.disk.nlink[dir] > 0 => InodePut(both, dir).ip = both.ip
      BY <3>1, <1>1, <1>2, <1>3, PutUnder, Zenon
    <3> QED
      BY <3>1, <3>2, <2>2, <1>3, Zenon DEF Same
  <2> QED
    BY <2>1, <2>2, Zenon
<1>5. new = IF write /\ disk.type[i] = "dir" THEN InodePut(found, i)
            ELSE OpenFile(found, p)
  BY Zenon DEF OpenExisting, at, found, left, both
<1> HIDE DEF found, new, i
<1>6. Tabled(found)
  BY <1>1, <1>4, SameTabled, Zenon
<1>7. Finished(OpenFile(found, p), L)
  BY <1>1, <1>2, <1>4, <1>6, OpenGood, Zenon
<1>8. Finished(InodePut(found, i), L)
  <2>1. Good(InodePut(found, i), Zero, {}, L) /\ Same(found, InodePut(found, i))
    BY <1>1, <1>2, <1>4, PutOne, Zenon
  <2> QED
    BY <2>1, <1>6, SameTabled, Zenon DEF Finished
<1> QED
  BY <1>5, <1>7, <1>8, Zenon DEF L, new

-----------------------------------------------------------------------------
(* The two writes in terms of the disks they leave.                         *)
LEMMA SetDentryIs ==
  ASSUME NEW st, NEW dir, NEW n, NEW i, NEW k
  PROVE  /\ SetDentry(st, dir, n, i) = Writes(st, Entered(st.disk, dir, n, i))
         /\ SetNlink(st, i, k) = Writes(st, Linked(st.disk, i, k))
  BY Zenon DEF SetDentry, SetNlink, Entered, Linked

(* Nothing happens after a panic.                                           *)
LEMMA Stuck ==
  ASSUME NEW st, st.panic, NEW d, NEW i, NEW p
  PROVE  Writes(st, d) = st /\ InodePut(st, i) = st /\ OpenFile(st, p) = st
  BY Zenon DEF Writes, InodePut, OpenFile

(* A panic is an end, too.                                                  *)
LEMMA PanicFinished ==
  ASSUME NEW st, NEW h, NEW X, NEW L, Good(st, h, X, L), st.panic
  PROVE  Finished(st, L)
<1>1. Zero \in [Inums -> Nat]
  BY DEF Zero
<1> QED
  BY <1>1, AnyPanic, Zenon DEF Finished

(* fs_open with O_CREAT: the inode is written before its name, so the disk  *)
(* is in order at each of the writes.                                       *)
LEMMA OpenNewGood ==
  ASSUME IInv, NEW p \in live, NEW dir \in Dirs(disk), NEW start \in Dirs(disk),
         NEW n \in Names, disk.dent[dir][n] = None
  PROVE  Finished(OpenNew(p, start, dir, n), linkCut)
<1> DEFINE L == linkCut
           at == Walk(Begin, start, dir)
           made == InodeCreate(at, "data")
           i == made.ip
           e == Entered(made.disk, dir, n, i)
           named == Writes(made, e)
           left == InodePut(named, dir)
           new == OpenNew(p, start, dir, n)
           h == Plus(Plus(Zero, dir), i)
<1>1. /\ Good(Begin, Zero, {}, L) /\ Tabled(Begin) /\ Zero \in [Inums -> Nat]
      /\ Begin.disk = disk /\ DiskOK(disk) /\ live \in SUBSET Procs
  BY BeginGood, Zenon
<1> HIDE DEF L
<1>2. /\ Good(at, Plus(Zero, dir), {}, L) /\ Same(Begin, at)
      /\ at.disk = disk /\ dir \in Inums /\ disk.nlink[dir] > 0
      /\ disk.type[dir] = "dir"
  BY <1>1, WalkGood, Zenon
<1> HIDE DEF at
<1>3. /\ Same(at, made)
      /\ made.panic => \A Y : Good(made, Plus(Zero, dir), Y, L)
      /\ ~made.panic =>
           /\ i \in Inums /\ Good(made, h, {i}, L)
           /\ made.disk.type[i] = "data" /\ made.disk.nlink[i] = 1
           /\ ~linkCut => Entries(made.disk, i) = {}
           /\ KeepsDirs(made.disk, at.disk)
  BY <1>2, CreateGood, Zenon
<1>4. new = OpenFile(left, p)
  BY SetDentryIs, Zenon DEF OpenNew, at
<1> HIDE DEF made, new
<1>5. CASE made.panic
  <2>1. named = made /\ left = made /\ new = made
    BY <1>4, <1>5, Stuck, Zenon
  <2> QED
    BY <2>1, <1>3, <1>5, PanicFinished, Zenon DEF L, new
<1>6. CASE ~made.panic
  <2>1. /\ i \in Inums /\ Good(made, h, {i}, L)
        /\ made.disk.type[i] = "data" /\ made.disk.nlink[i] = 1
        /\ ~linkCut => Entries(made.disk, i) = {}
        /\ dir \in Dirs(made.disk) /\ made.disk.dent[dir][n] = None
    BY <1>2, <1>3, <1>6, Zenon DEF KeepsDirs
  <2> HIDE DEF i
  <2>2. h[i] > 0 /\ h \in [Inums -> Nat] /\ Plus(Zero, dir) \in [Inums -> Nat]
    BY <2>1, <1>1, <1>2, PlusLess, Zenon
  <2> HIDE DEF h
  <2>3. /\ DiskOK(made.disk) /\ made.ref[i] > 0
        /\ ~linkCut => Fine(made.disk, made.ref)
        /\ reboots = 0 => Exact(made.disk, made.ref, {i})
    BY <2>1, <2>2, <1>6, GoodDisk, SMTT(30)
  <2>4. /\ DiskOK(e) /\ e.nlink = made.disk.nlink /\ e.type = made.disk.type
        /\ \/ ~Fine(made.disk, made.ref) \/ made.disk.type[i] = "free"
           \/ /\ made.disk.type[i] # "dir"
              /\ Cardinality(Entries(made.disk, i)) >= made.disk.nlink[i]
           \/ Fine(e, made.ref)
        /\ \/ ~Exact(made.disk, made.ref, {i})
           \/ made.disk.nlink[i] # IF made.disk.type[i] = "dir" THEN 2
                                   ELSE Cardinality(Entries(made.disk, i)) + 1
           \/ Exact(e, made.ref, {})
    BY <2>1, <2>3, NameFine, SMTT(30)
  <2> HIDE DEF e
  <2>5. ~linkCut => Cardinality(Entries(made.disk, i)) = 0
    BY <2>1, FS_EmptySet, ZenonT(40)
  <2>6. (~linkCut => Fine(e, made.ref)) /\ (reboots = 0 => Exact(e, made.ref, {}))
    <3>1. reboots = 0 => ~linkCut
      BY DEF IInv
    <3> QED
      BY <3>1, <2>1, <2>3, <2>4, <2>5, SMTT(30)
  <2>7. /\ Good(named, h, {}, L) /\ Same(made, named) /\ named.ip = made.ip
        /\ named.disk = e
    BY <2>1, <2>4, <2>6, <1>6, WriteGood, Zenon
  <2> HIDE DEF named
  <2>8. named.disk.nlink[dir] > 0
    <3>1. made.disk.nlink[dir] > 0
      BY <2>1, <2>3, <1>2, DirsOf, ZenonT(40) DEF DiskOK
    <3> QED
      BY <3>1, <2>4, <2>7, Zenon
  <2>9. /\ Good(left, Plus(Zero, i), {}, L) /\ Same(named, left)
        /\ left.ip = i
    BY <2>1, <2>7, <2>8, <1>1, <1>2, PutUnder, SMTT(30) DEF h, i
  <2> HIDE DEF left
  <2>10. Tabled(left)
    BY <2>7, <2>9, <1>1, <1>2, <1>3, SameTabled, Zenon
  <2>11. Finished(OpenFile(left, p), L)
    BY <2>1, <2>9, <2>10, <1>1, OpenGood, Zenon
  <2> QED
    BY <2>11, <1>4, Zenon DEF L, new
<1> QED
  BY <1>5, <1>6, Zenon

(* fs_mkdir: the count of two is written before the name.                   *)
LEMMA MkdirGood ==
  ASSUME IInv, NEW p \in live, NEW dir \in Dirs(disk), NEW start \in Dirs(disk),
         NEW n \in Names, disk.dent[dir][n] = None
  PROVE  Finished(FsMkdir(p, start, dir, n), linkCut)
<1> DEFINE L == linkCut
           at == Walk(Begin, start, dir)
           made == InodeCreate(at, "dir")
           i == made.ip
           c == Linked(made.disk, i, 2)
           two == Writes(made, c)
           e == Entered(two.disk, dir, n, i)
           named == Writes(two, e)
           left == InodePut(named, i)
           end == InodePut(left, dir)
           new == FsMkdir(p, start, dir, n)
           h == Plus(Plus(Zero, dir), i)
<1>1. /\ Good(Begin, Zero, {}, L) /\ Tabled(Begin) /\ Zero \in [Inums -> Nat]
      /\ Begin.disk = disk /\ DiskOK(disk) /\ live \in SUBSET Procs
  BY BeginGood, Zenon
<1> HIDE DEF L
<1>2. /\ Good(at, Plus(Zero, dir), {}, L) /\ Same(Begin, at)
      /\ at.disk = disk /\ dir \in Inums
  BY <1>1, WalkGood, Zenon
<1> HIDE DEF at
<1>3. /\ Same(at, made)
      /\ made.panic => \A Y : Good(made, Plus(Zero, dir), Y, L)
      /\ ~made.panic =>
           /\ i \in Inums /\ Good(made, h, {i}, L)
           /\ made.disk.type[i] = "dir" /\ made.disk.nlink[i] = 1
           /\ ~linkCut => Entries(made.disk, i) = {}
           /\ KeepsDirs(made.disk, at.disk)
  BY <1>2, CreateGood, Zenon
<1>4. new = end
  <2>1. new = InodePut(InodePut(SetDentry(SetNlink(made, i, 2), dir, n, i), i), dir)
    BY Zenon DEF FsMkdir, at
  <2> HIDE DEF made, new, i
  <2>2. SetNlink(made, i, 2) = two
    BY SetDentryIs, Zenon
  <2> HIDE DEF two
  <2>3. SetDentry(two, dir, n, i) = named
    BY SetDentryIs, Zenon
  <2> QED
    BY <2>1, <2>2, <2>3, Zenon
<1> HIDE DEF made, new
<1>5. CASE made.panic
  <2>0. two = made
    BY <1>5, Stuck, Zenon
  <2>1. end = made
    <3> HIDE DEF two
    <3>1. named = made
      BY <2>0, <1>5, Stuck, Zenon
    <3> HIDE DEF named
    <3>2. left = made
      BY <3>1, <1>5, Stuck, Zenon
    <3> QED
      BY <3>2, <1>5, Stuck, Zenon
  <2> QED
    BY <2>1, <1>3, <1>4, <1>5, PanicFinished, Zenon DEF L, new
<1>6. CASE ~made.panic
  <2>1. /\ i \in Inums /\ Good(made, h, {i}, L) /\ made.disk.type[i] = "dir"
        /\ dir \in Dirs(made.disk) /\ made.disk.dent[dir][n] = None
    BY <1>2, <1>3, <1>6, Zenon DEF KeepsDirs
  <2> HIDE DEF i
  <2>2. /\ h[i] > 0 /\ h \in [Inums -> Nat] /\ Plus(Zero, dir) \in [Inums -> Nat]
    BY <2>1, <1>1, <1>2, PlusLess, Zenon
  <2> HIDE DEF h
  <2>3. /\ DiskOK(made.disk) /\ made.disk \in Disk /\ made.ref[i] > 0
        /\ ~linkCut => Fine(made.disk, made.ref)
        /\ reboots = 0 => Exact(made.disk, made.ref, {i})
    BY <2>1, <2>2, <1>6, GoodDisk, SMTT(30)
  <2>4. /\ DiskOK(c) /\ c.ibmap = made.disk.ibmap /\ c.type = made.disk.type
        /\ c.dent = made.disk.dent /\ c.nlink = [made.disk.nlink EXCEPT ![i] = 2]
        /\ Fine(made.disk, made.ref) => Fine(c, made.ref)
        /\ Exact(made.disk, made.ref, {i}) => Exact(c, made.ref, {i})
    BY <2>1, <2>3, CountFine, SMTT(30)
  <2>5. c.nlink[i] = 2 /\ dir \in Dirs(c) /\ c.dent[dir][n] = None /\ c.type[i] = "dir"
    <3>1. made.disk.nlink \in [Inums -> Nat]
      BY <2>3, OnDisk, Zenon
    <3>2. dir \in Dirs(c)
      BY <2>1, <2>4, Zenon DEF Dirs
    <3> QED
      BY <3>1, <3>2, <2>1, <2>4, Zenon
  <2> HIDE DEF c
  <2>6. /\ Good(two, h, {i}, L) /\ Same(made, two) /\ two.disk = c
        /\ two.ref = made.ref /\ two.panic = made.panic
    BY <2>1, <2>3, <2>4, <1>6, WriteGood, ZenonT(40)
  <2> HIDE DEF two
  <2>7. /\ DiskOK(e)
        /\ \/ ~Fine(c, made.ref) \/ c.type[i] = "free"
           \/ c.type[i] # "dir" /\ Cardinality(Entries(c, i)) >= c.nlink[i]
           \/ Fine(e, made.ref)
        /\ \/ ~Exact(c, made.ref, {i})
           \/ c.nlink[i] # IF c.type[i] = "dir" THEN 2
                           ELSE Cardinality(Entries(c, i)) + 1
           \/ Exact(e, made.ref, {})
    BY <2>1, <2>3, <2>4, <2>5, <2>6, NameFine, Zenon
  <2> HIDE DEF e
  <2>8. (~linkCut => Fine(e, made.ref)) /\ (reboots = 0 => Exact(e, made.ref, {}))
    BY <2>3, <2>4, <2>5, <2>7
  <2>9. Good(named, h, {}, L) /\ Same(two, named)
    BY <2>6, <2>7, <2>8, <1>6, WriteGood, Zenon
  <2> HIDE DEF named
  <2>10. Good(left, Plus(Zero, dir), {}, L) /\ Same(named, left)
    BY <2>1, <2>2, <2>9, PutOne, Zenon DEF h
  <2> HIDE DEF left
  <2>11. Good(end, Zero, {}, L) /\ Same(left, end)
    BY <2>10, <1>1, <1>2, PutOne, Zenon
  <2> HIDE DEF end
  <2>12. Tabled(end)
    BY <2>6, <2>9, <2>10, <2>11, <1>1, <1>2, <1>3, SameTabled, Zenon
  <2> QED
    BY <2>11, <2>12, <1>4, Zenon DEF L, new, Finished
<1> QED
  BY <1>5, <1>6, Zenon

(* A descriptor that is set leads to a file with a reference.               *)
LEMMA Descriptors ==
  ASSUME IInv, NEW p \in live, NEW d \in FDs, fds[p][d] # NoFile
  PROVE  LET f == fds[p][d]
         IN  /\ p \in Procs /\ f \in Files /\ files[f].refcnt > 0
             /\ <<p, d>> \in Users(fds, f)
             /\ files[f].inum \in Inums /\ ref[files[f].inum] > 0
<1> DEFINE f == fds[p][d]
           i == files[f].inum
<1>1. p \in Procs /\ fds \in [Procs -> FdTable] /\ files \in [Files -> FileEntry]
  BY Zenon DEF IInv, TypeOK
<1>2. f \in Files
  BY <1>1 DEF FdTable
<1>3. files[f] \in FileEntry
  BY <1>1, <1>2, Zenon
<1>4. files[f].refcnt \in Nat /\ files[f].inum \in Inums
  BY <1>3 DEF FileEntry
<1>5. <<p, d>> \in Users(fds, f)
  BY <1>1 DEF Users
<1> HIDE DEF f
<1>6. files[f].refcnt = Cardinality(Users(fds, f))
  BY <1>2, Zenon DEF IInv, RefCounts, Users
<1>7. Cardinality(Users(fds, f)) # 0
  BY <1>5, UsersFinite, FS_EmptySet, Zenon
<1>8. files[f].refcnt > 0
  BY <1>4, <1>6, <1>7, SMTT(30)
<1>9. ref[i] > 0
  <2>1. f \in Openers(Begin, i) /\ Good(Begin, Zero, {}, linkCut) /\ Begin.panic = FALSE
        /\ Begin.ref = ref /\ Begin.leaks = leaks /\ Begin \in Calls
    BY <1>2, <1>8, BeginGood, Zenon DEF Openers
  <2>2. Begin.ref[i] = Begin.leaks[i] + Cardinality(Openers(Begin, i)) + Zero[i]
    BY <2>1, <1>4, Zenon DEF Good, Counted
  <2>3. Cardinality(Openers(Begin, i)) # 0 /\ Cardinality(Openers(Begin, i)) \in Nat
    BY <2>1, OpenersFinite, FS_EmptySet, Zenon
  <2>4. Begin.leaks[i] \in Nat /\ Zero[i] = 0
    BY <2>1, <1>4, InCall DEF Zero
  <2> QED
    BY <2>1, <2>2, <2>3, <2>4, SMTT(30)
<1> QED
  BY <1>1, <1>2, <1>4, <1>5, <1>8, <1>9, Zenon DEF f

(* A descriptor table is changed.                                           *)
StoredIn(st, p, d, v) == [st EXCEPT !.fds[p][d] = v]

(* Setting a descriptor keeps the call in order.                            *)
LEMMA StoreGood ==
  ASSUME NEW st, NEW h, NEW X, NEW L, Good(st, h, X, L), NEW p \in Procs,
         NEW d \in FDs, NEW v \in Files \cup {NoFile}
  PROVE  LET new == StoredIn(st, p, d, v)
         IN  /\ Good(new, h, X, L) /\ new.fds = Stored(st.fds, p, d, v)
             /\ new.files = st.files /\ new.panic = st.panic
<1> DEFINE u == Stored(st.fds, p, d, v)
           new == StoredIn(st, p, d, v)
<1>1. st \in Calls /\ h \in [Inums -> Nat]
  BY GoodDisk, Zenon DEF Good
<1>2. u \in [Procs -> FdTable]
  BY <1>1, InCall, StoredUsers, SMTT(30)
<1>3. new = [st EXCEPT !.fds = u]
  BY <1>1 DEF Stored, StoredIn, Calls
<1> HIDE DEF u, new
<1>4. /\ new \in Calls /\ new.disk = st.disk /\ new.past = st.past
      /\ new.ref = st.ref /\ new.fds = u /\ new.leaks = st.leaks
      /\ new.panic = st.panic /\ new.files = st.files
  BY <1>1, <1>2, <1>3 DEF Calls
<1>5. \A j \in Inums : new.leaks[j] + Cardinality(Openers(new, j)) + h[j]
                       = st.leaks[j] + Cardinality(Openers(st, j)) + h[j]
  BY <1>4, Zenon DEF Openers
<1>6. Good(new, h, X, L)
  BY <1>1, <1>4, <1>5, FiledGood, Zenon
<1> QED
  BY <1>4, <1>6, Zenon DEF u, new

(* fs_close takes the descriptor and one reference of the file.             *)
LEMMA CloseFinished ==
  ASSUME IInv, NEW p \in live, NEW d \in FDs, fds[p][d] # NoFile
  PROVE  Finished(FsClose(p, d), linkCut)
<1> DEFINE L == linkCut
           f == fds[p][d]
           shut == FileClose(Begin, f)
           new == FsClose(p, d)
<1>1. p \in Procs /\ f \in Files /\ files[f].refcnt > 0 /\ <<p, d>> \in Users(fds, f)
  BY Descriptors, Zenon
<1>2. /\ Good(Begin, Zero, {}, L) /\ Tabled(Begin)
      /\ Begin.files = files /\ Begin.fds = fds /\ ~Begin.panic
      /\ fds \in [Procs -> FdTable] /\ files \in [Files -> FileEntry]
  BY BeginGood, Zenon DEF IInv, TypeOK
<1>3. new = StoredIn(shut, p, d, NoFile)
  BY Zenon DEF FsClose, StoredIn
<1> HIDE DEF f, new, L
<1>4. /\ Good(shut, Zero, {}, L) /\ shut.fds = fds
      /\ \A g \in Files : g # f => shut.files[g].refcnt = files[g].refcnt
      /\ shut.files[f].refcnt = files[f].refcnt - 1
  BY <1>1, <1>2, CloseGood, Zenon
<1> HIDE DEF shut
<1>5. /\ Good(new, Zero, {}, L) /\ new.fds = Stored(fds, p, d, NoFile)
      /\ new.files = shut.files
  <2>1. NoFile \in Files \cup {NoFile}
    BY Zenon
  <2>2. p \in Procs /\ Good(shut, Zero, {}, L)
    BY <1>1, <1>4, Zenon
  <2>3. LET w == StoredIn(shut, p, d, NoFile)
        IN  /\ Good(w, Zero, {}, L) /\ w.fds = Stored(shut.fds, p, d, NoFile)
            /\ w.files = shut.files /\ w.panic = shut.panic
    BY <2>1, <2>2, StoreGood, ZenonT(30)
  <2> QED
    BY <2>3, <1>3, <1>4, Zenon
<1> DEFINE u == Stored(fds, p, d, NoFile)
<1>6. /\ \A g : g # NoFile => Users(u, g) = Users(fds, g) \ {<<p, d>>}
      /\ \A q \in Procs : q # p => u[q] = fds[q]
  BY <1>1, <1>2, StoredUsers
<1> HIDE DEF u
<1>7. ASSUME NEW g \in Files PROVE new.files[g].refcnt = Cardinality(Users(u, g))
  <2>1. /\ files[g].refcnt = Cardinality(Users(fds, g)) /\ g # NoFile
        /\ Users(u, g) = Users(fds, g) \ {<<p, d>>}
    BY <1>2, <1>6, Sizes, Zenon DEF Tabled
  <2>2. CASE g = f
    <3>1. Cardinality(Users(u, g)) = Cardinality(Users(fds, g)) - 1
      BY <2>1, <2>2, <1>1, UsersFinite, FS_RemoveElement, Zenon
    <3> QED
      BY <3>1, <2>1, <2>2, <1>4, <1>5, Zenon
  <2>3. CASE g # f
    <3>1. <<p, d>> \notin Users(fds, g)
      BY <2>3 DEF Users, f
    <3>2. Users(u, g) = Users(fds, g)
      BY <3>1, <2>1, Zenon
    <3> QED
      BY <3>2, <2>1, <2>3, <1>4, <1>5, Zenon
  <2> QED
    BY <2>2, <2>3, Zenon
<1>8. \A q \in Procs \ live : \A c \in FDs : new.fds[q][c] = NoFile
  BY <1>2, <1>5, <1>6, SMTT(30) DEF Tabled, u
<1> QED
  BY <1>5, <1>7, <1>8, Zenon DEF Finished, Tabled, new, u, L
=============================================================================
