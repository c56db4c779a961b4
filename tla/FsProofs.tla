------------------------------ MODULE FsProofs ------------------------------
(***************************************************************************)
(* Machine-checked proofs about AdventFS (kernel/fs.c), for any size of    *)
(* the table, its sectors and the disk, any paths, any sizes of files and  *)
(* any batches of the block cache.                                         *)
(***************************************************************************)
EXTENDS Fs, FiniteSetTheorems, TLAPS

-----------------------------------------------------------------------------
(* The inductive invariant                                                 *)

\* An entry of the table; the run of a file lies among the data sectors.
Fits(e) == e.size > 0 => e.type = "FILE" /\ Run(e.start, e.size) \subseteq DataSectors
Entry ==
    {e \in [type : {"FREE", "FILE", "DIR"}, name : Names \cup {""},
            parent : Slots \cup {FS_DIR_ROOT}, start : Nat, size : Nat] : Fits(e)}

\* What a sector may hold: file_count, a part of the table, or data.
DataValues == Nat \X Nat
SectorValues ==
    DataValues \cup (0 .. FS_MAX_FILES)
               \cup UNION {[SlotsIn(t) -> Entry] : t \in 1 .. TableSectors}
Image(I) ==
    /\ I \in [Sectors -> SectorValues]
    /\ I[0] \in 0 .. FS_MAX_FILES
    /\ \A t \in 1 .. TableSectors : I[t] \in [SlotsIn(t) -> Entry]

Contents == {NoFile} \cup UNION {[1 .. n -> Nat \X Nat] : n \in Nat}
DataOp ==
    [phase : {"data"}, slot : Slots, start : Nat, size : Nat, at : Nat, path : Paths,
     content : Contents]
SuperOp == [phase : {"super"}, at : 0 .. TableSectors, path : Paths, content : Contents]

Types ==
    /\ boot \in BOOLEAN /\ torn \in BOOLEAN /\ writes \in Nat /\ fails \in Nat
    /\ files \in [Slots -> Entry] /\ count \in 0 .. FS_MAX_FILES
    /\ used \subseteq DataSectors
    /\ op \in {Idle} \cup DataOp \cup SuperOp
    /\ Image(view) /\ Image(disk) /\ (boot = FALSE => view = disk)
    /\ opened \subseteq [slot : Slots, path : Paths]

\* The sectors of entry e hold one whole write, in image I.
OneWrite(e, I) ==
    \A s, t \in RunOf(e) : I[s][1] = I[t][1] /\ I[s][2] = s - e.start + 1

\* A table F of n entries: a tree of files that share nothing.
Separate(a, b) ==
    RunOf(a) \cap RunOf(b) = {} /\ ~(a.parent = b.parent /\ a.name = b.name)
Held(F, e) == e.parent # FS_DIR_ROOT => e.parent \in Slots /\ F[e.parent].type = "DIR"
Whole(F, n, I) ==
    /\ \A i \in Slots : F[i].type # "FREE" => i < n /\ Held(F, F[i]) /\ OneWrite(F[i], I)
    /\ \A i, j \in Slots :
          F[i].type # "FREE" /\ F[j].type # "FREE" /\ i # j => Separate(F[i], F[j])

\* Path p leads to slot i.
InDir(F, d, n, i) == F[i].type # "FREE" /\ F[i].parent = d /\ F[i].name = n
Leads(F, p, i) ==
    \/ Len(p) = 1 /\ InDir(F, FS_DIR_ROOT, p[1], i)
    \/ Len(p) = 2 /\ \E d \in Slots : /\ InDir(F, FS_DIR_ROOT, p[1], d) /\ F[d].type = "DIR"
                                      /\ InDir(F, d, p[2], i)

OpenOK(F, O) == \A f \in O : F[f.slot].type = "FILE" /\ Leads(F, f.path, f.slot)

\* The write under way has its run for itself, and its data so far.
DataOK(F, U, o, I, w) ==
    o \in DataOp =>
    /\ F[o.slot].type = "FILE" /\ o.at < Needed(o.size)
    /\ Run(o.start, Needed(o.size)) \subseteq U
    /\ \A i \in Slots : RunOf(F[i]) \cap Run(o.start, Needed(o.size)) = {}
    /\ \A k \in 0 .. (o.at - 1) : I[o.start + k] = <<w, k + 1>>

\* An entry of the disk's table that is behind: the file has been created in memory
\* and has no data.
Behind(a, e) == a.type = "FREE" /\ e.type = "FILE" /\ e.size = 0
\* The entry that the operation under way has changed: new, or a file with its old
\* run, which nobody has touched.
Turning(F, c, a, I) ==
    \/ /\ a.type = "FREE" /\ F[c].type # "FREE"
       /\ c # FS_DIR_ROOT => \A j \in Slots : F[j].type # "FREE" => F[j].parent # c
    \/ /\ a.type = "FILE" /\ F[c].type = "FILE" /\ a.name = F[c].name /\ a.parent = F[c].parent
       /\ \A j \in Slots \ {c} : RunOf(a) \cap RunOf(F[j]) = {}
       /\ OneWrite(a, I)

\* The table D of m entries on a disk that is written in order, beside the one in memory.
Lags(D, m, F, n, o, I) ==
    /\ m <= n /\ \A i \in Slots : D[i].type # "FREE" => i < m
    /\ \E c \in Slots :
          /\ \A i \in Slots \ {c} : D[i] = F[i] \/ Behind(D[i], F[i])
          /\ D[c] = F[c] \/ Behind(D[c], F[c]) \/ (o \in SuperOp /\ Turning(F, c, D[c], I))
    /\ o \in SuperOp => /\ o.at > 0 => m = n
                        /\ \A i \in Slots : 1 + i \div PerSector < o.at => D[i] = F[i]

Sound ==
    /\ Whole(files, count, view)
    /\ \A i \in Slots : RunOf(files[i]) \subseteq used
    /\ OpenOK(files, opened)
    /\ DataOK(files, used, op, view, writes)
    /\ Ordered => Lags(TableIn(disk).files, disk[0], files, count, op, disk)

IInv == Types /\ (torn = FALSE => Sound)

-----------------------------------------------------------------------------
(* The layout of the disk                                                  *)

LEMMA DivIs ==
    ASSUME NEW a \in Nat, NEW b \in Nat \ {0}
    PROVE  a \div b \in Nat /\ (a \div b) * b <= a /\ a < (a \div b) * b + b
BY Z3

LEMMA DivBound ==
    ASSUME NEW a \in Nat, NEW b \in Nat \ {0}, NEW c \in Nat, a < c
    PROVE  a \div b < (c + b - 1) \div b
<1> DEFINE q == a \div b
           r == (c + b - 1) \div b
<1>1. q \in Nat /\ q * b <= a /\ a < q * b + b
  BY DivIs
<1>2. c + b - 1 \in Nat
  OBVIOUS
<1>3. r \in Nat /\ r * b <= c + b - 1 /\ c + b - 1 < r * b + b
  BY <1>2, DivIs
<1> HIDE DEF q, r
<1>4. ASSUME r <= q PROVE FALSE
  <2>1. r * b <= q * b
    BY <1>1, <1>3, <1>4
  <2> QED
    BY <2>1, <1>1, <1>3
<1>5. q < r
  BY <1>1, <1>3, <1>4
<1> QED
  BY <1>5 DEF q, r

LEMMA Layout ==
    /\ TableSectors \in Nat /\ FS_SUPER_SECTORS = TableSectors + 1 /\ FS_MAX_FILES \in Nat
    /\ \A t \in 0 .. TableSectors : t \in Sectors /\ t \notin DataSectors
    /\ \A s \in DataSectors : s \in Nat /\ s \in Sectors /\ s > TableSectors
    /\ Slots \subseteq Nat
<1>1. FS_MAX_FILES \in Nat /\ NData \in Nat
  BY FsAssumption
<1>2. TableSectors \in Nat
  <2>1. FS_MAX_FILES + PerSector - 1 \in Nat /\ PerSector \in Nat \ {0}
    BY FsAssumption
  <2> QED
    BY <2>1, DivIs DEF TableSectors
<1>3. FS_SUPER_SECTORS = TableSectors + 1
  BY <1>2 DEF FS_SUPER_SECTORS
<1> QED
  BY <1>1, <1>2, <1>3 DEF Sectors, DataSectors, Slots

SectorOf(i) == 1 + i \div PerSector

LEMMA SlotSector ==
    ASSUME NEW i \in Slots
    PROVE  SectorOf(i) \in 1 .. TableSectors /\ \A t \in Nat : i \in SlotsIn(t) <=> t = SectorOf(i)
<1>1. i \in Nat /\ i < FS_MAX_FILES /\ FS_MAX_FILES \in Nat /\ PerSector \in Nat \ {0}
  BY FsAssumption DEF Slots
<1> DEFINE q == i \div PerSector
<1>2. q \in Nat /\ q < TableSectors
  BY <1>1, DivIs, DivBound DEF TableSectors
<1>3. SectorOf(i) = 1 + q /\ \A t \in Nat : i \in SlotsIn(t) <=> q = t - 1
  BY DEF SectorOf, SlotsIn
<1> HIDE DEF q
<1> QED
  BY <1>2, <1>3, Layout

LEMMA TableInIs ==
    ASSUME NEW I, Image(I)
    PROVE  /\ TableIn(I).files \in [Slots -> Entry] /\ TableIn(I).count = I[0]
           /\ \A i \in Slots : TableIn(I).files[i] = I[SectorOf(i)][i]
<1>1. TableIn(I).count = I[0] /\ TableIn(I).files = [i \in Slots |-> I[SectorOf(i)][i]]
  BY DEF TableIn, SectorOf
<1>2. ASSUME NEW i \in Slots PROVE I[SectorOf(i)][i] \in Entry
  <2>1. SectorOf(i) \in 1 .. TableSectors /\ SectorOf(i) \in Nat /\ i \in SlotsIn(SectorOf(i))
    BY SlotSector, Layout
  <2>2. I[SectorOf(i)] \in [SlotsIn(SectorOf(i)) -> Entry]
    BY <2>1 DEF Image
  <2> QED
    BY <2>1, <2>2
<1> QED
  BY <1>1, <1>2

\* A sector of data says nothing about the table.
DataWritten(I, s, v, J) ==
    /\ Image(J) /\ J[s] = v /\ J[0] = I[0] /\ TableIn(J).files = TableIn(I).files
    /\ \A x \in Sectors \ {s} : J[x] = I[x]

LEMMA WriteDataImage ==
    ASSUME NEW I, Image(I), NEW s \in DataSectors, NEW v \in DataValues
    PROVE  DataWritten(I, s, v, [I EXCEPT ![s] = v])
<1> DEFINE J == [I EXCEPT ![s] = v]
<1>1. s \in Sectors /\ s \notin 0 .. TableSectors /\ \A t \in 0 .. TableSectors : t \in Sectors
  BY Layout
<1>2. I \in [Sectors -> SectorValues] /\ v \in SectorValues
  <2>1. DataValues \subseteq SectorValues
    BY DEF SectorValues
  <2> QED
    BY <2>1 DEF Image
<1>3. J \in [Sectors -> SectorValues] /\ J[s] = v /\ \A x \in Sectors \ {s} : J[x] = I[x]
  BY <1>1, <1>2
<1> HIDE DEF J
<1>4. 0 \in 0 .. TableSectors /\ 1 .. TableSectors \subseteq 0 .. TableSectors
  BY Layout
<1>5. J[0] = I[0] /\ \A t \in 1 .. TableSectors : J[t] = I[t]
  BY <1>1, <1>3, <1>4
<1>6. Image(J)
  BY <1>3, <1>5 DEF Image
<1>7. TableIn(J).files = TableIn(I).files
  <2>1. \A i \in Slots : J[SectorOf(i)] = I[SectorOf(i)]
    BY <1>5, SlotSector
  <2> QED
    BY <2>1 DEF TableIn, SectorOf
<1> QED
  BY <1>3, <1>5, <1>6, <1>7 DEF DataWritten, J

\* A sector of the superblock brings its part of the table up to memory.
SuperWritten(I, s, J) ==
    /\ Image(J) /\ (\A x \in DataSectors : J[x] = I[x])
    /\ J[0] = IF s = 0 THEN count ELSE I[0]
    /\ \A i \in Slots : TableIn(J).files[i] =
                           IF SectorOf(i) = s THEN files[i] ELSE TableIn(I).files[i]

LEMMA WriteSuperImage ==
    ASSUME Types, NEW I, Image(I), NEW s \in 0 .. TableSectors
    PROVE  SuperWritten(I, s, [I EXCEPT ![s] = SuperSector(s)])
<1> DEFINE v == SuperSector(s)
           J == [I EXCEPT ![s] = v]
<1>1. s \in Sectors /\ s \in Nat /\ s \notin DataSectors /\ DataSectors \subseteq Sectors
      /\ TableSectors \in Nat /\ \A t \in 0 .. TableSectors : t \in Sectors
  BY Layout
<1>2. files \in [Slots -> Entry] /\ count \in 0 .. FS_MAX_FILES
  BY DEF Types
<1>3. s = 0 => v = count
  BY DEF SuperSector
<1>4. s # 0 => v = [i \in SlotsIn(s) |-> files[i]] /\ v \in [SlotsIn(s) -> Entry]
  BY <1>2 DEF SuperSector, SlotsIn
<1>5. I \in [Sectors -> SectorValues] /\ v \in SectorValues
  <2>1. CASE s = 0
    BY <2>1, <1>2, <1>3 DEF Image, SectorValues
  <2>2. CASE s # 0
    <3>1. s \in 1 .. TableSectors
      BY <2>2, <1>1
    <3> QED
      BY <3>1, <2>2, <1>4 DEF Image, SectorValues
  <2> QED
    BY <2>1, <2>2
<1> HIDE DEF v
<1>6. J \in [Sectors -> SectorValues] /\ J[s] = v /\ \A x \in Sectors \ {s} : J[x] = I[x]
  BY <1>1, <1>5
<1> HIDE DEF J
<1>7. 0 \in 0 .. TableSectors /\ 1 .. TableSectors \subseteq 0 .. TableSectors
  BY Layout
<1>8. J[0] = IF s = 0 THEN count ELSE I[0]
  BY <1>1, <1>3, <1>6, <1>7
<1>9. \A t \in 1 .. TableSectors : J[t] \in [SlotsIn(t) -> Entry]
  BY <1>1, <1>4, <1>6, <1>7 DEF Image
<1>10. Image(J)
  BY <1>2, <1>6, <1>8, <1>9 DEF Image
<1>11. \A x \in DataSectors : J[x] = I[x]
  BY <1>1, <1>6
<1>12. ASSUME NEW i \in Slots
       PROVE  TableIn(J).files[i] = IF SectorOf(i) = s THEN files[i] ELSE TableIn(I).files[i]
  <2>1. SectorOf(i) \in 1 .. TableSectors /\ (SectorOf(i) = s => i \in SlotsIn(s))
    BY <1>1, SlotSector
  <2>2. TableIn(J).files[i] = J[SectorOf(i)][i] /\ TableIn(I).files[i] = I[SectorOf(i)][i]
    BY <1>10, TableInIs
  <2>3. SectorOf(i) \in Sectors /\ SectorOf(i) # 0
    BY <2>1, <1>1, <1>7
  <2> QED
    BY <2>1, <2>2, <2>3, <1>4, <1>6
<1> QED
  BY <1>8, <1>10, <1>11, <1>12 DEF SuperWritten, J, v

-----------------------------------------------------------------------------
(* Entries and paths                                                       *)

LEMMA EntryIs ==
    ASSUME NEW e \in Entry
    PROVE  /\ e.type \in {"FREE", "FILE", "DIR"} /\ e.parent \in Slots \cup {FS_DIR_ROOT}
           /\ e.start \in Nat /\ e.size \in Nat
           /\ RunOf(e) \subseteq DataSectors
           /\ e.type # "FILE" => RunOf(e) = {} /\ e.size = 0
           /\ e.size = 0 => RunOf(e) = {}
           /\ e.size > 0 => e.type = "FILE" /\ e.start \in DataSectors
<1>1. /\ e.type \in {"FREE", "FILE", "DIR"} /\ e.parent \in Slots \cup {FS_DIR_ROOT}
      /\ e.start \in Nat /\ e.size \in Nat /\ Fits(e)
  BY DEF Entry
<1>2. e.size = 0 => Run(e.start, e.size) = {}
  BY <1>1 DEF Run
<1>3. e.size > 0 => e.type = "FILE" /\ Run(e.start, e.size) \subseteq DataSectors
  BY <1>1 DEF Fits
<1>4. e.size > 0 => e.start \in Run(e.start, e.size)
  BY <1>1 DEF Run
<1>5. e.size = 0 \/ e.size > 0
  BY <1>1
<1>6. RunOf(e) = {} \/ (e.size > 0 /\ RunOf(e) = Run(e.start, e.size))
  BY <1>2, <1>5 DEF RunOf
<1> QED
  BY <1>1, <1>2, <1>3, <1>4, <1>5, <1>6 DEF RunOf

LEMMA FindIs ==
    ASSUME NEW T, T.files \in [Slots -> Entry], T.count \in 0 .. FS_MAX_FILES,
           NEW I, Whole(T.files, T.count, I), NEW d, NEW n
    PROVE  \A i : i \in Find(T, d, n) <=> i \in Slots /\ InDir(T.files, d, n, i)
<1> DEFINE S == {i \in 0 .. (T.count - 1) : T.files[i].type # "FREE" /\ T.files[i].parent = d
                                            /\ T.files[i].name = n}
<1>1. \A i \in 0 .. (T.count - 1) : i \in Slots
  BY Layout DEF Slots
<1>2. ASSUME NEW i PROVE i \in S <=> i \in Slots /\ InDir(T.files, d, n, i)
  <2>1. ASSUME i \in Slots, InDir(T.files, d, n, i) PROVE i \in 0 .. (T.count - 1)
    <3>1. i < T.count /\ i \in Nat
      BY <2>1, Layout DEF Whole, InDir
    <3> QED
      BY <3>1
  <2> QED
    BY <2>1, <1>1 DEF InDir
<1>3. ASSUME NEW i \in S, NEW j \in S PROVE i = j
  <2>1. /\ i \in Slots /\ j \in Slots /\ InDir(T.files, d, n, i) /\ InDir(T.files, d, n, j)
    BY <1>2
  <2> QED
    BY <2>1 DEF Whole, Separate, InDir
<1>4. Find(T, d, n) = First(S)
  BY DEF Find
<1>5. S \subseteq Nat
  OBVIOUS
<1> HIDE DEF S
<1>6. First(S) = S
  <2>1. \A i \in S : i <= i
    BY <1>5
  <2>2. \A i \in S : \A j \in S : i <= j
    BY <2>1, <1>3
  <2> QED
    BY <2>2 DEF First
<1> QED
  BY <1>2, <1>4, <1>6

\* split_path_inst and fs_iopen_inst find the one entry of the path.
LEMMA ResolvedIs ==
    ASSUME NEW T, T.files \in [Slots -> Entry], T.count \in 0 .. FS_MAX_FILES,
           NEW I, Whole(T.files, T.count, I), NEW p \in Paths
    PROVE  /\ \A d : d \in DirOf(T, p) <=>
                 \/ Len(p) = 1 /\ d = FS_DIR_ROOT
                 \/ /\ Len(p) = 2 /\ d \in Slots /\ InDir(T.files, FS_DIR_ROOT, p[1], d)
                    /\ T.files[d].type = "DIR"
           /\ \A i : i \in Resolved(T, p) <=> i \in Slots /\ Leads(T.files, p, i)
           /\ \A i : i \in Resolved(T, p) <=>
                 i \in Slots /\ \E d \in DirOf(T, p) : InDir(T.files, d, p[Len(p)], i)
<1>1. Len(p) = 1 \/ Len(p) = 2
  BY FsAssumption
<1>2. \A d, n, i : i \in Find(T, d, n) <=> i \in Slots /\ InDir(T.files, d, n, i)
  BY FindIs
<1>3. \A d : d \in DirOf(T, p) <=>
                 \/ Len(p) = 1 /\ d = FS_DIR_ROOT
                 \/ /\ Len(p) = 2 /\ d \in Slots /\ InDir(T.files, FS_DIR_ROOT, p[1], d)
                    /\ T.files[d].type = "DIR"
  BY <1>1, <1>2 DEF DirOf
<1>4. \A i : i \in Resolved(T, p) <=> \E d \in DirOf(T, p) : i \in Find(T, d, p[Len(p)])
  BY DEF Resolved
<1>5. \A i : i \in Resolved(T, p) <=>
                 i \in Slots /\ \E d \in DirOf(T, p) : InDir(T.files, d, p[Len(p)], i)
  BY <1>2, <1>4
<1>6. ASSUME NEW i \in Slots
      PROVE  (\E d \in DirOf(T, p) : InDir(T.files, d, p[Len(p)], i)) <=> Leads(T.files, p, i)
  <2>1. CASE Len(p) = 1
    BY <2>1, <1>3 DEF Leads
  <2>2. CASE Len(p) = 2
    BY <2>2, <1>3 DEF Leads
  <2> QED
    BY <2>1, <2>2, <1>1
<1> QED
  BY <1>3, <1>5, <1>6

LEMMA TableIs == Table.files = files /\ Table.count = count
BY DEF Table

\* A FREE entry, or the next one after file_count.
LEMMA FreeSlotIs ==
    ASSUME Types, Whole(files, count, view), NEW i \in FreeSlot
    PROVE  i \in Slots /\ files[i].type = "FREE" /\ i <= count
<1>1. count \in 0 .. FS_MAX_FILES /\ FS_MAX_FILES \in Nat /\ count \in Nat
  BY Layout DEF Types
<1>2. \/ i \in 0 .. (count - 1) /\ files[i].type = "FREE"
      \/ i \in Slots /\ i = count
  BY DEF FreeSlot, First
<1>3. CASE i \in 0 .. (count - 1) /\ files[i].type = "FREE"
  BY <1>1, <1>3 DEF Slots
<1>4. CASE i \in Slots /\ i = count
  <2>1. ~(i < count)
    BY <1>1, <1>4
  <2> QED
    BY <2>1, <1>1, <1>4 DEF Whole
<1> QED
  BY <1>2, <1>3, <1>4

LEMMA WithIs ==
    ASSUME Types, NEW i \in Slots, NEW e \in Entry
    PROVE  /\ With(i, e).files \in [Slots -> Entry] /\ With(i, e).files[i] = e
           /\ \A j \in Slots \ {i} : With(i, e).files[j] = files[j]
           /\ With(i, e).count \in 0 .. FS_MAX_FILES /\ With(i, e).count >= count
           /\ With(i, e).count > i /\ (i < count => With(i, e).count = count)
<1>1. Slots \cup {i} = Slots
  OBVIOUS
<1>2. files \in [Slots -> Entry]
  BY DEF Types
<1>3. /\ With(i, e).files = [j \in Slots |-> IF j = i THEN e ELSE files[j]]
      /\ With(i, e).count = IF i < count THEN count ELSE i + 1
  BY <1>1 DEF With
<1>4. /\ count \in Nat /\ count <= FS_MAX_FILES /\ FS_MAX_FILES \in Nat /\ i \in Nat
      /\ i < FS_MAX_FILES
  BY Layout DEF Types, Slots
<1> QED
  BY <1>2, <1>3, <1>4

-----------------------------------------------------------------------------
(* What a change of one entry does to the tree                             *)

LEMMA SameWrite ==
    ASSUME NEW e, NEW I, NEW J, OneWrite(e, I), \A s \in RunOf(e) : J[s] = I[s]
    PROVE  OneWrite(e, J)
BY DEF OneWrite

\* F with another entry at i.
Changed(F, G, i) == \A j \in Slots \ {i} : G[j] = F[j]

\* A new entry, without data.
CanAdd(F, i, e) ==
    /\ F[i].type = "FREE" /\ e.type # "FREE" /\ RunOf(e) = {} /\ Held(F, e)
    /\ \A j \in Slots : ~InDir(F, e.parent, e.name, j)

LEMMA AddEntry ==
    ASSUME NEW F, NEW G, NEW n \in Nat, NEW m \in Nat, NEW I, Whole(F, n, I),
           NEW i \in Slots, Changed(F, G, i), CanAdd(F, i, G[i]), n <= m, i < m,
           NEW O \in SUBSET [slot : Slots, path : Paths], OpenOK(F, O)
    PROVE  Whole(G, m, I) /\ OpenOK(G, O)
<1>1. \A j \in Slots : F[j].type # "FREE" => j # i /\ G[j] = F[j]
  BY DEF Changed, CanAdd
<1>2. \A j \in Slots : G[j].type # "FREE" => j = i \/ (j # i /\ G[j] = F[j] /\ F[j].type # "FREE")
  BY DEF Changed
<1>3. ASSUME NEW e, Held(F, e) PROVE Held(G, e)
  <2>1. e.parent \in Slots /\ F[e.parent].type = "DIR" => G[e.parent].type = "DIR"
    BY <1>1
  <2> QED
    BY <2>1, <1>3 DEF Held
<1>4. ASSUME NEW j \in Slots, G[j].type # "FREE"
      PROVE  j < m /\ Held(G, G[j]) /\ OneWrite(G[j], I)
  <2>1. CASE j = i
    BY <2>1, <1>3 DEF CanAdd, OneWrite
  <2>2. CASE j # i
    <3>1. G[j] = F[j] /\ F[j].type # "FREE"
      BY <2>2, <1>2, <1>4
    <3>2. j < n /\ Held(F, F[j]) /\ OneWrite(F[j], I)
      BY <3>1 DEF Whole
    <3>3. j \in Nat
      BY Layout
    <3> QED
      BY <3>1, <3>2, <3>3, <1>3
  <2> QED
    BY <2>1, <2>2
<1>5. ASSUME NEW j \in Slots, F[j].type # "FREE"
      PROVE  Separate(F[j], G[i]) /\ Separate(G[i], F[j])
  BY <1>5 DEF CanAdd, Separate, InDir
<1>6. ASSUME NEW j \in Slots, NEW k \in Slots, G[j].type # "FREE", G[k].type # "FREE", j # k
      PROVE  Separate(G[j], G[k])
  <2>1. CASE j = i
    BY <2>1, <1>2, <1>5, <1>6
  <2>2. CASE k = i
    BY <2>2, <1>2, <1>5, <1>6
  <2>3. CASE j # i /\ k # i
    BY <2>3, <1>2, <1>6 DEF Whole
  <2> QED
    BY <2>1, <2>2, <2>3
<1>7. Whole(G, m, I)
  BY <1>4, <1>6 DEF Whole
<1>8. ASSUME NEW d, NEW a, NEW j \in Slots, InDir(F, d, a, j) PROVE InDir(G, d, a, j) /\ G[j] = F[j]
  BY <1>1, <1>8 DEF InDir
<1>9. ASSUME NEW f \in O PROVE G[f.slot].type = "FILE" /\ Leads(G, f.path, f.slot)
  <2>1. f.slot \in Slots /\ F[f.slot].type = "FILE" /\ Leads(F, f.path, f.slot)
    BY DEF OpenOK
  <2>2. Leads(G, f.path, f.slot)
    BY <2>1, <1>8 DEF Leads
  <2> QED
    BY <2>1, <2>2, <1>1
<1> QED
  BY <1>7, <1>9 DEF OpenOK

\* An entry goes that nobody uses: a file that is not open, or an empty directory.
CanRemove(F, i, O) ==
    /\ F[i].type = "FILE" \/ \A j \in Slots : j # i /\ F[j].type # "FREE" => F[j].parent # i
    /\ \A f \in O : f.slot # i

LEMMA RemoveEntry ==
    ASSUME NEW F, NEW G, NEW n, NEW I, Whole(F, n, I),
           NEW i \in Slots, Changed(F, G, i), G[i].type = "FREE",
           NEW O \in SUBSET [slot : Slots, path : Paths], OpenOK(F, O), CanRemove(F, i, O)
    PROVE  Whole(G, n, I) /\ OpenOK(G, O)
<1>1. \A j \in Slots : G[j].type # "FREE" => j # i /\ G[j] = F[j] /\ F[j].type # "FREE"
  BY DEF Changed
<1>2. ASSUME NEW j \in Slots, G[j].type # "FREE", NEW d \in Slots, F[j].parent = d, F[d].type = "DIR"
      PROVE  d # i /\ G[d] = F[d]
  <2>1. d # i
    BY <1>1, <1>2 DEF CanRemove
  <2> QED
    BY <2>1 DEF Changed
<1>3. ASSUME NEW j \in Slots, G[j].type # "FREE"
      PROVE  j < n /\ Held(G, G[j]) /\ OneWrite(G[j], I)
  <2>1. G[j] = F[j] /\ j < n /\ Held(F, F[j]) /\ OneWrite(F[j], I)
    BY <1>1, <1>3 DEF Whole
  <2>2. Held(G, F[j])
    BY <2>1, <1>2, <1>3 DEF Held
  <2> QED
    BY <2>1, <2>2
<1>4. \A j, k \in Slots : G[j].type # "FREE" /\ G[k].type # "FREE" /\ j # k => Separate(G[j], G[k])
  BY <1>1 DEF Whole
<1>5. Whole(G, n, I)
  BY <1>3, <1>4 DEF Whole
<1>6. ASSUME NEW f \in O PROVE G[f.slot].type = "FILE" /\ Leads(G, f.path, f.slot)
  <2> DEFINE s == f.slot
             p == f.path
  <2>1. s \in Slots /\ F[s].type = "FILE" /\ Leads(F, p, s) /\ s # i
    BY DEF OpenOK, CanRemove
  <2>2. G[s] = F[s] /\ G[s].type # "FREE"
    BY <2>1 DEF Changed
  <2> HIDE DEF s, p
  <2>3. Leads(G, p, s)
    <3>1. CASE Len(p) = 1 /\ InDir(F, FS_DIR_ROOT, p[1], s)
      BY <3>1, <2>2 DEF Leads, InDir
    <3>2. CASE Len(p) = 2 /\ \E d \in Slots : /\ InDir(F, FS_DIR_ROOT, p[1], d) /\ F[d].type = "DIR"
                                              /\ InDir(F, d, p[2], s)
      <4>1. PICK d \in Slots : /\ InDir(F, FS_DIR_ROOT, p[1], d) /\ F[d].type = "DIR"
                               /\ InDir(F, d, p[2], s)
        BY <3>2
      <4>2. G[d] = F[d]
        BY <4>1, <2>1, <2>2, <1>2 DEF InDir
      <4>3. InDir(G, FS_DIR_ROOT, p[1], d) /\ G[d].type = "DIR" /\ InDir(G, d, p[2], s)
        BY <4>1, <4>2, <2>2 DEF InDir
      <4> QED
        BY <4>3, <3>2 DEF Leads
    <3> QED
      BY <2>1, <3>1, <3>2 DEF Leads
  <2> QED
    BY <2>1, <2>2, <2>3 DEF s, p
<1> QED
  BY <1>5, <1>6 DEF OpenOK

\* A file gets another run, with one whole write in it.
CanMove(F, c, e, I) ==
    /\ F[c].type = "FILE" /\ e.type = "FILE" /\ e.name = F[c].name /\ e.parent = F[c].parent
    /\ \A j \in Slots \ {c} : RunOf(F[j]) \cap RunOf(e) = {}
    /\ OneWrite(e, I)

LEMMA MoveEntry ==
    ASSUME NEW F, NEW G, NEW n, NEW I, NEW J, Whole(F, n, I),
           NEW c \in Slots, Changed(F, G, c), CanMove(F, c, G[c], J),
           \A j \in Slots \ {c} : \A s \in RunOf(F[j]) : J[s] = I[s],
           NEW O \in SUBSET [slot : Slots, path : Paths], OpenOK(F, O)
    PROVE  Whole(G, n, J) /\ OpenOK(G, O)
<1>1. \A j \in Slots : /\ G[j].type = F[j].type /\ G[j].name = F[j].name
                       /\ G[j].parent = F[j].parent
  BY DEF Changed, CanMove
<1>2. ASSUME NEW j \in Slots, G[j].type # "FREE"
      PROVE  j < n /\ Held(G, G[j]) /\ OneWrite(G[j], J)
  <2>1. j < n /\ Held(F, F[j]) /\ OneWrite(F[j], I)
    BY <1>1, <1>2 DEF Whole
  <2>2. Held(G, G[j])
    BY <2>1, <1>1 DEF Held
  <2>3. OneWrite(G[j], J)
    <3>1. CASE j = c
      BY <3>1 DEF CanMove
    <3>2. CASE j # c
      BY <3>2, <2>1, SameWrite DEF Changed
    <3> QED
      BY <3>1, <3>2
  <2> QED
    BY <2>1, <2>2, <2>3
<1>3. ASSUME NEW j \in Slots, NEW k \in Slots, G[j].type # "FREE", G[k].type # "FREE", j # k
      PROVE  Separate(G[j], G[k])
  <2>1. Separate(F[j], F[k])
    BY <1>1, <1>3 DEF Whole
  <2>2. RunOf(G[j]) \cap RunOf(G[k]) = {}
    <3>1. CASE j = c
      BY <3>1, <1>3 DEF CanMove, Changed
    <3>2. CASE k = c
      BY <3>2, <1>3 DEF CanMove, Changed
    <3>3. CASE j # c /\ k # c
      BY <3>3, <2>1 DEF Separate, Changed
    <3> QED
      BY <3>1, <3>2, <3>3
  <2> QED
    BY <2>1, <2>2, <1>1 DEF Separate
<1>4. Whole(G, n, J)
  BY <1>2, <1>3 DEF Whole
<1>5. \A d, a : \A j \in Slots : InDir(F, d, a, j) <=> InDir(G, d, a, j)
  BY <1>1 DEF InDir
<1>6. ASSUME NEW f \in O PROVE G[f.slot].type = "FILE" /\ Leads(G, f.path, f.slot)
  <2>1. f.slot \in Slots /\ F[f.slot].type = "FILE" /\ Leads(F, f.path, f.slot)
    BY DEF OpenOK
  <2> QED
    BY <2>1, <1>1, <1>5 DEF Leads
<1> QED
  BY <1>4, <1>6 DEF OpenOK

\* Sectors that belong to no file have been written.
LEMMA SameRuns ==
    ASSUME NEW F, NEW n, NEW I, NEW J, Whole(F, n, I),
           \A j \in Slots : \A s \in RunOf(F[j]) : J[s] = I[s]
    PROVE  Whole(F, n, J)
<1>1. \A j \in Slots : OneWrite(F[j], I) => OneWrite(F[j], J)
  BY SameWrite
<1> QED
  BY <1>1 DEF Whole

-----------------------------------------------------------------------------
(* The table on a disk that is written in order                            *)

LEMMA LagsWhole ==
    ASSUME NEW F, NEW D, NEW n, NEW m, NEW I, NEW o, Whole(F, n, I), Lags(D, m, F, n, o, I)
    PROVE  Whole(D, m, I)
<1>1. PICK c \in Slots :
         /\ \A i \in Slots \ {c} : D[i] = F[i] \/ Behind(D[i], F[i])
         /\ D[c] = F[c] \/ Behind(D[c], F[c]) \/ (o \in SuperOp /\ Turning(F, c, D[c], I))
  BY DEF Lags
<1>2. \A i \in Slots : D[i].type # "FREE" => i < m
  BY DEF Lags
<1>3. ASSUME NEW i \in Slots, D[i].type # "FREE"
      PROVE  /\ F[i].type = D[i].type /\ F[i].name = D[i].name /\ F[i].parent = D[i].parent
             /\ F[i].type # "FREE" /\ (i # c => D[i] = F[i])
  BY <1>1, <1>3 DEF Behind, Turning
<1>4. ASSUME D[c].type # "FREE"
      PROVE  D[c] = F[c] \/ (OneWrite(D[c], I) /\ \A j \in Slots \ {c} : RunOf(D[c]) \cap RunOf(F[j]) = {})
  BY <1>1, <1>4 DEF Behind, Turning
<1>5. ASSUME NEW i \in Slots, D[i].type # "FREE" PROVE Held(D, D[i])
  <2> SUFFICES ASSUME D[i].parent # FS_DIR_ROOT
               PROVE  D[i].parent \in Slots /\ D[D[i].parent].type = "DIR"
    BY DEF Held
  <2> DEFINE d == D[i].parent
  <2>1. F[i].type # "FREE" /\ F[i].parent = d
    BY <1>3, <1>5
  <2>2. d \in Slots /\ F[d].type = "DIR"
    BY <2>1 DEF Whole, Held
  <2>3. D[d].type = "DIR"
    <3>1. CASE d # c
      BY <3>1, <2>2, <1>1 DEF Behind
    <3>2. CASE d = c
      BY <3>2, <2>1, <2>2, <1>1 DEF Behind, Turning
    <3> QED
      BY <3>1, <3>2
  <2> QED
    BY <2>2, <2>3
<1>6. ASSUME NEW i \in Slots, D[i].type # "FREE" PROVE OneWrite(D[i], I)
  <2>1. OneWrite(F[i], I)
    BY <1>3, <1>6 DEF Whole
  <2> QED
    BY <2>1, <1>3, <1>4, <1>6
<1>7. ASSUME NEW i \in Slots, NEW j \in Slots, D[i].type # "FREE", D[j].type # "FREE", i # j
      PROVE  Separate(D[i], D[j])
  <2>1. Separate(F[i], F[j])
    BY <1>3, <1>7 DEF Whole
  <2>2. RunOf(D[i]) \cap RunOf(D[j]) = {}
    <3>1. CASE i = c
      BY <3>1, <2>1, <1>3, <1>4, <1>7 DEF Separate
    <3>2. CASE j = c
      BY <3>2, <2>1, <1>3, <1>4, <1>7 DEF Separate
    <3>3. CASE i # c /\ j # c
      BY <3>3, <2>1, <1>3, <1>7 DEF Separate
    <3> QED
      BY <3>1, <3>2, <3>3
  <2> QED
    BY <2>1, <2>2, <1>3, <1>7 DEF Separate
<1> QED
  BY <1>2, <1>5, <1>6, <1>7 DEF Whole

\* Outside of an operation the disk has all but empty new files.
Settled(D, m, F, n) ==
    /\ m <= n /\ \A i \in Slots : D[i].type # "FREE" => i < m
    /\ \A i \in Slots : D[i] = F[i] \/ Behind(D[i], F[i])

LEMMA SettledIs ==
    ASSUME NEW F, NEW D, NEW n, NEW m, NEW I, NEW o, o \notin SuperOp
    PROVE  Lags(D, m, F, n, o, I) <=> Settled(D, m, F, n)
<1>1. 0 \in Slots
  BY FsAssumption DEF Slots
<1>2. ASSUME Lags(D, m, F, n, o, I) PROVE Settled(D, m, F, n)
  BY <1>2 DEF Lags, Settled
<1>3. ASSUME Settled(D, m, F, n) PROVE Lags(D, m, F, n, o, I)
  BY <1>1, <1>3 DEF Lags, Settled
<1> QED
  BY <1>2, <1>3

LEMMA OpKinds ==
    /\ Idle \notin DataOp /\ Idle \notin SuperOp
    /\ \A o \in DataOp : o \notin SuperOp /\ o # Idle /\ o.phase = "data"
    /\ \A o \in SuperOp : o \notin DataOp /\ o # Idle /\ o.phase = "super"
    /\ Idle.phase = "idle"
BY DEF Idle, DataOp, SuperOp

LEMMA FreeEntryIs ==
    /\ FreeEntry \in Entry /\ FreeEntry.type = "FREE" /\ RunOf(FreeEntry) = {}
<1>1. FreeEntry.size = 0 /\ FreeEntry.type = "FREE"
  BY DEF FreeEntry
<1>2. FreeEntry \in [type : {"FREE", "FILE", "DIR"}, name : Names \cup {""},
                     parent : Slots \cup {FS_DIR_ROOT}, start : Nat, size : Nat]
  BY DEF FreeEntry
<1>3. Fits(FreeEntry)
  BY <1>1 DEF Fits
<1>4. FreeEntry \in Entry
  BY <1>2, <1>3 DEF Entry
<1> QED
  BY <1>1, <1>4 DEF RunOf

LEMMA InitInv ==
    ASSUME Init
    PROVE  IInv
<1>1. FreeEntry \in Entry /\ FreeEntry.type = "FREE" /\ RunOf(FreeEntry) = {}
  BY FreeEntryIs
<1>2. \A i \in Slots : files[i] = FreeEntry
  BY DEF Init
<1>3. Image(view)
  <2> DEFINE v(s) == IF s = 0 THEN 0
                     ELSE IF s < FS_SUPER_SECTORS THEN [i \in SlotsIn(s) |-> FreeEntry]
                     ELSE <<0, 0>>
  <2>1. view = [s \in Sectors |-> v(s)]
    BY DEF Init
  <2>2. 0 \in 0 .. FS_MAX_FILES /\ 0 \in Sectors /\ TableSectors \in Nat
        /\ FS_SUPER_SECTORS = TableSectors + 1
    <3>1. 0 \in 0 .. TableSectors
      BY Layout
    <3> QED
      BY <3>1, Layout
  <2>3. \A t \in 1 .. TableSectors : t \in Sectors /\ v(t) = [i \in SlotsIn(t) |-> FreeEntry]
    BY <2>2, Layout
  <2>4. ASSUME NEW t \in 1 .. TableSectors PROVE v(t) \in [SlotsIn(t) -> Entry]
    <3> HIDE DEF v
    <3>1. v(t) = [i \in SlotsIn(t) |-> FreeEntry]
      BY <2>3
    <3> QED
      BY <3>1, <1>1
  <2>5. <<0, 0>> \in DataValues
    BY DEF DataValues
  <2>6. ASSUME NEW s \in Sectors PROVE v(s) \in SectorValues
    <3>1. CASE s = 0
      BY <3>1, <2>2 DEF SectorValues
    <3>2. CASE s # 0 /\ s < FS_SUPER_SECTORS
      <4>1. s \in 1 .. TableSectors
        BY <3>2, <2>2 DEF Sectors
      <4> QED
        BY <4>1, <2>4 DEF SectorValues
    <3>3. CASE s # 0 /\ ~(s < FS_SUPER_SECTORS)
      BY <3>3, <2>5 DEF SectorValues
    <3> QED
      BY <3>1, <3>2, <3>3
  <2>7. view[0] = 0 /\ \A t \in 1 .. TableSectors : view[t] = v(t)
    BY <2>1, <2>2, <2>3
  <2> HIDE DEF v
  <2> QED
    BY <2>1, <2>2, <2>4, <2>6, <2>7 DEF Image
<1>4. Types
  <2>1. files \in [Slots -> Entry] /\ count \in 0 .. FS_MAX_FILES
    BY <1>1, Layout DEF Init
  <2>2. boot \in BOOLEAN /\ torn \in BOOLEAN
    BY DEF Init
  <2>3. /\ writes \in Nat /\ fails \in Nat /\ used \subseteq DataSectors /\ op = Idle
        /\ disk = view /\ opened = {}
    BY DEF Init
  <2> QED
    BY <2>1, <2>2, <2>3, <1>3 DEF Types
<1>5. Whole(files, count, view) /\ \A i \in Slots : RunOf(files[i]) \subseteq used
  BY <1>1, <1>2 DEF Whole
<1>6. OpenOK(files, opened) /\ DataOK(files, used, op, view, writes)
  BY OpKinds DEF OpenOK, DataOK, Init
<1>7. Lags(TableIn(disk).files, disk[0], files, count, op, disk)
  <2>1. disk = view /\ op = Idle /\ count = 0
    BY DEF Init
  <2>2. view[0] = 0
    <3>1. 0 \in 0 .. TableSectors
      BY Layout
    <3>2. 0 \in Sectors
      BY <3>1, Layout
    <3> QED
      BY <3>2 DEF Init
  <2>3. ASSUME NEW i \in Slots PROVE TableIn(view).files[i] = FreeEntry
    <3>1. SectorOf(i) \in 1 .. TableSectors /\ SectorOf(i) \in Nat /\ i \in SlotsIn(SectorOf(i))
      BY SlotSector, Layout
    <3>2. SectorOf(i) \in Sectors /\ SectorOf(i) # 0 /\ SectorOf(i) < FS_SUPER_SECTORS
      BY <3>1, Layout
    <3>3. view[SectorOf(i)] = [j \in SlotsIn(SectorOf(i)) |-> FreeEntry]
      BY <3>2 DEF Init
    <3>4. TableIn(view).files[i] = view[SectorOf(i)][i]
      BY <1>3, TableInIs
    <3> QED
      BY <3>1, <3>3, <3>4
  <2>4. Settled(TableIn(disk).files, disk[0], files, count)
    BY <2>1, <2>2, <2>3, <1>1, <1>2 DEF Settled
  <2> QED
    BY <2>1, <2>4, OpKinds, SettledIs
<1> QED
  BY <1>4, <1>5, <1>6, <1>7 DEF IInv, Sound

-----------------------------------------------------------------------------
(* The operations                                                          *)

NewEntry(ty, d, a) == [FreeEntry EXCEPT !.type = ty, !.parent = d, !.name = a]

LEMMA NewEntryIs ==
    ASSUME NEW ty \in {"FILE", "DIR"}, NEW d \in Slots \cup {FS_DIR_ROOT}, NEW a \in Names
    PROVE  /\ NewEntry(ty, d, a) \in Entry /\ RunOf(NewEntry(ty, d, a)) = {}
           /\ NewEntry(ty, d, a).type = ty /\ NewEntry(ty, d, a).parent = d
           /\ NewEntry(ty, d, a).name = a /\ NewEntry(ty, d, a).size = 0
<1> DEFINE e == NewEntry(ty, d, a)
<1>1. FreeEntry \in [type : {"FREE", "FILE", "DIR"}, name : Names \cup {""},
                     parent : Slots \cup {FS_DIR_ROOT}, start : Nat, size : Nat]
  BY DEF FreeEntry
<1>2. e.type = ty /\ e.name = a /\ e.parent = d /\ e.size = 0
  BY DEF NewEntry, FreeEntry
<1>3. e \in [type : {"FREE", "FILE", "DIR"}, name : Names \cup {""},
             parent : Slots \cup {FS_DIR_ROOT}, start : Nat, size : Nat]
  BY <1>1 DEF NewEntry
<1> HIDE DEF e
<1>4. Fits(e)
  BY <1>2 DEF Fits
<1>5. e \in Entry
  BY <1>3, <1>4 DEF Entry
<1>6. RunOf(e) = {}
  BY <1>2, <1>5, EntryIs
<1> QED
  BY <1>2, <1>5, <1>6 DEF e

LEMMA LastName ==
    ASSUME NEW p \in Paths
    PROVE  p[Len(p)] \in Names /\ (Len(p) = 1 \/ Len(p) = 2)
<1>1. Len(p) = 1 \/ Len(p) = 2
  BY FsAssumption
<1>2. Len(p) \in 1 .. Len(p)
  BY <1>1
<1> QED
  BY <1>1, <1>2 DEF Names

\* Memory with a new entry e at i.
Added(T, i, e) ==
    /\ i \in Slots /\ files[i].type = "FREE"
    /\ T.files \in [Slots -> Entry] /\ T.count \in 0 .. FS_MAX_FILES /\ T.count >= count
    /\ Changed(files, T.files, i) /\ T.files[i] = e
    /\ Whole(T.files, T.count, view) /\ OpenOK(T.files, opened)
    /\ \A j \in Slots : RunOf(T.files[j]) \subseteq used

LEMMA AddStep ==
    ASSUME Types, Sound, NEW p \in Paths, NEW i \in FreeSlot, NEW d \in DirOf(Table, p),
           \A j \in Slots : ~InDir(files, d, p[Len(p)], j), NEW ty \in {"FILE", "DIR"}
    PROVE  Added(With(i, NewEntry(ty, d, p[Len(p)])), i, NewEntry(ty, d, p[Len(p)]))
           /\ d \in Slots \cup {FS_DIR_ROOT} /\ (d # FS_DIR_ROOT => files[d].type = "DIR")
<1> DEFINE a == p[Len(p)]
           e == NewEntry(ty, d, a)
           T == With(i, e)
<1>1. Whole(files, count, view) /\ OpenOK(files, opened)
      /\ \A j \in Slots : RunOf(files[j]) \subseteq used
  BY DEF Sound
<1>2. /\ files \in [Slots -> Entry] /\ count \in 0 .. FS_MAX_FILES /\ count \in Nat
      /\ opened \in SUBSET [slot : Slots, path : Paths]
  BY Layout DEF Types
<1>3. i \in Slots /\ files[i].type = "FREE"
  BY <1>1, FreeSlotIs
<1>4. d \in Slots \cup {FS_DIR_ROOT} /\ (d # FS_DIR_ROOT => d \in Slots /\ files[d].type = "DIR")
  <2>1. \/ Len(p) = 1 /\ d = FS_DIR_ROOT
        \/ /\ Len(p) = 2 /\ d \in Slots /\ InDir(Table.files, FS_DIR_ROOT, p[1], d)
           /\ Table.files[d].type = "DIR"
    BY <1>1, <1>2, TableIs, ResolvedIs
  <2> QED
    BY <2>1, TableIs
<1>5. /\ e \in Entry /\ RunOf(e) = {} /\ e.type = ty /\ e.parent = d /\ e.name = a
  BY <1>4, LastName, NewEntryIs
<1>6. \A j \in Slots : ~InDir(files, d, a, j)
  OBVIOUS
<1> HIDE DEF e, a
<1>7. /\ T.files \in [Slots -> Entry] /\ T.files[i] = e
      /\ \A j \in Slots \ {i} : T.files[j] = files[j]
      /\ T.count \in 0 .. FS_MAX_FILES /\ T.count >= count /\ T.count > i
  BY <1>3, <1>5, WithIs
<1> HIDE DEF T
<1>8. T.count \in Nat /\ i \in Nat
  BY <1>3, <1>7, Layout
<1>9. Changed(files, T.files, i)
  BY <1>7 DEF Changed
<1>10. CanAdd(files, i, T.files[i])
  BY <1>3, <1>4, <1>5, <1>6, <1>7 DEF CanAdd, Held
<1>11. count <= T.count /\ i < T.count
  BY <1>2, <1>7, <1>8
<1>12. Whole(T.files, T.count, view) /\ OpenOK(T.files, opened)
  BY <1>1, <1>2, <1>3, <1>8, <1>9, <1>10, <1>11, AddEntry
<1>13. \A j \in Slots : RunOf(T.files[j]) \subseteq used
  BY <1>1, <1>5, <1>7
<1>14. Added(T, i, e)
  BY <1>3, <1>7, <1>9, <1>12, <1>13 DEF Added
<1> QED
  BY <1>4, <1>14 DEF T, e, a

\* A run of free sectors.
LEMMA FreshIs ==
    ASSUME NEW n, NEW old, NEW s \in Fresh(n, old)
    PROVE  s \in DataSectors /\ s \in Nat /\ Run(s, n) \subseteq DataSectors /\ Run(s, n) \cap used = {}
BY Layout DEF Fresh, First

LEMMA NeededIs ==
    ASSUME NEW n \in Nat
    PROVE  Needed(n) \in Nat /\ Needed(n) >= 1 /\ n <= Needed(n)
BY DEF Needed

LEMMA WriteAllStep ==
    ASSUME IInv, ~torn, NEW p \in Paths, NEW n \in Sizes, WriteAll(p, n)
    PROVE  IInv'
<1> DEFINE here == Resolved(Table, p)
           slots == IF here # {} THEN here ELSE IF DirOf(Table, p) = {} THEN {} ELSE FreeSlot
           a == p[Len(p)]
<1>1. Types /\ Sound /\ torn = FALSE
  BY DEF IInv, Types
<1>2. /\ Whole(files, count, view) /\ OpenOK(files, opened)
      /\ \A j \in Slots : RunOf(files[j]) \subseteq used
      /\ Ordered => Lags(TableIn(disk).files, disk[0], files, count, op, disk)
  BY <1>1 DEF Sound
<1>3. /\ files \in [Slots -> Entry] /\ count \in 0 .. FS_MAX_FILES /\ count \in Nat
      /\ writes \in Nat /\ Image(disk) /\ used \subseteq DataSectors
  BY <1>1, Layout DEF Types
<1>4. PICK i \in slots, d \in DirOf(Table, p) :
         /\ here # {} => files[i].type = "FILE"
         /\ Becomes(IF here # {} THEN Table ELSE With(i, NewEntry("FILE", d, a)))
         /\ LET starts == Fresh(Needed(n), IF here # {} THEN RunOf(files[i]) ELSE {})
            IN  IF starts = {} THEN UNCHANGED <<op, used>>
                ELSE \E s \in starts :
                        /\ used' = used \cup Run(s, Needed(n))
                        /\ op' = [phase |-> "data", slot |-> i, start |-> s, size |-> n,
                                  at |-> 0, path |-> p, content |-> Written(writes', n)]
  BY DEF WriteAll, NewEntry
<1>5. /\ op = Idle /\ writes' = writes + 1
      /\ UNCHANGED <<boot, store, opened, fails, acked, torn>>
  BY DEF WriteAll
<1>6. \A j : j \in here <=> j \in Slots /\ \E x \in DirOf(Table, p) : InDir(files, x, a, j)
  BY <1>2, <1>3, TableIs, ResolvedIs
<1> HIDE DEF here, a
<1>7. /\ files' \in [Slots -> Entry] /\ count' \in 0 .. FS_MAX_FILES /\ count' >= count
      /\ i \in Slots /\ files'[i].type = "FILE"
      /\ Whole(files', count', view) /\ OpenOK(files', opened)
      /\ \A j \in Slots : RunOf(files'[j]) \subseteq used
      /\ \A j \in Slots : files'[j] = files[j] \/ (files[j].type = "FREE" /\ files'[j].type = "FILE"
                                                   /\ files'[j].size = 0)
  <2>1. CASE here # {}
    <3>1. files' = files /\ count' = count
      BY <2>1, <1>4, TableIs DEF Becomes
    <3>2. i \in Slots
      BY <2>1, <1>4, <1>6
    <3> QED
      BY <2>1, <3>1, <3>2, <1>2, <1>3, <1>4
  <2>2. CASE here = {}
    <3> DEFINE e == NewEntry("FILE", d, a)
               T == With(i, e)
    <3>1. i \in FreeSlot
      BY <2>2, <1>4
    <3>2. \A j \in Slots : ~InDir(files, d, a, j)
      BY <2>2, <1>6
    <3>3. Added(T, i, e) /\ d \in Slots \cup {FS_DIR_ROOT}
      BY <3>1, <3>2, <1>1, AddStep DEF a
    <3>4. e.type = "FILE" /\ e.size = 0
      BY <3>3, LastName, NewEntryIs DEF a
    <3>5. files' = T.files /\ count' = T.count
      BY <2>2, <1>4 DEF Becomes
    <3> HIDE DEF T, e
    <3> QED
      BY <3>3, <3>4, <3>5 DEF Added, Changed
  <2> QED
    BY <2>1, <2>2
<1>8. Ordered => Settled(TableIn(disk).files, disk[0], files', count')
  <2> SUFFICES ASSUME Ordered PROVE Settled(TableIn(disk).files, disk[0], files', count')
    OBVIOUS
  <2>1. Settled(TableIn(disk).files, disk[0], files, count)
    BY <1>2, <1>5, OpKinds, SettledIs
  <2>2. disk[0] \in Nat /\ count' \in Nat
    BY <1>3, <1>7, Layout DEF Image
  <2>3. disk[0] <= count'
    BY <2>1, <2>2, <1>3, <1>7 DEF Settled
  <2> QED
    BY <2>1, <2>3, <1>7 DEF Settled, Behind
<1>9. op' \notin SuperOp /\ op' \in {Idle} \cup DataOp /\ used' \subseteq DataSectors
      /\ used \subseteq used' /\ DataOK(files', used', op', view, writes')
  <2> DEFINE starts == Fresh(Needed(n), IF here # {} THEN RunOf(files[i]) ELSE {})
  <2>1. CASE starts = {}
    <3>1. op' = Idle /\ used' = used
      BY <2>1, <1>4, <1>5
    <3> QED
      BY <3>1, <1>3, OpKinds DEF DataOK
  <2>2. CASE starts # {}
    <3>1. PICK s \in starts :
             /\ used' = used \cup Run(s, Needed(n))
             /\ op' = [phase |-> "data", slot |-> i, start |-> s, size |-> n,
                       at |-> 0, path |-> p, content |-> Written(writes', n)]
      BY <2>2, <1>4
    <3>2. s \in Nat /\ Run(s, Needed(n)) \subseteq DataSectors /\ Run(s, Needed(n)) \cap used = {}
      BY FreshIs
    <3> HIDE DEF starts
    <3>3. n \in Nat /\ Needed(n) \in Nat /\ Needed(n) >= 1
      BY FsAssumption, NeededIs
    <3>4. Written(writes', n) \in Contents
      <4>1. writes' \in Nat
        BY <1>3, <1>5
      <4>2. Written(writes', n) \in [1 .. n -> Nat \X Nat]
        BY <4>1, <3>3 DEF Written
      <4> QED
        BY <4>2, <3>3 DEF Contents
    <3>5. op' \in DataOp /\ op'.slot = i /\ op'.start = s /\ op'.size = n /\ op'.at = 0
      BY <3>1, <3>2, <3>3, <3>4, <1>7 DEF DataOp
    <3>6. DataOK(files', used', op', view, writes')
      <4>1. op'.at < Needed(op'.size)
        BY <3>3, <3>5
      <4>2. \A j \in Slots : RunOf(files'[j]) \cap Run(op'.start, Needed(op'.size)) = {}
        BY <3>2, <3>5, <1>7
      <4>3. 0 .. (op'.at - 1) = {}
        BY <3>5
      <4>4. Run(op'.start, Needed(op'.size)) \subseteq used'
        BY <3>1, <3>5
      <4> QED
        BY <4>1, <4>2, <4>3, <4>4, <3>5, <1>7 DEF DataOK
    <3> QED
      BY <3>1, <3>2, <3>5, <3>6, <1>3, OpKinds
  <2> QED
    BY <2>1, <2>2
<1>10. Types'
  <2>1. /\ boot' = boot /\ torn' = torn /\ fails' = fails /\ view' = view /\ disk' = disk
        /\ opened' = opened /\ writes' \in Nat
    BY <1>3, <1>5 DEF store
  <2> QED
    BY <2>1, <1>1, <1>7, <1>9 DEF Types
<1>11. Sound'
  <2>1. /\ view' = view /\ disk' = disk /\ opened' = opened /\ (Ordered' <=> Ordered)
    BY <1>5 DEF store, Ordered
  <2>2. Ordered => Lags(TableIn(disk).files, disk[0], files', count', op', disk)
    BY <1>8, <1>9, SettledIs
  <2>3. \A j \in Slots : RunOf(files'[j]) \subseteq used'
    BY <1>7, <1>9
  <2> QED
    BY <2>1, <2>2, <2>3, <1>7, <1>9 DEF Sound
<1> QED
  BY <1>10, <1>11 DEF IInv

\* An operation has changed the entry c in memory, and begins to write the superblock.
LEMMA LagsStart ==
    ASSUME NEW F, NEW G, NEW D, NEW n, NEW m, NEW I, NEW o \in SuperOp, o.at = 0,
           NEW k \in Nat, NEW c \in Slots, Settled(D, m, F, k), m <= n, Changed(F, G, c),
           D[c] = G[c] \/ Behind(D[c], G[c]) \/ Turning(G, c, D[c], I)
    PROVE  Lags(D, m, G, n, o, I)
<1>1. \A i \in Slots : D[i].type # "FREE" => i < m
  BY DEF Settled
<1>2. \A i \in Slots \ {c} : D[i] = G[i] \/ Behind(D[i], G[i])
  BY DEF Settled, Changed
<1>3. \A i \in Slots : ~(1 + i \div PerSector < o.at)
  <2> SUFFICES ASSUME NEW i \in Slots PROVE ~(SectorOf(i) < o.at)
    BY DEF SectorOf
  <2> QED
    BY SlotSector, Layout
<1> QED
  BY <1>1, <1>2, <1>3 DEF Lags

LEMMA SuperblockIs ==
    ASSUME NEW p \in Paths, NEW x \in Contents
    PROVE  Superblock(p, x) \in SuperOp /\ Superblock(p, x).at = 0
<1>1. 0 \in 0 .. TableSectors
  BY Layout
<1> QED
  BY <1>1 DEF Superblock, SuperOp

\* What a step that writes the next sector of data leaves of memory.
DataStep(F, U, o) ==
    /\ F \in [Slots -> Entry] /\ U \subseteq used
    /\ Whole(F, count, view') /\ OpenOK(F, opened)
    /\ \A i \in Slots : RunOf(F[i]) \subseteq U
    /\ o \in DataOp \cup SuperOp /\ DataOK(F, U, o, view', writes)
    /\ Ordered => Lags(TableIn(disk').files, disk'[0], F, count, o, disk')

\* The sector that WriteData writes.
DataSector(x) ==
    /\ x \in Run(op.start, Needed(op.size)) /\ DataWritten(view, x, <<writes, op.at + 1>>, view')
    /\ boot = TRUE => disk' = disk
    /\ boot = FALSE => view' = disk'
    /\ Image(disk') /\ disk'[0] = disk[0] /\ TableIn(disk').files = TableIn(disk).files
    /\ \A j \in Slots : \A s \in RunOf(files[j]) : view'[s] = view[s]
    /\ \A k \in 0 .. op.at : view'[op.start + k] = <<writes, k + 1>>

LEMMA WriteDataSector ==
    ASSUME Types, Sound, op \in DataOp,
           WriteSector(op.start + op.at, <<writes, op.at + 1>>)
    PROVE  DataSector(op.start + op.at)
<1> DEFINE x == op.start + op.at
           v == <<writes, op.at + 1>>
           R == Run(op.start, Needed(op.size))
<1>1. op.start \in Nat /\ op.size \in Nat /\ op.at \in Nat /\ Needed(op.size) \in Nat /\ writes \in Nat
  BY NeededIs DEF DataOp, Types
<1>2. /\ op.at < Needed(op.size) /\ R \subseteq used
      /\ \A i \in Slots : RunOf(files[i]) \cap R = {}
      /\ \A k \in 0 .. (op.at - 1) : view[op.start + k] = <<writes, k + 1>>
  BY DEF Sound, DataOK
<1>3. x \in R
  BY <1>1, <1>2 DEF Run
<1>4. R \subseteq DataSectors /\ DataSectors \subseteq Sectors
  BY <1>2, Layout DEF Types
<1>5. v \in DataValues
  BY <1>1 DEF DataValues
<1>6. /\ view' = [view EXCEPT ![x] = v]
      /\ boot = TRUE => disk' = disk
      /\ boot = FALSE => disk' = [disk EXCEPT ![x] = v] /\ view' = disk'
      /\ Image(view) /\ Image(disk) /\ boot \in BOOLEAN
  <2>1. Image(view) /\ Image(disk) /\ (boot = FALSE => view = disk) /\ boot \in BOOLEAN
    BY DEF Types
  <2> QED
    BY <2>1 DEF WriteSector
<1>7. \A k \in 0 .. op.at : k = op.at \/ k \in 0 .. (op.at - 1)
  BY <1>1
<1>8. \A k \in 0 .. op.at : op.start + k \in R /\ (k # op.at => op.start + k # x)
  BY <1>1, <1>2 DEF Run
<1> HIDE DEF R, v, x
<1>9. DataWritten(view, x, v, view')
  BY <1>3, <1>4, <1>5, <1>6, WriteDataImage
<1>10. Image(disk') /\ disk'[0] = disk[0] /\ TableIn(disk').files = TableIn(disk).files
  <2>1. CASE boot = TRUE
    BY <2>1, <1>6
  <2>2. CASE boot = FALSE
    <3>1. DataWritten(disk, x, v, [disk EXCEPT ![x] = v])
      BY <1>3, <1>4, <1>5, <1>6, WriteDataImage
    <3>2. disk' = [disk EXCEPT ![x] = v]
      BY <2>2, <1>6
    <3> QED
      BY <3>1, <3>2 DEF DataWritten
  <2> QED
    BY <2>1, <2>2, <1>6
<1>11. ASSUME NEW j \in Slots, NEW s \in RunOf(files[j]) PROVE view'[s] = view[s]
  <2>1. s \in DataSectors
    BY EntryIs DEF Types
  <2>2. s \in Sectors \ {x}
    BY <2>1, <1>2, <1>3, <1>4
  <2> QED
    BY <2>2, <1>9 DEF DataWritten
<1>12. ASSUME NEW k \in 0 .. op.at PROVE view'[op.start + k] = <<writes, k + 1>>
  <2>1. CASE k = op.at
    BY <2>1, <1>9 DEF DataWritten, x, v
  <2>2. CASE k # op.at
    <3>1. op.start + k \in Sectors \ {x}
      BY <2>2, <1>4, <1>8
    <3> QED
      BY <3>1, <2>2, <1>2, <1>7, <1>9 DEF DataWritten
  <2> QED
    BY <2>1, <2>2
<1> QED
  BY <1>3, <1>6, <1>9, <1>10, <1>11, <1>12 DEF DataSector, R, v, x

\* Not the last sector: only the progress of the write changes.
LEMMA DataMore ==
    ASSUME Types, Sound, op \in DataOp, DataSector(op.start + op.at),
           op.at + 1 < Needed(op.size)
    PROVE  DataStep(files, used, [op EXCEPT !.at = @ + 1])
<1> DEFINE o == [op EXCEPT !.at = @ + 1]
<1>1. op.at \in Nat /\ o \in DataOp /\ o.at = op.at + 1 /\ o.slot = op.slot /\ o.start = op.start
      /\ o.size = op.size
  BY DEF DataOp
<1> HIDE DEF o
<1>2. /\ Whole(files, count, view) /\ OpenOK(files, opened)
      /\ \A i \in Slots : RunOf(files[i]) \subseteq used
      /\ Ordered => Lags(TableIn(disk).files, disk[0], files, count, op, disk)
  BY DEF Sound
<1>3. Whole(files, count, view')
  BY <1>2, SameRuns DEF DataSector
<1>4. DataOK(files, used, o, view', writes)
  <2>1. 0 .. (o.at - 1) = 0 .. op.at
    BY <1>1
  <2>2. /\ files[op.slot].type = "FILE" /\ Run(op.start, Needed(op.size)) \subseteq used
        /\ \A i \in Slots : RunOf(files[i]) \cap Run(op.start, Needed(op.size)) = {}
    BY DEF Sound, DataOK
  <2>3. \A k \in 0 .. op.at : view'[op.start + k] = <<writes, k + 1>>
    BY DEF DataSector
  <2> QED
    BY <2>1, <2>2, <2>3, <1>1 DEF DataOK
<1>5. Ordered => Lags(TableIn(disk').files, disk'[0], files, count, o, disk')
  <2>1. disk'[0] = disk[0] /\ TableIn(disk').files = TableIn(disk).files
    BY DEF DataSector
  <2>2. o \notin SuperOp /\ op \notin SuperOp
    BY <1>1, OpKinds
  <2> QED
    BY <2>1, <2>2, <1>2, SettledIs
<1>6. files \in [Slots -> Entry]
  BY DEF Types
<1> QED
  BY <1>1, <1>2, <1>3, <1>4, <1>5, <1>6 DEF DataStep, o

\* The last sector: the entry gets its new run.
LEMMA DataLast ==
    ASSUME Types, Sound, op \in DataOp, DataSector(op.start + op.at),
           ~(op.at + 1 < Needed(op.size))
    PROVE  DataStep([files EXCEPT ![op.slot].start = op.start, ![op.slot].size = op.size],
                    used \ RunOf(files[op.slot]), Superblock(op.path, op.content))
<1> DEFINE c == op.slot
           N == Needed(op.size)
           R == Run(op.start, N)
           G == [files EXCEPT ![op.slot].start = op.start, ![op.slot].size = op.size]
           U == used \ RunOf(files[op.slot])
           o == Superblock(op.path, op.content)
<1>1. /\ op.start \in Nat /\ op.size \in Nat /\ op.at \in Nat /\ c \in Slots
      /\ op.path \in Paths /\ op.content \in Contents
  BY DEF DataOp
<1>2. N \in Nat /\ N >= 1 /\ op.size <= N
  BY <1>1, NeededIs
<1>3. /\ Whole(files, count, view) /\ OpenOK(files, opened)
      /\ \A i \in Slots : RunOf(files[i]) \subseteq used
      /\ Ordered => Lags(TableIn(disk).files, disk[0], files, count, op, disk)
      /\ files[c].type = "FILE" /\ op.at < N /\ R \subseteq used
      /\ \A i \in Slots : RunOf(files[i]) \cap R = {}
  BY DEF Sound, DataOK
<1>4. /\ files \in [Slots -> Entry] /\ used \subseteq DataSectors /\ boot \in BOOLEAN
      /\ opened \in SUBSET [slot : Slots, path : Paths] /\ disk[0] \in Nat /\ count \in Nat
      /\ (boot = FALSE => view = disk)
  BY Layout DEF Types, Image
<1>5. o \in SuperOp /\ o.at = 0
  BY <1>1, SuperblockIs
<1>6. \A k \in 0 .. (N - 1) : view'[op.start + k] = <<writes, k + 1>>
  <2>1. op.at = N - 1
    BY <1>1, <1>2, <1>3
  <2> QED
    BY <2>1 DEF DataSector
<1>7. Run(op.start, op.size) \subseteq R
  BY <1>1, <1>2 DEF Run
<1>8. /\ \A j \in Slots \ {c} : G[j] = files[j]
      /\ G[c] = [files[c] EXCEPT !.start = op.start, !.size = op.size]
  BY <1>1, <1>4
<1>9. /\ G[c].start = op.start /\ G[c].size = op.size /\ G[c].type = "FILE"
      /\ G[c].name = files[c].name /\ G[c].parent = files[c].parent /\ G[c] \in Entry
  <2> DEFINE e == [files[c] EXCEPT !.start = op.start, !.size = op.size]
             Rec == [type : {"FREE", "FILE", "DIR"}, name : Names \cup {""},
                     parent : Slots \cup {FS_DIR_ROOT}, start : Nat, size : Nat]
  <2>1. files[c] \in Rec
    BY <1>1, <1>4 DEF Entry
  <2>2. e \in Rec
    BY <2>1, <1>1
  <2>3. /\ e.start = op.start /\ e.size = op.size /\ e.type = files[c].type
        /\ e.name = files[c].name /\ e.parent = files[c].parent
    BY <2>1
  <2>4. Run(op.start, op.size) \subseteq DataSectors
    BY <1>3, <1>4, <1>7
  <2> HIDE DEF e
  <2>5. Fits(e)
    BY <2>3, <2>4, <1>3 DEF Fits
  <2>6. e \in Entry
    BY <2>2, <2>5 DEF Entry
  <2> QED
    BY <2>3, <2>6, <1>3, <1>8 DEF e
<1>10. RunOf(G[c]) = Run(op.start, op.size)
  BY <1>9 DEF RunOf
<1>11. OneWrite(G[c], view')
  <2>1. ASSUME NEW s \in RunOf(G[c])
        PROVE  view'[s][1] = writes /\ view'[s][2] = s - op.start + 1
    <3> HIDE DEF G, c, N
    <3>0. s \in op.start .. (op.start + op.size - 1)
      BY <1>10 DEF Run
    <3>1. s \in Nat /\ s - op.start \in 0 .. (N - 1) /\ op.start + (s - op.start) = s
      BY <3>0, <1>1, <1>2
    <3>2. view'[s] = <<writes, s - op.start + 1>>
      BY <3>1, <1>6
    <3> QED
      BY <3>2
  <2> HIDE DEF G, c, N
  <2> QED
    BY <2>1, <1>9 DEF OneWrite
<1>12. /\ G \in [Slots -> Entry] /\ Changed(files, G, c)
  <2>1. \A j \in Slots : G[j] \in Entry
    BY <1>4, <1>8, <1>9
  <2>2. DOMAIN G = Slots /\ G = [j \in Slots |-> G[j]]
    BY <1>4
  <2> HIDE DEF G
  <2> QED
    BY <2>1, <2>2, <1>8 DEF Changed
<1> HIDE DEF G, c, o, R, N, U
<1>13. CanMove(files, c, G[c], view')
  BY <1>3, <1>7, <1>9, <1>10, <1>11 DEF CanMove
<1>14. \A j \in Slots : \A s \in RunOf(files[j]) : view'[s] = view[s]
  BY DEF DataSector
<1>15. Whole(G, count, view') /\ OpenOK(G, opened)
  <2>1. \A j \in Slots \ {c} : \A s \in RunOf(files[j]) : view'[s] = view[s]
    BY <1>14
  <2>2. Changed(files, G, c) /\ c \in Slots
    BY <1>1, <1>12
  <2>3. /\ Whole(files, count, view) /\ OpenOK(files, opened)
        /\ opened \in SUBSET [slot : Slots, path : Paths]
    BY <1>3, <1>4
  <2> QED
    BY <2>1, <2>2, <2>3, <1>13, MoveEntry
<1>16. \A j \in Slots \ {c} : RunOf(files[c]) \cap RunOf(G[j]) = {}
  <2> SUFFICES ASSUME NEW j \in Slots \ {c} PROVE RunOf(files[c]) \cap RunOf(files[j]) = {}
    BY <1>8
  <2>1. CASE files[j].type = "FREE"
    BY <2>1 DEF RunOf
  <2>2. CASE files[j].type # "FREE"
    BY <2>2, <1>1, <1>3 DEF Whole, Separate
  <2> QED
    BY <2>1, <2>2
<1>17. ASSUME NEW i \in Slots PROVE RunOf(G[i]) \subseteq U
  <2>1. CASE i = c
    BY <2>1, <1>1, <1>3, <1>7, <1>10 DEF U, c
  <2>2. CASE i # c
    BY <2>2, <1>3, <1>8, <1>16 DEF U, c
  <2> QED
    BY <2>1, <2>2
<1>18. DataOK(G, U, o, view', writes)
  BY <1>5, OpKinds DEF DataOK
<1>19. Ordered => Lags(TableIn(disk').files, disk'[0], G, count, o, disk')
  <2> SUFFICES ASSUME Ordered PROVE Lags(TableIn(disk').files, disk'[0], G, count, o, disk')
    OBVIOUS
  <2> DEFINE D == TableIn(disk).files
  <2>1. disk'[0] = disk[0] /\ TableIn(disk').files = D
    BY DEF DataSector
  <2>2. view' = disk'
    BY <1>4 DEF Ordered, DataSector
  <2> HIDE DEF D
  <2>3. Settled(D, disk[0], files, count)
    BY <1>3, OpKinds, SettledIs DEF D
  <2>4. D[c] = files[c] => Turning(G, c, D[c], disk')
    <3>1. OneWrite(files[c], view)
      BY <1>1, <1>3 DEF Whole
    <3>2. OneWrite(files[c], disk')
      BY <3>1, <2>2, <1>1, <1>14, SameWrite
    <3> QED
      BY <3>2, <1>3, <1>9, <1>16 DEF Turning
  <2>5. Behind(D[c], files[c]) => Turning(G, c, D[c], disk')
    <3>1. \A j \in Slots : G[j].type # "FREE" /\ c # FS_DIR_ROOT => G[j].parent # c
      BY <1>9, <1>15 DEF Whole, Held
    <3> QED
      BY <3>1, <1>9 DEF Turning, Behind
  <2>6. D[c] = files[c] \/ Behind(D[c], files[c])
    BY <2>3, <1>1 DEF Settled
  <2>7. disk[0] <= count
    BY <2>3 DEF Settled
  <2> QED
    BY <2>1, <2>3, <2>4, <2>5, <2>6, <2>7, <1>1, <1>4, <1>5, <1>12, LagsStart
<1>20. U \subseteq used
  BY DEF U
<1>21. DataStep(G, U, o)
  BY <1>5, <1>12, <1>15, <1>17, <1>18, <1>19, <1>20 DEF DataStep
<1> QED
  BY <1>21 DEF G, U, o

LEMMA WriteDataStep ==
    ASSUME IInv, ~torn, WriteData
    PROVE  IInv'
<1>1. Types /\ Sound /\ torn = FALSE
  BY DEF IInv, Types
<1>2. op \in DataOp
  <2>1. op.phase = "data" /\ op \in {Idle} \cup DataOp \cup SuperOp
    BY <1>1 DEF WriteData, Types
  <2> QED
    BY <2>1, OpKinds
<1>3. DataSector(op.start + op.at)
  BY <1>1, <1>2, WriteDataSector DEF WriteData
<1>4. UNCHANGED <<boot, opened, counts, acked, torn>>
  BY DEF WriteData
<1>5. DataStep(files', used', op') /\ count' = count
  <2>1. CASE op.at + 1 < Needed(op.size)
    <3>1. files' = files /\ used' = used /\ count' = count /\ op' = [op EXCEPT !.at = @ + 1]
      BY <2>1 DEF WriteData, super
    <3> QED
      BY <3>1, <2>1, <1>1, <1>2, <1>3, DataMore
  <2>2. CASE ~(op.at + 1 < Needed(op.size))
    <3>1. /\ files' = [files EXCEPT ![op.slot].start = op.start, ![op.slot].size = op.size]
          /\ used' = used \ RunOf(files[op.slot]) /\ op' = Superblock(op.path, op.content)
          /\ count' = count
      BY <2>2 DEF WriteData
    <3> QED
      BY <3>1, <2>2, <1>1, <1>2, <1>3, DataLast
  <2> QED
    BY <2>1, <2>2
<1>6. /\ boot' = boot /\ torn' = torn /\ writes' = writes /\ fails' = fails /\ opened' = opened
      /\ Ordered' = Ordered
  BY <1>4 DEF counts, Ordered
<1>7. Types'
  <2>1. files' \in [Slots -> Entry] /\ used' \subseteq DataSectors
        /\ op' \in {Idle} \cup DataOp \cup SuperOp
    BY <1>1, <1>5 DEF DataStep, Types
  <2>2. Image(view') /\ Image(disk') /\ (boot = FALSE => view' = disk')
    BY <1>3 DEF DataSector, DataWritten
  <2> QED
    BY <2>1, <2>2, <1>1, <1>5, <1>6 DEF Types
<1>8. Sound'
  BY <1>5, <1>6 DEF Sound, DataStep
<1> QED
  BY <1>7, <1>8 DEF IInv

LEMMA WriteDataFailsStep ==
    ASSUME IInv, ~torn, WriteDataFails
    PROVE  IInv'
<1>1. Types /\ Sound /\ torn = FALSE
  BY DEF IInv, Types
<1>2. op \in DataOp
  <2>1. op.phase = "data" /\ op \in {Idle} \cup DataOp \cup SuperOp
    BY <1>1 DEF WriteDataFails, Types
  <2> QED
    BY <2>1, OpKinds
<1>3. /\ fails' = fails + 1 /\ op' = Idle /\ used' = used \ Run(op.start, Needed(op.size))
      /\ boot' = boot /\ files' = files /\ count' = count /\ view' = view /\ disk' = disk
      /\ opened' = opened /\ writes' = writes /\ torn' = torn
  BY DEF WriteDataFails, store
<1>4. fails' \in Nat /\ fails' # 0
  BY <1>1, <1>3 DEF Types
<1>5. Types'
  BY <1>1, <1>3, <1>4 DEF Types
<1>6. \A i \in Slots : RunOf(files[i]) \subseteq used'
  BY <1>1, <1>2, <1>3 DEF Sound, DataOK
<1>7. DataOK(files, used', op', view, writes)
  BY <1>3, OpKinds DEF DataOK
<1>8. ~Ordered'
  BY <1>4 DEF Ordered
<1>9. Sound'
  BY <1>1, <1>3, <1>6, <1>7, <1>8 DEF Sound
<1> QED
  BY <1>5, <1>9 DEF IInv

LEMMA WriteSuperFailsStep ==
    ASSUME IInv, ~torn, WriteSuperFails
    PROVE  IInv'
<1>1. Types /\ Sound /\ torn = FALSE
  BY DEF IInv, Types
<1>2. /\ fails' = fails + 1 /\ op' = Idle /\ used' = used
      /\ boot' = boot /\ files' = files /\ count' = count /\ view' = view /\ disk' = disk
      /\ opened' = opened /\ writes' = writes /\ torn' = torn
  BY DEF WriteSuperFails, store, super
<1>3. fails' \in Nat /\ fails' # 0
  BY <1>1, <1>2 DEF Types
<1>4. Types'
  BY <1>1, <1>2, <1>3 DEF Types
<1>5. DataOK(files, used, op', view, writes)
  BY <1>2, OpKinds DEF DataOK
<1>6. ~Ordered'
  BY <1>3 DEF Ordered
<1>7. Sound'
  BY <1>1, <1>2, <1>5, <1>6 DEF Sound
<1> QED
  BY <1>4, <1>7 DEF IInv

\* A sector of the superblock on the disk that is written in order.
LEMMA SuperLags ==
    ASSUME Types, op \in SuperOp, Whole(files, count, disk), Image(disk),
           Lags(TableIn(disk).files, disk[0], files, count, op, disk),
           SuperWritten(disk, op.at, disk'),
           NEW o, \/ o \in SuperOp /\ o.at = op.at + 1
                  \/ o \notin SuperOp /\ op.at = TableSectors
    PROVE  Lags(TableIn(disk').files, disk'[0], files, count, o, disk')
<1> DEFINE D == TableIn(disk).files
           G == TableIn(disk').files
           s == op.at
<1>1. /\ s \in Nat /\ s <= TableSectors /\ TableSectors \in Nat /\ count \in Nat
      /\ disk[0] \in Nat
  BY Layout DEF SuperOp, Types, Image
<1>2. \A i \in Slots : G[i] = IF SectorOf(i) = s THEN files[i] ELSE D[i]
  BY DEF SuperWritten
<1>3. \A i \in Slots : RunOf(D[i]) \subseteq DataSectors
  BY TableInIs, EntryIs
<1>4. \A x \in DataSectors : disk'[x] = disk[x]
  BY DEF SuperWritten
<1>5. /\ disk[0] <= count /\ \A i \in Slots : D[i].type # "FREE" => i < disk[0]
      /\ s > 0 => disk[0] = count
      /\ \A i \in Slots : SectorOf(i) < s => D[i] = files[i]
  BY DEF Lags, SectorOf
<1>6. PICK c \in Slots :
          /\ \A i \in Slots \ {c} : D[i] = files[i] \/ Behind(D[i], files[i])
          /\ D[c] = files[c] \/ Behind(D[c], files[c]) \/ Turning(files, c, D[c], disk)
  BY DEF Lags
<1>7. disk'[0] = count
  BY <1>1, <1>5 DEF SuperWritten
<1> HIDE DEF D, G
<1>8. \A i \in Slots : G[i].type # "FREE" => i < count
  <2> SUFFICES ASSUME NEW i \in Slots, G[i].type # "FREE" PROVE i < count
    OBVIOUS
  <2>1. i \in Nat
    BY Layout
  <2>2. CASE G[i] = files[i]
    BY <2>2 DEF Whole
  <2>3. CASE G[i] = D[i]
    BY <2>1, <2>3, <1>1, <1>5
  <2> QED
    BY <2>2, <2>3, <1>2
<1>9. Turning(files, c, D[c], disk) => Turning(files, c, D[c], disk')
  <2>1. OneWrite(D[c], disk) => OneWrite(D[c], disk')
    BY <1>3, <1>4, SameWrite
  <2> QED
    BY <2>1 DEF Turning
<1>10. \A i \in Slots : SectorOf(i) <= s => G[i] = files[i]
  <2> SUFFICES ASSUME NEW i \in Slots, SectorOf(i) <= s PROVE G[i] = files[i]
    OBVIOUS
  <2>1. SectorOf(i) \in Nat
    BY SlotSector, Layout
  <2>2. SectorOf(i) = s \/ SectorOf(i) < s
    BY <2>1, <1>1
  <2> QED
    BY <2>2, <1>2, <1>5
<1>11. CASE o \in SuperOp /\ o.at = op.at + 1
  <2>1. \A i \in Slots : 1 + i \div PerSector < o.at => G[i] = files[i]
    <3> SUFFICES ASSUME NEW i \in Slots, SectorOf(i) < o.at PROVE G[i] = files[i]
      BY DEF SectorOf
    <3>1. SectorOf(i) \in Nat
      BY SlotSector, Layout
    <3>2. SectorOf(i) <= s
      BY <3>1, <1>1, <1>11
    <3> QED
      BY <3>2, <1>10
  <2>2. /\ \A i \in Slots \ {c} : G[i] = files[i] \/ Behind(G[i], files[i])
        /\ G[c] = files[c] \/ Behind(G[c], files[c]) \/ Turning(files, c, G[c], disk')
    BY <1>2, <1>6, <1>9
  <2>3. count <= count
    BY <1>1
  <2> QED
    BY <2>1, <2>2, <2>3, <1>7, <1>8, <1>11 DEF Lags, G
<1>12. CASE o \notin SuperOp /\ op.at = TableSectors
  <2>1. \A i \in Slots : G[i] = files[i]
    BY <1>10, <1>12, SlotSector
  <2>2. count <= count
    BY <1>1
  <2>3. Settled(G, disk'[0], files, count)
    BY <2>1, <2>2, <1>7, <1>8 DEF Settled
  <2> QED
    BY <2>3, <1>12, SettledIs DEF G
<1> QED
  BY <1>11, <1>12

LEMMA WriteSuperStep ==
    ASSUME IInv, ~torn, WriteSuper
    PROVE  IInv'
<1> DEFINE s == op.at
           v == SuperSector(s)
<1>1. Types /\ Sound /\ torn = FALSE
  BY DEF IInv, Types
<1>2. op \in SuperOp
  <2>1. op.phase = "super" /\ op \in {Idle} \cup DataOp \cup SuperOp
    BY <1>1 DEF WriteSuper, Types
  <2> QED
    BY <2>1, OpKinds
<1>3. /\ s \in 0 .. TableSectors /\ s \in Nat /\ TableSectors \in Nat
      /\ Image(view) /\ Image(disk) /\ boot \in BOOLEAN /\ files \in [Slots -> Entry]
      /\ (boot = FALSE => view = disk)
  BY <1>1, <1>2, Layout DEF SuperOp, Types
<1>4. /\ boot' = boot /\ files' = files /\ count' = count /\ used' = used /\ opened' = opened
      /\ writes' = writes /\ fails' = fails /\ torn' = torn
  BY DEF WriteSuper, super, counts
<1>5. view' = [view EXCEPT ![s] = v] /\ disk' = IF boot THEN disk ELSE [disk EXCEPT ![s] = v]
  BY DEF WriteSuper, WriteSector
<1>6. SuperWritten(view, s, view') /\ (boot = FALSE => SuperWritten(disk, s, disk') /\ view' = disk')
      /\ (boot = TRUE => disk' = disk)
  <2>1. SuperWritten(view, s, [view EXCEPT ![s] = v])
    BY <1>1, <1>3, WriteSuperImage
  <2>2. SuperWritten(disk, s, [disk EXCEPT ![s] = v])
    BY <1>1, <1>3, WriteSuperImage
  <2> QED
    BY <2>1, <2>2, <1>3, <1>5
<1>7. \/ op' \in SuperOp /\ op'.at = op.at + 1
      \/ op' = Idle /\ op.at = TableSectors
  <2>1. CASE op.at < TableSectors
    <3>1. op' = [op EXCEPT !.at = @ + 1]
      BY <2>1 DEF WriteSuper
    <3>2. op.at + 1 \in 0 .. TableSectors
      BY <2>1, <1>3
    <3> QED
      BY <3>1, <3>2, <1>2 DEF SuperOp
  <2>2. CASE ~(op.at < TableSectors)
    <3>1. op' = Idle
      BY <2>2 DEF WriteSuper
    <3> QED
      BY <3>1, <2>2, <1>3
  <2> QED
    BY <2>1, <2>2
<1>8. op' \in {Idle} \cup SuperOp /\ op' \notin DataOp
  BY <1>7, OpKinds
<1>9. Types'
  <2>1. Image(view') /\ Image(disk') /\ (boot = FALSE => view' = disk')
    BY <1>3, <1>6 DEF SuperWritten
  <2> QED
    BY <2>1, <1>1, <1>4, <1>8 DEF Types
<1>10. Whole(files, count, view')
  <2>1. \A j \in Slots : \A x \in RunOf(files[j]) : view'[x] = view[x]
    BY <1>3, <1>6, EntryIs DEF SuperWritten
  <2> QED
    BY <2>1, <1>1, SameRuns DEF Sound
<1>11. Ordered => Lags(TableIn(disk').files, disk'[0], files, count, op', disk')
  <2> SUFFICES ASSUME Ordered PROVE Lags(TableIn(disk').files, disk'[0], files, count, op', disk')
    OBVIOUS
  <2>1. boot = FALSE /\ view = disk
    BY <1>3 DEF Ordered
  <2>2. Whole(files, count, disk) /\ Lags(TableIn(disk).files, disk[0], files, count, op, disk)
    BY <2>1, <1>1 DEF Sound
  <2>3. SuperWritten(disk, op.at, disk')
    BY <2>1, <1>6
  <2>4. \/ op' \in SuperOp /\ op'.at = op.at + 1
        \/ op' \notin SuperOp /\ op.at = TableSectors
    BY <1>7, OpKinds
  <2> QED
    BY <2>2, <2>3, <2>4, <1>1, <1>2, <1>3, SuperLags
<1>12. Sound'
  <2>1. Ordered' = Ordered
    BY <1>4 DEF Ordered
  <2>2. DataOK(files, used, op', view', writes)
    BY <1>8 DEF DataOK
  <2> QED
    BY <2>1, <2>2, <1>1, <1>4, <1>10, <1>11 DEF Sound
<1> QED
  BY <1>9, <1>12 DEF IInv

LEMMA NoFileIs == NoFile \in Contents
BY DEF Contents

LEMMA MkdirStep ==
    ASSUME IInv, ~torn, NEW p \in Paths, Mkdir(p)
    PROVE  IInv'
<1> DEFINE a == p[Len(p)]
<1>1. Types /\ Sound /\ torn = FALSE
  BY DEF IInv, Types
<1>2. /\ Whole(files, count, view) /\ OpenOK(files, opened)
      /\ Ordered => Lags(TableIn(disk).files, disk[0], files, count, op, disk)
  BY <1>1 DEF Sound
<1>3. files \in [Slots -> Entry] /\ count \in 0 .. FS_MAX_FILES /\ count \in Nat /\ Image(disk)
  BY <1>1, Layout DEF Types
<1>4. PICK d \in DirOf(Table, p), i \in FreeSlot :
         /\ Find(Table, d, a) = {} /\ Becomes(With(i, NewEntry("DIR", d, a)))
  BY DEF Mkdir, NewEntry
<1>5. /\ op = Idle /\ op' = Superblock(p, NoFile)
      /\ boot' = boot /\ used' = used /\ view' = view /\ disk' = disk /\ opened' = opened
      /\ writes' = writes /\ fails' = fails /\ torn' = torn
  BY DEF Mkdir, store, counts
<1>6. \A j \in Slots : ~InDir(files, d, a, j)
  <2>1. \A j : j \in Find(Table, d, a) <=> j \in Slots /\ InDir(Table.files, d, a, j)
    BY <1>2, <1>3, TableIs, FindIs
  <2> QED
    BY <2>1, <1>4, TableIs
<1> DEFINE e == NewEntry("DIR", d, a)
           T == With(i, e)
<1>7. Added(T, i, e) /\ d \in Slots \cup {FS_DIR_ROOT} /\ (d # FS_DIR_ROOT => files[d].type = "DIR")
  BY <1>1, <1>6, AddStep
<1>8. files' = T.files /\ count' = T.count
  BY <1>4 DEF Becomes
<1>9. e.type = "DIR" /\ e.parent = d
  BY <1>7, LastName, NewEntryIs
<1> HIDE DEF T, e, a
<1>10. /\ i \in Slots /\ files[i].type = "FREE" /\ files' \in [Slots -> Entry]
       /\ count' \in 0 .. FS_MAX_FILES /\ count' >= count /\ count' \in Nat
       /\ Changed(files, files', i) /\ files'[i] = e
       /\ Whole(files', count', view) /\ OpenOK(files', opened)
       /\ \A j \in Slots : RunOf(files'[j]) \subseteq used
  BY <1>7, <1>8, Layout DEF Added
<1>11. op' \in SuperOp /\ op'.at = 0
  BY <1>5, NoFileIs, SuperblockIs
<1>12. Types'
  BY <1>1, <1>5, <1>10, <1>11 DEF Types
<1>13. Ordered => Lags(TableIn(disk).files, disk[0], files', count', op', disk)
  <2> SUFFICES ASSUME Ordered PROVE Lags(TableIn(disk).files, disk[0], files', count', op', disk)
    OBVIOUS
  <2> DEFINE D == TableIn(disk).files
  <2>1. Settled(D, disk[0], files, count)
    BY <1>2, <1>5, OpKinds, SettledIs
  <2> HIDE DEF D
  <2>2. disk[0] \in Nat
    BY <1>3, Layout DEF Image
  <2>3. disk[0] <= count'
    BY <2>1, <2>2, <1>3, <1>10 DEF Settled
  <2>4. D[i].type = "FREE"
    BY <2>1, <1>10 DEF Settled, Behind
  <2>5. \A j \in Slots : files'[j].type # "FREE" /\ i # FS_DIR_ROOT => files'[j].parent # i
    <3> SUFFICES ASSUME NEW j \in Slots, files'[j].type # "FREE", i # FS_DIR_ROOT,
                        files'[j].parent = i
                 PROVE  FALSE
      OBVIOUS
    <3>1. CASE j = i
      BY <3>1, <1>7, <1>9, <1>10
    <3>2. CASE j # i
      <4>1. files[j].type # "FREE" /\ files[j].parent = i
        BY <3>2, <1>10 DEF Changed
      <4> QED
        BY <4>1, <1>2, <1>10 DEF Whole, Held
    <3> QED
      BY <3>1, <3>2
  <2>6. Turning(files', i, D[i], disk)
    BY <2>4, <2>5, <1>9, <1>10 DEF Turning
  <2>7. Lags(D, disk[0], files', count', op', disk)
    BY <2>1, <2>3, <2>6, <1>3, <1>10, <1>11, LagsStart
  <2> QED
    BY <2>7 DEF D
<1>14. Sound'
  <2>1. Ordered' = Ordered
    BY <1>5 DEF Ordered
  <2>2. DataOK(files', used, op', view, writes)
    BY <1>11, OpKinds DEF DataOK
  <2> QED
    BY <2>1, <2>2, <1>5, <1>10, <1>13 DEF Sound
<1> QED
  BY <1>12, <1>14 DEF IInv

\* Memory without the entry i.
LEMMA RemoveStep ==
    ASSUME Types, Sound, NEW i \in Slots, files[i].type # "FREE", CanRemove(files, i, opened),
           Becomes(With(i, FreeEntry))
    PROVE  /\ files' \in [Slots -> Entry] /\ count' = count
           /\ Changed(files, files', i) /\ files'[i].type = "FREE"
           /\ Whole(files', count, view) /\ OpenOK(files', opened)
           /\ \A j \in Slots : RunOf(files'[j]) \subseteq used \ RunOf(files[i])
<1> DEFINE T == With(i, FreeEntry)
<1>1. FreeEntry \in Entry /\ FreeEntry.type = "FREE" /\ RunOf(FreeEntry) = {}
  BY FreeEntryIs
<1>2. /\ Whole(files, count, view) /\ OpenOK(files, opened)
      /\ \A j \in Slots : RunOf(files[j]) \subseteq used
      /\ opened \in SUBSET [slot : Slots, path : Paths]
  BY DEF Sound, Types
<1>3. i < count
  BY <1>2 DEF Whole
<1>4. /\ T.files \in [Slots -> Entry] /\ T.files[i] = FreeEntry
      /\ \A j \in Slots \ {i} : T.files[j] = files[j]
      /\ T.count = count
  BY <1>1, <1>3, WithIs
<1>5. files' = T.files /\ count' = T.count
  BY DEF Becomes
<1> HIDE DEF T
<1>6. Changed(files, files', i) /\ files'[i].type = "FREE"
  BY <1>1, <1>4, <1>5 DEF Changed
<1>7. Whole(files', count, view) /\ OpenOK(files', opened)
  BY <1>2, <1>6, RemoveEntry
<1>8. ASSUME NEW j \in Slots PROVE RunOf(files'[j]) \subseteq used \ RunOf(files[i])
  <2>1. CASE j = i
    BY <2>1, <1>1, <1>4, <1>5
  <2>2. CASE j # i
    <3>1. files'[j] = files[j]
      BY <2>2, <1>6 DEF Changed
    <3>2. CASE files[j].type = "FREE"
      BY <3>1, <3>2 DEF RunOf
    <3>3. CASE files[j].type # "FREE"
      <4>1. RunOf(files[j]) \cap RunOf(files[i]) = {}
        BY <2>2, <3>3, <1>2 DEF Whole, Separate
      <4> QED
        BY <3>1, <4>1, <1>2
    <3> QED
      BY <3>2, <3>3
  <2> QED
    BY <2>1, <2>2
<1> QED
  BY <1>4, <1>5, <1>6, <1>7, <1>8

\* The path of an entry that is removed leads to it.
LEMMA ResolvedSlot ==
    ASSUME Types, Sound, NEW p \in Paths, NEW i \in Resolved(Table, p)
    PROVE  i \in Slots /\ Leads(files, p, i)
<1>1. Whole(Table.files, Table.count, view) /\ Table.files \in [Slots -> Entry]
      /\ Table.count \in 0 .. FS_MAX_FILES
  BY TableIs DEF Sound, Types
<1>2. i \in Slots /\ Leads(Table.files, p, i)
  BY <1>1, ResolvedIs
<1> QED
  BY <1>2, TableIs

\* Files and directories are removed on the boot instance alone.
LEMMA RemovedInv ==
    ASSUME Types, Sound, torn = FALSE, boot,
           NEW p \in Paths, op' = Superblock(p, NoFile),
           UNCHANGED <<boot, store, opened, counts, acked, torn>>,
           files' \in [Slots -> Entry], count' = count, used' \subseteq used,
           Whole(files', count, view), OpenOK(files', opened),
           \A j \in Slots : RunOf(files'[j]) \subseteq used'
    PROVE  IInv'
<1>1. op' \in SuperOp
  BY NoFileIs, SuperblockIs
<1>2. /\ boot' = boot /\ view' = view /\ disk' = disk /\ opened' = opened
      /\ writes' = writes /\ fails' = fails /\ torn' = torn
  BY DEF store, counts
<1>3. Types'
  BY <1>1, <1>2 DEF Types
<1>4. DataOK(files', used', op', view, writes)
  BY <1>1, OpKinds DEF DataOK
<1>5. ~Ordered'
  BY <1>2 DEF Ordered
<1>6. Sound'
  BY <1>2, <1>4, <1>5 DEF Sound
<1> QED
  BY <1>3, <1>6 DEF IInv

LEMMA UnlinkStep ==
    ASSUME IInv, ~torn, NEW p \in Paths, Unlink(p)
    PROVE  IInv'
<1>1. Types /\ Sound /\ torn = FALSE
  BY DEF IInv, Types
<1>2. PICK i \in Resolved(Table, p) :
         /\ files[i].type = "FILE" /\ ~Busy(i) /\ used' = used \ RunOf(files[i])
         /\ Becomes(With(i, FreeEntry))
  BY DEF Unlink
<1>3. /\ boot /\ op' = Superblock(p, NoFile)
      /\ UNCHANGED <<boot, store, opened, counts, acked, torn>>
  BY DEF Unlink
<1>4. i \in Slots
  BY <1>1, ResolvedSlot
<1>5. CanRemove(files, i, opened)
  BY <1>2 DEF CanRemove, Busy
<1>6. /\ files' \in [Slots -> Entry] /\ count' = count
      /\ Whole(files', count, view) /\ OpenOK(files', opened)
      /\ \A j \in Slots : RunOf(files'[j]) \subseteq used'
  BY <1>1, <1>2, <1>4, <1>5, RemoveStep
<1>7. used' \subseteq used
  BY <1>2
<1> QED
  BY <1>1, <1>3, <1>6, <1>7, RemovedInv

LEMMA RmdirStep ==
    ASSUME IInv, ~torn, NEW p \in Paths, Rmdir(p)
    PROVE  IInv'
<1>1. Types /\ Sound /\ torn = FALSE
  BY DEF IInv, Types
<1>2. PICK i \in Resolved(Table, p) :
         /\ files[i].type = "DIR"
         /\ \A j \in 0 .. (count - 1) : j # i /\ files[j].type # "FREE" => files[j].parent # i
         /\ Becomes(With(i, FreeEntry))
  BY DEF Rmdir
<1>3. /\ boot /\ op' = Superblock(p, NoFile) /\ used' = used
      /\ UNCHANGED <<boot, store, opened, counts, acked, torn>>
  BY DEF Rmdir
<1>4. i \in Slots
  BY <1>1, ResolvedSlot
<1>5. CanRemove(files, i, opened)
  <2>1. ASSUME NEW j \in Slots, j # i, files[j].type # "FREE" PROVE files[j].parent # i
    <3>1. j \in Nat /\ j < count /\ count \in Nat
      BY <2>1, <1>1, Layout DEF Sound, Whole, Types
    <3>2. j \in 0 .. (count - 1)
      BY <3>1
    <3> QED
      BY <3>2, <2>1, <1>2
  <2>2. \A f \in opened : f.slot # i
    BY <1>1, <1>2 DEF Sound, OpenOK
  <2> QED
    BY <2>1, <2>2 DEF CanRemove
<1>6. /\ files' \in [Slots -> Entry] /\ count' = count
      /\ Whole(files', count, view) /\ OpenOK(files', opened)
      /\ \A j \in Slots : RunOf(files'[j]) \subseteq used \ RunOf(files[i])
  BY <1>1, <1>2, <1>4, <1>5, RemoveStep
<1>7. used' \subseteq used /\ \A j \in Slots : RunOf(files'[j]) \subseteq used'
  BY <1>3, <1>6
<1> QED
  BY <1>1, <1>3, <1>6, <1>7, RemovedInv

LEMMA OpenStep ==
    ASSUME IInv, ~torn, NEW p \in Paths, Open(p)
    PROVE  IInv'
<1>1. Types /\ Sound /\ torn = FALSE
  BY DEF IInv, Types
<1>2. PICK i \in Resolved(Table, p) :
         files[i].type = "FILE" /\ opened' = opened \cup {[slot |-> i, path |-> p]}
  BY DEF Open
<1>3. UNCHANGED <<boot, super, op, store, counts, acked, torn>>
  BY DEF Open
<1>4. i \in Slots /\ Leads(files, p, i)
  BY <1>1, ResolvedSlot
<1>5. OpenOK(files, opened')
  BY <1>1, <1>2, <1>4 DEF Sound, OpenOK
<1>6. opened' \subseteq [slot : Slots, path : Paths]
  BY <1>1, <1>2, <1>4 DEF Types
<1>7. /\ boot' = boot /\ files' = files /\ count' = count /\ used' = used /\ op' = op
      /\ view' = view /\ disk' = disk /\ writes' = writes /\ fails' = fails /\ torn' = torn
      /\ Ordered' = Ordered
  BY <1>3 DEF super, store, counts, Ordered
<1>8. Types'
  BY <1>1, <1>6, <1>7 DEF Types
<1>9. Sound'
  BY <1>1, <1>5, <1>7 DEF Sound
<1> QED
  BY <1>8, <1>9 DEF IInv

LEMMA CloseStep ==
    ASSUME IInv, ~torn, NEW f \in opened, Close(f)
    PROVE  IInv'
<1>1. Types /\ Sound /\ torn = FALSE
  BY DEF IInv, Types
<1>2. opened' \subseteq opened
  BY DEF Close
<1>3. /\ boot' = boot /\ files' = files /\ count' = count /\ used' = used /\ op' = op
      /\ view' = view /\ disk' = disk /\ writes' = writes /\ fails' = fails /\ torn' = torn
      /\ Ordered' = Ordered
  BY DEF Close, super, store, counts, Ordered
<1>4. Types'
  BY <1>1, <1>2, <1>3 DEF Types
<1>5. Sound'
  BY <1>1, <1>2, <1>3 DEF Sound, OpenOK
<1> QED
  BY <1>4, <1>5 DEF IInv

\* Only the boot instance has anything to write back.
LEMMA FlushStep ==
    ASSUME IInv, ~torn, NEW S \in Batches, Flush(S)
    PROVE  IInv'
<1>1. Types /\ Sound /\ torn = FALSE
  BY DEF IInv, Types
<1>2. boot = TRUE
  BY <1>1 DEF Types, Flush
<1>3. /\ boot' = boot /\ files' = files /\ count' = count /\ used' = used /\ op' = op
      /\ view' = view /\ opened' = opened /\ writes' = writes /\ fails' = fails /\ torn' = torn
  BY DEF Flush, super, counts
<1>4. Image(disk')
  <2>1. disk' = [s \in Sectors |-> IF s \in S THEN view[s] ELSE disk[s]]
    BY DEF Flush
  <2>2. view \in [Sectors -> SectorValues] /\ disk \in [Sectors -> SectorValues]
    BY <1>1 DEF Types, Image
  <2>3. disk' \in [Sectors -> SectorValues]
    BY <2>1, <2>2
  <2>4. \A s \in Sectors : disk'[s] = view[s] \/ disk'[s] = disk[s]
    BY <2>1
  <2>5. 0 \in Sectors /\ \A t \in 1 .. TableSectors : t \in Sectors
    <3>1. 0 \in 0 .. TableSectors /\ 1 .. TableSectors \subseteq 0 .. TableSectors
      BY Layout
    <3> QED
      BY <3>1, Layout
  <2>6. Image(view) /\ Image(disk)
    BY <1>1 DEF Types
  <2> QED
    BY <2>3, <2>4, <2>5, <2>6 DEF Image
<1>5. Types'
  BY <1>1, <1>2, <1>3, <1>4 DEF Types
<1>6. Sound'
  BY <1>1, <1>2, <1>3 DEF Sound, Ordered
<1> QED
  BY <1>5, <1>6 DEF IInv

\* What load_superblock finds on a disk that is not torn is a sound tree.
LEMMA LoadedWhole ==
    ASSUME Types, Sound, Ordered \/ Synced
    PROVE  Whole(TableIn(disk).files, disk[0], disk)
<1>1. CASE Ordered
  <2>1. view = disk
    BY <1>1 DEF Types, Ordered
  <2>2. Whole(files, count, disk) /\ Lags(TableIn(disk).files, disk[0], files, count, op, disk)
    BY <2>1, <1>1 DEF Sound
  <2> QED
    BY <2>2, LagsWhole
<1>2. CASE Synced
  <2>1. view = disk /\ TableIn(disk).files = files
    BY <1>2, TableIs DEF Synced
  <2>2. disk[0] = count
    BY <1>2, TableIs, TableInIs DEF Synced, Types
  <2> QED
    BY <2>1, <2>2 DEF Sound
<1> QED
  BY <1>1, <1>2

LEMMA CrashStep ==
    ASSUME IInv, ~torn, Crash
    PROVE  IInv'
<1> DEFINE T == TableIn(disk)
           D == T.files
<1>1. Types /\ Sound /\ torn = FALSE
  BY DEF IInv, Types
<1>2. /\ files' = D /\ count' = T.count /\ used' = UsedBy(T) /\ op' = Idle /\ view' = disk
      /\ opened' = {} /\ boot' = boot /\ disk' = disk /\ writes' = writes /\ fails' = fails
      /\ torn' = (torn \/ ~(Ordered \/ Synced))
  BY DEF Crash, Becomes, counts
<1>3. Image(disk)
  BY <1>1 DEF Types
<1>4. D \in [Slots -> Entry] /\ T.count = disk[0] /\ disk[0] \in 0 .. FS_MAX_FILES
      /\ disk[0] \in Nat
  BY <1>3, TableInIs, Layout DEF Image
<1>5. used' \subseteq DataSectors
  BY <1>2 DEF UsedBy
<1>6. torn' \in BOOLEAN
  BY <1>2
<1> HIDE DEF D
<1>7. Types'
  BY <1>1, <1>2, <1>3, <1>4, <1>5, <1>6 DEF Types
<1>8. ASSUME torn' = FALSE PROVE Sound'
  <2>1. Ordered \/ Synced
    BY <1>8, <1>2
  <2>2. Whole(D, disk[0], disk)
    BY <2>1, <1>1, LoadedWhole DEF D
  <2>3. ASSUME NEW i \in Slots PROVE RunOf(D[i]) \subseteq used'
    <3>1. CASE D[i].type = "FREE"
      BY <3>1 DEF RunOf
    <3>2. CASE D[i].type # "FREE"
      <4>1. i < disk[0] /\ i \in Nat
        BY <3>2, <2>2, Layout DEF Whole
      <4>2. i \in 0 .. (T.count - 1)
        BY <4>1, <1>4
      <4>3. RunOf(D[i]) \subseteq DataSectors
        BY <1>4, EntryIs
      <4> QED
        BY <4>2, <4>3, <1>2 DEF UsedBy, D
    <3> QED
      BY <3>1, <3>2
  <2>4. OpenOK(D, {}) /\ DataOK(D, used', Idle, disk, writes)
    BY OpKinds DEF OpenOK, DataOK
  <2>5. Settled(D, disk[0], D, disk[0])
    BY <2>2, <1>4 DEF Settled, Whole
  <2>6. Lags(D, disk[0], D, disk[0], Idle, disk)
    BY <2>5, OpKinds, SettledIs
  <2>7. TableIn(disk').files = D
    BY <1>2 DEF D
  <2> QED
    BY <2>2, <2>3, <2>4, <2>6, <2>7, <1>2, <1>4 DEF Sound
<1> QED
  BY <1>7, <1>8 DEF IInv

LEMMA StepInv ==
    ASSUME IInv, [Next]_vars
    PROVE  IInv'
<1>1. CASE Next
  <2>0. ~torn
    BY <1>1 DEF Next
  <2>1. ASSUME NEW p \in Paths, NEW n \in Sizes, WriteAll(p, n) PROVE IInv'
    BY <2>0, <2>1, WriteAllStep
  <2>2. ASSUME NEW p \in Paths, Mkdir(p) PROVE IInv'
    BY <2>0, <2>2, MkdirStep
  <2>3. ASSUME NEW p \in Paths, Unlink(p) PROVE IInv'
    BY <2>0, <2>3, UnlinkStep
  <2>4. ASSUME NEW p \in Paths, Rmdir(p) PROVE IInv'
    BY <2>0, <2>4, RmdirStep
  <2>5. ASSUME NEW p \in Paths, Open(p) PROVE IInv'
    BY <2>0, <2>5, OpenStep
  <2>6. CASE WriteData
    BY <2>0, <2>6, WriteDataStep
  <2>7. CASE WriteDataFails
    BY <2>0, <2>7, WriteDataFailsStep
  <2>8. CASE WriteSuper
    BY <2>0, <2>8, WriteSuperStep
  <2>9. CASE WriteSuperFails
    BY <2>0, <2>9, WriteSuperFailsStep
  <2>10. ASSUME NEW f \in opened, Close(f) PROVE IInv'
    BY <2>0, <2>10, CloseStep
  <2>11. ASSUME NEW S \in Batches, Flush(S) PROVE IInv'
    BY <2>0, <2>11, FlushStep
  <2>12. CASE Crash
    BY <2>0, <2>12, CrashStep
  <2> QED
    BY <1>1, <2>1, <2>2, <2>3, <2>4, <2>5, <2>6, <2>7, <2>8, <2>9, <2>10, <2>11, <2>12 DEF Next
<1>2. CASE UNCHANGED vars
  <2>1. /\ boot' = boot /\ files' = files /\ count' = count /\ used' = used /\ op' = op
        /\ view' = view /\ disk' = disk /\ opened' = opened /\ writes' = writes
        /\ fails' = fails /\ torn' = torn
    BY <1>2 DEF vars, super, store, counts
  <2>2. Types' = Types
    BY <2>1 DEF Types
  <2>3. Sound' = Sound
    BY <2>1 DEF Sound, Ordered
  <2> QED
    BY <2>1, <2>2, <2>3 DEF IInv
<1> QED
  BY <1>1, <1>2

-----------------------------------------------------------------------------
(* What always holds of the file system                                    *)

\* The inductive invariant: the tree in memory is sound, the write under way has
\* its run for itself, and the table on a disk that is written in order lags the
\* one in memory by empty new files and at most one other entry.
THEOREM Invariance == Spec => []IInv
<1>1. Init => IInv
  BY InitInv
<1>2. IInv /\ [Next]_vars => IInv'
  BY StepInv
<1> QED
  BY <1>1, <1>2, PTL DEF Spec

LEMMA TypesOK == ASSUME Types PROVE TypeOK
<1>1. DOMAIN files = Slots /\ count \in 0 .. FS_MAX_FILES /\ used \subseteq DataSectors
  BY DEF Types
<1>2. DOMAIN view = Sectors /\ DOMAIN disk = Sectors
  BY DEF Types, Image
<1>3. ASSUME NEW i \in Slots
      PROVE  /\ files[i].type \in {"FREE", "FILE", "DIR"}
             /\ files[i].parent \in Slots \cup {FS_DIR_ROOT}
             /\ files[i].size > 0 => files[i].type = "FILE" /\ files[i].start \in DataSectors
  BY EntryIs DEF Types
<1>4. op.phase \in {"idle", "data", "super"}
  BY OpKinds DEF Types
<1> QED
  BY <1>1, <1>2, <1>3, <1>4 DEF TypeOK

\* Types of inst->super, of the bitmap, of the sectors and of the operation under
\* way: file_count never passes FS_MAX_FILES, and the run of a file starts among
\* the data sectors.
THEOREM TypeCorrect == Spec => []TypeOK
<1>1. IInv => TypeOK
  BY TypesOK DEF IInv
<1> QED
  BY <1>1, Invariance, PTL

LEMMA SoundTree == ASSUME Types, Sound PROVE TreeSound
<1>1. /\ Whole(files, count, view) /\ OpenOK(files, opened)
      /\ \A i \in Slots : RunOf(files[i]) \subseteq used
  BY DEF Sound
<1>2. /\ files \in [Slots -> Entry] /\ count \in 0 .. FS_MAX_FILES /\ count \in Nat
      /\ opened \subseteq [slot : Slots, path : Paths]
  BY Layout DEF Types
<1>3. \A i : i \in Live <=> i \in Slots /\ files[i].type # "FREE"
  <2>1. \A i \in 0 .. (count - 1) : i \in Slots
    BY <1>2, Layout DEF Slots
  <2>2. ASSUME NEW i \in Slots, files[i].type # "FREE" PROVE i \in 0 .. (count - 1)
    <3>1. i < count /\ i \in Nat
      BY <2>2, <1>1, Layout DEF Whole
    <3> QED
      BY <3>1, <1>2
  <2> QED
    BY <2>1, <2>2 DEF Live
<1>4. ASSUME NEW i \in Slots, i >= count PROVE files[i].type = "FREE"
  <2>1. ~(i < count)
    BY <1>2, <1>4, Layout
  <2> QED
    BY <2>1, <1>1 DEF Whole
<1>5. ASSUME NEW i \in Live, NEW j \in Live, i # j
      PROVE  /\ RunOf(files[i]) \cap RunOf(files[j]) = {}
             /\ <<files[i].parent, files[i].name>> # <<files[j].parent, files[j].name>>
  <2>1. Separate(files[i], files[j])
    BY <1>1, <1>3, <1>5 DEF Whole
  <2> QED
    BY <2>1 DEF Separate
<1>6. ASSUME NEW i \in Live
      PROVE  /\ RunOf(files[i]) \subseteq used
             /\ files[i].parent # FS_DIR_ROOT =>
                   files[i].parent \in Live /\ files[files[i].parent].type = "DIR"
             /\ \A s, t \in RunOf(files[i]) : view[s][1] = view[t][1]
                                              /\ view[s][2] = s - files[i].start + 1
  <2>1. i \in Slots /\ Held(files, files[i]) /\ OneWrite(files[i], view)
    BY <1>1, <1>3 DEF Whole
  <2>2. files[i].parent # FS_DIR_ROOT =>
           files[i].parent \in Live /\ files[files[i].parent].type = "DIR"
    BY <2>1, <1>3 DEF Held
  <2> QED
    BY <2>1, <2>2, <1>1 DEF OneWrite
<1>7. ASSUME NEW f \in opened PROVE f.slot \in Resolved(Table, f.path) /\ files[f.slot].type = "FILE"
  <2>1. f.slot \in Slots /\ f.path \in Paths /\ files[f.slot].type = "FILE"
        /\ Leads(Table.files, f.path, f.slot)
    BY <1>1, <1>2, TableIs DEF OpenOK
  <2>2. Whole(Table.files, Table.count, view) /\ Table.files \in [Slots -> Entry]
        /\ Table.count \in 0 .. FS_MAX_FILES
    BY <1>1, <1>2, TableIs
  <2> QED
    BY <2>1, <2>2, ResolvedIs
<1> QED
  BY <1>4, <1>5, <1>6, <1>7 DEF TreeSound

\* The tree in memory stays sound through every order of writes, failures, removals,
\* opens, write-backs and crashes: no two files share a sector, no sector of a file
\* is given out again, every entry lies in a live directory under a name of its own,
\* every file reads as one whole write, and an open descriptor names its file.
THEOREM TreeStaysSound == Spec => []TreeSound
<1>1. IInv => TreeSound
  <2>1. CASE torn = FALSE
    BY <2>1, SoundTree DEF IInv
  <2>2. CASE torn # FALSE
    BY <2>2 DEF IInv, Types, TreeSound
  <2> QED
    BY <2>1, <2>2
<1> QED
  BY <1>1, Invariance, PTL

-----------------------------------------------------------------------------
(* What a path reads as                                                    *)

FileAt(F, p, i) == F[i].type = "FILE" /\ Leads(F, p, i)
DataOf(e, I) == [k \in 1 .. e.size |-> I[e.start + k - 1]]
\* Path p reads as x in table F over image I.
Reads(F, I, p, x) ==
    \/ x = NoFile /\ \A i \in Slots : ~FileAt(F, p, i)
    \/ \E i \in Slots : FileAt(F, p, i) /\ x = DataOf(F[i], I)

LEMMA OnePath ==
    ASSUME NEW F, Reserved(F), NEW p \in Paths, NEW q \in Paths, NEW i \in Slots,
           Leads(F, p, i), Leads(F, q, i)
    PROVE  p = q
<1>1. p \in Seq(STRING) /\ q \in Seq(STRING)
  BY FsAssumption
<1>2. CASE Len(p) = 1 /\ Len(q) = 1
  <2>1. p[1] = q[1]
    BY <1>2 DEF Leads, InDir
  <2> QED
    BY <2>1, <1>1, <1>2
<1>3. CASE Len(p) = 2 /\ Len(q) = 2
  <2>1. p[1] = q[1] /\ p[2] = q[2]
    BY <1>3 DEF Leads, InDir
  <2> QED
    BY <2>1, <1>1, <1>3
<1>4. CASE Len(p) = 1 /\ Len(q) = 2
  BY <1>4 DEF Leads, InDir, Reserved
<1>5. CASE Len(p) = 2 /\ Len(q) = 1
  BY <1>5 DEF Leads, InDir, Reserved
<1> QED
  BY <1>2, <1>3, <1>4, <1>5 DEF Leads

LEMMA OneEntry ==
    ASSUME NEW F, NEW n, NEW I, Whole(F, n, I), NEW p, NEW i \in Slots, NEW j \in Slots,
           Leads(F, p, i), Leads(F, p, j)
    PROVE  i = j
<1>1. \A d, a : \A x, y \in Slots : InDir(F, d, a, x) /\ InDir(F, d, a, y) => x = y
  BY DEF Whole, Separate, InDir
<1>2. CASE Len(p) = 1
  BY <1>1, <1>2 DEF Leads
<1>3. CASE Len(p) = 2
  <2>1. PICK d \in Slots : InDir(F, FS_DIR_ROOT, p[1], d) /\ InDir(F, d, p[2], i)
    BY <1>3 DEF Leads
  <2>2. PICK e \in Slots : InDir(F, FS_DIR_ROOT, p[1], e) /\ InDir(F, e, p[2], j)
    BY <1>3 DEF Leads
  <2>3. d = e
    BY <2>1, <2>2, <1>1
  <2> QED
    BY <2>1, <2>2, <2>3, <1>1
<1> QED
  BY <1>2, <1>3 DEF Leads

LEMMA DataSame ==
    ASSUME NEW e \in Entry, e.type = "FILE", NEW I, NEW J, \A s \in RunOf(e) : J[s] = I[s]
    PROVE  DataOf(e, J) = DataOf(e, I)
<1>1. e.size \in Nat /\ e.start \in Nat
  BY EntryIs
<1>2. \A k \in 1 .. e.size : e.start + k - 1 \in RunOf(e)
  BY <1>1 DEF RunOf, Run
<1> QED
  BY <1>2 DEF DataOf

LEMMA OneReading ==
    ASSUME NEW F, NEW n, NEW I, Whole(F, n, I), NEW p, NEW x, NEW y,
           Reads(F, I, p, x), Reads(F, I, p, y)
    PROVE  x = y
<1>1. \A i, j \in Slots : FileAt(F, p, i) /\ FileAt(F, p, j) => i = j
  BY OneEntry DEF FileAt
<1> QED
  BY <1>1 DEF Reads

\* Reading a path in an image is reading it in its table.
LEMMA ContentIs ==
    ASSUME NEW I, Image(I), Whole(TableIn(I).files, I[0], I), NEW p \in Paths
    PROVE  Reads(TableIn(I).files, I, p, ContentIn(I, p))
<1> DEFINE T == TableIn(I)
           at == {i \in Resolved(T, p) : T.files[i].type = "FILE"}
           Sector(e, k) == IF e.start + k - 1 \in DataSectors THEN I[e.start + k - 1] ELSE <<0, 0>>
<1>1. T.files \in [Slots -> Entry] /\ T.count = I[0] /\ I[0] \in 0 .. FS_MAX_FILES
  BY TableInIs DEF Image
<1>2. \A i : i \in Resolved(T, p) <=> i \in Slots /\ Leads(T.files, p, i)
  BY <1>1, ResolvedIs
<1>3. \A i : i \in at <=> i \in Slots /\ FileAt(T.files, p, i)
  BY <1>2 DEF FileAt
<1>4. ContentIn(I, p) = IF at = {} THEN NoFile
                        ELSE LET e == T.files[CHOOSE i \in at : TRUE]
                             IN  [k \in 1 .. e.size |-> Sector(e, k)]
  BY DEF ContentIn
<1>5. CASE at = {}
  BY <1>3, <1>4, <1>5 DEF Reads
<1>6. CASE at # {}
  <2> DEFINE i == CHOOSE i \in at : TRUE
             e == T.files[i]
  <2>1. i \in at
    BY <1>6
  <2>2. i \in Slots /\ FileAt(T.files, p, i)
    BY <2>1, <1>3
  <2>3. ContentIn(I, p) = [k \in 1 .. e.size |-> Sector(e, k)]
    BY <1>4, <1>6
  <2> HIDE DEF i
  <2>4. e \in Entry /\ e.type = "FILE"
    BY <2>2, <1>1 DEF FileAt
  <2>5. e.size \in Nat /\ e.start \in Nat /\ RunOf(e) \subseteq DataSectors
    BY <2>4, EntryIs
  <2>6. ASSUME NEW k \in 1 .. e.size PROVE e.start + k - 1 \in DataSectors
    <3>1. e.start + k - 1 \in Run(e.start, e.size)
      BY <2>5 DEF Run
    <3> QED
      BY <3>1, <2>4, <2>5 DEF RunOf
  <2>7. ContentIn(I, p) = DataOf(e, I)
    BY <2>3, <2>6 DEF DataOf
  <2> QED
    BY <2>2, <2>7 DEF Reads
<1> QED
  BY <1>5, <1>6

\* Nobody's directory: entry i is none, or nothing lies in it.
NotADir(F, i) == F[i].type = "DIR" => \A j \in Slots : F[j].type # "FREE" => F[j].parent # i

LEMMA SameLeads ==
    ASSUME NEW A, NEW B, NEW i, Changed(A, B, i), NotADir(A, i), NEW q,
           NEW j \in Slots \ {i}, Leads(A, q, j)
    PROVE  Leads(B, q, j)
<1>1. A[j] = B[j]
  BY DEF Changed
<1>2. CASE Len(q) = 1 /\ InDir(A, FS_DIR_ROOT, q[1], j)
  BY <1>1, <1>2 DEF Leads, InDir
<1>3. CASE Len(q) = 2 /\ \E d \in Slots : /\ InDir(A, FS_DIR_ROOT, q[1], d) /\ A[d].type = "DIR"
                                          /\ InDir(A, d, q[2], j)
  <2>1. PICK d \in Slots : /\ InDir(A, FS_DIR_ROOT, q[1], d) /\ A[d].type = "DIR"
                           /\ InDir(A, d, q[2], j)
    BY <1>3
  <2>2. d # i
    BY <2>1 DEF NotADir, InDir
  <2>3. A[d] = B[d]
    BY <2>2 DEF Changed
  <2>4. InDir(B, FS_DIR_ROOT, q[1], d) /\ B[d].type = "DIR" /\ InDir(B, d, q[2], j)
    BY <2>1, <2>3, <1>1 DEF InDir
  <2> QED
    BY <2>4, <1>3 DEF Leads
<1> QED
  BY <1>2, <1>3 DEF Leads

\* A change of entry i is not seen by a path that leads elsewhere.
LEMMA SameReads ==
    ASSUME NEW F \in [Slots -> Entry], NEW G, NEW I, NEW J, NEW i \in Slots, Changed(F, G, i),
           NotADir(F, i), NotADir(G, i), NEW q, ~FileAt(F, q, i), ~FileAt(G, q, i),
           \A j \in Slots \ {i} : \A s \in RunOf(F[j]) : J[s] = I[s],
           NEW x, Reads(G, J, q, x)
    PROVE  Reads(F, I, q, x)
<1>1. ASSUME NEW j \in Slots \ {i}, NEW A, NEW B, Changed(A, B, i), NotADir(A, i),
             Leads(A, q, j)
      PROVE  Leads(B, q, j)
  BY <1>1, SameLeads
<1>2. Changed(G, F, i)
  BY DEF Changed
<1>3. \A j \in Slots : FileAt(F, q, j) <=> FileAt(G, q, j)
  <2> SUFFICES ASSUME NEW j \in Slots PROVE FileAt(F, q, j) <=> FileAt(G, q, j)
    OBVIOUS
  <2>1. CASE j = i
    BY <2>1
  <2>2. CASE j # i
    <3>1. Leads(F, q, j) <=> Leads(G, q, j)
      BY <2>2, <1>1, <1>2
    <3> QED
      BY <2>2, <3>1 DEF FileAt, Changed
  <2> QED
    BY <2>1, <2>2
<1>4. CASE x = NoFile /\ \A j \in Slots : ~FileAt(G, q, j)
  BY <1>3, <1>4 DEF Reads
<1>5. CASE \E j \in Slots : FileAt(G, q, j) /\ x = DataOf(G[j], J)
  <2>1. PICK j \in Slots : FileAt(G, q, j) /\ x = DataOf(G[j], J)
    BY <1>5
  <2>2. j # i /\ G[j] = F[j] /\ FileAt(F, q, j)
    BY <2>1, <1>3 DEF Changed
  <2>3. DataOf(F[j], J) = DataOf(F[j], I)
    <3>1. F[j] \in Entry /\ F[j].type = "FILE"
      BY <2>2 DEF FileAt
    <3>2. \A s \in RunOf(F[j]) : J[s] = I[s]
      BY <2>2
    <3> QED
      BY <3>1, <3>2, DataSame
  <2> QED
    BY <2>1, <2>2, <2>3 DEF Reads
<1> QED
  BY <1>4, <1>5 DEF Reads

\* Sectors that belong to no file have been written.
LEMMA SameData ==
    ASSUME NEW F \in [Slots -> Entry], NEW I, NEW J, NEW q, NEW x, Reads(F, J, q, x),
           \A j \in Slots : \A s \in RunOf(F[j]) : J[s] = I[s]
    PROVE  Reads(F, I, q, x)
<1>1. ASSUME NEW j \in Slots, FileAt(F, q, j) PROVE DataOf(F[j], J) = DataOf(F[j], I)
  BY <1>1, DataSame DEF FileAt
<1> QED
  BY <1>1 DEF Reads

-----------------------------------------------------------------------------
(* The contents that a crash leaves                                        *)

\* x is what path p holds by the operations that returned, or an empty first write.
Ack(A, p, x) == x = A[p] \/ (A[p] = NoFile /\ x = << >>)

\* The write under way knows its file by its path.
Named(F, o, w) == o \in DataOp => Leads(F, o.path, o.slot) /\ o.content = Written(w, o.size)
\* Memory reads as the operations that returned, and the one that writes the superblock.
Kept(F, I, o, A) ==
    \A p \in Paths : \A x : Reads(F, I, p, x) =>
        IF o \in SuperOp /\ o.path = p THEN x = o.content ELSE Ack(A, p, x)
\* A disk that is written in order reads as before or after the operation under way.
OnDisk(D, I, o, A) ==
    \A p \in Paths : \A x : Reads(D, I, p, x) =>
        Ack(A, p, x) \/ (o # Idle /\ o.path = p /\ x = o.content)

Contained ==
    /\ Named(files, op, writes) /\ Kept(files, view, op, acked)
    /\ boot = FALSE => OnDisk(TableIn(disk).files, disk, op, acked)
CInv == acked = [p \in Paths |-> acked[p]] /\ (torn = FALSE /\ fails = 0 => Contained)

LEMMA EmptyIs == NoFile # << >> /\ \A e, I : e.size = 0 => DataOf(e, I) = << >>
BY DEF NoFile, DataOf

LEMMA InitContained ==
    ASSUME Init
    PROVE  CInv
<1>1. IInv /\ op = Idle /\ fails = 0 /\ torn = FALSE
  BY InitInv DEF Init
<1>2. \A i \in Slots : files[i].type = "FREE"
  BY FreeEntryIs DEF Init
<1>3. acked = [p \in Paths |-> NoFile]
  BY DEF Init
<1>4. ASSUME NEW F, \A i \in Slots : F[i].type = "FREE", NEW I, NEW p, NEW x, Reads(F, I, p, x)
      PROVE  x = NoFile
  BY <1>4 DEF Reads, FileAt
<1>5. Kept(files, view, op, acked)
  BY <1>1, <1>2, <1>3, <1>4, OpKinds DEF Kept, Ack
<1>6. ASSUME boot = FALSE PROVE OnDisk(TableIn(disk).files, disk, op, acked)
  <2>1. Lags(TableIn(disk).files, disk[0], files, count, op, disk)
    BY <1>1, <1>6 DEF IInv, Sound, Ordered
  <2>2. Settled(TableIn(disk).files, disk[0], files, count)
    BY <2>1, <1>1, OpKinds, SettledIs
  <2>3. \A i \in Slots : TableIn(disk).files[i].type = "FREE"
    BY <2>2, <1>2 DEF Settled, Behind
  <2> QED
    BY <2>3, <1>3, <1>4 DEF OnDisk, Ack
<1>7. Named(files, op, writes)
  BY <1>1, OpKinds DEF Named
<1> QED
  BY <1>3, <1>5, <1>6, <1>7 DEF CInv, Contained

\* A new entry, at path p.
NewAt(G, p, i) ==
    /\ i \in Slots /\ G \in [Slots -> Entry] /\ files[i].type = "FREE" /\ Changed(files, G, i)
    /\ G[i].type # "FREE" /\ G[i].parent \in DirOf(Table, p) /\ G[i].name = p[Len(p)]

LEMMA AddReads ==
    ASSUME Types, Sound, NEW p \in Paths, NEW i, NEW G, NewAt(G, p, i), Reserved(G)
    PROVE  /\ Leads(G, p, i)
           /\ \A q \in Paths : \A x : (q # p \/ G[i].type = "DIR") /\ Reads(G, view, q, x) =>
                                         Reads(files, view, q, x)
<1> DEFINE d == G[i].parent
<1>1. /\ i \in Slots /\ G \in [Slots -> Entry] /\ files[i].type = "FREE" /\ Changed(files, G, i)
      /\ G[i].type # "FREE" /\ d \in DirOf(Table, p) /\ G[i].name = p[Len(p)]
  BY DEF NewAt
<1>2. files \in [Slots -> Entry] /\ Whole(files, count, view) /\ count \in 0 .. FS_MAX_FILES
  BY DEF Types, Sound
<1>3. \/ Len(p) = 1 /\ d = FS_DIR_ROOT
      \/ /\ Len(p) = 2 /\ d \in Slots /\ InDir(files, FS_DIR_ROOT, p[1], d)
         /\ files[d].type = "DIR"
  BY <1>1, <1>2, TableIs, ResolvedIs
<1> HIDE DEF d
<1>4. Leads(G, p, i)
  <2>1. CASE Len(p) = 1 /\ d = FS_DIR_ROOT
    BY <2>1, <1>1 DEF Leads, InDir, d
  <2>2. CASE /\ Len(p) = 2 /\ d \in Slots /\ InDir(files, FS_DIR_ROOT, p[1], d)
             /\ files[d].type = "DIR"
    <3>1. G[d] = files[d]
      BY <2>2, <1>1 DEF Changed
    <3>2. InDir(G, FS_DIR_ROOT, p[1], d) /\ G[d].type = "DIR" /\ InDir(G, d, p[2], i)
      BY <3>1, <2>2, <1>1 DEF InDir, d
    <3> QED
      BY <3>2, <2>2 DEF Leads
  <2> QED
    BY <2>1, <2>2, <1>3
<1>5. NotADir(files, i)
  BY <1>1 DEF NotADir
<1>6. NotADir(G, i)
  <2> SUFFICES ASSUME G[i].type = "DIR", NEW j \in Slots, G[j].type # "FREE", G[j].parent = i
               PROVE  FALSE
    BY DEF NotADir
  <2>1. i # FS_DIR_ROOT
    BY <1>1 DEF Reserved
  <2>2. CASE j = i
    BY <2>1, <2>2, <1>1, <1>3 DEF d
  <2>3. CASE j # i
    <3>1. files[j].type # "FREE" /\ files[j].parent = i
      BY <2>3, <1>1 DEF Changed
    <3> QED
      BY <3>1, <2>1, <1>1, <1>2 DEF Whole, Held
  <2> QED
    BY <2>2, <2>3
<1>7. ASSUME NEW q \in Paths, NEW x, q # p \/ G[i].type = "DIR", Reads(G, view, q, x)
      PROVE  Reads(files, view, q, x)
  <2>1. ~FileAt(files, q, i)
    BY <1>1 DEF FileAt
  <2>2. ~FileAt(G, q, i)
    BY <1>1, <1>4, <1>7, OnePath DEF FileAt
  <2>3. \A j \in Slots \ {i} : \A s \in RunOf(files[j]) : view[s] = view[s]
    OBVIOUS
  <2> QED
    BY <2>1, <2>2, <2>3, <1>1, <1>2, <1>5, <1>6, <1>7, SameReads
<1> QED
  BY <1>4, <1>7

\* An operation begins: the disk is as the operations before it left it.
LEMMA BeginOnDisk ==
    ASSUME NEW D, NEW I, NEW A, OnDisk(D, I, Idle, A), NEW o
    PROVE  OnDisk(D, I, o, A)
BY DEF OnDisk

LEMMA WriteAllContained ==
    ASSUME IInv, CInv, ~torn, RootReserved, RootReserved', NEW p \in Paths, NEW n \in Sizes,
           WriteAll(p, n)
    PROVE  CInv'
<1> DEFINE here == Resolved(Table, p)
           slots == IF here # {} THEN here ELSE IF DirOf(Table, p) = {} THEN {} ELSE FreeSlot
           a == p[Len(p)]
<1>1. Types /\ Sound /\ torn = FALSE
  BY DEF IInv, Types
<1>2. PICK i \in slots, d \in DirOf(Table, p) :
         /\ here # {} => files[i].type = "FILE"
         /\ Becomes(IF here # {} THEN Table ELSE With(i, NewEntry("FILE", d, a)))
         /\ LET starts == Fresh(Needed(n), IF here # {} THEN RunOf(files[i]) ELSE {})
            IN  IF starts = {} THEN UNCHANGED <<op, used>>
                ELSE \E s \in starts :
                        /\ used' = used \cup Run(s, Needed(n))
                        /\ op' = [phase |-> "data", slot |-> i, start |-> s, size |-> n,
                                  at |-> 0, path |-> p, content |-> Written(writes', n)]
  BY DEF WriteAll, NewEntry
<1>3. op = Idle /\ boot' = boot /\ view' = view /\ disk' = disk /\ fails' = fails
      /\ acked' = acked /\ torn' = torn
  BY DEF WriteAll, store
<1>4. \/ op' = Idle
      \/ /\ op'.slot = i /\ op'.path = p /\ op'.content = Written(writes', n) /\ op'.size = n
         /\ op'.phase = "data"
  BY <1>2, <1>3
<1>5. op' \notin SuperOp
  BY <1>4, OpKinds
<1>6. Whole(Table.files, Table.count, view) /\ Table.files \in [Slots -> Entry]
      /\ Table.count \in 0 .. FS_MAX_FILES
  BY <1>1, TableIs DEF Sound, Types
<1>7. /\ \A j : j \in here <=> j \in Slots /\ Leads(files, p, j)
      /\ \A j : j \in here <=> j \in Slots /\ \E x \in DirOf(Table, p) : InDir(files, x, a, j)
  BY <1>6, TableIs, ResolvedIs
<1> HIDE DEF here, a
<1>8. ASSUME fails = 0 PROVE Contained'
  <2>1. Contained
    BY <1>1, <1>8 DEF CInv
  <2>2. boot = FALSE => OnDisk(TableIn(disk).files, disk, op', acked)
    BY <2>1, <1>3, BeginOnDisk DEF Contained
  <2>3. Kept(files, view, Idle, acked)
    BY <2>1, <1>3 DEF Contained
  <2>4. Leads(files', p, i) /\ Kept(files', view, op', acked)
    <3>1. CASE here # {}
      <4>1. files' = files /\ i \in here
        BY <3>1, <1>2, TableIs DEF Becomes
      <4> QED
        BY <4>1, <2>3, <1>5, <1>7, OpKinds DEF Kept
    <3>2. CASE here = {}
      <4> DEFINE e == NewEntry("FILE", d, a)
                 T == With(i, e)
      <4>1. i \in FreeSlot
        BY <3>2, <1>2
      <4>2. \A j \in Slots : ~InDir(files, d, a, j)
        BY <3>2, <1>7
      <4>3. Added(T, i, e) /\ d \in Slots \cup {FS_DIR_ROOT}
        BY <4>1, <4>2, <1>1, AddStep DEF a
      <4>4. e.type = "FILE" /\ e.size = 0 /\ e.parent = d /\ e.name = a
        BY <4>3, LastName, NewEntryIs DEF a
      <4>5. files' = T.files /\ count' = T.count
        BY <3>2, <1>2 DEF Becomes
      <4> HIDE DEF T, e
      <4>6. NewAt(files', p, i) /\ Whole(files', count', view) /\ files'[i] = e /\ i \in Slots
        BY <4>3, <4>4, <4>5 DEF Added, NewAt, a
      <4>7. /\ Leads(files', p, i)
            /\ \A q \in Paths : \A x : q # p /\ Reads(files', view, q, x) => Reads(files, view, q, x)
        BY <4>6, <1>1, AddReads DEF RootReserved
      <4>8. acked[p] = NoFile
        <5>1. Reads(files, view, p, NoFile)
          BY <3>2, <1>7 DEF Reads, FileAt
        <5> QED
          BY <5>1, <2>3, EmptyIs, OpKinds DEF Kept, Ack
      <4>9. ASSUME NEW x, Reads(files', view, p, x) PROVE x = << >>
        <5>1. FileAt(files', p, i)
          BY <4>4, <4>6, <4>7 DEF FileAt
        <5>2. \A j \in Slots : FileAt(files', p, j) => j = i
          BY <4>6, <4>7, OneEntry DEF FileAt
        <5>3. x = DataOf(e, view)
          BY <5>1, <5>2, <4>6, <4>9 DEF Reads
        <5> QED
          BY <5>3, <4>4, EmptyIs
      <4>10. ASSUME NEW q \in Paths, NEW x, Reads(files', view, q, x) PROVE Ack(acked, q, x)
        <5>1. CASE q = p
          BY <5>1, <4>8, <4>9, <4>10 DEF Ack
        <5>2. CASE q # p
          BY <5>2, <4>7, <4>10, <2>3, OpKinds DEF Kept
        <5> QED
          BY <5>1, <5>2
      <4> QED
        BY <4>7, <4>10, <1>5 DEF Kept
    <3> QED
      BY <3>1, <3>2
  <2>5. Named(files', op', writes')
    BY <2>4, <1>4, OpKinds DEF Named
  <2> QED
    BY <2>2, <2>4, <2>5, <1>3 DEF Contained
<1> QED
  BY <1>3, <1>8 DEF CInv

LEMMA MkdirContained ==
    ASSUME IInv, CInv, ~torn, RootReserved, RootReserved', NEW p \in Paths, Mkdir(p)
    PROVE  CInv'
<1> DEFINE a == p[Len(p)]
<1>1. Types /\ Sound /\ torn = FALSE
  BY DEF IInv, Types
<1>2. PICK d \in DirOf(Table, p), i \in FreeSlot :
         /\ Find(Table, d, a) = {} /\ Becomes(With(i, NewEntry("DIR", d, a)))
  BY DEF Mkdir, NewEntry
<1>3. /\ op = Idle /\ op' = Superblock(p, NoFile) /\ boot' = boot /\ view' = view /\ disk' = disk
      /\ fails' = fails /\ acked' = acked /\ torn' = torn
  BY DEF Mkdir, store, counts
<1>4. op' \in SuperOp /\ op'.path = p /\ op'.content = NoFile
  <2>1. op' \in SuperOp
    BY <1>3, NoFileIs, SuperblockIs
  <2> QED
    BY <2>1, <1>3 DEF Superblock
<1>5. \A j \in Slots : ~InDir(files, d, a, j)
  <2>1. Whole(Table.files, Table.count, view) /\ Table.files \in [Slots -> Entry]
        /\ Table.count \in 0 .. FS_MAX_FILES
    BY <1>1, TableIs DEF Sound, Types
  <2>2. \A j : j \in Find(Table, d, a) <=> j \in Slots /\ InDir(Table.files, d, a, j)
    BY <2>1, FindIs
  <2> QED
    BY <2>2, <1>2, TableIs
<1> DEFINE e == NewEntry("DIR", d, a)
           T == With(i, e)
<1>6. Added(T, i, e) /\ d \in Slots \cup {FS_DIR_ROOT}
  BY <1>1, <1>5, AddStep
<1>7. files' = T.files /\ count' = T.count
  BY <1>2 DEF Becomes
<1>8. e.type = "DIR" /\ e.parent = d /\ e.name = a
  BY <1>6, LastName, NewEntryIs
<1> HIDE DEF T, e
<1>9. NewAt(files', p, i) /\ Whole(files', count', view) /\ files'[i] = e /\ i \in Slots
  BY <1>6, <1>7, <1>8 DEF Added, NewAt
<1>10. /\ Leads(files', p, i)
       /\ \A q \in Paths : \A x : Reads(files', view, q, x) => Reads(files, view, q, x)
  BY <1>1, <1>8, <1>9, AddReads DEF RootReserved
<1>11. ASSUME NEW x, Reads(files', view, p, x) PROVE x = NoFile
  <2>1. \A j \in Slots : Leads(files', p, j) => j = i
    BY <1>9, <1>10, OneEntry
  <2> QED
    BY <2>1, <1>8, <1>9, <1>11 DEF Reads, FileAt
<1>12. ASSUME fails = 0 PROVE Contained'
  <2>1. Contained
    BY <1>1, <1>12 DEF CInv
  <2>2. boot = FALSE => OnDisk(TableIn(disk).files, disk, op', acked)
    BY <2>1, <1>3, BeginOnDisk DEF Contained
  <2>3. Kept(files', view, op', acked)
    BY <2>1, <1>3, <1>4, <1>10, <1>11, OpKinds DEF Contained, Kept
  <2>4. Named(files', op', writes')
    BY <1>4, OpKinds DEF Named
  <2> QED
    BY <2>2, <2>3, <2>4, <1>3 DEF Contained
<1> QED
  BY <1>3, <1>12 DEF CInv

\* A file or a directory is removed, on the boot instance.
LEMMA RemovedContained ==
    ASSUME Types, Sound, CInv, torn = FALSE, RootReserved, boot, op = Idle,
           NEW p \in Paths, op' = Superblock(p, NoFile),
           UNCHANGED <<boot, store, opened, counts, acked, torn>>,
           NEW i \in Slots, Leads(files, p, i), NotADir(files, i),
           Changed(files, files', i), files'[i].type = "FREE"
    PROVE  CInv'
<1>1. boot' = boot /\ view' = view /\ fails' = fails /\ acked' = acked /\ torn' = torn
  BY DEF store, counts
<1>2. op' \in SuperOp /\ op'.path = p /\ op'.content = NoFile
  <2>1. op' \in SuperOp
    BY NoFileIs, SuperblockIs
  <2> QED
    BY <2>1 DEF Superblock
<1>3. files \in [Slots -> Entry] /\ Whole(files, count, view)
  BY DEF Types, Sound
<1>4. NotADir(files', i) /\ \A q : ~FileAt(files', q, i)
  BY DEF NotADir, FileAt
<1>5. ASSUME NEW x, Reads(files', view, p, x) PROVE x = NoFile
  <2>1. Changed(files', files, i)
    BY DEF Changed
  <2>2. \A j \in Slots : FileAt(files', p, j) => j # i /\ Leads(files, p, j)
    BY <2>1, <1>4, SameLeads DEF FileAt
  <2>3. \A j \in Slots : ~FileAt(files', p, j)
    BY <2>2, <1>3, OneEntry
  <2> QED
    BY <2>3, <1>5 DEF Reads
<1>6. ASSUME NEW q \in Paths, q # p, NEW x, Reads(files', view, q, x) PROVE Reads(files, view, q, x)
  <2>1. ~FileAt(files, q, i)
    BY <1>6, OnePath DEF FileAt, RootReserved
  <2>2. \A j \in Slots \ {i} : \A s \in RunOf(files[j]) : view[s] = view[s]
    OBVIOUS
  <2> QED
    BY <2>1, <2>2, <1>3, <1>4, <1>6, SameReads
<1>7. ASSUME fails = 0 PROVE Contained'
  <2>1. Contained
    BY <1>7 DEF CInv
  <2>2. Kept(files', view, op', acked)
    BY <2>1, <1>2, <1>5, <1>6, OpKinds DEF Contained, Kept
  <2>3. Named(files', op', writes')
    BY <1>2, OpKinds DEF Named
  <2> QED
    BY <2>2, <2>3, <1>1 DEF Contained
<1> QED
  BY <1>1, <1>7 DEF CInv

LEMMA UnlinkContained ==
    ASSUME IInv, CInv, ~torn, RootReserved, NEW p \in Paths, Unlink(p)
    PROVE  CInv'
<1>1. Types /\ Sound /\ torn = FALSE
  BY DEF IInv, Types
<1>2. PICK i \in Resolved(Table, p) :
         /\ files[i].type = "FILE" /\ ~Busy(i) /\ Becomes(With(i, FreeEntry))
  BY DEF Unlink
<1>3. /\ boot /\ op = Idle /\ op' = Superblock(p, NoFile)
      /\ UNCHANGED <<boot, store, opened, counts, acked, torn>>
  BY DEF Unlink
<1>4. i \in Slots /\ Leads(files, p, i)
  BY <1>1, ResolvedSlot
<1>5. CanRemove(files, i, opened) /\ NotADir(files, i)
  BY <1>2 DEF CanRemove, Busy, NotADir
<1>6. Changed(files, files', i) /\ files'[i].type = "FREE"
  BY <1>1, <1>2, <1>4, <1>5, RemoveStep
<1> QED
  BY <1>1, <1>3, <1>4, <1>5, <1>6, RemovedContained

LEMMA RmdirContained ==
    ASSUME IInv, CInv, ~torn, RootReserved, NEW p \in Paths, Rmdir(p)
    PROVE  CInv'
<1>1. Types /\ Sound /\ torn = FALSE
  BY DEF IInv, Types
<1>2. PICK i \in Resolved(Table, p) :
         /\ files[i].type = "DIR"
         /\ \A j \in 0 .. (count - 1) : j # i /\ files[j].type # "FREE" => files[j].parent # i
         /\ Becomes(With(i, FreeEntry))
  BY DEF Rmdir
<1>3. /\ boot /\ op = Idle /\ op' = Superblock(p, NoFile)
      /\ UNCHANGED <<boot, store, opened, counts, acked, torn>>
  BY DEF Rmdir
<1>4. i \in Slots /\ Leads(files, p, i)
  BY <1>1, ResolvedSlot
<1>5. ASSUME NEW j \in Slots, j # i, files[j].type # "FREE" PROVE files[j].parent # i
  <2>1. j \in Nat /\ j < count /\ count \in Nat
    BY <1>1, <1>5, Layout DEF Sound, Whole, Types
  <2>2. j \in 0 .. (count - 1)
    BY <2>1
  <2> QED
    BY <2>2, <1>2, <1>5
<1>6. CanRemove(files, i, opened)
  BY <1>1, <1>2, <1>5 DEF Sound, OpenOK, CanRemove
<1>7. files[i].parent # i
  <2>1. i # FS_DIR_ROOT
    BY <1>2, <1>4 DEF RootReserved, Reserved
  <2> QED
    BY <2>1, <1>4 DEF Leads, InDir
<1>8. NotADir(files, i)
  BY <1>5, <1>7 DEF NotADir
<1>9. Changed(files, files', i) /\ files'[i].type = "FREE"
  BY <1>1, <1>2, <1>4, <1>6, RemoveStep
<1> QED
  BY <1>1, <1>3, <1>4, <1>8, <1>9, RemovedContained

\* The entry that WriteData gives its new run.
Moved(F, G, o) ==
    /\ Changed(F, G, o.slot) /\ G[o.slot].start = o.start /\ G[o.slot].size = o.size
    /\ \A j \in Slots : G[j].type = F[j].type /\ G[j].name = F[j].name /\ G[j].parent = F[j].parent

LEMMA MovedIs ==
    ASSUME Types, op \in DataOp
    PROVE  Moved(files, [files EXCEPT ![op.slot].start = op.start, ![op.slot].size = op.size], op)
<1> DEFINE c == op.slot
           G == [files EXCEPT ![op.slot].start = op.start, ![op.slot].size = op.size]
           e == [files[c] EXCEPT !.start = op.start, !.size = op.size]
<1>1. files \in [Slots -> Entry] /\ c \in Slots
  BY DEF Types, DataOp
<1>2. G[c] = e /\ \A j \in Slots \ {c} : G[j] = files[j]
  BY <1>1
<1>3. files[c] \in [type : {"FREE", "FILE", "DIR"}, name : Names \cup {""},
                    parent : Slots \cup {FS_DIR_ROOT}, start : Nat, size : Nat]
  BY <1>1 DEF Entry
<1>4. /\ e.start = op.start /\ e.size = op.size /\ e.type = files[c].type
      /\ e.name = files[c].name /\ e.parent = files[c].parent
  BY <1>3
<1> HIDE DEF e, G
<1>5. Changed(files, G, c)
  BY <1>2 DEF Changed
<1>6. \A j \in Slots : /\ G[j].type = files[j].type /\ G[j].name = files[j].name
                       /\ G[j].parent = files[j].parent
  BY <1>2, <1>4
<1> HIDE DEF c
<1>7. Moved(files, G, op)
  BY <1>2, <1>4, <1>5, <1>6 DEF Moved, c
<1> QED
  BY <1>7 DEF G

\* The data that a write under way writes is no file's on the disk either.
LEMMA DataOnDisk ==
    ASSUME Types, Sound, op \in DataOp, DataSector(op.start + op.at), boot = FALSE, fails = 0,
           OnDisk(TableIn(disk).files, disk, op, acked),
           NEW o, o # Idle, o.path = op.path, o.content = op.content
    PROVE  OnDisk(TableIn(disk').files, disk', o, acked)
<1> DEFINE D == TableIn(disk).files
<1>1. TableIn(disk').files = D /\ view = disk /\ view' = disk'
  BY DEF DataSector, Types
<1>2. D \in [Slots -> Entry]
  BY TableInIs DEF Types
<1>3. \A j \in Slots : D[j] = files[j] \/ RunOf(D[j]) = {}
  <2>1. Settled(D, disk[0], files, count)
    BY OpKinds, SettledIs DEF Sound, Ordered
  <2> QED
    BY <2>1 DEF Settled, Behind, RunOf
<1> HIDE DEF D
<1>4. \A j \in Slots : \A s \in RunOf(D[j]) : disk'[s] = disk[s]
  BY <1>1, <1>3 DEF DataSector
<1>5. \A q, x : Reads(D, disk', q, x) => Reads(D, disk, q, x)
  BY <1>2, <1>4, SameData
<1>6. op # Idle
  BY OpKinds
<1>7. OnDisk(D, disk', o, acked)
  BY <1>5, <1>6 DEF OnDisk, D
<1> QED
  BY <1>1, <1>7

LEMMA WriteDataContained ==
    ASSUME IInv, CInv, ~torn, RootReserved, RootReserved', WriteData, IInv'
    PROVE  CInv'
<1>1. Types /\ Sound /\ torn = FALSE
  BY DEF IInv, Types
<1>2. op \in DataOp
  <2>1. op.phase = "data" /\ op \in {Idle} \cup DataOp \cup SuperOp
    BY <1>1 DEF WriteData, Types
  <2> QED
    BY <2>1, OpKinds
<1>3. DataSector(op.start + op.at)
  BY <1>1, <1>2, WriteDataSector DEF WriteData
<1>4. boot' = boot /\ fails' = fails /\ writes' = writes /\ acked' = acked /\ torn' = torn
  BY DEF WriteData, counts
<1>5. \A j \in Slots : \A s \in RunOf(files[j]) : view'[s] = view[s]
  BY <1>3 DEF DataSector
<1>6. files \in [Slots -> Entry]
  BY <1>1 DEF Types
<1>7. ASSUME fails = 0 PROVE Contained'
  <2>1. Contained
    BY <1>1, <1>7 DEF CInv
  <2>2. /\ Leads(files, op.path, op.slot) /\ op.content = Written(writes, op.size)
        /\ op.slot \in Slots /\ op.size \in Nat /\ op.start \in Nat /\ op.at \in Nat
        /\ op.path \in Paths
    BY <2>1, <1>2 DEF Contained, Named, DataOp
  <2>3. \A p \in Paths : \A x : Reads(files, view, p, x) => Ack(acked, p, x)
    BY <2>1, <1>2, OpKinds DEF Contained, Kept
  <2>4. CASE op.at + 1 < Needed(op.size)
    <3>1. files' = files /\ op' = [op EXCEPT !.at = @ + 1]
      BY <2>4 DEF WriteData, super
    <3>2. /\ op' \in DataOp /\ op'.slot = op.slot /\ op'.path = op.path /\ op'.size = op.size
          /\ op'.content = op.content
      BY <3>1, <1>2 DEF DataOp
    <3>3. Named(files', op', writes')
      BY <3>1, <3>2, <2>2, <1>4 DEF Named
    <3>4. Kept(files', view', op', acked')
      <4>1. \A q, x : Reads(files, view', q, x) => Reads(files, view, q, x)
        BY <1>5, <1>6, SameData
      <4> QED
        BY <4>1, <3>1, <3>2, <2>3, <1>4, OpKinds DEF Kept
    <3>5. boot = FALSE => OnDisk(TableIn(disk').files, disk', op', acked)
      BY <3>2, <2>1, <1>1, <1>2, <1>3, <1>7, OpKinds, DataOnDisk DEF Contained
    <3> QED
      BY <3>3, <3>4, <3>5, <1>4 DEF Contained
  <2>5. CASE ~(op.at + 1 < Needed(op.size))
    <3> DEFINE c == op.slot
               p == op.path
    <3>1. /\ files' = [files EXCEPT ![op.slot].start = op.start, ![op.slot].size = op.size]
          /\ op' = Superblock(op.path, op.content)
      BY <2>5 DEF WriteData
    <3>2. Moved(files, files', op)
      BY <3>1, <1>1, <1>2, MovedIs
    <3>3. op' \in SuperOp /\ op'.path = p /\ op'.content = op.content
      <4>1. op.content \in Contents
        BY <1>2 DEF DataOp
      <4>2. op' \in SuperOp
        BY <4>1, <3>1, <2>2, SuperblockIs
      <4> QED
        BY <4>2, <3>1 DEF Superblock
    <3>4. /\ Changed(files, files', c) /\ files'[c].start = op.start /\ files'[c].size = op.size
          /\ files[c].type = "FILE" /\ files'[c].type = "FILE"
      BY <3>2, <2>2, <1>1, <1>2 DEF Moved, Sound, DataOK
    <3>5. Leads(files', p, c)
      BY <3>2, <2>2 DEF Moved, Leads, InDir
    <3>6. Whole(files', count', view')
      BY <1>1, <1>4 DEF IInv, Sound
    <3>7. ASSUME NEW x, Reads(files', view', p, x) PROVE x = op.content
      <4>1. \A j \in Slots : Leads(files', p, j) => j = c
        BY <3>5, <3>6, <2>2, OneEntry
      <4>2. x = DataOf(files'[c], view')
        BY <4>1, <3>4, <3>5, <3>7, <2>2 DEF Reads, FileAt
      <4>3. x = [k \in 1 .. op.size |-> view'[op.start + k - 1]]
        BY <4>2, <3>4 DEF DataOf
      <4>4. ASSUME NEW k \in 1 .. op.size PROVE view'[op.start + k - 1] = <<writes, k>>
        <5>1. op.size <= Needed(op.size) /\ Needed(op.size) \in Nat
          BY <2>2, NeededIs
        <5>2. k - 1 \in 0 .. op.at /\ op.start + (k - 1) = op.start + k - 1 /\ (k - 1) + 1 = k
          BY <5>1, <2>2, <2>5
        <5>3. view'[op.start + (k - 1)] = <<writes, (k - 1) + 1>>
          BY <5>2, <1>3 DEF DataSector
        <5> QED
          BY <5>2, <5>3
      <4> QED
        BY <4>3, <4>4, <2>2 DEF Written
    <3>8. ASSUME NEW q \in Paths, q # p, NEW x, Reads(files', view', q, x)
          PROVE  Reads(files, view, q, x)
      <4>1. ~FileAt(files, q, c)
        BY <3>8, <2>2, OnePath DEF FileAt, RootReserved
      <4>2. ~FileAt(files', q, c)
        BY <3>5, <3>8, <2>2, OnePath DEF FileAt, RootReserved
      <4>3. NotADir(files, c) /\ NotADir(files', c)
        BY <3>4 DEF NotADir
      <4>4. \A j \in Slots \ {c} : \A s \in RunOf(files[j]) : view'[s] = view[s]
        BY <1>5
      <4>5. c \in Slots /\ Changed(files, files', c)
        BY <2>2, <3>4
      <4> HIDE DEF c
      <4> QED
        BY <4>1, <4>2, <4>3, <4>4, <4>5, <3>8, <1>6, SameReads
    <3>9. Kept(files', view', op', acked')
      BY <3>3, <3>7, <3>8, <2>3, <1>4 DEF Kept
    <3>10. boot = FALSE => OnDisk(TableIn(disk').files, disk', op', acked)
      BY <3>3, <2>1, <1>1, <1>2, <1>3, <1>7, OpKinds, DataOnDisk DEF Contained
    <3>11. Named(files', op', writes')
      BY <3>3, OpKinds DEF Named
    <3> QED
      BY <3>9, <3>10, <3>11, <1>4 DEF Contained
  <2> QED
    BY <2>4, <2>5
<1> QED
  BY <1>4, <1>7 DEF CInv

\* An entry of D that is in use has its place in F too.
LEMMA LagsNames ==
    ASSUME NEW D, NEW m, NEW F, NEW n, NEW o, NEW I, Lags(D, m, F, n, o, I), Reserved(F)
    PROVE  /\ \A i \in Slots : D[i].type # "FREE" =>
                 F[i].type = D[i].type /\ F[i].name = D[i].name /\ F[i].parent = D[i].parent
           /\ \A d, j \in Slots : F[d].type = "DIR" /\ F[j].type # "FREE" /\ F[j].parent = d =>
                 D[d] = F[d]
<1>1. PICK c \in Slots :
         /\ \A i \in Slots \ {c} : D[i] = F[i] \/ Behind(D[i], F[i])
         /\ D[c] = F[c] \/ Behind(D[c], F[c]) \/ (o \in SuperOp /\ Turning(F, c, D[c], I))
  BY DEF Lags
<1>2. ASSUME NEW i \in Slots, D[i].type # "FREE"
      PROVE  F[i].type = D[i].type /\ F[i].name = D[i].name /\ F[i].parent = D[i].parent
  BY <1>1, <1>2 DEF Behind, Turning
<1>3. ASSUME NEW d \in Slots, NEW j \in Slots, F[d].type = "DIR", F[j].type # "FREE", F[j].parent = d
      PROVE  D[d] = F[d]
  <2>1. d # FS_DIR_ROOT
    BY <1>3 DEF Reserved
  <2>2. CASE d # c
    BY <2>2, <1>1, <1>3 DEF Behind
  <2>3. CASE d = c
    BY <2>1, <2>3, <1>1, <1>3 DEF Behind, Turning
  <2> QED
    BY <2>2, <2>3
<1> QED
  BY <1>2, <1>3

\* A path in a table between D and F is found where D or F has it.
Between(D, F, G) == \A i \in Slots : G[i] = D[i] \/ G[i] = F[i]

LEMMA BetweenLeads ==
    ASSUME NEW D, NEW m, NEW F, NEW n, NEW o, NEW I, Lags(D, m, F, n, o, I), Reserved(F),
           NEW G, Between(D, F, G), NEW p
    PROVE  /\ \A i \in Slots : FileAt(G, p, i) => \/ G[i] = F[i] /\ FileAt(F, p, i)
                                                  \/ G[i] = D[i] /\ FileAt(D, p, i)
           /\ \A i \in Slots : FileAt(D, p, i) => FileAt(G, p, i)
<1>1. \A i \in Slots : D[i].type # "FREE" =>
         F[i].type = D[i].type /\ F[i].name = D[i].name /\ F[i].parent = D[i].parent
  BY LagsNames
<1>2. \A d, j \in Slots : F[d].type = "DIR" /\ F[j].type # "FREE" /\ F[j].parent = d => D[d] = F[d]
  BY LagsNames
<1>3. \A i \in Slots : G[i].type # "FREE" =>
         F[i].type = G[i].type /\ F[i].name = G[i].name /\ F[i].parent = G[i].parent
  BY <1>1 DEF Between
<1>4. \A d, a : \A i \in Slots : InDir(G, d, a, i) => InDir(F, d, a, i) /\ F[i].type = G[i].type
  BY <1>3 DEF InDir
<1>5. ASSUME NEW i \in Slots, Leads(G, p, i) PROVE Leads(F, p, i)
  BY <1>4, <1>5 DEF Leads
<1>6. ASSUME NEW i \in Slots, Leads(F, p, i), D[i].type # "FREE" PROVE Leads(D, p, i)
  <2>1. D[i].name = F[i].name /\ D[i].parent = F[i].parent
    BY <1>1, <1>6
  <2>2. CASE Len(p) = 1 /\ InDir(F, FS_DIR_ROOT, p[1], i)
    BY <2>1, <2>2, <1>6 DEF Leads, InDir
  <2>3. CASE Len(p) = 2 /\ \E d \in Slots : /\ InDir(F, FS_DIR_ROOT, p[1], d) /\ F[d].type = "DIR"
                                            /\ InDir(F, d, p[2], i)
    <3>1. PICK d \in Slots : /\ InDir(F, FS_DIR_ROOT, p[1], d) /\ F[d].type = "DIR"
                             /\ InDir(F, d, p[2], i)
      BY <2>3
    <3>2. D[d] = F[d]
      BY <3>1, <1>2 DEF InDir
    <3>3. InDir(D, FS_DIR_ROOT, p[1], d) /\ D[d].type = "DIR" /\ InDir(D, d, p[2], i)
      BY <3>1, <3>2, <2>1, <1>6 DEF InDir
    <3> QED
      BY <3>3, <2>3 DEF Leads
  <2> QED
    BY <2>2, <2>3, <1>6 DEF Leads
<1>7. ASSUME NEW i \in Slots, FileAt(G, p, i)
      PROVE  (G[i] = F[i] /\ FileAt(F, p, i)) \/ (G[i] = D[i] /\ FileAt(D, p, i))
  BY <1>5, <1>6, <1>7 DEF Between, FileAt
<1>8. \A i \in Slots : D[i].type # "FREE" =>
         G[i].type = D[i].type /\ G[i].name = D[i].name /\ G[i].parent = D[i].parent
  BY <1>1 DEF Between
<1>9. \A d, a : \A i \in Slots : InDir(D, d, a, i) => InDir(G, d, a, i) /\ G[i].type = D[i].type
  BY <1>8 DEF InDir
<1>10. ASSUME NEW i \in Slots, FileAt(D, p, i) PROVE FileAt(G, p, i)
  BY <1>8, <1>9, <1>10 DEF FileAt, Leads
<1> QED
  BY <1>7, <1>10

LEMMA BetweenReads ==
    ASSUME NEW D \in [Slots -> Entry], NEW m, NEW F \in [Slots -> Entry], NEW n, NEW o, NEW I,
           Lags(D, m, F, n, o, I), Reserved(F), NEW G, Between(D, F, G),
           NEW J, \A s \in DataSectors : J[s] = I[s], NEW p, NEW x, Reads(G, J, p, x)
    PROVE  Reads(F, I, p, x) \/ Reads(D, I, p, x)
<1>1. \A i \in Slots : FileAt(G, p, i) => \/ G[i] = F[i] /\ FileAt(F, p, i)
                                          \/ G[i] = D[i] /\ FileAt(D, p, i)
  BY BetweenLeads
<1>2. \A i \in Slots : FileAt(D, p, i) => FileAt(G, p, i)
  BY BetweenLeads
<1>3. ASSUME NEW e \in Entry, e.type = "FILE" PROVE DataOf(e, J) = DataOf(e, I)
  <2>1. \A s \in RunOf(e) : J[s] = I[s]
    BY EntryIs
  <2> QED
    BY <2>1, <1>3, DataSame
<1>4. CASE x = NoFile /\ \A i \in Slots : ~FileAt(G, p, i)
  BY <1>2, <1>4 DEF Reads
<1>5. CASE \E i \in Slots : FileAt(G, p, i) /\ x = DataOf(G[i], J)
  <2>1. PICK i \in Slots : FileAt(G, p, i) /\ x = DataOf(G[i], J)
    BY <1>5
  <2>2. CASE G[i] = F[i] /\ FileAt(F, p, i)
    BY <2>1, <2>2, <1>3 DEF Reads, FileAt
  <2>3. CASE G[i] = D[i] /\ FileAt(D, p, i)
    BY <2>1, <2>3, <1>3 DEF Reads, FileAt
  <2> QED
    BY <2>1, <2>2, <2>3, <1>1
<1> QED
  BY <1>4, <1>5 DEF Reads

LEMMA WriteSuperContained ==
    ASSUME IInv, CInv, ~torn, RootReserved, WriteSuper
    PROVE  CInv'
<1> DEFINE s == op.at
           v == SuperSector(s)
           D == TableIn(disk).files
           G == TableIn(disk').files
<1>1. Types /\ Sound /\ torn = FALSE
  BY DEF IInv, Types
<1>2. op \in SuperOp
  <2>1. op.phase = "super" /\ op \in {Idle} \cup DataOp \cup SuperOp
    BY <1>1 DEF WriteSuper, Types
  <2> QED
    BY <2>1, OpKinds
<1>3. /\ s \in 0 .. TableSectors /\ s \in Nat /\ TableSectors \in Nat
      /\ Image(view) /\ Image(disk) /\ boot \in BOOLEAN /\ files \in [Slots -> Entry]
      /\ (boot = FALSE => view = disk) /\ op.path \in Paths
  BY <1>1, <1>2, Layout DEF SuperOp, Types
<1>4. boot' = boot /\ files' = files /\ fails' = fails /\ torn' = torn
  BY DEF WriteSuper, super, counts
<1>5. view' = [view EXCEPT ![s] = v] /\ disk' = IF boot THEN disk ELSE [disk EXCEPT ![s] = v]
  BY DEF WriteSuper, WriteSector
<1>6. SuperWritten(view, s, view') /\ (boot = FALSE => SuperWritten(disk, s, disk') /\ view' = disk')
  <2>1. SuperWritten(view, s, [view EXCEPT ![s] = v])
    BY <1>1, <1>3, WriteSuperImage
  <2> QED
    BY <2>1, <1>3, <1>5
<1>7. acked = [p \in Paths |-> acked[p]]
  BY DEF CInv
<1>8. \/ /\ op' = [op EXCEPT !.at = @ + 1] /\ acked' = acked /\ s < TableSectors
      \/ /\ op' = Idle /\ s = TableSectors
         /\ acked' = [acked EXCEPT ![op.path] = op.content]
  BY <1>3 DEF WriteSuper
<1>9. acked' = [p \in Paths |-> acked'[p]]
  BY <1>7, <1>8
<1>10. \A p, x : Reads(files, view', p, x) => Reads(files, view, p, x)
  <2>1. \A j \in Slots : \A y \in RunOf(files[j]) : view'[y] = view[y]
    BY <1>3, <1>6, EntryIs DEF SuperWritten
  <2> QED
    BY <2>1, <1>3, SameData
<1>11. ASSUME fails = 0 PROVE Contained'
  <2>1. Contained
    BY <1>1, <1>11 DEF CInv
  <2>2. \A p \in Paths : \A x : Reads(files, view, p, x) =>
           IF op.path = p THEN x = op.content ELSE Ack(acked, p, x)
    BY <2>1, <1>2 DEF Contained, Kept
  <2>3. CASE op' = [op EXCEPT !.at = @ + 1] /\ acked' = acked /\ s < TableSectors
    <3>1. op' \in SuperOp /\ op'.path = op.path /\ op'.content = op.content
      <4>1. op.at + 1 \in 0 .. TableSectors
        BY <2>3, <1>3
      <4> QED
        BY <4>1, <2>3, <1>2 DEF SuperOp
    <3>2. Kept(files, view', op', acked')
      BY <3>1, <2>2, <2>3, <1>10 DEF Kept
    <3>3. ASSUME boot = FALSE PROVE OnDisk(G, disk', op', acked')
      <4>1. /\ Lags(D, disk[0], files, count, op, disk) /\ D \in [Slots -> Entry]
            /\ view = disk
        BY <3>3, <1>1, <1>3, <1>11, TableInIs DEF Sound, Ordered
      <4>2. Between(D, files, G) /\ \A y \in DataSectors : disk'[y] = disk[y]
        BY <3>3, <1>6 DEF SuperWritten, Between
      <4> HIDE DEF D, G
      <4>3. \A p, x : Reads(G, disk', p, x) => Reads(files, disk, p, x) \/ Reads(D, disk, p, x)
        BY <4>1, <4>2, <1>3, BetweenReads DEF RootReserved
      <4>4. \A p \in Paths : \A x : Reads(D, disk, p, x) =>
               Ack(acked, p, x) \/ (op.path = p /\ x = op.content)
        BY <3>3, <2>1 DEF Contained, OnDisk, D
      <4>5. op' # Idle
        BY <3>1, OpKinds
      <4> QED
        BY <4>1, <4>3, <4>4, <4>5, <3>1, <2>2, <2>3 DEF OnDisk
    <3>4. Named(files, op', writes')
      BY <3>1, OpKinds DEF Named
    <3> QED
      BY <3>2, <3>3, <3>4, <1>4 DEF Contained
  <2>4. CASE /\ op' = Idle /\ s = TableSectors
             /\ acked' = [acked EXCEPT ![op.path] = op.content]
    <3>1. \A p \in Paths : acked'[p] = IF p = op.path THEN op.content ELSE acked[p]
      BY <2>4, <1>7
    <3>2. \A p \in Paths : \A x : Reads(files, view', p, x) => Ack(acked', p, x)
      BY <3>1, <2>2, <1>10 DEF Ack
    <3>3. Kept(files, view', op', acked')
      BY <3>2, <2>4, OpKinds DEF Kept
    <3>4. ASSUME boot = FALSE PROVE OnDisk(G, disk', op', acked')
      <4>1. /\ Lags(D, disk[0], files, count, op, disk) /\ SuperWritten(disk, s, disk')
            /\ view' = disk'
        BY <3>4, <1>1, <1>6, <1>11 DEF Sound, Ordered
      <4>2. ASSUME NEW i \in Slots PROVE G[i] = files[i]
        <5>1. SectorOf(i) = s \/ SectorOf(i) < s
          BY <2>4, <1>3, SlotSector
        <5>2. SectorOf(i) < s => D[i] = files[i]
          BY <4>1, <1>2 DEF Lags, SectorOf
        <5> QED
          BY <5>1, <5>2, <4>1 DEF SuperWritten
      <4>3. G \in [Slots -> Entry]
        BY <4>1, TableInIs DEF SuperWritten
      <4> HIDE DEF G
      <4>4. G = files
        BY <4>2, <4>3, <1>3
      <4> QED
        BY <4>1, <4>4, <3>2 DEF OnDisk
    <3>5. Named(files, op', writes')
      BY <2>4, OpKinds DEF Named
    <3> QED
      BY <3>3, <3>4, <3>5, <1>4 DEF Contained
  <2> QED
    BY <2>3, <2>4, <1>8
<1> QED
  BY <1>4, <1>9, <1>11 DEF CInv

LEMMA CrashContained ==
    ASSUME IInv, CInv, ~torn, Crash
    PROVE  CInv'
<1> DEFINE D == TableIn(disk).files
<1>1. Types /\ Sound /\ torn = FALSE
  BY DEF IInv, Types
<1>2. /\ files' = D /\ op' = Idle /\ view' = disk /\ boot' = boot /\ disk' = disk
      /\ torn' = (torn \/ ~(Ordered \/ Synced))
      /\ acked' = [p \in Paths |-> ContentIn(disk, p)]
  BY DEF Crash, Becomes
<1>3. acked' = [p \in Paths |-> acked'[p]]
  BY <1>2
<1>4. ASSUME torn' = FALSE PROVE Contained'
  <2>1. Whole(D, disk[0], disk) /\ Image(disk)
    BY <1>1, <1>2, <1>4, LoadedWhole DEF Types
  <2>2. ASSUME NEW p \in Paths, NEW x, Reads(D, disk, p, x) PROVE Ack(acked', p, x)
    <3>1. Reads(D, disk, p, ContentIn(disk, p))
      BY <2>1, ContentIs
    <3>2. x = ContentIn(disk, p)
      BY <3>1, <2>1, <2>2, OneReading
    <3> QED
      BY <3>2, <1>2 DEF Ack
  <2>3. TableIn(disk').files = D
    BY <1>2
  <2> HIDE DEF D
  <2>4. Kept(D, disk, Idle, acked') /\ OnDisk(D, disk, Idle, acked') /\ Named(D, Idle, writes')
    BY <2>2, OpKinds DEF Kept, OnDisk, Named
  <2> QED
    BY <2>3, <2>4, <1>2 DEF Contained
<1> QED
  BY <1>3, <1>4 DEF CInv

LEMMA StepContained ==
    ASSUME IInv, CInv, RootReserved, RootReserved', [Next]_vars
    PROVE  CInv'
<1>0. acked = [p \in Paths |-> acked[p]] /\ (torn = FALSE /\ fails = 0 => Contained)
  BY DEF CInv
<1>1. CASE Next
  <2>0. ~torn /\ torn = FALSE /\ fails \in Nat
    BY <1>1 DEF Next, IInv, Types
  <2>1. ASSUME NEW p \in Paths, NEW n \in Sizes, WriteAll(p, n) PROVE CInv'
    BY <2>0, <2>1, WriteAllContained
  <2>2. ASSUME NEW p \in Paths, Mkdir(p) PROVE CInv'
    BY <2>0, <2>2, MkdirContained
  <2>3. ASSUME NEW p \in Paths, Unlink(p) PROVE CInv'
    BY <2>0, <2>3, UnlinkContained
  <2>4. ASSUME NEW p \in Paths, Rmdir(p) PROVE CInv'
    BY <2>0, <2>4, RmdirContained
  <2>5. ASSUME UNCHANGED <<boot, super, op, store, counts, acked, torn>> PROVE CInv'
    <3>1. /\ boot' = boot /\ files' = files /\ op' = op /\ view' = view /\ disk' = disk
          /\ writes' = writes /\ fails' = fails /\ acked' = acked /\ torn' = torn
      BY <2>5 DEF super, store, counts
    <3>2. Contained' = Contained
      BY <3>1 DEF Contained
    <3> QED
      BY <3>1, <3>2, <1>0 DEF CInv
  <2>6. ASSUME NEW p \in Paths, Open(p) PROVE CInv'
    BY <2>5, <2>6 DEF Open
  <2>7. ASSUME NEW f \in opened, Close(f) PROVE CInv'
    BY <2>5, <2>7 DEF Close
  <2>8. CASE WriteData
    <3>1. IInv'
      BY <2>0, <2>8, WriteDataStep
    <3> QED
      BY <3>1, <2>0, <2>8, WriteDataContained
  <2>9. CASE WriteDataFails \/ WriteSuperFails
    <3>1. fails' = fails + 1 /\ acked' = acked
      BY <2>9 DEF WriteDataFails, WriteSuperFails
    <3>2. fails' # 0
      BY <3>1, <2>0
    <3> QED
      BY <3>1, <3>2, <1>0 DEF CInv
  <2>10. CASE WriteSuper
    BY <2>0, <2>10, WriteSuperContained
  <2>11. ASSUME NEW S \in Batches, Flush(S) PROVE CInv'
    <3>1. boot # FALSE
      BY <2>11 DEF IInv, Types, Flush
    <3>2. /\ boot' = boot /\ files' = files /\ op' = op /\ view' = view /\ writes' = writes
          /\ fails' = fails /\ acked' = acked /\ torn' = torn
      BY <2>11 DEF Flush, super, counts
    <3>3. Contained => Contained'
      BY <3>1, <3>2 DEF Contained
    <3> QED
      BY <3>2, <3>3, <1>0 DEF CInv
  <2>12. CASE Crash
    BY <2>0, <2>12, CrashContained
  <2> QED
    BY <1>1, <2>1, <2>2, <2>3, <2>4, <2>6, <2>7, <2>8, <2>9, <2>10, <2>11, <2>12 DEF Next
<1>2. CASE UNCHANGED vars
  <2>1. /\ boot' = boot /\ files' = files /\ op' = op /\ view' = view /\ disk' = disk
        /\ writes' = writes /\ fails' = fails /\ acked' = acked /\ torn' = torn
    BY <1>2 DEF vars, super, store, counts
  <2>2. Contained' = Contained
    BY <2>1 DEF Contained
  <2> QED
    BY <2>1, <2>2, <1>0 DEF CInv
<1> QED
  BY <1>1, <1>2

LEMMA ContainedAtomic == ASSUME IInv, CInv PROVE CrashAtomic
<1> DEFINE T == TableIn(disk)
           D == T.files
<1> SUFFICES ASSUME ~torn, Ordered \/ Synced
             PROVE  /\ fails = 0 => \A p \in Paths :
                          ContentIn(disk, p) \in {acked[p]} \cup (IF acked[p] = NoFile THEN {<<>>} ELSE {})
                                     \cup (IF op # Idle /\ op.path = p THEN {op.content} ELSE {})
                    /\ \A i, j \in 0 .. (T.count - 1) :
                          i # j => RunOf(T.files[i]) \cap RunOf(T.files[j]) = {}
  BY DEF CrashAtomic
<1>1. Types /\ Sound /\ torn = FALSE
  BY DEF IInv, Types
<1>2. Whole(D, disk[0], disk) /\ Image(disk) /\ D \in [Slots -> Entry] /\ T.count = disk[0]
      /\ disk[0] \in 0 .. FS_MAX_FILES
  <2>1. Image(disk)
    BY <1>1 DEF Types
  <2> QED
    BY <2>1, <1>1, LoadedWhole, TableInIs DEF Image
<1>3. ASSUME fails = 0, NEW p \in Paths
      PROVE  Ack(acked, p, ContentIn(disk, p))
             \/ (op # Idle /\ op.path = p /\ ContentIn(disk, p) = op.content)
  <2>1. Reads(D, disk, p, ContentIn(disk, p))
    BY <1>2, ContentIs
  <2>2. Contained
    BY <1>1, <1>3 DEF CInv
  <2>3. CASE Ordered
    BY <2>1, <2>2, <2>3, <1>1 DEF Contained, OnDisk, Ordered, Types
  <2>4. CASE Synced
    <3>1. op = Idle /\ view = disk /\ D = files
      BY <2>4, TableIs DEF Synced
    <3> HIDE DEF D
    <3> QED
      BY <3>1, <2>1, <2>2, OpKinds DEF Contained, Kept
  <2> QED
    BY <2>3, <2>4
<1>4. ASSUME NEW i \in 0 .. (T.count - 1), NEW j \in 0 .. (T.count - 1), i # j
      PROVE  RunOf(D[i]) \cap RunOf(D[j]) = {}
  <2> HIDE DEF D
  <2>1. i \in Slots /\ j \in Slots
    BY <1>2, Layout DEF Slots
  <2>2. CASE D[i].type = "FREE" \/ D[j].type = "FREE"
    BY <2>2 DEF RunOf
  <2>3. CASE D[i].type # "FREE" /\ D[j].type # "FREE"
    BY <2>1, <2>3, <1>2, <1>4 DEF Whole, Separate
  <2> QED
    BY <2>2, <2>3
<1> QED
  BY <1>3, <1>4 DEF Ack

\* A power failure between any two sectors, of an instance that writes to its device
\* directly and met no failure, or of the boot instance once the cache is flushed:
\* every path is found with its last finished write or the one under way, and no two
\* files share a sector.  The table may be of any size, as long as no directory is
\* ever put into the slot whose number is FS_DIR_ROOT, where alloc_slot_inst can put one
\* when the table has more than 255 entries.
THEOREM CrashStaysAtomic == Spec /\ []RootReserved => []CrashAtomic
<1>1. Init => CInv
  BY InitContained
<1>2. IInv /\ CInv /\ RootReserved /\ RootReserved' /\ [Next]_vars => CInv'
  BY StepContained
<1>3. IInv /\ CInv => CrashAtomic
  BY ContainedAtomic
<1> QED
  BY <1>1, <1>2, <1>3, Invariance, PTL DEF Spec

\* The same of a power failure, without a condition, when the table of fs_instance is too
\* small to have a slot of that number.
COROLLARY CrashAtomicWhenSmall ==
    ASSUME FS_DIR_ROOT \notin Slots
    PROVE  Spec => []CrashAtomic
<1>1. RootReserved
  BY DEF RootReserved, Reserved
<1>2. []RootReserved
  BY <1>1, PTL
<1> QED
  BY <1>2, CrashStaysAtomic, PTL

=============================================================================
