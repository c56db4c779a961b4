--------------------------------- MODULE Fs ---------------------------------
(***************************************************************************)
(* AdventFS (kernel/fs.c): one instance, its table of entries and sector   *)
(* bitmap in memory, and the sectors below it.  The boot instance writes   *)
(* through the block cache, which BlockStore.tla stands for: sectors reach *)
(* the disk later and in any order.  The other instances (USB, SATA, NVMe) *)
(* write to their device directly, in the order of the code.               *)
(*                                                                         *)
(* System calls hold the Big Kernel Lock, so one operation runs at a time; *)
(* but it writes several sectors, a write may fail, and the power may go   *)
(* before any of them: each sector written is a step.  Paths have one or   *)
(* two names and start at the root of the instance, as vfs.c passes them;  *)
(* sizes are in sectors; the caller is root, so permissions never refuse.  *)
(***************************************************************************)
EXTENDS Integers, Sequences, FiniteSets

CONSTANTS
    FS_MAX_FILES,   \* entries of the table
    FS_DIR_ROOT,    \* the parent_dir of what lies in the root
    PerSector,      \* entries in one sector of the table
    NData,          \* data sectors
    Paths,          \* the paths that are used: sequences of one or two names
    Sizes,          \* workload: the sizes of the files written
    Batches,        \* workload: the sets of sectors that the cache writes back in a row
    MaxWrites,      \* bound: calls of fs_write_all
    MaxFails        \* bound: failures of a sector write or of kmalloc

ASSUME FsAssumption ==
    /\ FS_MAX_FILES \in Nat \ {0} /\ PerSector \in Nat \ {0} /\ NData \in Nat
    /\ FS_DIR_ROOT \in Nat
    /\ \A p \in Paths : p \in Seq(STRING) /\ Len(p) \in {1, 2}
    /\ Sizes \subseteq Nat /\ MaxWrites \in Nat /\ MaxFails \in Nat

Slots == 0 .. (FS_MAX_FILES - 1)
TableSectors == (FS_MAX_FILES + PerSector - 1) \div PerSector
FS_SUPER_SECTORS == 1 + TableSectors
DataSectors == FS_SUPER_SECTORS .. (FS_SUPER_SECTORS + NData - 1)
Sectors == 0 .. (FS_SUPER_SECTORS + NData - 1)

VARIABLES
    boot,           \* is this the boot instance?
    files, count,   \* inst->super: the entries and file_count
    used,           \* inst->bitmap: the data sectors that are taken
    op,             \* the operation under way
    view, disk,     \* what each sector reads as, and what a power failure leaves
    opened,         \* the FD_FS descriptors: the slot, and the path it was opened by
    writes, fails,  \* calls of fs_write_all, and failures, so far
    acked,          \* history: what each path holds by the operations that returned 0
    torn            \* history: the power went when the disk was behind

super  == <<files, count, used>>
store  == <<view, disk>>
counts == <<writes, fails>>
vars   == <<boot, super, op, store, opened, counts, acked, torn>>

Names == UNION {{p[i] : i \in 1 .. Len(p)} : p \in Paths}
FreeEntry == [type |-> "FREE", name |-> "", parent |-> FS_DIR_ROOT, start |-> 0, size |-> 0]
NoFile == <<<<-1, -1>>>>     \* the contents of a path that names no file
Idle == [phase |-> "idle"]

TypeOK ==
    /\ DOMAIN files = Slots /\ count \in 0 .. FS_MAX_FILES
    /\ \A i \in Slots :
          /\ files[i].type \in {"FREE", "FILE", "DIR"}
          /\ files[i].parent \in Slots \cup {FS_DIR_ROOT}
          /\ files[i].size > 0 => /\ files[i].type = "FILE"
                                  /\ files[i].start \in DataSectors
    /\ used \subseteq DataSectors
    /\ DOMAIN view = Sectors /\ DOMAIN disk = Sectors
    /\ op.phase \in {"idle", "data", "super"}

-----------------------------------------------------------------------------
(* The table                                                               *)

First(S) == {i \in S : \A j \in S : i <= j}

\* find_in_dir_inst, in table T.
Find(T, dir, n) ==
    First({i \in 0 .. (T.count - 1) : T.files[i].type # "FREE" /\ T.files[i].parent = dir
                                      /\ T.files[i].name = n})

\* split_path_inst: the directory that the last name of p is looked up in.
DirOf(T, p) ==
    IF Len(p) = 1 THEN {FS_DIR_ROOT}
    ELSE {i \in Find(T, FS_DIR_ROOT, p[1]) : T.files[i].type = "DIR"}

\* fs_iopen_inst.
Resolved(T, p) == UNION {Find(T, d, p[Len(p)]) : d \in DirOf(T, p)}

Table == [files |-> files, count |-> count]

\* Mutant of FreeSlot: the size of the table is not looked at.
FreeSlotUnbounded ==
    LET free == {i \in 0 .. (count - 1) : files[i].type = "FREE"}
    IN  IF free # {} THEN First(free) ELSE {count}

\* alloc_slot_inst: a FREE entry, or the next one after file_count.
FreeSlot ==
    LET free == {i \in 0 .. (count - 1) : files[i].type = "FREE"}
    IN  IF free # {} THEN First(free) ELSE {i \in Slots : i = count}

\* The table with entry e in slot i.
With(i, e) == [files |-> [j \in Slots \cup {i} |-> IF j = i THEN e ELSE files[j]],
               count |-> IF i < count THEN count ELSE i + 1]

Becomes(T) == files' = T.files /\ count' = T.count

\* The sectors of a run; one of an entry, which has none when it is empty.
Run(start, n) == start .. (start + n - 1)
RunOf(e) == IF e.type = "FILE" THEN Run(e.start, e.size) ELSE {}

\* Mutant of Fresh: the old run may be used again at once.
FreshOrOld(n, old) == First({s \in DataSectors : Run(s, n) \subseteq (DataSectors \ used) \cup old})

\* bitmap_alloc_run: the first n free sectors in a row.
Fresh(n, old) == First({s \in DataSectors : Run(s, n) \subseteq DataSectors \ used})

-----------------------------------------------------------------------------
(* The superblock on disk                                                  *)

SlotsIn(t) == {i \in Slots : i \div PerSector = t - 1}

\* Sector s of the superblock as memory has it.
SuperSector(s) == IF s = 0 THEN count ELSE [i \in SlotsIn(s) |-> files[i]]

\* The table in an image of the sectors.
TableIn(I) == [files |-> [i \in Slots |-> I[1 + i \div PerSector][i]], count |-> I[0]]

\* load_superblock: the bitmap from the table.  Empty files have no sector here.
UsedBy(T) == (UNION {RunOf(T.files[i]) : i \in 0 .. (T.count - 1)}) \cap DataSectors

\* What reading path p gives in an image: the sequence of its sectors.
ContentIn(I, p) ==
    LET T == TableIn(I)
        at == {i \in Resolved(T, p) : T.files[i].type = "FILE"}
        Sector(e, k) == IF e.start + k - 1 \in DataSectors THEN I[e.start + k - 1] ELSE <<0, 0>>
    IN  IF at = {} THEN NoFile
        ELSE LET e == T.files[CHOOSE i \in at : TRUE]
             IN  [k \in 1 .. e.size |-> Sector(e, k)]

\* An image fresh from mkfs, with no file.
Init ==
    /\ boot \in BOOLEAN
    /\ files = [i \in Slots |-> FreeEntry] /\ count = 0 /\ used = {}
    /\ op = Idle
    /\ view = [s \in Sectors |-> IF s = 0 THEN 0
                                 ELSE IF s < FS_SUPER_SECTORS THEN [i \in SlotsIn(s) |-> FreeEntry]
                                 ELSE <<0, 0>>]
    /\ disk = view
    /\ opened = {}
    /\ writes = 0 /\ fails = 0
    /\ acked = [p \in Paths |-> NoFile] /\ torn = FALSE

-----------------------------------------------------------------------------
(* Operations.  Each changes memory first and then writes the superblock;  *)
(* fs_write_all writes its data before that.                               *)

\* inst_write_sector: through the cache, or to the device.
WriteSector(s, v) ==
    /\ view' = [view EXCEPT ![s] = v]
    /\ disk' = IF boot THEN disk ELSE [disk EXCEPT ![s] = v]

Superblock(p, content) == [phase |-> "super", at |-> 0, path |-> p, content |-> content]

\* The write number w of n sectors.
Written(w, n) == [k \in 1 .. n |-> <<w, k>>]

Needed(n) == IF n = 0 THEN 1 ELSE n

\* fs_iwrite_all_inst to the first sector: find_or_create_file_inst, and a fresh
\* run.  The new entry stays when there is no room for its data.
WriteAll(p, n) ==
    LET here == Resolved(Table, p)
        slots == IF here # {} THEN here ELSE IF DirOf(Table, p) = {} THEN {} ELSE FreeSlot
    IN  /\ op = Idle /\ writes < MaxWrites
        /\ writes' = writes + 1
        /\ \E i \in slots, d \in DirOf(Table, p) :
              /\ here # {} => files[i].type = "FILE"
              /\ Becomes(IF here # {} THEN Table
                         ELSE With(i, [FreeEntry EXCEPT !.type = "FILE", !.parent = d,
                                                        !.name = p[Len(p)]]))
              /\ LET starts == Fresh(Needed(n), IF here # {} THEN RunOf(files[i]) ELSE {})
                 IN  IF starts = {} THEN UNCHANGED <<op, used>>
                     ELSE \E s \in starts :
                             /\ used' = used \cup Run(s, Needed(n))
                             /\ op' = [phase |-> "data", slot |-> i, start |-> s, size |-> n,
                                       at |-> 0, path |-> p, content |-> Written(writes', n)]
        /\ UNCHANGED <<boot, store, opened, fails, acked, torn>>

\* The next sector of data; after the last one the entry gets the new run and the
\* old run is freed.
WriteData ==
    /\ op.phase = "data"
    /\ WriteSector(op.start + op.at, <<writes, op.at + 1>>)
    /\ IF op.at + 1 < Needed(op.size)
       THEN op' = [op EXCEPT !.at = @ + 1] /\ UNCHANGED super
       ELSE /\ files' = [files EXCEPT ![op.slot].start = op.start, ![op.slot].size = op.size]
            /\ used' = used \ RunOf(files[op.slot])
            /\ op' = Superblock(op.path, op.content)
            /\ UNCHANGED count
    /\ UNCHANGED <<boot, opened, counts, acked, torn>>

\* The device refuses the sector: the run is given back.
WriteDataFails ==
    /\ op.phase = "data" /\ ~boot /\ fails < MaxFails
    /\ fails' = fails + 1
    /\ used' = used \ Run(op.start, Needed(op.size))
    /\ op' = Idle
    /\ UNCHANGED <<boot, files, count, store, opened, writes, acked, torn>>

\* The next sector of fs_write_super_inst, and the return of the operation.
WriteSuper ==
    /\ op.phase = "super"
    /\ WriteSector(op.at, SuperSector(op.at))
    /\ IF op.at < TableSectors
       THEN op' = [op EXCEPT !.at = @ + 1] /\ UNCHANGED acked
       ELSE op' = Idle /\ acked' = [acked EXCEPT ![op.path] = op.content]
    /\ UNCHANGED <<boot, super, opened, counts, torn>>

\* kmalloc fails, or the device refuses a sector: -1, and memory stays ahead.
WriteSuperFails ==
    /\ op.phase = "super" /\ fails < MaxFails
    /\ op.at = 0 \/ ~boot
    /\ fails' = fails + 1
    /\ op' = Idle
    /\ UNCHANGED <<boot, super, store, opened, writes, acked, torn>>

\* fs_imkdir_inst.
Mkdir(p) ==
    /\ op = Idle
    /\ \E d \in DirOf(Table, p), i \in FreeSlot :
          /\ Find(Table, d, p[Len(p)]) = {}
          /\ Becomes(With(i, [FreeEntry EXCEPT !.type = "DIR", !.parent = d, !.name = p[Len(p)]]))
    /\ op' = Superblock(p, NoFile)
    /\ UNCHANGED <<boot, used, store, opened, counts, acked, torn>>

\* Mutant of Busy: open descriptors are not counted.
BusyNever(i) == FALSE

\* fs_entry_open_refs.
Busy(i) == \E f \in opened : f.slot = i

\* fs_unlink, on the boot instance.
Unlink(p) ==
    /\ op = Idle /\ boot
    /\ \E i \in Resolved(Table, p) :
          /\ files[i].type = "FILE" /\ ~Busy(i)
          /\ used' = used \ RunOf(files[i])
          /\ Becomes(With(i, FreeEntry))
    /\ op' = Superblock(p, NoFile)
    /\ UNCHANGED <<boot, store, opened, counts, acked, torn>>

\* fs_rmdir, on the boot instance, of an empty directory.  Open descriptors are
\* not looked at.
Rmdir(p) ==
    /\ op = Idle /\ boot
    /\ \E i \in Resolved(Table, p) :
          /\ files[i].type = "DIR"
          /\ \A j \in 0 .. (count - 1) : j # i /\ files[j].type # "FREE" => files[j].parent # i
          /\ Becomes(With(i, FreeEntry))
    /\ op' = Superblock(p, NoFile)
    /\ UNCHANGED <<boot, used, store, opened, counts, acked, torn>>

\* SYS_OPEN and SYS_CLOSE of a file.
Open(p) ==
    /\ op = Idle
    /\ \E i \in Resolved(Table, p) :
          files[i].type = "FILE" /\ opened' = opened \cup {[slot |-> i, path |-> p]}
    /\ UNCHANGED <<boot, super, op, store, counts, acked, torn>>

Close(f) ==
    /\ op = Idle
    /\ opened' = opened \ {f}
    /\ UNCHANGED <<boot, super, op, store, counts, acked, torn>>

-----------------------------------------------------------------------------
(* The storage                                                             *)

\* The cache writes the sectors S back: steps WriteBack of BlockStore in a row.
Flush(S) ==
    /\ \E s \in S : view[s] # disk[s]
    /\ disk' = [s \in Sectors |-> IF s \in S THEN view[s] ELSE disk[s]]
    /\ UNCHANGED <<boot, super, op, view, opened, counts, acked, torn>>

\* A crash now would leave what the operations that returned have done, or, with
\* the one under way, done or not done.
Ordered == ~boot /\ fails = 0
Synced == op = Idle /\ view = disk /\ TableIn(disk) = Table

\* The power goes, and the machine starts again: fs_create_instance.
Crash ==
    LET T == TableIn(disk)
    IN  /\ Becomes(T)
        /\ used' = UsedBy(T)
        /\ op' = Idle
        /\ view' = disk
        /\ opened' = {}
        /\ acked' = [p \in Paths |-> ContentIn(disk, p)]
        /\ torn' = (torn \/ ~(Ordered \/ Synced))
        /\ UNCHANGED <<boot, disk, counts>>

\* A torn image is not followed any further.
Next ==
    /\ ~torn
    /\ \/ \E p \in Paths : \/ \E n \in Sizes : WriteAll(p, n)
                           \/ Mkdir(p) \/ Unlink(p) \/ Rmdir(p) \/ Open(p)
       \/ WriteData \/ WriteDataFails \/ WriteSuper \/ WriteSuperFails
       \/ \E f \in opened : Close(f)
       \/ \E S \in Batches : Flush(S)
       \/ Crash

Spec == Init /\ [][Next]_vars

-----------------------------------------------------------------------------
(* Properties                                                              *)

Live == {i \in 0 .. (count - 1) : files[i].type # "FREE"}

\* As long as no crash has caught the disk behind, whatever operations fail half
\* way: no two files share a sector, no sector of a file can be given out again,
\* every entry lies in a live directory under a name of its own, every file reads
\* as one whole write, and an open descriptor still names the file it was opened
\* on.
TreeSound ==
    ~torn =>
    /\ \A i \in Slots : i >= count => files[i].type = "FREE"
    /\ \A i, j \in Live : i # j =>
          /\ RunOf(files[i]) \cap RunOf(files[j]) = {}
          /\ <<files[i].parent, files[i].name>> # <<files[j].parent, files[j].name>>
    /\ \A i \in Live :
          /\ RunOf(files[i]) \subseteq used
          /\ files[i].parent # FS_DIR_ROOT =>
                files[i].parent \in Live /\ files[files[i].parent].type = "DIR"
          /\ \A s, t \in RunOf(files[i]) : view[s][1] = view[t][1]
                                           /\ view[s][2] = s - files[i].start + 1
    /\ \A f \in opened : f.slot \in Resolved(Table, f.path) /\ files[f.slot].type = "FILE"

\* fs.h: FS_DIR_ROOT is a "sentinel parent_dir for entries at /", so no directory has
\* that index: what is put into one would lie in the root as well.
Reserved(F) == FS_DIR_ROOT \in Slots => F[FS_DIR_ROOT].type # "DIR"
RootReserved == Reserved(files)

\* A power failure at any moment, also between two sectors of an operation, on an
\* instance that writes to its device directly and met no failure; and on the boot
\* instance once the cache is flushed: every path is found with the contents of
\* its last finished write, or of the one under way (an unfinished first write
\* may leave an empty file), and no two files share a sector.
CrashAtomic ==
    ~torn /\ (Ordered \/ Synced) =>
    LET T == TableIn(disk)
    IN  /\ fails = 0 => \A p \in Paths :
              ContentIn(disk, p) \in {acked[p]} \cup (IF acked[p] = NoFile THEN {<<>>} ELSE {})
                                     \cup (IF op # Idle /\ op.path = p THEN {op.content} ELSE {})
        /\ \A i, j \in 0 .. (T.count - 1) :
              i # j => RunOf(T.files[i]) \cap RunOf(T.files[j]) = {}

=============================================================================
