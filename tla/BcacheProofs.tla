---------------------------- MODULE BcacheProofs ----------------------------
(***************************************************************************)
(* Machine-checked proofs about the write-back cache of kernel/bcache.c,   *)
(* for any number of slots, sectors and sector contents, with every        *)
(* outcome of the disk's reads and writes.                                 *)
(***************************************************************************)
EXTENDS Bcache, TLAPS

-----------------------------------------------------------------------------
(* The list of slots                                                       *)

\* touch keeps the list a permutation of the slots.
LEMMA TouchedType ==
    ASSUME TypeOK, NEW s \in Slots
    PROVE  /\ Touched(s) \in [1 .. BCACHE_NR -> Slots]
           /\ \A r \in Slots : \E i \in 1 .. BCACHE_NR : Touched(s)[i] = r
    <1> USE BcacheAssumption
    <1> DEFINE k == CHOOSE i \in 1 .. BCACHE_NR : lru[i] = s
    <1>1. k \in 1 .. BCACHE_NR /\ lru[k] = s
        BY DEF TypeOK
    <1> HIDE DEF k
    <1>2. Touched(s) = [i \in 1 .. BCACHE_NR |->
                           IF i = 1 THEN s ELSE IF i <= k THEN lru[i - 1] ELSE lru[i]]
        BY DEF Touched, k
    <1>3. lru \in [1 .. BCACHE_NR -> Slots]
        BY DEF TypeOK
    <1>4. Touched(s) \in [1 .. BCACHE_NR -> Slots]
        BY <1>1, <1>2, <1>3
    <1>5. ASSUME NEW r \in Slots
          PROVE  \E i \in 1 .. BCACHE_NR : Touched(s)[i] = r
        <2>1. CASE r = s
            BY <1>2, <2>1
        <2>2. CASE r # s
            <3>1. PICK j \in 1 .. BCACHE_NR : lru[j] = r
                BY DEF TypeOK
            <3>2. CASE j < k
                <4>1. j + 1 \in 1 .. BCACHE_NR /\ Touched(s)[j + 1] = lru[j]
                    BY <1>1, <1>2, <3>2
                <4> QED BY <3>1, <4>1
            <3>3. CASE j > k
                <4>1. Touched(s)[j] = lru[j]
                    BY <1>1, <1>2, <3>3
                <4> QED BY <3>1, <4>1
            <3>4. j # k
                BY <1>1, <2>2, <3>1
            <3> QED BY <1>1, <3>2, <3>3, <3>4
        <2> QED BY <2>1, <2>2
    <1> QED BY <1>4, <1>5

\* g_tail is a slot.
LEMMA TailType == TypeOK => g_tail \in Slots
    BY BcacheAssumption DEF TypeOK, g_tail

-----------------------------------------------------------------------------
(* Types and one copy of each sector                                       *)

\* A snapshot is only held while a sync stands at a slot.
HeldWhileSyncing == held # {} => Syncing

BaseInv == TypeOK /\ OneCopy /\ HeldWhileSyncing

\* An empty slot is an entry that holds nothing.
LEMMA EmptyType == Empty \in Entries /\ ~Empty.valid /\ ~Empty.dirty
    BY BcacheAssumption DEF Empty, Entries

\* bcache_init makes an empty cache.
LEMMA InitBase == Init => BaseInv
    <1> SUFFICES ASSUME Init PROVE BaseInv
        OBVIOUS
    <1> USE BcacheAssumption
    <1>1. entry \in [Slots -> Entries] /\ disk \in [Lbas -> Values] /\ written \in [Lbas -> Values]
        BY EmptyType DEF Init
    <1>2. lru \in [1 .. BCACHE_NR -> Slots]
        BY DEF Init, Slots
    <1>3. ASSUME NEW s \in Slots
          PROVE  \E i \in 1 .. BCACHE_NR : lru[i] = s
        <2>1. s + 1 \in 1 .. BCACHE_NR /\ lru[s + 1] = s
            BY DEF Init, Slots
        <2> QED BY <2>1
    <1>4. TypeOK
        BY <1>1, <1>2, <1>3 DEF Init, TypeOK
    <1>5. OneCopy
        BY EmptyType DEF Init, OneCopy
    <1>6. HeldWhileSyncing
        BY DEF Init, HeldWhileSyncing
    <1> QED BY <1>4, <1>5, <1>6 DEF BaseInv

\* The disk and the losses after reserve_lru.
LEMMA EvictType ==
    ASSUME TypeOK, NEW ok \in BOOLEAN
    PROVE  /\ DiskAfter(ok) \in [Lbas -> Values]
           /\ LostAfter(ok) \subseteq Lbas /\ StaleAfter \subseteq Lbas
    <1>1. g_tail \in Slots /\ entry[g_tail].lba \in Lbas /\ entry[g_tail].data \in Values
        BY TailType DEF TypeOK, Entries
    <1>2. StaleAfter \subseteq stale \cup {entry[g_tail].lba}
        BY DEF StaleAfter
    <1> QED BY <1>1, <1>2 DEF TypeOK, DiskAfter, LostAfter

\* Entries stay entries when some of their fields change.
LEMMA EntryExcept ==
    ASSUME NEW e \in Entries, NEW b \in BOOLEAN, NEW v \in Values
    PROVE  /\ [e EXCEPT !.dirty = b] \in Entries
           /\ [e EXCEPT !.data = v, !.dirty = TRUE] \in Entries
    BY DEF Entries

\* Every step keeps types and one copy of each sector.
LEMMA NextBase ==
    ASSUME BaseInv, [Next]_vars
    PROVE  BaseInv'
    <1> USE BcacheAssumption
    <1>1. TypeOK /\ OneCopy /\ HeldWhileSyncing
        BY DEF BaseInv
    <1>2. g_tail \in Slots
        BY <1>1, TailType
    <1>3. ASSUME NEW l \in Lbas, ReadHit(l)
          PROVE  BaseInv'
        <2>1. PICK s \in Slots : lru' = Touched(s)
            BY <1>3 DEF ReadHit, Cached
        <2>2. UNCHANGED <<entry, disk, at, held, written, lost, stale>>
            BY <1>3 DEF ReadHit
        <2>3. TypeOK'
            BY <1>1, <2>1, <2>2, TouchedType DEF TypeOK
        <2> QED BY <1>1, <2>2, <2>3 DEF BaseInv, OneCopy, HeldWhileSyncing, Syncing
    <1>4. ASSUME NEW l \in Lbas, NEW wb \in BOOLEAN, NEW rd \in BOOLEAN, ReadMiss(l, wb, rd)
          PROVE  BaseInv'
        <2>1. disk' \in [Lbas -> Values] /\ lost' \subseteq Lbas /\ stale' \subseteq Lbas
            BY <1>1, <1>4, EvictType DEF ReadMiss
        <2>2. UNCHANGED <<at, held, written>> /\ \A s \in Slots : ~(entry[s].valid /\ entry[s].lba = l)
            BY <1>4 DEF ReadMiss, Cached
        <2>3. CASE rd
            <3>1. /\ entry' = [entry EXCEPT ![g_tail] = [valid |-> TRUE, dirty |-> FALSE,
                                                         lba |-> l, data |-> disk'[l]]]
                  /\ lru' = Touched(g_tail)
                BY <1>4, <2>3 DEF ReadMiss
            <3>2. entry' \in [Slots -> Entries]
                BY <1>1, <2>1, <3>1 DEF TypeOK, Entries
            <3>3. TypeOK'
                <4>1. /\ lru' \in [1 .. BCACHE_NR -> Slots]
                      /\ \A r \in Slots : \E i \in 1 .. BCACHE_NR : lru'[i] = r
                    BY <1>1, <1>2, <3>1, TouchedType
                <4> QED BY <1>1, <2>1, <2>2, <3>2, <4>1 DEF TypeOK
            <3>4. OneCopy'
                BY <1>1, <2>2, <3>1 DEF TypeOK, OneCopy
            <3> QED BY <1>1, <2>2, <3>3, <3>4 DEF BaseInv, HeldWhileSyncing, Syncing
        <2>4. CASE ~rd
            <3>1. /\ entry' = [entry EXCEPT ![g_tail] = Empty]
                  /\ lru' = lru
                BY <1>4, <2>4 DEF ReadMiss
            <3>2. entry' \in [Slots -> Entries]
                BY <1>1, <3>1, EmptyType DEF TypeOK
            <3>3. TypeOK'
                BY <1>1, <2>1, <2>2, <3>1, <3>2 DEF TypeOK
            <3>4. OneCopy'
                BY <1>1, <1>2, <3>1, EmptyType DEF TypeOK, OneCopy
            <3> QED BY <1>1, <2>2, <3>3, <3>4 DEF BaseInv, HeldWhileSyncing, Syncing
        <2> QED BY <2>3, <2>4
    <1>5. ASSUME NEW l \in Lbas, NEW v \in Values, WriteHit(l, v)
          PROVE  BaseInv'
        <2>1. PICK s \in Slots : /\ entry' = [entry EXCEPT ![s].data = v, ![s].dirty = TRUE]
                                 /\ lru' = Touched(s)
            BY <1>5 DEF WriteHit, Cached
        <2>2. /\ UNCHANGED <<disk, at, held>>
              /\ written' = [written EXCEPT ![l] = v] /\ lost' = lost \ {l} /\ stale' = stale \ {l}
            BY <1>5 DEF WriteHit
        <2>3. entry' \in [Slots -> Entries]
            BY <1>1, <2>1, EntryExcept DEF TypeOK
        <2>4. TypeOK'
            <3>1. /\ lru' \in [1 .. BCACHE_NR -> Slots]
                  /\ \A r \in Slots : \E i \in 1 .. BCACHE_NR : lru'[i] = r
                BY <1>1, <2>1, TouchedType
            <3> QED BY <1>1, <2>2, <2>3, <3>1 DEF TypeOK
        <2>5. OneCopy'
            BY <1>1, <2>1 DEF TypeOK, Entries, OneCopy
        <2> QED BY <1>1, <2>2, <2>4, <2>5 DEF BaseInv, HeldWhileSyncing, Syncing
    <1>6. ASSUME NEW l \in Lbas, NEW v \in Values, NEW wb \in BOOLEAN, WriteMiss(l, v, wb)
          PROVE  BaseInv'
        <2>1. disk' \in [Lbas -> Values] /\ lost' \subseteq Lbas /\ stale' \subseteq Lbas
            BY <1>1, <1>6, EvictType DEF WriteMiss
        <2>2. /\ UNCHANGED <<at, held>> /\ \A s \in Slots : ~(entry[s].valid /\ entry[s].lba = l)
              /\ written' = [written EXCEPT ![l] = v]
              /\ entry' = [entry EXCEPT ![g_tail] = [valid |-> TRUE, dirty |-> TRUE,
                                                     lba |-> l, data |-> v]]
              /\ lru' = Touched(g_tail)
            BY <1>6 DEF WriteMiss, Cached
        <2>3. entry' \in [Slots -> Entries]
            BY <1>1, <2>2 DEF TypeOK, Entries
        <2>4. TypeOK'
            <3>1. /\ lru' \in [1 .. BCACHE_NR -> Slots]
                  /\ \A r \in Slots : \E i \in 1 .. BCACHE_NR : lru'[i] = r
                BY <1>1, <1>2, <2>2, TouchedType
            <3> QED BY <1>1, <2>1, <2>2, <2>3, <3>1 DEF TypeOK
        <2>5. OneCopy'
            BY <1>1, <2>2 DEF TypeOK, OneCopy
        <2> QED BY <1>1, <2>2, <2>4, <2>5 DEF BaseInv, HeldWhileSyncing, Syncing
    <1>7. CASE SyncStart \/ SyncSkip
        <2>1. UNCHANGED <<entry, lru, disk, held, written, lost, stale>> /\ held' = {}
            BY <1>1, <1>7 DEF SyncStart, SyncSkip, HeldWhileSyncing
        <2>2. at' \in Slots \cup {BCACHE_NR}
            BY <1>1, <1>7 DEF SyncStart, SyncSkip, Syncing, TypeOK, Slots
        <2> QED BY <1>1, <2>1, <2>2 DEF BaseInv, TypeOK, OneCopy, HeldWhileSyncing
    <1>8. CASE SyncSnapshot
        <2>1. /\ at \in Slots /\ Syncing /\ UNCHANGED <<lru, disk, at, written, lost, stale>>
              /\ held'  = {<<entry[at].lba, entry[at].data>>}
              /\ entry' = [entry EXCEPT ![at].dirty = FALSE]
            BY <1>1, <1>8 DEF SyncSnapshot, Syncing, TypeOK
        <2>2. entry' \in [Slots -> Entries]
            BY <1>1, <2>1, EntryExcept DEF TypeOK
        <2>4. held' \subseteq Lbas \X Values
            BY <1>1, <2>1 DEF TypeOK, Entries
        <2>3. OneCopy'
            BY <1>1, <2>1 DEF TypeOK, Entries, OneCopy
        <2> QED BY <1>1, <2>1, <2>2, <2>3, <2>4 DEF BaseInv, TypeOK, HeldWhileSyncing, Syncing
    <1>9. CASE SyncWrite
        <2>1. PICK h \in held : disk' = [disk EXCEPT ![h[1]] = h[2]]
            BY <1>9 DEF SyncWrite
        <2>2. /\ held' = {} /\ at' = at + 1 /\ UNCHANGED <<entry, lru, written, lost>>
              /\ at \in Slots /\ stale' \subseteq stale
            BY <1>1, <1>9 DEF SyncWrite, TypeOK, HeldWhileSyncing, Syncing
        <2>3. disk' \in [Lbas -> Values] /\ at' \in Slots \cup {BCACHE_NR}
            BY <1>1, <2>1, <2>2 DEF TypeOK, Slots
        <2> QED BY <1>1, <2>2, <2>3 DEF BaseInv, TypeOK, OneCopy, HeldWhileSyncing
    <1>10. CASE SyncFail
        <2>1. PICK h \in held : entry' = [entry EXCEPT ![at].dirty =
                                   (entry[at].valid /\ entry[at].lba = h[1]) \/ entry[at].dirty]
            BY <1>10 DEF SyncFail
        <2>2. /\ held' = {} /\ at' = at + 1 /\ UNCHANGED <<lru, disk, written>> /\ at \in Slots
              /\ lost' \subseteq lost \cup stale /\ stale' \subseteq stale
            BY <1>1, <1>10 DEF SyncFail, TypeOK, HeldWhileSyncing, Syncing
        <2>3. entry' \in [Slots -> Entries] /\ at' \in Slots \cup {BCACHE_NR}
            <3>1. /\ entry[at] \in Entries
                  /\ ((entry[at].valid /\ entry[at].lba = h[1]) \/ entry[at].dirty) \in BOOLEAN
                BY <1>1, <2>2 DEF TypeOK, Entries
            <3>2. entry' \in [Slots -> Entries]
                BY <1>1, <2>1, <3>1, EntryExcept DEF TypeOK
            <3> QED BY <1>1, <2>2, <3>2 DEF TypeOK, Slots
        <2>4. OneCopy'
            BY <1>1, <2>1, <2>2 DEF TypeOK, Entries, OneCopy
        <2> QED BY <1>1, <2>2, <2>3, <2>4 DEF BaseInv, TypeOK, HeldWhileSyncing
    <1>11. CASE UNCHANGED vars
        BY <1>1, <1>11 DEF vars, BaseInv, TypeOK, OneCopy, HeldWhileSyncing, Syncing
    <1> QED BY <1>3, <1>4, <1>5, <1>6, <1>7, <1>8, <1>9, <1>10, <1>11 DEF Next, Sync

-----------------------------------------------------------------------------
(* Contents, with page faults reading beside a sync                        *)

\* Slot s holds sector l; bcache_sync is writing sector l.
Holds(s, l) == entry[s].valid /\ entry[s].lba = l
Flies(l) == \E h \in held : h[1] = l

\* One snapshot at a time, of a sector that then has no dirty copy: nothing
\* writes while a sync is under way.
OneSnapshot ==
    /\ \A g, h \in held : g = h
    /\ \A s \in Slots : entry[s].valid /\ Flies(entry[s].lba) => ~entry[s].dirty

\* Of a lost sector only what the disk holds is left anywhere.
LostRead(l) ==
    l \in lost =>
        /\ l \notin stale
        /\ \A s \in Slots : Holds(s, l) => entry[s].data = disk[l]
        /\ \A h \in held : h[1] = l => h[2] = disk[l]

\* A stale sector is being written and reads as the disk; or it has been, and an
\* older clean copy hides what the disk holds by now.
StaleRead(l) ==
    l \in stale =>
        /\ \A s \in Slots : Holds(s, l) => ~entry[s].dirty
        /\ \A h \in held : h[1] = l => h[2] = written[l]
        /\ Flies(l) => \A s \in Slots : Holds(s, l) => entry[s].data = disk[l]
        /\ ~Flies(l) => disk[l] = written[l] /\ \E s \in Slots : Holds(s, l)

\* Every other sector is what was written last, in its slot or on the disk; while
\* it is being written it is in the slot where bcache_sync stands.
KeptRead(l) ==
    l \notin lost /\ l \notin stale =>
        /\ \A s \in Slots : Holds(s, l) => entry[s].data = written[l]
        /\ \A s \in Slots : Holds(s, l) /\ ~entry[s].dirty /\ ~Flies(l)
                            => entry[s].data = disk[l]
        /\ (\A s \in Slots : ~Holds(s, l)) => disk[l] = written[l]
        /\ \A h \in held : h[1] = l => h[2] = written[l] /\ Holds(at, l)

SectorRead(l) == LostRead(l) /\ StaleRead(l) /\ KeptRead(l)

FullInv == BaseInv /\ OneSnapshot /\ \A l \in Lbas : SectorRead(l)

\* bcache_init makes a cache that hides nothing of the disk.
LEMMA InitFull == Init => FullInv
    <1> SUFFICES ASSUME Init PROVE FullInv
        OBVIOUS
    <1>1. held = {} /\ disk = written /\ lost = {} /\ stale = {}
        BY DEF Init
    <1>2. \A s \in Slots : ~entry[s].valid
        BY EmptyType DEF Init
    <1> QED BY <1>1, <1>2, InitBase DEF FullInv, OneSnapshot, SectorRead, LostRead, StaleRead, KeptRead, Holds

\* What reserve_lru leaves alone, and what becomes of the sector it gives up.
SameBut(d, lo, st, m) ==
    \A l \in Lbas \ {m} : d[l] = disk[l] /\ (l \in lo <=> l \in lost) /\ (l \in st <=> l \in stale)

\* reserve_lru touches no other sector than the one it gives up.
LEMMA EvictSame ==
    ASSUME TypeOK, NEW wb \in BOOLEAN
    PROVE  /\ SameBut(DiskAfter(wb), LostAfter(wb), StaleAfter, entry[g_tail].lba)
           /\ ~entry[g_tail].valid => /\ DiskAfter(wb) = disk /\ LostAfter(wb) = lost
                                      /\ StaleAfter = stale
    <1>1. g_tail \in Slots /\ entry[g_tail].lba \in Lbas
        BY TailType DEF TypeOK, Entries
    <1>2. DiskAfter(wb) = disk \/ DiskAfter(wb) = [disk EXCEPT ![entry[g_tail].lba] = entry[g_tail].data]
        BY DEF DiskAfter
    <1>3. \A l \in Lbas \ {entry[g_tail].lba} :
             DiskAfter(wb)[l] = disk[l] /\ (l \in LostAfter(wb) <=> l \in lost)
        BY <1>1, <1>2 DEF TypeOK, LostAfter
    <1>4. \A l \in Lbas \ {entry[g_tail].lba} : l \in StaleAfter <=> l \in stale
        BY DEF StaleAfter
    <1>5. ~entry[g_tail].valid => /\ DiskAfter(wb) = disk /\ LostAfter(wb) = lost
                                  /\ StaleAfter = stale
        BY DEF DiskAfter, LostAfter, StaleAfter, WritesBack
    <1> QED BY <1>3, <1>4, <1>5 DEF SameBut

\* The sector given up is then lost, stale, or on the disk as written last.
LEMMA EvictOne ==
    ASSUME FullInv, NEW wb \in BOOLEAN, entry[g_tail].valid
    PROVE  LET m == entry[g_tail].lba
               d == DiskAfter(wb)
           IN  /\ m \in LostAfter(wb) => m \notin StaleAfter /\ \A h \in held : h[1] = m => h[2] = d[m]
               /\ m \in StaleAfter => Flies(m) /\ \A h \in held : h[1] = m => h[2] = written[m]
               /\ m \notin LostAfter(wb) /\ m \notin StaleAfter
                  => ~Flies(m) /\ d[m] = written[m]
    <1>1. g_tail \in Slots /\ entry[g_tail].lba \in Lbas /\ TypeOK
        BY TailType DEF TypeOK, Entries, FullInv, BaseInv
    <1> DEFINE e == g_tail
               m == entry[g_tail].lba
    <1>2. Holds(e, m)
        BY DEF Holds
    <1>3. m \in InFlight <=> Flies(m)
        BY DEF InFlight, Flies
    <1>4. CASE entry[e].dirty
        <2>1. ~Flies(m) /\ m \notin stale
            BY <1>1, <1>2, <1>4 DEF FullInv, SectorRead, OneSnapshot, StaleRead
        <2>2. m \notin StaleAfter
            BY <1>3, <2>1 DEF StaleAfter
        <2>3. m \in lost => entry[e].data = disk[m]
            BY <1>1, <1>2 DEF FullInv, SectorRead, LostRead
        <2>4. m \notin lost => entry[e].data = written[m]
            BY <1>1, <1>2, <2>1 DEF FullInv, SectorRead, KeptRead
        <2>5. \A h \in held : h[1] # m
            BY <2>1 DEF Flies
        <2>6. CASE wb
            <3>1. DiskAfter(wb)[m] = entry[e].data /\ LostAfter(wb) = lost
                BY <1>1, <1>4, <2>6 DEF DiskAfter, LostAfter, WritesBack, TypeOK
            <3> QED BY <2>1, <2>2, <2>4, <2>5, <3>1
        <2>7. CASE ~wb
            <3>1. m \in LostAfter(wb)
                BY <1>4, <2>7 DEF LostAfter, WritesBack
            <3> QED BY <2>2, <2>5, <3>1
        <2> QED BY <2>6, <2>7
    <1>5. CASE ~entry[e].dirty
        <2>1. DiskAfter(wb) = disk /\ LostAfter(wb) = lost
            BY <1>5 DEF DiskAfter, LostAfter, WritesBack
        <2>2. CASE Flies(m)
            <3>1. m \in StaleAfter <=> m \in stale \/ m \notin lost
                BY <1>3, <2>2 DEF StaleAfter
            <3>2. m \in lost => m \notin stale /\ \A h \in held : h[1] = m => h[2] = disk[m]
                BY <1>1 DEF FullInv, SectorRead, LostRead
            <3>3. m \notin lost => \A h \in held : h[1] = m => h[2] = written[m]
                BY <1>1 DEF FullInv, SectorRead, StaleRead, KeptRead
            <3> QED BY <2>1, <2>2, <3>1, <3>2, <3>3
        <2>3. CASE ~Flies(m)
            <3>1. m \notin StaleAfter
                BY <1>3, <2>3 DEF StaleAfter
            <3>2. \A h \in held : h[1] # m
                BY <2>3 DEF Flies
            <3>3. m \in stale => disk[m] = written[m]
                BY <1>1, <2>3 DEF FullInv, SectorRead, StaleRead
            <3>4. m \notin lost /\ m \notin stale => disk[m] = written[m]
                BY <1>1, <1>2, <1>5, <2>3 DEF FullInv, SectorRead, KeptRead
            <3> QED BY <2>1, <2>3, <3>1, <3>2, <3>3, <3>4
        <2> QED BY <2>2, <2>3
    <1> QED BY <1>4, <1>5

\* A miss on l takes the least recently used slot: every other sector.
LEMMA MissOthers ==
    ASSUME FullInv, NEW wb \in BOOLEAN, NEW l \in Lbas, NEW k \in Lbas \ {l}, NEW e \in Slots, e = g_tail,
           disk' = DiskAfter(wb), held' = held, at' = at, written'[k] = written[k],
           k \in lost' <=> k \in LostAfter(wb), k \in stale' <=> k \in StaleAfter,
           \A s \in Slots \ {e} : entry'[s] = entry[s],
           entry'[e].valid => entry'[e].lba = l
    PROVE  SectorRead(k)'
    <1>1. g_tail \in Slots /\ entry[g_tail].lba \in Lbas /\ TypeOK /\ OneCopy
        BY TailType DEF TypeOK, Entries, FullInv, BaseInv
    <1>2. Flies(k)' <=> Flies(k)
        BY DEF Flies
    <1>3. ~Holds(e, k)'
        BY DEF Holds
    <1>4. CASE Holds(e, k)
        <2>1. \A s \in Slots : ~Holds(s, k)'
            BY <1>1, <1>3, <1>4 DEF Holds, OneCopy
        <2>2. /\ k \in LostAfter(wb) => k \notin StaleAfter /\ \A h \in held : h[1] = k => h[2] = DiskAfter(wb)[k]
              /\ k \in StaleAfter => Flies(k) /\ \A h \in held : h[1] = k => h[2] = written[k]
              /\ k \notin LostAfter(wb) /\ k \notin StaleAfter
                 => ~Flies(k) /\ DiskAfter(wb)[k] = written[k]
            BY <1>4, EvictOne DEF Holds
        <2>3. LostRead(k)'
            BY <2>1, <2>2 DEF LostRead
        <2>4. StaleRead(k)'
            BY <1>2, <2>1, <2>2 DEF StaleRead
        <2>5. KeptRead(k)'
            <3>1. ~Flies(k) => \A h \in held : h[1] # k
                BY DEF Flies
            <3> QED BY <1>2, <2>1, <2>2, <3>1 DEF KeptRead
        <2> QED BY <2>3, <2>4, <2>5 DEF SectorRead
    <1>5. CASE ~Holds(e, k)
        <2>1. disk'[k] = disk[k] /\ (k \in lost' <=> k \in lost) /\ (k \in stale' <=> k \in stale)
            BY <1>1, <1>5, EvictSame DEF Holds, SameBut
        <2>2. \A s \in Slots : /\ Holds(s, k)' <=> Holds(s, k)
                               /\ Holds(s, k) => entry'[s] = entry[s]
            BY <1>1, <1>3, <1>5 DEF Holds
        <2>3. SectorRead(k)
            BY DEF FullInv
        <2>4. LostRead(k)'
            BY <2>1, <2>2, <2>3 DEF LostRead, SectorRead
        <2>5. StaleRead(k)'
            BY <1>2, <2>1, <2>2, <2>3 DEF StaleRead, SectorRead
        <2>6. KeptRead(k)'
            <3>1. at \in Slots \/ held = {}
                BY <1>1 DEF FullInv, BaseInv, TypeOK, HeldWhileSyncing, Syncing
            <3> QED BY <1>2, <2>1, <2>2, <2>3, <3>1 DEF KeptRead, SectorRead
        <2> QED BY <2>4, <2>5, <2>6 DEF SectorRead
    <1> QED BY <1>4, <1>5

\* One snapshot of a clean sector, when no copy becomes dirty.
LEMMA SnapshotKept ==
    ASSUME OneSnapshot, held' = held,
           \A s \in Slots : entry'[s].valid /\ entry'[s].dirty
                            => held = {} \/ entry'[s] = entry[s]
    PROVE  OneSnapshot'
    <1>1. \A l : Flies(l)' <=> Flies(l)
        BY DEF Flies
    <1>2. held = {} => \A l : ~Flies(l)
        BY DEF Flies
    <1>3. ASSUME NEW s \in Slots, NEW l, entry'[s].valid, entry'[s].lba = l, Flies(l)'
          PROVE  ~entry'[s].dirty
        <2>1. Flies(l) /\ held # {}
            BY <1>1, <1>2, <1>3
        <2>2. entry'[s].dirty => entry'[s] = entry[s]
            BY <1>3, <2>1
        <2> QED BY <1>3, <2>1, <2>2 DEF OneSnapshot
    <1>4. \A g, h \in held' : g = h
        BY DEF OneSnapshot
    <1>5. \A s \in Slots : entry'[s].valid /\ Flies(entry[s].lba)' => ~entry'[s].dirty
        BY <1>3
    <1> QED BY <1>4, <1>5 DEF OneSnapshot

\* Every step keeps where each sector's last value is.
LEMMA NextFull ==
    ASSUME FullInv, [Next]_vars
    PROVE  FullInv'
    <1> USE BcacheAssumption
    <1>1. TypeOK /\ OneCopy /\ HeldWhileSyncing /\ OneSnapshot
        BY DEF FullInv, BaseInv
    <1>2. BaseInv'
        BY NextBase DEF FullInv
    <1>3. \A s \in Slots : entry[s] \in Entries /\ entry[s].lba \in Lbas /\ entry[s].data \in Values
        BY <1>1 DEF TypeOK, Entries
    <1>4. g_tail \in Slots
        BY <1>1, TailType
    <1>5. \A l \in Lbas : SectorRead(l)
        BY DEF FullInv
    <1>6. CASE UNCHANGED <<entry, disk, held, written, lost, stale>> /\ (held # {} => at' = at)
        <2>1. OneSnapshot'
            BY <1>1, <1>6, SnapshotKept
        <2>2. ASSUME NEW k \in Lbas
              PROVE  SectorRead(k)'
            <3>1. Flies(k)' <=> Flies(k)
                BY <1>6 DEF Flies
            <3>2. \A s : Holds(s, k)' <=> Holds(s, k)
                BY <1>6 DEF Holds
            <3> QED BY <1>5, <1>6, <3>1, <3>2 DEF SectorRead, LostRead, StaleRead, KeptRead
        <2> QED BY <1>2, <2>1, <2>2 DEF FullInv
    <1>7. ASSUME NEW l \in Lbas, NEW wb \in BOOLEAN, NEW rd \in BOOLEAN, ReadMiss(l, wb, rd)
          PROVE  FullInv'
        <2>1. /\ disk' = DiskAfter(wb) /\ lost' = LostAfter(wb) /\ stale' = StaleAfter
              /\ UNCHANGED <<at, held, written>> /\ \A s \in Slots : ~Holds(s, l)
            BY <1>7 DEF ReadMiss, Cached, Holds
        <2>2. /\ \A s \in Slots \ {g_tail} : entry'[s] = entry[s]
              /\ ~entry'[g_tail].dirty
              /\ entry'[g_tail].valid => entry'[g_tail].lba = l /\ entry'[g_tail].data = disk'[l]
            <3>1. CASE rd
                BY <1>1, <1>4, <1>7, <3>1 DEF ReadMiss, TypeOK
            <3>2. CASE ~rd
                BY <1>1, <1>4, <1>7, <3>2, EmptyType DEF ReadMiss, TypeOK
            <3> QED BY <3>1, <3>2
        <2>3. OneSnapshot'
            BY <1>1, <2>1, <2>2, SnapshotKept
        <2>4. \A k \in Lbas \ {l} : SectorRead(k)'
            BY <1>4, <2>1, <2>2, MissOthers
        <2>5. SectorRead(l)'
            <3>1. Flies(l)' <=> Flies(l)
                BY <2>1 DEF Flies
            <3>2. disk'[l] = disk[l] /\ (l \in lost' <=> l \in lost) /\ (l \in stale' <=> l \in stale)
                BY <1>1, <1>3, <1>4, <2>1, EvictSame DEF SameBut, Holds
            <3>3. \A s \in Slots : Holds(s, l)' => entry'[s].data = disk[l] /\ ~entry'[s].dirty
                BY <2>1, <2>2, <3>2 DEF Holds
            <3>4. LostRead(l) /\ StaleRead(l) /\ KeptRead(l)
                BY <1>5 DEF SectorRead
            <3>5. LostRead(l)'
                BY <2>1, <3>2, <3>3, <3>4 DEF LostRead
            <3>6. StaleRead(l)'
                BY <2>1, <3>1, <3>2, <3>3, <3>4 DEF StaleRead
            <3>7. KeptRead(l)'
                <4>1. at \in Slots \/ held = {}
                    BY <1>1 DEF TypeOK, HeldWhileSyncing, Syncing
                <4> QED BY <2>1, <3>1, <3>2, <3>3, <3>4, <4>1 DEF KeptRead
            <3> QED BY <3>5, <3>6, <3>7 DEF SectorRead
        <2> QED BY <1>2, <2>3, <2>4, <2>5 DEF FullInv
    <1>8. ASSUME NEW l \in Lbas, NEW v \in Values, WriteHit(l, v)
          PROVE  FullInv'
        <2>1. PICK s \in Slots : /\ entry' = [entry EXCEPT ![s].data = v, ![s].dirty = TRUE]
                                 /\ Holds(s, l)
            BY <1>8 DEF WriteHit, Cached, Holds
        <2>2. /\ disk' = disk /\ held = {} /\ held' = {} /\ written' = [written EXCEPT ![l] = v]
              /\ lost' = lost \ {l} /\ stale' = stale \ {l}
            BY <1>1, <1>8 DEF WriteHit, HeldWhileSyncing
        <2>3. /\ \A r \in Slots \ {s} : entry'[r] = entry[r]
              /\ entry'[s].valid /\ entry'[s].dirty /\ entry'[s].lba = l /\ entry'[s].data = v
            BY <1>1, <1>3, <2>1 DEF TypeOK, Entries, Holds
        <2>4. OneSnapshot'
            BY <1>1, <2>2, SnapshotKept
        <2>5. \A k : ~Flies(k) /\ ~Flies(k)'
            BY <2>2 DEF Flies
        <2>6. ASSUME NEW k \in Lbas \ {l}
              PROVE  SectorRead(k)'
            <3>1. \A r \in Slots : /\ Holds(r, k)' <=> Holds(r, k)
                                   /\ Holds(r, k) => entry'[r] = entry[r]
                BY <2>1, <2>3 DEF Holds
            <3>2. written'[k] = written[k]
                BY <1>1, <2>2 DEF TypeOK
            <3>3. LostRead(k) /\ StaleRead(k) /\ KeptRead(k)
                BY <1>5 DEF SectorRead
            <3>4. LostRead(k)'
                BY <2>2, <3>1, <3>3 DEF LostRead
            <3>5. StaleRead(k)'
                BY <2>2, <2>5, <3>1, <3>2, <3>3 DEF StaleRead
            <3>6. KeptRead(k)'
                BY <2>2, <2>5, <3>1, <3>2, <3>3 DEF KeptRead
            <3> QED BY <3>4, <3>5, <3>6 DEF SectorRead
        <2>7. SectorRead(l)'
            <3>1. \A r \in Slots : Holds(r, l)' <=> r = s
                BY <1>1, <2>1, <2>3 DEF Holds, OneCopy
            <3>2. written'[l] = v
                BY <1>1, <2>2 DEF TypeOK
            <3> QED BY <2>2, <2>3, <3>1, <3>2 DEF SectorRead, LostRead, StaleRead, KeptRead
        <2> QED BY <1>2, <2>4, <2>6, <2>7 DEF FullInv
    <1>9. ASSUME NEW l \in Lbas, NEW v \in Values, NEW wb \in BOOLEAN, WriteMiss(l, v, wb)
          PROVE  FullInv'
        <2>1. /\ disk' = DiskAfter(wb) /\ lost' = LostAfter(wb) \ {l} /\ stale' = StaleAfter \ {l}
              /\ UNCHANGED <<at, held>> /\ \A s \in Slots : ~Holds(s, l)
              /\ held = {} /\ written' = [written EXCEPT ![l] = v]
            BY <1>1, <1>9 DEF WriteMiss, Cached, Holds, HeldWhileSyncing
        <2>2. /\ \A s \in Slots \ {g_tail} : entry'[s] = entry[s]
              /\ entry'[g_tail].dirty /\ entry'[g_tail].valid
              /\ entry'[g_tail].lba = l /\ entry'[g_tail].data = v
            BY <1>1, <1>4, <1>9 DEF WriteMiss, TypeOK
        <2>3. OneSnapshot'
            BY <1>1, <2>1, SnapshotKept
        <2>4. ASSUME NEW k \in Lbas \ {l}
              PROVE  SectorRead(k)'
            <3>1. written'[k] = written[k]
                BY <1>1, <2>1 DEF TypeOK
            <3> QED BY <1>4, <2>1, <2>2, <3>1, MissOthers
        <2>5. SectorRead(l)'
            <3>1. \A r \in Slots : Holds(r, l)' <=> r = g_tail
                BY <1>4, <2>1, <2>2 DEF Holds
            <3>2. written'[l] = v
                BY <1>1, <2>1 DEF TypeOK
            <3> QED BY <1>4, <2>1, <2>2, <3>1, <3>2 DEF SectorRead, LostRead, StaleRead, KeptRead
        <2> QED BY <1>2, <2>3, <2>4, <2>5 DEF FullInv
    <1>10. CASE SyncStart \/ SyncSkip \/ UNCHANGED vars
        <2>1. UNCHANGED <<entry, disk, held, written, lost, stale>> /\ (held # {} => at' = at)
            BY <1>1, <1>10 DEF SyncStart, SyncSkip, vars, HeldWhileSyncing
        <2> QED BY <1>6, <2>1
    <1>11. CASE SyncSnapshot
        <2>1. PICK m \in Lbas : m = entry[at].lba
            BY <1>1, <1>3, <1>11 DEF SyncSnapshot, Syncing, TypeOK
        <2>2. PICK v \in Values : v = entry[at].data
            BY <1>1, <1>3, <1>11 DEF SyncSnapshot, Syncing, TypeOK
        <2>3. /\ at \in Slots /\ held = {} /\ UNCHANGED <<disk, at, written, lost, stale>>
              /\ held' = {<<m, v>>} /\ Holds(at, m) /\ entry[at].dirty
              /\ entry' = [entry EXCEPT ![at].dirty = FALSE]
            BY <1>1, <1>11, <2>1, <2>2 DEF SyncSnapshot, Syncing, TypeOK, Holds
        <2>4. /\ \A s \in Slots \ {at} : entry'[s] = entry[s]
              /\ \A s \in Slots : /\ entry'[s].valid = entry[s].valid /\ entry'[s].lba = entry[s].lba
                                  /\ entry'[s].data = entry[s].data
              /\ ~entry'[at].dirty
            BY <1>1, <1>3, <2>3 DEF TypeOK, Entries
        <2>5. \A k : ~Flies(k) /\ (Flies(k)' <=> k = m)
            BY <2>3 DEF Flies
        <2>6. \A s \in Slots : \A k \in Lbas : Holds(s, k)' <=> Holds(s, k)
            BY <2>4 DEF Holds
        <2>7. OneSnapshot'
            <3>1. \A s \in Slots : entry'[s].valid /\ entry'[s].lba = m => s = at
                BY <1>1, <2>3, <2>4 DEF Holds, OneCopy
            <3>2. \A s \in Slots : entry'[s].valid /\ Flies(entry[s].lba)' => ~entry'[s].dirty
                BY <2>4, <2>5, <3>1
            <3>3. \A g, h \in held' : g = h
                BY <2>3
            <3> QED BY <3>2, <3>3 DEF OneSnapshot
        <2>8. ASSUME NEW k \in Lbas
              PROVE  SectorRead(k)'
            <3>1. LostRead(k) /\ StaleRead(k) /\ KeptRead(k)
                BY <1>5 DEF SectorRead
            <3>2. CASE k # m
                <4>1. \A s \in Slots : Holds(s, k) => entry'[s] = entry[s]
                    BY <2>3, <2>4, <3>2 DEF Holds
                <4>2. \A h \in held' : h[1] # k
                    BY <2>3, <3>2
                <4>3. ~Flies(k) /\ ~Flies(k)'
                    BY <2>5, <3>2
                <4>4. LostRead(k)'
                    BY <2>3, <2>6, <3>1, <4>1, <4>2 DEF LostRead
                <4>5. StaleRead(k)'
                    BY <2>3, <2>6, <3>1, <4>1, <4>2, <4>3 DEF StaleRead
                <4>6. KeptRead(k)'
                    BY <2>3, <2>6, <3>1, <4>1, <4>2, <4>3 DEF KeptRead
                <4> QED BY <4>4, <4>5, <4>6 DEF SectorRead
            <3>3. CASE k = m
                <4>1. k \notin stale
                    BY <2>3, <3>1, <3>3 DEF StaleRead
                <4>2. \A h \in held' : h[2] = v
                    BY <2>3
                <4>3. \A s \in Slots : Holds(s, k) => s = at
                    BY <1>1, <2>3, <3>3 DEF Holds, OneCopy
                <4>4. LostRead(k)'
                    BY <2>2, <2>3, <2>4, <2>6, <3>1, <3>3, <4>1, <4>2, <4>3 DEF LostRead
                <4>5. StaleRead(k)'
                    BY <2>3, <4>1 DEF StaleRead
                <4>6. KeptRead(k)'
                    BY <2>2, <2>3, <2>4, <2>5, <2>6, <3>1, <3>3, <4>1, <4>2, <4>3 DEF KeptRead
                <4> QED BY <4>4, <4>5, <4>6 DEF SectorRead
            <3> QED BY <3>2, <3>3
        <2> QED BY <1>2, <2>7, <2>8 DEF FullInv
    <1>12. CASE SyncWrite
        <2>1. PICK h \in held : disk' = [disk EXCEPT ![h[1]] = h[2]]
            BY <1>12 DEF SyncWrite
        <2>2. PICK m \in Lbas : m = h[1]
            BY <1>1 DEF TypeOK
        <2>3. /\ held' = {} /\ UNCHANGED <<entry, written, lost>>
              /\ Flies(m) /\ \A k \in Lbas \ {m} : ~Flies(k)
            BY <1>1, <1>12, <2>1, <2>2 DEF SyncWrite, Flies, OneSnapshot
        <2>4. \A k \in Lbas : k \in stale' <=> k \in stale /\ ~(k = m /\ \A s \in Slots : ~Holds(s, k))
            <3>1. \A k \in Lbas : k \in InFlight <=> k = m
                BY <2>3 DEF InFlight, Flies
            <3>2. \A k \in Lbas : Cached(k) = {} <=> \A s \in Slots : ~Holds(s, k)
                BY DEF Cached, Holds
            <3> QED BY <1>12, <3>1, <3>2 DEF SyncWrite
        <2>5. \A k : ~Flies(k)'
            BY <2>3 DEF Flies
        <2>6. \A s, k : Holds(s, k)' <=> Holds(s, k)
            BY <2>3 DEF Holds
        <2>7. OneSnapshot'
            BY <2>3, <2>5 DEF OneSnapshot
        <2>8. ASSUME NEW k \in Lbas
              PROVE  SectorRead(k)'
            <3>1. LostRead(k) /\ StaleRead(k) /\ KeptRead(k)
                BY <1>5 DEF SectorRead
            <3>2. CASE k # m
                <4>1. disk'[k] = disk[k] /\ (k \in stale' <=> k \in stale) /\ ~Flies(k)
                    BY <1>1, <2>1, <2>2, <2>3, <2>4, <3>2 DEF TypeOK
                <4>2. LostRead(k)'
                    BY <2>3, <2>6, <3>1, <4>1 DEF LostRead
                <4>3. StaleRead(k)'
                    BY <2>3, <2>5, <2>6, <3>1, <4>1 DEF StaleRead
                <4>4. KeptRead(k)'
                    BY <2>3, <2>5, <2>6, <3>1, <4>1 DEF KeptRead
                <4> QED BY <4>2, <4>3, <4>4 DEF SectorRead
            <3>3. CASE k = m
                <4>1. disk'[k] = h[2] /\ Flies(k) /\ h[1] = k
                    BY <1>1, <2>1, <2>2, <2>3, <3>3 DEF TypeOK
                <4>2. LostRead(k)'
                    <5>1. k \in lost => disk'[k] = disk[k] /\ k \notin stale
                        BY <2>1, <3>1, <4>1 DEF LostRead
                    <5> QED BY <2>3, <2>4, <2>6, <3>1, <5>1 DEF LostRead
                <4>3. StaleRead(k)'
                    <5>1. k \in stale => disk'[k] = written[k]
                        BY <2>1, <3>1, <4>1 DEF StaleRead
                    <5> QED BY <2>3, <2>4, <2>5, <2>6, <3>1, <3>3, <5>1 DEF StaleRead
                <4>4. KeptRead(k)'
                    <5>1. k \notin lost => disk'[k] = written[k]
                        BY <2>1, <3>1, <4>1 DEF StaleRead, KeptRead
                    <5>2. k \notin lost /\ k \in stale /\ k \notin stale' => \A s \in Slots : ~Holds(s, k)
                        BY <2>4
                    <5> QED BY <2>3, <2>5, <2>6, <3>1, <5>1, <5>2 DEF KeptRead
                <4> QED BY <4>2, <4>3, <4>4 DEF SectorRead
            <3> QED BY <3>2, <3>3
        <2> QED BY <1>2, <2>7, <2>8 DEF FullInv
    <1>13. CASE SyncFail
        <2>1. PICK h \in held : entry' = [entry EXCEPT ![at].dirty =
                                   (entry[at].valid /\ entry[at].lba = h[1]) \/ entry[at].dirty]
            BY <1>13 DEF SyncFail
        <2>2. PICK m \in Lbas : m = h[1]
            BY <1>1 DEF TypeOK
        <2>3. /\ held' = {} /\ UNCHANGED <<disk, written>> /\ at \in Slots
              /\ Flies(m) /\ \A k \in Lbas \ {m} : ~Flies(k)
            BY <1>1, <1>13, <2>1, <2>2
            DEF SyncFail, Flies, OneSnapshot, TypeOK, HeldWhileSyncing, Syncing
        <2>4. \A k \in Lbas : /\ k \in stale' <=> k \in stale /\ k # m
                              /\ k \in lost' <=> k \in lost \/ (k \in stale /\ k = m)
            <3>1. \A k \in Lbas : k \in InFlight <=> k = m
                BY <2>3 DEF InFlight, Flies
            <3> QED BY <1>13, <3>1 DEF SyncFail
        <2>5. /\ \A s \in Slots \ {at} : entry'[s] = entry[s]
              /\ \A s \in Slots : /\ entry'[s].valid = entry[s].valid /\ entry'[s].lba = entry[s].lba
                                  /\ entry'[s].data = entry[s].data
              /\ Holds(at, m) => entry'[at].dirty
              /\ ~Holds(at, m) => entry'[at] = entry[at]
            <3>1. entry[at] \in Entries /\ entry'[at] = [entry[at] EXCEPT !.dirty =
                               (entry[at].valid /\ entry[at].lba = m) \/ entry[at].dirty]
                BY <1>1, <1>3, <2>1, <2>2, <2>3 DEF TypeOK
            <3>2. /\ \A s \in Slots \ {at} : entry'[s] = entry[s]
                  /\ entry'[at].valid = entry[at].valid /\ entry'[at].lba = entry[at].lba
                  /\ entry'[at].data = entry[at].data
                BY <1>1, <2>1, <3>1 DEF TypeOK, Entries
            <3>3. Holds(at, m) => entry'[at].dirty
                BY <3>1 DEF Holds, Entries
            <3>4. ~Holds(at, m) => entry'[at] = entry[at]
                BY <3>1 DEF Holds, Entries
            <3> QED BY <3>2, <3>3, <3>4
        <2>6. \A k : ~Flies(k)'
            BY <2>3 DEF Flies
        <2>7. \A s \in Slots : \A k \in Lbas : Holds(s, k)' <=> Holds(s, k)
            BY <2>5 DEF Holds
        <2>8. OneSnapshot'
            BY <2>3, <2>6 DEF OneSnapshot
        <2>9. ASSUME NEW k \in Lbas
              PROVE  SectorRead(k)'
            <3>1. LostRead(k) /\ StaleRead(k) /\ KeptRead(k)
                BY <1>5 DEF SectorRead
            <3>2. CASE k # m
                <4>1. \A s \in Slots : Holds(s, k) => entry'[s] = entry[s]
                    BY <2>3, <2>5, <3>2 DEF Holds
                <4>2. (k \in stale' <=> k \in stale) /\ (k \in lost' <=> k \in lost) /\ ~Flies(k)
                    BY <2>3, <2>4, <3>2
                <4>3. LostRead(k)'
                    BY <2>3, <2>7, <3>1, <4>1, <4>2 DEF LostRead
                <4>4. StaleRead(k)'
                    BY <2>3, <2>6, <2>7, <3>1, <4>1, <4>2 DEF StaleRead
                <4>5. KeptRead(k)'
                    BY <2>3, <2>6, <2>7, <3>1, <4>1, <4>2 DEF KeptRead
                <4> QED BY <4>3, <4>4, <4>5 DEF SectorRead
            <3>3. CASE k = m
                <4>1. Flies(k) /\ k \notin stale'
                    BY <2>3, <2>4, <3>3
                <4>2. LostRead(k)'
                    BY <2>3, <2>4, <2>5, <2>7, <3>1, <4>1 DEF LostRead, StaleRead
                <4>3. StaleRead(k)'
                    BY <4>1 DEF StaleRead
                <4>4. KeptRead(k)'
                    <5>1. k \notin lost' => k \notin lost /\ k \notin stale
                        BY <2>4, <3>3
                    <5>2. k \notin lost' => Holds(at, k)
                        BY <2>1, <2>2, <3>1, <3>3, <5>1 DEF KeptRead
                    <5>3. \A s \in Slots : Holds(at, k) /\ Holds(s, k) => entry'[s].dirty
                        BY <1>1, <2>3, <2>5, <3>3 DEF OneCopy, Holds
                    <5> QED BY <2>3, <2>5, <2>7, <3>1, <5>1, <5>2, <5>3 DEF KeptRead
                <4> QED BY <4>2, <4>3, <4>4 DEF SectorRead
            <3> QED BY <3>2, <3>3
        <2> QED BY <1>2, <2>8, <2>9 DEF FullInv
    <1>14. ASSUME NEW l \in Lbas, ReadHit(l)
           PROVE  FullInv'
        BY <1>6, <1>14 DEF ReadHit
    <1> QED BY <1>7, <1>8, <1>9, <1>10, <1>11, <1>12, <1>13, <1>14 DEF Next, Sync

-----------------------------------------------------------------------------
(* The refinement of BlockStore                                            *)

View == [l \in Lbas |-> Reads(l)]

\* What reading a sector gives, in terms of the slots.
ViewSound ==
    \A l \in Lbas :
        /\ \A s \in Slots : Holds(s, l) => Reads(l) = entry[s].data
        /\ (\A s \in Slots : ~Holds(s, l)) => Reads(l) = disk[l]

\* With one copy of each sector, lookup finds it.
LEMMA ViewIs == BaseInv => ViewSound
    <1> SUFFICES ASSUME BaseInv, NEW l \in Lbas
                 PROVE  /\ \A s \in Slots : Holds(s, l) => Reads(l) = entry[s].data
                        /\ (\A s \in Slots : ~Holds(s, l)) => Reads(l) = disk[l]
        BY DEF ViewSound
    <1>1. ASSUME NEW s \in Slots, Holds(s, l)
          PROVE  Reads(l) = entry[s].data
        <2>1. s \in Cached(l)
            BY <1>1 DEF Cached, Holds
        <2>2. \A r \in Cached(l) : r = s
            BY <1>1 DEF Cached, BaseInv, OneCopy, Holds
        <2>3. (CHOOSE r \in Cached(l) : TRUE) = s
            BY <2>1, <2>2
        <2> QED BY <2>1, <2>3 DEF Reads
    <1>2. ASSUME \A s \in Slots : ~Holds(s, l)
          PROVE  Reads(l) = disk[l]
        <2>1. Cached(l) = {}
            BY <1>2 DEF Cached, Holds
        <2> QED BY <2>1 DEF Reads
    <1> QED BY <1>1, <1>2

\* The same after a step.
LEMMA ViewIsPrime == BaseInv' => ViewSound'
    BY ViewIs, PTL

\* A sector keeps what it reads as when its copies and its disk sector stay.
LEMMA ReadsKept ==
    ASSUME ViewSound, ViewSound', NEW k \in Lbas, disk'[k] = disk[k],
           \A s \in Slots : /\ Holds(s, k)' <=> Holds(s, k)
                            /\ Holds(s, k) => entry'[s].data = entry[s].data
    PROVE  Reads(k)' = Reads(k)
    <1>1. CASE \E s \in Slots : Holds(s, k)
        BY <1>1 DEF ViewSound
    <1>2. CASE \A s \in Slots : ~Holds(s, k)
        BY <1>2 DEF ViewSound
    <1> QED BY <1>1, <1>2

\* After a miss on l that took slot e, the sector that was in e reads as its disk
\* sector does, and the others but l as before.
LEMMA MissView ==
    ASSUME FullInv, BaseInv', NEW l \in Lbas, NEW e \in Slots, NEW wb \in BOOLEAN, e = g_tail,
           disk' = DiskAfter(wb), NEW k \in Lbas \ {l},
           \A s \in Slots \ {e} : entry'[s] = entry[s],
           entry'[e].valid => entry'[e].lba = l
    PROVE  Reads(k)' = IF Holds(e, k) THEN disk'[k] ELSE Reads(k)
    <1>1. TypeOK /\ OneCopy /\ ViewSound /\ ViewSound'
        BY ViewIs, ViewIsPrime DEF FullInv, BaseInv
    <1>2. CASE Holds(e, k)
        <2>1. \A s \in Slots : ~Holds(s, k)'
            BY <1>1, <1>2 DEF OneCopy, Holds
        <2> QED BY <1>1, <1>2, <2>1 DEF ViewSound
    <1>3. CASE ~Holds(e, k)
        <2>1. disk'[k] = disk[k]
            BY <1>1, <1>3, EvictSame DEF Holds, SameBut
        <2>2. \A s \in Slots : /\ Holds(s, k)' <=> Holds(s, k)
                               /\ Holds(s, k) => entry'[s].data = entry[s].data
            BY <1>3 DEF Holds
        <2> QED BY <1>1, <1>3, <2>1, <2>2, ReadsKept
    <1> QED BY <1>2, <1>3

\* What reserve_lru does is one of the ways of a block store to make room.
LEMMA EvictStore ==
    ASSUME FullInv, NEW wb \in BOOLEAN, entry[g_tail].valid
    PROVE  LET m == entry[g_tail].lba
               d == DiskAfter(wb)
           IN  Store!Stored([View EXCEPT ![m] = d[m]], d, LostAfter(wb) \cup StaleAfter)
                  \in Store!Room(m) \cup {Store!Stored(View, disk, lost \cup stale)}
    <1>1. g_tail \in Slots /\ entry[g_tail].lba \in Lbas /\ TypeOK /\ BaseInv
        BY TailType DEF TypeOK, Entries, FullInv, BaseInv
    <1>2. PICK m \in Lbas : m = entry[g_tail].lba
        BY <1>1
    <1>3. PICK d : d = DiskAfter(wb)
        OBVIOUS
    <1>4. Holds(g_tail, m) /\ SectorRead(m)
        BY <1>2 DEF Holds, FullInv
    <1>5. View[m] = entry[g_tail].data /\ View \in [Lbas -> {View[l] : l \in Lbas}]
        <2>1. Reads(m) = entry[g_tail].data
            BY <1>1, <1>4, ViewIs DEF ViewSound
        <2> QED BY <2>1 DEF View
    <1>6. m \in InFlight <=> Flies(m)
        BY DEF InFlight, Flies
    <1> DEFINE new == Store!Stored([View EXCEPT ![m] = d[m]], d, LostAfter(wb) \cup StaleAfter)
    <1>7. CASE entry[g_tail].dirty
        <2>1. ~Flies(m) /\ m \notin stale
            BY <1>1, <1>2, <1>4, <1>7 DEF FullInv, OneSnapshot, SectorRead, StaleRead
        <2>2. StaleAfter = stale
            BY <1>2, <1>6, <2>1 DEF StaleAfter
        <2>3. CASE wb
            <3>1. d = [disk EXCEPT ![m] = View[m]] /\ LostAfter(wb) = lost
                BY <1>2, <1>3, <1>5, <1>7, <2>3 DEF DiskAfter, LostAfter, WritesBack
            <3>2. d[m] = View[m]
                BY <1>1, <3>1 DEF TypeOK
            <3>3. [View EXCEPT ![m] = d[m]] = View
                BY <1>5, <3>2
            <3>4. new \in Store!WroteBack(m)
                BY <2>2, <3>1, <3>3 DEF Store!WroteBack, View
            <3> QED BY <1>2, <1>3, <3>4 DEF Store!Room
        <2>4. CASE ~wb
            <3>1. d = disk /\ LostAfter(wb) = lost \cup {m}
                BY <1>2, <1>3, <1>7, <2>4 DEF DiskAfter, LostAfter, WritesBack
            <3>2. LostAfter(wb) \cup StaleAfter = (lost \cup stale) \cup {m}
                BY <2>2, <3>1
            <3>3. new \in Store!Dropped(m)
                BY <3>1, <3>2 DEF Store!Dropped, View
            <3> QED BY <1>2, <1>3, <3>3 DEF Store!Room
        <2> QED BY <2>3, <2>4
    <1>8. CASE ~entry[g_tail].dirty
        <2>1. d = disk /\ LostAfter(wb) = lost
            BY <1>3, <1>8 DEF DiskAfter, LostAfter, WritesBack
        <2>2. CASE Flies(m)
            <3>1. StaleAfter = stale \cup ({m} \ lost)
                BY <1>2, <1>6, <2>2 DEF StaleAfter
            <3>2. LostAfter(wb) \cup StaleAfter = (lost \cup stale) \cup {m}
                BY <2>1, <3>1
            <3>3. new \in Store!Dropped(m)
                BY <2>1, <3>2 DEF Store!Dropped, View
            <3> QED BY <1>2, <1>3, <3>3 DEF Store!Room
        <2>3. CASE ~Flies(m)
            <3>1. StaleAfter = stale \ {m}
                BY <1>2, <1>6, <2>3 DEF StaleAfter
            <3>2. CASE m \in stale
                <4>1. m \notin lost /\ disk[m] = written[m]
                    BY <1>4, <2>3, <3>2 DEF SectorRead, LostRead, StaleRead
                <4>2. LostAfter(wb) \cup StaleAfter = (lost \cup stale) \ {m}
                    BY <2>1, <3>1, <4>1
                <4>3. m \in {l \in lost \cup stale : l = m /\ disk[l] = written[l]}
                    BY <3>2, <4>1
                <4>4. new \in Store!Reloaded(m)
                    BY <2>1, <4>2, <4>3 DEF Store!Reloaded, View
                <4> QED BY <1>2, <1>3, <4>4 DEF Store!Room
            <3>3. CASE m \notin stale
                <4>1. entry[g_tail].data = disk[m]
                    BY <1>1, <1>4, <1>8, <2>3, <3>3 DEF SectorRead, LostRead, KeptRead
                <4>2. [View EXCEPT ![m] = d[m]] = View /\ StaleAfter = stale
                    BY <1>5, <2>1, <3>1, <3>3, <4>1
                <4>3. new = Store!Stored(View, disk, lost \cup stale)
                    BY <2>1, <4>2
                <4> QED BY <1>2, <1>3, <4>3
            <3> QED BY <3>2, <3>3
        <2> QED BY <2>2, <2>3
    <1> QED BY <1>7, <1>8

\* Both kinds of store steps, from what they do to the three variables.
LEMMA StoreHousekeeping ==
    ASSUME NEW m \in Lbas, NEW v, NEW d, NEW o, View' = v, disk' = d, (lost \cup stale)' = o,
           written' = written,
           \/ Store!Stored(v, d, o) \in Store!Room(m)
           \/ m \in lost \cup stale /\ Store!Stored(v, d, o) \in Store!Arrived(m)
    PROVE  Store!Next
    <1> DEFINE r == Store!Stored(v, d, o)
    <1>1. r.view = v /\ r.disk = d /\ r.old = o
        BY DEF Store!Stored
    <1>2. r \in Store!Room(m) \cup (IF m \in lost \cup stale THEN Store!Arrived(m) ELSE {})
        OBVIOUS
    <1> HIDE DEF r
    <1>3. \E q \in Store!Room(m) \cup (IF m \in lost \cup stale THEN Store!Arrived(m) ELSE {}) :
             View' = q.view /\ disk' = q.disk /\ (lost \cup stale)' = q.old
        BY <1>1, <1>2
    <1>4. Store!Housekeeping(m)
        BY <1>3 DEF Store!Housekeeping, View
    <1> QED BY <1>4 DEF Store!Next

\* The same for a write, which may have to make room first.
LEMMA StoreWrite ==
    ASSUME NEW l \in Lbas, NEW x \in Values, NEW v, NEW d, NEW o,
           \/ Store!Stored(v, d, o) = Store!Stored(View, disk, lost \cup stale)
           \/ \E m \in Lbas \ {l} : Store!Stored(v, d, o) \in Store!Room(m),
           View' = [v EXCEPT ![l] = x], disk' = d, (lost \cup stale)' = o \ {l},
           written' = [written EXCEPT ![l] = x]
    PROVE  Store!Next
    <1> DEFINE r == Store!Stored(v, d, o)
               all == {Store!Stored(View, disk, lost \cup stale)}
                          \cup UNION {Store!Room(m) : m \in Lbas \ {l}}
    <1>1. r.view = v /\ r.disk = d /\ r.old = o
        BY DEF Store!Stored
    <1>2. r \in all
        OBVIOUS
    <1> HIDE DEF r
    <1>3. /\ View' = [r.view EXCEPT ![l] = x]
          /\ disk' = r.disk /\ (lost \cup stale)' = r.old \ {l}
        BY <1>1
    <1>4. \E q \in all : /\ View' = [q.view EXCEPT ![l] = x]
                         /\ disk' = q.disk /\ (lost \cup stale)' = q.old \ {l}
                         /\ written' = [written EXCEPT ![l] = x]
        BY <1>2, <1>3
    <1>5. Store!Write(l, x)
        BY <1>4 DEF Store!Write, View
    <1> QED BY <1>5 DEF Store!Next

\* Every step of bcache.c is a step of the block store, or none.
LEMMA StoreStep ==
    ASSUME FullInv, [Next]_vars
    PROVE  [Store!Next]_<<View, disk, written, lost \cup stale>>
    <1> USE BcacheAssumption
    <1>1. TypeOK /\ OneCopy /\ HeldWhileSyncing /\ OneSnapshot
        BY DEF FullInv, BaseInv
    <1>2. ViewSound /\ ViewSound' /\ BaseInv'
        BY NextFull, ViewIs, ViewIsPrime DEF FullInv
    <1>3. \A s \in Slots : entry[s] \in Entries /\ entry[s].lba \in Lbas /\ entry[s].data \in Values
        BY <1>1 DEF TypeOK, Entries
    <1>4. PICK e \in Slots : e = g_tail
        BY <1>1, TailType
    \* Steps that leave contents and validity alone.
    <1>5. ASSUME disk' = disk,
                 \A s \in Slots : /\ entry'[s].valid = entry[s].valid /\ entry'[s].lba = entry[s].lba
                                  /\ entry'[s].data = entry[s].data
          PROVE  View' = View
        <2>1. ASSUME NEW l \in Lbas
              PROVE  Reads(l)' = Reads(l)
            <3>1. \A s \in Slots : Holds(s, l)' <=> Holds(s, l)
                BY <1>5 DEF Holds
            <3> QED BY <1>2, <1>5, <3>1, ReadsKept
        <2> QED BY <2>1 DEF View
    <1>6. ASSUME NEW l \in Lbas, ReadHit(l)
          PROVE  UNCHANGED <<View, disk, written, lost \cup stale>>
        <2>1. View' = View
            BY <1>5, <1>6 DEF ReadHit
        <2> QED BY <1>6, <2>1 DEF ReadHit
    <1>7. ASSUME NEW l \in Lbas, NEW wb \in BOOLEAN, NEW rd \in BOOLEAN, ReadMiss(l, wb, rd)
          PROVE  [Store!Next]_<<View, disk, written, lost \cup stale>>
        <2>1. /\ disk' = DiskAfter(wb) /\ lost' = LostAfter(wb) /\ stale' = StaleAfter
              /\ written' = written /\ \A s \in Slots : ~Holds(s, l)
            BY <1>7 DEF ReadMiss, Cached, Holds
        <2>2. /\ \A s \in Slots \ {e} : entry'[s] = entry[s]
              /\ entry'[e].valid => entry'[e].lba = l /\ entry'[e].data = disk'[l]
            <3>1. CASE rd
                BY <1>1, <1>4, <1>7, <3>1 DEF ReadMiss, TypeOK
            <3>2. CASE ~rd
                BY <1>1, <1>4, <1>7, <3>2, EmptyType DEF ReadMiss, TypeOK
            <3> QED BY <3>1, <3>2
        <2>3. \A k \in Lbas \ {l} : Reads(k)' = IF Holds(e, k) THEN disk'[k] ELSE Reads(k)
            BY <1>2, <1>4, <2>1, <2>2, MissView
        <2>4. Reads(l)' = Reads(l)
            <3>1. Reads(l) = disk[l]
                BY <1>2, <2>1 DEF ViewSound
            <3>2. disk'[l] = disk[l]
                BY <1>1, <1>3, <1>4, <2>1, EvictSame DEF SameBut, Holds
            <3>3. \A s \in Slots : Holds(s, l)' => entry'[s].data = disk[l]
                BY <2>1, <2>2, <3>2 DEF Holds
            <3> QED BY <1>2, <3>1, <3>2, <3>3 DEF ViewSound
        <2>5. CASE ~entry[e].valid
            <3>1. disk' = disk /\ lost' = lost /\ stale' = stale
                BY <1>1, <1>4, <2>1, <2>5, EvictSame
            <3>2. \A k \in Lbas : Reads(k)' = Reads(k)
                BY <2>3, <2>4, <2>5 DEF Holds
            <3> QED BY <2>1, <3>1, <3>2 DEF View
        <2>6. CASE entry[e].valid
            <3>1. PICK m \in Lbas : m = entry[e].lba
                BY <1>3
            <3>2. \A k \in Lbas : Reads(k)' = IF k = m THEN disk'[m] ELSE Reads(k)
                BY <2>1, <2>3, <2>4, <2>6, <3>1 DEF Holds
            <3>3. View' = [View EXCEPT ![m] = disk'[m]]
                BY <3>2 DEF View
            <3>4. Store!Stored(View', disk', lost' \cup stale')
                      \in Store!Room(m) \cup {Store!Stored(View, disk, lost \cup stale)}
                BY <1>4, <2>1, <2>6, <3>1, <3>3, EvictStore
            <3>5. CASE Store!Stored(View', disk', lost' \cup stale') \in Store!Room(m)
                BY <2>1, <3>5, StoreHousekeeping
            <3>6. CASE Store!Stored(View', disk', lost' \cup stale')
                         = Store!Stored(View, disk, lost \cup stale)
                BY <2>1, <3>6 DEF Store!Stored
            <3> QED BY <3>4, <3>5, <3>6
        <2> QED BY <2>5, <2>6
    <1>8. ASSUME NEW l \in Lbas, NEW v \in Values, WriteHit(l, v)
          PROVE  Store!Next
        <2>1. PICK s \in Slots : /\ entry' = [entry EXCEPT ![s].data = v, ![s].dirty = TRUE]
                                 /\ Holds(s, l)
            BY <1>8 DEF WriteHit, Cached, Holds
        <2>2. /\ disk' = disk /\ (lost \cup stale)' = (lost \cup stale) \ {l}
              /\ written' = [written EXCEPT ![l] = v]
            BY <1>8 DEF WriteHit
        <2>3. /\ \A r \in Slots \ {s} : entry'[r] = entry[r]
              /\ entry'[s].valid /\ entry'[s].lba = l /\ entry'[s].data = v
            BY <1>1, <1>3, <2>1 DEF TypeOK, Entries, Holds
        <2>4. ASSUME NEW k \in Lbas
              PROVE  Reads(k)' = IF k = l THEN v ELSE Reads(k)
            <3>1. CASE k = l
                <4>1. Holds(s, k)'
                    BY <2>3, <3>1 DEF Holds
                <4> QED BY <1>2, <2>3, <3>1, <4>1 DEF ViewSound
            <3>2. CASE k # l
                <4>1. \A r \in Slots : /\ Holds(r, k)' <=> Holds(r, k)
                                       /\ Holds(r, k) => entry'[r].data = entry[r].data
                    BY <2>1, <2>3, <3>2 DEF Holds
                <4> QED BY <1>2, <2>2, <3>2, <4>1, ReadsKept
            <3> QED BY <3>1, <3>2
        <2>5. View' = [View EXCEPT ![l] = v]
            BY <2>4 DEF View
        <2> QED BY <2>2, <2>5, StoreWrite
    <1>9. ASSUME NEW l \in Lbas, NEW v \in Values, NEW wb \in BOOLEAN, WriteMiss(l, v, wb)
          PROVE  Store!Next
        <2>1. /\ disk' = DiskAfter(wb)
              /\ (lost \cup stale)' = (LostAfter(wb) \cup StaleAfter) \ {l}
              /\ written' = [written EXCEPT ![l] = v] /\ \A s \in Slots : ~Holds(s, l)
            BY <1>9 DEF WriteMiss, Cached, Holds
        <2>2. /\ \A s \in Slots \ {e} : entry'[s] = entry[s]
              /\ entry'[e].valid /\ entry'[e].lba = l /\ entry'[e].data = v
            BY <1>1, <1>4, <1>9 DEF WriteMiss, TypeOK
        <2>3. \A k \in Lbas \ {l} : Reads(k)' = IF Holds(e, k) THEN disk'[k] ELSE Reads(k)
            BY <1>2, <1>4, <2>1, <2>2, MissView
        <2>4. Reads(l)' = v
            <3>1. Holds(e, l)'
                BY <2>2 DEF Holds
            <3> QED BY <1>2, <2>2, <3>1 DEF ViewSound
        <2>5. CASE ~entry[e].valid
            <3>1. disk' = disk /\ LostAfter(wb) = lost /\ StaleAfter = stale
                BY <1>1, <1>4, <2>1, <2>5, EvictSame
            <3>2. \A k \in Lbas : Reads(k)' = IF k = l THEN v ELSE Reads(k)
                BY <2>3, <2>4, <2>5 DEF Holds
            <3>3. View' = [View EXCEPT ![l] = v]
                BY <3>2 DEF View
            <3> QED BY <2>1, <3>1, <3>3, StoreWrite
        <2>6. CASE entry[e].valid
            <3>1. PICK m \in Lbas : m = entry[e].lba
                BY <1>3
            <3>2. m # l
                BY <2>1, <2>6, <3>1 DEF Holds
            <3>3. \A k \in Lbas : Reads(k)' = IF k = l THEN v ELSE IF k = m THEN disk'[m] ELSE Reads(k)
                BY <2>1, <2>3, <2>4, <2>6, <3>1 DEF Holds
            <3>4. View' = [[View EXCEPT ![m] = disk'[m]] EXCEPT ![l] = v]
                BY <3>2, <3>3 DEF View
            <3>5. Store!Stored([View EXCEPT ![m] = disk'[m]], disk', LostAfter(wb) \cup StaleAfter)
                      \in Store!Room(m) \cup {Store!Stored(View, disk, lost \cup stale)}
                BY <1>4, <2>1, <2>6, <3>1, EvictStore
            <3> QED BY <2>1, <3>2, <3>4, <3>5, StoreWrite
        <2> QED BY <2>5, <2>6
    <1>10. CASE SyncStart \/ SyncSkip \/ SyncSnapshot \/ SyncFail
        <2>1. disk' = disk /\ written' = written /\ (lost \cup stale)' = lost \cup stale
            BY <1>10 DEF SyncStart, SyncSkip, SyncSnapshot, SyncFail
        <2>2. \A s \in Slots : /\ entry'[s].valid = entry[s].valid /\ entry'[s].lba = entry[s].lba
                               /\ entry'[s].data = entry[s].data
            <3>1. CASE SyncStart \/ SyncSkip
                BY <3>1 DEF SyncStart, SyncSkip
            <3>2. CASE SyncSnapshot
                BY <1>1, <1>3, <3>2 DEF SyncSnapshot, Entries, TypeOK
            <3>3. CASE SyncFail
                BY <1>1, <1>3, <3>3 DEF SyncFail, Entries, TypeOK
            <3> QED BY <1>10, <3>1, <3>2, <3>3
        <2>3. View' = View
            BY <1>5, <2>1, <2>2
        <2> QED BY <2>1, <2>3
    <1>11. CASE SyncWrite
        <2>1. PICK h \in held : disk' = [disk EXCEPT ![h[1]] = h[2]]
            BY <1>11 DEF SyncWrite
        <2>2. PICK m \in Lbas : m = h[1]
            BY <1>1 DEF TypeOK
        <2>3. /\ UNCHANGED <<entry, written, lost>> /\ disk' = [disk EXCEPT ![m] = h[2]]
              /\ disk'[m] = h[2] /\ SectorRead(m) /\ Flies(m)
            BY <1>1, <1>11, <2>1, <2>2 DEF SyncWrite, FullInv, TypeOK, Flies
        <2>4. stale' = IF \A s \in Slots : ~Holds(s, m) THEN stale \ {m} ELSE stale
            <3>1. \A k : k \in InFlight <=> k = m
                BY <1>1, <2>1, <2>2 DEF InFlight, OneSnapshot
            <3>2. Cached(m) = {} <=> \A s \in Slots : ~Holds(s, m)
                BY DEF Cached, Holds
            <3> QED BY <1>11, <3>1, <3>2 DEF SyncWrite
        <2>5. \A s, k : Holds(s, k)' <=> Holds(s, k)
            BY <2>3 DEF Holds
        <2>6. ASSUME NEW k \in Lbas
              PROVE  Reads(k)' = IF k = m /\ (\A s \in Slots : ~Holds(s, m)) THEN h[2] ELSE Reads(k)
            <3>1. CASE k # m
                <4>1. disk'[k] = disk[k]
                    BY <1>1, <2>3, <3>1 DEF TypeOK
                <4> QED BY <1>2, <2>3, <2>5, <3>1, <4>1, ReadsKept
            <3>2. CASE k = m
                BY <1>2, <2>3, <2>5, <3>2 DEF ViewSound
            <3> QED BY <3>1, <3>2
        <2>7. CASE m \in stale
            <3>1. h[2] = written[m]
                BY <2>1, <2>2, <2>3, <2>7 DEF SectorRead, StaleRead
            <3>2. CASE \A s \in Slots : ~Holds(s, m)
                <4>1. View' = [View EXCEPT ![m] = written[m]]
                    BY <2>6, <3>1, <3>2 DEF View
                <4>2. m \notin lost
                    BY <2>3, <2>7 DEF SectorRead, LostRead
                <4>3. lost' \cup stale' = (lost \cup stale) \ {m}
                    BY <2>3, <2>4, <3>2, <4>2
                <4>4. Store!Stored(View', disk', lost' \cup stale') \in Store!Arrived(m)
                    BY <2>3, <3>1, <4>1, <4>3 DEF Store!Arrived, View
                <4> QED BY <2>3, <2>7, <4>4, StoreHousekeeping
            <3>3. CASE ~ \A s \in Slots : ~Holds(s, m)
                <4>1. View' = View
                    BY <2>6, <3>3 DEF View
                <4>2. lost' \cup stale' = lost \cup stale
                    BY <2>3, <2>4, <3>3
                <4>3. Store!Stored(View', disk', lost' \cup stale') \in Store!Arrived(m)
                    BY <2>3, <3>1, <4>1, <4>2 DEF Store!Arrived, View
                <4> QED BY <2>3, <2>7, <4>3, StoreHousekeeping
            <3> QED BY <3>2, <3>3
        <2>8. CASE m \notin stale
            <3>1. Reads(m) = h[2]
                <4>1. CASE m \in lost
                    BY <1>2, <2>1, <2>2, <2>3, <4>1 DEF SectorRead, LostRead, ViewSound
                <4>2. CASE m \notin lost
                    <5>1. Holds(at, m) /\ h[2] = written[m]
                        BY <2>1, <2>2, <2>3, <2>8, <4>2 DEF SectorRead, KeptRead
                    <5>2. at \in Slots
                        BY <1>1, <2>1 DEF TypeOK, HeldWhileSyncing, Syncing
                    <5>3. entry[at].data = written[m]
                        BY <2>3, <2>8, <4>2, <5>1, <5>2 DEF SectorRead, KeptRead
                    <5> QED BY <1>2, <5>1, <5>2, <5>3 DEF ViewSound
                <4> QED BY <4>1, <4>2
            <3>2. View' = View /\ View[m] = h[2]
                BY <2>6, <3>1 DEF View
            <3>3. lost' \cup stale' = lost \cup stale
                BY <2>3, <2>4, <2>8
            <3>4. Store!Stored(View', disk', lost' \cup stale') \in Store!WroteBack(m)
                BY <2>3, <3>2, <3>3 DEF Store!WroteBack, View
            <3>5. Store!Stored(View', disk', lost' \cup stale') \in Store!Room(m)
                BY <3>4 DEF Store!Room
            <3> QED BY <2>3, <3>5, StoreHousekeeping
        <2> QED BY <2>7, <2>8
    <1>12. CASE UNCHANGED vars
        BY <1>5, <1>12 DEF vars
    <1> QED BY <1>6, <1>7, <1>8, <1>9, <1>10, <1>11, <1>12 DEF Next, Sync

-----------------------------------------------------------------------------
(* Theorems                                                                *)

\* Types, and the list of slots, which touch keeps a permutation of them.
THEOREM TypeCorrect == Spec => []TypeOK
    <1>1. BaseInv /\ [Next]_vars => BaseInv'
        BY NextBase
    <1>2. Spec => []BaseInv
        BY InitBase, <1>1, PTL DEF Spec
    <1> QED BY <1>2, PTL DEF BaseInv

\* bcache_read and bcache_write never make a second copy of a sector, also with
\* page faults beside a sync.
THEOREM NeverTwoCopies == Spec => []OneCopy
    <1>1. BaseInv /\ [Next]_vars => BaseInv'
        BY NextBase
    <1>2. Spec => []BaseInv
        BY InitBase, <1>1, PTL DEF Spec
    <1> QED BY <1>2, PTL DEF BaseInv

\* Where the last value of each sector is, at every moment of an eviction, a sync
\* and a page fault beside it.
THEOREM Invariance == Spec => []FullInv
    <1>1. FullInv /\ [Next]_vars => FullInv'
        BY NextFull
    <1> QED BY InitFull, <1>1, PTL DEF Spec

\* A read gives the last value written, or that value is on its way to the disk or
\* there already, unless the disk refused it when the cache had given it up.
THEOREM ReadsFresh == Spec => []FreshReads
    <1>1. FullInv => FreshReads
        <2> SUFFICES ASSUME FullInv, NEW l \in Lbas, l \notin lost
                     PROVE  \/ Reads(l) = written[l]
                            \/ l \in stale /\ <<l, written[l]>> \in held
                            \/ /\ l \in stale /\ disk[l] = written[l]
                               /\ \A s \in Cached(l) : ~entry[s].dirty
            BY DEF FreshReads
        <2>1. SectorRead(l) /\ ViewSound /\ TypeOK
            BY ViewIs DEF FullInv, BaseInv
        <2>2. CASE l \notin stale
            <3>1. KeptRead(l)
                BY <2>1 DEF SectorRead
            <3> QED BY <2>1, <2>2, <3>1 DEF KeptRead, ViewSound
        <2>3. CASE l \in stale
            <3>1. StaleRead(l)
                BY <2>1 DEF SectorRead
            <3>2. \A s \in Cached(l) : ~entry[s].dirty
                BY <2>3, <3>1 DEF StaleRead, Cached, Holds
            <3>3. CASE Flies(l)
                <4>1. PICK h \in held : h[1] = l
                    BY <3>3 DEF Flies
                <4>2. h[2] = written[l] /\ h = <<h[1], h[2]>>
                    BY <2>1, <2>3, <3>1, <4>1 DEF StaleRead, TypeOK
                <4> QED BY <2>3, <4>1, <4>2
            <3> QED BY <2>3, <3>1, <3>2, <3>3 DEF StaleRead
        <2> QED BY <2>2, <2>3
    <1> QED BY Invariance, <1>1, PTL

\* Giving up a clean slot never gives up the only copy of the last value.
THEOREM CleanIsExpendable == Spec => []CleanExpendable
    <1>1. FullInv => CleanExpendable
        <2> SUFFICES ASSUME FullInv, NEW s \in Slots, entry[s].valid, ~entry[s].dirty,
                            NEW l, l = entry[s].lba
                     PROVE  \/ disk[l] \in {entry[s].data, written[l]}
                            \/ <<l, written[l]>> \in held
            BY DEF CleanExpendable
        <2>1. TypeOK /\ l \in Lbas
            BY DEF FullInv, BaseInv, TypeOK, Entries
        <2>2. Holds(s, l) /\ LostRead(l) /\ StaleRead(l) /\ KeptRead(l)
            BY <2>1 DEF FullInv, SectorRead, Holds
        <2>3. CASE Flies(l) /\ l \notin lost
            <3>1. PICK h \in held : h[1] = l
                BY <2>3 DEF Flies
            <3>2. h[2] = written[l] /\ h = <<h[1], h[2]>>
                BY <2>1, <2>2, <2>3, <3>1 DEF StaleRead, KeptRead, TypeOK
            <3> QED BY <3>1, <3>2
        <2>4. CASE ~Flies(l) \/ l \in lost
            BY <2>2, <2>4 DEF LostRead, StaleRead, KeptRead
        <2> QED BY <2>3, <2>4
    <1> QED BY Invariance, <1>1, PTL

\* The cache with its disk is a block store: eviction, sync, disk errors and page
\* faults show themselves to the file system as write-backs and old sectors only.
THEOREM CacheIsStore == Spec => ImplementsStore
    <1>1. Init => Store!Init
        <2> SUFFICES ASSUME Init PROVE Store!Init
            OBVIOUS
        <2>1. BaseInv /\ ViewSound
            BY InitBase, ViewIs
        <2>2. \A s \in Slots : ~entry[s].valid
            BY EmptyType DEF Init
        <2>3. \A l \in Lbas : Reads(l) = disk[l]
            BY <2>1, <2>2 DEF ViewSound, Holds
        <2>4. View = disk /\ disk \in [Lbas -> Values] /\ lost \cup stale = {} /\ written = disk
            BY <2>1, <2>3 DEF Init, BaseInv, TypeOK, View
        <2> QED BY <2>4 DEF Store!Init, View
    <1>2. FullInv /\ [Next]_vars => [Store!Next]_(Store!vars)
        BY StoreStep DEF Store!vars, View
    <1> QED BY <1>1, <1>2, Invariance, PTL DEF Spec, ImplementsStore, Store!Spec

=============================================================================
