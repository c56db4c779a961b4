------------------------------- MODULE Bcache -------------------------------
(***************************************************************************)
(* The write-back block cache between fs.c and the disk (kernel/bcache.c): *)
(* sector reads and writes of the file system, LRU eviction with           *)
(* write-back, and bcache_sync as the syncer task and SYS_BCACHE_SYNC run  *)
(* it, one slot at a time and with the cache open during the disk write.   *)
(*                                                                         *)
(* System calls and the syncer hold the Big Kernel Lock.  A page fault on  *)
(* a file mapping does not, and reads sectors too, beside a syncer on      *)
(* another CPU: so reads happen at any time, writes only while no sync is  *)
(* under way.  Each section between bcache_lock_save, which only disables  *)
(* the interrupts of its own CPU, and bcache_unlock_restore is one step.   *)
(***************************************************************************)
EXTENDS Integers, Sequences

CONSTANTS
    BCACHE_NR,      \* slots of the cache
    Lbas,           \* sector numbers
    Values          \* sector contents

ASSUME BcacheAssumption ==
    /\ BCACHE_NR \in Nat \ {0}
    /\ Lbas # {} /\ Values # {}

Slots == 0 .. (BCACHE_NR - 1)
Entries == [valid : BOOLEAN, dirty : BOOLEAN, lba : Lbas, data : Values]

\* An empty slot, whose other fields are never looked at.
Empty == [valid |-> FALSE, dirty |-> FALSE,
          lba |-> CHOOSE l \in Lbas : TRUE, data |-> CHOOSE v \in Values : TRUE]

VARIABLES
    entry,      \* g_entries
    lru,        \* the list from g_head to g_tail
    disk,       \* what each sector of the disk holds
    at,         \* the slot bcache_sync stands at, BCACHE_NR when none runs
    held,       \* the snapshot bcache_sync is writing: at most one pair
    written,    \* history: the last value given to bcache_write
    lost,       \* history: sectors whose last value the disk refused when the
                \* cache had no copy of it left
    stale       \* history: other sectors that left the cache while bcache_sync
                \* was writing them, and may read as what the disk held before

vars == <<entry, lru, disk, at, held, written, lost, stale>>

TypeOK ==
    /\ entry \in [Slots -> Entries]
    /\ lru \in [1 .. BCACHE_NR -> Slots]
    /\ \A s \in Slots : \E i \in 1 .. BCACHE_NR : lru[i] = s
    /\ disk \in [Lbas -> Values] /\ written \in [Lbas -> Values]
    /\ at \in Slots \cup {BCACHE_NR}
    /\ held \subseteq Lbas \X Values
    /\ lost \subseteq Lbas /\ stale \subseteq Lbas

\* bcache_init.
Init ==
    /\ entry = [s \in Slots |-> Empty]
    /\ \E v \in Values : disk = [l \in Lbas |-> v]
    /\ lru = [i \in 1 .. BCACHE_NR |-> i - 1]
    /\ at = BCACHE_NR /\ held = {}
    /\ written = disk /\ lost = {} /\ stale = {}

-----------------------------------------------------------------------------
\* Mutant of Cached: an entry of the table is missed when it is clean.
CachedDirty(l) == {s \in Slots : entry[s].valid /\ entry[s].dirty /\ entry[s].lba = l}

\* lookup: the slots that hold sector l.
Cached(l) == {s \in Slots : entry[s].valid /\ entry[s].lba = l}

\* Mutant of Touched: linked at the head without being unlinked.
TouchedTwice(s) == <<s>> \o lru

\* touch: s moves to the head of the list, and what was before it one place back.
Touched(s) ==
    LET k == CHOOSE i \in 1 .. BCACHE_NR : lru[i] = s
    IN  [i \in 1 .. BCACHE_NR |->
            IF i = 1 THEN s ELSE IF i <= k THEN lru[i - 1] ELSE lru[i]]

\* The least recently used slot, which a miss takes.
g_tail == lru[Len(lru)]

\* Mutant of WritesBack: eviction takes the slot whatever it holds.
WritesBackNever == FALSE

\* reserve_lru has something to write back.
WritesBack == entry[g_tail].valid /\ entry[g_tail].dirty

\* The disk and the record of losses after reserve_lru, whose write succeeds or
\* not: the slot is given up in either case.
DiskAfter(ok) ==
    IF WritesBack /\ ok THEN [disk EXCEPT ![entry[g_tail].lba] = entry[g_tail].data]
    ELSE disk

LostAfter(ok) == IF WritesBack /\ ~ok THEN lost \cup {entry[g_tail].lba} ELSE lost

Syncing == at # BCACHE_NR

\* The sector that bcache_sync is writing.
InFlight == {h[1] : h \in held}

\* The sectors that are stale after reserve_lru: one that is given up before its
\* write has reached the disk is, one that is given up after it no more.
StaleAfter ==
    LET m == entry[g_tail].lba
    IN  CASE ~entry[g_tail].valid -> stale
          [] entry[g_tail].valid /\ m \in InFlight -> stale \cup ({m} \ lost)
          [] OTHER -> stale \ {m}

-----------------------------------------------------------------------------
(* bcache_read: by a system call under the BKL, or by a page fault         *)

ReadHit(l) ==
    /\ \E s \in Cached(l) :
          /\ \A r \in Cached(l) : s <= r
          /\ lru' = Touched(s)
    /\ UNCHANGED <<entry, disk, at, held, written, lost, stale>>

\* A miss, with the outcomes of the write-back and of the read.
ReadMiss(l, wb, rd) ==
    LET e == g_tail
    IN  /\ Cached(l) = {}
        /\ disk' = DiskAfter(wb)
        /\ lost' = LostAfter(wb) /\ stale' = StaleAfter
        /\ IF rd
           THEN /\ entry' = [entry EXCEPT ![e] = [valid |-> TRUE, dirty |-> FALSE,
                                                  lba |-> l, data |-> disk'[l]]]
                /\ lru' = Touched(e)
           ELSE /\ entry' = [entry EXCEPT ![e] = Empty]
                /\ UNCHANGED lru
        /\ UNCHANGED <<at, held, written>>

-----------------------------------------------------------------------------
(* bcache_write: by a system call under the BKL                            *)

WriteHit(l, v) ==
    /\ ~Syncing
    /\ \E s \in Cached(l) :
          /\ \A r \in Cached(l) : s <= r
          /\ entry' = [entry EXCEPT ![s].data = v, ![s].dirty = TRUE]
          /\ lru' = Touched(s)
    /\ written' = [written EXCEPT ![l] = v]
    /\ lost' = lost \ {l} /\ stale' = stale \ {l}
    /\ UNCHANGED <<disk, at, held>>

WriteMiss(l, v, wb) ==
    LET e == g_tail
    IN  /\ ~Syncing
        /\ Cached(l) = {}
        /\ disk' = DiskAfter(wb)
        /\ lost' = LostAfter(wb) \ {l} /\ stale' = StaleAfter \ {l}
        /\ entry' = [entry EXCEPT ![e] = [valid |-> TRUE, dirty |-> TRUE,
                                          lba |-> l, data |-> v]]
        /\ lru' = Touched(e)
        /\ written' = [written EXCEPT ![l] = v]
        /\ UNCHANGED <<at, held>>

-----------------------------------------------------------------------------
(* bcache_sync                                                             *)

\* The syncer task wakes up, or SYS_BCACHE_SYNC, with the BKL.
SyncStart ==
    /\ ~Syncing
    /\ at' = 0
    /\ UNCHANGED <<entry, lru, disk, held, written, lost, stale>>

\* Mutant of SyncSkip: the loop ends one slot early.
SyncSkipLast ==
    /\ Syncing /\ held = {}
    /\ at = BCACHE_NR - 1 \/ ~(entry[at].valid /\ entry[at].dirty)
    /\ at' = at + 1
    /\ UNCHANGED <<entry, lru, disk, held, written, lost, stale>>

\* Nothing to do for this slot.
SyncSkip ==
    /\ Syncing /\ held = {}
    /\ ~(entry[at].valid /\ entry[at].dirty)
    /\ at' = at + 1
    /\ UNCHANGED <<entry, lru, disk, held, written, lost, stale>>

\* The snapshot, and the dirty bit claimed, with interrupts off.
SyncSnapshot ==
    /\ Syncing /\ held = {}
    /\ entry[at].valid /\ entry[at].dirty
    /\ held'  = {<<entry[at].lba, entry[at].data>>}
    /\ entry' = [entry EXCEPT ![at].dirty = FALSE]
    /\ UNCHANGED <<lru, disk, at, written, lost, stale>>

\* Mutant of SyncWrite: what the slot holds by now is written.
SyncWriteSlot ==
    /\ \E h \in held : disk' = [disk EXCEPT ![h[1]] = entry[at].data]
    /\ stale' = stale \ {l \in InFlight : Cached(l) = {}}
    /\ held' = {} /\ at' = at + 1
    /\ UNCHANGED <<entry, lru, written, lost>>

\* The disk write, outside of the critical section.
SyncWrite ==
    /\ \E h \in held : disk' = [disk EXCEPT ![h[1]] = h[2]]
    /\ stale' = stale \ {l \in InFlight : Cached(l) = {}}
    /\ held' = {} /\ at' = at + 1
    /\ UNCHANGED <<entry, lru, written, lost>>

\* Mutant of SyncFail: the dirty bit is not restored.
SyncFailClean ==
    /\ held # {}
    /\ held' = {} /\ at' = at + 1
    /\ UNCHANGED <<entry, lru, disk, written, lost, stale>>

\* The disk write failed: dirty again, if the slot still holds that sector.  If
\* the sector has left the cache, or came back from the disk, its last value is
\* gone.
SyncFail ==
    /\ \E h \in held :
          entry' = [entry EXCEPT ![at].dirty =
                       (entry[at].valid /\ entry[at].lba = h[1]) \/ entry[at].dirty]
    /\ lost' = lost \cup (stale \cap InFlight) /\ stale' = stale \ InFlight
    /\ held' = {} /\ at' = at + 1
    /\ UNCHANGED <<lru, disk, written>>

-----------------------------------------------------------------------------
Sync == SyncStart \/ SyncSkip \/ SyncSnapshot \/ SyncWrite \/ SyncFail

Next ==
    \/ \E l \in Lbas : ReadHit(l)
    \/ \E l \in Lbas, wb, rd \in BOOLEAN : ReadMiss(l, wb, rd)
    \/ \E l \in Lbas, v \in Values : WriteHit(l, v)
    \/ \E l \in Lbas, v \in Values, wb \in BOOLEAN : WriteMiss(l, v, wb)
    \/ Sync

Spec == Init /\ [][Next]_vars

\* The syncer task keeps running, and no sector fails every time it is written.
Fairness ==
    /\ WF_vars(Sync)
    /\ \A l \in Lbas : SF_vars(SyncWrite /\ \E v \in Values : <<l, v>> \in held)

FairSpec == Spec /\ Fairness

-----------------------------------------------------------------------------
(* Properties                                                              *)

\* No sector is in two slots, of which lookup would only see the first.
OneCopy == \A r, s \in Slots : entry[r].valid /\ entry[s].valid
                               /\ entry[r].lba = entry[s].lba => r = s

\* What reading sector l gives now.
Reads(l) == IF Cached(l) = {} THEN disk[l] ELSE entry[CHOOSE s \in Cached(l) : TRUE].data

\* Reading a sector, from the cache or after a miss from the disk, gives the
\* last value written to it, or that value is still on its way to the disk, or
\* already there and not going to be overwritten by the cache: the last two only
\* for a sector that left the cache while the syncer was writing it.  Excepted is
\* a sector whose last value the disk refused and the cache gave up, until it is
\* written again.
FreshReads ==
    \A l \in Lbas \ lost :
        \/ Reads(l) = written[l]
        \/ l \in stale /\ <<l, written[l]>> \in held
        \/ /\ l \in stale /\ disk[l] = written[l]
           /\ \A s \in Cached(l) : ~entry[s].dirty

\* A clean slot may be given up at any time: it holds what is on the disk, or the
\* disk has, or is just being given, the last value written.  ("valid=1 dirty=0:
\* data[] matches sector lba on disk" is more than the code keeps to: after a
\* fault that reads a sector while the syncer writes it, the disk is newer.)
CleanExpendable ==
    \A s \in Slots :
        LET l == entry[s].lba
        IN  entry[s].valid /\ ~entry[s].dirty
            => \/ disk[l] \in {entry[s].data, written[l]}
               \/ <<l, written[l]>> \in held

\* The cache seen by the file system.
Store == INSTANCE BlockStore WITH view <- [l \in Lbas |-> Reads(l)],
                                  last <- written, old <- lost \cup stale

\* The cache with its disk is a block store: whatever is evicted, flushed by the
\* syncer, refused by the disk or read by page faults, a step of bcache.c changes
\* what at most one other sector than the written one reads as, and only to what
\* its disk sector holds, which counts as old unless it is the last value; and
\* what reaches the disk is what a sector reads as, or the last value of an old
\* one.
ImplementsStore == Store!Spec

\* "data[] is newer than disk; sync will flush it": whenever the disk is behind,
\* it catches up with the last value written, however often the sector is written,
\* evicted and read meanwhile, unless the disk refused it when the cache had given
\* it up.
Flushed == \A l \in Lbas : (disk[l] # written[l]) ~> (disk[l] = written[l] \/ l \in lost)

=============================================================================
