----------------------------- MODULE BlockStore -----------------------------
(***************************************************************************)
(* What the file system may rely on from the storage below it: a sector    *)
(* reads as it was last written unless it is old, and what the disk holds  *)
(* of it follows at some moment of the store's own choosing, in any order. *)
(* A sector becomes old when the store has to give it up before the disk   *)
(* has taken it; it then reads as what the disk holds, until it is written *)
(* again or the disk has taken its last value after all.                   *)
(***************************************************************************)
CONSTANTS Lbas, Values

VARIABLES
    view,   \* what reading each sector gives
    disk,   \* what each sector holds after a power failure
    last,   \* the last value written to each sector
    old     \* sectors that may read as an older value than the last one

vars == <<view, disk, last, old>>

Init ==
    /\ view \in [Lbas -> Values]
    /\ disk = view /\ last = view
    /\ old = {}

Stored(v, d, o) == [view |-> v, disk |-> d, old |-> o]

\* The disk takes what sector m reads as; or m is given up and reads as what the
\* disk holds, which makes it old, or no longer so if that is its last value.
WroteBack(m) == {Stored(view, [disk EXCEPT ![m] = view[m]], old)}
Dropped(m)   == {Stored([view EXCEPT ![m] = disk[m]], disk, old \cup {m})}
Reloaded(m)  == {Stored([view EXCEPT ![m] = disk[m]], disk, old \ {m}) :
                     x \in {l \in old : l = m /\ disk[l] = last[l]}}

\* What the store may do to make room.
Room(m) == WroteBack(m) \cup Dropped(m) \cup Reloaded(m)

\* The disk takes the last value of an old sector.  Only if the store has no copy
\* of its own does the sector read as that value from now on.
Arrived(m) ==
    LET d == [disk EXCEPT ![m] = last[m]]
    IN  {Stored(view, d, old), Stored([view EXCEPT ![m] = last[m]], d, old \ {m})}

Write(l, v) ==
    \E r \in {Stored(view, disk, old)} \cup UNION {Room(m) : m \in Lbas \ {l}} :
        /\ view' = [r.view EXCEPT ![l] = v]
        /\ disk' = r.disk /\ old' = r.old \ {l}
        /\ last' = [last EXCEPT ![l] = v]

Housekeeping(m) ==
    /\ \E r \in Room(m) \cup (IF m \in old THEN Arrived(m) ELSE {}) :
          view' = r.view /\ disk' = r.disk /\ old' = r.old
    /\ UNCHANGED last

Next ==
    \/ \E l \in Lbas, v \in Values : Write(l, v)
    \/ \E m \in Lbas : Housekeeping(m)

Spec == Init /\ [][Next]_vars

=============================================================================
