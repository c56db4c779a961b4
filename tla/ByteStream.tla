----------------------------- MODULE ByteStream -----------------------------
(***************************************************************************)
(* What a pipe promises to the processes that hold its ends: one bounded   *)
(* queue of bytes, read in the order in which they were written, and an    *)
(* end of the stream that comes once, after the last byte, when nobody can *)
(* write any more.                                                         *)
(***************************************************************************)
EXTENDS Naturals, Sequences

CONSTANTS
    Bytes,
    Capacity    \* bytes that the queue holds at most

VARIABLES
    queue,      \* bytes written and not read yet
    taken,      \* bytes read
    open,       \* somebody can still write
    ended       \* some read has been told that the stream is over

vars == <<queue, taken, open, ended>>

Init == queue = <<>> /\ taken = <<>> /\ open = TRUE /\ ended = FALSE

\* Bytes join the queue at its end.
Put(n) ==
    /\ open
    /\ Len(queue) + n <= Capacity
    /\ \E s \in [1 .. n -> Bytes] : queue' = queue \o s
    /\ UNCHANGED <<taken, open, ended>>

\* A read gets the oldest n bytes.
Take(n) ==
    /\ n <= Len(queue)
    /\ taken' = taken \o SubSeq(queue, 1, n)
    /\ queue' = SubSeq(queue, n + 1, Len(queue))
    /\ UNCHANGED <<open, ended>>

\* The last writer leaves, for ever.
Shut == open /\ open' = FALSE /\ UNCHANGED <<queue, taken, ended>>

\* A read returns 0.
End ==
    /\ ~open /\ queue = <<>>
    /\ ended' = TRUE
    /\ UNCHANGED <<queue, taken, open>>

Next == (\E n \in 1 .. Capacity : Put(n) \/ Take(n)) \/ Shut \/ End

Spec == Init /\ [][Next]_vars

=============================================================================
