-------------------------------- MODULE Pipe --------------------------------
(***************************************************************************)
(* One pipe (kernel/pipe.c): a ring buffer of PIPE_BUF_SZ bytes, of which  *)
(* one is always left empty, the processes that hold its two ends, and the *)
(* reads and writes that wait in task_yield.  A system call runs under the *)
(* Big Kernel Lock and gives it up only in task_yield, so what it does     *)
(* from its entry, or from one return of task_yield, to the next is one    *)
(* step.                                                                   *)
(***************************************************************************)
EXTENDS Integers, Sequences, FiniteSets

CONSTANTS
    Procs,          \* the processes
    PIPE_BUF_SZ,    \* bytes of the ring
    Sizes,          \* workload: the n of read and write calls
    MaxBytes        \* bound: bytes that processes ask to write in a behaviour

ASSUME PipeAssumption ==
    /\ PIPE_BUF_SZ \in Nat \ {0} /\ MaxBytes \in Nat
    /\ Sizes \subseteq Nat \ {0}

VARIABLES
    head, tail, buf,
    rOpen, wOpen,   \* the processes that hold the read end and the write end
    born,           \* the processes that exist
    call,           \* what each process is doing: "user", "read" or "write"
    left,           \* bytes the call of each process still wants
    copied,         \* bytes the unfinished pipe_write of each process copied
    asked,          \* bytes asked for by all writes
    sent, rcvd,     \* history: the bytes put in the ring and taken from it
    acked,          \* history: bytes each process was told it has written
    eof             \* history: some read has returned 0

ring   == <<head, tail, buf>>
ends   == <<rOpen, wOpen, born>>
calls  == <<call, left, copied, asked>>
hist   == <<sent, rcvd, acked, eof>>
vars   == <<ring, ends, calls, hist>>

Slots == 0 .. (PIPE_BUF_SZ - 1)

\* A byte is known by its writer and its position among that writer's bytes.
Bytes == Procs \X (1 .. MaxBytes)
Blank == <<>>

TypeOK ==
    /\ head \in Slots /\ tail \in Slots
    /\ buf \in [Slots -> Bytes \cup {Blank}]
    /\ rOpen \subseteq born /\ wOpen \subseteq born /\ born \subseteq Procs
    /\ call \in [Procs -> {"user", "read", "write"}]
    /\ left \in [Procs -> Nat] /\ copied \in [Procs -> Nat] /\ asked \in 0 .. MaxBytes
    /\ sent \in Seq(Bytes) /\ rcvd \in Seq(Bytes)
    /\ acked \in [Procs -> Nat] /\ eof \in BOOLEAN

\* pipe_new: the caller of SYS_PIPE holds both ends.
Init ==
    /\ head = 0 /\ tail = 0 /\ buf = [i \in Slots |-> Blank]
    /\ \E p \in Procs : born = {p}
    /\ rOpen = born /\ wOpen = born
    /\ call = [p \in Procs |-> "user"]
    /\ left = [p \in Procs |-> 0] /\ copied = [p \in Procs |-> 0] /\ asked = 0
    /\ sent = <<>> /\ rcvd = <<>>
    /\ acked = [p \in Procs |-> 0] /\ eof = FALSE

-----------------------------------------------------------------------------
Smaller(a, b) == IF a <= b THEN a ELSE b

\* The step of an index of the ring.  Mutant: without the wrap.
AdvanceNoWrap(i, k) == i + k
Advance(i, k) == (i + k) % PIPE_BUF_SZ

\* Bytes in the ring, oldest first.
Used == (head - tail) % PIPE_BUF_SZ
Contents == [i \in 1 .. Used |-> buf[Advance(tail, i - 1)]]

\* pipe_write stops when head + 1 would meet tail.  Mutant: when head would.
RoomAll == PIPE_BUF_SZ - Used
Room == PIPE_BUF_SZ - 1 - Used

\* The gate of pipe_read, and pipe_read_avail: bytes queued, or drained EOF.
\* Mutants: off by one in the test of write_refs, or no test of it.
AvailLastWriter == head # tail \/ Cardinality(wOpen) <= 1
AvailData == head # tail
Avail == head # tail \/ wOpen = {}

\* pipe_read past its gate, for a call of n bytes by p.
Take(p, n) ==
    LET k == Smaller(n, Used)
    IN  /\ tail' = Advance(tail, k)
        /\ rcvd' = rcvd \o SubSeq(Contents, 1, k)
        /\ eof'  = (eof \/ k = 0)
        /\ call' = [call EXCEPT ![p] = "user"]
        /\ left' = [left EXCEPT ![p] = 0]
        /\ UNCHANGED <<head, buf, ends, copied, asked, sent, acked>>

\* What pipe_write returns, with c bytes copied before its last task_yield and k
\* after it; -1 stands for no byte.  Mutant: copied starts again after a wait.
ReturnsLast(c, k) == k
Returns(c, k) == c + k

\* The loop of pipe_write, with c bytes copied and n to go, to its return or to
\* the next task_yield.
Put(p, n, c) ==
    LET k    == IF rOpen = {} THEN 0 ELSE Smaller(n, Room)
        Byte(j) == <<p, acked[p] + c + j>>
        done == rOpen = {} \/ k = n
    IN  /\ head' = Advance(head, k)
        /\ buf'  = [i \in Slots |-> LET j == ((i - head) % PIPE_BUF_SZ) + 1
                                    IN  IF j <= k THEN Byte(j) ELSE buf[i]]
        /\ sent' = sent \o [j \in 1 .. k |-> Byte(j)]
        /\ call' = [call EXCEPT ![p] = IF done THEN "user" ELSE "write"]
        /\ left' = [left EXCEPT ![p] = IF done THEN 0 ELSE n - k]
        /\ copied' = [copied EXCEPT ![p] = IF done THEN 0 ELSE c + k]
        /\ acked'  = [acked EXCEPT ![p] = IF done THEN @ + Returns(c, k) ELSE @]
        /\ UNCHANGED <<tail, ends, rcvd, eof>>

-----------------------------------------------------------------------------
(* System calls                                                            *)

\* SYS_READ of n bytes.  With FD_FL_NONBLOCK a read that would wait returns -1
\* instead, and nothing changes.
Read(p, n) ==
    /\ call[p] = "user" /\ p \in rOpen
    /\ \/ Avail /\ Take(p, n)
       \/ /\ ~Avail
          /\ call' = [call EXCEPT ![p] = "read"]
          /\ left' = [left EXCEPT ![p] = n]
          /\ UNCHANGED <<ring, ends, copied, asked, hist>>

\* task_yield returns in pipe_read; unless the gate opened, it yields again.
ReadResume(p) == call[p] = "read" /\ Avail /\ Take(p, left[p])

\* SYS_WRITE_FD of n bytes.
Write(p, n) ==
    /\ call[p] = "user" /\ p \in wOpen
    /\ asked + n <= MaxBytes
    /\ asked' = asked + n
    /\ Put(p, n, 0)

\* Mutant of WriteResume: read_refs is not tested again after a wait.
WriteResumeStale(p) ==
    /\ call[p] = "write"
    /\ Room > 0
    /\ Put(p, left[p], copied[p])
    /\ UNCHANGED asked

\* task_yield returns in pipe_write; with the ring still full and a reader
\* left, it yields again.
WriteResume(p) ==
    /\ call[p] = "write"
    /\ rOpen = {} \/ Room > 0
    /\ Put(p, left[p], copied[p])
    /\ UNCHANGED asked

CloseRead(p) ==
    /\ call[p] = "user" /\ p \in rOpen
    /\ rOpen' = rOpen \ {p}
    /\ UNCHANGED <<ring, wOpen, born, calls, hist>>

CloseWrite(p) ==
    /\ call[p] = "user" /\ p \in wOpen
    /\ wOpen' = wOpen \ {p}
    /\ UNCHANGED <<ring, rOpen, born, calls, hist>>

\* task_fork: the child q holds the ends that p holds.
Fork(p, q) ==
    /\ p \in born /\ call[p] = "user" /\ q \notin born
    /\ born'  = born \cup {q}
    /\ rOpen' = IF p \in rOpen THEN rOpen \cup {q} ELSE rOpen
    /\ wOpen' = IF p \in wOpen THEN wOpen \cup {q} ELSE wOpen
    /\ UNCHANGED <<ring, calls, hist>>

Next ==
    \E p \in Procs :
        \/ \E n \in Sizes : Read(p, n)
        \/ ReadResume(p)
        \/ \E n \in Sizes : Write(p, n)
        \/ WriteResume(p)
        \/ CloseRead(p)
        \/ CloseWrite(p)
        \/ \E q \in Procs : Fork(p, q)

Spec == Init /\ [][Next]_vars

\* A task that has yielded is READY and is picked again (ReadyRuns in Task).
Fairness == \A p \in Procs : WF_vars(ReadResume(p)) /\ WF_vars(WriteResume(p))

FairSpec == Spec /\ Fairness

-----------------------------------------------------------------------------
(* Properties                                                              *)

\* What the readers have taken, followed by what is in the ring, is what the
\* writers have put there: across the wrap of head and tail and whatever the
\* interleaving of several readers and writers, no byte is lost, repeated or
\* out of order.
RingContents == sent = rcvd \o Contents

\* The counts that write returns, with those of the calls still waiting, add up
\* to the bytes in the ring's history, also when the readers leave in the
\* middle of a call.
AckExact ==
    \A p \in Procs :
        acked[p] + copied[p] = Cardinality({i \in DOMAIN sent : sent[i][1] = p})

\* The pipe seen from its two ends.
Stream == INSTANCE ByteStream WITH
              Bytes <- Bytes, Capacity <- PIPE_BUF_SZ - 1,
              queue <- Contents, taken <- rcvd, open <- (wOpen # {}), ended <- eof

\* However its readers and writers wait, wake, fork and leave in the middle of a
\* call, the ring of pipe.c is one bounded first-in first-out stream whose end is
\* final: every step of it is a step of ByteStream or changes nothing there.
ImplementsStream == Stream!Spec

\* Once the last writer has closed or exited, no read waits for ever.
EofDelivered == \A p \in Procs : (call[p] = "read" /\ wOpen = {}) ~> (call[p] = "user")

\* Once the last reader has closed or exited, no write waits for ever.
WriterReleased == \A p \in Procs : (call[p] = "write" /\ rOpen = {}) ~> (call[p] = "user")

=============================================================================
