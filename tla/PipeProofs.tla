----------------------------- MODULE PipeProofs -----------------------------
(***************************************************************************)
(* Machine-checked proofs about the ring buffer of kernel/pipe.c, for any  *)
(* size of the ring, any number of processes that share its ends and any   *)
(* sizes of their reads and writes.                                        *)
(***************************************************************************)
EXTENDS Pipe, SequenceTheorems, FiniteSetTheorems, TLAPS

-----------------------------------------------------------------------------
(* The arithmetic of the ring                                              *)

\* What % gives for the distance of two indices, and for a step of one.
LEMMA ModDiff ==
    ASSUME NEW n \in Nat \ {0}, NEW a \in 0 .. (n - 1), NEW b \in 0 .. (n - 1)
    PROVE  (a - b) % n = IF a >= b THEN a - b ELSE a - b + n
    OBVIOUS

LEMMA ModSum ==
    ASSUME NEW n \in Nat \ {0}, NEW a \in 0 .. (n - 1), NEW b \in 0 .. (n - 1)
    PROVE  (a + b) % n = IF a + b < n THEN a + b ELSE a + b - n
    OBVIOUS

LEMMA AdvanceIs ==
    ASSUME NEW i \in Slots, NEW k \in Slots
    PROVE  /\ Advance(i, k) = IF i + k < PIPE_BUF_SZ THEN i + k ELSE i + k - PIPE_BUF_SZ
           /\ Advance(i, k) \in Slots
    <1>1. (i + k) % PIPE_BUF_SZ = IF i + k < PIPE_BUF_SZ THEN i + k ELSE i + k - PIPE_BUF_SZ
        BY PipeAssumption, ModSum DEF Slots
    <1> QED BY <1>1, PipeAssumption DEF Advance, Slots

\* One slot of the ring is never used.
LEMMA UsedIs ==
    ASSUME head \in Slots, tail \in Slots
    PROVE  /\ Used = IF head >= tail THEN head - tail ELSE head - tail + PIPE_BUF_SZ
           /\ Used \in Slots /\ Room \in Slots
           /\ Used = 0 <=> head = tail
    <1>1. Used = IF head >= tail THEN head - tail ELSE head - tail + PIPE_BUF_SZ
        BY PipeAssumption, ModDiff DEF Slots, Used
    <1> QED BY <1>1, PipeAssumption DEF Slots, Room

LEMMA UsedIsPrime ==
    ASSUME head' \in Slots, tail' \in Slots
    PROVE  Used' = IF head' >= tail' THEN head' - tail' ELSE head' - tail' + PIPE_BUF_SZ
    BY PipeAssumption, ModDiff DEF Slots, Used

\* Taking the k oldest bytes leaves the others, in their order.
LEMMA TakeRing ==
    ASSUME TypeOK, NEW k \in 0 .. Used,
           tail' = Advance(tail, k), UNCHANGED <<head, buf>>
    PROVE  /\ tail' \in Slots
           /\ Used' = Used - k
           /\ Contents' = [i \in 1 .. (Used - k) |-> Contents[k + i]]
    <1> USE PipeAssumption DEF Slots
    <1>1. head \in Slots /\ tail \in Slots
        BY DEF TypeOK
    <1>2. Used \in Slots /\ k \in Slots
        BY <1>1, UsedIs
    <1>3. tail' \in Slots /\ tail' = IF tail + k < PIPE_BUF_SZ THEN tail + k ELSE tail + k - PIPE_BUF_SZ
        BY <1>1, <1>2, AdvanceIs
    <1>4. Used' = IF head >= tail' THEN head - tail' ELSE head - tail' + PIPE_BUF_SZ
        BY <1>1, <1>3, UsedIsPrime
    <1>5. Used = IF head >= tail THEN head - tail ELSE head - tail + PIPE_BUF_SZ
        BY <1>1, UsedIs
    <1>6. Used' = Used - k
        BY <1>1, <1>2, <1>3, <1>4, <1>5
    <1>7. ASSUME NEW i \in 1 .. (Used - k)
          PROVE  Advance(tail', i - 1) = Advance(tail, k + i - 1)
        <2>1. i - 1 \in Slots /\ k + i - 1 \in Slots
            BY <1>2
        <2>2. Advance(tail', i - 1) = IF tail' + (i - 1) < PIPE_BUF_SZ THEN tail' + (i - 1)
                                      ELSE tail' + (i - 1) - PIPE_BUF_SZ
            BY <1>3, <2>1, AdvanceIs
        <2>3. Advance(tail, k + i - 1) = IF tail + (k + i - 1) < PIPE_BUF_SZ THEN tail + (k + i - 1)
                                         ELSE tail + (k + i - 1) - PIPE_BUF_SZ
            BY <1>1, <2>1, AdvanceIs
        <2> QED BY <1>1, <1>2, <1>3, <2>2, <2>3
    <1>8. Contents' = [i \in 1 .. (Used - k) |-> buf[Advance(tail', i - 1)]]
        BY <1>6 DEF Contents, Advance
    <1>9. ASSUME NEW i \in 1 .. (Used - k)
          PROVE  Contents[k + i] = buf[Advance(tail, k + i - 1)]
        BY <1>2 DEF Contents
    <1> QED BY <1>3, <1>6, <1>7, <1>8, <1>9

\* Putting k bytes in the room that is left keeps the ones already there and adds
\* the new ones after them, also when head wraps.
LEMMA PutRing ==
    ASSUME TypeOK, NEW k \in 0 .. Room, NEW b,
           head' = Advance(head, k), tail' = tail,
           buf' = [i \in Slots |-> LET j == ((i - head) % PIPE_BUF_SZ) + 1
                                   IN  IF j <= k THEN b[j] ELSE buf[i]]
    PROVE  /\ head' \in Slots
           /\ Used' = Used + k
           /\ Contents' = [i \in 1 .. (Used + k) |->
                             IF i <= Used THEN Contents[i] ELSE b[i - Used]]
    <1> USE PipeAssumption DEF Slots
    <1>1. head \in Slots /\ tail \in Slots
        BY DEF TypeOK
    <1>2. Used \in Slots /\ k \in Slots /\ Used + k \in Slots
        <2>1. Used \in Slots /\ Room = PIPE_BUF_SZ - 1 - Used
            BY <1>1, UsedIs DEF Room
        <2> QED BY <2>1
    <1>3. head' \in Slots /\ head' = IF head + k < PIPE_BUF_SZ THEN head + k ELSE head + k - PIPE_BUF_SZ
        BY <1>1, <1>2, AdvanceIs
    <1>4. Used' = IF head' >= tail THEN head' - tail ELSE head' - tail + PIPE_BUF_SZ
        BY <1>1, <1>3, UsedIsPrime
    <1>5. Used = IF head >= tail THEN head - tail ELSE head - tail + PIPE_BUF_SZ
        BY <1>1, UsedIs
    <1>6. Used' = Used + k
        BY <1>1, <1>2, <1>3, <1>4, <1>5
    <1>7. ASSUME NEW i \in 1 .. (Used + k)
          PROVE  buf'[Advance(tail, i - 1)] = IF i <= Used THEN Contents[i] ELSE b[i - Used]
        <2> DEFINE a == Advance(tail, i - 1)
        <2>1. i - 1 \in Slots
            BY <1>2
        <2>2. a \in Slots /\ a = IF tail + (i - 1) < PIPE_BUF_SZ THEN tail + (i - 1)
                                 ELSE tail + (i - 1) - PIPE_BUF_SZ
            BY <1>1, <2>1, AdvanceIs
        <2> HIDE DEF a
        <2> DEFINE m == (a - head) % PIPE_BUF_SZ
        <2>3. m = IF a >= head THEN a - head ELSE a - head + PIPE_BUF_SZ
            BY <1>1, <2>2, ModDiff
        <2> HIDE DEF m
        <2>4. CASE i <= Used
            <3>1. m + 1 > k
                BY <1>1, <1>2, <1>5, <2>2, <2>3, <2>4
            <3>2. buf'[a] = buf[a]
                BY <1>1, <1>2, <2>2, <2>3, <3>1 DEF m
            <3>3. Contents[i] = buf[a]
                BY <1>2, <2>4 DEF Contents, a
            <3> QED BY <2>4, <3>2, <3>3 DEF a
        <2>5. CASE i > Used
            <3>1. m + 1 = i - Used
                BY <1>1, <1>2, <1>5, <2>2, <2>3, <2>5
            <3>2. i - Used <= k
                BY <1>2
            <3>3. buf'[a] = b[i - Used]
                BY <2>2, <3>1, <3>2 DEF m
            <3> QED BY <1>2, <2>5, <3>3 DEF a
        <2> QED BY <1>2, <2>4, <2>5
    <1>8. Contents' = [i \in 1 .. (Used + k) |-> buf'[Advance(tail, i - 1)]]
        BY <1>6 DEF Contents, Advance
    <1> QED BY <1>3, <1>6, <1>7, <1>8

\* The same for the sequences of bytes.
LEMMA ContentsType ==
    ASSUME TypeOK
    PROVE  /\ Contents \in Seq(Bytes \cup {Blank})
           /\ Len(Contents) = Used /\ Used \in Nat /\ Used < PIPE_BUF_SZ
    <1>1. Used \in Slots /\ head \in Slots /\ tail \in Slots
        BY UsedIs DEF TypeOK
    <1>2. Used \in Nat /\ Used < PIPE_BUF_SZ
        BY <1>1, PipeAssumption DEF Slots
    <1>3. ASSUME NEW i \in 1 .. Used
          PROVE  buf[Advance(tail, i - 1)] \in Bytes \cup {Blank}
        <2>1. i - 1 \in Slots
            BY <1>1, PipeAssumption DEF Slots
        <2>2. Advance(tail, i - 1) \in Slots
            BY <1>1, <2>1, AdvanceIs
        <2> QED BY <2>2 DEF TypeOK
    <1>4. Contents \in [1 .. Used -> Bytes \cup {Blank}]
        BY <1>3 DEF Contents
    <1> QED BY <1>2, <1>4

LEMMA TakeSeq ==
    ASSUME TypeOK, NEW k \in 0 .. Used,
           tail' = Advance(tail, k), UNCHANGED <<head, buf>>
    PROVE  /\ Contents' = SubSeq(Contents, k + 1, Used)
           /\ Contents = SubSeq(Contents, 1, k) \o Contents'
    <1> DEFINE B == Bytes \cup {Blank}
    <1>1. Contents \in Seq(B) /\ Len(Contents) = Used /\ Used \in Nat
        BY ContentsType
    <1>2. Contents' = [i \in 1 .. (Used - k) |-> Contents[k + i]]
        BY TakeRing
    <1> HIDE DEF B
    <1>3. \A i \in (k + 1) .. Used : Contents[i] \in B
        BY <1>1, ElementOfSeq
    <1>4. /\ SubSeq(Contents, k + 1, Used) \in Seq(B)
          /\ Len(SubSeq(Contents, k + 1, Used)) = Used - k
          /\ \A i \in 1 .. (Used - k) : SubSeq(Contents, k + 1, Used)[i] = Contents[k + i]
        BY <1>1
    <1>5. Contents' \in [1 .. (Used - k) -> B]
        BY <1>1, <1>2, <1>3
    <1>6. Contents' \in Seq(B) /\ Len(Contents') = Used - k
        BY <1>1, <1>5
    <1>7. Contents' = SubSeq(Contents, k + 1, Used)
        BY <1>1, <1>2, <1>4, <1>6, SeqEqual
    <1>8. SubSeq(Contents, 1, k) \o SubSeq(Contents, k + 1, Used) = SubSeq(Contents, 1, Used)
        BY <1>1, ConcatAdjacentSubSeq
    <1>9. SubSeq(Contents, 1, Used) = Contents
        BY <1>1, SubSeqFull
    <1> QED BY <1>7, <1>8, <1>9

LEMMA PutSeq ==
    ASSUME TypeOK, NEW k \in 0 .. Room, NEW b \in [1 .. k -> Bytes],
           head' = Advance(head, k), tail' = tail,
           buf' = [i \in Slots |-> LET j == ((i - head) % PIPE_BUF_SZ) + 1
                                   IN  IF j <= k THEN b[j] ELSE buf[i]]
    PROVE  Contents' = Contents \o b
    <1> DEFINE T == Bytes \cup {Blank}
    <1>1. Contents \in Seq(T) /\ Len(Contents) = Used /\ Used \in Nat /\ k \in Nat
        BY ContentsType
    <1>2. Contents' = [i \in 1 .. (Used + k) |-> IF i <= Used THEN Contents[i] ELSE b[i - Used]]
        BY PutRing
    <1>4. b \in Seq(T) /\ Len(b) = k
        BY <1>1
    <1> HIDE DEF T
    <1>5. /\ Contents \o b \in Seq(T) /\ Len(Contents \o b) = Used + k
          /\ \A i \in 1 .. (Used + k) : (Contents \o b)[i] = IF i <= Used THEN Contents[i] ELSE b[i - Used]
        BY <1>1, <1>4, ConcatProperties
    <1>6. \A i \in 1 .. (Used + k) : (Contents \o b)[i] = Contents'[i]
        BY <1>1, <1>2, <1>4, <1>5
    <1>7. Contents' \in Seq(T) /\ Len(Contents') = Used + k
        <2>1. \A i \in 1 .. (Used + k) : Contents'[i] \in T
            BY <1>1, <1>5, <1>6, ElementOfSeq
        <2>2. Contents' \in [1 .. (Used + k) -> T]
            BY <1>2, <2>1
        <2> QED BY <1>1, <2>2
    <1> QED BY <1>1, <1>5, <1>6, <1>7, SeqEqual

LEMMA ConcatBytes == \A s, t, u \in Seq(Bytes) : (s \o t) \o u = s \o (t \o u)
    BY ConcatAssociative

\* How many bytes of s were written by q.
From(s, q) == Cardinality({i \in DOMAIN s : s[i][1] = q})

\* k more bytes of p count for p and for nobody else.
LEMMA CountAppend ==
    ASSUME NEW s \in Seq(Bytes), NEW k \in Nat, NEW p \in Procs, NEW q \in Procs,
           NEW t \in Seq(Bytes), Len(t) = k, \A j \in 1 .. k : t[j][1] = p
    PROVE  From(s \o t, q) = From(s, q) + (IF p = q THEN k ELSE 0)
    <1> DEFINE n == Len(s)
               A == {i \in DOMAIN s : s[i][1] = q}
               B == IF p = q THEN (n + 1) .. (n + k) ELSE {}
    <1>1. n \in Nat /\ DOMAIN s = 1 .. n
        BY LenProperties
    <1>2. /\ s \o t \in Seq(Bytes) /\ Len(s \o t) = n + k
          /\ \A i \in 1 .. (n + k) : (s \o t)[i] = IF i <= n THEN s[i] ELSE t[i - n]
        BY ConcatProperties
    <1>3. DOMAIN (s \o t) = 1 .. (n + k)
        BY <1>2, LenProperties
    <1>4. {i \in DOMAIN (s \o t) : (s \o t)[i][1] = q} = A \cup B
        BY <1>1, <1>2, <1>3
    <1>5. IsFiniteSet(A) /\ Cardinality(A) \in Nat
        <2>1. IsFiniteSet(1 .. n)
            BY <1>1, FS_Interval
        <2> QED BY <1>1, <2>1, FS_Subset, FS_CardinalityType
    <1>6. IsFiniteSet(B) /\ Cardinality(B) = IF p = q THEN k ELSE 0
        <2>1. CASE p = q
            <3>1. n + 1 \in Int /\ n + k \in Int /\ B = (n + 1) .. (n + k)
                BY <1>1, <2>1
            <3>2. Cardinality(B) = IF n + 1 > n + k THEN 0 ELSE (n + k) - (n + 1) + 1
                BY <3>1, FS_Interval
            <3> QED BY <1>1, <2>1, <3>1, <3>2, FS_Interval
        <2>2. CASE p # q
            BY <2>2, FS_EmptySet
        <2> QED BY <2>1, <2>2
    <1>7. A \cap B = {}
        BY <1>1
    <1>8. Cardinality(A \cup B) = Cardinality(A) + Cardinality(B) - Cardinality(A \cap B)
        BY <1>5, <1>6, FS_Union
    <1>9. Cardinality(A \cap B) = 0
        BY <1>7, FS_EmptySet
    <1> HIDE DEF B
    <1>10. Cardinality(A \cup B) = Cardinality(A) + (IF p = q THEN k ELSE 0)
        BY <1>5, <1>6, <1>8, <1>9
    <1> QED BY <1>4, <1>10 DEF From

-----------------------------------------------------------------------------
(* The inductive invariant                                                 *)

\* Where the calls stand: who waits in a write still holds the write end, and no
\* process was told of, has copied and still wants more bytes than were asked for.
CallsInv ==
    \A p \in Procs :
        /\ call[p] = "write" => p \in wOpen
        /\ call[p] # "write" => copied[p] = 0
        /\ call[p] # "user" => left[p] > 0
        /\ acked[p] + copied[p] + (IF call[p] = "write" THEN left[p] ELSE 0) <= asked

IInv == TypeOK /\ RingContents /\ AckExact /\ CallsInv

LEMMA InitIInv == Init => IInv
    <1> SUFFICES ASSUME Init PROVE IInv
        OBVIOUS
    <1> USE PipeAssumption
    <1>1. TypeOK
        <2>1. head \in Slots /\ tail \in Slots /\ buf \in [Slots -> Bytes \cup {Blank}]
            BY DEF Init, Slots
        <2>2. rOpen \subseteq born /\ wOpen \subseteq born /\ born \subseteq Procs
            BY DEF Init
        <2>3. sent \in Seq(Bytes) /\ rcvd \in Seq(Bytes)
            BY EmptySeq DEF Init
        <2>4. /\ call \in [Procs -> {"user", "read", "write"}]
              /\ left \in [Procs -> Nat] /\ copied \in [Procs -> Nat] /\ asked \in 0 .. MaxBytes
              /\ acked \in [Procs -> Nat]
            BY DEF Init
        <2>5. eof \in BOOLEAN
            BY DEF Init
        <2> QED BY <2>1, <2>2, <2>3, <2>4, <2>5 DEF TypeOK
    <1>2. Contents = <<>>
        <2>1. Used = 0
            BY <1>1, UsedIs DEF Init, TypeOK
        <2> QED BY <2>1 DEF Contents
    <1>3. RingContents
        BY <1>2 DEF Init, RingContents
    <1>4. AckExact
        <2>1. ASSUME NEW p \in Procs
              PROVE  {i \in DOMAIN sent : sent[i][1] = p} = {}
            BY DEF Init
        <2> QED BY <2>1, FS_EmptySet DEF Init, AckExact
    <1>5. CallsInv
        BY DEF Init, CallsInv
    <1> QED BY <1>1, <1>3, <1>4, <1>5 DEF IInv

\* Only bytes that were written are in the ring.
LEMMA QueuedBytes ==
    ASSUME TypeOK, RingContents
    PROVE  /\ Contents \in Seq(Bytes)
           /\ \A k \in 0 .. Used : /\ SubSeq(Contents, 1, k) \in Seq(Bytes)
                                   /\ SubSeq(Contents, k + 1, Used) \in Seq(Bytes)
    <1> DEFINE T == Bytes \cup {Blank}
    <1>1. Contents \in Seq(T) /\ Len(Contents) = Used /\ Used \in Nat
        BY ContentsType
    <1>2. sent \in Seq(Bytes) /\ rcvd \in Seq(Bytes) /\ Len(rcvd) \in Nat
        BY DEF TypeOK
    <1>3. rcvd \in Seq(T)
        BY <1>2, SeqMonotonic
    <1> HIDE DEF T
    <1>4. /\ Len(sent) = Len(rcvd) + Used
          /\ \A i \in 1 .. Used : sent[Len(rcvd) + i] = Contents[i]
        <2>1. /\ Len(rcvd \o Contents) = Len(rcvd) + Used
              /\ \A i \in 1 .. (Len(rcvd) + Used) : (rcvd \o Contents)[i] =
                     IF i <= Len(rcvd) THEN rcvd[i] ELSE Contents[i - Len(rcvd)]
            BY <1>1, <1>3, ConcatProperties
        <2>2. ASSUME NEW i \in 1 .. Used
              PROVE  (rcvd \o Contents)[Len(rcvd) + i] = Contents[i]
            <3>1. Len(rcvd) + i \in 1 .. (Len(rcvd) + Used) /\ ~(Len(rcvd) + i <= Len(rcvd))
                  /\ Len(rcvd) + i - Len(rcvd) = i
                BY <1>1, <1>2
            <3> QED BY <2>1, <3>1
        <2> QED BY <2>1, <2>2 DEF RingContents
    <1>5. ASSUME NEW i \in 1 .. Used
          PROVE  Contents[i] \in Bytes
        <2>1. Len(rcvd) + i \in 1 .. Len(sent)
            BY <1>1, <1>2, <1>4
        <2> QED BY <1>2, <1>4, <2>1, ElementOfSeq
    <1>6. Contents \in Seq(Bytes)
        <2>1. Contents \in [1 .. Used -> Bytes]
            BY <1>1, <1>5, LenProperties
        <2> QED BY <1>1, <2>1
    <1> QED BY <1>1, <1>5, <1>6, SubSeqProperties

\* What pipe_read does past its gate.
LEMMA TakeStep ==
    ASSUME IInv, NEW p \in Procs, NEW n \in Nat \ {0}, call[p] # "write", Avail, Take(p, n)
    PROVE  /\ IInv'
           /\ \/ \E k \in 1 .. (PIPE_BUF_SZ - 1) : Stream!Take(k)
              \/ Stream!End
    <1> DEFINE k == Smaller(n, Used)
    <1> USE PipeAssumption
    <1>1. TypeOK
        BY DEF IInv
    <1>2. Contents \in Seq(Bytes \cup {Blank}) /\ Len(Contents) = Used /\ Used \in Nat /\ Used < PIPE_BUF_SZ
        BY <1>1, ContentsType
    <1>3. k \in 0 .. Used /\ (k = 0 => Used = 0)
        BY <1>2 DEF Smaller
    <1>4. /\ tail' = Advance(tail, k)
          /\ rcvd' = rcvd \o SubSeq(Contents, 1, k)
          /\ eof'  = (eof \/ k = 0)
          /\ call' = [call EXCEPT ![p] = "user"]
          /\ left' = [left EXCEPT ![p] = 0]
          /\ UNCHANGED <<head, buf, rOpen, wOpen, born, copied, asked, sent, acked>>
        BY DEF Take, ends
    <1> HIDE DEF k
    <1>5. Contents' = SubSeq(Contents, k + 1, Used) /\ Contents = SubSeq(Contents, 1, k) \o Contents'
        BY <1>1, <1>3, <1>4, TakeSeq
    <1>6. tail' \in Slots
        BY <1>1, <1>3, <1>4, TakeRing
    <1>7. Contents \in Seq(Bytes) /\ SubSeq(Contents, 1, k) \in Seq(Bytes) /\ Contents' \in Seq(Bytes)
        BY <1>1, <1>2, <1>3, <1>5, QueuedBytes DEF IInv
    <1>8. rcvd' \in Seq(Bytes)
        BY <1>1, <1>4, <1>7, ConcatProperties DEF TypeOK
    <1>9. TypeOK'
        BY <1>1, <1>4, <1>6, <1>8 DEF TypeOK
    <1>10. RingContents'
        <2>1. (rcvd \o SubSeq(Contents, 1, k)) \o Contents' = rcvd \o (SubSeq(Contents, 1, k) \o Contents')
            <3>1. rcvd \in Seq(Bytes)
                BY <1>1 DEF TypeOK
            <3> QED BY <1>7, <3>1, ConcatBytes, Zenon
        <2> QED BY <1>4, <1>5, <2>1 DEF IInv, RingContents
    <1>11. AckExact'
        BY <1>4 DEF IInv, AckExact
    <1>12. CallsInv'
        BY <1>1, <1>4 DEF IInv, CallsInv, TypeOK
    <1>13. CASE k = 0
        <2>1. Used = 0 /\ head = tail
            BY <1>1, <1>3, <1>13, UsedIs DEF TypeOK
        <2>2. Contents = <<>> /\ Contents' = <<>>
            BY <1>2, <1>5, <1>7, <1>13, <2>1
        <2>3. wOpen = {}
            BY <2>1 DEF Avail
        <2>4. rcvd' = rcvd
            BY <1>1, <1>4, <1>13, <2>2, ConcatEmptySeq DEF TypeOK
        <2>5. Stream!End
            BY <1>4, <1>13, <2>2, <2>3, <2>4 DEF Stream!End
        <2> QED BY <1>9, <1>10, <1>11, <1>12, <2>5 DEF IInv
    <1>14. CASE k # 0
        <2>1. k \in 1 .. (PIPE_BUF_SZ - 1)
            BY <1>2, <1>3, <1>14
        <2>2. Stream!Take(k)
            BY <1>1, <1>2, <1>3, <1>4, <1>5, <1>14 DEF Stream!Take, TypeOK
        <2> QED BY <1>9, <1>10, <1>11, <1>12, <2>1, <2>2 DEF IInv
    <1> QED BY <1>13, <1>14

\* What the loop of pipe_write does until it returns or yields.
LEMMA PutStep ==
    ASSUME IInv, NEW p \in Procs, NEW n \in Nat \ {0}, NEW c \in Nat, p \in wOpen,
           acked[p] + c + n <= asked', asked' \in asked .. MaxBytes,
           copied[p] = c, Put(p, n, c)
    PROVE  /\ IInv'
           /\ \/ \E k \in 1 .. (PIPE_BUF_SZ - 1) : Stream!Put(k)
              \/ UNCHANGED <<Contents, rcvd, wOpen, eof>>
    <1> DEFINE k    == IF rOpen = {} THEN 0 ELSE Smaller(n, Room)
               done == rOpen = {} \/ k = n
               b    == [j \in 1 .. k |-> <<p, acked[p] + c + j>>]
    <1> USE PipeAssumption
    <1>1. TypeOK
        BY DEF IInv
    <1>2. Used \in Nat /\ Room = PIPE_BUF_SZ - 1 - Used /\ Room \in Nat
        BY <1>1, UsedIs DEF TypeOK, Room, Slots
    <1>3. k \in 0 .. Room /\ k \in 0 .. n
        <2>1. CASE rOpen = {}
            BY <1>2, <2>1
        <2>2. CASE rOpen # {} /\ n <= Room
            BY <1>2, <2>2 DEF Smaller
        <2>3. CASE rOpen # {} /\ ~(n <= Room)
            BY <1>2, <2>3 DEF Smaller
        <2> QED BY <2>1, <2>2, <2>3
    <1>4. acked[p] \in Nat /\ sent \in Seq(Bytes) /\ rcvd \in Seq(Bytes) /\ asked \in Nat
        BY <1>1 DEF TypeOK
    <1>5. b \in [1 .. k -> Bytes]
        <2>1. ASSUME NEW j \in 1 .. k
              PROVE  acked[p] + c + j \in 1 .. MaxBytes
            BY <1>3, <1>4
        <2> QED BY <2>1 DEF Bytes
    <1>6. /\ head' = Advance(head, k) /\ tail' = tail
          /\ buf' = [i \in Slots |-> LET j == ((i - head) % PIPE_BUF_SZ) + 1
                                     IN  IF j <= k THEN b[j] ELSE buf[i]]
        <2>1. ASSUME NEW i \in Slots, ((i - head) % PIPE_BUF_SZ) + 1 <= k
              PROVE  ((i - head) % PIPE_BUF_SZ) + 1 \in 1 .. k
            <3>1. head \in Slots
                BY <1>1 DEF TypeOK
            <3>2. (i - head) % PIPE_BUF_SZ = IF i >= head THEN i - head ELSE i - head + PIPE_BUF_SZ
                BY <3>1, ModDiff DEF Slots
            <3> QED BY <1>3, <2>1, <3>1, <3>2 DEF Slots
        <2> QED BY <2>1 DEF Put
    <1>7. /\ sent' = sent \o b
          /\ call' = [call EXCEPT ![p] = IF done THEN "user" ELSE "write"]
          /\ left' = [left EXCEPT ![p] = IF done THEN 0 ELSE n - k]
          /\ copied' = [copied EXCEPT ![p] = IF done THEN 0 ELSE c + k]
          /\ acked'  = [acked EXCEPT ![p] = IF done THEN @ + (c + k) ELSE @]
          /\ UNCHANGED <<rOpen, wOpen, born, rcvd, eof>>
        BY DEF Put, Returns, ends
    <1>8. done => k = n \/ k = 0
        BY <1>3
    <1>9. ~done => n - k > 0
        BY <1>3
    <1> HIDE DEF k, done, b
    <1>10. head' \in Slots /\ buf' \in [Slots -> Bytes \cup {Blank}]
        <2>1. head' \in Slots
            BY <1>1, <1>3, <1>6, PutRing
        <2>2. ASSUME NEW i \in Slots, NEW m \in Int, m + 1 <= k, m >= 0
              PROVE  b[m + 1] \in Bytes
            BY <1>3, <1>5, <2>2
        <2>3. ASSUME NEW i \in Slots
              PROVE  (i - head) % PIPE_BUF_SZ \in Nat
            <3>1. head \in Slots
                BY <1>1 DEF TypeOK
            <3>2. (i - head) % PIPE_BUF_SZ = IF i >= head THEN i - head ELSE i - head + PIPE_BUF_SZ
                BY <3>1, ModDiff DEF Slots
            <3> QED BY <3>1, <3>2 DEF Slots
        <2>4. ASSUME NEW i \in Slots
              PROVE  buf'[i] \in Bytes \cup {Blank}
            <3> DEFINE m == (i - head) % PIPE_BUF_SZ
            <3>1. m \in Nat
                BY <2>3
            <3>2. buf'[i] = IF m + 1 <= k THEN b[m + 1] ELSE buf[i]
                BY <1>6
            <3> HIDE DEF m
            <3> QED BY <1>1, <2>2, <3>1, <3>2 DEF TypeOK
        <2> QED BY <1>6, <2>1, <2>4
    <1>11. Contents' = Contents \o b
        BY <1>1, <1>3, <1>5, <1>6, PutSeq
    <1>12. b \in Seq(Bytes) /\ Len(b) = k /\ k \in Nat
        BY <1>3, <1>5
    <1>13. sent' \in Seq(Bytes)
        BY <1>4, <1>7, <1>12, ConcatProperties
    <1>14. TypeOK'
        <2>1. /\ call' \in [Procs -> {"user", "read", "write"}]
              /\ left' \in [Procs -> Nat]
            BY <1>1, <1>3, <1>7, <1>9 DEF TypeOK
        <2>2. copied' \in [Procs -> Nat] /\ acked' \in [Procs -> Nat]
            BY <1>1, <1>3, <1>4, <1>7 DEF TypeOK
        <2>3. /\ tail' \in Slots /\ rcvd' \in Seq(Bytes) /\ eof' \in BOOLEAN /\ asked' \in 0 .. MaxBytes
              /\ rOpen' \subseteq born' /\ wOpen' \subseteq born' /\ born' \subseteq Procs
            BY <1>1, <1>4, <1>6, <1>7 DEF TypeOK
        <2> QED BY <1>10, <1>13, <2>1, <2>2, <2>3 DEF TypeOK
    <1>15. RingContents'
        <2>1. Contents \in Seq(Bytes)
            BY <1>1, QueuedBytes DEF IInv
        <2>2. (rcvd \o Contents) \o b = rcvd \o (Contents \o b)
            BY <1>4, <1>12, <2>1, ConcatBytes, Zenon
        <2> QED BY <1>7, <1>11, <2>2 DEF IInv, RingContents
    <1>16. AckExact'
        <2> SUFFICES ASSUME NEW q \in Procs
                     PROVE  acked'[q] + copied'[q] = From(sent', q)
            BY DEF AckExact, From
        <2>1. From(sent', q) = From(sent, q) + (IF p = q THEN k ELSE 0)
            <3>1. \A j \in 1 .. k : b[j][1] = p
                BY DEF b
            <3>2. From(sent \o b, q) = From(sent, q) + (IF p = q THEN k ELSE 0)
                BY <1>4, <1>12, <3>1, CountAppend
            <3> QED BY <1>7, <3>2
        <2>2. acked[q] + copied[q] = From(sent, q)
            BY DEF IInv, AckExact, From
        <2>3. acked \in [Procs -> Nat] /\ copied \in [Procs -> Nat]
            BY <1>1 DEF TypeOK
        <2>4. CASE p = q
            <3>1. acked[p] + c = From(sent, p)
                BY <2>2, <2>4
            <3>2. acked'[p] + copied'[p] = acked[p] + c + k
                BY <1>4, <1>7, <1>12, <2>3
            <3> QED BY <1>4, <1>12, <2>1, <2>4, <3>1, <3>2
        <2>5. CASE p # q
            <3>1. acked'[q] = acked[q] /\ copied'[q] = copied[q]
                BY <1>7, <2>3, <2>5
            <3> QED BY <2>1, <2>2, <2>3, <2>5, <3>1
        <2> QED BY <2>4, <2>5
    <1>17. CallsInv'
        <2> SUFFICES ASSUME NEW q \in Procs
                     PROVE  /\ call'[q] = "write" => q \in wOpen'
                            /\ call'[q] # "write" => copied'[q] = 0
                            /\ call'[q] # "user" => left'[q] > 0
                            /\ acked'[q] + copied'[q] + (IF call'[q] = "write" THEN left'[q] ELSE 0) <= asked'
            BY DEF CallsInv
        <2>1. /\ acked \in [Procs -> Nat] /\ copied \in [Procs -> Nat] /\ left \in [Procs -> Nat]
              /\ call \in [Procs -> {"user", "read", "write"}]
            BY <1>1 DEF TypeOK
        <2>2. CASE p = q
            BY <1>3, <1>4, <1>7, <1>8, <1>9, <2>1, <2>2
        <2>3. CASE p # q
            <3>1. /\ call'[q] = call[q] /\ left'[q] = left[q] /\ copied'[q] = copied[q]
                  /\ acked'[q] = acked[q] /\ wOpen' = wOpen
                BY <1>7, <2>1, <2>3
            <3> QED BY <1>4, <2>1, <3>1 DEF IInv, CallsInv
        <2> QED BY <2>2, <2>3
    <1>18. CASE k = 0
        <2>1. b = <<>>
            BY <1>12, <1>18
        <2>2. Contents' = Contents
            BY <1>1, <1>11, <2>1, ContentsType, ConcatEmptySeq
        <2> QED BY <1>7, <1>14, <1>15, <1>16, <1>17, <2>2 DEF IInv
    <1>19. CASE k # 0
        <2>1. k \in 1 .. (PIPE_BUF_SZ - 1) /\ Used + k <= PIPE_BUF_SZ - 1
            BY <1>2, <1>3, <1>19
        <2>2. Stream!Put(k)
            BY <1>1, <1>5, <1>7, <1>11, <2>1, ContentsType DEF Stream!Put
        <2> QED BY <1>14, <1>15, <1>16, <1>17, <2>1, <2>2 DEF IInv
    <1> QED BY <1>18, <1>19

\* One step of the ring: the invariant stays, and the step is one of the stream.
LEMMA PipeStep ==
    ASSUME IInv, [Next]_vars
    PROVE  IInv' /\ [Stream!Next]_<<Contents, rcvd, wOpen # {}, eof>>
    <1> USE PipeAssumption
    <1>1. /\ TypeOK /\ CallsInv /\ RingContents /\ AckExact
        BY DEF IInv
    <1>2. ASSUME NEW p \in Procs, NEW n \in Sizes, Read(p, n)
          PROVE  IInv' /\ [Stream!Next]_<<Contents, rcvd, wOpen # {}, eof>>
        <2>1. n \in Nat \ {0} /\ call[p] = "user"
            BY <1>2 DEF Read
        <2>2. CASE Avail /\ Take(p, n)
            BY <2>1, <2>2, TakeStep DEF Stream!Next
        <2>3. CASE /\ call' = [call EXCEPT ![p] = "read"]
                   /\ left' = [left EXCEPT ![p] = n]
                   /\ UNCHANGED <<ring, ends, copied, asked, hist>>
            <3>1. Contents' = Contents /\ rcvd' = rcvd /\ eof' = eof /\ wOpen' = wOpen
                BY <2>3 DEF Contents, Used, Advance, ring, hist, ends
            <3>2. TypeOK' /\ CallsInv'
                BY <1>1, <2>1, <2>3 DEF TypeOK, CallsInv, ring, hist, ends
            <3>3. RingContents' /\ AckExact'
                BY <1>1, <2>3, <3>1 DEF RingContents, AckExact, hist
            <3> QED BY <3>1, <3>2, <3>3 DEF IInv
        <2> QED BY <1>2, <2>2, <2>3 DEF Read
    <1>3. ASSUME NEW p \in Procs, ReadResume(p)
          PROVE  IInv' /\ [Stream!Next]_<<Contents, rcvd, wOpen # {}, eof>>
        <2>1. call[p] = "read" /\ call[p] # "write" /\ Avail /\ Take(p, left[p])
            BY <1>3 DEF ReadResume
        <2>2. left[p] \in Nat /\ left[p] > 0
            BY <1>1, <2>1 DEF TypeOK, CallsInv
        <2>3. left[p] \in Nat \ {0}
            BY <2>2
        <2> QED BY <2>1, <2>3, TakeStep DEF Stream!Next
    <1>4. ASSUME NEW p \in Procs, NEW n \in Sizes, Write(p, n)
          PROVE  IInv' /\ [Stream!Next]_<<Contents, rcvd, wOpen # {}, eof>>
        <2>1. /\ n \in Nat \ {0} /\ p \in wOpen /\ copied[p] = 0 /\ acked[p] \in Nat
              /\ asked \in Nat /\ acked[p] <= asked /\ call[p] = "user"
            BY <1>1, <1>4 DEF Write, TypeOK, CallsInv
        <2>2. asked' \in asked .. MaxBytes /\ acked[p] + 0 + n <= asked' /\ Put(p, n, 0) /\ 0 \in Nat
            BY <1>4, <2>1 DEF Write
        <2>3. IInv' /\ (\/ \E k \in 1 .. (PIPE_BUF_SZ - 1) : Stream!Put(k)
                        \/ UNCHANGED <<Contents, rcvd, wOpen, eof>>)
            BY <2>1, <2>2, PutStep, Zenon
        <2> QED BY <2>3 DEF Stream!Next
    <1>5. ASSUME NEW p \in Procs, WriteResume(p)
          PROVE  IInv' /\ [Stream!Next]_<<Contents, rcvd, wOpen # {}, eof>>
        <2>1. /\ left[p] \in Nat \ {0} /\ p \in wOpen /\ copied[p] \in Nat /\ asked \in 0 .. MaxBytes
              /\ acked[p] + copied[p] + left[p] <= asked
            <3>1. call[p] = "write"
                BY <1>5 DEF WriteResume
            <3>2. left[p] \in Nat /\ copied[p] \in Nat /\ asked \in 0 .. MaxBytes
                BY <1>1 DEF TypeOK
            <3>3. p \in wOpen /\ left[p] > 0 /\ acked[p] + copied[p] + left[p] <= asked
                BY <1>1, <3>1 DEF CallsInv
            <3> QED BY <3>2, <3>3
        <2>2. asked' = asked /\ Put(p, left[p], copied[p])
            BY <1>5 DEF WriteResume
        <2>3. IInv' /\ (\/ \E k \in 1 .. (PIPE_BUF_SZ - 1) : Stream!Put(k)
                        \/ UNCHANGED <<Contents, rcvd, wOpen, eof>>)
            BY <2>1, <2>2, PutStep
        <2> QED BY <2>3 DEF Stream!Next
    <1>6. ASSUME NEW p \in Procs,
                 CloseRead(p) \/ CloseWrite(p) \/ \E q \in Procs : Fork(p, q)
          PROVE  IInv' /\ [Stream!Next]_<<Contents, rcvd, wOpen # {}, eof>>
        <2>1. UNCHANGED <<ring, calls, hist>>
            BY <1>6 DEF CloseRead, CloseWrite, Fork
        <2>2. Contents' = Contents /\ rcvd' = rcvd /\ eof' = eof
            BY <2>1 DEF Contents, Used, Advance, ring, hist
        <2>3. RingContents' /\ AckExact'
            BY <1>1, <2>1, <2>2 DEF RingContents, AckExact, hist, calls
        <2>4. TypeOK'
            <3>1. rOpen' \subseteq born' /\ wOpen' \subseteq born' /\ born' \subseteq Procs
                BY <1>1, <1>6 DEF CloseRead, CloseWrite, Fork, TypeOK
            <3> QED BY <1>1, <2>1, <3>1 DEF TypeOK, ring, calls, hist
        <2>5. CallsInv'
            <3>1. ASSUME NEW q \in Procs, call[q] = "write"
                  PROVE  q \in wOpen'
                BY <1>1, <1>6, <3>1 DEF CloseRead, CloseWrite, Fork, CallsInv
            <3> QED BY <1>1, <2>1, <3>1 DEF CallsInv, calls, hist
        <2>6. IInv'
            BY <2>3, <2>4, <2>5 DEF IInv
        <2>7. (wOpen # {})' = (wOpen # {}) \/ (wOpen # {} /\ wOpen' = {})
            BY <1>6 DEF CloseRead, CloseWrite, Fork
        <2>8. [Stream!Next]_<<Contents, rcvd, wOpen # {}, eof>>
            BY <2>2, <2>7 DEF Stream!Next, Stream!Shut
        <2> QED BY <2>6, <2>8
    <1>7. CASE UNCHANGED vars
        <2>1. UNCHANGED <<ring, ends, calls, hist>>
            BY <1>7 DEF vars
        <2>2. UNCHANGED <<Contents, rcvd, wOpen, eof>>
            BY <2>1 DEF Contents, Used, Advance, ring, ends, hist
        <2>3. TypeOK' /\ CallsInv'
            BY <1>1, <2>1 DEF TypeOK, CallsInv, ring, ends, calls, hist
        <2>4. RingContents' /\ AckExact'
            BY <1>1, <2>1, <2>2 DEF RingContents, AckExact, hist, calls
        <2> QED BY <2>2, <2>3, <2>4 DEF IInv
    <1> QED BY <1>2, <1>3, <1>4, <1>5, <1>6, <1>7 DEF Next

-----------------------------------------------------------------------------
(* Theorems                                                                *)

\* The invariant holds in every reachable state.
THEOREM Invariance == Spec => []IInv
    <1>1. IInv /\ [Next]_vars => IInv'
        BY PipeStep
    <1> QED BY InitIInv, <1>1, PTL DEF Spec

\* The indices of pipe.c stay in the ring, and only bytes that were asked for are
\* ever put there.
THEOREM TypeCorrect == Spec => []TypeOK
    BY Invariance, PTL DEF IInv

\* pipe_read and pipe_write lose, repeat and reorder nothing, for any size of the
\* ring and whoever shares its ends.
THEOREM RingIsFifo == Spec => []RingContents
    BY Invariance, PTL DEF IInv

\* What pipe_write returns is what it put in the ring, also when it had to wait
\* several times and when the readers left meanwhile.
THEOREM AcksExact == Spec => []AckExact
    BY Invariance, PTL DEF IInv

\* The ring of pipe.c with its waiting readers and writers is one bounded stream
\* whose end is final.
THEOREM PipeIsStream == Spec => ImplementsStream
    <1>1. Init => Stream!Init
        <2> SUFFICES ASSUME Init PROVE Stream!Init
            OBVIOUS
        <2>1. TypeOK /\ head = tail
            BY InitIInv DEF IInv, Init
        <2>2. Used = 0
            BY <2>1, UsedIs DEF TypeOK
        <2>3. Contents = <<>>
            BY <2>2 DEF Contents
        <2> QED BY <2>3 DEF Init, Stream!Init
    <1>2. IInv /\ [Next]_vars => [Stream!Next]_(Stream!vars)
        BY PipeStep DEF Stream!vars
    <1> QED BY <1>1, <1>2, Invariance, PTL DEF Spec, ImplementsStream, Stream!Spec

=============================================================================
