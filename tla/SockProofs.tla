----------------------------- MODULE SockProofs -----------------------------
(***************************************************************************)
(* The theorems about Sock.tla: its type, the accept rings and the order   *)
(* of the received bytes, for any number of sockets, control blocks,       *)
(* processes and peers.                                                    *)
(*                                                                         *)
(* The callbacks of TCP work on the network state as one value, so each    *)
(* part of the invariant is a predicate of the tables: T is g_tcbs, K is   *)
(* g_socks, W, L and D the histories, F the descriptors, C and O the calls *)
(* that wait, I the numbers of control blocks opened.                      *)
(***************************************************************************)
EXTENDS Sock, FiniteSetTheorems, SequenceTheorems, TLAPS

-----------------------------------------------------------------------------
(* The inductive invariant                                                 *)

SockStates == {"FREE", "NEW", "LISTEN", "CONNECTING", "CONNECTED"}
Bytes == Peers \X Nat

TcbRec == [in_use : BOOLEAN, state : TcpStates, peer : Peers \cup {NoPeer}, inc : Nat,
           rcv_nxt : Nat, user_data : Socks \cup {NoSock}]
SockRec == [state : SockStates, refcount : Nat, tcb : Tcbs \cup {NoTcb}, backlog : Nat,
            pending : Seq(Socks), rx : Seq(Bytes), peer_closed : BOOLEAN]

NetTyped(T, K, W, L, D) ==
    /\ T \in [Tcbs -> TcbRec] /\ K \in [Socks -> SockRec]
    /\ W \in [Socks -> Peers \cup {NoPeer}]
    /\ L \in [Socks -> Seq(Bytes)] /\ D \subseteq Socks

AppTyped(F, C, O, I) ==
    /\ F \in [Procs -> SUBSET Socks]
    /\ C \in [Procs -> {"user", "accept", "connect", "read"}]
    /\ O \in [Procs -> Socks \cup {NoSock}]
    /\ I \in [Peers -> Nat]

\* The rings are within their bounds, and a free slot is one without references.
Bounded(K) ==
    \A s \in Socks : /\ Len(K[s].rx) < SOCK_RX_BUF
                     /\ K[s].refcount = 0 <=> K[s].state = "FREE"
                     /\ Len(K[s].pending) <= K[s].backlog

Holders(F, s) == {p \in Procs : s \in F[p]}

Counted(K, F) ==
    \A s \in Socks : Holders(F, s) # {} => K[s].refcount = Cardinality(Holders(F, s))

\* Place i of the ring of listener s is taken by c.
InRing(K, s, i, c) ==
    /\ K[s].state = "LISTEN" /\ i \in 1 .. Len(K[s].pending) /\ K[s].pending[i] = c

\* A queued connection has the one reference that accept will hand over.
Queued(K, F) ==
    \A s, c \in Socks : \A i \in Nat : InRing(K, s, i, c) =>
        /\ K[c].state = "CONNECTED" /\ K[c].refcount = 1 /\ Holders(F, c) = {}
        /\ \A r \in Socks : \A j \in Nat : InRing(K, r, j, c) => r = s /\ j = i

\* Who waits in connect has the socket, alone, until it ends.
Waiting(K, F, C, O) ==
    \A p \in Procs : C[p] = "connect" =>
        /\ O[p] \in F[p] /\ K[O[p]].state \in {"CONNECTING", "CONNECTED"}
        /\ \A q \in Procs : C[q] = "connect" /\ O[q] = O[p] => q = p

\* A listening control block and its listener name each other.
Listening(T, K) ==
    \A t \in Tcbs : T[t].in_use = TRUE /\ T[t].state = "LISTEN" =>
        /\ T[t].user_data \in Socks
        /\ K[T[t].user_data].state = "LISTEN" /\ K[T[t].user_data].tcb = t

Connection(b) == b.in_use = TRUE /\ b.state \notin {"LISTEN", "CLOSED"}

\* A peer has one connection at a time, and its handshake has no bytes.
Peering(T, I) ==
    \A t \in Tcbs : Connection(T[t]) =>
        /\ T[t].peer \in Peers /\ I[T[t].peer] >= 1
        /\ T[t].state = "SYN_SENT" => T[t].rcv_nxt = 0
        /\ T[t].state = "SYN_RCVD" => T[t].rcv_nxt = 1
        /\ \A u \in Tcbs : Connection(T[u]) /\ T[u].peer = T[t].peer => u = t

\* The bytes of each peer in the history l are in order, each once.
Ordered(l) ==
    /\ \A i \in DOMAIN l : l[i][2] >= 1
    /\ \A i, j \in DOMAIN l : i < j /\ l[i][1] = l[j][1] => l[i][2] < l[j][2]

\* Of the bytes of q only such below n are in l; all of them are.
Below(l, q, n) == \A i \in DOMAIN l : l[i][1] = q => l[i][2] < n
AllTo(l, q, n) == \A m \in Nat : 1 <= m /\ m < n => \E j \in DOMAIN l : l[j] = <<q, m>>

\* No byte of q is missing before another.
Whole(l, q) ==
    \A i \in DOMAIN l : l[i][1] = q =>
        \A m \in Nat : 1 <= m /\ m < l[i][2] => \E j \in DOMAIN l : j < i /\ l[j] = <<q, m>>

\* The history l of socket s, seen from a block b that names s: it has nothing that
\* the block has still to deliver and, if the connection is its own and nothing
\* was dropped, all that the block has delivered.
Fed(b, s, k, w, l, D) ==
    /\ Below(l, b.peer, b.rcv_nxt)
    /\ k.state = "CONNECTED" /\ w = b.peer /\ s \notin D /\ b.state = "ESTABLISHED"
          => AllTo(l, b.peer, b.rcv_nxt)

\* A listener may collect the bytes of connections that found its ring full, of
\* several incarnations of one peer; but its history ends with it.
Streams(T, K, W, L, D) ==
    \A s \in Socks : K[s].state # "LISTEN" =>
        /\ Ordered(L[s])
        /\ K[s].state = "CONNECTED" /\ s \notin D => Whole(L[s], W[s])
        /\ \A t \in Tcbs : Connection(T[t]) /\ T[t].user_data = s =>
              Fed(T[t], s, K[s], W[s], L[s], D)

Sound(T, K, W, L, D, F, C, O, I) ==
    /\ NetTyped(T, K, W, L, D) /\ AppTyped(F, C, O, I)
    /\ Bounded(K) /\ Counted(K, F) /\ Queued(K, F) /\ Waiting(K, F, C, O)
    /\ Listening(T, K) /\ Peering(T, I) /\ Streams(T, K, W, L, D)

IInv == Sound(tcb, sock, with, log, dropped, fds, call, on, incs)

-----------------------------------------------------------------------------
(* Functions, sets of holders, and histories                               *)

Put(f, x, v) == [f EXCEPT ![x] = v]

LEMMA PutTcb ==
    ASSUME NEW T \in [Tcbs -> TcbRec], NEW t \in Tcbs, NEW b \in TcbRec
    PROVE  /\ Put(T, t, b) \in [Tcbs -> TcbRec] /\ Put(T, t, b)[t] = b
           /\ \A u \in Tcbs : u # t => Put(T, t, b)[u] = T[u]
BY DEF Put

LEMMA PutSock ==
    ASSUME NEW K \in [Socks -> SockRec], NEW s \in Socks, NEW k \in SockRec
    PROVE  /\ Put(K, s, k) \in [Socks -> SockRec] /\ Put(K, s, k)[s] = k
           /\ \A r \in Socks : r # s => Put(K, s, k)[r] = K[r]
BY DEF Put

LEMMA PutWith ==
    ASSUME NEW W \in [Socks -> Peers \cup {NoPeer}], NEW s \in Socks,
           NEW q \in Peers \cup {NoPeer}
    PROVE  /\ Put(W, s, q) \in [Socks -> Peers \cup {NoPeer}] /\ Put(W, s, q)[s] = q
           /\ \A r \in Socks : r # s => Put(W, s, q)[r] = W[r]
BY DEF Put

LEMMA PutLog ==
    ASSUME NEW L \in [Socks -> Seq(Bytes)], NEW s \in Socks, NEW l \in Seq(Bytes)
    PROVE  /\ Put(L, s, l) \in [Socks -> Seq(Bytes)] /\ Put(L, s, l)[s] = l
           /\ \A r \in Socks : r # s => Put(L, s, l)[r] = L[r]
BY DEF Put

LEMMA HoldersPut ==
    ASSUME NEW F \in [Procs -> SUBSET Socks], NEW p \in Procs, NEW X \in SUBSET Socks,
           NEW s \in Socks
    PROVE  /\ s \in X => Holders(Put(F, p, X), s) = Holders(F, s) \cup {p}
           /\ s \notin X => Holders(Put(F, p, X), s) = Holders(F, s) \ {p}
BY DEF Holders, Put

LEMMA HoldersFinite ==
    ASSUME NEW F, NEW s
    PROVE  IsFiniteSet(Holders(F, s)) /\ Cardinality(Holders(F, s)) \in Nat
<1>1. Holders(F, s) \subseteq Procs
  BY DEF Holders
<1>2. IsFiniteSet(Procs)
  BY SockAssumption
<1> QED
  BY <1>1, <1>2, FS_Subset, FS_CardinalityType

\* Appending the next byte of q.
LEMMA Appended ==
    ASSUME NEW l \in Seq(Bytes), NEW q \in Peers, NEW n \in Nat, n >= 1,
           Ordered(l), Below(l, q, n)
    PROVE  /\ Append(l, <<q, n>>) \in Seq(Bytes)
           /\ Ordered(Append(l, <<q, n>>))
           /\ Below(Append(l, <<q, n>>), q, n + 1)
           /\ \A r, m : r # q /\ Below(l, r, m) => Below(Append(l, <<q, n>>), r, m)
           /\ AllTo(l, q, n) => AllTo(Append(l, <<q, n>>), q, n + 1)
           /\ \A r, m : AllTo(l, r, m) => AllTo(Append(l, <<q, n>>), r, m)
           /\ AllTo(l, q, n) /\ Whole(l, q) => Whole(Append(l, <<q, n>>), q)
           /\ \A r : r # q /\ Whole(l, r) => Whole(Append(l, <<q, n>>), r)
<1> DEFINE a == Append(l, <<q, n>>)
<1>1. a \in Seq(Bytes) /\ Len(a) = Len(l) + 1 /\ a[Len(l) + 1] = <<q, n>>
      /\ \A i \in 1 .. Len(l) : a[i] = l[i]
  BY DEF Bytes
<1>2. DOMAIN l = 1 .. Len(l) /\ DOMAIN a = 1 .. (Len(l) + 1) /\ Len(l) \in Nat
  BY <1>1
<1>3. \A i \in DOMAIN l : l[i] \in Bytes
  BY <1>2
<1>4. \A i \in DOMAIN l : l[i][1] \in Peers /\ l[i][2] \in Nat
  BY <1>3 DEF Bytes
<1>5. <<q, n>>[1] = q /\ <<q, n>>[2] = n
  OBVIOUS
<1> HIDE DEF a
<1>6. Ordered(a)
  <2>1. ASSUME NEW i \in DOMAIN a PROVE a[i][2] >= 1
    <3>1. CASE i = Len(l) + 1
      BY <3>1, <1>1, <1>5
    <3>2. CASE i \in DOMAIN l
      BY <3>2, <1>1, <1>2 DEF Ordered
    <3> QED
      BY <3>1, <3>2, <1>2
  <2>2. ASSUME NEW i \in DOMAIN a, NEW j \in DOMAIN a, i < j, a[i][1] = a[j][1]
        PROVE  a[i][2] < a[j][2]
    <3>1. i \in DOMAIN l /\ a[i] = l[i]
      BY <2>2, <1>1, <1>2
    <3>2. CASE j = Len(l) + 1
      BY <3>1, <3>2, <2>2, <1>1, <1>5 DEF Below
    <3>3. CASE j \in DOMAIN l
      BY <3>1, <3>3, <2>2, <1>1, <1>2 DEF Ordered
    <3> QED
      BY <3>2, <3>3, <1>2
  <2> QED
    BY <2>1, <2>2 DEF Ordered
<1>7. Below(a, q, n + 1)
  BY <1>1, <1>2, <1>4, <1>5 DEF Below
<1>8. ASSUME NEW r, NEW m, r # q, Below(l, r, m) PROVE Below(a, r, m)
  BY <1>1, <1>2, <1>5, <1>8 DEF Below
<1>9. ASSUME NEW r, NEW m, AllTo(l, r, m) PROVE AllTo(a, r, m)
  <2> SUFFICES ASSUME NEW k \in Nat, 1 <= k, k < m
               PROVE  \E j \in DOMAIN a : a[j] = <<r, k>>
    BY DEF AllTo
  <2>1. PICK j \in DOMAIN l : l[j] = <<r, k>>
    BY <1>9 DEF AllTo
  <2> QED
    BY <2>1, <1>1, <1>2
<1>10. ASSUME AllTo(l, q, n) PROVE AllTo(a, q, n + 1)
  <2> SUFFICES ASSUME NEW m \in Nat, 1 <= m, m < n + 1
               PROVE  \E j \in DOMAIN a : a[j] = <<q, m>>
    BY DEF AllTo
  <2>1. CASE m = n
    BY <2>1, <1>1, <1>2
  <2>2. CASE m < n
    <3>1. PICK j \in DOMAIN l : l[j] = <<q, m>>
      BY <2>2, <1>10 DEF AllTo
    <3> QED
      BY <3>1, <1>1, <1>2
  <2> QED
    BY <2>1, <2>2
<1>11. ASSUME AllTo(l, q, n), Whole(l, q) PROVE Whole(a, q)
  <2> SUFFICES ASSUME NEW i \in DOMAIN a, a[i][1] = q, NEW m \in Nat, 1 <= m, m < a[i][2]
               PROVE  \E j \in DOMAIN a : j < i /\ a[j] = <<q, m>>
    BY DEF Whole
  <2>1. CASE i = Len(l) + 1
    <3>1. m < n
      BY <2>1, <1>1, <1>5
    <3>2. PICK j \in DOMAIN l : l[j] = <<q, m>>
      BY <3>1, <1>11 DEF AllTo
    <3> QED
      BY <3>2, <2>1, <1>1, <1>2
  <2>2. CASE i \in DOMAIN l
    <3>1. a[i] = l[i]
      BY <2>2, <1>1, <1>2
    <3>2. PICK j \in DOMAIN l : j < i /\ l[j] = <<q, m>>
      BY <3>1, <2>2, <1>11 DEF Whole
    <3> QED
      BY <3>2, <1>1, <1>2
  <2> QED
    BY <2>1, <2>2, <1>2
<1>12. ASSUME NEW r, r # q, Whole(l, r) PROVE Whole(a, r)
  <2> SUFFICES ASSUME NEW i \in DOMAIN a, a[i][1] = r, NEW m \in Nat, 1 <= m, m < a[i][2]
               PROVE  \E j \in DOMAIN a : j < i /\ a[j] = <<r, m>>
    BY DEF Whole
  <2>1. i \in DOMAIN l /\ a[i] = l[i]
    BY <1>1, <1>2, <1>5, <1>12
  <2>2. PICK j \in DOMAIN l : j < i /\ l[j] = <<r, m>>
    BY <2>1, <1>12 DEF Whole
  <2> QED
    BY <2>2, <1>1, <1>2
<1> QED
  BY <1>1, <1>6, <1>7, <1>8, <1>9, <1>10, <1>11, <1>12 DEF a

-----------------------------------------------------------------------------
(* Steps of one control block                                              *)

\* What a segment or a close makes of a block, the delivery of a byte apart: the
\* block is given up, or the connection goes on.
Advances(a, b) ==
    \/ ~Connection(b) /\ (b.in_use = TRUE => b.state # "LISTEN")
    \/ /\ Connection(a) /\ Connection(b)
       /\ b.peer = a.peer /\ b.user_data = a.user_data
       /\ b.rcv_nxt >= a.rcv_nxt /\ b.state \notin {"SYN_SENT", "SYN_RCVD"}
       /\ b.state = "ESTABLISHED" =>
             (a.state = "ESTABLISHED" /\ b.rcv_nxt = a.rcv_nxt) \/ b.rcv_nxt = 1

LEMMA BelowMono ==
    ASSUME NEW l \in Seq(Bytes), NEW q, NEW m \in Nat, NEW n \in Nat, m <= n, Below(l, q, m)
    PROVE  Below(l, q, n)
<1>1. \A i \in DOMAIN l : l[i] \in Bytes
  OBVIOUS
<1>2. \A i \in DOMAIN l : l[i][2] \in Nat
  BY <1>1 DEF Bytes
<1> QED
  BY <1>2 DEF Below

LEMMA TcbStep ==
    ASSUME NEW T, NEW K, NEW W, NEW L, NEW D, NEW F, NEW C, NEW O, NEW I,
           Sound(T, K, W, L, D, F, C, O, I),
           NEW t \in Tcbs, NEW b \in TcbRec, Advances(T[t], b)
    PROVE  Sound(Put(T, t, b), K, W, L, D, F, C, O, I)
<1> DEFINE U == Put(T, t, b)
<1>1. NetTyped(T, K, W, L, D) /\ AppTyped(F, C, O, I) /\ Listening(T, K) /\ Peering(T, I)
      /\ Streams(T, K, W, L, D)
  BY DEF Sound
<1>2. U \in [Tcbs -> TcbRec] /\ U[t] = b /\ \A u \in Tcbs : u # t => U[u] = T[u]
  BY <1>1, PutTcb DEF NetTyped
<1>3. T[t] \in TcbRec /\ T \in [Tcbs -> TcbRec]
  BY <1>1 DEF NetTyped
<1>4. T[t].rcv_nxt \in Nat /\ b.rcv_nxt \in Nat
  BY <1>3 DEF TcbRec
<1> HIDE DEF U
<1>5. NetTyped(U, K, W, L, D)
  BY <1>1, <1>2 DEF NetTyped
<1>6. Listening(U, K)
  <2> SUFFICES ASSUME NEW u \in Tcbs, U[u].in_use = TRUE, U[u].state = "LISTEN"
               PROVE  U[u] = T[u]
    BY <1>1 DEF Listening
  <2> QED
    BY <1>2 DEF Advances, Connection
<1>7. ASSUME NEW u \in Tcbs, Connection(U[u])
      PROVE  Connection(T[u]) /\ T[u].peer = U[u].peer /\ T[u].user_data = U[u].user_data
             /\ (u = t \/ T[u] = U[u])
  BY <1>2, <1>7 DEF Advances
<1>8. Peering(U, I)
  <2> SUFFICES ASSUME NEW u \in Tcbs, Connection(U[u])
               PROVE  /\ U[u].peer \in Peers /\ I[U[u].peer] >= 1
                      /\ U[u].state = "SYN_SENT" => U[u].rcv_nxt = 0
                      /\ U[u].state = "SYN_RCVD" => U[u].rcv_nxt = 1
                      /\ \A v \in Tcbs : Connection(U[v]) /\ U[v].peer = U[u].peer => v = u
    BY DEF Peering
  <2>1. U[u].peer \in Peers /\ I[U[u].peer] >= 1
    BY <1>1, <1>7 DEF Peering
  <2>2. /\ U[u].state = "SYN_SENT" => U[u].rcv_nxt = 0
        /\ U[u].state = "SYN_RCVD" => U[u].rcv_nxt = 1
    <3>1. CASE u = t
      BY <3>1, <1>2 DEF Advances
    <3>2. CASE u # t
      BY <3>2, <1>1, <1>2, <1>7 DEF Peering
    <3> QED
      BY <3>1, <3>2
  <2>3. \A v \in Tcbs : Connection(U[v]) /\ U[v].peer = U[u].peer => v = u
    BY <1>1, <1>7 DEF Peering
  <2> QED
    BY <2>1, <2>2, <2>3
<1>9. Streams(U, K, W, L, D)
  <2> SUFFICES ASSUME NEW s \in Socks, K[s].state # "LISTEN",
                      NEW u \in Tcbs, Connection(U[u]), U[u].user_data = s
               PROVE  Fed(U[u], s, K[s], W[s], L[s], D)
    BY <1>1 DEF Streams
  <2>1. Fed(T[u], s, K[s], W[s], L[s], D)
    BY <1>1, <1>7 DEF Streams
  <2>2. CASE u # t
    BY <2>1, <2>2, <1>2
  <2>3. CASE u = t
    <3>1. Connection(b) /\ b.rcv_nxt >= T[t].rcv_nxt /\ b.peer = T[t].peer
      BY <2>3, <1>2, <1>7 DEF Advances
    <3>2. L[s] \in Seq(Bytes)
      BY <1>1 DEF NetTyped
    <3>3. Below(L[s], b.peer, b.rcv_nxt)
      BY <3>1, <3>2, <2>1, <2>3, <1>4, BelowMono DEF Fed
    <3>4. ASSUME K[s].state = "CONNECTED", W[s] = b.peer, s \notin D, b.state = "ESTABLISHED"
          PROVE  AllTo(L[s], b.peer, b.rcv_nxt)
      <4>1. CASE b.rcv_nxt = 1
        BY <4>1 DEF AllTo
      <4>2. CASE T[t].state = "ESTABLISHED" /\ b.rcv_nxt = T[t].rcv_nxt
        BY <4>2, <3>4, <3>1, <2>1, <2>3 DEF Fed
      <4> QED
        BY <4>1, <4>2, <3>1, <3>4 DEF Advances
    <3> QED
      BY <2>3, <3>3, <3>4, <1>2 DEF Fed
  <2> QED
    BY <2>2, <2>3
<1> QED
  BY <1>5, <1>6, <1>8, <1>9 DEF Sound, U

-----------------------------------------------------------------------------
(* Steps of one socket that the others do not see                          *)

\* Only what is queued to be read, and whether the peer has closed, may differ.
Alike(j, k) ==
    /\ k.state = j.state /\ k.refcount = j.refcount /\ k.tcb = j.tcb
    /\ k.backlog = j.backlog /\ k.pending = j.pending
    /\ Len(k.rx) < SOCK_RX_BUF

LEMMA SockStep ==
    ASSUME NEW T, NEW K, NEW W, NEW L, NEW D, NEW F, NEW C, NEW O, NEW I,
           Sound(T, K, W, L, D, F, C, O, I),
           NEW s \in Socks, NEW k \in SockRec, Alike(K[s], k)
    PROVE  Sound(T, Put(K, s, k), W, L, D, F, C, O, I)
<1> DEFINE J == Put(K, s, k)
<1>1. NetTyped(T, K, W, L, D) /\ AppTyped(F, C, O, I) /\ Bounded(K) /\ Counted(K, F)
      /\ Queued(K, F) /\ Waiting(K, F, C, O) /\ Listening(T, K) /\ Streams(T, K, W, L, D)
  BY DEF Sound
<1>2. J \in [Socks -> SockRec] /\ J[s] = k /\ \A r \in Socks : r # s => J[r] = K[r]
  BY <1>1, PutSock DEF NetTyped
<1>3. ASSUME NEW r \in Socks
      PROVE  /\ J[r].state = K[r].state /\ J[r].refcount = K[r].refcount /\ J[r].tcb = K[r].tcb
             /\ J[r].backlog = K[r].backlog /\ J[r].pending = K[r].pending
             /\ Len(J[r].rx) < SOCK_RX_BUF
  BY <1>1, <1>2 DEF Alike, Bounded
<1> HIDE DEF J
<1>4. NetTyped(T, J, W, L, D)
  BY <1>1, <1>2 DEF NetTyped
<1>5. Bounded(J)
  BY <1>1, <1>3 DEF Bounded
<1>6. Counted(J, F)
  BY <1>1, <1>3 DEF Counted
<1>7. \A r, c \in Socks : \A i \in Nat : InRing(J, r, i, c) <=> InRing(K, r, i, c)
  BY <1>3 DEF InRing
<1>8. Queued(J, F)
  BY <1>1, <1>3, <1>7 DEF Queued
<1>9. Waiting(J, F, C, O)
  <2> SUFFICES ASSUME NEW p \in Procs, C[p] = "connect"
               PROVE  J[O[p]].state = K[O[p]].state
    BY <1>1 DEF Waiting
  <2>1. O[p] \in Socks
    BY <1>1 DEF Waiting, AppTyped
  <2> QED
    BY <2>1, <1>3
<1>10. Listening(T, J)
  BY <1>1, <1>3 DEF Listening
<1>11. Streams(T, J, W, L, D)
  BY <1>1, <1>3 DEF Streams, Fed
<1> QED
  BY <1>4, <1>5, <1>6, <1>8, <1>9, <1>10, <1>11 DEF Sound, J

-----------------------------------------------------------------------------
(* The delivery of a byte                                                  *)

Counting(b) == [b EXCEPT !.rcv_nxt = @ + 1]

LEMMA CountingFacts ==
    ASSUME NEW b \in TcbRec
    PROVE  /\ Counting(b) \in TcbRec
           /\ Counting(b).in_use = b.in_use /\ Counting(b).state = b.state
           /\ Counting(b).peer = b.peer /\ Counting(b).user_data = b.user_data
           /\ Counting(b).rcv_nxt = b.rcv_nxt + 1 /\ b.rcv_nxt \in Nat
           /\ Connection(b) <=> Connection(Counting(b))
BY DEF Counting, TcbRec, Connection

With(D, s) == D \cup {s}

\* The byte that block t expects is counted.  It finds no socket, or joins the
\* history of its socket, or is dropped there.
LEMMA RecvStep ==
    ASSUME NEW T, NEW K, NEW W, NEW L, NEW D, NEW F, NEW C, NEW O, NEW I,
           Sound(T, K, W, L, D, F, C, O, I),
           NEW t \in Tcbs, Connection(T[t]), T[t].state = "ESTABLISHED", T[t].rcv_nxt >= 1,
           NEW s, s = T[t].user_data
    PROVE  /\ s = NoSock \/ K[s].state # "CONNECTED" =>
                 Sound(Put(T, t, Counting(T[t])), K, W, L, D, F, C, O, I)
           /\ s # NoSock =>
                 /\ Sound(Put(T, t, Counting(T[t])), K, W,
                          Put(L, s, Append(L[s], <<T[t].peer, T[t].rcv_nxt>>)), D, F, C, O, I)
                 /\ Sound(Put(T, t, Counting(T[t])), K, W, L, With(D, s), F, C, O, I)
<1> DEFINE b == Counting(T[t])
           U == Put(T, t, b)
           q == T[t].peer
           n == T[t].rcv_nxt
           l == Append(L[s], <<q, n>>)
           M == Put(L, s, l)
<1>1. NetTyped(T, K, W, L, D) /\ AppTyped(F, C, O, I) /\ Listening(T, K) /\ Peering(T, I)
      /\ Streams(T, K, W, L, D)
  BY DEF Sound
<1>2. T[t] \in TcbRec
  BY <1>1 DEF NetTyped
<1>3. /\ b \in TcbRec /\ b.in_use = T[t].in_use /\ b.state = T[t].state /\ b.peer = q
      /\ b.user_data = s /\ b.rcv_nxt = n + 1 /\ n \in Nat /\ Connection(b)
  BY <1>2, CountingFacts
<1>4. U \in [Tcbs -> TcbRec] /\ U[t] = b /\ \A u \in Tcbs : u # t => U[u] = T[u]
  BY <1>1, <1>3, PutTcb DEF NetTyped
<1>5. s \in Socks \cup {NoSock} /\ q \in Peers
  BY <1>1, <1>2 DEF Peering, TcbRec
<1> HIDE DEF U, b, q, n
<1>6. NetTyped(U, K, W, L, D)
  BY <1>1, <1>4 DEF NetTyped
<1>7. Listening(U, K)
  <2> SUFFICES ASSUME NEW u \in Tcbs, U[u].in_use = TRUE, U[u].state = "LISTEN"
               PROVE  U[u] = T[u]
    BY <1>1 DEF Listening
  <2> QED
    BY <1>3, <1>4 DEF Connection
<1>8. \A u \in Tcbs : /\ Connection(U[u]) <=> Connection(T[u])
                      /\ U[u].peer = T[u].peer /\ U[u].user_data = T[u].user_data
                      /\ U[u].state = T[u].state
  BY <1>3, <1>4 DEF q
<1>9. Peering(U, I)
  <2> SUFFICES ASSUME NEW u \in Tcbs, Connection(U[u])
               PROVE  /\ U[u].peer \in Peers /\ I[U[u].peer] >= 1
                      /\ U[u].state = "SYN_SENT" => U[u].rcv_nxt = 0
                      /\ U[u].state = "SYN_RCVD" => U[u].rcv_nxt = 1
                      /\ \A v \in Tcbs : Connection(U[v]) /\ U[v].peer = U[u].peer => v = u
    BY DEF Peering
  <2>1. u = t => U[u].state = "ESTABLISHED"
    BY <1>3, <1>4
  <2> QED
    BY <2>1, <1>1, <1>4, <1>8 DEF Peering
<1>10. \A u \in Tcbs : u # t /\ Connection(U[u]) => U[u].peer # q
  BY <1>1, <1>8 DEF Peering, q
<1>11. ASSUME s = NoSock \/ K[s].state # "CONNECTED"
       PROVE  Streams(U, K, W, L, D)
  <2> SUFFICES ASSUME NEW r \in Socks, K[r].state # "LISTEN",
                      NEW u \in Tcbs, Connection(U[u]), U[u].user_data = r
               PROVE  Fed(U[u], r, K[r], W[r], L[r], D)
    BY <1>1 DEF Streams
  <2>1. Fed(T[u], r, K[r], W[r], L[r], D)
    BY <1>1, <1>8 DEF Streams
  <2>2. CASE u # t
    BY <2>1, <2>2, <1>4
  <2>3. CASE u = t
    <3>1. r = s /\ K[r].state # "CONNECTED"
      BY <2>3, <1>3, <1>4, <1>11 DEF NoSock, Socks
    <3>2. Below(L[r], q, n)
      BY <2>1, <2>3 DEF Fed, q, n
    <3>3. L[r] \in Seq(Bytes)
      BY <1>1 DEF NetTyped
    <3>4. Below(L[r], q, n + 1)
      BY <3>2, <3>3, <1>3, BelowMono
    <3> QED
      BY <2>3, <3>1, <3>4, <1>3, <1>4 DEF Fed
  <2> QED
    BY <2>2, <2>3
<1>12. ASSUME s # NoSock
       PROVE  Streams(U, K, W, L, With(D, s)) /\ NetTyped(U, K, W, L, With(D, s))
  <2>1. s \in Socks
    BY <1>5, <1>12
  <2>2. NetTyped(U, K, W, L, With(D, s))
    BY <2>1, <1>6 DEF NetTyped, With
  <2>3. \A r \in Socks : r \notin With(D, s) => r \notin D /\ r # s
    BY DEF With
  <2> SUFFICES ASSUME NEW r \in Socks, K[r].state # "LISTEN"
               PROVE  /\ Ordered(L[r])
                      /\ K[r].state = "CONNECTED" /\ r \notin With(D, s) => Whole(L[r], W[r])
                      /\ \A u \in Tcbs : Connection(U[u]) /\ U[u].user_data = r =>
                            Fed(U[u], r, K[r], W[r], L[r], With(D, s))
    BY <2>2 DEF Streams
  <2>4. Ordered(L[r]) /\ (K[r].state = "CONNECTED" /\ r \notin With(D, s) => Whole(L[r], W[r]))
    BY <2>3, <1>1 DEF Streams
  <2>5. ASSUME NEW u \in Tcbs, Connection(U[u]), U[u].user_data = r
        PROVE  Fed(U[u], r, K[r], W[r], L[r], With(D, s))
    <3>1. Fed(T[u], r, K[r], W[r], L[r], D)
      BY <2>5, <1>1, <1>8 DEF Streams
    <3>2. CASE u # t
      BY <2>3, <3>1, <3>2, <1>4 DEF Fed
    <3>3. CASE u = t
      <4>1. r = s /\ r \in With(D, s)
        BY <3>3, <2>5, <1>3, <1>4 DEF With
      <4>2. Below(L[r], q, n)
        BY <3>1, <3>3 DEF Fed, q, n
      <4>3. L[r] \in Seq(Bytes)
        BY <1>1 DEF NetTyped
      <4>4. Below(L[r], q, n + 1)
        BY <4>2, <4>3, <1>3, BelowMono
      <4> QED
        BY <3>3, <4>1, <4>4, <1>3, <1>4 DEF Fed
    <3> QED
      BY <3>2, <3>3
  <2> QED
    BY <2>4, <2>5
<1>13. ASSUME s # NoSock
       PROVE  Streams(U, K, W, M, D) /\ NetTyped(U, K, W, M, D)
  <2>1. s \in Socks /\ L \in [Socks -> Seq(Bytes)]
    BY <1>1, <1>5, <1>13 DEF NetTyped
  <2>2. L[s] \in Seq(Bytes) /\ <<q, n>> \in Bytes
    BY <2>1, <1>3, <1>5 DEF Bytes
  <2>3. l \in Seq(Bytes)
    BY <2>2
  <2>4. M \in [Socks -> Seq(Bytes)] /\ M[s] = l /\ \A r \in Socks : r # s => M[r] = L[r]
    BY <2>1, <2>3, PutLog
  <2> HIDE DEF M, l
  <2>5. NetTyped(U, K, W, M, D)
    BY <2>4, <1>6 DEF NetTyped
  <2> SUFFICES ASSUME NEW r \in Socks, K[r].state # "LISTEN"
               PROVE  /\ Ordered(M[r])
                      /\ K[r].state = "CONNECTED" /\ r \notin D => Whole(M[r], W[r])
                      /\ \A u \in Tcbs : Connection(U[u]) /\ U[u].user_data = r =>
                            Fed(U[u], r, K[r], W[r], M[r], D)
    BY <2>5 DEF Streams
  <2>6. CASE r # s
    <3>1. M[r] = L[r]
      BY <2>4, <2>6
    <3>2. \A u \in Tcbs : U[u].user_data = r => U[u] = T[u]
      BY <2>6, <1>3, <1>4
    <3> QED
      BY <3>1, <3>2, <1>1 DEF Streams
  <2>7. CASE r = s
    <3>1. /\ Ordered(L[s]) /\ Fed(T[t], s, K[s], W[s], L[s], D)
          /\ K[s].state = "CONNECTED" /\ s \notin D => Whole(L[s], W[s])
      BY <2>7, <1>1 DEF Streams
    <3>2. Below(L[s], q, n)
      BY <3>1 DEF Fed, q, n
    <3>3. /\ Ordered(l) /\ Below(l, q, n + 1)
          /\ \A p, m : p # q /\ Below(L[s], p, m) => Below(l, p, m)
          /\ AllTo(L[s], q, n) => AllTo(l, q, n + 1)
          /\ \A p, m : AllTo(L[s], p, m) => AllTo(l, p, m)
          /\ AllTo(L[s], q, n) /\ Whole(L[s], q) => Whole(l, q)
          /\ \A p : p # q /\ Whole(L[s], p) => Whole(l, p)
      <4>1. n >= 1
        BY DEF n
      <4> QED
        BY <3>1, <3>2, <2>2, <1>3, <1>5, <4>1, Appended DEF l
    <3>4. ASSUME K[s].state = "CONNECTED", s \notin D PROVE Whole(l, W[s])
      <4>1. CASE W[s] = q
        <5>1. AllTo(L[s], q, n)
          BY <4>1, <3>1, <3>4 DEF Fed, q, n
        <5> QED
          BY <5>1, <4>1, <3>1, <3>3, <3>4
      <4>2. CASE W[s] # q
        BY <4>2, <3>1, <3>3, <3>4
      <4> QED
        BY <4>1, <4>2
    <3>5. ASSUME NEW u \in Tcbs, Connection(U[u]), U[u].user_data = s
          PROVE  Fed(U[u], s, K[s], W[s], l, D)
      <4>1. CASE u # t
        <5>1. U[u] = T[u] /\ U[u].peer # q
          BY <4>1, <3>5, <1>4, <1>10
        <5>2. Fed(U[u], s, K[s], W[s], L[s], D)
          BY <5>1, <3>5, <2>7, <1>1 DEF Streams
        <5> QED
          BY <5>1, <5>2, <3>3 DEF Fed
      <4>2. CASE u = t
        <5>1. U[u].peer = q /\ U[u].rcv_nxt = n + 1
          BY <4>2, <1>3, <1>4
        <5>2. ASSUME K[s].state = "CONNECTED", W[s] = q, s \notin D PROVE AllTo(l, q, n + 1)
          BY <5>2, <3>1, <3>3 DEF Fed, q, n
        <5> QED
          BY <5>1, <5>2, <3>3 DEF Fed
      <4> QED
        BY <4>1, <4>2
    <3> QED
      BY <2>4, <2>7, <3>3, <3>4, <3>5
  <2> QED
    BY <2>6, <2>7
<1> QED
  BY <1>6, <1>7, <1>9, <1>11, <1>12, <1>13 DEF Sound, U, b, q, n, M, l

-----------------------------------------------------------------------------
(* The end of a handshake                                                  *)

Joined(k, t) == [k EXCEPT !.state = "CONNECTED", !.tcb = t]
Child(t) == [FreeSock EXCEPT !.state = "CONNECTED", !.refcount = 1, !.tcb = t]
Pushed(k, c) == [k EXCEPT !.pending = Append(@, c)]
Named(b, c) == [b EXCEPT !.user_data = c]
Without(D, s) == D \ {s}

LEMMA FreeSockTyped == FreeSock \in SockRec
BY SockAssumption DEF FreeSock, SockRec, SockStates, NoTcb

LEMMA JoinedFacts ==
    ASSUME NEW k \in SockRec, NEW t \in Tcbs
    PROVE  /\ Joined(k, t) \in SockRec
           /\ Joined(k, t).state = "CONNECTED" /\ Joined(k, t).refcount = k.refcount
           /\ Joined(k, t).backlog = k.backlog /\ Joined(k, t).pending = k.pending
           /\ Joined(k, t).rx = k.rx
BY DEF Joined, SockRec, SockStates

LEMMA ChildFacts ==
    ASSUME NEW t \in Tcbs
    PROVE  /\ Child(t) \in SockRec
           /\ Child(t).state = "CONNECTED" /\ Child(t).refcount = 1 /\ Child(t).backlog = 1
           /\ Child(t).pending = <<>> /\ Child(t).rx = <<>>
BY FreeSockTyped DEF Child, SockRec, SockStates, FreeSock

LEMMA PushedFacts ==
    ASSUME NEW k \in SockRec, NEW c \in Socks
    PROVE  /\ Pushed(k, c) \in SockRec
           /\ Pushed(k, c).state = k.state /\ Pushed(k, c).refcount = k.refcount
           /\ Pushed(k, c).backlog = k.backlog /\ Pushed(k, c).tcb = k.tcb
           /\ Pushed(k, c).rx = k.rx
           /\ Pushed(k, c).pending = Append(k.pending, c)
           /\ k.pending \in Seq(Socks) /\ k.backlog \in Nat
<1>1. k.pending \in Seq(Socks) /\ k.backlog \in Nat
  BY DEF SockRec
<1>2. Append(k.pending, c) \in Seq(Socks)
  BY <1>1
<1> DEFINE a == Append(k.pending, c)
<1>3. Pushed(k, c) = [k EXCEPT !.pending = a]
  BY DEF Pushed
<1> HIDE DEF a
<1>4. /\ Pushed(k, c) \in SockRec /\ Pushed(k, c).pending = a
      /\ Pushed(k, c).state = k.state /\ Pushed(k, c).refcount = k.refcount
      /\ Pushed(k, c).backlog = k.backlog /\ Pushed(k, c).tcb = k.tcb
      /\ Pushed(k, c).rx = k.rx
  BY <1>2, <1>3 DEF a, SockRec
<1> QED
  BY <1>1, <1>4 DEF a

LEMMA NamedFacts ==
    ASSUME NEW b \in TcbRec, NEW c \in Socks
    PROVE  /\ Named(b, c) \in TcbRec
           /\ Named(b, c).in_use = b.in_use /\ Named(b, c).state = b.state
           /\ Named(b, c).peer = b.peer /\ Named(b, c).rcv_nxt = b.rcv_nxt
           /\ Named(b, c).user_data = c
BY DEF Named, TcbRec

\* A socket that a process holds is not free.
LEMMA FreeNotHeld ==
    ASSUME NEW K, NEW F, Counted(K, F), NEW s \in Socks, K[s].refcount = 0
    PROVE  Holders(F, s) = {}
<1> SUFFICES ASSUME Holders(F, s) # {} PROVE FALSE
  OBVIOUS
<1>1. Cardinality(Holders(F, s)) = 0
  BY DEF Counted
<1> QED
  BY <1>1, HoldersFinite, FS_EmptySet

\* The history of a socket that its block names has no byte of a handshake's peer.
LEMMA NoneBelowOne ==
    ASSUME NEW l \in Seq(Bytes), NEW q, Ordered(l), Below(l, q, 1)
    PROVE  Whole(l, q)
<1>1. \A i \in DOMAIN l : l[i] \in Bytes
  OBVIOUS
<1>2. \A i \in DOMAIN l : l[i][2] \in Nat
  BY <1>1 DEF Bytes
<1> QED
  BY <1>2 DEF Ordered, Below, Whole

LEMMA JoinStep ==
    ASSUME NEW T, NEW K, NEW W, NEW L, NEW D, NEW F, NEW C, NEW O, NEW I,
           Sound(T, K, W, L, D, F, C, O, I),
           NEW t \in Tcbs, Connection(T[t]), T[t].rcv_nxt = 1,
           NEW s \in Socks, T[t].user_data = s, K[s].state = "CONNECTING"
    PROVE  Sound(T, Put(K, s, Joined(K[s], t)), Put(W, s, T[t].peer), L, D, F, C, O, I)
<1> DEFINE k == Joined(K[s], t)
           J == Put(K, s, k)
           V == Put(W, s, T[t].peer)
<1>1. NetTyped(T, K, W, L, D) /\ AppTyped(F, C, O, I) /\ Bounded(K) /\ Counted(K, F)
      /\ Queued(K, F) /\ Waiting(K, F, C, O) /\ Listening(T, K) /\ Peering(T, I)
      /\ Streams(T, K, W, L, D)
  BY DEF Sound
<1>2. K[s] \in SockRec /\ T[t].peer \in Peers
  BY <1>1 DEF NetTyped, Peering
<1>3. /\ k \in SockRec /\ k.state = "CONNECTED" /\ k.refcount = K[s].refcount
      /\ k.backlog = K[s].backlog /\ k.pending = K[s].pending /\ k.rx = K[s].rx
  BY <1>2, JoinedFacts
<1>4. J \in [Socks -> SockRec] /\ J[s] = k /\ \A r \in Socks : r # s => J[r] = K[r]
  BY <1>1, <1>3, PutSock DEF NetTyped
<1>5. /\ V \in [Socks -> Peers \cup {NoPeer}] /\ V[s] = T[t].peer
      /\ \A r \in Socks : r # s => V[r] = W[r]
  <2>1. W \in [Socks -> Peers \cup {NoPeer}] /\ T[t].peer \in Peers \cup {NoPeer}
    BY <1>1, <1>2 DEF NetTyped
  <2> QED
    BY <2>1, PutWith
<1> HIDE DEF J, k, V
<1>6. NetTyped(T, J, V, L, D)
  BY <1>1, <1>4, <1>5 DEF NetTyped
<1>7. Bounded(J)
  <2> SUFFICES ASSUME NEW r \in Socks
               PROVE  /\ Len(J[r].rx) < SOCK_RX_BUF
                      /\ J[r].refcount = 0 <=> J[r].state = "FREE"
                      /\ Len(J[r].pending) <= J[r].backlog
    BY DEF Bounded
  <2>1. CASE r = s
    BY <2>1, <1>1, <1>3, <1>4 DEF Bounded
  <2>2. CASE r # s
    BY <2>2, <1>1, <1>4 DEF Bounded
  <2> QED
    BY <2>1, <2>2
<1>8. Counted(J, F)
  BY <1>1, <1>3, <1>4 DEF Counted
<1>9. \A r, c \in Socks : \A i \in Nat : InRing(J, r, i, c) <=> InRing(K, r, i, c)
  BY <1>3, <1>4 DEF InRing
<1>10. Queued(J, F)
  <2> SUFFICES ASSUME NEW r \in Socks, NEW c \in Socks, NEW i \in Nat, InRing(J, r, i, c)
               PROVE  /\ J[c].state = "CONNECTED" /\ J[c].refcount = 1 /\ Holders(F, c) = {}
                      /\ \A x \in Socks : \A j \in Nat : InRing(J, x, j, c) => x = r /\ j = i
    BY DEF Queued
  <2>1. /\ K[c].state = "CONNECTED" /\ K[c].refcount = 1 /\ Holders(F, c) = {}
        /\ \A x \in Socks : \A j \in Nat : InRing(K, x, j, c) => x = r /\ j = i
    BY <1>1, <1>9 DEF Queued
  <2>2. J[c] = K[c]
    BY <2>1, <1>4
  <2> QED
    BY <2>1, <2>2, <1>9
<1>11. Waiting(J, F, C, O)
  <2> SUFFICES ASSUME NEW p \in Procs, C[p] = "connect"
               PROVE  J[O[p]].state \in {"CONNECTING", "CONNECTED"}
    BY <1>1 DEF Waiting
  <2>1. O[p] \in Socks
    BY <1>1 DEF Waiting, AppTyped
  <2> QED
    BY <2>1, <1>1, <1>3, <1>4 DEF Waiting
<1>12. Listening(T, J)
  BY <1>1, <1>4 DEF Listening
<1>13. Streams(T, J, V, L, D)
  <2> SUFFICES ASSUME NEW r \in Socks, J[r].state # "LISTEN"
               PROVE  /\ Ordered(L[r])
                      /\ J[r].state = "CONNECTED" /\ r \notin D => Whole(L[r], V[r])
                      /\ \A u \in Tcbs : Connection(T[u]) /\ T[u].user_data = r =>
                            Fed(T[u], r, J[r], V[r], L[r], D)
    BY DEF Streams
  <2>1. CASE r # s
    BY <2>1, <1>1, <1>4, <1>5 DEF Streams
  <2>2. CASE r = s
    <3>1. /\ Ordered(L[s])
          /\ \A u \in Tcbs : Connection(T[u]) /\ T[u].user_data = s =>
                Fed(T[u], s, K[s], W[s], L[s], D)
      BY <1>1 DEF Streams
    <3>2. Below(L[s], T[t].peer, 1) /\ L[s] \in Seq(Bytes)
      BY <3>1, <1>1 DEF Fed, NetTyped
    <3>3. Whole(L[s], V[s])
      BY <3>1, <3>2, <1>5, NoneBelowOne
    <3>4. ASSUME NEW u \in Tcbs, Connection(T[u]), T[u].user_data = s
          PROVE  Fed(T[u], s, J[s], V[s], L[s], D)
      <4>1. Below(L[s], T[u].peer, T[u].rcv_nxt)
        BY <3>1, <3>4 DEF Fed
      <4>2. ASSUME V[s] = T[u].peer PROVE AllTo(L[s], T[u].peer, T[u].rcv_nxt)
        <5>1. u = t
          BY <4>2, <3>4, <1>1, <1>5 DEF Peering
        <5> QED
          BY <5>1 DEF AllTo
      <4> QED
        BY <4>1, <4>2 DEF Fed
    <3> QED
      BY <2>2, <3>1, <3>3, <3>4
  <2> QED
    BY <2>1, <2>2
<1> QED
  BY <1>1, <1>6, <1>7, <1>8, <1>10, <1>11, <1>12, <1>13 DEF Sound, J, k, V

\* Only slot s, and blocks that name it, change from T and K to U and J; and a
\* connection to q that is established there has not delivered anything.
Begins(T, K, U, J, s, q) ==
    /\ \A r \in Socks : r # s => J[r].state = K[r].state
    /\ \A u \in Tcbs : Connection(U[u]) /\ U[u].user_data # s => U[u] = T[u]
    /\ \A u \in Tcbs : Connection(U[u]) /\ U[u].user_data = s /\ U[u].peer = q
                       /\ U[u].state = "ESTABLISHED" /\ J[s].state = "CONNECTED"
                          => U[u].rcv_nxt = 1

\* The slot s begins a new history, for a connection to q or for none yet: what the
\* blocks that still name it from an earlier use deliver does not matter.
LEMMA ClaimStreams ==
    ASSUME NEW T, NEW K, NEW W, NEW L, NEW D, NetTyped(T, K, W, L, D), Streams(T, K, W, L, D),
           NEW s \in Socks, NEW q \in Peers \cup {NoPeer}, NEW U, NEW J,
           Begins(T, K, U, J, s, q)
    PROVE  /\ Put(W, s, q) \in [Socks -> Peers \cup {NoPeer}]
           /\ Put(L, s, <<>>) \in [Socks -> Seq(Bytes)]
           /\ Without(D, s) \subseteq Socks
           /\ Streams(U, J, Put(W, s, q), Put(L, s, <<>>), Without(D, s))
<1> DEFINE V == Put(W, s, q)
           M == Put(L, s, <<>>)
           E == Without(D, s)
<1>1. /\ V \in [Socks -> Peers \cup {NoPeer}] /\ V[s] = q
      /\ \A r \in Socks : r # s => V[r] = W[r]
  <2>1. W \in [Socks -> Peers \cup {NoPeer}]
    BY DEF NetTyped
  <2> QED
    BY <2>1, PutWith
<1>2. /\ M \in [Socks -> Seq(Bytes)] /\ M[s] = <<>>
      /\ \A r \in Socks : r # s => M[r] = L[r]
  <2>1. L \in [Socks -> Seq(Bytes)] /\ <<>> \in Seq(Bytes)
    BY DEF NetTyped
  <2> QED
    BY <2>1, PutLog
<1>3. E \subseteq Socks /\ \A r \in Socks : r # s /\ r \notin E => r \notin D
  BY DEF NetTyped, Without
<1> HIDE DEF V, M, E
<1>4. ASSUME NEW r \in Socks, J[r].state # "LISTEN"
      PROVE  /\ Ordered(M[r])
             /\ J[r].state = "CONNECTED" /\ r \notin E => Whole(M[r], V[r])
             /\ \A u \in Tcbs : Connection(U[u]) /\ U[u].user_data = r =>
                   Fed(U[u], r, J[r], V[r], M[r], E)
  <2>1. CASE r # s
    <3>1. M[r] = L[r] /\ V[r] = W[r] /\ J[r].state = K[r].state
      BY <2>1, <1>1, <1>2 DEF Begins
    <3>2. /\ Ordered(L[r]) /\ (K[r].state = "CONNECTED" /\ r \notin D => Whole(L[r], W[r]))
          /\ \A u \in Tcbs : Connection(T[u]) /\ T[u].user_data = r =>
                Fed(T[u], r, K[r], W[r], L[r], D)
      BY <3>1, <1>4 DEF Streams
    <3>3. ASSUME NEW u \in Tcbs, Connection(U[u]), U[u].user_data = r
          PROVE  Fed(U[u], r, J[r], V[r], M[r], E)
      <4>1. U[u] = T[u]
        BY <3>3, <2>1 DEF Begins
      <4> QED
        BY <4>1, <3>1, <3>2, <3>3, <2>1, <1>3 DEF Fed
    <3> QED
      BY <3>1, <3>2, <3>3, <2>1, <1>3
  <2>2. CASE r = s
    <3>1. Ordered(M[r]) /\ Whole(M[r], V[r])
      BY <2>2, <1>2 DEF Ordered, Whole
    <3>2. ASSUME NEW u \in Tcbs, Connection(U[u]), U[u].user_data = r
          PROVE  Fed(U[u], r, J[r], V[r], M[r], E)
      <4>1. Below(M[r], U[u].peer, U[u].rcv_nxt)
        BY <2>2, <1>2 DEF Below
      <4>2. ASSUME J[r].state = "CONNECTED", V[r] = U[u].peer, U[u].state = "ESTABLISHED"
            PROVE  AllTo(M[r], U[u].peer, U[u].rcv_nxt)
        BY <4>2, <3>2, <2>2, <1>1 DEF AllTo, Begins
      <4> QED
        BY <4>1, <4>2 DEF Fed
    <3> QED
      BY <3>1, <3>2
  <2> QED
    BY <2>1, <2>2
<1>5. Streams(U, J, V, M, E)
  BY <1>4 DEF Streams
<1> QED
  BY <1>1, <1>2, <1>3, <1>5 DEF V, M, E

LEMMA ChildStep ==
    ASSUME NEW T, NEW K, NEW W, NEW L, NEW D, NEW F, NEW C, NEW O, NEW I,
           Sound(T, K, W, L, D, F, C, O, I),
           NEW t \in Tcbs, Connection(T[t]), T[t].rcv_nxt = 1, T[t].state = "ESTABLISHED",
           NEW s \in Socks, T[t].user_data = s, K[s].state = "LISTEN", ~Full(K[s]),
           NEW c \in Socks, K[c].state = "FREE"
    PROVE  Sound(Put(T, t, Named(T[t], c)), Put(Put(K, c, Child(t)), s, Pushed(K[s], c)),
                 Put(W, c, T[t].peer), Put(L, c, <<>>), Without(D, c), F, C, O, I)
<1> DEFINE b == Named(T[t], c)
           U == Put(T, t, b)
           G == Put(K, c, Child(t))
           k == Pushed(K[s], c)
           J == Put(G, s, k)
           V == Put(W, c, T[t].peer)
           M == Put(L, c, <<>>)
           E == Without(D, c)
<1>1. NetTyped(T, K, W, L, D) /\ AppTyped(F, C, O, I) /\ Bounded(K) /\ Counted(K, F)
      /\ Queued(K, F) /\ Waiting(K, F, C, O) /\ Listening(T, K) /\ Peering(T, I)
      /\ Streams(T, K, W, L, D)
  BY DEF Sound
<1>2. /\ T \in [Tcbs -> TcbRec] /\ T[t] \in TcbRec /\ K \in [Socks -> SockRec]
      /\ K[s] \in SockRec /\ T[t].peer \in Peers /\ s # c
  BY <1>1 DEF NetTyped, Peering
<1>3. /\ b \in TcbRec /\ b.in_use = T[t].in_use /\ b.state = T[t].state
      /\ b.peer = T[t].peer /\ b.rcv_nxt = 1 /\ b.user_data = c
  BY <1>2, NamedFacts
<1>4. U \in [Tcbs -> TcbRec] /\ U[t] = b /\ \A u \in Tcbs : u # t => U[u] = T[u]
  BY <1>2, <1>3, PutTcb
<1>5. /\ Child(t) \in SockRec
      /\ Child(t).state = "CONNECTED" /\ Child(t).refcount = 1 /\ Child(t).backlog = 1
      /\ Child(t).pending = <<>> /\ Child(t).rx = <<>>
  BY ChildFacts
<1>6. G \in [Socks -> SockRec] /\ G[c] = Child(t) /\ \A r \in Socks : r # c => G[r] = K[r]
  BY <1>2, <1>5, PutSock
<1>7. /\ k \in SockRec /\ k.state = "LISTEN" /\ k.refcount = K[s].refcount
      /\ k.backlog = K[s].backlog /\ k.tcb = K[s].tcb /\ k.rx = K[s].rx
      /\ k.pending = Append(K[s].pending, c)
      /\ K[s].pending \in Seq(Socks) /\ K[s].backlog \in Nat
  BY <1>2, PushedFacts
<1> HIDE DEF G, k, U, b
<1>8. J \in [Socks -> SockRec] /\ J[s] = k /\ \A r \in Socks : r # s => J[r] = G[r]
  BY <1>6, <1>7, PutSock
<1> HIDE DEF J
<1>9. J[c] = Child(t) /\ \A r \in Socks : r # s /\ r # c => J[r] = K[r]
  BY <1>2, <1>6, <1>8
<1>10. /\ Len(k.pending) = Len(K[s].pending) + 1 /\ Len(K[s].pending) \in Nat
       /\ k.pending[Len(K[s].pending) + 1] = c
       /\ \A i \in 1 .. Len(K[s].pending) : k.pending[i] = K[s].pending[i]
  BY <1>7
<1>11. Bounded(J)
  <2> SUFFICES ASSUME NEW r \in Socks
               PROVE  /\ Len(J[r].rx) < SOCK_RX_BUF
                      /\ J[r].refcount = 0 <=> J[r].state = "FREE"
                      /\ Len(J[r].pending) <= J[r].backlog
    BY DEF Bounded
  <2>1. CASE r = s
    <3>1. Len(K[s].pending) < K[s].backlog
      BY <1>7, <1>10 DEF Full
    <3> QED
      BY <2>1, <3>1, <1>1, <1>7, <1>8, <1>10 DEF Bounded
  <2>2. CASE r = c
    <3>1. Len(<<>>) = 0 /\ SOCK_RX_BUF > 0
      BY SockAssumption
    <3> QED
      BY <2>2, <3>1, <1>5, <1>9
  <2>3. CASE r # s /\ r # c
    BY <2>3, <1>1, <1>9 DEF Bounded
  <2> QED
    BY <2>1, <2>2, <2>3
<1>12. Holders(F, c) = {}
  BY <1>1, FreeNotHeld DEF Bounded
<1>13. Counted(J, F)
  BY <1>1, <1>7, <1>8, <1>9, <1>12 DEF Counted
<1>14. \A r, x \in Socks : \A i \in Nat :
          InRing(J, r, i, x) <=> \/ InRing(K, r, i, x)
                                 \/ r = s /\ i = Len(K[s].pending) + 1 /\ x = c
  <2> SUFFICES ASSUME NEW r \in Socks, NEW x \in Socks, NEW i \in Nat
               PROVE  InRing(J, r, i, x) <=> \/ InRing(K, r, i, x)
                                             \/ r = s /\ i = Len(K[s].pending) + 1 /\ x = c
    OBVIOUS
  <2>1. CASE r = s
    <3>1. i \in 1 .. Len(k.pending) <=> i \in 1 .. Len(K[s].pending) \/ i = Len(K[s].pending) + 1
      BY <1>10
    <3>2. InRing(J, s, i, x) <=> i \in 1 .. Len(k.pending) /\ k.pending[i] = x
      BY <1>7, <1>8 DEF InRing
    <3>3. InRing(K, s, i, x) <=> i \in 1 .. Len(K[s].pending) /\ K[s].pending[i] = x
      BY DEF InRing
    <3>4. CASE i = Len(K[s].pending) + 1
      BY <2>1, <3>1, <3>2, <3>3, <3>4, <1>10
    <3>5. CASE i # Len(K[s].pending) + 1
      BY <2>1, <3>1, <3>2, <3>3, <3>5, <1>10
    <3> QED
      BY <3>4, <3>5
  <2>2. CASE r = c
    <3>1. J[r].state = "CONNECTED" /\ K[r].state = "FREE" /\ r # s
      BY <2>2, <1>2, <1>5, <1>9
    <3> QED
      BY <3>1 DEF InRing
  <2>3. CASE r # s /\ r # c
    BY <2>3, <1>9 DEF InRing
  <2> QED
    BY <2>1, <2>2, <2>3
<1>15. \A r \in Socks : \A i \in Nat : ~InRing(K, r, i, c)
  BY <1>1 DEF Queued
<1>16. Queued(J, F)
  <2> SUFFICES ASSUME NEW r \in Socks, NEW x \in Socks, NEW i \in Nat, InRing(J, r, i, x)
               PROVE  /\ J[x].state = "CONNECTED" /\ J[x].refcount = 1 /\ Holders(F, x) = {}
                      /\ \A y \in Socks : \A j \in Nat : InRing(J, y, j, x) => y = r /\ j = i
    BY DEF Queued
  <2>1. CASE x = c
    BY <2>1, <1>5, <1>9, <1>12, <1>14, <1>15
  <2>2. CASE x # c
    <3>1. InRing(K, r, i, x)
      BY <2>2, <1>14
    <3>2. /\ K[x].state = "CONNECTED" /\ K[x].refcount = 1 /\ Holders(F, x) = {}
          /\ \A y \in Socks : \A j \in Nat : InRing(K, y, j, x) => y = r /\ j = i
      BY <3>1, <1>1 DEF Queued
    <3>3. J[x] = K[x]
      BY <3>2, <2>2, <1>9
    <3> QED
      BY <3>2, <3>3, <2>2, <1>14
  <2> QED
    BY <2>1, <2>2
<1>17. Waiting(J, F, C, O)
  <2> SUFFICES ASSUME NEW p \in Procs, C[p] = "connect"
               PROVE  J[O[p]] = K[O[p]]
    BY <1>1 DEF Waiting
  <2>1. O[p] \in Socks /\ K[O[p]].state \in {"CONNECTING", "CONNECTED"}
    BY <1>1 DEF Waiting, AppTyped
  <2> QED
    BY <2>1, <1>9
<1>18. Listening(U, J)
  <2> SUFFICES ASSUME NEW u \in Tcbs, U[u].in_use = TRUE, U[u].state = "LISTEN"
               PROVE  /\ U[u].user_data \in Socks
                      /\ J[U[u].user_data].state = "LISTEN" /\ J[U[u].user_data].tcb = u
    BY DEF Listening
  <2>1. U[u] = T[u]
    BY <1>3, <1>4 DEF Connection
  <2>2. T[u].user_data \in Socks /\ K[T[u].user_data].state = "LISTEN" /\ K[T[u].user_data].tcb = u
    BY <2>1, <1>1 DEF Listening
  <2> QED
    BY <2>1, <2>2, <1>7, <1>8, <1>9
<1>19. \A u \in Tcbs : /\ Connection(U[u]) <=> Connection(T[u])
                       /\ U[u].peer = T[u].peer /\ U[u].rcv_nxt = T[u].rcv_nxt
                       /\ U[u].state = T[u].state
  BY <1>3, <1>4 DEF Connection
<1>20. Peering(U, I)
  BY <1>1, <1>19 DEF Peering
<1>21. /\ V \in [Socks -> Peers \cup {NoPeer}] /\ M \in [Socks -> Seq(Bytes)] /\ E \subseteq Socks
       /\ Streams(U, J, V, M, E)
  <2>1. \A r \in Socks : r # c => J[r].state = K[r].state
    BY <1>7, <1>8, <1>9
  <2>2. \A u \in Tcbs : Connection(U[u]) /\ U[u].user_data # c => U[u] = T[u]
    BY <1>3, <1>4
  <2>3. \A u \in Tcbs : Connection(U[u]) /\ U[u].peer = T[t].peer => U[u].rcv_nxt = 1
    BY <1>1, <1>19 DEF Peering
  <2>4. T[t].peer \in Peers \cup {NoPeer}
    BY <1>2
  <2>5. J \in [Socks -> SockRec] /\ NetTyped(T, K, W, L, D) /\ Streams(T, K, W, L, D)
    BY <1>1, <1>8
  <2> DEFINE q == T[t].peer
  <2> HIDE DEF V, M, E, q
  <2>6. /\ Put(W, c, q) \in [Socks -> Peers \cup {NoPeer}]
        /\ Put(L, c, <<>>) \in [Socks -> Seq(Bytes)]
        /\ Without(D, c) \subseteq Socks
        /\ Streams(U, J, Put(W, c, q), Put(L, c, <<>>), Without(D, c))
    <3>1. \A u \in Tcbs : Connection(U[u]) /\ U[u].user_data = c /\ U[u].peer = q
                          /\ U[u].state = "ESTABLISHED" /\ J[c].state = "CONNECTED"
                             => U[u].rcv_nxt = 1
      BY <2>3 DEF q
    <3>2. q \in Peers \cup {NoPeer}
      BY <2>4 DEF q
    <3>3. Begins(T, K, U, J, c, q)
      BY <2>1, <2>2, <3>1 DEF Begins
    <3> QED
      BY <2>5, <3>2, <3>3, ClaimStreams
  <2> QED
    BY <2>6 DEF V, M, E, q
<1>22. NetTyped(U, J, V, M, E)
  BY <1>4, <1>8, <1>21 DEF NetTyped
<1> QED
  BY <1>1, <1>11, <1>13, <1>16, <1>17, <1>18, <1>20, <1>21, <1>22
     DEF Sound, U, J, G, k, b, V, M, E

-----------------------------------------------------------------------------
(* The callbacks                                                           *)

Net(T, K, W, L, D) == [tcb |-> T, sock |-> K, with |-> W, log |-> L, dropped |-> D]
IsNet(N) == N = Net(N.tcb, N.sock, N.with, N.log, N.dropped)
SoundNet(N, F, C, O, I) == Sound(N.tcb, N.sock, N.with, N.log, N.dropped, F, C, O, I)

LEMMA NetFields ==
    ASSUME NEW T, NEW K, NEW W, NEW L, NEW D
    PROVE  /\ Net(T, K, W, L, D).tcb = T /\ Net(T, K, W, L, D).sock = K
           /\ Net(T, K, W, L, D).with = W /\ Net(T, K, W, L, D).log = L
           /\ Net(T, K, W, L, D).dropped = D
           /\ IsNet(Net(T, K, W, L, D))
BY DEF Net, IsNet

LEMMA SoundNetOf ==
    ASSUME NEW T, NEW K, NEW W, NEW L, NEW D, NEW F, NEW C, NEW O, NEW I,
           Sound(T, K, W, L, D, F, C, O, I)
    PROVE  SoundNet(Net(T, K, W, L, D), F, C, O, I)
BY NetFields DEF SoundNet

Hangup(k) == [k EXCEPT !.peer_closed = TRUE]
Filled(k, byte) == [k EXCEPT !.rx = Append(@, byte)]

LEMMA HangupFacts ==
    ASSUME NEW k \in SockRec, Len(k.rx) < SOCK_RX_BUF
    PROVE  Hangup(k) \in SockRec /\ Alike(k, Hangup(k))
BY DEF Hangup, SockRec, Alike

LEMMA FilledFacts ==
    ASSUME NEW k \in SockRec, NEW byte \in Bytes, RxRoom(k)
    PROVE  Filled(k, byte) \in SockRec /\ Alike(k, Filled(k, byte))
<1>1. k.rx \in Seq(Bytes)
  BY DEF SockRec
<1> DEFINE a == Append(k.rx, byte)
<1>2. a \in Seq(Bytes) /\ Len(a) = Len(k.rx) + 1
  BY <1>1
<1>3. Filled(k, byte) = [k EXCEPT !.rx = a]
  BY DEF Filled
<1> HIDE DEF a
<1> QED
  BY <1>2, <1>3 DEF SockRec, Alike, RxRoom

LEMMA OwnerFacts ==
    ASSUME NEW N, NEW F, NEW C, NEW O, NEW I, SoundNet(N, F, C, O, I), NEW t \in Tcbs
    PROVE  \/ /\ Owner(N, t) \in Socks /\ Owner(N, t) # NoSock
              /\ Owner(N, t) = N.tcb[t].user_data
              /\ N.sock[Owner(N, t)].state # "FREE" /\ N.sock[Owner(N, t)] \in SockRec
              /\ Len(N.sock[Owner(N, t)].rx) < SOCK_RX_BUF
           \/ /\ Owner(N, t) = NoSock
              /\ N.tcb[t].user_data = NoSock \/ N.sock[N.tcb[t].user_data].state = "FREE"
<1>1. NetTyped(N.tcb, N.sock, N.with, N.log, N.dropped) /\ Bounded(N.sock)
  BY DEF SoundNet, Sound
<1>2. N.tcb[t] \in TcbRec /\ \A s \in Socks : N.sock[s] \in SockRec
  BY <1>1 DEF NetTyped
<1>3. N.tcb[t].user_data \in Socks \cup {NoSock}
  BY <1>2 DEF TcbRec
<1>4. \A s \in Socks : s # NoSock
  BY DEF Socks, NoSock
<1> QED
  BY <1>1, <1>2, <1>3, <1>4 DEF Owner, Bounded

LEMMA OnCloseSound ==
    ASSUME NEW N, NEW F, NEW C, NEW O, NEW I, IsNet(N), SoundNet(N, F, C, O, I), NEW t \in Tcbs
    PROVE  /\ IsNet(OnClose(N, t)) /\ SoundNet(OnClose(N, t), F, C, O, I)
           /\ OnClose(N, t).tcb = N.tcb
<1> DEFINE s == Owner(N, t)
<1>1. CASE s = NoSock
  BY <1>1 DEF OnClose
<1>2. CASE s # NoSock
  <2> DEFINE k == Hangup(N.sock[s])
             M == Net(N.tcb, Put(N.sock, s, k), N.with, N.log, N.dropped)
  <2>1. s \in Socks /\ N.sock[s] \in SockRec /\ Len(N.sock[s].rx) < SOCK_RX_BUF
    BY <1>2, OwnerFacts
  <2>2. k \in SockRec /\ Alike(N.sock[s], k)
    BY <2>1, HangupFacts
  <2>3. OnClose(N, t) = M
    BY <1>2 DEF OnClose, IsNet, Net, Put, Hangup
  <2> HIDE DEF k
  <2>4. Sound(N.tcb, Put(N.sock, s, k), N.with, N.log, N.dropped, F, C, O, I)
    BY <2>1, <2>2, SockStep DEF SoundNet
  <2> QED
    BY <2>3, <2>4, NetFields, SoundNetOf
<1> QED
  BY <1>1, <1>2

\* The byte that block t expects arrives.
LEMMA ReceiveSound ==
    ASSUME NEW N, NEW F, NEW C, NEW O, NEW I, IsNet(N), SoundNet(N, F, C, O, I), NEW t \in Tcbs,
           Connection(N.tcb[t]), N.tcb[t].state = "ESTABLISHED", N.tcb[t].rcv_nxt >= 1,
           NEW M, M = OnRecv([N EXCEPT !.tcb[t].rcv_nxt = @ + 1], t,
                             <<N.tcb[t].peer, N.tcb[t].rcv_nxt>>)
    PROVE  /\ IsNet(M) /\ SoundNet(M, F, C, O, I)
           /\ M.tcb = Put(N.tcb, t, Counting(N.tcb[t]))
<1> DEFINE U == Put(N.tcb, t, Counting(N.tcb[t]))
           H == Net(U, N.sock, N.with, N.log, N.dropped)
           s == Owner(N, t)
           byte == <<N.tcb[t].peer, N.tcb[t].rcv_nxt>>
<1>1. [N EXCEPT !.tcb[t].rcv_nxt = @ + 1] = H
  BY DEF IsNet, Net, Put, Counting
<1>2. /\ NetTyped(N.tcb, N.sock, N.with, N.log, N.dropped) /\ Peering(N.tcb, I)
      /\ Sound(N.tcb, N.sock, N.with, N.log, N.dropped, F, C, O, I)
  BY DEF SoundNet, Sound
<1>3. N.tcb[t] \in TcbRec /\ N.tcb \in [Tcbs -> TcbRec]
  BY <1>2 DEF NetTyped
<1>4. byte \in Bytes
  <2>1. N.tcb[t].rcv_nxt \in Nat
    BY <1>3 DEF TcbRec
  <2> QED
    BY <2>1, <1>2 DEF Peering, Bytes
<1>5. U[t].user_data = N.tcb[t].user_data
  <2>1. Counting(N.tcb[t]) \in TcbRec /\ Counting(N.tcb[t]).user_data = N.tcb[t].user_data
    BY <1>3, CountingFacts
  <2> QED
    BY <2>1, <1>3, PutTcb
<1>6. H.tcb = U /\ H.sock = N.sock /\ H.with = N.with /\ H.log = N.log /\ H.dropped = N.dropped
      /\ IsNet(H)
  BY NetFields
<1> HIDE DEF U, H
<1>7. Owner(H, t) = s
  BY <1>5, <1>6 DEF Owner
<1>8. M = OnRecv(H, t, byte)
  BY <1>1
<1> HIDE DEF byte
<1>9. CASE s = NoSock
  <2>1. M = H
    BY <1>7, <1>8, <1>9 DEF OnRecv
  <2>2. N.tcb[t].user_data = NoSock \/ N.sock[N.tcb[t].user_data].state # "CONNECTED"
    BY <1>9, OwnerFacts
  <2>3. Sound(U, N.sock, N.with, N.log, N.dropped, F, C, O, I)
    BY <1>2, <2>2, RecvStep DEF U
  <2> QED
    BY <2>1, <2>3, <1>6 DEF SoundNet, U
<1>10. CASE s # NoSock
  <2>1. s \in Socks /\ N.sock[s] \in SockRec /\ s = N.tcb[t].user_data
    BY <1>10, OwnerFacts
  <2>2. /\ Sound(U, N.sock, N.with, Put(N.log, s, Append(N.log[s], byte)), N.dropped, F, C, O, I)
        /\ Sound(U, N.sock, N.with, N.log, With(N.dropped, s), F, C, O, I)
    BY <1>2, <1>10, <2>1, RecvStep DEF U, byte
  <2>3. CASE RxRoom(N.sock[s])
    <3> DEFINE k == Filled(N.sock[s], byte)
               Q == Put(N.log, s, Append(N.log[s], byte))
               G == Net(U, Put(N.sock, s, k), N.with, Q, N.dropped)
    <3>1. k \in SockRec /\ Alike(N.sock[s], k)
      BY <2>1, <2>3, <1>4, FilledFacts
    <3>2. M = G
      <4>1. M = [H EXCEPT !.sock[s].rx = Append(@, byte), !.log[s] = Append(@, byte)]
        BY <1>6, <1>7, <1>8, <1>10, <2>3 DEF OnRecv
      <4> QED
        BY <4>1 DEF H, Net, Put, Filled
    <3> HIDE DEF k, Q
    <3>3. Sound(U, Put(N.sock, s, k), N.with, Q, N.dropped, F, C, O, I)
      BY <2>1, <2>2, <3>1, SockStep DEF Q
    <3> QED
      BY <3>2, <3>3, NetFields, SoundNetOf DEF U
  <2>4. CASE ~RxRoom(N.sock[s])
    <3>1. M = Net(U, N.sock, N.with, N.log, With(N.dropped, s))
      BY <1>6, <1>7, <1>8, <1>10, <2>4 DEF OnRecv, IsNet, Net, With
    <3> QED
      BY <3>1, <2>2, NetFields, SoundNetOf DEF U
  <2> QED
    BY <2>3, <2>4
<1> QED
  BY <1>9, <1>10

\* The handshake of block t is complete.
LEMMA OnConnectSound ==
    ASSUME NEW N, NEW F, NEW C, NEW O, NEW I, IsNet(N), SoundNet(N, F, C, O, I), NEW t \in Tcbs,
           Connection(N.tcb[t]), N.tcb[t].state = "ESTABLISHED", N.tcb[t].rcv_nxt = 1,
           NEW M, M = OnConnect(N, t)
    PROVE  /\ IsNet(M) /\ SoundNet(M, F, C, O, I)
           /\ Connection(M.tcb[t]) /\ M.tcb[t].state = "ESTABLISHED"
<1> DEFINE s == Owner(N, t)
           q == N.tcb[t].peer
<1>1. Sound(N.tcb, N.sock, N.with, N.log, N.dropped, F, C, O, I)
  BY DEF SoundNet
<1>2. \/ s \in Socks /\ s = N.tcb[t].user_data /\ s # NoSock
      \/ s = NoSock
  BY OwnerFacts
<1>3. CASE s = NoSock \/ M = N
  <2>1. M = N
    BY <1>3 DEF OnConnect
  <2> QED
    BY <2>1
<1>4. CASE s # NoSock /\ N.sock[s].state = "CONNECTING"
  <2>1. M = Net(N.tcb, Put(N.sock, s, Joined(N.sock[s], t)), Put(N.with, s, q), N.log, N.dropped)
    <3>1. M = [N EXCEPT !.sock[s].state = "CONNECTED", !.sock[s].tcb = t, !.with[s] = q]
      BY <1>4 DEF OnConnect
    <3>2. N.sock \in [Socks -> SockRec] /\ s \in Socks
      BY <1>1, <1>2, <1>4 DEF Sound, NetTyped
    <3>3. N.sock[s] \in SockRec
      BY <3>2
    <3> DEFINE R == [N.sock EXCEPT ![s].state = "CONNECTED", ![s].tcb = t]
    <3>4. R = Put(N.sock, s, Joined(N.sock[s], t))
      BY <3>2, <3>3 DEF Put, Joined, SockRec
    <3> HIDE DEF s, q
    <3>5. M = [N EXCEPT !.sock = R, !.with[s] = q]
      BY <3>1 DEF IsNet, Net
    <3> HIDE DEF R
    <3>6. M = Net(N.tcb, R, Put(N.with, s, q), N.log, N.dropped)
      BY <3>5 DEF IsNet, Net, Put
    <3> QED
      BY <3>4, <3>6
  <2>2. Sound(N.tcb, Put(N.sock, s, Joined(N.sock[s], t)), Put(N.with, s, q), N.log, N.dropped,
              F, C, O, I)
    BY <1>1, <1>2, <1>4, JoinStep
  <2> QED
    BY <2>1, <2>2, NetFields, SoundNetOf
<1>5. CASE /\ s # NoSock /\ N.sock[s].state = "LISTEN" /\ ~Full(N.sock[s])
           /\ FreeSlots(N) # {}
  <2> DEFINE c == CHOOSE f \in FreeSlots(N) : TRUE
             k == [FreeSock EXCEPT !.state = "CONNECTED", !.refcount = 1, !.tcb = t]
             U == Put(N.tcb, t, Named(N.tcb[t], c))
             J == Put(Put(N.sock, c, Child(t)), s, Pushed(N.sock[s], c))
             G == Net(U, J, Put(N.with, c, q), Put(N.log, c, <<>>), Without(N.dropped, c))
  <2>1. c \in FreeSlots(N)
    BY <1>5
  <2>2. c \in Socks /\ N.sock[c].state = "FREE"
    BY <2>1 DEF FreeSlots, First
  <2>3. M = [Claimed(N, c, k, q) EXCEPT !.sock[s].pending = Append(@, c), !.tcb[t].user_data = c]
    BY <1>5 DEF OnConnect
  <2> HIDE DEF c, s, q
  <2>4. Claimed(N, c, k, q) = Net(N.tcb, Put(N.sock, c, Child(t)), Put(N.with, c, q),
                                  Put(N.log, c, <<>>), Without(N.dropped, c))
    <3>1. k = Child(t)
      BY DEF Child
    <3> HIDE DEF k
    <3>2. Claimed(N, c, k, q) = [N EXCEPT !.sock[c] = k, !.with[c] = q, !.log[c] = <<>>,
                                          !.dropped = @ \ {c}]
      BY DEF Claimed
    <3>3. Claimed(N, c, k, q) = Net(N.tcb, Put(N.sock, c, k), Put(N.with, c, q),
                                    Put(N.log, c, <<>>), Without(N.dropped, c))
      BY <3>2 DEF IsNet, Net, Put, Without
    <3> QED
      BY <3>1, <3>3
  <2>5. Put(N.sock, c, Child(t))[s] = N.sock[s]
    <3>1. N.sock \in [Socks -> SockRec] /\ Child(t) \in SockRec /\ c # s /\ s \in Socks
      BY <1>1, <1>2, <1>5, <2>2, ChildFacts DEF Sound, NetTyped, s
    <3> QED
      BY <3>1, <2>2, PutSock
  <2>6. M = G
    <3> DEFINE B == Put(N.sock, c, Child(t))
               X == Put(N.with, c, q)
               Y == Put(N.log, c, <<>>)
               Z == Without(N.dropped, c)
    <3>1. M = [Net(N.tcb, B, X, Y, Z) EXCEPT !.sock[s].pending = Append(@, c),
                                             !.tcb[t].user_data = c]
      BY <2>3, <2>4
    <3> HIDE DEF B, X, Y, Z
    <3>2. M = Net(Put(N.tcb, t, Named(N.tcb[t], c)), Put(B, s, Pushed(B[s], c)), X, Y, Z)
      BY <3>1 DEF Net, Put, Named, Pushed
    <3> QED
      BY <3>2, <2>5 DEF B, X, Y, Z
  <2>7. Sound(U, J, Put(N.with, c, q), Put(N.log, c, <<>>), Without(N.dropped, c), F, C, O, I)
    BY <1>1, <1>2, <1>5, <2>2, ChildStep DEF q, s
  <2>8. U[t].in_use = N.tcb[t].in_use /\ U[t].state = "ESTABLISHED"
    <3>1. N.tcb \in [Tcbs -> TcbRec] /\ N.tcb[t] \in TcbRec
      BY <1>1 DEF Sound, NetTyped
    <3>2. /\ Named(N.tcb[t], c) \in TcbRec /\ Named(N.tcb[t], c).state = "ESTABLISHED"
          /\ Named(N.tcb[t], c).in_use = N.tcb[t].in_use
      BY <3>1, <2>2, NamedFacts
    <3> QED
      BY <3>1, <3>2, PutTcb
  <2> HIDE DEF U, J
  <2> QED
    BY <2>6, <2>7, <2>8, NetFields, SoundNetOf DEF Connection
<1> QED
  BY <1>3, <1>4, <1>5 DEF OnConnect

Stepped(N, t, b) == [N EXCEPT !.tcb[t] = b]

\* A step of block t alone.
LEMMA NetTcbStep ==
    ASSUME NEW N, NEW F, NEW C, NEW O, NEW I, IsNet(N), SoundNet(N, F, C, O, I), NEW t \in Tcbs,
           NEW b \in TcbRec, Advances(N.tcb[t], b)
    PROVE  /\ IsNet(Stepped(N, t, b)) /\ SoundNet(Stepped(N, t, b), F, C, O, I)
           /\ Stepped(N, t, b).tcb[t] = b
<1> DEFINE M == Stepped(N, t, b)
<1>1. M = Net(Put(N.tcb, t, b), N.sock, N.with, N.log, N.dropped)
  BY DEF IsNet, Net, Put, Stepped
<1> HIDE DEF M
<1>2. Sound(Put(N.tcb, t, b), N.sock, N.with, N.log, N.dropped, F, C, O, I)
  BY TcbStep DEF SoundNet
<1>3. N.tcb \in [Tcbs -> TcbRec]
  BY DEF SoundNet, Sound, NetTyped
<1>4. Put(N.tcb, t, b)[t] = b
  BY <1>3, PutTcb
<1> DEFINE U == Put(N.tcb, t, b)
<1> HIDE DEF U
<1>5. Sound(U, N.sock, N.with, N.log, N.dropped, F, C, O, I)
  BY <1>2 DEF U
<1>6. M = Net(U, N.sock, N.with, N.log, N.dropped)
  BY <1>1 DEF U
<1>7. SoundNet(M, F, C, O, I)
  BY <1>5, <1>6, SoundNetOf
<1> DEFINE G == Net(U, N.sock, N.with, N.log, N.dropped)
<1>8. IsNet(G) /\ G.tcb = U
  BY NetFields
<1> HIDE DEF G
<1>9. M = G
  BY <1>6 DEF G
<1> QED
  BY <1>4, <1>7, <1>8, <1>9 DEF U, M

LEMMA ReleasedTyped == Released \in TcbRec /\ ~Connection(Released) /\ Released.in_use # TRUE
BY DEF Released, TcbRec, Connection, TcpStates, NoSock, NoPeer

LEMMA ReleaseSound ==
    ASSUME NEW N, NEW F, NEW C, NEW O, NEW I, IsNet(N), SoundNet(N, F, C, O, I), NEW t \in Tcbs
    PROVE  IsNet(Release(N, t)) /\ SoundNet(Release(N, t), F, C, O, I)
<1> DEFINE M == OnClose(N, t)
<1>1. IsNet(M) /\ SoundNet(M, F, C, O, I)
  BY OnCloseSound
<1>2. Advances(M.tcb[t], Released)
  BY ReleasedTyped DEF Advances
<1>3. Release(N, t) = Stepped(M, t, Released)
  BY DEF Release, Stepped
<1> HIDE DEF M
<1> QED
  BY <1>1, <1>2, <1>3, ReleasedTyped, NetTcbStep

FinSeen(b) == [b EXCEPT !.rcv_nxt = @ + 1, !.state = "CLOSE_WAIT"]

LEMMA FinSeenFacts ==
    ASSUME NEW b \in TcbRec, Connection(b)
    PROVE  FinSeen(b) \in TcbRec /\ Advances(b, FinSeen(b))
<1>1. b.rcv_nxt \in Nat /\ "CLOSE_WAIT" \in TcpStates
  BY DEF TcbRec, TcpStates
<1>2. /\ FinSeen(b) \in TcbRec /\ FinSeen(b).in_use = b.in_use
      /\ FinSeen(b).state = "CLOSE_WAIT" /\ FinSeen(b).peer = b.peer
      /\ FinSeen(b).user_data = b.user_data /\ FinSeen(b).rcv_nxt = b.rcv_nxt + 1
  <2>1. /\ Counting(b) \in TcbRec /\ Counting(b).in_use = b.in_use
        /\ Counting(b).peer = b.peer /\ Counting(b).user_data = b.user_data
        /\ Counting(b).rcv_nxt = b.rcv_nxt + 1
    BY CountingFacts
  <2>2. FinSeen(b) = [Counting(b) EXCEPT !.state = "CLOSE_WAIT"]
    BY DEF FinSeen, Counting, TcbRec
  <2> DEFINE c == Counting(b)
  <2> HIDE DEF c
  <2>3. FinSeen(b) = [c EXCEPT !.state = "CLOSE_WAIT"] /\ c \in TcbRec
    BY <2>1, <2>2 DEF c
  <2>4. /\ FinSeen(b) \in TcbRec /\ FinSeen(b).in_use = c.in_use
        /\ FinSeen(b).state = "CLOSE_WAIT" /\ FinSeen(b).peer = c.peer
        /\ FinSeen(b).user_data = c.user_data /\ FinSeen(b).rcv_nxt = c.rcv_nxt
    BY <1>1, <2>3 DEF TcbRec
  <2> QED
    BY <2>1, <2>4 DEF c
<1> QED
  BY <1>1, <1>2 DEF Connection, Advances

LEMMA EstablishedSound ==
    ASSUME NEW N, NEW F, NEW C, NEW O, NEW I, IsNet(N), SoundNet(N, F, C, O, I), NEW t \in Tcbs,
           Connection(N.tcb[t]), N.tcb[t].state = "ESTABLISHED",
           NEW seg, seg.data \in Nat
    PROVE  IsNet(InEstablished(N, t, seg)) /\ SoundNet(InEstablished(N, t, seg), F, C, O, I)
<1> DEFINE M == IF InOrder(N.tcb[t], seg)
                THEN OnRecv([N EXCEPT !.tcb[t].rcv_nxt = @ + 1], t, <<N.tcb[t].peer, seg.data>>)
                ELSE N
           E == InEstablished(N, t, seg)
<1>1. N.tcb \in [Tcbs -> TcbRec] /\ N.tcb[t] \in TcbRec
  BY DEF SoundNet, Sound, NetTyped
<1>2. /\ IsNet(M) /\ SoundNet(M, F, C, O, I)
      /\ Connection(M.tcb[t]) /\ M.tcb[t] \in TcbRec
  <2>1. CASE InOrder(N.tcb[t], seg)
    <3>1. seg.data = N.tcb[t].rcv_nxt /\ N.tcb[t].rcv_nxt >= 1
      BY <2>1 DEF InOrder
    <3>2. M = OnRecv([N EXCEPT !.tcb[t].rcv_nxt = @ + 1], t, <<N.tcb[t].peer, N.tcb[t].rcv_nxt>>)
      BY <2>1, <3>1
    <3> HIDE DEF M
    <3>3. /\ IsNet(M) /\ SoundNet(M, F, C, O, I)
          /\ M.tcb = Put(N.tcb, t, Counting(N.tcb[t]))
      BY <3>1, <3>2, ReceiveSound
    <3>4. M.tcb[t] = Counting(N.tcb[t])
      BY <3>3, <1>1, CountingFacts, PutTcb
    <3> QED
      BY <3>3, <3>4, <1>1, CountingFacts
  <2>2. CASE ~InOrder(N.tcb[t], seg)
    BY <2>2, <1>1
  <2> QED
    BY <2>1, <2>2
<1>3. CASE seg.kind # "fin"
  <2>1. E = M
    BY <1>3 DEF InEstablished
  <2> QED
    BY <2>1, <1>2
<1>4. CASE seg.kind = "fin"
  <2> DEFINE H == Stepped(M, t, FinSeen(M.tcb[t]))
  <2>1. E = OnClose([M EXCEPT !.tcb[t].rcv_nxt = @ + 1, !.tcb[t].state = "CLOSE_WAIT"], t)
    BY <1>4 DEF InEstablished
  <2> HIDE DEF M, E
  <2>2. [M EXCEPT !.tcb[t].rcv_nxt = @ + 1, !.tcb[t].state = "CLOSE_WAIT"] = H
    <3>1. M.tcb \in [Tcbs -> TcbRec]
      BY <1>2 DEF SoundNet, Sound, NetTyped
    <3> QED
      BY <1>2, <3>1 DEF IsNet, Net, FinSeen, Stepped
  <2>3. IsNet(H) /\ SoundNet(H, F, C, O, I)
    BY <1>2, FinSeenFacts, NetTcbStep
  <2> HIDE DEF H
  <2> QED
    BY <2>1, <2>2, <2>3, OnCloseSound DEF E
<1> QED
  BY <1>3, <1>4

-----------------------------------------------------------------------------
(* Arriving segments                                                       *)

LEMMA NowSound ==
    ASSUME IInv
    PROVE  IsNet(Now) /\ SoundNet(Now, fds, call, on, incs) /\ Now.tcb = tcb /\ Now.sock = sock
           /\ Now.with = with /\ Now.log = log /\ Now.dropped = dropped
<1>1. Now = Net(tcb, sock, with, log, dropped)
  BY DEF Now, Net
<1> QED
  BY <1>1, NetFields, SoundNetOf DEF IInv

LEMMA BecomeSound ==
    ASSUME NEW N, SoundNet(N, fds, call, on, incs), Become(N), UNCHANGED <<fds, call, on, incs>>
    PROVE  IInv'
BY DEF SoundNet, Become, IInv

LEMMA ExactFacts ==
    ASSUME NEW q, NEW t \in First(Exact(tcb, q))
    PROVE  t \in Tcbs /\ Connection(tcb[t]) /\ tcb[t].peer = q
BY DEF First, Exact, Connection

LEMMA SegmentData ==
    ASSUME NEW q \in Peers, NEW seg \in Segments(q)
    PROVE  seg.data \in Nat
BY SockAssumption DEF Segments, Segment

Estab(b) == [b EXCEPT !.state = "ESTABLISHED", !.rcv_nxt = 1]

LEMMA EstabFacts ==
    ASSUME NEW b \in TcbRec, Connection(b), b.rcv_nxt <= 1
    PROVE  /\ Estab(b) \in TcbRec /\ Advances(b, Estab(b)) /\ Connection(Estab(b))
           /\ Estab(b).state = "ESTABLISHED" /\ Estab(b).rcv_nxt = 1
<1>1. b.rcv_nxt \in Nat /\ "ESTABLISHED" \in TcpStates
  BY DEF TcbRec, TcpStates
<1>2. /\ Estab(b) \in TcbRec /\ Estab(b).in_use = b.in_use /\ Estab(b).peer = b.peer
      /\ Estab(b).user_data = b.user_data
      /\ Estab(b).state = "ESTABLISHED" /\ Estab(b).rcv_nxt = 1
  BY <1>1 DEF Estab, TcbRec
<1> QED
  BY <1>1, <1>2 DEF Connection, Advances

LEMMA RxConnInv ==
    ASSUME IInv, NEW q \in Peers, NEW t \in First(Exact(tcb, q)), NEW seg \in Segments(q),
           \/ RxRst(t, seg) \/ RxSynSent(t, seg) \/ RxSynRcvd(t, seg)
           \/ RxEstablished(t, seg) \/ RxClosing(t, seg),
           UNCHANGED <<fds, call, on, incs>>
    PROVE  IInv'
<1>1. /\ IsNet(Now) /\ SoundNet(Now, fds, call, on, incs) /\ Now.tcb = tcb
  BY NowSound
<1>2. t \in Tcbs /\ Connection(tcb[t]) /\ seg.data \in Nat
  BY ExactFacts, SegmentData
<1>3. tcb \in [Tcbs -> TcbRec] /\ tcb[t] \in TcbRec /\ Peering(tcb, incs)
  BY <1>2 DEF IInv, Sound, NetTyped
<1>4. SoundNet(Release(Now, t), fds, call, on, incs)
  BY <1>1, <1>2, ReleaseSound
<1>5. CASE RxRst(t, seg)
  BY <1>4, <1>5, BecomeSound DEF RxRst
<1>6. CASE RxSynSent(t, seg)
  <2> DEFINE N == Stepped(Now, t, Estab(tcb[t]))
  <2>1. [Now EXCEPT !.tcb[t].state = "ESTABLISHED", !.tcb[t].rcv_nxt = 1] = N
    BY <1>2, <1>3 DEF Now, Estab, Stepped
  <2>2. tcb[t].rcv_nxt <= 1
    BY <1>2, <1>3, <1>6 DEF RxSynSent, Peering
  <2>3. /\ Estab(tcb[t]) \in TcbRec /\ Advances(tcb[t], Estab(tcb[t])) /\ Connection(Estab(tcb[t]))
        /\ Estab(tcb[t]).state = "ESTABLISHED" /\ Estab(tcb[t]).rcv_nxt = 1
    BY <2>2, <1>2, <1>3, EstabFacts
  <2>4. IsNet(N) /\ SoundNet(N, fds, call, on, incs) /\ N.tcb[t] = Estab(tcb[t])
    <3> DEFINE b == Estab(tcb[t])
    <3>1. b \in TcbRec /\ Advances(Now.tcb[t], b) /\ N = Stepped(Now, t, b)
      BY <2>3, <1>1
    <3> HIDE DEF b, N
    <3>2. IsNet(N) /\ SoundNet(N, fds, call, on, incs) /\ N.tcb[t] = b
      BY <3>1, <1>1, <1>2, NetTcbStep
    <3> QED
      BY <3>2 DEF b
  <2>5. Become(OnConnect(N, t))
    BY <2>1, <1>6 DEF RxSynSent
  <2> HIDE DEF N
  <2>6. SoundNet(OnConnect(N, t), fds, call, on, incs)
    BY <2>3, <2>4, <1>2, OnConnectSound
  <2> QED
    BY <2>5, <2>6, BecomeSound
<1>7. CASE RxSynRcvd(t, seg)
  <2> DEFINE N == Stepped(Now, t, Estab(tcb[t]))
             M == OnConnect(N, t)
  <2>1. tcb[t].rcv_nxt = 1
    BY <1>2, <1>3, <1>7 DEF RxSynRcvd, Peering
  <2>2. [Now EXCEPT !.tcb[t].state = "ESTABLISHED"] = N
    <3>1. Estab(tcb[t]) = [tcb[t] EXCEPT !.state = "ESTABLISHED"]
      BY <2>1, <1>3 DEF Estab, TcbRec
    <3> QED
      BY <3>1 DEF Now, Stepped
  <2>3. /\ Estab(tcb[t]) \in TcbRec /\ Advances(tcb[t], Estab(tcb[t])) /\ Connection(Estab(tcb[t]))
        /\ Estab(tcb[t]).state = "ESTABLISHED" /\ Estab(tcb[t]).rcv_nxt = 1
    BY <2>1, <1>2, <1>3, EstabFacts
  <2>4. IsNet(N) /\ SoundNet(N, fds, call, on, incs) /\ N.tcb[t] = Estab(tcb[t])
    <3> DEFINE b == Estab(tcb[t])
    <3>1. b \in TcbRec /\ Advances(Now.tcb[t], b) /\ N = Stepped(Now, t, b)
      BY <2>3, <1>1
    <3> HIDE DEF b, N
    <3>2. IsNet(N) /\ SoundNet(N, fds, call, on, incs) /\ N.tcb[t] = b
      BY <3>1, <1>1, <1>2, NetTcbStep
    <3> QED
      BY <3>2 DEF b
  <2>5. Become(InEstablished(M, t, seg))
    BY <2>2, <1>7 DEF RxSynRcvd
  <2> HIDE DEF N
  <2>6. /\ IsNet(M) /\ SoundNet(M, fds, call, on, incs)
        /\ Connection(M.tcb[t]) /\ M.tcb[t].state = "ESTABLISHED"
    BY <2>3, <2>4, <1>2, OnConnectSound
  <2> HIDE DEF M
  <2>7. SoundNet(InEstablished(M, t, seg), fds, call, on, incs)
    BY <2>6, <1>2, EstablishedSound
  <2> QED
    BY <2>5, <2>7, BecomeSound
<1>8. CASE RxEstablished(t, seg)
  <2>1. SoundNet(InEstablished(Now, t, seg), fds, call, on, incs)
    BY <1>1, <1>2, <1>8, EstablishedSound DEF RxEstablished
  <2> QED
    BY <2>1, <1>8, BecomeSound DEF RxEstablished
<1>9. CASE RxClosing(t, seg)
  <2>1. CASE Become(Release(Now, t))
    BY <2>1, <1>4, BecomeSound
  <2>2. CASE /\ tcb[t].state = "FIN_WAIT_1"
             /\ Become([Now EXCEPT !.tcb[t].state = "FIN_WAIT_2"])
    <3> DEFINE b == [tcb[t] EXCEPT !.state = "FIN_WAIT_2"]
               N == Stepped(Now, t, b)
    <3>1. [Now EXCEPT !.tcb[t].state = "FIN_WAIT_2"] = N
      BY DEF Now, Stepped
    <3>2. /\ b \in TcbRec /\ b.in_use = tcb[t].in_use /\ b.state = "FIN_WAIT_2"
          /\ b.peer = tcb[t].peer /\ b.user_data = tcb[t].user_data
          /\ b.rcv_nxt = tcb[t].rcv_nxt /\ b.rcv_nxt \in Nat
      BY <1>3 DEF TcbRec, TcpStates
    <3> HIDE DEF b
    <3>3. Advances(tcb[t], b)
      BY <3>2, <1>2 DEF Advances, Connection
    <3>4. SoundNet(N, fds, call, on, incs)
      BY <3>2, <3>3, <1>1, <1>2, NetTcbStep
    <3> QED
      BY <3>1, <3>4, <2>2, BecomeSound
  <2> QED
    BY <2>1, <2>2, <1>9 DEF RxClosing
<1> QED
  BY <1>5, <1>6, <1>7, <1>8, <1>9

-----------------------------------------------------------------------------
(* System calls                                                            *)

\* A call that is not connect begins to wait or ends.
LEMMA WaitsSound ==
    ASSUME NEW T, NEW K, NEW W, NEW L, NEW D, NEW F, NEW I,
           Sound(T, K, W, L, D, F, call, on, I),
           NEW p \in Procs, NEW c \in {"user", "accept", "read"}, NEW s \in Socks \cup {NoSock},
           Waits(p, c, s)
    PROVE  Sound(T, K, W, L, D, F, call', on', I)
<1>1. AppTyped(F, call, on, I) /\ Waiting(K, F, call, on)
  BY DEF Sound
<1>2. /\ call' \in [Procs -> {"user", "accept", "connect", "read"}]
      /\ on' \in [Procs -> Socks \cup {NoSock}]
      /\ call'[p] = c /\ \A q \in Procs : q # p => call'[q] = call[q] /\ on'[q] = on[q]
  BY <1>1 DEF Waits, AppTyped
<1>3. AppTyped(F, call', on', I)
  BY <1>1, <1>2 DEF AppTyped
<1>4. Waiting(K, F, call', on')
  <2>1. \A q \in Procs : call'[q] = "connect" => q # p
    BY <1>2
  <2> QED
    BY <2>1, <1>1, <1>2 DEF Waiting
<1> QED
  BY <1>3, <1>4 DEF Sound

Emptied(k) == [k EXCEPT !.rx = <<>>]

LEMMA EmptiedFacts ==
    ASSUME NEW k \in SockRec
    PROVE  Emptied(k) \in SockRec /\ Alike(k, Emptied(k))
<1>1. <<>> \in Seq(Bytes) /\ Len(<<>>) = 0 /\ SOCK_RX_BUF > 0
  BY SockAssumption
<1> QED
  BY <1>1 DEF Emptied, SockRec, Alike

LEMMA ReadInv ==
    ASSUME IInv, NEW p \in Procs, NEW s \in Socks, Read(p, s)
    PROVE  IInv'
<1>1. UNCHANGED <<tcb, with, log, dropped, fds, remote, incs>>
  BY DEF Read, env
<1>2. sock \in [Socks -> SockRec] /\ sock[s] \in SockRec
  BY DEF IInv, Sound, NetTyped
<1>3. NoSock \in Socks \cup {NoSock} /\ s \in Socks \cup {NoSock}
  OBVIOUS
<1>4. CASE sock' = [sock EXCEPT ![s].rx = <<>>] /\ Waits(p, "user", NoSock)
  <2>1. sock' = Put(sock, s, Emptied(sock[s]))
    BY <1>4 DEF Put, Emptied
  <2>2. Sound(tcb, Put(sock, s, Emptied(sock[s])), with, log, dropped, fds, call, on, incs)
    BY <1>2, EmptiedFacts, SockStep DEF IInv
  <2>3. Sound(tcb, sock', with, log, dropped, fds, call, on, incs)
    BY <2>1, <2>2
  <2>4. Sound(tcb, sock', with, log, dropped, fds, call', on', incs)
    BY <2>3, <1>3, <1>4, WaitsSound
  <2> QED
    BY <2>4, <1>1 DEF IInv
<1>5. CASE UNCHANGED sock /\ (Waits(p, "read", s) \/ Waits(p, "user", NoSock))
  <2>1. Sound(tcb, sock, with, log, dropped, fds, call', on', incs)
    BY <1>3, <1>5, WaitsSound DEF IInv
  <2> QED
    BY <2>1, <1>1, <1>5 DEF IInv
<1> QED
  BY <1>4, <1>5 DEF Read

Drained(k, q) == [k EXCEPT !.pending = q]

LEMMA DrainedFacts ==
    ASSUME NEW k \in SockRec, NEW q \in Seq(Socks)
    PROVE  /\ Drained(k, q) \in SockRec /\ Drained(k, q).state = k.state
           /\ Drained(k, q).refcount = k.refcount /\ Drained(k, q).tcb = k.tcb
           /\ Drained(k, q).backlog = k.backlog /\ Drained(k, q).rx = k.rx
           /\ Drained(k, q).pending = q
BY DEF Drained, SockRec

Plus(S, x) == S \cup {x}

\* accept hands the first connection of the ring of s to p.
LEMMA AcceptStep ==
    ASSUME NEW T, NEW K, NEW W, NEW L, NEW D, NEW F, NEW C, NEW O, NEW I,
           Sound(T, K, W, L, D, F, C, O, I),
           NEW p \in Procs, NEW s \in Socks, K[s].state = "LISTEN", K[s].pending # <<>>
    PROVE  Sound(T, Put(K, s, Drained(K[s], Tail(K[s].pending))), W, L, D,
                 Put(F, p, Plus(F[p], Head(K[s].pending))), C, O, I)
<1> DEFINE q == K[s].pending
           c == Head(q)
           k == Drained(K[s], Tail(q))
           J == Put(K, s, k)
           X == Plus(F[p], c)
           G == Put(F, p, X)
<1>1. NetTyped(T, K, W, L, D) /\ AppTyped(F, C, O, I) /\ Bounded(K) /\ Counted(K, F)
      /\ Queued(K, F) /\ Waiting(K, F, C, O) /\ Listening(T, K) /\ Peering(T, I)
      /\ Streams(T, K, W, L, D)
  BY DEF Sound
<1>2. K \in [Socks -> SockRec] /\ K[s] \in SockRec /\ F \in [Procs -> SUBSET Socks]
  BY <1>1 DEF NetTyped, AppTyped
<1>3. q \in Seq(Socks) /\ K[s].backlog \in Nat
  BY <1>2 DEF SockRec
<1>4. /\ c \in Socks /\ q[1] = c /\ Len(q) \in Nat /\ Len(q) >= 1 /\ Tail(q) \in Seq(Socks)
      /\ Len(Tail(q)) = Len(q) - 1 /\ \A i \in 1 .. (Len(q) - 1) : Tail(q)[i] = q[i + 1]
  BY <1>3
<1>5. /\ k \in SockRec /\ k.state = "LISTEN" /\ k.refcount = K[s].refcount /\ k.tcb = K[s].tcb
      /\ k.backlog = K[s].backlog /\ k.rx = K[s].rx /\ k.pending = Tail(q)
  BY <1>2, <1>4, DrainedFacts
<1>6. J \in [Socks -> SockRec] /\ J[s] = k /\ \A r \in Socks : r # s => J[r] = K[r]
  BY <1>2, <1>5, PutSock
<1> HIDE DEF q, c, k, J
<1>7. InRing(K, s, 1, c)
  BY <1>4 DEF InRing, q
<1>8. /\ K[c].state = "CONNECTED" /\ K[c].refcount = 1 /\ Holders(F, c) = {}
      /\ \A r \in Socks : \A j \in Nat : InRing(K, r, j, c) => r = s /\ j = 1
  BY <1>1, <1>4, <1>7 DEF Queued
<1>9. X \in SUBSET Socks /\ c \in X /\ \A x \in Socks : x # c => (x \in X <=> x \in F[p])
  BY <1>2, <1>4 DEF Plus
<1> HIDE DEF X, G
<1>10. G \in [Procs -> SUBSET Socks]
  BY <1>2, <1>9 DEF G, Put
<1>11. Holders(G, c) = {p}
  BY <1>2, <1>4, <1>8, <1>9, HoldersPut DEF G
<1>12. \A x \in Socks : x # c => Holders(G, x) = Holders(F, x)
  BY <1>2, <1>9 DEF Holders, G, Put
<1>13. Bounded(J)
  <2>1. Len(q) <= K[s].backlog
    BY <1>1 DEF Bounded, q
  <2>2. Len(J[s].pending) <= J[s].backlog
    BY <2>1, <1>3, <1>4, <1>5, <1>6
  <2> QED
    BY <2>2, <1>1, <1>5, <1>6 DEF Bounded
<1>14. \A r \in Socks : J[r].state = K[r].state /\ J[r].refcount = K[r].refcount
                        /\ J[r].tcb = K[r].tcb
  BY <1>5, <1>6
<1>15. Counted(J, G)
  <2> SUFFICES ASSUME NEW r \in Socks, Holders(G, r) # {}
               PROVE  J[r].refcount = Cardinality(Holders(G, r))
    BY DEF Counted
  <2>1. CASE r = c
    BY <2>1, <1>8, <1>11, <1>14, FS_Singleton
  <2>2. CASE r # c
    BY <2>2, <1>1, <1>12, <1>14 DEF Counted
  <2> QED
    BY <2>1, <2>2
<1>16. \A r, x \in Socks : \A i \in Nat :
          InRing(J, r, i, x) => InRing(K, r, IF r = s THEN i + 1 ELSE i, x)
  <2> SUFFICES ASSUME NEW r \in Socks, NEW x \in Socks, NEW i \in Nat, InRing(J, r, i, x)
               PROVE  InRing(K, r, IF r = s THEN i + 1 ELSE i, x)
    OBVIOUS
  <2>1. CASE r = s
    <3>1. i \in 1 .. Len(Tail(q)) /\ Tail(q)[i] = x
      BY <2>1, <1>5, <1>6 DEF InRing
    <3>2. i + 1 \in 1 .. Len(q) /\ q[i + 1] = x
      BY <3>1, <1>4
    <3> QED
      BY <2>1, <3>2 DEF InRing, q
  <2>2. CASE r # s
    BY <2>2, <1>6 DEF InRing
  <2> QED
    BY <2>1, <2>2
<1>17. Queued(J, G)
  <2> SUFFICES ASSUME NEW r \in Socks, NEW x \in Socks, NEW i \in Nat, InRing(J, r, i, x)
               PROVE  /\ J[x].state = "CONNECTED" /\ J[x].refcount = 1 /\ Holders(G, x) = {}
                      /\ \A y \in Socks : \A j \in Nat : InRing(J, y, j, x) => y = r /\ j = i
    BY DEF Queued
  <2>1. x # c
    <3>1. i >= 1
      BY DEF InRing
    <3> QED
      BY <3>1, <1>8, <1>16
  <2>2. /\ K[x].state = "CONNECTED" /\ K[x].refcount = 1 /\ Holders(F, x) = {}
    BY <1>1, <1>16 DEF Queued
  <2>3. ASSUME NEW y \in Socks, NEW j \in Nat, InRing(J, y, j, x) PROVE y = r /\ j = i
    <3> DEFINE a == IF r = s THEN i + 1 ELSE i
               b == IF y = s THEN j + 1 ELSE j
    <3>1. InRing(K, r, a, x) /\ InRing(K, y, b, x) /\ a \in Nat /\ b \in Nat
      BY <2>3, <1>16
    <3>2. y = r /\ b = a
      BY <3>1, <1>1 DEF Queued
    <3> QED
      BY <3>2
  <2> QED
    BY <2>1, <2>2, <2>3, <1>12, <1>14
<1>18. Waiting(J, G, C, O)
  <2> SUFFICES ASSUME NEW x \in Procs, C[x] = "connect"
               PROVE  O[x] \in G[x] /\ J[O[x]].state \in {"CONNECTING", "CONNECTED"}
    BY <1>1 DEF Waiting
  <2>1. O[x] \in F[x] /\ K[O[x]].state \in {"CONNECTING", "CONNECTED"} /\ O[x] \in Socks
    BY <1>1 DEF Waiting, AppTyped
  <2>2. O[x] \in G[x]
    BY <2>1, <1>2, <1>9 DEF G, Put
  <2> QED
    BY <2>1, <2>2, <1>14
<1>19. Listening(T, J) /\ NetTyped(T, J, W, L, D) /\ AppTyped(G, C, O, I)
  BY <1>1, <1>6, <1>10, <1>14 DEF Listening, NetTyped, AppTyped
<1>20. Streams(T, J, W, L, D)
  BY <1>1, <1>14 DEF Streams, Fed
<1> QED
  BY <1>1, <1>13, <1>15, <1>17, <1>18, <1>19, <1>20 DEF Sound, J, G, X, k, c, q

LEMMA AcceptInv ==
    ASSUME IInv, NEW p \in Procs, NEW s \in Socks, Accept(p, s)
    PROVE  IInv'
<1>1. UNCHANGED <<tcb, with, log, dropped, incs>>
  BY DEF Accept, env
<1>2. NoSock \in Socks \cup {NoSock} /\ s \in Socks \cup {NoSock}
  OBVIOUS
<1>3. CASE /\ sock[s].state = "LISTEN" /\ sock[s].pending # <<>>
           /\ sock' = [sock EXCEPT ![s].pending = Popped(sock[s])]
           /\ fds' = [fds EXCEPT ![p] = @ \cup {Head(sock[s].pending)}]
           /\ Waits(p, "user", NoSock)
  <2>1. /\ sock' = Put(sock, s, Drained(sock[s], Tail(sock[s].pending)))
        /\ fds' = Put(fds, p, Plus(fds[p], Head(sock[s].pending)))
    BY <1>3 DEF Put, Drained, Popped, Plus
  <2>2. Sound(tcb, Put(sock, s, Drained(sock[s], Tail(sock[s].pending))), with, log, dropped,
              Put(fds, p, Plus(fds[p], Head(sock[s].pending))), call, on, incs)
    BY <1>3, AcceptStep DEF IInv
  <2>3. Sound(tcb, sock', with, log, dropped, fds', call, on, incs)
    BY <2>1, <2>2
  <2>4. Sound(tcb, sock', with, log, dropped, fds', call', on', incs)
    BY <2>3, <1>2, <1>3, WaitsSound
  <2> QED
    BY <2>4, <1>1 DEF IInv
<1>4. CASE UNCHANGED <<sock, fds>> /\ (Waits(p, "accept", s) \/ Waits(p, "user", NoSock))
  <2>1. Sound(tcb, sock, with, log, dropped, fds, call', on', incs)
    BY <1>2, <1>4, WaitsSound DEF IInv
  <2> QED
    BY <2>1, <1>1, <1>4 DEF IInv
<1> QED
  BY <1>3, <1>4 DEF Accept

\* sock_connect gives up: the socket is as new.
Renewed(k) == [k EXCEPT !.state = "NEW", !.tcb = NoTcb]

LEMMA RenewedFacts ==
    ASSUME NEW k \in SockRec
    PROVE  /\ Renewed(k) \in SockRec /\ Renewed(k).state = "NEW"
           /\ Renewed(k).refcount = k.refcount /\ Renewed(k).backlog = k.backlog
           /\ Renewed(k).pending = k.pending /\ Renewed(k).rx = k.rx
<1>1. "NEW" \in SockStates
  BY DEF SockStates
<1> QED
  BY <1>1 DEF Renewed, SockRec

LEMMA RenewStep ==
    ASSUME NEW T, NEW K, NEW W, NEW L, NEW D, NEW F, NEW C, NEW O, NEW I,
           Sound(T, K, W, L, D, F, C, O, I),
           NEW s \in Socks, K[s].state = "CONNECTING",
           \A p \in Procs : C[p] = "connect" => O[p] # s
    PROVE  Sound(T, Put(K, s, Renewed(K[s])), W, L, D, F, C, O, I)
<1> DEFINE k == Renewed(K[s])
           J == Put(K, s, k)
<1>1. NetTyped(T, K, W, L, D) /\ AppTyped(F, C, O, I) /\ Bounded(K) /\ Counted(K, F)
      /\ Queued(K, F) /\ Waiting(K, F, C, O) /\ Listening(T, K) /\ Peering(T, I)
      /\ Streams(T, K, W, L, D)
  BY DEF Sound
<1>2. K \in [Socks -> SockRec] /\ K[s] \in SockRec
  BY <1>1 DEF NetTyped
<1>3. /\ k \in SockRec /\ k.state = "NEW" /\ k.refcount = K[s].refcount
      /\ k.backlog = K[s].backlog /\ k.pending = K[s].pending /\ k.rx = K[s].rx
  BY <1>2, RenewedFacts
<1>4. J \in [Socks -> SockRec] /\ J[s] = k /\ \A r \in Socks : r # s => J[r] = K[r]
  BY <1>2, <1>3, PutSock
<1> HIDE DEF k, J
<1>5. NetTyped(T, J, W, L, D)
  BY <1>1, <1>4 DEF NetTyped
<1>6. Bounded(J)
  <2>1. J[s].refcount # 0
    BY <1>1, <1>3, <1>4 DEF Bounded
  <2> QED
    BY <2>1, <1>1, <1>3, <1>4 DEF Bounded
<1>7. Counted(J, F)
  BY <1>1, <1>3, <1>4 DEF Counted
<1>8. \A r, c \in Socks : \A i \in Nat : InRing(J, r, i, c) <=> InRing(K, r, i, c)
  BY <1>3, <1>4 DEF InRing
<1>9. Queued(J, F)
  <2> SUFFICES ASSUME NEW r \in Socks, NEW c \in Socks, NEW i \in Nat, InRing(J, r, i, c)
               PROVE  /\ J[c].state = "CONNECTED" /\ J[c].refcount = 1 /\ Holders(F, c) = {}
                      /\ \A x \in Socks : \A j \in Nat : InRing(J, x, j, c) => x = r /\ j = i
    BY DEF Queued
  <2>1. /\ K[c].state = "CONNECTED" /\ K[c].refcount = 1 /\ Holders(F, c) = {}
        /\ \A x \in Socks : \A j \in Nat : InRing(K, x, j, c) => x = r /\ j = i
    BY <1>1, <1>8 DEF Queued
  <2>2. J[c] = K[c]
    BY <2>1, <1>4
  <2> QED
    BY <2>1, <2>2, <1>8
<1>10. Waiting(J, F, C, O)
  <2> SUFFICES ASSUME NEW p \in Procs, C[p] = "connect"
               PROVE  J[O[p]] = K[O[p]]
    BY <1>1 DEF Waiting
  <2>1. O[p] \in Socks /\ O[p] # s
    BY <1>1 DEF Waiting, AppTyped
  <2> QED
    BY <2>1, <1>4
<1>11. Listening(T, J)
  BY <1>1, <1>4 DEF Listening
<1>12. Streams(T, J, W, L, D)
  <2> SUFFICES ASSUME NEW r \in Socks, J[r].state # "LISTEN"
               PROVE  /\ Ordered(L[r])
                      /\ J[r].state = "CONNECTED" /\ r \notin D => Whole(L[r], W[r])
                      /\ \A u \in Tcbs : Connection(T[u]) /\ T[u].user_data = r =>
                            Fed(T[u], r, J[r], W[r], L[r], D)
    BY DEF Streams
  <2>1. CASE r # s
    BY <2>1, <1>1, <1>4 DEF Streams
  <2>2. CASE r = s
    BY <2>2, <1>1, <1>3, <1>4 DEF Streams, Fed
  <2> QED
    BY <2>1, <2>2
<1> QED
  BY <1>1, <1>5, <1>6, <1>7, <1>9, <1>10, <1>11, <1>12 DEF Sound, J, k

LEMMA ConnectResumeInv ==
    ASSUME IInv, NEW p \in Procs, ConnectResume(p)
    PROVE  IInv'
<1> DEFINE s == on[p]
<1>1. /\ call[p] = "connect" /\ Waits(p, "user", NoSock)
      /\ UNCHANGED <<tcb, with, log, dropped, fds, incs>>
      /\ sock' = IF sock[s].state = "CONNECTED" THEN sock
                 ELSE [sock EXCEPT ![s].state = "NEW", ![s].tcb = NoTcb]
  BY DEF ConnectResume, env
<1>2. AppTyped(fds, call, on, incs) /\ Waiting(sock, fds, call, on)
      /\ sock \in [Socks -> SockRec]
  BY DEF IInv, Sound, NetTyped
<1>3. /\ s \in Socks /\ sock[s].state \in {"CONNECTING", "CONNECTED"}
      /\ \A q \in Procs : call[q] = "connect" /\ on[q] = s => q = p
  BY <1>1, <1>2 DEF Waiting, AppTyped
<1>4. Sound(tcb, sock, with, log, dropped, fds, call', on', incs)
  BY <1>1, WaitsSound DEF IInv
<1>5. CASE sock[s].state = "CONNECTED"
  BY <1>1, <1>4, <1>5 DEF IInv
<1>6. CASE sock[s].state = "CONNECTING"
  <2>1. \A q \in Procs : call'[q] = "connect" => on'[q] # s
    BY <1>1, <1>2, <1>3 DEF Waits, AppTyped
  <2>2. sock[s] \in SockRec
    BY <1>2, <1>3
  <2>3. sock' = Put(sock, s, Renewed(sock[s]))
    <3>1. sock' = [sock EXCEPT ![s].state = "NEW", ![s].tcb = NoTcb]
      BY <1>1, <1>6
    <3> HIDE DEF s
    <3> QED
      BY <3>1, <2>2, <1>2, <1>3 DEF Put, Renewed, SockRec
  <2>4. Sound(tcb, Put(sock, s, Renewed(sock[s])), with, log, dropped, fds, call', on', incs)
    BY <1>3, <1>4, <1>6, <2>1, RenewStep
  <2> QED
    BY <2>3, <2>4, <1>1 DEF IInv
<1> QED
  BY <1>3, <1>5, <1>6

\* fork counts what the child holds too.
LEMMA ForkInv ==
    ASSUME IInv, NEW p \in Procs, NEW q \in Procs, Fork(p, q)
    PROVE  IInv'
<1>1. /\ call[q] = "user" /\ fds[q] = {} /\ p # q /\ fds' = [fds EXCEPT ![q] = fds[p]]
      /\ sock' = [s \in Socks |-> IF s \in fds[p] THEN [sock[s] EXCEPT !.refcount = @ + 1]
                                  ELSE sock[s]]
      /\ UNCHANGED <<tcb, with, log, dropped, call, on, incs>>
  BY DEF Fork, env
<1>2. NetTyped(tcb, sock, with, log, dropped) /\ AppTyped(fds, call, on, incs) /\ Bounded(sock)
      /\ Counted(sock, fds) /\ Queued(sock, fds) /\ Waiting(sock, fds, call, on)
      /\ Listening(tcb, sock) /\ Peering(tcb, incs) /\ Streams(tcb, sock, with, log, dropped)
  BY DEF IInv, Sound
<1>3. /\ sock \in [Socks -> SockRec] /\ \A s \in Socks : sock[s] \in SockRec
      /\ fds \in [Procs -> SUBSET Socks]
  BY <1>2 DEF NetTyped, AppTyped
<1>4. ASSUME NEW s \in Socks
      PROVE  /\ sock'[s] \in SockRec /\ sock'[s].state = sock[s].state
             /\ sock'[s].tcb = sock[s].tcb /\ sock'[s].backlog = sock[s].backlog
             /\ sock'[s].pending = sock[s].pending /\ sock'[s].rx = sock[s].rx
             /\ sock[s].refcount \in Nat
             /\ s \in fds[p] => sock'[s].refcount = sock[s].refcount + 1
             /\ s \notin fds[p] => sock'[s] = sock[s]
  <2>1. sock[s] \in SockRec
    BY <1>3
  <2>2. CASE s \in fds[p]
    <3>1. sock'[s] = [sock[s] EXCEPT !.refcount = @ + 1]
      BY <1>1, <2>2
    <3> QED
      BY <2>1, <2>2, <3>1 DEF SockRec
  <2>3. CASE s \notin fds[p]
    <3>1. sock'[s] = sock[s]
      BY <1>1, <2>3
    <3> QED
      BY <2>1, <2>3, <3>1 DEF SockRec
  <2> QED
    BY <2>2, <2>3
<1>5. sock' \in [Socks -> SockRec]
  <2>1. sock' = [s \in Socks |-> sock'[s]]
    BY <1>1
  <2> QED
    BY <2>1, <1>4
<1>6. fds' = Put(fds, q, fds[p]) /\ fds[p] \in SUBSET Socks
  BY <1>1, <1>3 DEF Put
<1>7. fds' \in [Procs -> SUBSET Socks]
  BY <1>3, <1>6 DEF Put
<1>8. ASSUME NEW s \in Socks
      PROVE  /\ s \in fds[p] => /\ Holders(fds', s) = Holders(fds, s) \cup {q}
                                /\ q \notin Holders(fds, s) /\ p \in Holders(fds, s)
             /\ s \notin fds[p] => Holders(fds', s) = Holders(fds, s)
  <2>1. q \notin Holders(fds, s)
    BY <1>1 DEF Holders
  <2>2. s \in fds[p] => Holders(fds', s) = Holders(fds, s) \cup {q}
    BY <1>3, <1>6, HoldersPut
  <2>3. s \notin fds[p] => Holders(fds', s) = Holders(fds, s) \ {q}
    BY <1>3, <1>6, HoldersPut
  <2> QED
    BY <2>1, <2>2, <2>3 DEF Holders
<1>9. Bounded(sock')
  <2> SUFFICES ASSUME NEW s \in Socks
               PROVE  /\ Len(sock'[s].rx) < SOCK_RX_BUF
                      /\ sock'[s].refcount = 0 <=> sock'[s].state = "FREE"
                      /\ Len(sock'[s].pending) <= sock'[s].backlog
    BY DEF Bounded
  <2>1. CASE s \in fds[p]
    <3>1. sock[s].refcount # 0
      BY <2>1, <1>2, <1>8, FreeNotHeld
    <3> QED
      BY <2>1, <3>1, <1>2, <1>4 DEF Bounded
  <2>2. CASE s \notin fds[p]
    BY <2>2, <1>2, <1>4 DEF Bounded
  <2> QED
    BY <2>1, <2>2
<1>10. Counted(sock', fds')
  <2> SUFFICES ASSUME NEW s \in Socks, Holders(fds', s) # {}
               PROVE  sock'[s].refcount = Cardinality(Holders(fds', s))
    BY DEF Counted
  <2>1. CASE s \in fds[p]
    <3>1. Cardinality(Holders(fds, s) \cup {q}) = Cardinality(Holders(fds, s)) + 1
      BY <2>1, <1>8, HoldersFinite, FS_AddElement
    <3>2. sock[s].refcount = Cardinality(Holders(fds, s))
      BY <2>1, <1>2, <1>8 DEF Counted
    <3> QED
      BY <2>1, <3>1, <3>2, <1>4, <1>8
  <2>2. CASE s \notin fds[p]
    BY <2>2, <1>2, <1>4, <1>8 DEF Counted
  <2> QED
    BY <2>1, <2>2
<1>11. \A r, c \in Socks : \A i \in Nat : InRing(sock', r, i, c) <=> InRing(sock, r, i, c)
  BY <1>4 DEF InRing
<1>12. Queued(sock', fds')
  <2> SUFFICES ASSUME NEW r \in Socks, NEW c \in Socks, NEW i \in Nat, InRing(sock', r, i, c)
               PROVE  /\ sock'[c].state = "CONNECTED" /\ sock'[c].refcount = 1
                      /\ Holders(fds', c) = {}
                      /\ \A x \in Socks : \A j \in Nat : InRing(sock', x, j, c) => x = r /\ j = i
    BY DEF Queued
  <2>1. /\ sock[c].state = "CONNECTED" /\ sock[c].refcount = 1 /\ Holders(fds, c) = {}
        /\ \A x \in Socks : \A j \in Nat : InRing(sock, x, j, c) => x = r /\ j = i
    BY <1>2, <1>11 DEF Queued
  <2>2. c \notin fds[p]
    BY <2>1 DEF Holders
  <2> QED
    BY <2>1, <2>2, <1>4, <1>8, <1>11
<1>13. Waiting(sock', fds', call, on)
  <2> SUFFICES ASSUME NEW x \in Procs, call[x] = "connect"
               PROVE  on[x] \in fds'[x] /\ sock'[on[x]].state \in {"CONNECTING", "CONNECTED"}
    BY <1>2 DEF Waiting
  <2>1. /\ on[x] \in fds[x] /\ sock[on[x]].state \in {"CONNECTING", "CONNECTED"}
        /\ on[x] \in Socks /\ x # q
    BY <1>1, <1>2 DEF Waiting, AppTyped
  <2> QED
    BY <2>1, <1>1, <1>3, <1>4
<1>14. Listening(tcb, sock')
  BY <1>2, <1>4 DEF Listening
<1>15. Streams(tcb, sock', with, log, dropped)
  BY <1>2, <1>4 DEF Streams, Fed
<1>16. NetTyped(tcb, sock', with, log, dropped) /\ AppTyped(fds', call, on, incs)
  BY <1>2, <1>5, <1>7 DEF NetTyped, AppTyped
<1>17. Sound(tcb, sock', with, log, dropped, fds', call, on, incs)
  BY <1>2, <1>9, <1>10, <1>12, <1>13, <1>14, <1>15, <1>16 DEF Sound
<1> QED
  BY <1>1, <1>17 DEF IInv

\* A SYN makes a block that names the listener.
LEMMA RxListenInv ==
    ASSUME IInv, NEW q \in Peers, NEW seg, RxListen(q, seg), UNCHANGED <<fds, call, on>>
    PROVE  IInv'
<1>1. /\ Exact(tcb, q) = {} /\ incs' = [incs EXCEPT ![q] = @ + 1]
      /\ UNCHANGED <<sock, with, log, dropped>>
  BY DEF RxListen
<1>2. PICK l \in First(Listeners(tcb)), t \in Allocatable(tcb) :
         tcb' = [tcb EXCEPT ![t] = Opened("SYN_RCVD", q, incs[q] + 1, 1, tcb[l].user_data)]
  BY DEF RxListen
<1>3. NetTyped(tcb, sock, with, log, dropped) /\ AppTyped(fds, call, on, incs)
      /\ Listening(tcb, sock) /\ Peering(tcb, incs) /\ Streams(tcb, sock, with, log, dropped)
  BY DEF IInv, Sound
<1>4. l \in Tcbs /\ tcb[l].in_use = TRUE /\ tcb[l].state = "LISTEN" /\ t \in Tcbs /\ ~tcb[t].in_use
  BY <1>2, <1>3 DEF First, Listeners, Allocatable, NetTyped, TcbRec
<1> DEFINE s == tcb[l].user_data
           b == Opened("SYN_RCVD", q, incs[q] + 1, 1, s)
<1>5. s \in Socks /\ sock[s].state = "LISTEN"
  BY <1>3, <1>4 DEF Listening
<1>6. incs[q] \in Nat /\ incs' \in [Peers -> Nat] /\ incs'[q] = incs[q] + 1
      /\ \A r \in Peers : r # q => incs'[r] = incs[r]
  BY <1>1, <1>3 DEF AppTyped
<1>7. /\ b \in TcbRec /\ b.in_use = TRUE /\ b.state = "SYN_RCVD" /\ b.peer = q
      /\ b.rcv_nxt = 1 /\ b.user_data = s
  BY <1>5, <1>6 DEF Opened, TcbRec, TcpStates
<1>8. /\ tcb' \in [Tcbs -> TcbRec] /\ tcb'[t] = b
      /\ \A u \in Tcbs : u # t => tcb'[u] = tcb[u]
  <2>1. tcb' = Put(tcb, t, b) /\ tcb \in [Tcbs -> TcbRec]
    BY <1>2, <1>3 DEF Put, NetTyped
  <2> QED
    BY <2>1, <1>4, <1>7, PutTcb
<1> HIDE DEF b, s
<1>9. \A u \in Tcbs : Connection(tcb[u]) => tcb[u].peer # q
  BY <1>1, <1>3 DEF Exact, Connection
<1>10. Listening(tcb', sock)
  BY <1>3, <1>7, <1>8 DEF Listening
<1>11. Peering(tcb', incs')
  <2> SUFFICES ASSUME NEW u \in Tcbs, Connection(tcb'[u])
               PROVE  /\ tcb'[u].peer \in Peers /\ incs'[tcb'[u].peer] >= 1
                      /\ tcb'[u].state = "SYN_SENT" => tcb'[u].rcv_nxt = 0
                      /\ tcb'[u].state = "SYN_RCVD" => tcb'[u].rcv_nxt = 1
                      /\ \A v \in Tcbs : Connection(tcb'[v]) /\ tcb'[v].peer = tcb'[u].peer => v = u
    BY DEF Peering
  <2>1. CASE u = t
    BY <2>1, <1>6, <1>7, <1>8, <1>9
  <2>2. CASE u # t
    <3>1. tcb'[u] = tcb[u]
      BY <2>2, <1>8
    <3>2. tcb[u].peer \in Peers /\ tcb[u].peer # q /\ incs[tcb[u].peer] >= 1
      BY <3>1, <1>3, <1>9 DEF Peering
    <3> QED
      BY <2>2, <3>1, <3>2, <1>3, <1>6, <1>7, <1>8 DEF Peering
  <2> QED
    BY <2>1, <2>2
<1>12. Streams(tcb', sock, with, log, dropped)
  BY <1>3, <1>5, <1>7, <1>8 DEF Streams
<1>13. NetTyped(tcb', sock, with, log, dropped) /\ AppTyped(fds, call, on, incs')
  BY <1>3, <1>6, <1>8 DEF NetTyped, AppTyped
<1>14. Sound(tcb', sock, with, log, dropped, fds, call, on, incs')
  BY <1>10, <1>11, <1>12, <1>13 DEF IInv, Sound
<1> QED
  BY <1>1, <1>14 DEF IInv

Opens(k, n, t) == [k EXCEPT !.state = "LISTEN", !.backlog = n, !.pending = <<>>, !.tcb = t]

LEMMA OpensFacts ==
    ASSUME NEW k \in SockRec, NEW n \in Nat, NEW t \in Tcbs
    PROVE  /\ Opens(k, n, t) \in SockRec /\ Opens(k, n, t).state = "LISTEN"
           /\ Opens(k, n, t).backlog = n /\ Opens(k, n, t).pending = <<>>
           /\ Opens(k, n, t).tcb = t /\ Opens(k, n, t).refcount = k.refcount
           /\ Opens(k, n, t).rx = k.rx
<1>1. "LISTEN" \in SockStates /\ <<>> \in Seq(Socks)
  BY DEF SockStates
<1> QED
  BY <1>1 DEF Opens, SockRec

LEMMA ListenInv ==
    ASSUME IInv, NEW p \in Procs, NEW s \in Socks, NEW n \in Backlogs, Listen(p, s, n)
    PROVE  IInv'
<1>1. sock[s].state = "NEW" /\ UNCHANGED <<fds, call, on, incs, with, log, dropped>>
  BY DEF Listen, app, env
<1>2. PICK t \in Allocatable(tcb) :
         /\ tcb' = [tcb EXCEPT ![t] = Opened("LISTEN", NoPeer, 0, 0, s)]
         /\ sock' = [sock EXCEPT ![s].state = "LISTEN", ![s].backlog = n,
                                 ![s].pending = <<>>, ![s].tcb = t]
  BY DEF Listen
<1>3. NetTyped(tcb, sock, with, log, dropped) /\ AppTyped(fds, call, on, incs) /\ Bounded(sock)
      /\ Counted(sock, fds) /\ Queued(sock, fds) /\ Waiting(sock, fds, call, on)
      /\ Listening(tcb, sock) /\ Peering(tcb, incs) /\ Streams(tcb, sock, with, log, dropped)
  BY DEF IInv, Sound
<1>4. /\ tcb \in [Tcbs -> TcbRec] /\ sock \in [Socks -> SockRec] /\ sock[s] \in SockRec
      /\ t \in Tcbs
  BY <1>3 DEF NetTyped, Allocatable
<1> DEFINE b == Opened("LISTEN", NoPeer, 0, 0, s)
           k == Opens(sock[s], n, t)
<1>5. b \in TcbRec /\ b.in_use = TRUE /\ b.state = "LISTEN" /\ b.user_data = s /\ ~Connection(b)
  BY DEF Opened, TcbRec, TcpStates, Connection, NoPeer
<1>6. n \in Nat /\ n >= 1
  BY SockAssumption
<1>7. /\ k \in SockRec /\ k.state = "LISTEN" /\ k.backlog = n /\ k.pending = <<>> /\ k.tcb = t
      /\ k.refcount = sock[s].refcount /\ k.rx = sock[s].rx
  BY <1>4, <1>6, OpensFacts
<1>8. sock' = Put(sock, s, k)
  BY <1>2, <1>4 DEF Put, Opens, SockRec
<1>9. tcb' = Put(tcb, t, b)
  BY <1>2 DEF Put
<1> HIDE DEF b, k
<1>10. /\ tcb' \in [Tcbs -> TcbRec] /\ tcb'[t] = b
       /\ \A u \in Tcbs : u # t => tcb'[u] = tcb[u]
  BY <1>4, <1>5, <1>9, PutTcb
<1>11. /\ sock' \in [Socks -> SockRec] /\ sock'[s] = k
       /\ \A r \in Socks : r # s => sock'[r] = sock[r]
  BY <1>4, <1>7, <1>8, PutSock
<1>12. Bounded(sock')
  <2>1. sock'[s].refcount # 0 /\ Len(sock'[s].rx) < SOCK_RX_BUF
    BY <1>1, <1>3, <1>7, <1>11 DEF Bounded
  <2>2. Len(sock'[s].pending) <= sock'[s].backlog
    <3>1. Len(<<>>) = 0
      OBVIOUS
    <3> QED
      BY <3>1, <1>6, <1>7, <1>11
  <2> QED
    BY <2>1, <2>2, <1>3, <1>7, <1>11 DEF Bounded
<1>13. Counted(sock', fds)
  BY <1>3, <1>7, <1>11 DEF Counted
<1>14. \A r, c \in Socks : \A i \in Nat : InRing(sock', r, i, c) => InRing(sock, r, i, c) /\ r # s
  <2>1. Len(<<>>) = 0
    OBVIOUS
  <2>2. \A c \in Socks : \A i \in Nat : ~InRing(sock', s, i, c)
    BY <2>1, <1>7, <1>11 DEF InRing
  <2> QED
    BY <2>2, <1>11 DEF InRing
<1>15. Queued(sock', fds)
  <2> SUFFICES ASSUME NEW r \in Socks, NEW c \in Socks, NEW i \in Nat, InRing(sock', r, i, c)
               PROVE  /\ sock'[c].state = "CONNECTED" /\ sock'[c].refcount = 1
                      /\ Holders(fds, c) = {}
                      /\ \A x \in Socks : \A j \in Nat : InRing(sock', x, j, c) => x = r /\ j = i
    BY DEF Queued
  <2>1. /\ sock[c].state = "CONNECTED" /\ sock[c].refcount = 1 /\ Holders(fds, c) = {}
        /\ \A x \in Socks : \A j \in Nat : InRing(sock, x, j, c) => x = r /\ j = i
    BY <1>3, <1>14 DEF Queued
  <2>2. sock'[c] = sock[c]
    BY <2>1, <1>1, <1>11
  <2> QED
    BY <2>1, <2>2, <1>14
<1>16. Waiting(sock', fds, call, on)
  <2> SUFFICES ASSUME NEW x \in Procs, call[x] = "connect"
               PROVE  sock'[on[x]] = sock[on[x]]
    BY <1>3 DEF Waiting
  <2>1. on[x] \in Socks /\ on[x] # s
    BY <1>1, <1>3 DEF Waiting, AppTyped
  <2> QED
    BY <2>1, <1>11
<1>17. Listening(tcb', sock')
  <2> SUFFICES ASSUME NEW u \in Tcbs, tcb'[u].in_use = TRUE, tcb'[u].state = "LISTEN"
               PROVE  /\ tcb'[u].user_data \in Socks
                      /\ sock'[tcb'[u].user_data].state = "LISTEN"
                      /\ sock'[tcb'[u].user_data].tcb = u
    BY DEF Listening
  <2>1. CASE u = t
    BY <2>1, <1>5, <1>7, <1>10, <1>11
  <2>2. CASE u # t
    BY <2>2, <1>1, <1>3, <1>10, <1>11 DEF Listening
  <2> QED
    BY <2>1, <2>2
<1>18. \A u \in Tcbs : Connection(tcb'[u]) => tcb'[u] = tcb[u]
  BY <1>5, <1>10
<1>19. Peering(tcb', incs)
  BY <1>3, <1>18 DEF Peering
<1>20. Streams(tcb', sock', with, log, dropped)
  <2> SUFFICES ASSUME NEW r \in Socks, sock'[r].state # "LISTEN"
               PROVE  /\ Ordered(log[r])
                      /\ sock'[r].state = "CONNECTED" /\ r \notin dropped => Whole(log[r], with[r])
                      /\ \A u \in Tcbs : Connection(tcb'[u]) /\ tcb'[u].user_data = r =>
                            Fed(tcb'[u], r, sock'[r], with[r], log[r], dropped)
    BY DEF Streams
  <2>1. sock'[r] = sock[r]
    BY <1>7, <1>11
  <2> QED
    BY <2>1, <1>3, <1>18 DEF Streams
<1>21. NetTyped(tcb', sock', with, log, dropped)
  BY <1>3, <1>10, <1>11 DEF NetTyped
<1>22. Sound(tcb', sock', with, log, dropped, fds, call, on, incs)
  BY <1>3, <1>12, <1>13, <1>15, <1>16, <1>17, <1>19, <1>20, <1>21 DEF Sound
<1> QED
  BY <1>1, <1>22 DEF IInv

LEMMA ClaimedNet ==
    ASSUME NEW T, NEW K, NEW W, NEW L, NEW D, NEW s, NEW k, NEW q
    PROVE  Claimed(Net(T, K, W, L, D), s, k, q)
           = Net(T, Put(K, s, k), Put(W, s, q), Put(L, s, <<>>), Without(D, s))
<1> DEFINE N == Net(T, K, W, L, D)
<1>1. /\ N.tcb = T /\ N.sock = K /\ N.with = W /\ N.log = L /\ N.dropped = D /\ IsNet(N)
  BY NetFields
<1> HIDE DEF N
<1>2. Claimed(N, s, k, q) = [N EXCEPT !.sock[s] = k, !.with[s] = q, !.log[s] = <<>>,
                                      !.dropped = @ \ {s}]
  BY DEF Claimed
<1>3. Claimed(N, s, k, q) = Net(N.tcb, Put(N.sock, s, k), Put(N.with, s, q),
                                Put(N.log, s, <<>>), Without(N.dropped, s))
  BY <1>1, <1>2 DEF IsNet, Net, Put, Without
<1> QED
  BY <1>1, <1>3 DEF N

Virgin == [FreeSock EXCEPT !.state = "NEW", !.refcount = 1]

LEMMA VirginFacts ==
    /\ Virgin \in SockRec /\ Virgin.state = "NEW" /\ Virgin.refcount = 1
    /\ Len(Virgin.rx) = 0 /\ Len(Virgin.pending) = 0 /\ Virgin.backlog = 1
<1>1. <<>> \in Seq(Socks) /\ <<>> \in Seq(Bytes) /\ Len(<<>>) = 0
  OBVIOUS
<1> QED
  BY <1>1 DEF Virgin, FreeSock, SockRec, SockStates, NoTcb

\* A slot that nobody holds, names or queues changes hands.
LEMMA CreateStep ==
    ASSUME NEW T, NEW K, NEW W, NEW L, NEW D, NEW F, NEW C, NEW O, NEW I,
           Sound(T, K, W, L, D, F, C, O, I),
           NEW p \in Procs, NEW s \in Socks, K[s].state = "FREE"
    PROVE  Sound(T, Put(K, s, Virgin), Put(W, s, NoPeer), Put(L, s, <<>>), Without(D, s),
                 Put(F, p, Plus(F[p], s)), C, O, I)
<1> DEFINE J == Put(K, s, Virgin)
           V == Put(W, s, NoPeer)
           M == Put(L, s, <<>>)
           E == Without(D, s)
           X == Plus(F[p], s)
           G == Put(F, p, X)
<1>1. NetTyped(T, K, W, L, D) /\ AppTyped(F, C, O, I) /\ Bounded(K) /\ Counted(K, F)
      /\ Queued(K, F) /\ Waiting(K, F, C, O) /\ Listening(T, K) /\ Peering(T, I)
      /\ Streams(T, K, W, L, D)
  BY DEF Sound
<1>2. K \in [Socks -> SockRec] /\ F \in [Procs -> SUBSET Socks]
  BY <1>1 DEF NetTyped, AppTyped
<1>3. J \in [Socks -> SockRec] /\ J[s] = Virgin /\ \A r \in Socks : r # s => J[r] = K[r]
  BY <1>2, VirginFacts, PutSock
<1>4. X \in SUBSET Socks /\ s \in X /\ \A x \in Socks : x # s => (x \in X <=> x \in F[p])
  BY <1>2 DEF Plus
<1> HIDE DEF J, V, M, E, X, G
<1>5. G \in [Procs -> SUBSET Socks]
  BY <1>2, <1>4 DEF G, Put
<1>6. Holders(F, s) = {}
  BY <1>1, FreeNotHeld DEF Bounded
<1>7. Holders(G, s) = {p}
  BY <1>2, <1>4, <1>6, HoldersPut DEF G
<1>8. \A x \in Socks : x # s => Holders(G, x) = Holders(F, x)
  BY <1>2, <1>4 DEF Holders, G, Put
<1>9. Bounded(J)
  <2>1. SOCK_RX_BUF > 0
    BY SockAssumption
  <2> QED
    BY <2>1, <1>1, <1>3, VirginFacts DEF Bounded
<1>10. Counted(J, G)
  <2> SUFFICES ASSUME NEW r \in Socks, Holders(G, r) # {}
               PROVE  J[r].refcount = Cardinality(Holders(G, r))
    BY DEF Counted
  <2>1. CASE r = s
    BY <2>1, <1>3, <1>7, VirginFacts, FS_Singleton
  <2>2. CASE r # s
    BY <2>2, <1>1, <1>3, <1>8 DEF Counted
  <2> QED
    BY <2>1, <2>2
<1>11. \A r, c \in Socks : \A i \in Nat : InRing(J, r, i, c) <=> InRing(K, r, i, c)
  BY <1>3, VirginFacts DEF InRing
<1>12. Queued(J, G)
  <2> SUFFICES ASSUME NEW r \in Socks, NEW c \in Socks, NEW i \in Nat, InRing(J, r, i, c)
               PROVE  /\ J[c].state = "CONNECTED" /\ J[c].refcount = 1 /\ Holders(G, c) = {}
                      /\ \A x \in Socks : \A j \in Nat : InRing(J, x, j, c) => x = r /\ j = i
    BY DEF Queued
  <2>1. /\ K[c].state = "CONNECTED" /\ K[c].refcount = 1 /\ Holders(F, c) = {}
        /\ \A x \in Socks : \A j \in Nat : InRing(K, x, j, c) => x = r /\ j = i
    BY <1>1, <1>11 DEF Queued
  <2>2. c # s
    BY <2>1
  <2> QED
    BY <2>1, <2>2, <1>3, <1>8, <1>11
<1>13. Waiting(J, G, C, O)
  <2> SUFFICES ASSUME NEW x \in Procs, C[x] = "connect"
               PROVE  O[x] \in G[x] /\ J[O[x]].state \in {"CONNECTING", "CONNECTED"}
    BY <1>1 DEF Waiting
  <2>1. /\ O[x] \in F[x] /\ K[O[x]].state \in {"CONNECTING", "CONNECTED"} /\ O[x] \in Socks
    BY <1>1 DEF Waiting, AppTyped
  <2>2. O[x] # s
    BY <2>1
  <2>3. O[x] \in G[x]
    BY <2>1, <2>2, <1>2, <1>4 DEF G, Put
  <2> QED
    BY <2>1, <2>2, <2>3, <1>3
<1>14. Listening(T, J)
  BY <1>1, <1>3 DEF Listening
<1>15. /\ V \in [Socks -> Peers \cup {NoPeer}] /\ M \in [Socks -> Seq(Bytes)] /\ E \subseteq Socks
       /\ Streams(T, J, V, M, E)
  <2>1. Begins(T, K, T, J, s, NoPeer)
    BY <1>3, VirginFacts DEF Begins
  <2>2. NoPeer \in Peers \cup {NoPeer}
    OBVIOUS
  <2> QED
    BY <2>1, <2>2, <1>1, ClaimStreams DEF V, M, E
<1>16. NetTyped(T, J, V, M, E) /\ AppTyped(G, C, O, I)
  BY <1>1, <1>3, <1>5, <1>15 DEF NetTyped, AppTyped
<1> QED
  BY <1>1, <1>9, <1>10, <1>12, <1>13, <1>14, <1>15, <1>16 DEF Sound, J, V, M, E, X, G

LEMMA CreateInv ==
    ASSUME IInv, NEW p \in Procs, Create(p)
    PROVE  IInv'
<1>1. UNCHANGED <<call, on, incs>>
  BY DEF Create, env
<1>2. PICK s \in FreeSlots(Now) :
         /\ Become(Claimed(Now, s, [FreeSock EXCEPT !.state = "NEW", !.refcount = 1], NoPeer))
         /\ fds' = [fds EXCEPT ![p] = @ \cup {s}]
  BY DEF Create
<1>3. s \in Socks /\ sock[s].state = "FREE"
  BY <1>2 DEF FreeSlots, First, Now
<1>4. Now = Net(tcb, sock, with, log, dropped)
  BY DEF Now, Net
<1> DEFINE N == Net(tcb, Put(sock, s, Virgin), Put(with, s, NoPeer), Put(log, s, <<>>),
                    Without(dropped, s))
<1>5. Become(N)
  BY <1>2, <1>4, ClaimedNet DEF Virgin
<1>6. fds' = Put(fds, p, Plus(fds[p], s))
  BY <1>2 DEF Put, Plus
<1>7. Sound(tcb, Put(sock, s, Virgin), Put(with, s, NoPeer), Put(log, s, <<>>),
            Without(dropped, s), Put(fds, p, Plus(fds[p], s)), call, on, incs)
  BY <1>3, CreateStep DEF IInv
<1>8. /\ tcb' = tcb /\ sock' = Put(sock, s, Virgin) /\ with' = Put(with, s, NoPeer)
      /\ log' = Put(log, s, <<>>) /\ dropped' = Without(dropped, s)
  BY <1>5 DEF Become, Net
<1> QED
  BY <1>1, <1>6, <1>7, <1>8 DEF IInv

Dialing(k, t) == [k EXCEPT !.state = "CONNECTING", !.peer_closed = FALSE,
                           !.rx = <<>>, !.pending = <<>>, !.tcb = t]

LEMMA DialingFacts ==
    ASSUME NEW k \in SockRec, NEW t \in Tcbs
    PROVE  /\ Dialing(k, t) \in SockRec /\ Dialing(k, t).state = "CONNECTING"
           /\ Dialing(k, t).refcount = k.refcount /\ Dialing(k, t).backlog = k.backlog
           /\ k.backlog \in Nat
           /\ Len(Dialing(k, t).rx) = 0 /\ Len(Dialing(k, t).pending) = 0
<1>1. "CONNECTING" \in SockStates /\ <<>> \in Seq(Socks) /\ <<>> \in Seq(Bytes) /\ Len(<<>>) = 0
  BY DEF SockStates
<1> QED
  BY <1>1 DEF Dialing, SockRec

LEMMA ConnectInv ==
    ASSUME IInv, NEW p \in Procs, NEW s \in Socks, NEW q \in Peers, Connect(p, s, q)
    PROVE  IInv'
<1>1. /\ s \in fds[p] /\ sock[s].state = "NEW" /\ incs[q] = 0
      /\ incs' = [incs EXCEPT ![q] = 1] /\ fds' = fds
      /\ call' = [call EXCEPT ![p] = "connect"] /\ on' = [on EXCEPT ![p] = s]
  BY DEF Connect, Calls, Waits
<1>2. PICK t \in Allocatable(tcb) :
         Become([Claimed(Now, s, [sock[s] EXCEPT !.state = "CONNECTING", !.peer_closed = FALSE,
                                                 !.rx = <<>>, !.pending = <<>>, !.tcb = t], NoPeer)
                 EXCEPT !.tcb[t] = Opened("SYN_SENT", q, 1, 0, s)])
  BY DEF Connect
<1>3. NetTyped(tcb, sock, with, log, dropped) /\ AppTyped(fds, call, on, incs) /\ Bounded(sock)
      /\ Counted(sock, fds) /\ Queued(sock, fds) /\ Waiting(sock, fds, call, on)
      /\ Listening(tcb, sock) /\ Peering(tcb, incs) /\ Streams(tcb, sock, with, log, dropped)
  BY DEF IInv, Sound
<1>4. /\ tcb \in [Tcbs -> TcbRec] /\ sock \in [Socks -> SockRec] /\ sock[s] \in SockRec
      /\ t \in Tcbs
  BY <1>3 DEF NetTyped, Allocatable
<1> DEFINE b == Opened("SYN_SENT", q, 1, 0, s)
           k == Dialing(sock[s], t)
<1>5. /\ b \in TcbRec /\ b.in_use = TRUE /\ b.state = "SYN_SENT" /\ b.peer = q
      /\ b.rcv_nxt = 0 /\ b.user_data = s
  BY DEF Opened, TcbRec, TcpStates
<1>6. /\ k \in SockRec /\ k.state = "CONNECTING" /\ k.refcount = sock[s].refcount
      /\ k.backlog \in Nat /\ Len(k.rx) = 0 /\ Len(k.pending) = 0
  BY <1>4, DialingFacts
<1>7. /\ tcb' = Put(tcb, t, b) /\ sock' = Put(sock, s, k) /\ with' = Put(with, s, NoPeer)
      /\ log' = Put(log, s, <<>>) /\ dropped' = Without(dropped, s)
  <2>1. Now = Net(tcb, sock, with, log, dropped)
    BY DEF Now, Net
  <2>2. Become([Claimed(Now, s, k, NoPeer) EXCEPT !.tcb[t] = b])
    BY <1>2 DEF Dialing
  <2> HIDE DEF k, b
  <2>3. Claimed(Now, s, k, NoPeer) = Net(tcb, Put(sock, s, k), Put(with, s, NoPeer),
                                         Put(log, s, <<>>), Without(dropped, s))
    BY <2>1, ClaimedNet
  <2> DEFINE J == Put(sock, s, k)
             V == Put(with, s, NoPeer)
             M == Put(log, s, <<>>)
             E == Without(dropped, s)
  <2>4. Become([Net(tcb, J, V, M, E) EXCEPT !.tcb[t] = b])
    BY <2>2, <2>3
  <2> HIDE DEF J, V, M, E
  <2>5. tcb' = Put(tcb, t, b) /\ sock' = J /\ with' = V /\ log' = M /\ dropped' = E
    BY <2>4 DEF Become, Net, Put
  <2> QED
    BY <2>5 DEF J, V, M, E
<1> HIDE DEF b, k
<1>8. /\ tcb' \in [Tcbs -> TcbRec] /\ tcb'[t] = b
      /\ \A u \in Tcbs : u # t => tcb'[u] = tcb[u]
  BY <1>4, <1>5, <1>7, PutTcb
<1>9. /\ sock' \in [Socks -> SockRec] /\ sock'[s] = k
      /\ \A r \in Socks : r # s => sock'[r] = sock[r]
  BY <1>4, <1>6, <1>7, PutSock
<1>10. Bounded(sock')
  <2>1. SOCK_RX_BUF > 0
    BY SockAssumption
  <2>2. sock[s].refcount # 0
    BY <1>1, <1>3 DEF Bounded
  <2> QED
    BY <2>1, <2>2, <1>3, <1>6, <1>9 DEF Bounded
<1>11. Counted(sock', fds)
  BY <1>3, <1>6, <1>9 DEF Counted
<1>12. \A r, c \in Socks : \A i \in Nat : InRing(sock', r, i, c) <=> InRing(sock, r, i, c)
  BY <1>1, <1>6, <1>9 DEF InRing
<1>13. Queued(sock', fds)
  <2> SUFFICES ASSUME NEW r \in Socks, NEW c \in Socks, NEW i \in Nat, InRing(sock', r, i, c)
               PROVE  /\ sock'[c].state = "CONNECTED" /\ sock'[c].refcount = 1
                      /\ Holders(fds, c) = {}
                      /\ \A x \in Socks : \A j \in Nat : InRing(sock', x, j, c) => x = r /\ j = i
    BY DEF Queued
  <2>1. /\ sock[c].state = "CONNECTED" /\ sock[c].refcount = 1 /\ Holders(fds, c) = {}
        /\ \A x \in Socks : \A j \in Nat : InRing(sock, x, j, c) => x = r /\ j = i
    BY <1>3, <1>12 DEF Queued
  <2>2. sock'[c] = sock[c]
    BY <2>1, <1>1, <1>9
  <2> QED
    BY <2>1, <2>2, <1>12
<1>14. /\ call' \in [Procs -> {"user", "accept", "connect", "read"}]
       /\ on' \in [Procs -> Socks \cup {NoSock}] /\ on'[p] = s
       /\ \A x \in Procs : x # p => call'[x] = call[x] /\ on'[x] = on[x]
  BY <1>1, <1>3 DEF AppTyped
<1>15. \A x \in Procs : call[x] = "connect" =>
           /\ on[x] \in fds[x] /\ sock[on[x]].state \in {"CONNECTING", "CONNECTED"}
           /\ on[x] \in Socks /\ on[x] # s
  BY <1>1, <1>3 DEF Waiting, AppTyped
<1>16. Waiting(sock', fds, call', on')
  <2> SUFFICES ASSUME NEW x \in Procs, call'[x] = "connect"
               PROVE  /\ on'[x] \in fds[x] /\ sock'[on'[x]].state \in {"CONNECTING", "CONNECTED"}
                      /\ \A y \in Procs : call'[y] = "connect" /\ on'[y] = on'[x] => y = x
    BY DEF Waiting
  <2>1. CASE x = p
    BY <2>1, <1>1, <1>6, <1>9, <1>14, <1>15
  <2>2. CASE x # p
    <3>1. on'[x] = on[x] /\ call[x] = "connect"
      BY <2>2, <1>14
    <3>2. sock'[on[x]] = sock[on[x]] /\ on[x] \in fds[x] /\ on[x] # s
      BY <3>1, <1>9, <1>15
    <3> QED
      BY <2>2, <3>1, <3>2, <1>3, <1>14, <1>15 DEF Waiting
  <2> QED
    BY <2>1, <2>2
<1>17. Listening(tcb', sock')
  BY <1>1, <1>3, <1>5, <1>8, <1>9 DEF Listening
<1>18. /\ incs' \in [Peers -> Nat] /\ incs'[q] = 1 /\ \A r \in Peers : r # q => incs'[r] = incs[r]
  BY <1>1, <1>3 DEF AppTyped
<1>19. Peering(tcb', incs')
  <2>1. \A u \in Tcbs : Connection(tcb[u]) => tcb[u].peer # q
    BY <1>1, <1>3 DEF Peering
  <2> SUFFICES ASSUME NEW u \in Tcbs, Connection(tcb'[u])
               PROVE  /\ tcb'[u].peer \in Peers /\ incs'[tcb'[u].peer] >= 1
                      /\ tcb'[u].state = "SYN_SENT" => tcb'[u].rcv_nxt = 0
                      /\ tcb'[u].state = "SYN_RCVD" => tcb'[u].rcv_nxt = 1
                      /\ \A v \in Tcbs : Connection(tcb'[v]) /\ tcb'[v].peer = tcb'[u].peer => v = u
    BY DEF Peering
  <2>2. CASE u = t
    BY <2>1, <2>2, <1>5, <1>8, <1>18
  <2>3. CASE u # t
    <3>1. tcb'[u] = tcb[u]
      BY <2>3, <1>8
    <3>2. tcb[u].peer \in Peers /\ tcb[u].peer # q /\ incs[tcb[u].peer] >= 1
      BY <2>1, <3>1, <1>3 DEF Peering
    <3> QED
      BY <2>3, <3>1, <3>2, <1>3, <1>5, <1>8, <1>18 DEF Peering
  <2> QED
    BY <2>2, <2>3
<1>20. /\ with' \in [Socks -> Peers \cup {NoPeer}] /\ log' \in [Socks -> Seq(Bytes)]
       /\ dropped' \subseteq Socks /\ Streams(tcb', sock', with', log', dropped')
  <2> DEFINE U == tcb'
             J == sock'
  <2>1. Begins(tcb, sock, U, J, s, NoPeer)
    BY <1>5, <1>6, <1>8, <1>9 DEF Begins
  <2>2. NoPeer \in Peers \cup {NoPeer}
    OBVIOUS
  <2> HIDE DEF U, J
  <2>3. /\ Put(with, s, NoPeer) \in [Socks -> Peers \cup {NoPeer}]
        /\ Put(log, s, <<>>) \in [Socks -> Seq(Bytes)]
        /\ Without(dropped, s) \subseteq Socks
        /\ Streams(U, J, Put(with, s, NoPeer), Put(log, s, <<>>), Without(dropped, s))
    BY <2>1, <2>2, <1>3, ClaimStreams
  <2> QED
    BY <2>3, <1>7 DEF U, J
<1>21. NetTyped(tcb', sock', with', log', dropped') /\ AppTyped(fds, call', on', incs')
  BY <1>3, <1>8, <1>9, <1>14, <1>18, <1>20 DEF NetTyped, AppTyped
<1>22. Sound(tcb', sock', with', log', dropped', fds, call', on', incs')
  BY <1>10, <1>11, <1>13, <1>16, <1>17, <1>19, <1>20, <1>21 DEF Sound
<1> QED
  BY <1>1, <1>22 DEF IInv

Minus(S, x) == S \ {x}

LEMMA FreeSockFacts ==
    /\ FreeSock \in SockRec /\ FreeSock.state = "FREE" /\ FreeSock.refcount = 0
    /\ Len(FreeSock.rx) = 0 /\ Len(FreeSock.pending) = 0 /\ FreeSock.backlog = 1
<1>1. Len(<<>>) = 0
  OBVIOUS
<1> QED
  BY <1>1, FreeSockTyped DEF FreeSock

LEMMA MinusFacts ==
    ASSUME NEW F \in [Procs -> SUBSET Socks], NEW p \in Procs, NEW s \in Socks
    PROVE  /\ Put(F, p, Minus(F[p], s)) \in [Procs -> SUBSET Socks]
           /\ Holders(Put(F, p, Minus(F[p], s)), s) = Holders(F, s) \ {p}
           /\ \A x \in Socks : x # s => Holders(Put(F, p, Minus(F[p], s)), x) = Holders(F, x)
           /\ \A x \in Procs : x # p => Put(F, p, Minus(F[p], s))[x] = F[x]
BY DEF Minus, Put, Holders

\* The last descriptor of s goes, and no block listens for it any more.
LEMMA FreeStep ==
    ASSUME NEW T, NEW K, NEW W, NEW L, NEW D, NEW F, NEW C, NEW O, NEW I,
           Sound(T, K, W, L, D, F, C, O, I),
           NEW p \in Procs, NEW s \in Socks, Holders(F, s) = {p}, C[p] # "connect",
           \A t \in Tcbs : T[t].in_use = TRUE /\ T[t].state = "LISTEN" => T[t].user_data # s
    PROVE  Sound(T, Put(K, s, FreeSock), Put(W, s, NoPeer), Put(L, s, <<>>), Without(D, s),
                 Put(F, p, Minus(F[p], s)), C, O, I)
<1> DEFINE J == Put(K, s, FreeSock)
           V == Put(W, s, NoPeer)
           M == Put(L, s, <<>>)
           E == Without(D, s)
           G == Put(F, p, Minus(F[p], s))
<1>1. NetTyped(T, K, W, L, D) /\ AppTyped(F, C, O, I) /\ Bounded(K) /\ Counted(K, F)
      /\ Queued(K, F) /\ Waiting(K, F, C, O) /\ Listening(T, K) /\ Peering(T, I)
      /\ Streams(T, K, W, L, D)
  BY DEF Sound
<1>2. K \in [Socks -> SockRec] /\ F \in [Procs -> SUBSET Socks]
  BY <1>1 DEF NetTyped, AppTyped
<1>3. J \in [Socks -> SockRec] /\ J[s] = FreeSock /\ \A r \in Socks : r # s => J[r] = K[r]
  BY <1>2, FreeSockFacts, PutSock
<1>4. /\ G \in [Procs -> SUBSET Socks] /\ Holders(G, s) = {}
      /\ \A x \in Socks : x # s => Holders(G, x) = Holders(F, x)
      /\ \A x \in Procs : x # p => G[x] = F[x]
  <2>1. G \in [Procs -> SUBSET Socks] /\ \A x \in Procs : x # p => G[x] = F[x]
    BY <1>2, MinusFacts
  <2>2. Holders(G, s) = {}
    BY <1>2 DEF Holders, Put, Minus
  <2>3. \A x \in Socks : x # s => Holders(G, x) = Holders(F, x)
    BY <1>2 DEF Holders, Put, Minus
  <2> HIDE DEF G
  <2> QED
    BY <2>1, <2>2, <2>3
<1> HIDE DEF J, V, M, E, G
<1>5. Bounded(J)
  <2>1. SOCK_RX_BUF > 0
    BY SockAssumption
  <2> QED
    BY <2>1, <1>1, <1>3, FreeSockFacts DEF Bounded
<1>6. Counted(J, G)
  BY <1>1, <1>3, <1>4 DEF Counted
<1>7. \A r, c \in Socks : \A i \in Nat : InRing(J, r, i, c) => InRing(K, r, i, c)
  BY <1>3, FreeSockFacts DEF InRing
<1>8. Queued(J, G)
  <2> SUFFICES ASSUME NEW r \in Socks, NEW c \in Socks, NEW i \in Nat, InRing(J, r, i, c)
               PROVE  /\ J[c].state = "CONNECTED" /\ J[c].refcount = 1 /\ Holders(G, c) = {}
                      /\ \A x \in Socks : \A j \in Nat : InRing(J, x, j, c) => x = r /\ j = i
    BY DEF Queued
  <2>1. /\ K[c].state = "CONNECTED" /\ K[c].refcount = 1 /\ Holders(F, c) = {}
        /\ \A x \in Socks : \A j \in Nat : InRing(K, x, j, c) => x = r /\ j = i
    BY <1>1, <1>7 DEF Queued
  <2>2. c # s
    BY <2>1
  <2> QED
    BY <2>1, <2>2, <1>3, <1>4, <1>7
<1>9. Waiting(J, G, C, O)
  <2> SUFFICES ASSUME NEW x \in Procs, C[x] = "connect"
               PROVE  O[x] \in G[x] /\ J[O[x]].state \in {"CONNECTING", "CONNECTED"}
    BY <1>1 DEF Waiting
  <2>1. /\ O[x] \in F[x] /\ K[O[x]].state \in {"CONNECTING", "CONNECTED"} /\ O[x] \in Socks
        /\ x # p
    BY <1>1 DEF Waiting, AppTyped
  <2>2. O[x] # s
    BY <2>1 DEF Holders
  <2> QED
    BY <2>1, <2>2, <1>3, <1>4
<1>10. Listening(T, J)
  BY <1>1, <1>3 DEF Listening
<1>11. /\ V \in [Socks -> Peers \cup {NoPeer}] /\ M \in [Socks -> Seq(Bytes)] /\ E \subseteq Socks
       /\ Streams(T, J, V, M, E)
  <2>1. Begins(T, K, T, J, s, NoPeer)
    BY <1>3, FreeSockFacts DEF Begins
  <2>2. NoPeer \in Peers \cup {NoPeer}
    OBVIOUS
  <2> QED
    BY <2>1, <2>2, <1>1, ClaimStreams DEF V, M, E
<1>12. NetTyped(T, J, V, M, E) /\ AppTyped(G, C, O, I)
  BY <1>1, <1>3, <1>4, <1>11 DEF NetTyped, AppTyped
<1> QED
  BY <1>1, <1>5, <1>6, <1>8, <1>9, <1>10, <1>11, <1>12 DEF Sound, J, V, M, E, G

Dropped(k) == [k EXCEPT !.refcount = @ - 1]

LEMMA DroppedFacts ==
    ASSUME NEW j \in SockRec, j.refcount > 1
    PROVE  /\ Dropped(j) \in SockRec /\ Dropped(j).state = j.state
           /\ Dropped(j).refcount = j.refcount - 1
           /\ j.refcount \in Nat /\ Dropped(j).tcb = j.tcb
           /\ Dropped(j).backlog = j.backlog /\ Dropped(j).pending = j.pending
           /\ Dropped(j).rx = j.rx
<1> DEFINE n == j.refcount - 1
<1>1. j.refcount \in Nat
  BY DEF SockRec
<1>2. n \in Nat
  BY <1>1
<1>3. Dropped(j) = [j EXCEPT !.refcount = n]
  BY DEF Dropped
<1> HIDE DEF n
<1>4. [j EXCEPT !.refcount = n] \in SockRec
  BY <1>2 DEF SockRec
<1>5. [j EXCEPT !.refcount = n].refcount = n
  BY DEF SockRec
<1> QED
  BY <1>1, <1>3, <1>4, <1>5 DEF n, SockRec

\* One of several descriptors of s goes.
LEMMA DropStep ==
    ASSUME NEW T, NEW K, NEW W, NEW L, NEW D, NEW F, NEW C, NEW O, NEW I,
           Sound(T, K, W, L, D, F, C, O, I),
           NEW p \in Procs, NEW s \in Socks, s \in F[p], K[s].refcount > 1, C[p] # "connect"
    PROVE  Sound(T, Put(K, s, Dropped(K[s])), W, L, D, Put(F, p, Minus(F[p], s)), C, O, I)
<1> DEFINE k == Dropped(K[s])
           J == Put(K, s, k)
           G == Put(F, p, Minus(F[p], s))
<1>1. NetTyped(T, K, W, L, D) /\ AppTyped(F, C, O, I) /\ Bounded(K) /\ Counted(K, F)
      /\ Queued(K, F) /\ Waiting(K, F, C, O) /\ Listening(T, K) /\ Peering(T, I)
      /\ Streams(T, K, W, L, D)
  BY DEF Sound
<1>2. K \in [Socks -> SockRec] /\ K[s] \in SockRec /\ F \in [Procs -> SUBSET Socks]
  BY <1>1 DEF NetTyped, AppTyped
<1>3. /\ k \in SockRec /\ k.state = K[s].state /\ k.refcount = K[s].refcount - 1
      /\ K[s].refcount \in Nat /\ k.tcb = K[s].tcb
      /\ k.backlog = K[s].backlog /\ k.pending = K[s].pending /\ k.rx = K[s].rx
  BY <1>2, DroppedFacts
<1>4. J \in [Socks -> SockRec] /\ J[s] = k /\ \A r \in Socks : r # s => J[r] = K[r]
  BY <1>2, <1>3, PutSock
<1>5. /\ G \in [Procs -> SUBSET Socks] /\ Holders(G, s) = Holders(F, s) \ {p}
      /\ \A x \in Socks : x # s => Holders(G, x) = Holders(F, x)
      /\ \A x \in Procs : x # p => G[x] = F[x]
  BY <1>2, MinusFacts
<1> HIDE DEF k, J, G
<1>6. \A r \in Socks : /\ J[r].state = K[r].state /\ J[r].tcb = K[r].tcb /\ J[r].rx = K[r].rx
                       /\ J[r].backlog = K[r].backlog /\ J[r].pending = K[r].pending
  BY <1>3, <1>4
<1>7. p \in Holders(F, s)
  BY DEF Holders
<1>8. Bounded(J)
  <2>1. J[s].refcount # 0 /\ K[s].refcount # 0
    BY <1>3, <1>4
  <2> QED
    BY <2>1, <1>1, <1>4, <1>6 DEF Bounded
<1>9. Counted(J, G)
  <2>1. Cardinality(Holders(F, s) \ {p}) = Cardinality(Holders(F, s)) - 1
    BY <1>7, HoldersFinite, FS_RemoveElement
  <2>2. K[s].refcount = Cardinality(Holders(F, s))
    BY <1>1, <1>7 DEF Counted
  <2>3. J[s].refcount = Cardinality(Holders(G, s))
    BY <2>1, <2>2, <1>3, <1>4, <1>5
  <2> QED
    BY <2>3, <1>1, <1>4, <1>5 DEF Counted
<1>10. \A r, c \in Socks : \A i \in Nat : InRing(J, r, i, c) <=> InRing(K, r, i, c)
  BY <1>6 DEF InRing
<1>11. Queued(J, G)
  <2> SUFFICES ASSUME NEW r \in Socks, NEW c \in Socks, NEW i \in Nat, InRing(J, r, i, c)
               PROVE  /\ J[c].state = "CONNECTED" /\ J[c].refcount = 1 /\ Holders(G, c) = {}
                      /\ \A x \in Socks : \A j \in Nat : InRing(J, x, j, c) => x = r /\ j = i
    BY DEF Queued
  <2>1. /\ K[c].state = "CONNECTED" /\ K[c].refcount = 1 /\ Holders(F, c) = {}
        /\ \A x \in Socks : \A j \in Nat : InRing(K, x, j, c) => x = r /\ j = i
    BY <1>1, <1>10 DEF Queued
  <2>2. c # s
    BY <2>1, <1>7
  <2> QED
    BY <2>1, <2>2, <1>4, <1>5, <1>10
<1>12. Waiting(J, G, C, O)
  <2> SUFFICES ASSUME NEW x \in Procs, C[x] = "connect"
               PROVE  O[x] \in G[x] /\ J[O[x]].state \in {"CONNECTING", "CONNECTED"}
    BY <1>1 DEF Waiting
  <2>1. /\ O[x] \in F[x] /\ K[O[x]].state \in {"CONNECTING", "CONNECTED"} /\ O[x] \in Socks
        /\ x # p
    BY <1>1 DEF Waiting, AppTyped
  <2> QED
    BY <2>1, <1>5, <1>6
<1>13. Listening(T, J)
  BY <1>1, <1>6 DEF Listening
<1>14. Streams(T, J, W, L, D)
  BY <1>1, <1>6 DEF Streams, Fed
<1>15. NetTyped(T, J, W, L, D) /\ AppTyped(G, C, O, I)
  BY <1>1, <1>4, <1>5 DEF NetTyped, AppTyped
<1> QED
  BY <1>1, <1>8, <1>9, <1>11, <1>12, <1>13, <1>14, <1>15 DEF Sound, J, G, k

LEMMA ClosedByFacts ==
    ASSUME NEW b \in TcbRec
    PROVE  /\ ClosedBy(b) = b \/ (ClosedBy(b) \in TcbRec /\ Advances(b, ClosedBy(b)))
           /\ ~(ClosedBy(b).in_use = TRUE /\ ClosedBy(b).state = "LISTEN")
<1>1. b.in_use \in BOOLEAN /\ b.state \in TcpStates /\ b.rcv_nxt \in Nat
  BY DEF TcbRec
<1>2. CASE b.in_use /\ b.state \in {"LISTEN", "SYN_SENT"}
  BY <1>2, ReleasedTyped DEF ClosedBy, Advances
<1>3. CASE b.in_use /\ b.state = "ESTABLISHED"
  <2> DEFINE c == [b EXCEPT !.state = "FIN_WAIT_1"]
  <2>1. ClosedBy(b) = c
    BY <1>3 DEF ClosedBy
  <2>2. /\ c \in TcbRec /\ c.in_use = b.in_use /\ c.state = "FIN_WAIT_1" /\ c.peer = b.peer
        /\ c.user_data = b.user_data /\ c.rcv_nxt = b.rcv_nxt
    BY DEF TcbRec, TcpStates
  <2> HIDE DEF c
  <2> QED
    BY <2>1, <2>2, <1>1, <1>3 DEF Advances, Connection
<1>4. CASE b.in_use /\ b.state = "CLOSE_WAIT"
  <2> DEFINE c == [b EXCEPT !.state = "LAST_ACK"]
  <2>1. ClosedBy(b) = c
    BY <1>4 DEF ClosedBy
  <2>2. /\ c \in TcbRec /\ c.in_use = b.in_use /\ c.state = "LAST_ACK" /\ c.peer = b.peer
        /\ c.user_data = b.user_data /\ c.rcv_nxt = b.rcv_nxt
    BY DEF TcbRec, TcpStates
  <2> HIDE DEF c
  <2> QED
    BY <2>1, <2>2, <1>1, <1>4 DEF Advances, Connection
<1>5. CASE ~(b.in_use /\ b.state \in {"LISTEN", "SYN_SENT", "ESTABLISHED", "CLOSE_WAIT"})
  <2>1. ClosedBy(b) = b
    BY <1>5 DEF ClosedBy
  <2> QED
    BY <2>1, <1>1, <1>5
<1> QED
  BY <1>2, <1>3, <1>4, <1>5

LEMMA CloseInv ==
    ASSUME IInv, NEW p \in Procs, NEW s \in Socks, Close(p, s)
    PROVE  IInv'
<1>1. /\ call[p] = "user" /\ s \in fds[p] /\ fds' = [fds EXCEPT ![p] = @ \ {s}]
      /\ UNCHANGED <<call, on, incs>>
  BY DEF Close, Calls, env
<1>2. fds' = Put(fds, p, Minus(fds[p], s))
  BY <1>1 DEF Put, Minus
<1>3. NetTyped(tcb, sock, with, log, dropped) /\ AppTyped(fds, call, on, incs) /\ Bounded(sock)
      /\ Counted(sock, fds) /\ Listening(tcb, sock)
      /\ Sound(tcb, sock, with, log, dropped, fds, call, on, incs)
  BY DEF IInv, Sound
<1>4. tcb \in [Tcbs -> TcbRec] /\ sock \in [Socks -> SockRec] /\ sock[s] \in SockRec
  BY <1>3 DEF NetTyped
<1>5. sock[s].tcb \in Tcbs \cup {NoTcb} /\ sock[s].refcount \in Nat
  BY <1>4 DEF SockRec
<1>6. Now = Net(tcb, sock, with, log, dropped)
  BY DEF Now, Net
<1>7. CASE ~GivesUp(sock[s])
  <2>1. Become([Now EXCEPT !.sock[s].refcount = @ - 1])
    BY <1>7 DEF Close
  <2>2. UNCHANGED <<tcb, with, log, dropped>> /\ sock' = Put(sock, s, Dropped(sock[s]))
    BY <2>1, <1>6 DEF Become, Net, Put, Dropped
  <2>3. Sound(tcb, Put(sock, s, Dropped(sock[s])), with, log, dropped,
              Put(fds, p, Minus(fds[p], s)), call, on, incs)
    BY <1>1, <1>3, <1>5, <1>7, DropStep DEF GivesUp
  <2> QED
    BY <2>2, <2>3, <1>1, <1>2 DEF IInv
<1>8. CASE GivesUp(sock[s])
  <2> DEFINE U == [t \in Tcbs |-> IF t = sock[s].tcb THEN ClosedBy(tcb[t]) ELSE tcb[t]]
             J == Put(sock, s, FreeSock)
             V == Put(with, s, NoPeer)
             M == Put(log, s, <<>>)
             E == Without(dropped, s)
  <2>1. Become([Claimed(Now, s, FreeSock, NoPeer) EXCEPT
                   !.tcb = [t \in Tcbs |-> IF t = sock[s].tcb THEN ClosedBy(@[t]) ELSE @[t]]])
    BY <1>8 DEF Close
  <2>2. Claimed(Now, s, FreeSock, NoPeer) = Net(tcb, J, V, M, E)
    BY <1>6, ClaimedNet
  <2>3. tcb' = U /\ sock' = J /\ with' = V /\ log' = M /\ dropped' = E
    <3> HIDE DEF J, V, M, E
    <3> QED
      BY <2>1, <2>2 DEF Become, Net
  <2>4. Holders(fds, s) = {p}
    <3>1. p \in Holders(fds, s)
      BY <1>1 DEF Holders
    <3>2. Cardinality(Holders(fds, s)) <= 1
      BY <3>1, <1>3, <1>5, <1>8 DEF Counted, GivesUp
    <3>3. Cardinality(Holders(fds, s) \ {p}) = Cardinality(Holders(fds, s)) - 1
      BY <3>1, HoldersFinite, FS_RemoveElement
    <3>4. IsFiniteSet(Holders(fds, s) \ {p}) /\ Cardinality(Holders(fds, s) \ {p}) \in Nat
      BY HoldersFinite, FS_Subset, FS_CardinalityType
    <3>5. Holders(fds, s) \ {p} = {}
      BY <3>2, <3>3, <3>4, HoldersFinite, FS_EmptySet
    <3> QED
      BY <3>1, <3>5
  <2>5. Sound(U, sock, with, log, dropped, fds, call, on, incs)
    <3>1. CASE U = tcb
      BY <3>1, <1>3
    <3>2. CASE U # tcb
      <4> DEFINE t == sock[s].tcb
                 b == ClosedBy(tcb[t])
      <4>1. t \in Tcbs
        <5> SUFFICES ASSUME t \notin Tcbs PROVE FALSE
          OBVIOUS
        <5>1. U = [x \in Tcbs |-> tcb[x]]
          OBVIOUS
        <5> QED
          BY <5>1, <3>2, <1>4
      <4>2. U = Put(tcb, t, b)
        BY <4>1, <1>4 DEF Put
      <4>3. b # tcb[t]
        BY <4>2, <3>2, <4>1, <1>4 DEF Put
      <4>4. b \in TcbRec /\ Advances(tcb[t], b)
        BY <4>1, <4>3, <1>4, ClosedByFacts
      <4> HIDE DEF U, b, t
      <4>5. Sound(Put(tcb, t, b), sock, with, log, dropped, fds, call, on, incs)
        BY <4>1, <4>4, <1>3, TcbStep
      <4> QED
        BY <4>2, <4>5
    <3> QED
      BY <3>1, <3>2
  <2>6. ASSUME NEW u \in Tcbs, U[u].in_use = TRUE, U[u].state = "LISTEN"
        PROVE  U[u].user_data # s
    <3>1. u # sock[s].tcb
      <4> SUFFICES ASSUME u = sock[s].tcb PROVE FALSE
        OBVIOUS
      <4>1. U[u] = ClosedBy(tcb[u]) /\ tcb[u] \in TcbRec
        BY <1>4
      <4> QED
        BY <4>1, <2>6, ClosedByFacts
    <3>2. U[u] = tcb[u]
      BY <3>1
    <3> QED
      BY <3>1, <3>2, <2>6, <1>3 DEF Listening
  <2> HIDE DEF U
  <2>7. Sound(U, J, V, M, E, Put(fds, p, Minus(fds[p], s)), call, on, incs)
    BY <2>4, <2>5, <2>6, <1>1, FreeStep
  <2> QED
    BY <2>3, <2>7, <1>1, <1>2 DEF IInv
<1> QED
  BY <1>7, <1>8

-----------------------------------------------------------------------------
(* The theorems                                                            *)

LEMMA InitInv == Init => IInv
<1> SUFFICES ASSUME Init PROVE IInv
  OBVIOUS
<1>1. /\ tcb \in [Tcbs -> TcbRec] /\ sock \in [Socks -> SockRec]
      /\ \A t \in Tcbs : tcb[t] = Released
      /\ \A s \in Socks : sock[s] = FreeSock
  BY ReleasedTyped, FreeSockTyped DEF Init
<1>2. /\ with \in [Socks -> Peers \cup {NoPeer}] /\ log \in [Socks -> Seq(Bytes)]
      /\ dropped \subseteq Socks /\ \A s \in Socks : log[s] = <<>>
  BY DEF Init
<1>3. /\ fds \in [Procs -> SUBSET Socks] /\ \A p \in Procs : fds[p] = {} /\ call[p] = "user"
      /\ call \in [Procs -> {"user", "accept", "connect", "read"}]
      /\ on \in [Procs -> Socks \cup {NoSock}] /\ incs \in [Peers -> Nat]
  BY DEF Init
<1>4. NetTyped(tcb, sock, with, log, dropped) /\ AppTyped(fds, call, on, incs)
  BY <1>1, <1>2, <1>3 DEF NetTyped, AppTyped
<1>5. Bounded(sock)
  <2>1. SOCK_RX_BUF > 0
    BY SockAssumption
  <2> QED
    BY <2>1, <1>1, FreeSockFacts DEF Bounded
<1>6. Counted(sock, fds)
  <2>1. \A s \in Socks : Holders(fds, s) = {}
    BY <1>3 DEF Holders
  <2> QED
    BY <2>1 DEF Counted
<1>7. Queued(sock, fds)
  BY <1>1, FreeSockFacts DEF Queued, InRing
<1>8. Waiting(sock, fds, call, on)
  BY <1>3 DEF Waiting
<1>9. Listening(tcb, sock) /\ Peering(tcb, incs)
  BY <1>1, ReleasedTyped DEF Listening, Peering
<1>10. Streams(tcb, sock, with, log, dropped)
  <2>1. DOMAIN <<>> = {}
    OBVIOUS
  <2>2. \A s \in Socks : Ordered(log[s])
    BY <2>1, <1>2 DEF Ordered
  <2> QED
    BY <2>2, <1>1, FreeSockFacts, ReleasedTyped DEF Streams
<1> QED
  BY <1>4, <1>5, <1>6, <1>7, <1>8, <1>9, <1>10 DEF IInv, Sound

LEMMA NextInv == IInv /\ [Next]_vars => IInv'
<1> SUFFICES ASSUME IInv, [Next]_vars PROVE IInv'
  OBVIOUS
<1>1. ASSUME NEW q \in Peers, Rx(q) PROVE IInv'
  <2>1. UNCHANGED <<fds, call, on>>
    BY <1>1 DEF Rx, app
  <2>2. CASE \E seg \in Segments(q) : RxListen(q, seg)
    BY <2>1, <2>2, RxListenInv
  <2>3. CASE /\ \E t \in First(Exact(tcb, q)) : \E seg \in Segments(q) :
                   RxRst(t, seg) \/ RxSynSent(t, seg) \/ RxSynRcvd(t, seg)
                   \/ RxEstablished(t, seg) \/ RxClosing(t, seg)
             /\ UNCHANGED incs
    <3>1. PICK t \in First(Exact(tcb, q)), seg \in Segments(q) :
                 RxRst(t, seg) \/ RxSynSent(t, seg) \/ RxSynRcvd(t, seg)
                 \/ RxEstablished(t, seg) \/ RxClosing(t, seg)
      BY <2>3
    <3>2. UNCHANGED <<fds, call, on, incs>>
      BY <2>1, <2>3
    <3> QED
      BY <3>1, <3>2, RxConnInv
  <2> QED
    BY <1>1, <2>2, <2>3 DEF Rx
<1>2. ASSUME NEW q \in Peers, PeerOpen(q) PROVE IInv'
  BY <1>2 DEF PeerOpen, net, app, IInv
<1>3. ASSUME NEW p \in Procs, Create(p) PROVE IInv'
  BY <1>3, CreateInv
<1>4. ASSUME NEW p \in Procs, ConnectResume(p) PROVE IInv'
  BY <1>4, ConnectResumeInv
<1>5. ASSUME NEW p \in Procs, NEW q \in Procs, Fork(p, q) PROVE IInv'
  BY <1>5, ForkInv
<1>6. ASSUME NEW p \in Procs, NEW s \in Socks, Accept(p, s) PROVE IInv'
  BY <1>6, AcceptInv
<1>7. ASSUME NEW p \in Procs, NEW s \in Socks, Read(p, s) PROVE IInv'
  BY <1>7, ReadInv
<1>8. ASSUME NEW p \in Procs, NEW s \in Socks, Close(p, s) PROVE IInv'
  BY <1>8, CloseInv
<1>9. ASSUME NEW p \in Procs, NEW s \in Socks, NEW n \in Backlogs, Listen(p, s, n) PROVE IInv'
  BY <1>9, ListenInv
<1>10. ASSUME NEW p \in Procs, NEW s \in Socks, NEW q \in Peers, Connect(p, s, q) PROVE IInv'
  BY <1>10, ConnectInv
<1>11. ASSUME UNCHANGED vars PROVE IInv'
  BY <1>11 DEF vars, net, app, env, IInv
<1> QED
  BY <1>1, <1>2, <1>3, <1>4, <1>5, <1>6, <1>7, <1>8, <1>9, <1>10, <1>11 DEF Next

\* The tables of sockets, control blocks and descriptors stay sound under every
\* system call of every process and every segment that tcp_rx takes.
THEOREM Invariance == Spec => []IInv
<1> QED
  BY InitInv, NextInv, PTL DEF Spec

LEMMA TypeOfInv == IInv => TypeOK
<1> SUFFICES ASSUME IInv PROVE TypeOK
  OBVIOUS
<1>1. NetTyped(tcb, sock, with, log, dropped) /\ AppTyped(fds, call, on, incs) /\ Bounded(sock)
  BY DEF IInv, Sound
<1>2. \A t \in Tcbs : tcb[t] \in TcbRec
  BY <1>1 DEF NetTyped
<1>3. \A s \in Socks : sock[s] \in SockRec
  BY <1>1 DEF NetTyped
<1>4. \A t \in Tcbs : tcb[t].state \in TcpStates /\ tcb[t].user_data \in Socks \cup {NoSock}
  BY <1>2 DEF TcbRec
<1>5. \A s \in Socks : sock[s].state \in SockStates /\ sock[s].tcb \in Tcbs \cup {NoTcb}
  BY <1>3 DEF SockRec
<1> QED
  BY <1>1, <1>4, <1>5 DEF TypeOK, SockStates, NetTyped, AppTyped, Bounded

LEMMA AcceptOfInv == IInv => AcceptSound
<1> SUFFICES ASSUME IInv, NEW c \in Socks
             PROVE  /\ Cardinality(QueuedAt(c)) <= 1
                    /\ QueuedAt(c) # {} => /\ sock[c].state = "CONNECTED"
                                           /\ \A p \in Procs : c \notin fds[p]
                    /\ Len(sock[c].pending) <= sock[c].backlog
                    /\ LET holders == {p \in Procs : c \in fds[p]}
                       IN  holders # {} => sock[c].refcount = Cardinality(holders)
  BY DEF AcceptSound
<1>1. Queued(sock, fds) /\ Bounded(sock) /\ Counted(sock, fds)
  BY DEF IInv, Sound
<1>2. ASSUME NEW a \in QueuedAt(c)
      PROVE  a[1] \in Socks /\ a[2] \in Nat /\ InRing(sock, a[1], a[2], c) /\ a = <<a[1], a[2]>>
  BY SockAssumption DEF QueuedAt, InRing
<1>3. Cardinality(QueuedAt(c)) <= 1
  <2>1. CASE QueuedAt(c) = {}
    <3>1. Cardinality({}) = 0
      BY FS_EmptySet
    <3> QED
      BY <3>1, <2>1
  <2>2. CASE QueuedAt(c) # {}
    <3>1. PICK a : a \in QueuedAt(c)
      BY <2>2
    <3>2. ASSUME NEW b \in QueuedAt(c) PROVE b = a
      <4>1. b[1] = a[1] /\ b[2] = a[2]
        BY <3>1, <1>1, <1>2 DEF Queued
      <4> QED
        BY <4>1, <3>1, <1>2
    <3>3. QueuedAt(c) = {a}
      BY <3>1, <3>2
    <3>4. Cardinality({a}) = 1
      BY FS_Singleton
    <3> QED
      BY <3>3, <3>4
  <2> QED
    BY <2>1, <2>2
<1>4. ASSUME QueuedAt(c) # {}
      PROVE  sock[c].state = "CONNECTED" /\ \A p \in Procs : c \notin fds[p]
  <2>1. PICK a : a \in QueuedAt(c)
    BY <1>4
  <2>2. sock[c].state = "CONNECTED" /\ Holders(fds, c) = {}
    BY <2>1, <1>1, <1>2 DEF Queued
  <2> QED
    BY <2>2 DEF Holders
<1>5. Len(sock[c].pending) <= sock[c].backlog
  BY <1>1 DEF Bounded
<1>6. Holders(fds, c) # {} => sock[c].refcount = Cardinality(Holders(fds, c))
  BY <1>1 DEF Counted
<1> QED
  BY <1>3, <1>4, <1>5, <1>6 DEF Holders

LEMMA OrderOfInv == IInv => StreamInOrder
<1> SUFFICES ASSUME IInv, NEW s \in Socks, sock[s].state = "CONNECTED"
             PROVE  /\ \A i, j \in Own(s) : i < j => log[s][i][2] < log[s][j][2]
                    /\ s \notin dropped =>
                          \A i \in Own(s) : \A n \in 1 .. (log[s][i][2] - 1) :
                              \E j \in Own(s) : j < i /\ log[s][j][2] = n
  BY DEF StreamInOrder
<1>1. /\ Ordered(log[s]) /\ log[s] \in Seq(Bytes)
      /\ s \notin dropped => Whole(log[s], with[s])
  BY DEF IInv, Sound, Streams, NetTyped
<1>2. \A i, j \in Own(s) : i < j => log[s][i][2] < log[s][j][2]
  BY <1>1 DEF Ordered, Own
<1>3. ASSUME s \notin dropped, NEW i \in Own(s), NEW n \in 1 .. (log[s][i][2] - 1)
      PROVE  \E j \in Own(s) : j < i /\ log[s][j][2] = n
  <2>1. i \in DOMAIN log[s] /\ log[s][i][1] = with[s]
    BY DEF Own
  <2>2. log[s][i] \in Bytes
    BY <2>1, <1>1
  <2>3. n \in Nat /\ 1 <= n /\ n < log[s][i][2]
    BY <2>2 DEF Bytes
  <2>4. PICK j \in DOMAIN log[s] : j < i /\ log[s][j] = <<with[s], n>>
    BY <2>1, <2>3, <1>1, <1>3 DEF Whole
  <2>5. log[s][j][1] = with[s] /\ log[s][j][2] = n
    BY <2>4
  <2> QED
    BY <2>4, <2>5 DEF Own
<1> QED
  BY <1>2, <1>3

\* Every field of g_socks and g_tcbs keeps its type, the receive ring its spare
\* slot, and a slot is FREE exactly when nothing refers to it.
THEOREM TypeCorrect == Spec => []TypeOK
<1> QED
  BY Invariance, TypeOfInv, PTL

\* sock_accept never hands one connection to two processes: it is queued once, in
\* one ring, with no descriptor yet, and the descriptors of a socket are counted
\* through fork, accept and close.
THEOREM AcceptsSound == Spec => []AcceptSound
<1> QED
  BY Invariance, AcceptOfInv, PTL

\* A socket gets the bytes of its peer in their order, each once, and with no gap
\* while its ring has room, whatever the network repeats, reorders or loses.
THEOREM BytesInOrder == Spec => []StreamInOrder
<1> QED
  BY Invariance, OrderOfInv, PTL

=============================================================================
