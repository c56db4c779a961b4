-------------------------------- MODULE Sock --------------------------------
(***************************************************************************)
(* The socket layer over TCP (kernel/sock.c and the state machine of       *)
(* kernel/tcp.c): processes that create, share, connect, accept, read,     *)
(* write and close sockets, remote peers, and a network that delays,       *)
(* reorders, loses and repeats what the peers send.                        *)
(*                                                                         *)
(* net_lock is held from the entry of a call, or from a return of          *)
(* task_yield, to the next yield, and during the whole of tcp_rx with its  *)
(* callbacks: each of these is one step.                                   *)
(***************************************************************************)
EXTENDS Tcp

CONSTANTS
    SOCK_MAX,           \* sockets
    SOCK_BACKLOG_MAX,   \* slots of an accept ring, of which one is left empty
    SOCK_RX_BUF,        \* bytes of a receive ring, of which one is left empty
    Backlogs,           \* workload: the backlog that listen asks for
    Clients,            \* the peers that connect to our port; we connect to others
    Procs,              \* the processes that share sockets
    MaxOpen,            \* bound: a process with this many sockets creates no other
    MaxBytes,           \* bound: bytes that each peer sends before FIN
    MaxInc              \* bound: control blocks opened for one peer

ASSUME SockAssumption ==
    /\ SOCK_MAX \in Nat \ {0} /\ SOCK_BACKLOG_MAX \in Nat \ {0} /\ SOCK_RX_BUF \in Nat \ {0}
    /\ Backlogs \subseteq Nat \ {0} /\ Clients \subseteq Peers
    /\ IsFiniteSet(Procs)
    /\ MaxOpen \in Nat /\ MaxBytes \in [Peers -> Nat] /\ MaxInc \in Nat

VARIABLES
    tcb,        \* g_tcbs
    sock,       \* g_socks
    fds,        \* the sockets that each process holds a descriptor of
    call, on,   \* the call that a process waits in, and on which socket
    remote,     \* the peers: is the connection open there, and with which block
    incs,       \* control blocks opened for each peer so far
    with,       \* history: the peer that a socket has been connected to
    log,        \* history: the bytes put in the ring of a socket
    dropped     \* history: sockets whose ring had no room for a byte

net == <<tcb, sock, with, log, dropped>>
app == <<fds, call, on>>
env == <<remote, incs>>
vars == <<net, app, env>>

Socks == 1 .. SOCK_MAX
NoSock == 0

FreeSock == [state |-> "FREE", refcount |-> 0, tcb |-> NoTcb, backlog |-> 1,
             pending |-> <<>>, rx |-> <<>>, peer_closed |-> FALSE]

TypeOK ==
    /\ \A t \in Tcbs : tcb[t].state \in TcpStates /\ tcb[t].user_data \in Socks \cup {NoSock}
    /\ \A s \in Socks :
          /\ sock[s].state \in {"FREE", "NEW", "LISTEN", "CONNECTING", "CONNECTED"}
          /\ sock[s].tcb \in Tcbs \cup {NoTcb}
          /\ Len(sock[s].rx) < SOCK_RX_BUF
          /\ sock[s].refcount = 0 <=> sock[s].state = "FREE"
    /\ fds \in [Procs -> SUBSET Socks]
    /\ call \in [Procs -> {"user", "accept", "connect", "read"}]
    /\ on \in [Procs -> Socks \cup {NoSock}]
    /\ with \in [Socks -> Peers \cup {NoPeer}]

Init ==
    /\ tcb = [t \in Tcbs |-> Released]
    /\ sock = [s \in Socks |-> FreeSock]
    /\ fds = [p \in Procs |-> {}]
    /\ call = [p \in Procs |-> "user"] /\ on = [p \in Procs |-> NoSock]
    /\ remote = [q \in Peers |-> [open |-> FALSE, inc |-> 0]]
    /\ incs = [q \in Peers |-> 0]
    /\ with = [s \in Socks |-> NoPeer] /\ log = [s \in Socks |-> <<>>]
    /\ dropped = {}

-----------------------------------------------------------------------------
(* The accept ring                                                         *)

\* q_full.
Full(k) == Len(k.pending) + 1 >= SOCK_BACKLOG_MAX \/ Len(k.pending) >= k.backlog

\* The kernel's network state as one value, so that a handler is a composition.
Now == [tcb |-> tcb, sock |-> sock, with |-> with, log |-> log, dropped |-> dropped]

Become(N) ==
    /\ tcb' = N.tcb /\ sock' = N.sock
    /\ with' = N.with /\ log' = N.log /\ dropped' = N.dropped

\* sock_create and on_connect take the first free slot.
FreeSlots(N) == First({s \in Socks : N.sock[s].state = "FREE"})

\* The slot s becomes k, for a connection to q or for none yet.
Claimed(N, s, k, q) ==
    [N EXCEPT !.sock[s] = k, !.with[s] = q, !.log[s] = <<>>, !.dropped = @ \ {s}]

-----------------------------------------------------------------------------
(* The callbacks of TCP                                                    *)

\* sock_for_tcb: the socket that the user_data of block t names, or NoSock.
Owner(N, t) ==
    LET s == N.tcb[t].user_data
    IN  IF s # NoSock /\ N.sock[s].state # "FREE" THEN s ELSE NoSock

\* on_connect for block t.  With a full ring or no free slot the block stays, and
\* goes on naming the listener.
OnConnect(N, t) ==
    LET s == Owner(N, t)
        q == N.tcb[t].peer
    IN  IF s = NoSock THEN N
        ELSE IF N.sock[s].state = "CONNECTING"
        THEN [N EXCEPT !.sock[s].state = "CONNECTED", !.sock[s].tcb = t, !.with[s] = q]
        ELSE IF N.sock[s].state = "LISTEN" /\ ~Full(N.sock[s]) /\ FreeSlots(N) # {}
        THEN LET c == CHOOSE f \in FreeSlots(N) : TRUE
                 k == [FreeSock EXCEPT !.state = "CONNECTED", !.refcount = 1, !.tcb = t]
             IN  [Claimed(N, c, k, q) EXCEPT !.sock[s].pending = Append(@, c),
                                             !.tcb[t].user_data = c]
        ELSE N

\* Mutant of RxRoom: the slot that tells a full ring from an empty one is used.
RxRoomAll(k) == Len(k.rx) < SOCK_RX_BUF

\* The next write index of the ring does not meet the read index.
RxRoom(k) == Len(k.rx) + 1 < SOCK_RX_BUF

\* on_recv of one byte.
OnRecv(N, t, byte) ==
    LET s == Owner(N, t)
    IN  IF s = NoSock THEN N
        ELSE IF RxRoom(N.sock[s])
        THEN [N EXCEPT !.sock[s].rx = Append(@, byte), !.log[s] = Append(@, byte)]
        ELSE [N EXCEPT !.dropped = @ \cup {s}]

\* on_close.
OnClose(N, t) ==
    LET s == Owner(N, t)
    IN  IF s = NoSock THEN N ELSE [N EXCEPT !.sock[s].peer_closed = TRUE]

-----------------------------------------------------------------------------
(* Segments of the peers.  What a peer sends may arrive any number of      *)
(* times, in any order, or not at all; so all that it will ever send is in *)
(* the network from the moment it can send it, and stays there.            *)

Segment(kind, all, inc, data) == [kind |-> kind, all |-> all, inc |-> inc, data |-> data]

Segments(q) ==
    LET r == remote[q]
        Sent(c, S) == IF c THEN S ELSE {}
    IN  Sent(q \in Clients, {Segment("syn", FALSE, 0, 0)})
        \cup Sent(q \in Clients \/ r.open, {Segment("rst", FALSE, 0, 0)})
        \cup Sent(q \notin Clients /\ r.open, {Segment("synack", TRUE, r.inc, 0)})
        \cup Sent(r.open, {Segment("ack", a, r.inc, i) : a \in BOOLEAN, i \in 0 .. MaxBytes[q]}
                          \cup {Segment("fin", a, r.inc, 0) : a \in BOOLEAN})

\* A SYN that belongs to no connection, on the listener's port.
RxListen(q, seg) ==
    /\ seg.kind = "syn" /\ Exact(tcb, q) = {}
    /\ incs[q] < MaxInc
    /\ \E l \in First(Listeners(tcb)), t \in Allocatable(tcb) :
          tcb' = [tcb EXCEPT ![t] = Opened("SYN_RCVD", q, incs[q] + 1, 1, tcb[l].user_data)]
    /\ incs' = [incs EXCEPT ![q] = @ + 1]
    /\ UNCHANGED <<sock, with, log, dropped>>

Release(N, t) == [OnClose(N, t) EXCEPT !.tcb[t] = Released]

RxRst(t, seg) ==
    /\ seg.kind = "rst"
    /\ Become(Release(Now, t))

RxSynSent(t, seg) ==
    /\ tcb[t].state = "SYN_SENT" /\ seg.kind = "synack" /\ AcksAll(tcb[t], seg)
    /\ Become(OnConnect([Now EXCEPT !.tcb[t].state = "ESTABLISHED", !.tcb[t].rcv_nxt = 1], t))

\* The case TCP_ESTABLISHED of tcp_rx: first the byte, then FIN, whose sequence
\* number nobody looks at.
InEstablished(N, t, seg) ==
    LET M == IF InOrder(N.tcb[t], seg)
             THEN OnRecv([N EXCEPT !.tcb[t].rcv_nxt = @ + 1], t, <<N.tcb[t].peer, seg.data>>)
             ELSE N
    IN  IF seg.kind = "fin"
        THEN OnClose([M EXCEPT !.tcb[t].rcv_nxt = @ + 1, !.tcb[t].state = "CLOSE_WAIT"], t)
        ELSE M

\* The ACK that completes the handshake falls through to the next case.
RxSynRcvd(t, seg) ==
    /\ tcb[t].state = "SYN_RCVD" /\ seg.kind \in {"ack", "fin"} /\ AcksAll(tcb[t], seg)
    /\ Become(InEstablished(OnConnect([Now EXCEPT !.tcb[t].state = "ESTABLISHED"], t), t, seg))

\* Any other segment changes nothing.
RxEstablished(t, seg) ==
    /\ tcb[t].state = "ESTABLISHED" /\ (InOrder(tcb[t], seg) \/ seg.kind = "fin")
    /\ Become(InEstablished(Now, t, seg))

\* The closing states: bytes are not looked at any more.
RxClosing(t, seg) ==
    \/ /\ seg.kind = "fin" /\ tcb[t].state \in {"FIN_WAIT_1", "FIN_WAIT_2"}
       /\ Become(Release(Now, t))
    \/ /\ seg.kind = "ack" /\ tcb[t].state = "FIN_WAIT_1" /\ AcksAll(tcb[t], seg)
       /\ Become([Now EXCEPT !.tcb[t].state = "FIN_WAIT_2"])
    \/ /\ seg.kind \in {"ack", "fin"} /\ tcb[t].state = "LAST_ACK" /\ AcksAll(tcb[t], seg)
       /\ Become(Release(Now, t))

\* tcp_rx: the block of the connection, or for a SYN the listener.
Rx(q) ==
    /\ \/ \E seg \in Segments(q) : RxListen(q, seg)
       \/ /\ \E t \in First(Exact(tcb, q)) : \E seg \in Segments(q) :
                RxRst(t, seg) \/ RxSynSent(t, seg) \/ RxSynRcvd(t, seg)
                \/ RxEstablished(t, seg) \/ RxClosing(t, seg)
          /\ UNCHANGED incs
    /\ UNCHANGED <<app, remote>>

-----------------------------------------------------------------------------
(* The peers                                                               *)

\* The peer sees our SYN or SYN-ACK: the connection is open on its side.  A
\* client whose connection was reset may open another one from the same port.
PeerOpen(q) ==
    /\ \E t \in Exact(tcb, q) :
          /\ tcb[t].inc # remote[q].inc
          /\ remote' = [remote EXCEPT ![q] = [open |-> TRUE, inc |-> tcb[t].inc]]
    /\ UNCHANGED <<net, app, incs>>

-----------------------------------------------------------------------------
(* System calls                                                            *)

\* p does not wait and holds s.
Calls(p, s) == call[p] = "user" /\ s \in fds[p]

Waits(p, c, s) ==
    /\ call' = [call EXCEPT ![p] = c]
    /\ on' = [on EXCEPT ![p] = s]

Create(p) ==
    /\ call[p] = "user" /\ Cardinality(fds[p]) < MaxOpen
    /\ \E s \in FreeSlots(Now) :
          /\ Become(Claimed(Now, s, [FreeSock EXCEPT !.state = "NEW", !.refcount = 1], NoPeer))
          /\ fds' = [fds EXCEPT ![p] = @ \cup {s}]
    /\ UNCHANGED <<call, on, env>>

\* fork: sock_inc_ref for what p holds, in a process that holds nothing yet.
Fork(p, q) ==
    /\ call[p] = "user" /\ call[q] = "user" /\ fds[q] = {} /\ fds[p] # {} /\ p # q
    /\ sock' = [s \in Socks |-> IF s \in fds[p] THEN [sock[s] EXCEPT !.refcount = @ + 1]
                                ELSE sock[s]]
    /\ fds' = [fds EXCEPT ![q] = fds[p]]
    /\ UNCHANGED <<tcb, with, log, dropped, call, on, env>>

Listen(p, s, n) ==
    /\ Calls(p, s) /\ sock[s].state = "NEW"
    /\ ~ListenPort(tcb, Clients)
    /\ \E t \in Allocatable(tcb) :
          /\ tcb' = [tcb EXCEPT ![t] = Opened("LISTEN", NoPeer, 0, 0, s)]
          /\ sock' = [sock EXCEPT ![s].state = "LISTEN", ![s].backlog = n,
                                  ![s].pending = <<>>, ![s].tcb = t]
    /\ UNCHANGED <<app, env, with, log, dropped>>

\* Mutant of Popped: the entry stays in the ring.
PoppedNot(k) == k.pending

\* q_pop.
Popped(k) == Tail(k.pending)

\* sock_accept from its entry or from a return of task_yield.
Accept(p, s) ==
    /\ Calls(p, s) \/ (call[p] = "accept" /\ on[p] = s)
    /\ \/ /\ sock[s].state = "LISTEN" /\ sock[s].pending # <<>>
          /\ sock' = [sock EXCEPT ![s].pending = Popped(sock[s])]
          /\ fds' = [fds EXCEPT ![p] = @ \cup {Head(sock[s].pending)}]
          /\ Waits(p, "user", NoSock)
       \/ /\ sock[s].state = "LISTEN" /\ sock[s].pending = <<>> /\ call[p] = "user"
          /\ Waits(p, "accept", s)
          /\ UNCHANGED <<sock, fds>>
       \/ /\ sock[s].state # "LISTEN" /\ call[p] = "accept"
          /\ Waits(p, "user", NoSock)
          /\ UNCHANGED <<sock, fds>>
    /\ UNCHANGED <<tcb, env, with, log, dropped>>

\* sock_connect to its first task_yield, when ip_send took the SYN.  The local
\* port is a fresh one, so q is a peer of which nothing is known yet.
Connect(p, s, q) ==
    /\ Calls(p, s) /\ sock[s].state = "NEW"
    /\ q \notin Clients /\ incs[q] = 0
    /\ \E t \in Allocatable(tcb) :
          Become([Claimed(Now, s, [sock[s] EXCEPT !.state = "CONNECTING", !.peer_closed = FALSE,
                                                  !.rx = <<>>, !.pending = <<>>, !.tcb = t], NoPeer)
                  EXCEPT !.tcb[t] = Opened("SYN_SENT", q, 1, 0, s)])
    /\ incs' = [incs EXCEPT ![q] = 1]
    /\ Waits(p, "connect", s)
    /\ UNCHANGED <<fds, remote>>

\* sock_connect ends: connected, or the block was released, or 500 yields went by.
\* The block is not closed.
ConnectResume(p) ==
    LET s == on[p]
    IN  /\ call[p] = "connect"
        /\ sock' = IF sock[s].state = "CONNECTED" THEN sock
                   ELSE [sock EXCEPT ![s].state = "NEW", ![s].tcb = NoTcb]
        /\ Waits(p, "user", NoSock)
        /\ UNCHANGED <<tcb, with, log, dropped, fds, env>>

\* sock_read from its entry or from a return of task_yield: all that is queued.
Read(p, s) ==
    /\ Calls(p, s) \/ (call[p] = "read" /\ on[p] = s)
    /\ \/ /\ sock[s].state = "CONNECTED" /\ (sock[s].rx # <<>> \/ sock[s].peer_closed)
          /\ sock' = [sock EXCEPT ![s].rx = <<>>]
          /\ Waits(p, "user", NoSock)
       \/ /\ sock[s].state = "CONNECTED" /\ sock[s].rx = <<>> /\ ~sock[s].peer_closed
          /\ call[p] = "user"
          /\ Waits(p, "read", s)
          /\ UNCHANGED sock
       \/ /\ sock[s].state # "CONNECTED" /\ call[p] = "read"
          /\ Waits(p, "user", NoSock)
          /\ UNCHANGED sock
    /\ UNCHANGED <<tcb, with, log, dropped, fds, env>>

\* sock_write on s: tcp_send on whatever its block is now, to these peers.
WriteGoesTo(s) ==
    {tcb[t].peer : t \in {u \in Tcbs : sock[s].state = "CONNECTED" /\ u = sock[s].tcb
                                       /\ CanSend(tcb[u])}}

\* The last descriptor is closed.
GivesUp(k) == k.refcount <= 1

\* sock_close by p, whose descriptor is gone.
Close(p, s) ==
    /\ Calls(p, s)
    /\ fds' = [fds EXCEPT ![p] = @ \ {s}]
    /\ IF GivesUp(sock[s])
       THEN Become([Claimed(Now, s, FreeSock, NoPeer) EXCEPT
                       !.tcb = [t \in Tcbs |-> IF t = sock[s].tcb THEN ClosedBy(@[t]) ELSE @[t]]])
       ELSE Become([Now EXCEPT !.sock[s].refcount = @ - 1])
    /\ UNCHANGED <<call, on, env>>

-----------------------------------------------------------------------------
Next ==
    \/ \E q \in Peers :
          \/ Rx(q)
          \/ PeerOpen(q)
    \/ \E p \in Procs :
          \/ Create(p) \/ ConnectResume(p)
          \/ \E q \in Procs : Fork(p, q)
          \/ \E s \in Socks : \/ Accept(p, s) \/ Read(p, s) \/ Close(p, s)
                              \/ \E n \in Backlogs : Listen(p, s, n)
                              \/ \E q \in Peers : Connect(p, s, q)

Spec == Init /\ [][Next]_vars

-----------------------------------------------------------------------------
(* Properties                                                              *)

\* The listeners and places in their accept rings where socket c stands.
QueuedAt(c) ==
    {a \in Socks \X (1 .. SOCK_BACKLOG_MAX) :
        LET k == sock[a[1]]
        IN  k.state = "LISTEN" /\ a[2] <= Len(k.pending) /\ k.pending[a[2]] = c}

\* The accept rings and the descriptors: a queued connection is in one place of
\* one ring, is connected, and no process has it yet, so accept never hands the
\* same connection to two processes; a descriptor names a socket that exists and
\* counts it; a ring never holds more than its backlog.
AcceptSound ==
    \A c \in Socks :
        /\ Cardinality(QueuedAt(c)) <= 1
        /\ QueuedAt(c) # {} => sock[c].state = "CONNECTED" /\ \A p \in Procs : c \notin fds[p]
        /\ Len(sock[c].pending) <= sock[c].backlog
        /\ LET holders == {p \in Procs : c \in fds[p]}
           IN  holders # {} => sock[c].refcount = Cardinality(holders)

\* Where the bytes of its own peer stand in the history of socket s.
Own(s) == {i \in DOMAIN log[s] : log[s][i][1] = with[s]}

\* Whatever the network reorders and repeats, the bytes of its peer come to a
\* connected socket in their order, each at most once; and as long as its ring
\* always had room, none is missing before another.
StreamInOrder ==
    \A s \in Socks : sock[s].state = "CONNECTED" =>
        /\ \A i, j \in Own(s) : i < j => log[s][i][2] < log[s][j][2]
        /\ s \notin dropped =>
              \A i \in Own(s) : \A n \in 1 .. (log[s][i][2] - 1) :
                  \E j \in Own(s) : j < i /\ log[s][j][2] = n

\* "live underlying TCP control block" (sock.h): what is written to a socket goes
\* to the peer that the socket is connected to.
WritesReachPeer == \A s \in Socks : WriteGoesTo(s) \subseteq {with[s]}

=============================================================================
