-------------------------------- MODULE Tcp ---------------------------------
(***************************************************************************)
(* The TCP control blocks of kernel/tcp.c and what a call or an arriving   *)
(* segment does to one of them, without the callbacks, which Sock.tla      *)
(* adds.  A connection is known by its remote peer (address and port):     *)
(* each peer opens at most one connection, but old duplicates of its SYN   *)
(* may make the listener spawn further control blocks, told apart by their *)
(* initial sequence number (inc).  The peer's sequence numbers start at 0, *)
(* so its byte i has number i; segments carry one byte.                    *)
(***************************************************************************)
EXTENDS Integers, Sequences, FiniteSets

CONSTANTS
    TCP_MAX_TCBS,   \* control blocks
    Peers           \* remote ends

ASSUME TcpAssumption == TCP_MAX_TCBS \in Nat \ {0} /\ Peers # {}

Tcbs == 1 .. TCP_MAX_TCBS
NoTcb == 0
NoPeer == "none"

TcpStates == {"CLOSED", "LISTEN", "SYN_SENT", "SYN_RCVD", "ESTABLISHED",
              "FIN_WAIT_1", "FIN_WAIT_2", "CLOSE_WAIT", "LAST_ACK"}

\* tcb_release, and a block that was never used.  user_data is a socket index + 1.
Released == [in_use |-> FALSE, state |-> "CLOSED", peer |-> NoPeer, inc |-> 0,
             rcv_nxt |-> 0, user_data |-> 0]

\* tcb_alloc, as the set of the block it finds.
Allocatable(tcb) ==
    {t \in Tcbs : ~tcb[t].in_use /\ \A u \in Tcbs : u < t => tcb[u].in_use}

\* port_in_use for the listener's port: bound by the listener and by every
\* connection that it spawned.
ListenPort(tcb, Local) ==
    \E t \in Tcbs : tcb[t].in_use /\ tcb[t].state # "CLOSED"
                    /\ (tcb[t].state = "LISTEN" \/ tcb[t].peer \in Local)

\* find_tcb_for_seg: the block that a segment of peer p is for.
Exact(tcb, p) ==
    {t \in Tcbs : tcb[t].in_use /\ tcb[t].peer = p /\ tcb[t].state \notin {"LISTEN", "CLOSED"}}
Listeners(tcb) == {t \in Tcbs : tcb[t].in_use /\ tcb[t].state = "LISTEN"}
First(S) == {t \in S : \A u \in S : t <= u}

\* tcp_connect and spawn_conn_from_listener: the block after its SYN went out.
Opened(s, p, i, nxt, ud) ==
    [in_use |-> TRUE, state |-> s, peer |-> p, inc |-> i, rcv_nxt |-> nxt, user_data |-> ud]

\* tcp_send refuses outside of these two states.
CanSend(b) == b.in_use /\ b.state \in {"ESTABLISHED", "CLOSE_WAIT"}

\* tcp_close on the block b.
ClosedBy(b) ==
    CASE b.in_use /\ b.state \in {"LISTEN", "SYN_SENT"} -> Released
      [] b.in_use /\ b.state = "ESTABLISHED" -> [b EXCEPT !.state = "FIN_WAIT_1"]
      [] b.in_use /\ b.state = "CLOSE_WAIT" -> [b EXCEPT !.state = "LAST_ACK"]
      [] OTHER -> b

\* The segment acknowledges all that b has sent: ack == snd_nxt.
AcksAll(b, seg) == seg.all /\ seg.inc = b.inc

\* Mutant of InOrder: no test of the sequence number.
InOrderAny(b, seg) == seg.data > 0

\* The segment has a byte, and it is the one that is expected.
InOrder(b, seg) == seg.data > 0 /\ seg.data = b.rcv_nxt

=============================================================================
