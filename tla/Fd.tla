--------------------------------- MODULE Fd ---------------------------------
(***************************************************************************)
(* File descriptors and the objects behind them (kernel/syscall.c,         *)
(* kernel/task.c): pipes and ptys with a reference count per end, tmpfs    *)
(* files, sockets, and the inode slots of the 9p host filesystem, as open, *)
(* close, dup2, fork and exit count them.  Every call runs under the Big   *)
(* Kernel Lock and none of these yields in the middle, so each is one step.*)
(***************************************************************************)
EXTENDS Integers, FiniteSets

CONSTANTS
    Procs,          \* the processes that ever exist
    TASK_MAX_FDS,   \* entries of task.fds
    STD_FDS,        \* stdin, stdout and stderr: never returned by alloc_fd
    OBJ_MAX,        \* size of g_pipes, g_ptys, g_tmp, g_socks and g_inodes
    Workloads,      \* workload: sets of classes of objects that processes open
    Limits          \* workload: the max_fds values passed to SYS_SETLIMIT

ASSUME FdAssumption ==
    /\ IsFiniteSet(Procs) /\ Procs # {}
    /\ OBJ_MAX \in Nat \ {0} /\ STD_FDS \in Nat /\ TASK_MAX_FDS \in Nat
    /\ STD_FDS <= TASK_MAX_FDS
    /\ Workloads \subseteq SUBSET {"pipe", "pty", "tmpfs", "sock", "9p"}
    /\ Limits \subseteq Nat \ {0}

Fds  == 0 .. (TASK_MAX_FDS - 1)
Objs == 0 .. (OBJ_MAX - 1)

\* The kinds of descriptors that refer to an object, and the object's class.
Class == [pipe_r |-> "pipe", pipe_w |-> "pipe", pty_m |-> "pty", pty_s |-> "pty",
          tmpfs |-> "tmpfs", sock |-> "sock", inode |-> "9p"]
Kinds   == DOMAIN Class
Classes == {Class[k] : k \in Kinds}

\* The descriptors a two-ended object comes with.
Ends == [pipe |-> <<"pipe_r", "pipe_w">>, pty |-> <<"pty_m", "pty_s">>]

Free == [kind |-> "free", obj |-> 0]
Std  == [kind |-> "std", obj |-> 0]
Ref(k, o) == [kind |-> k, obj |-> o]

VARIABLES
    live,       \* processes that have been created and have not exited
    fds,        \* the descriptor table of each process
    refs,       \* the reference count of each object, per kind of descriptor
    used,       \* in_use, or state # SOCK_FREE
    max_fds,    \* the limit of each process, 0 for none
    opens       \* which of the workloads this behaviour has

vars == <<live, fds, refs, used, max_fds, opens>>

TypeOK ==
    /\ live    \subseteq Procs
    /\ fds     \in [Procs -> [Fds -> [kind : Kinds \cup {"free", "std"}, obj : Objs]]]
    /\ refs    \in [Kinds -> [Objs -> Nat]]
    /\ used    \in [Classes -> [Objs -> BOOLEAN]]
    /\ max_fds \in [Procs -> {0} \cup Limits]
    /\ opens   \in Workloads

\* One process exists: init, with its three standard descriptors.
Init ==
    /\ \E p \in Procs : live = {p}
    /\ fds     = [p \in Procs |-> [f \in Fds |-> IF f < STD_FDS THEN Std ELSE Free]]
    /\ refs    = [k \in Kinds |-> [o \in Objs |-> 0]]
    /\ used    = [c \in Classes |-> [o \in Objs |-> FALSE]]
    /\ max_fds = [p \in Procs |-> 0]
    /\ opens   \in Workloads

-----------------------------------------------------------------------------
(* Descriptors and references                                              *)

Least(i, S) == i \in S /\ \A j \in S : i <= j

\* alloc_fd, n times: the descriptors it may return, unless max_fds is reached.
FreeFds(p, n) ==
    LET live_fds == {f \in Fds : fds[p][f] # Free}
    IN  IF max_fds[p] # 0 /\ Cardinality(live_fds) + n > max_fds[p] THEN {}
        ELSE {f \in Fds : f >= STD_FDS /\ fds[p][f] = Free}

FreeObjs(c) == {o \in Objs : ~used[c][o]}

\* How many of the descriptors D (pairs of a process and an index) are <<k, o>>.
Count(D, k, o) == Cardinality({d \in D : fds[d[1]][d[2]] = Ref(k, o)})

\* The counters after the descriptors D, whose kinds are all in K, are
\* released one after the other.  Mutant: without the tests of pipe_close_*,
\* pty_close_*, tmpfs_close and sock_close against going below zero.
RefsUnguarded(D, K) ==
    [k \in Kinds |-> [o \in Objs |->
        IF k \in K /\ used[Class[k]][o] THEN refs[k][o] - Count(D, k, o) ELSE refs[k][o]]]

\* The code's form of it: zero is the floor.
RefsWithout(D, K) ==
    [k \in Kinds |-> [o \in Objs |->
        IF k \in K /\ used[Class[k]][o]
        THEN LET n == Count(D, k, o) IN IF n <= refs[k][o] THEN refs[k][o] - n ELSE 0
        ELSE refs[k][o]]]

\* Which objects are left in use: the last close frees a pipe, a pty or a
\* socket; any close frees an inode slot; a tmpfs file stays.
UsedWithout(D, K) ==
    LET left == RefsWithout(D, K)
        Closed(c, o) == \E k \in K : Class[k] = c /\ Count(D, k, o) > 0
        Held(c, o)   == \E k \in Kinds : Class[k] = c /\ left[k][o] > 0
    IN  [c \in Classes |-> [o \in Objs |->
            used[c][o] /\ (c = "tmpfs" \/ Held(c, o) \/ ~Closed(c, o))]]

\* Mutants of the sets below: the exit that forgot ptys (an sshd child then held
\* its end for ever), fork without ptys.
ExitNoPty == {"pipe_r", "pipe_w", "tmpfs", "sock"}
ForkNoPty == {"pipe_r", "pipe_w", "tmpfs", "sock"}

\* release_fd knows every kind; close_all_fds, at exit, knows no inode slots.
ReleaseKinds == Kinds
ExitKinds == Kinds \ {"inode"}

\* The kinds whose objects fork and dup2 count.
ForkKinds == {"pipe_r", "pipe_w", "tmpfs", "sock", "pty_m", "pty_s"}
DupKinds == {"pipe_r", "pipe_w", "tmpfs", "pty_m", "pty_s"}

-----------------------------------------------------------------------------
(* Opening                                                                 *)

\* SYS_PIPE and SYS_OPENPTY: two descriptors, then the object; any failure
\* gives back what was taken, and nothing has changed.
OpenPair(p, c) ==
    \E f \in FreeFds(p, 2), g \in FreeFds(p, 2), o \in FreeObjs(c) :
        /\ Least(f, FreeFds(p, 2))
        /\ Least(g, FreeFds(p, 2) \ {f})
        /\ Least(o, FreeObjs(c))
        /\ fds'  = [fds EXCEPT ![p][f] = Ref(Ends[c][1], o),
                               ![p][g] = Ref(Ends[c][2], o)]
        /\ refs' = [refs EXCEPT ![Ends[c][1]][o] = 1, ![Ends[c][2]][o] = 1]
        /\ used' = [used EXCEPT ![c][o] = TRUE]
        /\ UNCHANGED <<live, max_fds>>

\* SYS_OPEN, SYS_OPEN_W and SYS_OPEN_A of a tmpfs file (a new one or one that
\* exists), and SYS_SOCKET.
OpenCounted(p, k) ==
    \E f \in FreeFds(p, 1), o \in Objs :
        /\ Least(f, FreeFds(p, 1))
        /\ Least(o, FreeObjs(Class[k])) \/ (k = "tmpfs" /\ used["tmpfs"][o])
        /\ fds'  = [fds EXCEPT ![p][f] = Ref(k, o)]
        /\ refs' = [refs EXCEPT ![k][o] = IF used[Class[k]][o] THEN @ + 1 ELSE 1]
        /\ used' = [used EXCEPT ![Class[k]][o] = TRUE]
        /\ UNCHANGED <<live, max_fds>>

\* SYS_OPEN of a file on the 9p mount: an inode slot per descriptor.
OpenHost(p) ==
    \E f \in FreeFds(p, 1), o \in FreeObjs("9p") :
        /\ Least(f, FreeFds(p, 1))
        /\ Least(o, FreeObjs("9p"))
        /\ fds'  = [fds EXCEPT ![p][f] = Ref("inode", o)]
        /\ used' = [used EXCEPT !["9p"][o] = TRUE]
        /\ UNCHANGED <<live, refs, max_fds>>

\* SYS_OPEN_W and SYS_OPEN_A of a new tmpfs file when kmalloc fails: the entry
\* is given back with its count still at one.
OpenNoMem(p) ==
    \E o \in FreeObjs("tmpfs") :
        /\ FreeFds(p, 1) # {}
        /\ Least(o, FreeObjs("tmpfs"))
        /\ refs' = [refs EXCEPT !["tmpfs"][o] = 1]
        /\ UNCHANGED <<live, fds, used, max_fds>>

-----------------------------------------------------------------------------
(* Duplicating and closing                                                 *)

\* SYS_CLOSE refuses the standard descriptors.
Close(p, f) ==
    /\ f >= STD_FDS /\ fds[p][f] # Free
    /\ refs' = RefsWithout({<<p, f>>}, ReleaseKinds)
    /\ used' = UsedWithout({<<p, f>>}, ReleaseKinds)
    /\ fds'  = [fds EXCEPT ![p][f] = Free]
    /\ UNCHANGED <<live, max_fds>>

\* Mutant of Dup2: newfd is not released.
Dup2NoRelease(p, old, new) ==
    LET e == fds[p][old]
    IN  /\ e # Free
        /\ old # new
        /\ refs' = IF e.kind \in DupKinds /\ used[Class[e.kind]][e.obj]
                   THEN [refs EXCEPT ![e.kind][e.obj] = @ + 1] ELSE refs
        /\ fds'  = [fds EXCEPT ![p][new] = e]
        /\ UNCHANGED <<live, used, max_fds>>

\* SYS_DUP2: newfd is released, then overwritten, then the object is counted.
Dup2(p, old, new) ==
    LET e    == fds[p][old]
        left == RefsWithout({<<p, new>>}, ReleaseKinds)
    IN  /\ e # Free
        /\ old # new
        /\ used' = UsedWithout({<<p, new>>}, ReleaseKinds)
        /\ refs' = IF e.kind \in DupKinds /\ used'[Class[e.kind]][e.obj]
                   THEN [left EXCEPT ![e.kind][e.obj] = @ + 1] ELSE left
        /\ fds'  = [fds EXCEPT ![p][new] = e]
        /\ UNCHANGED <<live, max_fds>>

\* task_fork: the child gets a copy of the table, and the counted objects gain
\* a reference per copied descriptor.
Fork(p, child) ==
    LET D == {<<p, f>> : f \in Fds}
    IN  /\ child \notin live
        /\ live' = live \cup {child}
        /\ fds'  = [fds EXCEPT ![child] = fds[p]]
        /\ refs' = [k \in Kinds |-> [o \in Objs |->
                      IF k \in ForkKinds /\ used[Class[k]][o]
                      THEN refs[k][o] + Count(D, k, o) ELSE refs[k][o]]]
        /\ max_fds' = [max_fds EXCEPT ![child] = max_fds[p]]
        /\ UNCHANGED used

\* task_exit_current: close_all_fds.
Exit(p) ==
    LET D == {<<p, f>> : f \in Fds}
    IN  /\ live' = live \ {p}
        /\ refs' = RefsWithout(D, ExitKinds)
        /\ used' = UsedWithout(D, ExitKinds)
        /\ fds'  = [fds EXCEPT ![p] = [f \in Fds |-> Free]]
        /\ max_fds' = [max_fds EXCEPT ![p] = 0]

\* SYS_SETLIMIT: max_fds only tightens.
SetLimit(p, n) ==
    /\ max_fds[p] = 0 \/ n < max_fds[p]
    /\ max_fds' = [max_fds EXCEPT ![p] = n]
    /\ UNCHANGED <<live, fds, refs, used>>

-----------------------------------------------------------------------------
Next ==
    /\ UNCHANGED opens
    /\ \E p \in live :
           \/ \E c \in opens \cap {"pipe", "pty"} : OpenPair(p, c)
           \/ \E k \in opens \cap {"tmpfs", "sock"} : OpenCounted(p, k)
           \/ "9p" \in opens /\ OpenHost(p)
           \/ "tmpfs" \in opens /\ OpenNoMem(p)
           \/ \E f \in Fds : Close(p, f)
           \/ \E f, g \in Fds : Dup2(p, f, g)
           \/ \E q \in Procs : Fork(p, q)
           \/ Exit(p)
           \/ \E n \in Limits : SetLimit(p, n)

Spec == Init /\ [][Next]_vars

-----------------------------------------------------------------------------
(* Properties                                                              *)

AllFds == live \X Fds

\* The counters of pipes, ptys and tmpfs files agree with the descriptor tables
\* after any sequence of open, close, dup2, fork and exit, failing ones
\* included, and no descriptor refers to one that is not in use.
RefsExact ==
    \A k \in Kinds \ {"sock", "inode"}, o \in Objs :
        Count(AllFds, k, o) = IF used[Class[k]][o] THEN refs[k][o] ELSE 0

\* A pipe or a pty lives exactly as long as some descriptor refers to it: none
\* is pulled from under a reader, and none is left behind in a table of 24
\* pipes or 4 ptys.
PairLifetime ==
    \A c \in {"pipe", "pty"}, o \in Objs :
        used[c][o] <=> \E d \in AllFds : LET e == fds[d[1]][d[2]]
                                         IN  e \in {Ref(Ends[c][1], o), Ref(Ends[c][2], o)}

\* A socket in use is referred to by some descriptor: although dup2 does not
\* count sockets, no order of socket, dup2, fork, close and exit leaves one of
\* the 24 behind with nobody able to close it.
SockNotLeaked ==
    \A o \in Objs : used["sock"][o] => Count(AllFds, "sock", o) > 0

=============================================================================
