--------------------------------- MODULE Mem --------------------------------
(***************************************************************************)
(* The memory of processes: address spaces over physical pages, brk        *)
(* (kernel/syscall.c), file mappings (kernel/mmap.c), window surfaces that *)
(* a client shares with the window manager (kernel/wm.c), and what fork,   *)
(* exec and exit (kernel/task.c, kernel/elf.c) do to them and to the       *)
(* kernel heap.  Every operation runs under the BKL, or in a page fault on *)
(* the only CPU that runs user code, and the pools have locks of their     *)
(* own: one step each, with all of its failures and roll-backs.            *)
(***************************************************************************)
EXTENDS Kmalloc, Paging, Sequences

CONSTANTS
    Procs,          \* task slots; one of them is init
    HeapPages,      \* pages between USER_HEAP_START and USER_HEAP_MAX
    MapPages,       \* pages between USER_MMAP_START and USER_MMAP_MAX
    TASK_MMAP_MAX,  \* mappings of a process
    WM_MAX_WINDOWS, \* windows
    TASK_STACK_SZ,  \* units of a kernel stack
    WmUnits,        \* units of what wm.c allocates: its state, the list of the
                    \* pages of a window, a ring of events
    Buffers,        \* workload: units of the other things the kernel allocates
    MaxBuffers,     \* bound: of them at a time
    Caps,           \* workload: the values of max_rss_pages; 0 is no limit
    MaxCalls        \* bound: calls of fork, exec, setrlimit, brk, mmap and create

ASSUME MemAssumption ==
    /\ IsFiniteSet(Procs)
    /\ HeapPages \in Nat /\ MapPages \in Nat /\ TASK_MMAP_MAX \in Nat
    /\ TASK_STACK_SZ \in 1 .. (HeapUnits - 1) /\ WmUnits \in Nat \ {0}
    /\ Buffers \subseteq Nat \ {0} /\ MaxBuffers \in Nat
    /\ Caps \subseteq Nat /\ WM_MAX_WINDOWS \in Nat /\ MaxCalls \in Nat

VARIABLES
    hdr,        \* the kernel heap
    bufs,       \* kernel buffers but for stacks: block, units asked for, and whose
    used,       \* g_bitmap of pmm.c
    task,       \* the processes
    wm,         \* g_wm_owner, at most one
    win,        \* the table of windows
    lost,       \* history: pages whose last entry was overwritten
    torn,       \* history: surfaces that one side gave up under the other
    calls       \* history: how many of the calls that MaxCalls bounds were made

vars == <<hdr, bufs, used, task, wm, win, lost, torn, calls>>

Slots == 0 .. (WM_MAX_WINDOWS - 1)
Other == <<"other">>
State == <<"state">>
Forgotten == <<"forgotten">>
PageList(s) == <<"pages", s>>
Events(s) == <<"events", s>>

NoTask == [stack |-> NULL]
Alive(p) == task[p] # NoTask
Running(p) == Alive(p) /\ ~task[p].zombie

NoWindow == [state |-> "EMPTY"]
InUse(s) == win[s] # NoWindow
Open(s) == InUse(s) /\ win[s].state # "DESTROY_PENDING"
SurfaceOf(s) == Values(win[s].pages)

-----------------------------------------------------------------------------
(* init has been loaded; nobody else runs.                                 *)

Fresh(d, stack, cap, rss, opened) ==
    [stack |-> stack, zombie |-> FALSE, pd |-> d, brk |-> 0, mmaps |-> {}, mmap_brk |-> 0,
     opened |-> opened, cap |-> cap, rss |-> rss]

\* One of the calls that MaxCalls bounds.
Call == calls < MaxCalls /\ calls' = calls + 1

Init ==
    \E p \in Procs :
        /\ hdr = Taken(OneBlock, 0, TASK_STACK_SZ)
        /\ bufs = {}
        /\ task = [q \in Procs |-> IF q = p THEN Fresh(Loaded({}), 0, 0, 0, 0) ELSE NoTask]
        /\ used = Space(task[p].pd)
        /\ wm = {} /\ win = [s \in Slots |-> NoWindow]
        /\ lost = {} /\ torn = {} /\ calls = 0

-----------------------------------------------------------------------------
(* The kernel's buffers                                                    *)

Buffer(b, n, of) == [at |-> b, n |-> n, of |-> of]

KernelAlloc(n) ==
    /\ Cardinality({c \in bufs : c.of = Other}) < MaxBuffers
    /\ \E b \in FirstFit(hdr, n) :
          hdr' = Taken(hdr, b, n) /\ bufs' = bufs \cup {Buffer(b, n, Other)}
    /\ UNCHANGED <<used, task, wm, win, lost, torn, calls>>

KernelFree(c) ==
    /\ c.of = Other
    /\ hdr' = Freed(hdr, c.at)
    /\ bufs' = bufs \ {c}
    /\ UNCHANGED <<used, task, wm, win, lost, torn, calls>>

\* kfree of the blocks in S, one after the other; in any order the heap that is
\* left is the same.
FreedAll(h, S) ==
    LET at[a \in Nat] ==
            IF a = 0 THEN h
            ELSE IF a - 1 \in S THEN Freed(at[a - 1], a - 1) ELSE at[a - 1]
    IN  at[HeapUnits]

-----------------------------------------------------------------------------
(* Processes                                                               *)

\* task_fork: a kernel stack and a copy of the address space.  When the pages run
\* out in the middle of the copy, what there is of it is destroyed again.
Fork(p, q) ==
    /\ Call
    /\ Running(p) /\ ~Alive(q)
    /\ \E b \in FirstFit(hdr, TASK_STACK_SZ) :
          LET h    == Taken(hdr, b, TASK_STACK_SZ)
              want == Cardinality(Copied(task[p].pd))
              n    == IF Available(used) < want THEN Available(used) ELSE want
              c    == Clone(used, task[p].pd, n)
              u    == used \cup Values(Lowest(used, n))
              data == {k \in DOMAIN c : IsData(k)}
              t    == [Fresh(c, b, task[p].cap, Cardinality(data), 0) EXCEPT
                          !.brk = task[p].brk, !.mmaps = task[p].mmaps,
                          !.mmap_brk = task[p].mmap_brk]
          IN  IF n = want
              THEN hdr' = h /\ used' = u /\ task' = [task EXCEPT ![q] = t]
              ELSE hdr' = Freed(h, b) /\ used' = u \ Space(c) /\ UNCHANGED task
    /\ UNCHANGED <<bufs, wm, win, lost, torn>>

\* task_exec_inplace: the new image beside the old one, which is destroyed after
\* the switch, with the surfaces that are mapped in it.  cur_rss_pages, next_wm_va
\* and the limit stay.
Exec(p) ==
    /\ Call
    /\ Running(p) /\ Available(used) >= 3
    /\ LET d == Loaded(used)
       IN  /\ used' = (used \cup Space(d)) \ Space(task[p].pd)
           /\ task' = [task EXCEPT ![p] = Fresh(d, @.stack, @.cap, @.rss, @.opened)]
    /\ torn' = torn \cup UNION {SurfaceOf(s) :
                                   s \in {r \in Slots : \/ InUse(r) /\ wm = {p}
                                                        \/ Open(r) /\ win[r].owner = p}}
    /\ UNCHANGED <<hdr, bufs, wm, win, lost>>

\* task_exit_current with wm_on_task_exit, of the window manager: it gives up its
\* side of all windows, and those that their clients have left, but forgets the
\* event rings of these.
ExitWm(p) ==
    LET left == {s \in Slots : InUse(s) /\ ~Open(s)}
        lists == {c \in bufs : \E s \in left : c.of = PageList(s)}
        rings == {c \in bufs : \E s \in left : c.of = Events(s)}
        mapped == UNION {{SurfaceVa(s, i) : i \in DOMAIN win[s].pages} :
                            s \in {r \in Slots : InUse(r)}}
    IN  /\ wm = {p} /\ wm' = {}
        /\ task' = [task EXCEPT ![p].zombie = TRUE, ![p].pd = Without(@, mapped)]
        /\ used' = used \ UNION {SurfaceOf(s) : s \in left}
        /\ hdr' = FreedAll(hdr, {c.at : c \in lists})
        /\ bufs' = (bufs \ (lists \cup rings)) \cup {[c EXCEPT !.of = Forgotten] : c \in rings}
        /\ win' = [s \in Slots |-> IF s \in left THEN NoWindow ELSE win[s]]
        /\ UNCHANGED <<lost, torn, calls>>

\* The same of any other process: its windows are left to the window manager, but
\* its own entries still lead to the surfaces.
ExitClient(p) ==
    LET mine == {s \in Slots : Open(s) /\ win[s].owner = p}
    IN  /\ wm # {p}
        /\ task' = [task EXCEPT ![p].zombie = TRUE]
        /\ win' = [s \in Slots |-> IF s \in mine THEN [win[s] EXCEPT !.state = "DESTROY_PENDING"]
                                   ELSE win[s]]
        /\ torn' = torn \cup UNION {SurfaceOf(s) : s \in mine}
        /\ UNCHANGED <<hdr, bufs, used, wm, lost, calls>>

\* init stays.
Exit(p) ==
    /\ Running(p) /\ \E q \in Procs \ {p} : Running(q)
    /\ ExitWm(p) \/ ExitClient(p)

\* reap_one_zombie_of or the reaper frees the address space and the stack.
Reap(p) ==
    /\ Alive(p) /\ task[p].zombie
    /\ used' = used \ Space(task[p].pd)
    /\ hdr' = Freed(hdr, task[p].stack)
    /\ task' = [task EXCEPT ![p] = NoTask]
    /\ UNCHANGED <<bufs, wm, win, lost, torn, calls>>

SetLimit(p, n) ==
    /\ Call
    /\ Running(p) /\ n # 0
    /\ task[p].cap = 0 \/ n < task[p].cap
    /\ task' = [task EXCEPT ![p].cap = n]
    /\ UNCHANGED <<hdr, bufs, used, wm, win, lost, torn>>

-----------------------------------------------------------------------------
(* brk and mmap                                                            *)

\* The limit does not allow another page.
AtCap(cap, rss) == cap # 0 /\ rss >= cap

\* One turn of the loop of SYS_BRK, for page i of the heap; s has the bitmap, the
\* directory, the count, and whether the loop has been left.  A page for which there
\* is no table is given back.
GrowStep(s, cap, i) ==
    LET page == Alloc(s.u)
        u    == s.u \cup {page}
        d    == Mapped(u, s.pd, HeapVa(i), page)
    IN  CASE s.stop \/ AtCap(cap, s.rss) \/ Available(s.u) = 0 -> [s EXCEPT !.stop = TRUE]
          [] OTHER ->
             IF CanMap(u, s.pd, HeapVa(i))
             THEN [u |-> u \cup Space(d), pd |-> d, rss |-> s.rss + 1, stop |-> FALSE]
             ELSE [s EXCEPT !.u = u \ {page}, !.stop = TRUE]

\* The loop of process t over the pages t.brk .. n - 1.
Grown(t, n) ==
    LET at[i \in 0 .. HeapPages] ==
            IF i <= t.brk THEN [u |-> used, pd |-> t.pd, rss |-> t.rss, stop |-> FALSE]
            ELSE GrowStep(at[i - 1], t.cap, i - 1)
    IN  at[n]

\* Pages to which only entries led that are gone.
Dropped(d, e) == Space(d) \ Space(e)

\* SYS_BRK to n pages.  Growing stops at the first page that cannot be had: the
\* pages before it stay mapped and counted, the break stays where it was.
\* Shrinking unmaps nothing, and growing again maps new pages over the old ones.
Brk(p, n) ==
    /\ Call
    /\ Running(p) /\ n # task[p].brk
    /\ LET g == Grown(task[p], n)
       IN  /\ used' = g.u
           /\ task' = [task EXCEPT ![p].pd = g.pd, ![p].rss = g.rss,
                                   ![p].brk = IF g.stop THEN @ ELSE n]
           /\ lost' = lost \cup Dropped(task[p].pd, g.pd)
    /\ UNCHANGED <<hdr, bufs, wm, win, torn>>

\* mmap_register of n pages: addresses, and no page yet.
Mmap(p, n) ==
    /\ Call
    /\ Running(p) /\ task[p].mmap_brk + n <= MapPages
    /\ Cardinality(task[p].mmaps) < TASK_MMAP_MAX
    /\ task' = [task EXCEPT ![p].mmaps = @ \cup {[start |-> task[p].mmap_brk, len |-> n]},
                            ![p].mmap_brk = @ + n]
    /\ UNCHANGED <<hdr, bufs, used, wm, win, lost, torn>>

\* find_region.
InRegion(m, i) == i \in m.start .. (m.start + m.len - 1)

\* mmap_handle_fault on a page of the window that is not mapped: at the limit the
\* process gets SIGSEGV and no page, and without a free page the machine halts.
Fault(p, i) ==
    /\ Running(p) /\ MapVa(i) \notin DOMAIN task[p].pd
    /\ \E m \in task[p].mmaps : InRegion(m, i)
    /\ ~AtCap(task[p].cap, task[p].rss) /\ Available(used) >= 1
    /\ LET page == Alloc(used)
           u    == used \cup {page}
           d    == Mapped(u, task[p].pd, MapVa(i), page)
       IN  /\ CanMap(u, task[p].pd, MapVa(i))
           /\ used' = u \cup Space(d)
           /\ task' = [task EXCEPT ![p].pd = d, ![p].rss = @ + 1]
    /\ UNCHANGED <<hdr, bufs, wm, win, lost, torn, calls>>

\* mmap_unregister: paging_translate and paging_unmap look at the kernel's own
\* directory, which has nothing in the window, so no page is unmapped or freed.
Munmap(p, m) ==
    /\ task' = [task EXCEPT ![p].mmaps = @ \ {m}]
    /\ UNCHANGED <<hdr, bufs, used, wm, win, lost, torn, calls>>

-----------------------------------------------------------------------------
(* Windows                                                                 *)

\* ensure_state: the heap and the buffers after it, if kmalloc does not fail.
EnsureState ==
    IF \E c \in bufs : c.of = State THEN {[hdr |-> hdr, bufs |-> bufs]}
    ELSE {[hdr |-> Taken(hdr, b, WmUnits), bufs |-> bufs \cup {Buffer(b, WmUnits, State)}] :
             b \in FirstFit(hdr, WmUnits)}

\* wm_bind: windows that are left from an earlier window manager are dropped, with
\* their pages, although clients may have them mapped.
WmBind(p) ==
    LET gone == {c \in bufs : \E s \in Slots : c.of \in {PageList(s), Events(s)}}
    IN  /\ Running(p) /\ wm = {} /\ wm' = {p}
        /\ \E e \in EnsureState :
              /\ hdr' = FreedAll(e.hdr, {c.at : c \in gone})
              /\ bufs' = e.bufs \ gone
        /\ used' = used \ UNION {SurfaceOf(s) : s \in {r \in Slots : InUse(r)}}
        /\ torn' = torn \cup UNION {SurfaceOf(s) : s \in {r \in Slots : Open(r)}}
        /\ win' = [s \in Slots |-> NoWindow]
        /\ UNCHANGED <<task, lost, calls>>

\* find_empty_slot.
FirstEmpty == {s \in Slots : ~InUse(s) /\ \A r \in Slots : ~InUse(r) => s <= r}

\* One turn of the loop of wm_create_window, for page i: w has the bitmap, both
\* directories, the pages so far, and whether the loop has been left.
SurfaceStep(w, k, s, i) ==
    LET page == Alloc(w.u)
        u1   == w.u \cup {page}
        c    == Mapped(u1, w.client, SurfaceVa(k, i), page)
        u2   == u1 \cup Space(c)
        m    == Mapped(u2, w.wmd, SurfaceVa(s, i), page)
        got  == Over(w.pages, [j \in {i} |-> page])
    IN  CASE w.stop \/ Available(w.u) = 0 -> [w EXCEPT !.stop = TRUE]
          [] OTHER ->
             IF ~CanMap(u1, w.client, SurfaceVa(k, i))
             THEN [w EXCEPT !.u = u1, !.pages = got, !.stop = TRUE]
             ELSE IF ~CanMap(u2, w.wmd, SurfaceVa(s, i))
             THEN [w EXCEPT !.u = u2, !.pages = got, !.client = c, !.stop = TRUE]
             ELSE [u |-> u2 \cup Space(m), pages |-> got, client |-> c, wmd |-> m, stop |-> FALSE]

SurfaceLoop(client, wmd, k, s, n) ==
    LET at[i \in 0 .. n] ==
            IF i = 0 THEN [u |-> used, pages |-> [j \in {} |-> 0], client |-> client,
                           wmd |-> wmd, stop |-> FALSE]
            ELSE SurfaceStep(at[i - 1], k, s, i - 1)
    IN  at[n]

\* The loop and, if it was left, the roll-back: it unmaps and frees the pages; the
\* tables stay.
Surface(client, wmd, k, s, n) ==
    LET w == SurfaceLoop(client, wmd, k, s, n)
    IN  IF ~w.stop THEN w
        ELSE [w EXCEPT !.u = @ \ Values(w.pages),
                       !.client = Without(@, {SurfaceVa(k, i) : i \in DOMAIN w.pages}),
                       !.wmd = Without(@, {SurfaceVa(s, i) : i \in DOMAIN w.pages})]

\* wm_create_window by p, of n pages: a list of pages, and the pages mapped in both
\* directories.  The window manager opens no window of its own.
WmCreate(p, q, n) ==
    /\ Call
    /\ Running(p) /\ wm = {q} /\ p # q
    /\ \E s \in FirstEmpty : \E b \in FirstFit(hdr, WmUnits) :
          LET h == Taken(hdr, b, WmUnits)
              w == Surface(task[p].pd, task[q].pd, task[p].opened, s, n)
          IN  /\ used' = w.u
              /\ task' = [task EXCEPT ![p].pd = w.client, ![q].pd = w.wmd,
                                      ![p].opened = @ + IF w.stop THEN 0 ELSE 1]
              /\ lost' = lost \cup Dropped(task[p].pd, w.client) \cup Dropped(task[q].pd, w.wmd)
              /\ hdr' = IF w.stop THEN Freed(h, b) ELSE h
              /\ bufs' = IF w.stop THEN bufs ELSE bufs \cup {Buffer(b, WmUnits, PageList(s))}
              /\ win' = IF w.stop THEN win
                        ELSE [win EXCEPT ![s] = [state |-> "OPEN_PENDING", owner |-> p,
                                                 client_va |-> task[p].opened,
                                                 pages |-> w.pages]]
    /\ UNCHANGED <<wm, torn>>

\* wm_destroy_window by the owner: its side is unmapped.
WmDestroy(p, s) ==
    /\ Running(p) /\ Open(s) /\ win[s].owner = p
    /\ task' = [task EXCEPT ![p].pd = Without(@, {SurfaceVa(win[s].client_va, i) :
                                                     i \in DOMAIN win[s].pages})]
    /\ win' = [win EXCEPT ![s].state = "DESTROY_PENDING"]
    /\ UNCHANGED <<hdr, bufs, used, wm, lost, torn, calls>>

\* wm_pop_message, in the window manager: the first slot with news.
Pending(s) == InUse(s) /\ win[s].state # "LIVE"

WmPop(q, s) ==
    LET gone == {c \in bufs : c.of \in {PageList(s), Events(s)}}
    IN  /\ wm = {q} /\ Pending(s) /\ \A r \in Slots : Pending(r) => s <= r
        /\ \/ /\ win[s].state = "OPEN_PENDING"
              /\ win' = [win EXCEPT ![s].state = "LIVE"]
              /\ UNCHANGED <<hdr, bufs, used, task>>
           \/ /\ win[s].state = "DESTROY_PENDING"
              /\ task' = [task EXCEPT ![q].pd = Without(@, {SurfaceVa(s, i) :
                                                               i \in DOMAIN win[s].pages})]
              /\ used' = used \ SurfaceOf(s)
              /\ hdr' = FreedAll(hdr, {c.at : c \in gone}) /\ bufs' = bufs \ gone
              /\ win' = [win EXCEPT ![s] = NoWindow]
        /\ UNCHANGED <<wm, lost, torn, calls>>

\* wm_push_event, the first for this window: its ring is allocated.
WmPushEvent(s) ==
    /\ wm # {} /\ Open(s) /\ ~ \E c \in bufs : c.of = Events(s)
    /\ \E b \in FirstFit(hdr, WmUnits) :
          hdr' = Taken(hdr, b, WmUnits) /\ bufs' = bufs \cup {Buffer(b, WmUnits, Events(s))}
    /\ UNCHANGED <<used, task, wm, win, lost, torn, calls>>

-----------------------------------------------------------------------------
Windows ==
    \/ \E p \in Procs : WmBind(p)
    \/ \E p, q \in Procs, n \in 1 .. WM_MAX_PAGES_PER_WIN : WmCreate(p, q, n)
    \/ \E p \in Procs, s \in Slots : WmDestroy(p, s) \/ WmPop(p, s)
    \/ \E s \in Slots : WmPushEvent(s)

Next ==
    \/ \E n \in Buffers : KernelAlloc(n)
    \/ \E c \in bufs : KernelFree(c)
    \/ \E p \in Procs :
          \/ \E q \in Procs : Fork(p, q)
          \/ Exec(p) \/ Exit(p) \/ Reap(p)
          \/ \E n \in Caps : SetLimit(p, n)
          \/ \E n \in 0 .. HeapPages : Brk(p, n)
          \/ \E n \in 1 .. MapPages : Mmap(p, n)
          \/ \E i \in 0 .. (MapPages - 1) : Fault(p, i)
          \/ Running(p) /\ \E m \in task[p].mmaps : Munmap(p, m)
    \/ Windows

Spec == Init /\ [][Next]_vars

-----------------------------------------------------------------------------
(* Properties                                                              *)

Owners == {p \in Procs : Alive(p)}

\* The kernel heap under any mix of stacks, windows and other buffers, with calls
\* that fail half way: its blocks tile it, every stack and buffer has a block of
\* its own that is not free and as large as was asked for, and no other block is
\* taken, so nothing is lost but the event rings that a window manager forgets.
HeapSound ==
    LET stacks == {task[p].stack : p \in Owners}
        blocks == {c.at : c \in bufs}
    IN  /\ Tiled(hdr)
        /\ Cardinality(stacks) = Cardinality(Owners)
        /\ Cardinality(blocks) = Cardinality(bufs) /\ stacks \cap blocks = {}
        /\ \A b \in stacks : hdr[b].size >= TASK_STACK_SZ
        /\ \A c \in bufs : hdr[c.at].size >= c.n
        /\ {b \in Blocks(hdr) : ~hdr[b].free} = stacks \cup blocks

\* The entries of the directories and tables that processes have of their own, and
\* the page that an entry leads to.
Entries == UNION {{p} \X Reached(task[p].pd) : p \in Owners}
PageAt(e) == task[e[1]].pd[e[2]]

\* The two entries that page i of window s has: its client's and, while there is a
\* window manager, that one's.
ClientSide(s, i) == <<win[s].owner, SurfaceVa(win[s].client_va, i)>>
WmSides(s, i) == {<<q, SurfaceVa(s, i)>> : q \in wm}

\* Pages given out by brk, page faults, fork, exec and windows, and taken back by
\* exit, exec, windows and roll-backs in any order.
\* Entries lead to pages that the allocator has given out, and no two lead to the
\* same one, but for the two sides of a window; an open window has its sides.
\* Nothing else is given out: no page leaks but those that an entry was overwritten
\* for.  And cur_rss_pages is not below what brk and faults have mapped.  All of this
\* but for the surfaces that were torn from the other side.
PagesOwned ==
    /\ \A e \in Entries : PageAt(e) \in used \cup torn
    /\ \A e, f \in Entries :
          e # f /\ PageAt(e) = PageAt(f) /\ PageAt(e) \notin torn =>
             \E s \in Slots : InUse(s) /\ \E i \in DOMAIN win[s].pages :
                 /\ win[s].pages[i] = PageAt(e)
                 /\ {e, f} = {ClientSide(s, i)} \cup WmSides(s, i)
    /\ \A s \in Slots : Open(s) =>
          \A i \in DOMAIN win[s].pages : win[s].pages[i] \notin torn =>
             \A e \in {ClientSide(s, i)} \cup WmSides(s, i) :
                 e \in Entries /\ PageAt(e) = win[s].pages[i]
    /\ used \subseteq torn \cup lost \cup {PageAt(e) : e \in Entries}
                \cup UNION {SurfaceOf(s) : s \in {r \in Slots : InUse(r)}}
    /\ \A p \in Owners :
          task[p].rss >= Cardinality({k \in DOMAIN task[p].pd :
                                         \/ k \in {HeapVa(i) : i \in 0 .. (HeapPages - 1)}
                                         \/ k \in {MapVa(i) : i \in 0 .. (MapPages - 1)}})

=============================================================================
