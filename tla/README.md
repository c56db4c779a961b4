# AdventOS in TLA+

AdventOS is a 32-bit i386 hobby operating system in C. This directory holds
TLA+ models of the kernel parts where a mistake needs several steps of several
actors to show: the scheduler and its locks, process lifetimes, the lifetimes of
the objects behind file descriptors, pipes, signals and terminals, sockets over
TCP, the block cache and the file system above it, and the memory of processes. TLC
checks the models on small instances; TLAPS proves the safety of each for every size:
any number of CPUs, slots, processes, descriptors, sockets and files, any ring, cache,
disk, heap and memory. Everything is translated from the code under
`src/kernel/`; `PROJECT.json` maps each definition to its lines.

## 1. Inventory

| Component | State | Operations | Talks to | What is hard | What makes it correct |
|---|---|---|---|---|---|
| Tasks, scheduler, BKL (`task.c`, `task_switch.S`, `bkl.c`, `spinlock.h`) | `g_tasks` (state, ring link, pid, parent, stack), `cpu_local.current`, `g_sched_lock`, `g_bkl`, EFLAGS.IF | `schedule`, `task_yield`, `task_create`, `task_make_runnable`, `task_fork`, `task_exit_current`, `task_wait_current`, `task_waitpid_nb_current`, `task_reaper` | timer interrupts on every CPU, every system call | lock handed over across a stack switch, slots reused, sleeping without a lock | one CPU per stack, no stack freed in use, no lost wakeup, a whole ring, no starvation |
| Timer and interrupts (`pit.c`, `isr.c`, `smp.c`) | ticks, handlers | `pit_irq`, `lapic_irq_handler`, `pit_sleep`, `ap_entry` | `schedule`, signals | preempting the owner of a lock, flags after the switch | a tick never schedules away the BKL owner; whoever halts can be woken |
| File descriptors (`syscall.c`, `task.c`) | `task.fds`, per-object reference counts | open, close, dup2, pipe, openpty, socket, fork, exit, setlimit | pipes, ptys, tmpfs, sockets, 9p | every path must count every kind | counts equal the descriptors; freed at the last close, not before |
| Pipes (`pipe.c`) | ring, head, tail, two counts | `pipe_read`, `pipe_write`, close | `task_yield`, fds | wrap, EOF, readers leaving a half-done write | exact byte stream, true counts, EOF final and delivered |
| Ptys (`pty.c`) | two rings, two counts, foreground group, mode | reads, writes, ISIG, SIGHUP | signals, fds | signals in the middle of reads | as pipes, and carrier loss reaches the group |
| Block cache (`bcache.c`) | slots, LRU list | `bcache_read`, `bcache_write`, `bcache_sync` | `fs.c`, disk, syncer task, page faults | write-back at eviction, sync with the cache open, disk errors | one copy per sector, fresh reads, no clean slot that is needed, writes arrive |
| File system (`fs.c`, `vfs.c`) | superblock, bitmap, entries | create, write, unlink, mkdir | block cache | superblock of several sectors | bitmap matches the entries, also after a crash |
| tmpfs (`tmpfs.c`), 9p (`virtio_9p.c`) | slots, counts, data | open, read, write, close | fds | slots leak | slot in use iff reachable |
| Sockets and TCP (`sock.c`, `tcp.c`, `netlock.c`, `ip.c`, `udp.c`, `arp.c`) | socket table, accept queues, receive rings, TCBs | socket, bind, listen, accept, connect, read, write, close, callbacks from interrupts | fds, drivers | late SYN-ACKs, full queues, dropped bytes, no retransmission | callbacks reach the right socket, bytes in order |
| DHCP, DNS, NTP | one pending request, caches | request, reply, timeout | UDP | late replies | answer matches the question |
| Signals, job control, ptrace (`signal.c`, `ptrace.c`) | pending, mask, handlers, STOPPED | kill, killpg, sigaction, sigreturn, delivery at the tail of a syscall or interrupt | scheduler, ptys | stop and continue races, exits from interrupts | a stopped task runs only when continued by the right party |
| Limits and sandbox (`syscall.c`, `pit.c`) | caps, mask | setlimit, install, accounting | signals | tick wrap, only tightening | a cap is never loosened |
| Memory (`pmm.c`, `kmalloc.c`, `paging.c`, `mmap.c`, `elf.c`) | page bitmap, heap list, page tables, mappings | alloc, free, map, fault | everything | partial failure, faults outside the BKL | a page has one owner, or is a window's; none leaks |
| Windows, clipboard (`wm.c`, `clipboard.c`) | window table, surface pages mapped by client and window manager, event rings | bind, create, destroy, pop, push, exit of either side | paging, heap, tasks | two address spaces share pages and end in any order | both sides of an open window lead to its surface, nobody else does |
| Console, drivers, boot, user programs, libraries, tcc | | | | device I/O and sequential code | not modelled |

Interaction is by direct calls under the Big Kernel Lock (BKL). Concurrency comes
from timer preemption on each CPU, from the kernel tasks (reaper, syncer) that
may run on any CPU, from calls that drop the BKL to wait, and from code that
never takes it (page faults, interrupts, `SYS_WAIT`). The hazards that follow from
this are listed with their lines in `PROJECT.json`.

## 2. Modules

`Task.tla` (`MCTask.tla`): the process core. A state records the fields of
`g_tasks`, what each CPU executes (`current`), on whose stack it stands (`stack`),
how far it is inside `schedule()` (`phase`), its interrupt flag, both locks with
their saved flags, and for each task the point of its kernel code (`at`). One
action is one uninterruptible stretch: between two points where an interrupt, the
other CPU or a lock can come between. So `schedule()` is `EnterSchedule`/`Tick`
(saving flags, spinning), `Keep` or `Commit` (demote, pick, commit under the lock),
`Switch` (`task_switch`) and `Finish` (the incoming context drops the lock:
`post_switch_finalize`, the resumed `schedule()`, or the `iret` of a preempted
task). `task_create` is claim, build, make-runnable; `task_fork` is build and splice
(the build is one step because the BKL owner is not preempted and the reaper needs
the BKL); `SYS_WAIT`, which holds no lock, is scan, sleep, unsplice, mark, wipe;
the reaper is check, unsplice, free. A failed `kmalloc` is an action for
`task_create` and no change for `task_fork`. Only one kernel task, the reaper, is
created: the syncer adds no new behaviour to this module. Ring 3 is "run": a user
task may enter the kernel at any time, and init and its descendants may all fork. The
history variable `reused` becomes TRUE when a fork takes a slot whose resources are not
cleared.

`Fd.tla` (`MCFd.tla`): descriptor tables and reference counts. Every call runs
under the BKL without yielding, so each is one step. Objects have a class and, per
kind of descriptor, a counter; `ForkKinds`, `DupKinds`, `ReleaseKinds` and
`ExitKinds` are the `switch` statements of `task_fork`, `SYS_DUP2`, `release_fd` and
`close_all_fds`. A behaviour opens the classes of one of the `Workloads`.
`SYS_ACCEPT` is in `Sock`.

`Pipe.tla` (`MCPipe.tla`): one pipe with its readers and writers. A call is one step
from entry, or from one return of `task_yield`, to the next. Bytes are identified by
writer and position, so that loss, repetition and reordering are visible.
`ByteStream.tla` is the promise of `pipe.h`: one bounded queue and a final end. `Pipe`
implements it with `queue <- Contents` (the ring from tail to head), `open <- wOpen #
{}`, and the histories of what was read and whether a read returned 0.

`Bcache.tla` (`MCBcache.tla`): the cache, the disk, and `bcache_sync` slot by slot:
skip, snapshot, write or failed write. Page faults do not take the BKL, so reads happen
at any time, also between the snapshot and the disk write of a syncer on another CPU;
writes wait for the syncer. Two history variables name the sectors for which the code keeps less than it says:
`lost`, whose last value the disk refused when the cache had no copy left, and `stale`,
which left the cache while the syncer was writing them.
`BlockStore.tla` is what the file system may rely on: sectors read as last written
unless they are old, and reach the disk at some later moment in any order; a sector that
the store gives up before the disk has its last value is old and reads as what the disk
holds, until it is written again or that value arrives. `Bcache` implements it with
`view <-` what a read of each sector would return, `last <- written` and
`old <- lost \cup stale`. `Fs` assumes a store in which nothing is old.

`Signal.tla` (`MCSignal.tla`): the signal, group and trace fields of each task, and
who runs in user mode on CPU 0, where all user tasks run. A system call ends with
`signal_check_and_deliver`, so a call and its delivery are one step (`AtReturn`
applied to what the call did). A task preempted by the timer owes a delivery (`due`),
which it gets when it is dispatched; one that was stopped, or that fork has just
made, goes on without one. `PTRACE_WAIT` yields in a loop: `Wait` and `WaitResume`.
`Overrun` is `pit_irq` charging a limit, which sets SIGKILL without `signal_send`.
`PTRACE_STEP` is `Cont`: it only makes the next trap come sooner. `lastJob` and `kept`
are histories for the properties.

`Pty.tla` (`MCPty.tla`) EXTENDS `Signal`: one pseudo-terminal, of which processes hold
ends. Keystrokes are one-byte writes to the master end; with a foreground group a
control character becomes a signal. Rings are counted, not stored: their arithmetic is
that of `Pipe`. Closing and exiting give up ends (`CloseEnds` in `Signal`), and the last
master end sends SIGHUP.

`Tcp.tla`: the control blocks of `tcp.c` and the pure parts of its handlers.
`Sock.tla` (`MCSock.tla`) EXTENDS it with the socket table, the callbacks, the calls and
the remote peers. `net_lock` covers a call from its entry, or a return of
`task_yield`, to the next yield, and all of `tcp_rx`: each is one step. Everything a
peer will send is in the network from the moment it could send it and may arrive any
number of times, in any order or never. The connect timeout (500 yields) may strike at
any moment. Old duplicates of a SYN make further control blocks for the same peer,
told apart by `inc`.

`Fs.tla` (`MCFs.tla`): one AdventFS instance: table and bitmap in memory, the sectors
as they read (`view`) and as they are on disk (`disk`). An operation changes memory and
then writes sectors one by one; each is a step that may fail, and the power may go
between any two. The boot instance writes through the cache, so `disk` follows by
`Flush`, which is `WriteBack` of `BlockStore`; the others write straight to their device.
Paths have one or two names, sizes are in sectors, the caller is root.

`Kmalloc.tla`: the kernel heap as a function from addresses to headers, and what
`kmalloc` and `kfree` make of it. `Paging.tla`: the page bitmap and address spaces, as
functions from places (the directory, its tables, their entries) to pages. The heap spans
two tables, as `USER_HEAP_START`..`USER_HEAP_MAX` does; a fifth table is the kernel's own,
with a device page and the framebuffer in it, mirrored into each new directory. `Clone`
copies it page by page as `paging_clone_user_pd` does, without the framebuffer, and
`Reached` is what `paging_destroy_user_pd` frees, without tables that still are the
kernel's and without the framebuffer. `Mem.tla` (`MCMem.tla`) EXTENDS both with the
processes and the window table: fork (with the partial copy and its destruction), exec,
exit, reaping, brk, mmap, munmap, page fault, setlimit, and `wm.c`'s bind, create (both
mappings of each page and the roll-back), destroy, pop, the first event of a window, and
the exit of either side. Each has the point where it runs out of pages, heap or limit.
The history variables are `lost` (pages whose entry was overwritten) and `torn` (surfaces
that one side gave up under the other).

`TaskProofs`, `FdProofs`, `PipeProofs`, `BcacheProofs`, `SignalProofs` (which also has the
theorems about `Pty`), `SockProofs`, `FsProofs` and `MemProofs`: the inductive invariants
of the modules they EXTEND, and the theorems (section 5).

The modules are composed in three ways. By EXTENDS, where components share state and
steps: `Pty` with `Signal`, `Sock` with `Tcp`, `Mem` with `Kmalloc` and `Paging`. By refinement, where
one offers a service to another: `Bcache` implements the `BlockStore` that `Fs` writes to,
`Pipe` implements `ByteStream`. And by atomicity: `Fd`, `Pipe`, the system calls of `Bcache`,
`Fs` and `Mem` take from `Task` that a system call is not preempted while it owns the BKL
(`BklHolderRuns`), and `Pipe` and `Pty` that a task that yields is picked again
(`ReadyRuns`).

Definitions marked "Mutant" are faulty variants of the definition that follows:
each property is shown to fail when the named one replaces the original.

## 3. Runs

| Run | Instance | Result |
|---|---|---|
| `task_smp` | 5 slots, 2 CPUs, pids up to 4, init and its descendants fork | nine invariants hold, 779,307 states |
| `task_fair` | 4 slots, 1 CPU | `ReadyRuns` holds |
| `wake` | 4 slots, 1 CPU | `WaiterHasNoZombie` fails |
| `fd` | 2 processes, 3 descriptors, 1 object per class, limit 2 | four invariants hold |
| `pipe` | 3 processes, ring of 3 bytes, reads and writes of 1 and 3, 4 bytes | three invariants, the refinement of `ByteStream` and two liveness properties hold |
| `bcache` | 2 slots, 3 sectors, 2 values, disk errors, page faults beside the syncer | four invariants, the refinement of `BlockStore` and `Flushed` hold |
| `signal` | 2 processes, 5 signals, 2 sends, nested handlers, a CPU limit | three invariants hold |
| `pty` | 2 processes, rings of 1 byte, writes of 2, Ctrl-Z and plain keys, 1 kill | the type and two liveness properties hold |
| `sock` | 2 processes, 2 sockets, 3 control blocks, a client of 2 bytes and a server | three invariants hold, 1.0 million states |
| `sock_tcb` | 1 process, 2 sockets, 2 servers | `WritesReachPeer` fails |
| `fs` | 2 entries, 3 data sectors, 3 paths, files of 0 to 2 sectors, 2 writes, 1 failure | three invariants hold, 1.4 million states |
| `mem` | 2 processes, 12 heap units, 11 pages, 2 heap pages in two tables, 1 mmap page, 1 window of up to 2 pages, limit 1, 4 calls | two invariants hold, 403,433 states |

Why the bounds are enough. `task_smp`: five slots hold kmain, the AP's idle task, the
reaper, init and one more task at a time, and four pids let a slot be reused, cleared or
not, so every hand-off between two CPUs, every teardown and every reuse occurs; the safety of
the core does not rest on the bound, because it is proved (section 5).
`task_fair` uses one CPU: user tasks run only on CPU 0 in the shipped build.
`fd`: a second object of a class adds nothing, since counters are per object; three
descriptors with one standard one let dup2 hit a standard, a free and a used one, and
the limit of 2 is met by the second descriptor of a pair. `pipe`: the ring of 3 wraps
after every third byte, a write of 3 does not fit and must wait. `bcache`: more
sectors than slots forces evictions, and one slot is evicted while the other is
being flushed. `signal`: a handler of SIGINT is interrupted by one of SIGCONT; two sends
put STOP and CONT in both orders around preemption, fork, exec and a trace stop. `pty`: a
write of two bytes to a ring that holds one must wait; the kill comes before, during
and after the wait. `sock`: three control blocks serve a listener and two
connections, of which two may be the client's, so a third finds none; two sockets are
one too few for a listener and two connections, and the backlog of 1 is full after one;
two bytes overflow the ring of one. `fs`: the two entries lie in two table
sectors, so a crash can fall between them, and one is missing for three paths; three
sectors let a file of two be rewritten only when another is gone. `mem`: the heap has
room for two stacks and the three blocks of `wm.c`, or for a buffer instead of some, with
holes that only coalescing makes large enough; eleven pages are too few for two processes
with full heaps and a window, so a copy, a break, a fault and a surface fail at every table
and page of theirs. `MaxCalls` bounds the calls that make a behaviour longer without
returning to an earlier state; four are enough for a fork, two windows one after the other,
and one more.
One window is the most that two processes can have at a time with these pages.

### What the violations show

- `wake`: `SYS_WAIT` drops the BKL; a timer tick after the scan and before
  `BLOCKED_ON_CHILD` lets the child exit, find its parent READY and wake nobody.
  The parent then sleeps with a zombie child. `kernel/task.h:81`: "in sys_wait,
  no zombie child yet".
- `sock_tcb`: a reset releases the control block, but the socket stays CONNECTED and
  goes on pointing at it. The next connection gets the block, and what is written to
  the old socket goes to the new peer. `kernel/sock.h:50`: "live underlying TCP control
  block".

### Other disagreements met while modelling

The models follow the code in all of these. They have no violation run of their own;
where a property would fail because of one, a history variable records it, and the
property says that everything else is in order.

- `task.c:1172`: the harvested slot is published as UNUSED before `stack_base`, `cr3` and
  `next` are cleared; a fork that takes it in between (`WaitFree`, `WaitWipe`) loses them.
  `docs/14-fork-exec-wait.md:427`: "After this returns, the slot is `UNUSED`, the ring is
  intact, and `find_free_slot` can safely reuse it".
- `task.c:712`: an orphan that dies becomes DEAD and stays on the ring until the reaper's
  next sweep; `find_free_slot` hands the slot out before that and the fork splices it
  twice: the self-loop that the comment at `task.c:1139` describes and means to prevent. On
  two CPUs the link that the fork clears also hides READY tasks from `pick_next_ready` on
  the other CPU. `reused` records both cases. Without the disjunct `reused` `RingIntact`,
  `WorkConserving` and `ReadyRuns` are false in the very instances of the runs; with it
  they hold, so that nothing else breaks the ring.
- `syscall.c:1252`: dup2 does not count sockets although fork and close do, so closing
  one of the two frees the socket under the other.
- `task.c:1037`: exit does not release 9p inode slots although close does.
- `mmap.c:132`: a page fault can evict a sector between the syncer's snapshot and its disk
  write, and cache the old one as clean. The disk then moves on: `bcache.c:12`, "valid=1
  dirty=0   data[] matches sector `lba` on disk", is not true of the slot, and it reads as
  the old value until it is evicted or written. `stale` records the sector; `FreshReads` and
  `CleanExpendable` say what is left of the promise, namely that the last value is in the
  syncer's hands or on the disk and that nothing will overwrite it. If the syncer's write
  fails, line 216 finds the slot gone and the value is lost.
- `bcache.c:114`: the comment at line 99 promises "NULL on disk failure (the slot's previous
  state is preserved in that case)"; the code gives the slot up, and the value is gone.
  `lost` records such sectors, until they are written again.
- `sock.c:285`: a connect that gave up leaves its control block behind, which names the
  socket by its index. If the socket is used again, the bytes of the old connection
  join its ring; `StreamInOrder` speaks of the bytes of the socket's own peer.
- `tcp.c:403`: the sequence number of a FIN is not looked at, so one that overtakes data
  ends the stream early. `StreamInOrder` says nothing about where a stream ends.
- `signal.h:28` says SIGKILL "always terminates"; it does not wake a STOPPED task, which
  dies only after a SIGCONT. A process that waits in a pipe or in a pty write does not
  look at signals either (`pipe.c:85`, `pty.c:183`).
- `isr.c:121`: after `PTRACE_STEP` and `PTRACE_DETACH` the trap flag is still set; the #DB
  finds no tracer and halts the machine.
- `fs.h:92`: the parent of the entries at / is numbered 0xFF, and the last of the 256
  slots has that number too. A directory that gets it resolves as the root: `/d/a` and
  `/a` are one file (`RootReserved` fails with 2 entries and `FS_DIR_ROOT = 1`). The `fs`
  run keeps the two apart, and `CrashAtomic` is proved as long as the slot has no directory.
- `docs/19-ed-and-fs-write.md:193` calls `fs_write_all`
  "atomic at the superblock-flush boundary". On the boot disk the cache reorders the
  sectors, so the table may reach the disk before the data. `CrashAtomic` therefore
  speaks of the instances that write directly, and of the boot instance when flushed.
- `fs.c:688`: rmdir does not look at open descriptors, as unlink does.
- `mmap.c:46` says munmap frees the "physical for any that got faulted in"; it looks up
  the kernel's directory, finds nothing and frees nothing. A later break that shrinks and
  grows maps new pages over old ones, which stay taken for ever (`Mapped`).
- `wm.c:468`: a client that exits with an open window leaves its own mapping to
  `paging_destroy_user_pd`, which frees the surface while the window manager still maps it;
  `wm_pop_message` then frees the pages again (`wm.c:320`). In the model's shortest behaviour the
  freed page has meanwhile become a page table of another process, which loses it. The
  comment at `task.c:1059` says that `wm_on_task_exit` "must run BEFORE
  paging_destroy_user_pd (which would otherwise free pages that wmd still maps, or vice
  versa)"; it runs before, but unmaps only when the window manager exits. Exec with an open
  window, of either side, and a new window manager's bind (`wm.c:183`) do the same.
  `torn` records the surfaces.
- `wm.c:461`: a window manager that exits frees the surfaces of windows whose clients have
  gone, but not their event rings (`Forgotten`).
- `wm.c:216`: fork copies surfaces to the child but not `next_wm_va`, so that the child's
  first window is mapped over its copy of the parent's, whose pages stay taken (`lost`).
- `paging.c:209`: fork copies the mirrored tables of the kernel too, which
  `paging_create_user_pd` shares "by reference": the child has a copy of a device page in
  RAM, counts it in `cur_rss_pages`, and has no framebuffer. `docs/31-smp.md:400` says
  that this is "Functionally correct but wastes a page per fork".

## 4. Fairness

`Task`: `WF` of each CPU's kernel code (a CPU keeps executing) and `SF` of its timer
tick (a pending interrupt is taken once interrupts are on often enough). Nothing is
assumed of ring 3: a user task may loop for ever. `Pipe`: `WF` of the resumption of a
yielded call, which is what `ReadyRuns` gives. `Bcache`: `WF` of the sync loop (the
syncer wakes every 5 s and takes the BKL) and `SF` of a successful write per sector
(no sector fails for ever; with one that does, `Flushed` is false, as it should be).
`Pty`: `WF` of the timer's preemption of whoever runs in user mode, `SF` of the dispatch
of a READY task and of the resumption of a yielded call: between two of its turns other
tasks run, so it is enabled again and again and not continuously, and `ReadyRuns` says
that it gets its turn. Nothing is assumed of what a program does in user mode: it may
never read, write or close. `Signal`, `Sock`, `Fs` and `Mem` check safety only.

## 5. Proofs

Every theorem is proved from the ASSUMEs of the modules alone, which only say that sizes
are numbers, that the sets a count is taken of are finite, and that the machine is large
enough to start (`SizeAssumption`: slots for kmain, the idle tasks and two more;
`MemAssumption`: pages and heap for init), and that a path is a sequence of one or two
names. The one exception, `RootReserved`, is named where it occurs; without it the property
is false.
Each module has an inductive invariant; none of the properties is inductive as it stands,
and what has to be added to it is the content of the proofs. The proofs have one lemma
per action, or group of actions, and under it one step per conjunct.

`TaskProofs`: `TypeCorrect`, `StacksExclusive`, `StacksLive`, `NeverSelfDeadlocked`,
`BklHeldByRunning`, `HaltedWake`, `HalfBuiltNotRun`, `RingStaysIntact`, `ScheduleFindsWork`.
`StackExclusive` needs that current and stack agree except between commit and
`task_switch` (`LockPhase`), that a READY task is on no CPU (`CurrentState`), that pinned
tasks stay on their CPU (`Pinned`) and that kmain and the idle tasks keep their slots
(`FixedSlots`). `LiveStack` needs `ReapTargets`: the reaper looks at `current` without
the scheduler lock, and it is the lock taken for unsplicing that guarantees no CPU is
still between its commit and `task_switch`, on the old stack; and for a waiting parent,
that both it and its child are pinned to CPU 0 (`WaitTargets`, `Roles`). `HltWakes` needs
that whoever was suspended at a point with interrupts on was suspended by a timer
interrupt (`OpenCurrent`, `OpenSuspended`) and that `bkl_lock` saved enabled flags
(`SavedFlags`), because a task returning from `schedule()` gets the flags of the lock's
previous owner.

The run ring has an invariant of its own (`RInv`), which holds as long as `reused` is FALSE:
a fork has taken only slots whose resources were cleared. `task.c:712` and `task.c:1172`
(section 3) are the two ways to violate that, and `RingStaysIntact` shows that nothing else
endangers the ring, whoever forks and on any number of CPUs. `ScheduleFindsWork` says what
the ring is for: in `schedule()` a CPU does not go idle, nor miss its own still runnable
task, while there is a READY task it may run, because the task it leaves is on the ring
even when it is a zombie (`AnchorOnRing`), or else has no link, and then the table is
scanned.

No induction over the ring is needed. `Cycle(nx, R)` says that the links stay in `R`, that
no two lead to the same slot, and that a set of slots closed under them is all of `R`;
splicing in and taking out keep it (`CycleInsert`, `CycleRemove`). That the walks of
`pick_next_ready` and `unsplice_from_ring` see the whole ring follows by the pigeonhole
principle (`GoesRound`): among `TASK_MAX` + 1 steps one slot repeats, and the slots between
are closed. Off the ring (`OffRing`) a link is NULL unless a wait or the reaper is still
clearing its slot, and no CPU runs such a slot (`ZombieLeft`, `ReapTargets`).

`FdProofs`: `CountersExact`, `PairsLiveAsLongAsUsed`, `SocketsNotLeaked`, `TypeCorrect`. A
counter is compared with the cardinality of the set of descriptors that name the object,
so each step needs how that set changes; fork and exit change it for a whole table at
once. For sockets only one direction is inductive: the count is positive and at most the
number of descriptors, because dup2 does not count.

`PipeProofs`: `RingIsFifo`, `AcksExact`, `TypeCorrect`, and `PipeIsStream`, the refinement
of `ByteStream` (its steps; fairness is no part of it). The ring's contents are a function
of tail, head and the history, across the wrap; a call that waits in `task_yield` must
find its end still open or its peer gone, and what it has moved must agree with what it
will return.

`BcacheProofs`: `TypeCorrect`, `NeverTwoCopies`, `ReadsFresh`, `CleanIsExpendable` and the
refinement `CacheIsStore`, with page faults beside the syncer and any disk operation
failing. The invariant says for each sector where its last value is: in a slot, on the
disk, in the syncer's snapshot, or gone, in which case it is in `lost`. While the syncer
writes, the sector in its hands is still in the slot it came from, clean and equal to the
snapshot, or it has left the cache and is in `stale`; a second copy may then have come from
the disk, but it is clean, because writes wait for the syncer's BKL. The refinement needs
that what the syncer writes is the last value of its sector.

`SignalProofs`: `StopsAndContsCancel`, `MaskFollowsHandlers`, `SigTypeCorrect`, and for the
terminal `PtyTypeCorrect` and `TerminalJobControl`, the first property for signals that
come from keys and hang-ups as well. What each send does to each process of a group is
one lemma (`SendOne`); a pending stop means that the last job-control signal was a stop;
the masks kept in the frames of nested handlers never overlap the handlers' own signals.

`SockProofs`: `AcceptsSound`, `BytesInOrder`, `TypeCorrect`. A socket in an accept ring has
exactly one reference and no holder; whoever waits in connect is the only owner of its
socket; a listening block and its socket name each other; two live connections of one
peer do not feed one socket; and what a socket has received is what its peer has sent
below `rcv_nxt`, which arrival, duplication and a full ring must keep.

`FsProofs`: `TreeStaysSound`, `TypeCorrect`, and `CrashStaysAtomic` under the condition
`[]RootReserved`, without which it is false (`fs.h:92` in section 3). For the tree: what
one entry that is added, removed or given another run does to a sound tree is one lemma
each (`AddEntry`, `RemoveEntry`, `MoveEntry`). That a crash leaves a sound tree needs to know
how far the table on the disk may lag behind (`Lags`): by files that are new and empty,
whose creation nobody has written yet, and, while the superblock is being written, by the
one entry of the operation, which is new or has its old run; that run has left the bitmap,
but no other file can get it before the superblock is written. For the contents (`CInv`):
memory reads as the operations that returned and the one that writes the superblock
(`Kept`), the disk as before or after it (`OnDisk`); a sector of the table brings each path
from what the disk had to what memory has, because a table between the two finds every
file where one of them has it (`BetweenReads`), and a path leads to one entry and an entry
has one path (`OneEntry`, `OnePath`).

`MemProofs`: `HeapStaysSound`. The heap is described by the addresses where headers stand
(`Marked`): no two blocks overlap, each names the header at its end and the one before it.
Splitting and merging keep that, and it is proved to be what a walk from `g_head` sees
(`BlocksAre`), so that first fit and coalescing act on all of it. The invariant adds who
owns which block (stacks of processes, lists and event rings of windows, other buffers),
that a list or ring belongs to a window in use, and that a set of blocks freed one after
the other is freed (`FreedAll`). The loops are recursive functions on numbers; that such a
definition has a solution is proved from the well-foundedness of the numbers (`Recursion`),
by a least counterexample, because the library's induction theorems cannot be instantiated
here.

Checked by TLC only: liveness (`ReadyRuns`, `EofDelivered`, `WriterReleased`, `Flushed`,
`ReadersKillable`, `HangupReleases`), which is out of the prover's reach; and `PagesOwned`,
whose page numbers pass through two address spaces, the window table and the roll-backs of
three loops. Every other invariant and safety property of the passing runs has a theorem.

## 6. Not modelled

Of the repository's 126,000 lines, 47,000 are the vendored compiler tcc and 41,000 are
user programs (the shell, a C compiler, the agent daemon, editors and tests): sequential
programs above the system calls, which the models leave nondeterministic. The libraries
(crypto, C library, JSON, graphics) are better checked by test vectors. The kernel itself
has 29,000 lines, of which the drivers, the console and the formatters of `procfs.c` are
register or text work without a protocol of their own. So the models reach a small share
of the lines, but most of the kernel's shared state.

Left out of the parts that are modelled: the system-call mask of the sandbox; tmpfs
contents; permissions, cwd-relative paths and the mount table of the file system; images
torn by a crash, which are not followed further; UDP, IP, ARP and ICMP; loopback
connections and more than one listening port; the network lock itself; registers and
memory of a tracee; contiguous page runs, page contents, the TLB and `dyld.c`; an
out-of-memory page fault, which halts the machine; the wrap of 32-bit tick counts
(`pit.c:45`, `pit.c:103`), which takes 497 days. `g_ap_runs_user = 1` is not modelled: it is
off by default. DHCP, DNS and NTP ask one question each at boot; the clipboard is a buffer
under the BKL; the wait-queue mutex is called by nobody.

Of memory and windows: the contents of pages, so that an address space whose table was
freed under it (`torn`) stays as it is in the model; SYS_FB_MAP, by which one process maps
the framebuffer into its own tables (the framebuffer page in the mirrored table stands for
it); the device page and the framebuffer share one mirrored table; the roll-back of
`elf_load`, which is all or nothing here; the reuse of a DEAD slot, which is in `Task`; the
end of the address range that `next_wm_va` counts through, which `wm_create_window` does not
check; windows of the window manager's own, which `user/wmd.c` never opens; what the event
rings carry, and the alt-tab, workspace, screenshot and notification channels.

Of sockets: data on a SYN-ACK (`tcp.c:378`), which is delivered before the connect returns,
and a connect whose first send fails (`tcp.c:206`, `sock.c:266`), which releases the new
control block and leaves the socket as it was. The remote hosts of the model send their
data after the handshake, and a call that fails and leaves everything as it was is a
stutter.

Two hazards have no property: a fatal signal that is delivered at a timer interrupt ends a
task without the BKL (`signal.c:199`), which would need `Signal` on the two CPUs of `Task`;
and a process that waits in a pipe does not see signals (`pipe.c:85`), where the code
promises nothing that could be checked.

## 7. Plan

1. `Task` with signals: exits from timer interrupts beside the reaper of another CPU.
2. DHCP, DNS and NTP: requests with timeouts against late and wrong answers.
3. The system-call mask, and limits inherited by fork and exec, which only tighten.
