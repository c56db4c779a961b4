-------------------------------- MODULE Task --------------------------------
(***************************************************************************)
(* The process core of the AdventOS kernel (kernel/task.c): the task       *)
(* table, the round-robin ring, schedule() with the scheduler lock that is *)
(* held across task_switch, the Big Kernel Lock, timer preemption on every *)
(* CPU, task_create, fork, exit, wait and the two ways a slot is torn down *)
(* (the parent's wait and the reaper task).                                *)
(*                                                                         *)
(* The build is the shipped one, g_ap_runs_user = 0: user tasks and kmain  *)
(* run on CPU 0 only, kernel tasks on any CPU.                             *)
(***************************************************************************)
EXTENDS Integers

CONSTANTS
    TASK_MAX,       \* size of g_tasks
    NCPU,           \* number of CPUs; CPU 0 is the BSP
    MaxPid          \* bound: the largest pid handed out

ASSUME SizeAssumption ==
    /\ NCPU \in Nat \ {0}
    /\ TASK_MAX \in Nat
    /\ NCPU + 2 <= TASK_MAX     \* boot always finds its two slots
    /\ MaxPid \in Nat

Slots == 0 .. (TASK_MAX - 1)
CPUs  == 0 .. (NCPU - 1)
None  == -1

\* g_tasks[0] is kmain; AP number c parked its idle task in slot c at boot, so
\* slot c is what CPU c falls back to when nothing else is READY.
Idle(c) == c

States == {"UNUSED", "READY", "RUNNING", "BLOCKED", "DEAD",
           "BLOCKED_ON_CHILD", "ZOMBIE"}

VARIABLES
    \* struct task, one entry per slot
    state, next, id, parent,
    kind,       \* is_idle / is_user and with it cpu_pin
    tcb,        \* stack_base # NULL: the slot's resources are in place
    \* the control state of the slot's kernel context
    at,         \* where its code is (see Labels)
    inIrq,      \* suspended inside a timer interrupt
    tgt,        \* the slot a create, fork or reap in progress works on
    \* struct cpu_local and the registers, one entry per CPU
    current,
    stack,      \* whose kernel stack ESP points into
    phase,      \* "exec", or inside schedule(): "spin", "switch", "handoff"
    intr,       \* EFLAGS.IF
    fl,         \* the flags a spin_lock in progress has saved
    \* the locks (the owning CPU or None), each with its saved_eflags, which
    \* mean nothing while the lock is free
    sched, schedIF, bkl, bklIF,
    \* globals
    nextId, initPid,
    boot,       \* what kmain still has to create
    \* history
    reused      \* a fork has taken a slot that was not cleared

slotVars == <<state, next, id, parent, kind, tcb>>
codeVars == <<at, inIrq, tgt>>
cpuVars  == <<current, stack, phase, intr, fl>>
lockVars == <<sched, schedIF, bkl, bklIF>>
globVars == <<nextId, initPid, boot, reused>>
vars     == <<slotVars, codeVars, cpuVars, lockVars, globVars>>

\* Program points.  "new" is the frame task_create and task_fork synthesize;
\* "run" is ring 3, or a kernel loop around hlt; "held" is a section under the
\* BKL; the prefixes c_, f_, w_, y_ and r_ are task_create, task_fork,
\* task_wait_current, task_yield and task_reaper.
Labels == {"new", "run", "spinBkl", "held", "sleep", "c_build", "c_ready", "f_splice",
           "w_scan", "w_free", "w_wipe", "w_sleep", "w_sched", "w_done",
           "y_sched", "y_back", "y_spin", "y_held", "dying",
           "r_unsplice", "r_free"}

\* Points between bkl_lock and bkl_unlock.
HoldsBkl(t) ==
    \/ at[t] \in {"held", "y_held", "f_splice", "r_unsplice", "r_free"}
    \/ at[t] \in {"c_build", "c_ready"} /\ boot = "user"

SlotTypes ==
    /\ state   \in [Slots -> States]
    /\ id      \in [Slots -> Nat]
    /\ parent  \in [Slots -> Nat]
    /\ kind    \in [Slots -> {"kmain", "idle", "kernel", "user"}]
    /\ at      \in [Slots -> Labels]

LinkTypes ==
    /\ next    \in [Slots -> Slots \cup {None}]
    /\ tgt     \in [Slots -> Slots]

CpuTypes ==
    /\ current \in [CPUs -> Slots]
    /\ stack   \in [CPUs -> Slots]
    /\ phase   \in [CPUs -> {"exec", "spin", "switch", "handoff"}]
    /\ sched   \in CPUs \cup {None}
    /\ bkl     \in CPUs \cup {None}

FlagTypes ==
    /\ tcb     \in [Slots -> BOOLEAN]
    /\ inIrq   \in [Slots -> BOOLEAN]
    /\ intr    \in [CPUs -> BOOLEAN]
    /\ fl      \in [CPUs -> BOOLEAN]
    /\ schedIF \in BOOLEAN
    /\ bklIF   \in BOOLEAN

GlobalTypes ==
    /\ nextId  \in Nat
    /\ initPid \in Nat
    /\ boot    \in {"kernel", "user", "done"}
    /\ reused  \in BOOLEAN

\* The fields of g_tasks, g_cpus, the locks and the globals have their types.
TypeOK == SlotTypes /\ LinkTypes /\ CpuTypes /\ FlagTypes /\ GlobalTypes

-----------------------------------------------------------------------------
(* Boot: task_init for kmain, task_init_ap_idle for every AP.              *)

Init ==
    /\ state   = [s \in Slots |-> IF s \in CPUs THEN "RUNNING" ELSE "UNUSED"]
    /\ next    = [s \in Slots |-> IF s = 0 THEN 0 ELSE None]
    /\ id      = [s \in Slots |-> 0]
    /\ parent  = [s \in Slots |-> 0]
    /\ kind    = [s \in Slots |-> IF s = 0 THEN "kmain"
                                  ELSE IF s \in CPUs THEN "idle" ELSE "kernel"]
    /\ tcb     = [s \in Slots |-> s \in CPUs]
    /\ at      = [s \in Slots |-> "run"]
    /\ inIrq   = [s \in Slots |-> FALSE]
    /\ tgt     = [s \in Slots |-> 0]
    /\ current = [c \in CPUs |-> Idle(c)]
    /\ stack   = [c \in CPUs |-> Idle(c)]
    /\ phase   = [c \in CPUs |-> "exec"]
    /\ intr    = [c \in CPUs |-> TRUE]
    /\ fl      = [c \in CPUs |-> FALSE]
    /\ sched   = None /\ schedIF = FALSE
    /\ bkl     = None /\ bklIF   = FALSE
    /\ nextId  = 1    /\ initPid = 0
    /\ boot    = "kernel"
    /\ reused  = FALSE

-----------------------------------------------------------------------------
(* schedule()                                                              *)

\* CPU c executes the code of task t, which stands at point p.
Executes(c, t, p) == phase[c] = "exec" /\ current[c] = t /\ at[t] = p

\* cpu_pin: kmain and user tasks are bound to the BSP, an idle task to its CPU.
Admits(s, c) ==
    CASE kind[s] \in {"kmain", "user"} -> c = 0
      [] kind[s] = "idle"              -> c = s
      [] OTHER                         -> TRUE

pickable_by(st, s, c) == s \in Slots /\ st[s] = "READY" /\ Admits(s, c)

\* The ring from slot s on: s itself, then whatever next leads to; a NULL
\* pointer leads to z.  TASK_MAX steps meet everything there is to meet.
Follow(s, z) ==
    LET Step(p) == IF p = None THEN None ELSE IF next[p] = None THEN z ELSE next[p]
        w[k \in 0 .. TASK_MAX] == IF k = 0 THEN s ELSE Step(w[k - 1])
    IN  w

\* Mutant: the walk starts from the head of the table, not after `from`.
ScanTable(st, from, c) ==
    LET Hits == {k \in Slots : pickable_by(st, k, c)}
    IN  {k \in Hits : \A j \in Hits : k <= j}

\* Mutant: no scan of the table for a task without a ring anchor.
RingOnly(st, from, c) ==
    LET ring == Follow(next[from], next[from])
        Hits == {k \in Slots : pickable_by(st, ring[k], c)}
    IN  {ring[k] : k \in {h \in Hits : \A j \in Hits : h <= j}}

\* What pick_next_ready returns, as a set of at most one slot: the first READY
\* task this CPU may run on the ring after `from`.  A task without a ring
\* anchor (an AP's idle task) scans the table instead.
pick_next_ready(st, from, c) ==
    LET ring    == Follow(next[from], next[from])
        Seen(k) == IF next[from] = None THEN k ELSE ring[k]
        Hits    == {k \in Slots : pickable_by(st, Seen(k), c)}
    IN  {Seen(k) : k \in {h \in Hits : \A j \in Hits : h <= j}}

\* Mutant: a synthesized frame with EFLAGS 0x202.
NewTaskIFOn == TRUE

\* EFLAGS of a synthesized frame: 0x002, interrupts off.
NewTaskIF == FALSE

\* spin_lock(&g_sched_lock) at the top of schedule(): the flags are saved and
\* interrupts go off before the first xchg.
EnterSchedule(c) ==
    /\ phase' = [phase EXCEPT ![c] = "spin"]
    /\ fl'    = [fl EXCEPT ![c] = intr[c]]
    /\ intr'  = [intr EXCEPT ![c] = FALSE]

\* The timer interrupt (PIT on the BSP, LAPIC timer on every CPU) enters
\* schedule() through an interrupt gate, unless this CPU owns the BKL.
Tick(c) ==
    /\ intr[c]
    /\ bkl # c
    /\ inIrq' = [inIrq EXCEPT ![current[c]] = TRUE]
    /\ phase' = [phase EXCEPT ![c] = "spin"]
    /\ fl'    = [fl EXCEPT ![c] = FALSE]
    /\ intr'  = [intr EXCEPT ![c] = FALSE]
    /\ UNCHANGED <<slotVars, at, tgt, current, stack, lockVars, globVars>>

\* Demote a RUNNING task that is not an idle task.
Demoted(c) ==
    LET prev == current[c]
    IN  IF state[prev] = "RUNNING" /\ kind[prev] # "idle"
        THEN [state EXCEPT ![prev] = "READY"] ELSE state

\* What the CPU runs next: pick_next_ready's answer, or else the idle task.
Chosen(c) ==
    LET picked == pick_next_ready(Demoted(c), current[c], c)
    IN  IF picked = {} THEN {Idle(c)} ELSE picked

\* Mutant: prev keeps the CPU but is left READY (the session 80 bug).
KeepDemoted(c) ==
    /\ phase[c] = "spin"
    /\ sched = None
    /\ current[c] \in Chosen(c)
    /\ state' = Demoted(c)
    /\ phase' = [phase EXCEPT ![c] = "exec"]
    /\ intr'  = [intr EXCEPT ![c] = fl[c] \/ inIrq[current[c]]]
    /\ fl'    = [fl EXCEPT ![c] = FALSE]
    /\ inIrq' = [inIrq EXCEPT ![current[c]] = FALSE]
    /\ UNCHANGED <<next, id, parent, kind, tcb, at, tgt, current, stack,
                   lockVars, globVars>>

\* next == prev: prev goes back to RUNNING and keeps the CPU.
Keep(c) ==
    LET prev == current[c]
    IN  /\ phase[c] = "spin"
        /\ sched = None
        /\ prev \in Chosen(c)
        /\ state' = [state EXCEPT ![prev] = "RUNNING"]
        /\ phase' = [phase EXCEPT ![c] = "exec"]
        /\ intr'  = [intr EXCEPT ![c] = fl[c] \/ inIrq[prev]]
        /\ fl'    = [fl EXCEPT ![c] = FALSE]
        /\ inIrq' = [inIrq EXCEPT ![prev] = FALSE]
        /\ UNCHANGED <<next, id, parent, kind, tcb, at, tgt, current, stack,
                       lockVars, globVars>>

\* next # prev: commit to next under the lock, which stays held.
Commit(c) ==
    /\ phase[c] = "spin"
    /\ sched = None
    /\ \E n \in Chosen(c) \ {current[c]} :
          /\ state'   = [Demoted(c) EXCEPT ![n] = "RUNNING"]
          /\ current' = [current EXCEPT ![c] = n]
    /\ sched'   = c
    /\ schedIF' = fl[c]
    /\ fl'      = [fl EXCEPT ![c] = FALSE]
    /\ phase'   = [phase EXCEPT ![c] = "switch"]
    /\ UNCHANGED <<next, id, parent, kind, tcb, codeVars, stack, intr, bkl,
                   bklIF, globVars>>

\* task_switch: prev->esp is saved, ESP moves to next's stack, popfl restores
\* the flags next was suspended with (off, inside schedule()) or was built with.
Switch(c) ==
    /\ phase[c] = "switch"
    /\ stack' = [stack EXCEPT ![c] = current[c]]
    /\ intr'  = [intr EXCEPT ![c] = at[current[c]] = "new" /\ NewTaskIF]
    /\ phase' = [phase EXCEPT ![c] = "handoff"]
    /\ UNCHANGED <<slotVars, codeVars, current, fl, lockVars, globVars>>

\* Mutant: a new task's first instructions do not end in sti.
FinishNoSti(c) ==
    LET t == current[c]
    IN  /\ phase[c] = "handoff"
        /\ sched' = None /\ schedIF' = FALSE
        /\ phase' = [phase EXCEPT ![c] = "exec"]
        /\ intr'  = [intr EXCEPT ![c] = inIrq[t] \/ schedIF]
        /\ at'    = [at EXCEPT ![t] = IF at[t] = "new" THEN "run" ELSE at[t]]
        /\ inIrq' = [inIrq EXCEPT ![t] = FALSE]
        /\ UNCHANGED <<slotVars, tgt, current, stack, fl, bkl, bklIF, globVars>>

\* The incoming task drops the lock.  A new task goes through
\* post_switch_finalize, which ends in sti; a preempted one irets; a task that
\* called schedule() is left with the flags the lock's last owner saved.
Finish(c) ==
    LET t == current[c]
    IN  /\ phase[c] = "handoff"
        /\ sched' = None /\ schedIF' = FALSE
        /\ phase' = [phase EXCEPT ![c] = "exec"]
        /\ intr'  = [intr EXCEPT ![c] = at[t] = "new" \/ inIrq[t] \/ schedIF]
        /\ at'    = [at EXCEPT ![t] = IF at[t] = "new" THEN "run" ELSE at[t]]
        /\ inIrq' = [inIrq EXCEPT ![t] = FALSE]
        /\ UNCHANGED <<slotVars, tgt, current, stack, fl, bkl, bklIF, globVars>>

\* A task's own call of schedule(), and where it continues when it is back.
CallSchedule(c) ==
    LET t == current[c]
    IN  /\ phase[c] = "exec"
        /\ at[t] \in {"y_sched", "w_sched", "dying"}
        /\ at' = [at EXCEPT ![t] = CASE at[t] = "y_sched" -> "y_back"
                                     [] at[t] = "w_sched" -> "w_scan"
                                     [] OTHER             -> "dying"]
        /\ EnterSchedule(c)
        /\ UNCHANGED <<slotVars, inIrq, tgt, current, stack, lockVars, globVars>>

-----------------------------------------------------------------------------
(* The Big Kernel Lock                                                     *)

\* bkl_lock up to the spin: by a syscall entry (which did sti first), by the
\* reaper's sweep, by kmain around the launch of init, and by a syscall that
\* dropped the lock to sleep, yield or wait and takes it back.
SpinBkl(c) ==
    LET t == current[c]
    IN  /\ phase[c] = "exec"
        /\ \/ at[t] \in {"y_back", "w_done", "sleep"}
           \/ at[t] = "run" /\ kind[t] \in {"user", "kernel"}
           \/ at[t] = "run" /\ kind[t] = "kmain" /\ boot = "user"
        /\ at'   = [at EXCEPT ![t] = IF at[t] = "run" THEN "spinBkl" ELSE "y_spin"]
        /\ fl'   = [fl EXCEPT ![c] = intr[c]]
        /\ intr' = [intr EXCEPT ![c] = FALSE]
        /\ UNCHANGED <<slotVars, inIrq, tgt, current, stack, phase, lockVars,
                       globVars>>

AcquireBkl(c) ==
    LET t == current[c]
    IN  /\ phase[c] = "exec"
        /\ at[t] \in {"spinBkl", "y_spin"}
        /\ bkl = None
        /\ bkl'   = c
        /\ bklIF' = fl[c]
        /\ fl'    = [fl EXCEPT ![c] = FALSE]
        /\ at'    = [at EXCEPT ![t] = IF at[t] = "y_spin" THEN "y_held" ELSE "held"]
        /\ UNCHANGED <<slotVars, inIrq, tgt, current, stack, phase, intr, sched,
                       schedIF, globVars>>

\* bkl_unlock: interrupts come back if they were on at bkl_lock.
bkl_unlock(c) ==
    /\ bkl'  = None /\ bklIF' = FALSE
    /\ intr' = [intr EXCEPT ![c] = bklIF]
    /\ UNCHANGED <<sched, schedIF>>

\* The user task t is in a syscall, at a point where it may block or end.
InSyscall(c, t) ==
    phase[c] = "exec" /\ current[c] = t /\ kind[t] = "user" /\ at[t] \in {"held", "y_held"}

\* The end of syscall_dispatch: bkl_unlock and the iret that re-enables
\* interrupts in ring 3.
SyscallReturn(c) ==
    LET t == current[c]
    IN  /\ InSyscall(c, t)
        /\ bkl'  = None /\ bklIF' = FALSE
        /\ intr' = [intr EXCEPT ![c] = TRUE]
        /\ at'   = [at EXCEPT ![t] = "run"]
        /\ UNCHANGED <<slotVars, inIrq, tgt, current, stack, phase, fl, sched,
                       schedIF, globVars>>

\* Mutant: task_yield schedules away with the BKL held.
YieldHolding(c) ==
    LET t == current[c]
    IN  /\ InSyscall(c, t)
        /\ at' = [at EXCEPT ![t] = "y_sched"]
        /\ UNCHANGED <<slotVars, inIrq, tgt, cpuVars, lockVars, globVars>>

\* task_yield (SYS_YIELD and every blocking read, write and accept): the BKL
\* is dropped across schedule().
Yield(c) ==
    LET t == current[c]
    IN  /\ InSyscall(c, t)
        /\ at' = [at EXCEPT ![t] = "y_sched"]
        /\ bkl_unlock(c)
        /\ UNCHANGED <<slotVars, inIrq, tgt, current, stack, phase, fl, globVars>>

\* pit_sleep inside a syscall: the BKL is dropped around the hlt loop.
Sleep(c) ==
    LET t == current[c]
    IN  /\ Executes(c, t, "held")
        /\ kind[t] = "user"
        /\ at' = [at EXCEPT ![t] = "sleep"]
        /\ bkl_unlock(c)
        /\ UNCHANGED <<slotVars, inIrq, tgt, current, stack, phase, fl, globVars>>

-----------------------------------------------------------------------------
(* Creating tasks                                                          *)

Least(i, S) == i \in S /\ \A j \in S : i <= j

\* Mutant: the scan runs one entry past the table (i <= TASK_MAX).
FreeSlotsPastEnd ==
    {i \in 1 .. TASK_MAX : i = TASK_MAX \/ state[i] \in {"UNUSED", "DEAD"}}

\* task_create and find_free_slot accept DEAD slots as well as UNUSED ones.
FreeSlots == {i \in Slots \ {0} : state[i] \in {"UNUSED", "DEAD"}}

NextBoot == IF boot = "kernel" THEN "user" ELSE "done"

\* kmain is inside task_create: first for the kernel tasks, then, under the
\* BKL, for init.
KmainAt(c, p) ==
    /\ phase[c] = "exec"
    /\ current[c] = 0
    /\ \/ p = "claim" /\ boot = "kernel" /\ at[0] = "run"
       \/ p = "claim" /\ boot = "user" /\ at[0] = "held"
       \/ p # "claim" /\ at[0] = p

\* Mutant: the slot is reserved as READY.
CreateClaimReady(c) ==
    /\ KmainAt(c, "claim")
    /\ sched = None
    /\ \E i \in FreeSlots :
          /\ Least(i, FreeSlots)
          /\ state' = [state EXCEPT ![i] = "READY"]
          /\ next'  = [next EXCEPT ![i] = None]
          /\ tgt'   = [tgt EXCEPT ![0] = i]
    /\ at' = [at EXCEPT ![0] = "c_build"]
    /\ UNCHANGED <<id, parent, kind, tcb, inIrq, cpuVars, lockVars, globVars>>

\* task_create, first critical section: reserve a slot as BLOCKED.
CreateClaim(c) ==
    /\ KmainAt(c, "claim")
    /\ sched = None
    /\ \E i \in FreeSlots :
          /\ Least(i, FreeSlots)
          /\ state' = [state EXCEPT ![i] = "BLOCKED"]
          /\ next'  = [next EXCEPT ![i] = None]
          /\ tgt'   = [tgt EXCEPT ![0] = i]
    /\ at' = [at EXCEPT ![0] = "c_build"]
    /\ UNCHANGED <<id, parent, kind, tcb, inIrq, cpuVars, lockVars, globVars>>

\* kmalloc failed: the slot goes back.
CreateFail(c) ==
    /\ KmainAt(c, "c_build")
    /\ sched = None
    /\ state' = [state EXCEPT ![tgt[0]] = "UNUSED"]
    /\ at'    = [at EXCEPT ![0] = IF boot = "user" THEN "held" ELSE "run"]
    /\ tgt'   = [tgt EXCEPT ![0] = 0]
    /\ boot'  = NextBoot
    /\ UNCHANGED <<next, id, parent, kind, tcb, inIrq, cpuVars, lockVars,
                   nextId, initPid, reused>>

\* The TCB is filled in and, in the second critical section, spliced into the
\* ring right after the creator; it stays BLOCKED.
CreateBuild(c) ==
    LET i == tgt[0]
    IN  /\ KmainAt(c, "c_build")
        /\ sched = None
        /\ next'   = [next EXCEPT ![i] = IF next[0] = None THEN 0 ELSE next[0],
                                  ![0] = i]
        /\ id'     = [id EXCEPT ![i] = nextId]
        /\ parent' = [parent EXCEPT ![i] = 0]
        /\ kind'   = [kind EXCEPT ![i] = boot]
        /\ tcb'    = [tcb EXCEPT ![i] = TRUE]
        /\ at'     = [at EXCEPT ![i] = "new", ![0] = "c_ready"]
        /\ inIrq'  = [inIrq EXCEPT ![i] = FALSE]
        /\ nextId' = nextId + 1
        /\ UNCHANGED <<state, tgt, cpuVars, lockVars, initPid, boot, reused>>

\* task_make_runnable, and for init task_set_init_pid.
CreateReady(c) ==
    LET i == tgt[0]
    IN  /\ KmainAt(c, "c_ready")
        /\ sched = None
        /\ state'   = [state EXCEPT ![i] = "READY"]
        /\ initPid' = IF boot = "user" THEN id[i] ELSE initPid
        /\ at'      = [at EXCEPT ![0] = IF boot = "user" THEN "held" ELSE "run"]
        /\ tgt'     = [tgt EXCEPT ![0] = 0]
        /\ boot'    = NextBoot
        /\ UNCHANGED <<next, id, parent, kind, tcb, inIrq, cpuVars, lockVars,
                       nextId, reused>>

\* kmain's bkl_unlock after the launch of init; from here on it only halts.
BootDone(c) ==
    /\ Executes(c, 0, "held")
    /\ boot = "done"
    /\ at' = [at EXCEPT ![0] = "run"]
    /\ bkl_unlock(c)
    /\ UNCHANGED <<slotVars, inIrq, tgt, current, stack, phase, fl, globVars>>

\* task_fork up to the splice.  A failed allocation changes nothing, and the
\* syscall simply returns.
ForkBuild(c) ==
    LET t == current[c]
    IN  /\ Executes(c, t, "held")
        /\ kind[t] = "user" /\ tcb[t]
        /\ nextId <= MaxPid
        /\ \E i \in FreeSlots :
              /\ Least(i, FreeSlots)
              /\ state'  = [state EXCEPT ![i] = "BLOCKED"]
              /\ next'   = [next EXCEPT ![i] = None]
              /\ id'     = [id EXCEPT ![i] = nextId]
              /\ parent' = [parent EXCEPT ![i] = id[t]]
              /\ kind'   = [kind EXCEPT ![i] = "user"]
              /\ tcb'    = [tcb EXCEPT ![i] = TRUE]
              /\ at'     = [at EXCEPT ![i] = "new", ![t] = "f_splice"]
              /\ inIrq'  = [inIrq EXCEPT ![i] = FALSE]
              /\ tgt'    = [tgt EXCEPT ![t] = i]
              /\ reused' = (reused \/ i \in {s \in Slots : tcb[s]})
        /\ nextId' = nextId + 1
        /\ UNCHANGED <<cpuVars, lockVars, initPid, boot>>

\* The splice and the READY transition, in one critical section.
ForkSplice(c) ==
    LET t     == current[c]
        child == tgt[t]
    IN  /\ Executes(c, t, "f_splice")
        /\ sched = None
        /\ next'  = [next EXCEPT ![child] = next[t], ![t] = child]
        /\ state' = [state EXCEPT ![child] = "READY"]
        /\ at'    = [at EXCEPT ![t] = "y_held"]
        /\ tgt'   = [tgt EXCEPT ![t] = 0]
        /\ UNCHANGED <<id, parent, kind, tcb, inIrq, cpuVars, lockVars, globVars>>

-----------------------------------------------------------------------------
(* Exit, wait and the reaper                                               *)

\* task_exit_current: children go to init, a parent asleep in wait (or init,
\* if it has just adopted a zombie) is woken, and the task becomes a ZOMBIE if
\* its parent's slot is in use, else DEAD.  SYS_EXIT then drops the BKL.
Exit(c) ==
    LET t        == current[c]
        Adopts   == initPid # 0 /\ id[t] # initPid
        Orphans  == {i \in Slots : state[i] # "UNUSED" /\ parent[i] = id[t]}
        Parents  == {i \in Slots : /\ parent[t] # 0
                                   /\ id[i] = parent[t] /\ state[i] # "UNUSED"}
        Woken(i) == /\ state[i] = "BLOCKED_ON_CHILD"
                    /\ \/ i \in Parents
                       \/ /\ Adopts /\ id[i] = initPid
                          /\ \E z \in Orphans : state[z] = "ZOMBIE"
    IN  /\ InSyscall(c, t)
        /\ parent' = [i \in Slots |-> IF Adopts /\ i \in Orphans
                                      THEN initPid ELSE parent[i]]
        /\ state'  = [i \in Slots |->
                        CASE i = t    -> IF Parents # {} THEN "ZOMBIE" ELSE "DEAD"
                          [] Woken(i) -> "READY"
                          [] OTHER    -> state[i]]
        /\ at' = [at EXCEPT ![t] = "dying"]
        /\ bkl_unlock(c)
        /\ UNCHANGED <<next, id, kind, tcb, inIrq, tgt, current, stack, phase,
                       fl, globVars>>

\* Mutant: the freed slot is left on the ring.
StillSpliced(s) == next

\* The ring without slot s: the first predecessor met when walking from s is
\* linked past it.
Unspliced(s) ==
    LET ring == Follow(next[s], None)
        Hits == {k \in DOMAIN ring : ring[k] # None /\ next[ring[k]] = s}
        pred == ring[CHOOSE k \in Hits : \A j \in Hits : k <= j]
    IN  IF Hits # {} THEN [next EXCEPT ![pred] = next[s]] ELSE next

ZombiesOf(t) == {i \in Slots : state[i] = "ZOMBIE" /\ parent[i] = id[t]}

ChildrenOf(t) == {i \in Slots : /\ parent[i] = id[t]
                                /\ state[i] \notin {"UNUSED", "DEAD"}}

\* SYS_WAIT drops the BKL before task_wait_current.
WaitEnter(c) ==
    LET t == current[c]
    IN  /\ Executes(c, t, "held")
        /\ kind[t] = "user"
        /\ at' = [at EXCEPT ![t] = "w_scan"]
        /\ bkl_unlock(c)
        /\ UNCHANGED <<slotVars, inIrq, tgt, current, stack, phase, fl, globVars>>

\* reap_one_zombie_of, up to the end of its critical section.
WaitUnsplice(c) ==
    LET t == current[c]
    IN  /\ Executes(c, t, "w_scan")
        /\ sched = None
        /\ \E z \in ZombiesOf(t) :
              /\ Least(z, ZombiesOf(t))
              /\ next' = Unspliced(z)
              /\ tgt'  = [tgt EXCEPT ![t] = z]
        /\ at' = [at EXCEPT ![t] = "w_free"]
        /\ UNCHANGED <<state, id, parent, kind, tcb, inIrq, cpuVars, lockVars,
                       globVars>>

\* No zombie: return -1 without children, otherwise go to sleep.
WaitNone(c) ==
    LET t == current[c]
    IN  /\ Executes(c, t, "w_scan")
        /\ ZombiesOf(t) = {}
        /\ at' = [at EXCEPT ![t] = IF ChildrenOf(t) = {} THEN "w_done" ELSE "w_sleep"]
        /\ UNCHANGED <<slotVars, inIrq, tgt, cpuVars, lockVars, globVars>>

WaitSleep(c) ==
    LET t == current[c]
    IN  /\ Executes(c, t, "w_sleep")
        /\ state' = [state EXCEPT ![t] = "BLOCKED_ON_CHILD"]
        /\ at'    = [at EXCEPT ![t] = "w_sched"]
        /\ UNCHANGED <<next, id, parent, kind, tcb, inIrq, tgt, cpuVars,
                       lockVars, globVars>>

\* The harvested slot is marked UNUSED first ...
WaitFree(c) ==
    LET t == current[c]
    IN  /\ Executes(c, t, "w_free")
        /\ state' = [state EXCEPT ![tgt[t]] = "UNUSED"]
        /\ at'    = [at EXCEPT ![t] = "w_wipe"]
        /\ UNCHANGED <<next, id, parent, kind, tcb, inIrq, tgt, cpuVars,
                       lockVars, globVars>>

\* ... and its remaining fields are cleared afterwards.
WaitWipe(c) ==
    LET t == current[c]
    IN  /\ Executes(c, t, "w_wipe")
        /\ next' = [next EXCEPT ![tgt[t]] = None]
        /\ tcb'  = [tcb EXCEPT ![tgt[t]] = FALSE]
        /\ at'   = [at EXCEPT ![t] = "w_done"]
        /\ tgt'  = [tgt EXCEPT ![t] = 0]
        /\ UNCHANGED <<state, id, parent, kind, inIrq, cpuVars, lockVars, globVars>>

\* SYS_WAIT_NB harvests under the BKL.
WaitNb(c) ==
    LET t == current[c]
    IN  /\ Executes(c, t, "held")
        /\ kind[t] = "user"
        /\ sched = None
        /\ \E z \in ZombiesOf(t) :
              /\ Least(z, ZombiesOf(t))
              /\ next'  = [Unspliced(z) EXCEPT ![z] = None]
              /\ state' = [state EXCEPT ![z] = "UNUSED"]
              /\ tcb'   = [tcb EXCEPT ![z] = FALSE]
        /\ at' = [at EXCEPT ![t] = "y_held"]
        /\ UNCHANGED <<id, parent, kind, inIrq, tgt, cpuVars, lockVars, globVars>>

\* Mutant: the check that no CPU has the slot as its current is dropped.
ReapableRunning(t) == {i \in Slots : /\ i > tgt[t]
                                     /\ kind[i] # "idle"
                                     /\ state[i] = "DEAD"
                                     /\ tcb[i]}

\* What the reaper's sweep, which stands at slot tgt[t], frees next.
Reapable(t) == {i \in Slots : /\ i > tgt[t]
                              /\ kind[i] # "idle"
                              /\ state[i] = "DEAD"
                              /\ tcb[i]
                              /\ \A c \in CPUs : current[c] # i}

\* task_reaper: the checks on a DEAD slot, made without the scheduler lock.
ReaperCheck(c) ==
    LET t == current[c]
    IN  /\ Executes(c, t, "held")
        /\ kind[t] = "kernel"
        /\ \E i \in Reapable(t) :
              Least(i, Reapable(t)) /\ tgt' = [tgt EXCEPT ![t] = i]
        /\ at' = [at EXCEPT ![t] = "r_unsplice"]
        /\ UNCHANGED <<slotVars, inIrq, cpuVars, lockVars, globVars>>

ReaperUnsplice(c) ==
    LET t == current[c]
    IN  /\ Executes(c, t, "r_unsplice")
        /\ sched = None
        /\ next' = Unspliced(tgt[t])
        /\ at'   = [at EXCEPT ![t] = "r_free"]
        /\ UNCHANGED <<state, id, parent, kind, tcb, inIrq, tgt, cpuVars,
                       lockVars, globVars>>

ReaperFree(c) ==
    LET t == current[c]
    IN  /\ Executes(c, t, "r_free")
        /\ state' = [state EXCEPT ![tgt[t]] = "UNUSED"]
        /\ next'  = [next EXCEPT ![tgt[t]] = None]
        /\ tcb'   = [tcb EXCEPT ![tgt[t]] = FALSE]
        /\ at'    = [at EXCEPT ![t] = "held"]
        /\ UNCHANGED <<id, parent, kind, inIrq, tgt, cpuVars, lockVars, globVars>>

\* The sweep is over; back to pit_sleep.
ReaperDone(c) ==
    LET t == current[c]
    IN  /\ Executes(c, t, "held")
        /\ kind[t] = "kernel"
        /\ Reapable(t) = {}
        /\ at'  = [at EXCEPT ![t] = "run"]
        /\ tgt' = [tgt EXCEPT ![t] = 0]
        /\ bkl_unlock(c)
        /\ UNCHANGED <<slotVars, inIrq, current, stack, phase, fl, globVars>>

-----------------------------------------------------------------------------
Schedule(c) == Keep(c) \/ Commit(c) \/ Switch(c) \/ Finish(c) \/ CallSchedule(c)

Kmain(c) == CreateClaim(c) \/ CreateFail(c) \/ CreateBuild(c) \/ CreateReady(c)
            \/ BootDone(c)

Syscall(c) == \/ SyscallReturn(c) \/ Yield(c) \/ Sleep(c)
              \/ ForkBuild(c) \/ ForkSplice(c) \/ Exit(c)
              \/ WaitEnter(c) \/ WaitUnsplice(c) \/ WaitNone(c) \/ WaitSleep(c)
              \/ WaitFree(c) \/ WaitWipe(c) \/ WaitNb(c)

Reaper(c) == ReaperCheck(c) \/ ReaperUnsplice(c) \/ ReaperFree(c) \/ ReaperDone(c)

Bkl(c) == SpinBkl(c) \/ AcquireBkl(c)

Next == \E c \in CPUs : \/ Tick(c) \/ Schedule(c) \/ Bkl(c) \/ Kmain(c)
                        \/ Syscall(c) \/ Reaper(c)

Spec == Init /\ [][Next]_vars

-----------------------------------------------------------------------------
(* Properties                                                              *)

\* Two CPUs never run on one kernel stack, nor believe they run one task:
\* the hazard schedule() holds g_sched_lock across task_switch for, and the
\* one its next == prev branch reintroduced until session 80.
StackExclusive ==
    \A a, b \in CPUs : a # b => stack[a] # stack[b] /\ current[a] # current[b]

\* The stack a CPU stands on belongs to a slot that has been neither freed (by
\* the reaper or by a parent's wait) nor rebuilt for another task.
LiveStack ==
    \A c \in CPUs : /\ state[stack[c]] # "UNUSED"
                    /\ phase[c] = "exec" => at[stack[c]] # "new"

\* No CPU spins on a lock it holds itself: an interrupt that enters schedule()
\* between task_switch and the hand-off's unlock would, and so would a
\* bkl_lock under the BKL.
NoSelfDeadlock ==
    \A c \in CPUs :
        /\ phase[c] = "spin" => sched # c
        /\ phase[c] = "exec" /\ at[current[c]] \in {"spinBkl", "y_spin"} => bkl # c

\* The BKL is held only by the task its CPU is executing, never by one that
\* has been switched out (every other task on that CPU would spin forever).
BklHolderRuns ==
    \A c \in CPUs : bkl = c <=> phase[c] = "exec" /\ HoldsBkl(current[c])

\* Whoever halts (pit_sleep, the idle loops) has interrupts enabled, so that
\* the next tick wakes it, whatever flags the lock hand-off left behind.
HltWakes ==
    \A c \in CPUs :
        phase[c] = "exec" /\ at[current[c]] \in {"run", "sleep"} => intr[c]

\* A slot that task_create or task_fork is still filling in is not dispatched.
HalfBuiltHidden ==
    \A t \in Slots :
        at[t] \in {"c_build", "c_ready", "f_splice"} =>
            \A c \in CPUs : current[c] # tgt[t]

\* Following next from kmain leads back to kmain, meets every task that runs,
\* can run or sleeps in wait, and meets no freed slot, as long as no fork has
\* taken a slot whose last owner was not cleared: a DEAD one that is still on the
\* ring, or one that a wait is still clearing.  Such a fork does break the ring:
\* the early clean-up that reap_one_zombie_of's comment describes keeps forks
\* from a still-spliced slot only when the last owner was a zombie.
RingIntact ==
    LET w    == Follow(0, None)
        Ring == {w[k] : k \in DOMAIN w}
    IN  \/ reused
        \/ /\ \E k \in DOMAIN w \ {0} : w[k] = 0
           /\ \A s \in Ring : state[s] # "UNUSED"
           /\ \A s \in Slots :
                 /\ state[s] \in {"READY", "RUNNING", "BLOCKED_ON_CHILD"}
                 /\ kind[s] # "idle"
                 => s \in Ring

\* When a CPU is about to choose and some READY task may run on it, it chooses
\* such a task: it does not go idle, and pick_next_ready's walk from the task it
\* leaves, which may be a zombie, on its way off the ring or an idle task, does
\* not miss it.  (Until a fork reuses a slot that was not cleared.)
WorkConserving ==
    \A c \in CPUs :
        /\ phase[c] = "spin"
        /\ \E s \in Slots : pickable_by(Demoted(c), s, c)
        => reused \/ \A n \in Chosen(c) : pickable_by(Demoted(c), n, c)

\* What the header says of BLOCKED_ON_CHILD, "in sys_wait, no zombie child
\* yet": a parent asleep in wait has no child left to harvest.
WaiterHasNoZombie ==
    \A p \in Slots : state[p] = "BLOCKED_ON_CHILD" => ZombiesOf(p) = {}

-----------------------------------------------------------------------------
(* Liveness                                                                *)

\* What a CPU does by itself once it is inside the kernel.
KernelCode(c) ==
    \/ SpinBkl(c) /\ at[current[c]] # "run"
    \/ Schedule(c) \/ AcquireBkl(c) \/ Kmain(c) \/ Syscall(c) \/ Reaper(c)

\* A CPU keeps executing kernel code, and a timer interrupt stays pending until
\* interrupts are on.  Nothing is assumed of ring 3, nor of who wins a lock.
Fairness == \A c \in CPUs : SF_vars(Tick(c)) /\ WF_vars(KernelCode(c))

FairSpec == Spec /\ Fairness

\* Round robin starves no one: a READY task gets a CPU, however the others
\* yield, fork, exit and wait, unless a fork reuses a slot that was not cleared.
ReadyRuns ==
    \A s \in Slots : (state[s] = "READY") ~> (state[s] # "READY" \/ reused)

=============================================================================
