------------------------------- MODULE Signal -------------------------------
(***************************************************************************)
(* Signals, process groups and ptrace (kernel/signal.c, kernel/ptrace.c,   *)
(* the traps of kernel/isr.c, the limits of kernel/pit.c, and what fork,   *)
(* exec and exit of kernel/task.c do to a task's signal state).            *)
(*                                                                         *)
(* User tasks run on CPU 0 only and a system call ends with a delivery, so *)
(* a call and its tail are one step.  A task that the timer preempted gets *)
(* its delivery when it is resumed; one that was stopped, or that fork has *)
(* just made, goes back to ring 3 without one.  A task that waits inside a *)
(* call receives nothing before that call returns.                         *)
(***************************************************************************)
EXTENDS Integers, Sequences, FiniteSets

CONSTANTS
    Procs,      \* pids; 1 is the first process, the others are forked
    Sigs,       \* the signals that are sent
    Hooked,     \* workload: which process installs a handler for which signal
    Groups,     \* workload: the pgid that setpgid gives
    Limited,    \* the processes that have a CPU or wall-clock limit
    MaxSends    \* bound: calls of kill, killpg and attach in a behaviour

SIGHUP  == 1
SIGINT  == 2
SIGKILL == 9
SIGCHLD == 17
SIGCONT == 18
SIGSTOP == 19
SIGTSTP == 20
NSIG    == 32

ASSUME SignalAssumption ==
    /\ 1 \in Procs /\ Procs \subseteq Nat \ {0}
    /\ {SIGKILL, SIGCHLD, SIGCONT, SIGSTOP} \subseteq Sigs
    /\ Sigs \subseteq 1 .. (NSIG - 1) /\ Hooked \subseteq Procs \X Sigs
    /\ Groups \subseteq Nat \ {0} /\ Limited \subseteq Procs /\ MaxSends \in Nat

Nobody == 0

VARIABLES
    task,       \* the signal and trace fields of each struct task
    cur,        \* the process that runs in user mode on CPU 0, or Nobody
    due,        \* was the process preempted, so that a delivery is due?
    call,       \* "user", or the call that the process waits in
    target,     \* the process that a PTRACE_WAIT waits for
    fg,         \* fg_pgrp of the pseudo-terminal (Pty.tla), 0 for none
    sends,      \* calls counted against MaxSends
    lastJob,    \* history: was the last of CONT and STOP/TSTP sent a stop?
    kept        \* history: the mask at the last exec, which nobody unmasks

sigVars == <<task, cur, due, call, target, fg, sends, lastJob, kept>>

TaskStates == {"UNUSED", "READY", "STOPPED", "ZOMBIE", "DEAD"}

Fields ==
    [state : TaskStates, pending : SUBSET Sigs, mask : SUBSET Sigs,
     handler : [Sigs -> {"DFL", "IGN", "user"}], tramp : BOOLEAN,
     frames : Seq(Sigs),                       \* handlers under way, innermost last
     pgid : Nat, parent : Procs \cup {Nobody},
     ends : SUBSET {"master", "slave"},        \* of the pseudo-terminal
     tracer : Procs \cup {Nobody}, traced : BOOLEAN]   \* tracer_pid, traced_stopped

SigTypeOK ==
    /\ \A p \in Procs : task[p] \in Fields
    /\ DOMAIN task = Procs /\ DOMAIN call = Procs
    /\ target \in [Procs -> Procs \cup {Nobody}]
    /\ cur \in Procs \cup {Nobody} /\ due \in [Procs -> BOOLEAN]
    /\ cur # Nobody => task[cur].state = "READY" /\ call[cur] = "user" /\ ~due[cur]
    /\ fg \in Nat /\ sends \in 0 .. MaxSends
    /\ lastJob \in [Procs -> BOOLEAN] /\ kept \in [Procs -> SUBSET Sigs]

\* signal_init_task.
Fresh ==
    [state |-> "UNUSED", pending |-> {}, mask |-> {},
     handler |-> [s \in Sigs |-> "DFL"], tramp |-> FALSE, frames |-> <<>>,
     pgid |-> 1, parent |-> Nobody, ends |-> {}, tracer |-> Nobody, traced |-> FALSE]

SigInit ==
    /\ task = [p \in Procs |-> IF p = 1 THEN [Fresh EXCEPT !.state = "READY"] ELSE Fresh]
    /\ cur = 1 /\ due = [p \in Procs |-> FALSE]
    /\ call = [p \in Procs |-> "user"]
    /\ target = [p \in Procs |-> Nobody]
    /\ fg = 0 /\ sends = 0
    /\ lastJob = [p \in Procs |-> FALSE] /\ kept = [p \in Procs |-> {}]

-----------------------------------------------------------------------------
(* Sending                                                                 *)

Stops == {SIGSTOP, SIGTSTP}

\* The pending set after signal_send.  Mutant: a stop leaves
\* CONT pending.
PendedCont(pend, s) == IF s = SIGCONT THEN (pend \ Stops) \cup {s} ELSE pend \cup {s}
Pended(pend, s) ==
    CASE s = SIGCONT -> (pend \ Stops) \cup {s}
      [] s \in Stops -> (pend \ {SIGCONT}) \cup {s}
      [] OTHER       -> pend \cup {s}

\* signal_send to every process of Q, of the tasks T.
Send(T, Q, s) ==
    [p \in Procs |->
        IF p \notin Q THEN T[p]
        ELSE [T[p] EXCEPT !.pending = Pended(@, s),
                          !.state = IF s = SIGCONT /\ @ = "STOPPED" THEN "READY" ELSE @]]

\* The processes that signal_send finds by their pid, or none.
WithPid(q) == {p \in Procs : p = q /\ task[p].state # "UNUSED"}

\* The processes signal_send_pgrp sends to.
Members(T, g) == {p \in Procs : T[p].pgid = g /\ T[p].state \in {"READY", "STOPPED"}}

\* What lastJob becomes when s is sent to Q.
JobNote(Q, s) ==
    [p \in Procs |-> IF p \in Q /\ s \in Stops \cup {SIGCONT} THEN s # SIGCONT ELSE lastJob[p]]

-----------------------------------------------------------------------------
(* Exit                                                                    *)

Holders(T, e) == {p \in Procs : e \in T[p].ends}

\* pty_close_master and pty_close_slave: p gives up the ends E; the last master
\* end hangs up the terminal's foreground group.
CloseEnds(T, p, E) ==
    LET U == [T EXCEPT ![p].ends = @ \ E]
    IN  IF Holders(T, "master") # {} /\ Holders(U, "master") = {} /\ fg # 0
        THEN Send(U, Members(U, fg), SIGHUP) ELSE U

\* task_exit_current: the files are closed, children go to init, and p is a
\* zombie.  Neither the parent nor a tracee gets a signal.
Exited(T, p) ==
    LET U == CloseEnds(T, p, T[p].ends)
    IN  [q \in Procs |->
            IF q = p THEN [U[p] EXCEPT !.state = "ZOMBIE"]
            ELSE [U[q] EXCEPT !.parent = IF @ = p /\ p # 1 THEN 1 ELSE @]]

-----------------------------------------------------------------------------
(* Delivery                                                                *)

Deliverable(t) == t.pending \ t.mask

\* pick_pending: the lowest number.
Lowest(S) == CHOOSE s \in S : \A r \in S : s <= r

\* Delivery to a user handler: a frame on the user's stack, and the signal is
\* masked until sigreturn.  Mutant: it is not masked.
EnterHandlerOpen(t, s) == [t EXCEPT !.frames = Append(@, s)]
EnterHandler(t, s) == [t EXCEPT !.frames = Append(@, s), !.mask = @ \cup {s}]

\* Default actions ACT_IGN and ACT_CONT, which do nothing at delivery.
Ignored == {SIGCHLD, SIGCONT}

\* What signal_check_and_deliver does with the consumed signal s of p.
Acted(T, p, s) ==
    CASE T[p].handler[s] = "user" ->
             IF T[p].tramp THEN [T EXCEPT ![p] = EnterHandler(@, s)] ELSE T
      [] T[p].handler[s] = "DFL" /\ s \in Stops -> [T EXCEPT ![p].state = "STOPPED"]
      [] T[p].handler[s] = "DFL" /\ s \notin Stops \cup Ignored -> Exited(T, p)
      [] OTHER -> T

\* signal_check_and_deliver for p, about to return to ring 3 from an interrupt or
\* a system call that made T of the tasks.
AtReturn(T, p) ==
    IF Deliverable(T[p]) = {} THEN T
    ELSE LET s == Lowest(Deliverable(T[p]))
         IN  Acted([T EXCEPT ![p].pending = @ \ {s}], p, s)

\* p runs in user mode.
Runs(p) == cur = p

\* Mutant of Become: who stops or ends goes on running.
BecomeRunning(T) == task' = T /\ UNCHANGED <<cur, due>>

\* The tasks become T.  Who stopped or ended has left the CPU.
Become(T) ==
    /\ task' = T
    /\ cur' = IF cur # Nobody /\ T[cur].state # "READY" THEN Nobody ELSE cur
    /\ UNCHANGED due

\* A call that changes nothing but the tasks.
Only(T) == Become(T) /\ UNCHANGED <<call, target, fg, sends, lastJob, kept>>

-----------------------------------------------------------------------------
(* System calls of signals and process groups                              *)

\* pit_irq finds p over a limit: SIGKILL, without signal_send.
Overrun(p, t) == [t EXCEPT !.pending = @ \cup {SIGKILL}]

\* The tasks when the timer has interrupted p.
Charged(p) == {task} \cup {[task EXCEPT ![q] = Overrun(q, @)] : q \in Limited \cap {p}}

\* A timer interrupt that returns to p, or a call of p that fails: a delivery.
Tick(p) == Runs(p) /\ \E T \in Charged(p) : Only(AtReturn(T, p))

\* A timer interrupt that switches to another task.
Preempt(p) ==
    /\ Runs(p)
    /\ task' \in Charged(p)
    /\ cur' = Nobody
    /\ due' = [due EXCEPT ![p] = TRUE]
    /\ UNCHANGED <<call, target, fg, sends, lastJob, kept>>

\* The scheduler picks p, which was preempted, stopped or has just been forked.
Dispatch(p) ==
    /\ cur = Nobody /\ task[p].state = "READY" /\ call[p] = "user"
    /\ task' = IF due[p] THEN AtReturn(task, p) ELSE task
    /\ cur' = IF task'[p].state = "READY" THEN p ELSE Nobody
    /\ due' = [due EXCEPT ![p] = FALSE]
    /\ UNCHANGED <<call, target, fg, sends, lastJob, kept>>

\* Sending s to the processes Q by a call of p.
SendTo(p, Q, s) ==
    /\ Runs(p) /\ sends < MaxSends
    /\ sends' = sends + 1
    /\ Become(AtReturn(Send(task, Q, s), p))
    /\ lastJob' = JobNote(Q, s)
    /\ UNCHANGED <<call, target, fg, kept>>

Kill(p, q, s) == SendTo(p, WithPid(q), s)

KillPg(p, g, s) == SendTo(p, Members(task, g), s)

\* signal_install refuses the two.
Catchable(s) == s \notin {SIGKILL, SIGSTOP}

\* SYS_SIGACTION, with libuser's trampoline.
SigAction(p, s, h) ==
    /\ Runs(p) /\ Catchable(s)
    /\ Only(AtReturn([task EXCEPT ![p].handler[s] = h, ![p].tramp = TRUE], p))

\* SYS_SIGRETURN ends the innermost handler; it has no delivery.
SigReturn(p) ==
    /\ Runs(p) /\ task[p].frames # <<>>
    /\ LET n == Len(task[p].frames)
       IN  Only([task EXCEPT ![p].frames = SubSeq(@, 1, n - 1),
                             ![p].mask = @ \ {task[p].frames[n]}])

\* SYS_SETPGID of any process, and SYS_SETSID when g is the caller's own pid.
SetPgid(p, q, g) ==
    /\ Runs(p) /\ WithPid(q) # {}
    /\ Only(AtReturn([task EXCEPT ![q].pgid = g], p))

-----------------------------------------------------------------------------
(* Process life                                                            *)

\* task_fork: handlers, mask, stack and group are copied; nothing is pending and
\* nobody traces the child.
Fork(p, q) ==
    /\ Runs(p) /\ task[q].state = "UNUSED"
    /\ Become(AtReturn([task EXCEPT ![q] =
                           [task[p] EXCEPT !.pending = {}, !.parent = p,
                                           !.tracer = Nobody, !.traced = FALSE]], p))
    /\ kept' = [kept EXCEPT ![q] = kept[p]]
    /\ UNCHANGED <<call, target, fg, sends, lastJob>>

\* task_exec_inplace with signal_reset_on_exec: the mask and the pending set stay.
Exec(p) ==
    /\ Runs(p)
    /\ Become(AtReturn([task EXCEPT
                 ![p].handler = [s \in Sigs |-> IF @[s] = "IGN" THEN "IGN" ELSE "DFL"],
                 ![p].tramp = FALSE, ![p].frames = <<>>], p))
    /\ kept' = [kept EXCEPT ![p] = task[p].mask]
    /\ UNCHANGED <<call, target, fg, sends, lastJob>>

\* SYS_EXIT.
Exit(p) ==
    /\ Runs(p)
    /\ Only(Exited(task, p))

\* waitpid, or the reaper (Task.tla).
Reaped(p) ==
    /\ task[p].state = "ZOMBIE"
    /\ Only([task EXCEPT ![p].state = "DEAD"])

-----------------------------------------------------------------------------
(* ptrace                                                                  *)

TraceMe(p) ==
    /\ Runs(p)
    /\ Only(AtReturn([task EXCEPT ![p].tracer = task[p].parent], p))

\* task_for_pid.
Findable(q) == task[q].state \notin {"UNUSED", "DEAD"}

Attach(p, q) ==
    /\ Runs(p) /\ Findable(q) /\ sends < MaxSends
    /\ task[q].tracer \in {Nobody, p}
    /\ Become(AtReturn(Send([task EXCEPT ![q].tracer = p], {q}, SIGSTOP), p))
    /\ sends' = sends + 1
    /\ lastJob' = JobNote({q}, SIGSTOP)
    /\ UNCHANGED <<call, target, fg, kept>>

Resumed(t) == [t EXCEPT !.traced = FALSE, !.state = IF @ = "STOPPED" THEN "READY" ELSE @]

\* PTRACE_DETACH: a STOP that is still pending stays so.
Detach(p, q) ==
    /\ Runs(p) /\ Findable(q) /\ task[q].tracer = p
    /\ Only(AtReturn([task EXCEPT ![q] = [Resumed(@) EXCEPT !.tracer = Nobody]], p))

\* PTRACE_CONT and PTRACE_STEP, which only makes the next trap come sooner.
Cont(p, q) ==
    /\ Runs(p) /\ Findable(q) /\ task[q].tracer = p /\ task[q].traced
    /\ Only(AtReturn([task EXCEPT ![q] = Resumed(@)], p))

\* trap_stop_for_tracer: INT3 or a single step of a traced process.  The handler
\* of exceptions ends without a delivery.
Trap(p) ==
    /\ Runs(p) /\ task[p].tracer # Nobody
    /\ Only(Send([task EXCEPT ![p].traced = TRUE, ![p].state = "STOPPED"],
                 WithPid(task[p].tracer), SIGCHLD))

\* What PTRACE_WAIT waits for.
Answered(q) == task[q].state \in {"ZOMBIE", "DEAD"} \/ task[q].traced

Wait(p, q) ==
    /\ Runs(p) /\ Findable(q)
    /\ p \in {task[q].tracer, task[q].parent}
    /\ IF Answered(q) THEN Only(AtReturn(task, p))
       ELSE /\ call' = [call EXCEPT ![p] = "ptwait"]
            /\ target' = [target EXCEPT ![p] = q]
            /\ cur' = Nobody
            /\ UNCHANGED <<task, due, fg, sends, lastJob, kept>>

\* task_yield returns in PTRACE_WAIT; without an answer it yields again.
WaitResume(p) ==
    /\ cur = Nobody /\ call[p] = "ptwait" /\ Answered(target[p])
    /\ call' = [call EXCEPT ![p] = "user"]
    /\ target' = [target EXCEPT ![p] = Nobody]
    /\ task' = AtReturn(task, p)
    /\ cur' = IF task'[p].state = "READY" THEN p ELSE Nobody
    /\ UNCHANGED <<due, fg, sends, lastJob, kept>>

-----------------------------------------------------------------------------
SigNext ==
    \E p \in Procs :
        \/ Tick(p) \/ Preempt(p) \/ Dispatch(p) \/ SigReturn(p) \/ Exec(p) \/ Exit(p) \/ Reaped(p)
        \/ TraceMe(p) \/ Trap(p) \/ WaitResume(p)
        \/ \E s \in Sigs, q \in Procs : Kill(p, q, s)
        \/ \E s \in Sigs, g \in Groups : KillPg(p, g, s)
        \/ \E s \in Sigs, h \in {"IGN", "user"} : <<p, s>> \in Hooked /\ SigAction(p, s, h)
        \/ \E q \in Procs, g \in Groups : SetPgid(p, q, g)
        \/ \E q \in Procs : Fork(p, q) \/ Attach(p, q) \/ Detach(p, q) \/ Cont(p, q)
                            \/ Wait(p, q)

SigSpec == SigInit /\ [][SigNext]_sigVars

-----------------------------------------------------------------------------
(* Properties                                                              *)

\* A pending CONT and a pending stop never meet: whatever is sent, by kill,
\* killpg, ptrace or a terminal, and delivered in between, the later one stands.
\* A process stands stopped outside of a trace stop only if the last of the two
\* sent to it was a stop, so no order of STOP and CONT leaves it stopped.
JobControlOrder ==
    \A p \in Procs :
        /\ ~(SIGCONT \in task[p].pending /\ task[p].pending \cap Stops # {})
        /\ task[p].state = "STOPPED" /\ ~task[p].traced => lastJob[p]

\* The mask holds exactly the signals whose handlers are under way and what an
\* exec out of a handler left behind, so no handler interrupts itself and
\* sigreturn of nested handlers unmasks the right signal; SIGKILL and SIGSTOP are
\* never masked.
MaskIsFrames ==
    \A p \in Procs :
        LET f == task[p].frames
        IN  /\ task[p].mask = kept[p] \cup {f[i] : i \in DOMAIN f}
            /\ \A i, j \in DOMAIN f : f[i] = f[j] => i = j
            /\ task[p].mask \cap {SIGKILL, SIGSTOP} = {}

=============================================================================
