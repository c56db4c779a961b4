-------------------------------- MODULE Pty ---------------------------------
(***************************************************************************)
(* A pseudo-terminal (kernel/pty.c) and the processes on both sides of it: *)
(* a terminal emulator that holds the master end, a shell and its jobs     *)
(* that hold the slave end.  Composes with Signal: keystrokes become       *)
(* signals of the foreground group, pending signals end a waiting read,    *)
(* and the end of a process closes its ends.  The contents of the rings do *)
(* not matter here, only how many bytes they hold (Pipe.tla treats the     *)
(* ring arithmetic, which is the same).                                    *)
(***************************************************************************)
EXTENDS Signal

CONSTANTS
    PTY_BUF_SZ,     \* bytes of a ring, of which one is always left empty
    Outputs,        \* workload: the n of writes to the slave end
    Keys            \* workload: keystrokes: 0 for a plain byte, or the signal that
                    \* a control character stands for

ASSUME PtyAssumption ==
    /\ PTY_BUF_SZ \in Nat \ {0} /\ Outputs \subseteq Nat \ {0}
    /\ Keys \subseteq {0, SIGINT, SIGTSTP}
    /\ {SIGHUP, SIGINT, SIGTSTP} \subseteq Sigs

VARIABLES
    m_to_s, s_to_m, \* bytes in the two rings
    left            \* what the waiting write of a process still has to put

ptyVars == <<m_to_s, s_to_m, left>>
vars == <<sigVars, ptyVars>>

Calls == {"user", "ptwait", "mread", "sread", "mwrite", "swrite"}

\* What a ring can hold: head + 1 must not meet tail.  Mutant: head must not.
RoomAll == PTY_BUF_SZ
Room == PTY_BUF_SZ - 1

TypeOK ==
    /\ SigTypeOK
    /\ call \in [Procs -> Calls]
    /\ m_to_s \in 0 .. (PTY_BUF_SZ - 1) /\ s_to_m \in 0 .. (PTY_BUF_SZ - 1)
    /\ left \in [Procs -> Nat]

Init ==
    /\ SigInit
    /\ m_to_s = 0 /\ s_to_m = 0
    /\ left = [p \in Procs |-> 0]

-----------------------------------------------------------------------------
Masters == Holders(task, "master")
Slaves  == Holders(task, "slave")

\* p leaves its call, of which T came, for ring 3.
Leave(p, T) ==
    /\ task' = AtReturn(T, p)
    /\ cur' = IF task'[p].state = "READY" THEN p ELSE Nobody
    /\ call' = [call EXCEPT ![p] = "user"]
    /\ left' = [left EXCEPT ![p] = 0]
    /\ UNCHANGED <<due, target, sends, kept>>

\* p yields inside the call c, with n bytes to go.
Yield(p, c, n) ==
    /\ call' = [call EXCEPT ![p] = c]
    /\ left' = [left EXCEPT ![p] = n]
    /\ cur' = Nobody
    /\ UNCHANGED <<due, target, sends, kept>>

\* p is at the loop of the call c: it has just entered it, or task_yield returned.
At(p, c) == \/ cur = p /\ c \in Calls
            \/ cur = Nobody /\ call[p] = c

Smaller(a, b) == IF a <= b THEN a ELSE b

\* Mutant of Interrupted: a waiting read does not look at signals.
InterruptedNever(p) == FALSE

\* signal_interrupted: also a signal whose default action is to do nothing.
Interrupted(p) == Deliverable(task[p]) # {}

\* Mutant of SlaveGate: the end of the master side is not tested.
SlaveGateData == m_to_s > 0

\* The loops of pty_slave_read and pty_master_read end.
SlaveGate == m_to_s > 0 \/ Masters = {}
MasterGate == s_to_m > 0 \/ Slaves = {}

-----------------------------------------------------------------------------
(* System calls on the terminal                                            *)

\* SYS_OPENPTY, when the one slot of the pty table is free.
OpenPty(p) ==
    /\ Runs(p) /\ Masters = {} /\ Slaves = {}
    /\ Leave(p, [task EXCEPT ![p].ends = {"master", "slave"}])
    /\ m_to_s' = 0 /\ s_to_m' = 0 /\ fg' = 0
    /\ UNCHANGED lastJob

\* Close of a descriptor of the end e.
Close(p, e) ==
    /\ Runs(p) /\ e \in task[p].ends
    /\ Leave(p, CloseEnds(task, p, {e}))
    /\ UNCHANGED <<m_to_s, s_to_m, fg, lastJob>>

\* pty_slave_read, from its entry or a return of task_yield: it takes what there
\* is, gives up because of a signal, or yields.
SlaveRead(p) ==
    /\ At(p, "sread") /\ "slave" \in task[p].ends
    /\ \/ SlaveGate /\ m_to_s' = 0 /\ Leave(p, task)
       \/ ~SlaveGate /\ Interrupted(p) /\ Leave(p, task) /\ UNCHANGED m_to_s
       \/ ~SlaveGate /\ ~Interrupted(p) /\ cur = p /\ Yield(p, "sread", 0)
          /\ UNCHANGED <<task, m_to_s>>
    /\ UNCHANGED <<s_to_m, fg, lastJob>>

MasterRead(p) ==
    /\ At(p, "mread") /\ "master" \in task[p].ends
    /\ \/ MasterGate /\ s_to_m' = 0 /\ Leave(p, task)
       \/ ~MasterGate /\ Interrupted(p) /\ Leave(p, task) /\ UNCHANGED s_to_m
       \/ ~MasterGate /\ ~Interrupted(p) /\ cur = p /\ Yield(p, "mread", 0)
          /\ UNCHANGED <<task, s_to_m>>
    /\ UNCHANGED <<m_to_s, fg, lastJob>>

\* pty_slave_write of n bytes, or of the n left after task_yield.
SlaveWrite(p, n) ==
    LET k == IF Masters = {} THEN 0 ELSE Smaller(n, Room - s_to_m)
    IN  /\ At(p, "swrite") /\ "slave" \in task[p].ends
        /\ s_to_m' = s_to_m + k
        /\ \/ (Masters = {} \/ k = n) /\ Leave(p, task)
           \/ /\ Masters # {} /\ k < n
              /\ cur = p \/ k > 0
              /\ Yield(p, "swrite", n - k) /\ UNCHANGED task
        /\ UNCHANGED <<m_to_s, fg, lastJob>>

\* The keystroke k is turned into a signal if there is a foreground group: no
\* caller ever takes PTY_MODE_ISIG back.
KeySignals(k) == k # 0 /\ fg # 0

\* pty_master_write of one keystroke.
MasterWrite(p, k) ==
    /\ At(p, "mwrite") /\ "master" \in task[p].ends
    /\ \/ Slaves = {} /\ Leave(p, task) /\ UNCHANGED <<m_to_s, lastJob>>
       \/ /\ Slaves # {} /\ KeySignals(k)
          /\ Leave(p, Send(task, Members(task, fg), k))
          /\ lastJob' = JobNote(Members(task, fg), k)
          /\ UNCHANGED m_to_s
       \/ /\ Slaves # {} /\ ~KeySignals(k) /\ m_to_s < Room
          /\ m_to_s' = m_to_s + 1
          /\ Leave(p, task)
          /\ UNCHANGED lastJob
       \/ /\ Slaves # {} /\ ~KeySignals(k) /\ m_to_s = Room /\ cur = p
          /\ Yield(p, "mwrite", k)
          /\ UNCHANGED <<task, m_to_s, lastJob>>
    /\ UNCHANGED <<s_to_m, fg>>

\* SYS_TCSETPGRP on the slave end.
TcSetPgrp(p, g) ==
    /\ Runs(p) /\ "slave" \in task[p].ends
    /\ fg' = g
    /\ Leave(p, task)
    /\ UNCHANGED <<m_to_s, s_to_m, lastJob>>

-----------------------------------------------------------------------------
\* The signal steps of shells and jobs; exec and ptrace are Signal's business.
SignalStep(p) ==
    \/ Tick(p) \/ Preempt(p) \/ Dispatch(p) \/ Exit(p) \/ Reaped(p)
    \/ \E q \in Procs : Fork(p, q)
    \/ \E q \in Procs, s \in {SIGKILL, SIGCONT} : Kill(p, q, s)
    \/ \E g \in Groups : SetPgid(p, p, g)

Next ==
    \E p \in Procs :
        \/ SignalStep(p) /\ UNCHANGED ptyVars
        \/ OpenPty(p)
        \/ \E e \in {"master", "slave"} : Close(p, e)
        \/ SlaveRead(p) \/ MasterRead(p)
        \/ \E n \in IF cur = p THEN Outputs ELSE {left[p]} : SlaveWrite(p, n)
        \/ \E k \in IF cur = p THEN Keys ELSE {left[p]} : MasterWrite(p, k)
        \/ \E g \in Groups : TcSetPgrp(p, g)

Spec == Init /\ [][Next]_vars

\* The timer preempts who runs in user mode, and the scheduler picks every READY
\* task again and again (ReadyRuns in Task), also one that yielded inside a call.
Resumes(p) ==
    /\ cur = Nobody /\ call[p] # "user"
    /\ SlaveRead(p) \/ MasterRead(p) \/ SlaveWrite(p, left[p]) \/ MasterWrite(p, left[p])

Fairness ==
    \A p \in Procs : /\ WF_vars(Preempt(p) /\ UNCHANGED ptyVars)
                     /\ SF_vars(Dispatch(p) /\ UNCHANGED ptyVars)
                     /\ SF_vars(Resumes(p))

FairSpec == Spec /\ Fairness

-----------------------------------------------------------------------------
(* Properties                                                              *)

\* A process that SIGKILL reaches before or while it waits for terminal input
\* terminates: the reads are interruptible, so a helper task blocked in one can
\* be killed.  (A write is not interruptible.)
ReadersKillable ==
    \A p \in Procs :
        (/\ task[p].state = "READY" /\ SIGKILL \in task[p].pending
         /\ call[p] \notin {"mwrite", "swrite"})
            ~> (task[p].state \in {"ZOMBIE", "DEAD"} \/ call[p] \in {"mwrite", "swrite"})

\* When the last master end goes, by close, exit or a signal, no process goes on
\* waiting on the slave end, neither in a read nor in a write.
HangupReleases ==
    \A p \in Procs :
        (call[p] \in {"sread", "swrite"} /\ Masters = {}) ~> (call[p] = "user")

=============================================================================
