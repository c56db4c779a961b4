----------------------------- MODULE TaskProofs -----------------------------
(***************************************************************************)
(* Machine-checked proofs about the process core of kernel/task.c, for any *)
(* number of task slots, CPUs and pids and whoever forks: stacks, locks    *)
(* and interrupt flags, then the run ring, which is sound until a fork     *)
(* takes a slot that was not cleared.                                      *)
(***************************************************************************)
EXTENDS Task, FiniteSetTheorems, WellFoundedInduction, TLAPS

-----------------------------------------------------------------------------
(* The inductive invariant                                                 *)

\* Labels only a task that entered the kernel through a syscall can have.
UserLabels == {"sleep", "f_splice", "w_scan", "w_free", "w_wipe", "w_sleep",
               "w_sched", "w_done", "y_sched", "y_back", "y_spin", "y_held",
               "dying"}

ReaperLabels == {"r_unsplice", "r_free"}

CreateLabels == {"c_build", "c_ready"}

\* Labels at which a task is neither asleep, new nor gone.
AwakeLabels == {"spinBkl", "held", "sleep", "c_build", "c_ready", "f_splice",
                "w_free", "w_wipe", "w_sleep", "w_done", "y_sched", "y_back",
                "y_spin", "y_held", "r_unsplice", "r_free"}

\* kmain and the idle tasks keep their slots and never block.
FixedSlots ==
    /\ \A s \in Slots : /\ kind[s] = "kmain" <=> s = 0
                        /\ kind[s] = "idle" <=> s # 0 /\ s \in CPUs
                        /\ kind[s] = "idle" => state[s] = "RUNNING" /\ at[s] = "run"
    /\ state[0] \in {"READY", "RUNNING"}
    /\ state[0] = "RUNNING" => current[0] = 0

\* No CPU runs, or stands on the stack of, a task pinned to another CPU.
Pinned == \A c \in CPUs : Admits(current[c], c) /\ Admits(stack[c], c)

\* The scheduler lock is held exactly from the commit to the hand-off, with
\* interrupts off; ESP and current disagree only before task_switch.
LockPhase ==
    \A c \in CPUs : /\ phase[c] \in {"switch", "handoff"} <=> sched = c
                    /\ phase[c] # "switch" => stack[c] = current[c]
                    /\ phase[c] # "exec" => ~intr[c]

\* What may be current: a task that is back from schedule() is RUNNING.
CurrentState ==
    \A c \in CPUs :
        /\ state[current[c]] \in {"RUNNING", "BLOCKED_ON_CHILD", "ZOMBIE", "DEAD"}
        /\ phase[c] \in {"switch", "handoff"} => state[current[c]] = "RUNNING"
        /\ phase[c] = "exec" /\ at[current[c]] \notin {"w_sched", "dying"}
              => state[current[c]] = "RUNNING"

\* On whose stack a CPU may stand.
StackState ==
    \A c \in CPUs :
        /\ state[stack[c]] \notin {"UNUSED", "BLOCKED"}
        /\ phase[c] \in {"exec", "spin"} => at[current[c]] # "new"

\* How a slot's state and its code position go together.
StateLabel ==
    \A s \in Slots :
        /\ at[s] \in AwakeLabels => state[s] \in {"READY", "RUNNING"}
        /\ at[s] \in {"w_scan", "w_sched"}
              => state[s] \in {"READY", "RUNNING", "BLOCKED_ON_CHILD"}
        /\ state[s] = "BLOCKED_ON_CHILD" => at[s] \in {"w_scan", "w_sched"}
        /\ state[s] \in {"ZOMBIE", "DEAD"} => at[s] = "dying"

\* Only user tasks wait, exit and fork, only the reaper frees DEAD slots, only
\* kmain creates, and user tasks run only once kmain has created its last one.
Roles ==
    \A s \in Slots :
        /\ at[s] \in UserLabels => kind[s] = "user" /\ boot = "done"
        /\ at[s] \in ReaperLabels => kind[s] = "kernel" /\ boot = "done"
        /\ at[s] \in CreateLabels => s = 0 /\ boot # "done"
        /\ kind[s] = "user" /\ state[s] \notin {"UNUSED", "BLOCKED"} => boot = "done"

\* Pids are handed out once.
Ids ==
    /\ nextId > 0
    /\ \A s \in Slots : id[s] < nextId
    /\ \A s \in Slots : kind[s] = "user" => id[s] # 0
    /\ \A s, u \in Slots : id[s] = id[u] /\ id[s] # 0 => s = u

\* The slot that a create or a fork in progress is filling in.
BuildTargets ==
    \A s \in Slots :
        /\ at[s] \in {"c_build", "c_ready", "f_splice"} => state[tgt[s]] = "BLOCKED"
        /\ at[s] \in {"c_ready", "f_splice"} => at[tgt[s]] = "new"
        /\ at[s] = "c_ready" => kind[tgt[s]] = boot

\* The zombie that a wait in progress has taken off the ring.
WaitTargets ==
    \A s \in Slots :
        at[s] = "w_free" => state[tgt[s]] = "ZOMBIE" /\ parent[tgt[s]] = id[s]

\* The DEAD slot under the reaper's hands; once it has been unspliced under the
\* scheduler lock no CPU stands on its stack any more.
ReapTargets ==
    \A s \in Slots :
        /\ at[s] \in ReaperLabels => /\ state[tgt[s]] = "DEAD"
                                     /\ \A c \in CPUs : current[c] # tgt[s]
        /\ at[s] = "r_free" => \A c \in CPUs : stack[c] # tgt[s]

\* The BKL belongs to the one task that is between bkl_lock and bkl_unlock, and
\* that task is executing on the owner.
BklOwner ==
    /\ \A s \in Slots : HoldsBkl(s) => bkl \in CPUs /\ current[bkl] = s
    /\ \A c \in CPUs : bkl = c => phase[c] = "exec" /\ HoldsBkl(current[c])

\* Points where interrupts are enabled whenever the task executes.
Open(s) == at[s] \in {"run", "sleep"} \/ (at[s] \in CreateLabels /\ boot = "kernel")

\* Sections under the BKL that were entered with interrupts enabled.
FromOpen(s) == at[s] \in {"held", "r_unsplice", "r_free"}
               \/ (at[s] \in CreateLabels /\ boot = "user")

\* Interrupts are on while a task executes at an open point; if it entered
\* schedule() there, it was from a timer interrupt.
OpenCurrent ==
    \A c \in CPUs : /\ Open(current[c]) /\ phase[c] = "exec" => intr[c]
                    /\ Open(current[c]) /\ phase[c] # "exec" => inIrq[current[c]]

\* Whoever is suspended at an open point gets interrupts back from iret.
OpenSuspended ==
    \A s \in Slots : /\ state[s] = "READY" \/ kind[s] = "idle"
                     /\ \A c \in CPUs : current[c] # s
                     /\ Open(s)
                     => inIrq[s]

\* The flags that bkl_lock saved at a syscall's entry, in the reaper's loop and
\* in kmain have interrupts enabled.
SavedFlags ==
    /\ \A s \in Slots : at[s] = "spinBkl" =>
          \E c \in CPUs : current[c] = s /\ phase[c] = "exec" /\ fl[c] /\ ~intr[c]
    /\ \A s \in Slots : FromOpen(s) => bklIF

IInv ==
    /\ TypeOK /\ FixedSlots /\ Pinned /\ StackExclusive /\ LockPhase
    /\ CurrentState /\ StackState /\ StateLabel /\ Roles /\ Ids
    /\ BuildTargets /\ WaitTargets /\ ReapTargets
    /\ BklOwner /\ OpenCurrent /\ OpenSuspended /\ SavedFlags

-----------------------------------------------------------------------------
(* Facts used throughout                                                   *)

\* Slot 0 and CPU 0 exist, None is neither, and every CPU has a slot.
LEMMA Sizes ==
    /\ 0 \in Slots /\ 0 \in CPUs
    /\ None \notin Slots /\ None \notin CPUs
    /\ \A c \in CPUs : c \in Slots
  BY SizeAssumption DEF Slots, CPUs, None

\* User tasks are found on CPU 0 only, and only they wait or exit.
LEMMA UserFacts ==
    ASSUME IInv
    PROVE  /\ \A d \in CPUs : d # 0 => kind[current[d]] # "user" /\ kind[stack[d]] # "user"
           /\ \A s \in Slots : state[s] \in {"BLOCKED_ON_CHILD", "ZOMBIE", "DEAD"}
                                  => kind[s] = "user" /\ boot = "done"
  BY Sizes DEF IInv, TypeOK, SlotTypes, CpuTypes, Pinned, Admits, StateLabel,
        Roles, UserLabels

\* schedule() picks the CPU's idle task or a READY task the CPU may run.
LEMMA ChosenFacts ==
    ASSUME NEW c \in CPUs, NEW n \in Chosen(c)
    PROVE  n \in Slots /\ (n = c \/ (Demoted(c)[n] = "READY" /\ Admits(n, c)))
  BY Sizes DEF Chosen, pick_next_ready, pickable_by, Idle

\* Taking a slot off the ring leaves every link a slot or NULL.
LEMMA UnsplicedType ==
    ASSUME LinkTypes, NEW s \in Slots
    PROVE  Unspliced(s) \in [Slots -> Slots \cup {None}]
  BY DEF LinkTypes, Unspliced

-----------------------------------------------------------------------------
(* The invariant is inductive                                              *)

\* The boot state satisfies the invariant.
LEMMA InitInv == Init => IInv
  <1> SUFFICES ASSUME Init PROVE IInv
    OBVIOUS
  <1>1. tcb \in [Slots -> BOOLEAN]
    <2>1. tcb = [s \in Slots |-> s \in CPUs]
      BY DEF Init
    <2> QED BY <2>1
  <1> USE Sizes DEF Init, Idle
  <1>2. TypeOK
    BY <1>1 DEF TypeOK, SlotTypes, LinkTypes, CpuTypes, FlagTypes, GlobalTypes,
          States, Labels
  <1>3. FixedSlots /\ Pinned /\ StackExclusive /\ LockPhase
    BY DEF FixedSlots, Pinned, Admits, StackExclusive, LockPhase
  <1>4. CurrentState /\ StackState /\ StateLabel
    BY DEF CurrentState, StackState, StateLabel, AwakeLabels
  <1>5. Roles /\ Ids
    BY DEF Roles, Ids, UserLabels, ReaperLabels, CreateLabels
  <1>6. BuildTargets /\ WaitTargets /\ ReapTargets
    BY DEF BuildTargets, WaitTargets, ReapTargets, ReaperLabels
  <1>7. BklOwner /\ OpenCurrent /\ OpenSuspended /\ SavedFlags
    BY DEF BklOwner, HoldsBkl, OpenCurrent, OpenSuspended, SavedFlags, Open,
          FromOpen, CreateLabels
  <1> QED BY <1>2, <1>3, <1>4, <1>5, <1>6, <1>7 DEF IInv

\* Preemption and schedule() preserve the invariant.
LEMMA ScheduleStep ==
    ASSUME IInv, NEW c \in CPUs, Tick(c) \/ Schedule(c)
    PROVE  IInv'
  <1> USE Sizes DEF IInv, TypeOK, SlotTypes, CpuTypes, Idle, slotVars,
                    codeVars, cpuVars, lockVars, globVars
  <1>1. CASE Tick(c)
    <2> USE <1>1 DEF Tick
    <2>1. phase[c] = "exec" /\ current[c] \in Slots
      BY DEF LockPhase
    <2>2. SlotTypes' /\ LinkTypes' /\ GlobalTypes' /\ FixedSlots' /\ Pinned' /\
         StackExclusive' /\ StateLabel' /\ Roles' /\ Ids' /\ BuildTargets' /\
         WaitTargets' /\ ReapTargets'
      BY DEF LinkTypes, GlobalTypes, FixedSlots, Pinned, Admits,
            StackExclusive, StateLabel, AwakeLabels, Roles, UserLabels,
            ReaperLabels, CreateLabels, Ids, BuildTargets, WaitTargets,
            ReapTargets
    <2>3. CpuTypes'
      OBVIOUS
    <2>4. FlagTypes'
      BY DEF FlagTypes
    <2>5. LockPhase'
      BY DEF LockPhase, FlagTypes
    <2>6. CurrentState'
      BY DEF CurrentState
    <2>7. StackState'
      BY <2>1 DEF StackState
    <2>8. BklOwner'
      BY DEF BklOwner, HoldsBkl
    <2>9. OpenCurrent'
      BY DEF OpenCurrent, FlagTypes, Open
    <2>10. OpenSuspended'
      BY DEF OpenSuspended, Open
    <2>11. SavedFlags'
      BY <2>1 DEF SavedFlags, FlagTypes, StackExclusive, BklOwner, FromOpen,
            CreateLabels, HoldsBkl
    <2> QED BY <2>2, <2>3, <2>4, <2>5, <2>6, <2>7, <2>8, <2>9, <2>10, <2>11 DEF
               IInv, TypeOK
  <1>2. CASE Keep(c)
    <2> USE <1>2 DEF Keep
    <2>1. phase[c] = "spin" /\ sched = None /\ current[c] \in Slots /\ stack[c]
            = current[c]
      BY DEF LockPhase
    <2>2. current[c] = c \/ (Demoted(c)[current[c]] = "READY" /\
            Admits(current[c], c))
      BY ChosenFacts
    <2>3. Demoted(c)[current[c]] = "READY" => state[current[c]] \in {"READY",
            "RUNNING"}
      BY DEF Demoted
    <2>4. state[current[c]] = "RUNNING"
      BY <2>2, <2>3 DEF CurrentState, FixedSlots
    <2>5. LinkTypes' /\ GlobalTypes' /\ Pinned' /\ StackExclusive' /\ Ids'
      BY DEF LinkTypes, GlobalTypes, Pinned, Admits, StackExclusive, Ids
    <2>6. SlotTypes'
      BY DEF States
    <2>7. CpuTypes'
      OBVIOUS
    <2>8. FlagTypes'
      BY DEF FlagTypes
    <2>9. FixedSlots'
      BY <2>4 DEF FixedSlots
    <2>10. LockPhase'
      BY DEF LockPhase
    <2>11. CurrentState'
      BY DEF CurrentState
    <2>12. StackState'
      BY DEF StackState
    <2>13. StateLabel'
      BY DEF StateLabel
    <2>14. Roles'
      BY <2>4 DEF Roles, UserLabels, ReaperLabels, CreateLabels
    <2>15. BuildTargets'
      BY <2>4 DEF BuildTargets, LinkTypes, Roles, UserLabels, ReaperLabels,
            CreateLabels
    <2>16. WaitTargets'
      BY <2>4 DEF WaitTargets, LinkTypes, Ids
    <2>17. ReapTargets'
      BY DEF ReapTargets
    <2>18. BklOwner'
      BY DEF BklOwner, HoldsBkl
    <2>19. OpenCurrent'
      BY DEF OpenCurrent, FlagTypes, StackExclusive, Open
    <2>20. OpenSuspended'
      BY DEF OpenSuspended, Open
    <2>21. SavedFlags'
      BY <2>1, <2>2, <2>3, <2>4 DEF SavedFlags, FlagTypes, StackExclusive,
            BklOwner, FromOpen, CreateLabels, HoldsBkl
    <2> QED BY <2>5, <2>6, <2>7, <2>8, <2>9, <2>10, <2>11, <2>12, <2>13, <2>14,
               <2>15, <2>16, <2>17, <2>18, <2>19, <2>20, <2>21 DEF IInv, TypeOK
  <1>3. CASE Commit(c)
    <2>1. phase[c] = "spin" /\ sched = None /\ current[c] \in Slots /\ stack[c]
            = current[c]
      BY <1>3 DEF Commit, LockPhase
    <2>2. \A d \in CPUs : phase[d] \notin {"switch", "handoff"} /\ stack[d] =
            current[d]
      BY <1>3 DEF Commit, LockPhase
    <2>3. PICK n \in Chosen(c) : n # current[c] /\ state' = [Demoted(c) EXCEPT
            ![n] = "RUNNING"] /\ current' = [current EXCEPT ![c] = n]
      BY <1>3 DEF Commit
    <2>4. n \in Slots /\ (n = c \/ (Demoted(c)[n] = "READY" /\ Admits(n, c)))
      BY ChosenFacts DEF Commit
    <2>5. sched' = c /\ phase' = [phase EXCEPT ![c] = "switch"] /\ schedIF' =
            fl[c] /\ fl' = [fl EXCEPT ![c] = FALSE]
      BY <1>3 DEF Commit
    <2>6. UNCHANGED <<next, id, parent, kind, tcb, at, inIrq, tgt, stack, intr,
            bkl, bklIF, nextId, initPid, boot, reused>>
      BY <1>3 DEF Commit
    <2>7. state'[n] = "RUNNING" /\ \A s \in Slots \ {n, current[c]} : state'[s]
            = state[s]
      BY <2>3, <2>4, <2>5, <2>6 DEF Commit, Demoted
    <2>8. (state[n] = "READY" \/ (n = c /\ state[n] = "RUNNING")) /\ Admits(n,
            c)
      BY <2>3, <2>4, <2>5, <2>6, <2>7 DEF Commit, Demoted, FixedSlots, Pinned,
            Admits
    <2>9. state'[current[c]] = IF state[current[c]] = "RUNNING" /\
            kind[current[c]] # "idle" THEN "READY" ELSE state[current[c]]
      BY <1>3 DEF Commit, Demoted
    <2>10. \A d \in CPUs : current[d] # n
      BY <2>3, <2>5, <2>6, <2>7, <2>8, <2>9 DEF Commit, CurrentState, Pinned,
            FixedSlots, Admits
    <2>11. state' \in [Slots -> States]
      BY <2>3, <2>5, <2>6, <2>7, <2>8, <2>9, <2>10 DEF Commit, Demoted, States
    <2>12. LinkTypes' /\ GlobalTypes' /\ Ids'
      BY <2>6, <2>7, <2>8, <2>9, <2>10, <2>11 DEF LinkTypes, GlobalTypes, Ids
    <2>13. SlotTypes'
      BY <2>6, <2>7, <2>8, <2>9, <2>10, <2>11 DEF Labels, States
    <2>14. CpuTypes'
      BY <2>3, <2>5, <2>6, <2>7, <2>8, <2>9, <2>10, <2>11
    <2>15. FlagTypes'
      BY <2>5, <2>6, <2>7, <2>8, <2>9, <2>10, <2>11 DEF FlagTypes
    <2>16. FixedSlots'
      BY <2>3, <2>6, <2>7, <2>8, <2>9, <2>10, <2>11 DEF FixedSlots, Pinned,
            Admits
    <2>17. Pinned'
      BY <2>3, <2>6, <2>7, <2>8, <2>9, <2>10, <2>11 DEF Pinned, FixedSlots,
            Admits
    <2>18. StackExclusive'
      BY <2>3, <2>6, <2>7, <2>8, <2>9, <2>10, <2>11 DEF StackExclusive
    <2>19. LockPhase'
      BY <2>1, <2>3, <2>5, <2>6, <2>7, <2>8, <2>9, <2>10, <2>11 DEF LockPhase,
            FlagTypes
    <2>20. CurrentState'
      BY <2>3, <2>5, <2>6, <2>7, <2>8, <2>9, <2>10, <2>11 DEF CurrentState,
            StackExclusive
    <2>21. StackState'
      BY <2>3, <2>5, <2>6, <2>7, <2>8, <2>9, <2>10, <2>11 DEF StackState
    <2>22. StateLabel'
      BY <2>3, <2>6, <2>7, <2>8, <2>9, <2>10, <2>11 DEF StateLabel, AwakeLabels
    <2>23. Roles'
      BY <2>2, <2>6, <2>7, <2>8, <2>9, <2>10, <2>11 DEF Roles, UserLabels,
            ReaperLabels, CreateLabels
    <2>24. BuildTargets'
      BY <2>5, <2>6, <2>7, <2>8, <2>9, <2>10, <2>11 DEF BuildTargets,
            LinkTypes, Roles, UserLabels, ReaperLabels, CreateLabels
    <2>25. WaitTargets'
      BY <2>3, <2>6, <2>7, <2>8, <2>9, <2>10, <2>11 DEF WaitTargets, LinkTypes,
            Ids
    <2>26. ReapTargets'
      BY <2>3, <2>6, <2>7, <2>8, <2>9, <2>10, <2>11 DEF ReapTargets, LinkTypes,
            ReaperLabels
    <2>27. BklOwner'
      BY <2>1, <2>3, <2>5, <2>6, <2>7, <2>8, <2>9, <2>10, <2>11 DEF BklOwner,
            StackExclusive, HoldsBkl
    <2>28. OpenCurrent'
      BY <2>3, <2>5, <2>6, <2>7, <2>8, <2>9, <2>10, <2>11 DEF OpenCurrent,
            FlagTypes, StackExclusive, OpenSuspended, FixedSlots, Open,
            CreateLabels
    <2>29. OpenSuspended'
      BY <2>1, <2>3, <2>6, <2>7, <2>8, <2>9, <2>10, <2>11 DEF OpenSuspended,
            FlagTypes, OpenCurrent, Open, CreateLabels
    <2>30. SavedFlags'
      BY <2>1, <2>2, <2>3, <2>4, <2>5, <2>6, <2>7, <2>8, <2>9, <2>10, <2>11 DEF
            SavedFlags, FlagTypes, StackExclusive, BklOwner, FromOpen,
            CreateLabels, HoldsBkl
    <2> QED BY <2>12, <2>13, <2>14, <2>15, <2>16, <2>17, <2>18, <2>19, <2>20,
               <2>21, <2>22, <2>23, <2>24, <2>25, <2>26, <2>27, <2>28, <2>29,
               <2>30 DEF IInv, TypeOK
  <1>4. CASE Switch(c)
    <2> USE <1>4 DEF Switch, NewTaskIF
    <2>1. phase[c] = "switch" /\ sched = c /\ current[c] \in Slots
      BY DEF LockPhase
    <2>2. SlotTypes' /\ LinkTypes' /\ GlobalTypes' /\ FixedSlots' /\
         StateLabel' /\ Roles' /\ Ids' /\ BuildTargets' /\ WaitTargets' /\
         OpenSuspended'
      BY DEF LinkTypes, GlobalTypes, FixedSlots, StateLabel, Roles, UserLabels,
            ReaperLabels, CreateLabels, Ids, BuildTargets, WaitTargets,
            OpenSuspended, Open
    <2>3. CpuTypes'
      OBVIOUS
    <2>4. FlagTypes'
      BY DEF FlagTypes
    <2>5. Pinned'
      BY DEF Pinned, Admits
    <2>6. StackExclusive'
      BY DEF StackExclusive, LockPhase
    <2>7. LockPhase'
      BY DEF LockPhase, FlagTypes
    <2>8. CurrentState'
      BY DEF CurrentState
    <2>9. StackState'
      BY DEF StackState, CurrentState
    <2>10. ReapTargets'
      BY DEF ReapTargets, ReaperLabels
    <2>11. BklOwner'
      BY DEF BklOwner, HoldsBkl
    <2>12. OpenCurrent'
      BY DEF OpenCurrent, Open
    <2>13. SavedFlags'
      BY <2>1 DEF SavedFlags, FlagTypes, StackExclusive, BklOwner, FromOpen,
            CreateLabels, HoldsBkl
    <2> QED BY <2>2, <2>3, <2>4, <2>5, <2>6, <2>7, <2>8, <2>9, <2>10, <2>11,
               <2>12, <2>13 DEF IInv, TypeOK
  <1>5. CASE Finish(c)
    <2> USE <1>5 DEF Finish
    <2>1. phase[c] = "handoff" /\ sched = c /\ current[c] \in Slots /\ stack[c]
            = current[c]
      BY DEF LockPhase
    <2>2. LinkTypes' /\ GlobalTypes' /\ Pinned' /\ StackExclusive' /\ Ids'
      BY DEF LinkTypes, GlobalTypes, Pinned, Admits, StackExclusive, Ids
    <2>3. SlotTypes'
      BY DEF Labels
    <2>4. CpuTypes'
      OBVIOUS
    <2>5. FlagTypes'
      BY DEF FlagTypes
    <2>6. FixedSlots'
      BY DEF FixedSlots
    <2>7. LockPhase'
      BY DEF LockPhase
    <2>8. CurrentState'
      BY DEF CurrentState
    <2>9. StackState'
      BY DEF StackState
    <2>10. StateLabel'
      BY DEF StateLabel, AwakeLabels
    <2>11. Roles'
      BY DEF Roles, UserLabels, ReaperLabels, CreateLabels
    <2>12. BuildTargets'
      BY DEF BuildTargets, CurrentState, ReaperLabels, CreateLabels
    <2>13. WaitTargets'
      BY DEF WaitTargets
    <2>14. ReapTargets'
      BY DEF ReapTargets, ReaperLabels
    <2>15. BklOwner'
      BY DEF BklOwner, HoldsBkl
    <2>16. OpenCurrent'
      BY DEF OpenCurrent, FlagTypes, StackExclusive, Open
    <2>17. OpenSuspended'
      BY DEF OpenSuspended, Open
    <2>18. SavedFlags'
      BY <2>1 DEF SavedFlags, FlagTypes, StackExclusive, BklOwner, FromOpen,
            CreateLabels, HoldsBkl
    <2> QED BY <2>2, <2>3, <2>4, <2>5, <2>6, <2>7, <2>8, <2>9, <2>10, <2>11,
               <2>12, <2>13, <2>14, <2>15, <2>16, <2>17, <2>18 DEF IInv, TypeOK
  <1>6. CASE CallSchedule(c)
    <2> USE <1>6 DEF CallSchedule, EnterSchedule
    <2>1. phase[c] = "exec" /\ current[c] \in Slots /\ stack[c] = current[c]
      BY DEF LockPhase
    <2>2. LinkTypes' /\ GlobalTypes' /\ Pinned' /\ StackExclusive' /\ Ids'
      BY DEF LinkTypes, GlobalTypes, Pinned, Admits, StackExclusive, Ids
    <2>3. SlotTypes'
      BY DEF Labels
    <2>4. CpuTypes'
      OBVIOUS
    <2>5. FlagTypes'
      BY DEF FlagTypes
    <2>6. FixedSlots'
      BY DEF FixedSlots
    <2>7. LockPhase'
      BY DEF LockPhase, FlagTypes
    <2>8. CurrentState'
      BY DEF CurrentState, StackExclusive
    <2>9. StackState'
      BY DEF StackState
    <2>10. StateLabel'
      BY DEF StateLabel, AwakeLabels
    <2>11. Roles'
      BY DEF Roles, UserLabels, ReaperLabels, CreateLabels
    <2>12. BuildTargets'
      BY DEF BuildTargets, CreateLabels
    <2>13. WaitTargets'
      BY DEF WaitTargets
    <2>14. ReapTargets'
      BY DEF ReapTargets, ReaperLabels
    <2>15. BklOwner'
      BY DEF BklOwner, HoldsBkl
    <2>16. OpenCurrent'
      BY DEF OpenCurrent, Open, CreateLabels
    <2>17. OpenSuspended'
      BY DEF OpenSuspended, Open
    <2>18. SavedFlags'
      BY <2>1 DEF SavedFlags, FlagTypes, StackExclusive, BklOwner, FromOpen,
            CreateLabels, HoldsBkl
    <2> QED BY <2>2, <2>3, <2>4, <2>5, <2>6, <2>7, <2>8, <2>9, <2>10, <2>11,
               <2>12, <2>13, <2>14, <2>15, <2>16, <2>17, <2>18 DEF IInv, TypeOK
  <1> QED BY <1>1, <1>2, <1>3, <1>4, <1>5, <1>6 DEF Schedule

\* bkl_lock preserves the invariant.
LEMMA BklStep ==
    ASSUME IInv, NEW c \in CPUs, Bkl(c)
    PROVE  IInv'
  <1> USE Sizes DEF IInv, TypeOK, SlotTypes, CpuTypes, Idle, slotVars,
                    codeVars, cpuVars, lockVars, globVars
  <1>1. CASE SpinBkl(c)
    <2> USE <1>1 DEF SpinBkl
    <2>1. phase[c] = "exec" /\ current[c] \in Slots /\ stack[c] = current[c]
      BY DEF LockPhase
    <2>2. LinkTypes' /\ CpuTypes' /\ GlobalTypes' /\ Pinned' /\ StackExclusive'
         /\ Ids'
      BY DEF LinkTypes, GlobalTypes, Pinned, Admits, StackExclusive, Ids
    <2>3. SlotTypes'
      BY DEF Labels
    <2>4. FlagTypes'
      BY DEF FlagTypes
    <2>5. FixedSlots'
      BY DEF FixedSlots
    <2>6. LockPhase'
      BY DEF LockPhase
    <2>7. CurrentState'
      BY DEF CurrentState
    <2>8. StackState'
      BY DEF StackState
    <2>9. StateLabel'
      BY DEF StateLabel, CurrentState
    <2>10. Roles'
      BY DEF Roles, UserLabels, ReaperLabels, CreateLabels
    <2>11. BuildTargets'
      BY DEF BuildTargets, CreateLabels
    <2>12. WaitTargets'
      BY DEF WaitTargets
    <2>13. ReapTargets'
      BY DEF ReapTargets, ReaperLabels
    <2>14. BklOwner'
      BY DEF BklOwner, HoldsBkl
    <2>15. OpenCurrent'
      BY DEF OpenCurrent, Open, CreateLabels
    <2>16. OpenSuspended'
      BY DEF OpenSuspended, Open
    <2>17. SavedFlags'
      BY <2>1 DEF SavedFlags, FlagTypes, StackExclusive, BklOwner, OpenCurrent,
            FromOpen, CreateLabels, HoldsBkl, Open
    <2> QED BY <2>2, <2>3, <2>4, <2>5, <2>6, <2>7, <2>8, <2>9, <2>10, <2>11,
               <2>12, <2>13, <2>14, <2>15, <2>16, <2>17 DEF IInv, TypeOK
  <1>2. CASE AcquireBkl(c)
    <2> USE <1>2 DEF AcquireBkl
    <2>1. phase[c] = "exec" /\ current[c] \in Slots /\ stack[c] = current[c]
      BY DEF LockPhase
    <2>2. LinkTypes' /\ GlobalTypes' /\ Pinned' /\ StackExclusive' /\
         LockPhase' /\ Ids'
      BY DEF LinkTypes, GlobalTypes, Pinned, Admits, StackExclusive, LockPhase,
            Ids
    <2>3. SlotTypes'
      BY DEF Labels
    <2>4. CpuTypes'
      OBVIOUS
    <2>5. FlagTypes'
      BY DEF FlagTypes
    <2>6. FixedSlots'
      BY DEF FixedSlots
    <2>7. CurrentState'
      BY DEF CurrentState
    <2>8. StackState'
      BY DEF StackState
    <2>9. StateLabel'
      BY DEF StateLabel, AwakeLabels
    <2>10. Roles'
      BY DEF Roles, UserLabels, ReaperLabels, CreateLabels
    <2>11. BuildTargets'
      BY DEF BuildTargets, CreateLabels
    <2>12. WaitTargets'
      BY DEF WaitTargets
    <2>13. ReapTargets'
      BY DEF ReapTargets, ReaperLabels
    <2>14. BklOwner'
      BY DEF BklOwner, HoldsBkl
    <2>15. OpenCurrent'
      BY DEF OpenCurrent, Open, CreateLabels
    <2>16. OpenSuspended'
      BY DEF OpenSuspended, Open
    <2>17. SavedFlags'
      BY <2>1 DEF SavedFlags, FlagTypes, StackExclusive, BklOwner, FromOpen,
            CreateLabels, HoldsBkl
    <2> QED BY <2>2, <2>3, <2>4, <2>5, <2>6, <2>7, <2>8, <2>9, <2>10, <2>11,
               <2>12, <2>13, <2>14, <2>15, <2>16, <2>17 DEF IInv, TypeOK
  <1> QED BY <1>1, <1>2 DEF Bkl

\* task_create and the end of kmain preserve the invariant.
LEMMA KmainStep ==
    ASSUME IInv, NEW c \in CPUs, Kmain(c)
    PROVE  IInv'
  <1> USE Sizes DEF IInv, TypeOK, SlotTypes, CpuTypes, Idle, slotVars,
                    codeVars, cpuVars, lockVars, globVars
  <1>1. CASE CreateClaim(c)
    <2> USE <1>1 DEF CreateClaim, KmainAt, FreeSlots
    <2>1. phase[c] = "exec" /\ current[c] \in Slots /\ stack[c] = current[c]
      BY DEF LockPhase
    <2>2. c = 0 /\ current[c] = 0 /\ boot # "done" /\ state[0] = "RUNNING"
      BY DEF Pinned, FixedSlots, CurrentState, Admits, UserLabels, ReaperLabels
    <2>3. \A s \in Slots : state[s] \notin {"BLOCKED_ON_CHILD", "ZOMBIE",
            "DEAD"}
      BY UserFacts
    <2>4. CpuTypes' /\ FlagTypes' /\ GlobalTypes' /\ Pinned' /\ StackExclusive'
         /\ LockPhase' /\ Ids'
      BY DEF FlagTypes, GlobalTypes, Pinned, Admits, StackExclusive, LockPhase,
            Ids
    <2>5. SlotTypes'
      BY DEF Labels, States
    <2>6. LinkTypes'
      BY DEF LinkTypes
    <2>7. FixedSlots'
      BY DEF FixedSlots
    <2>8. CurrentState'
      BY <2>3 DEF CurrentState
    <2>9. StackState'
      BY <2>3 DEF StackState
    <2>10. StateLabel'
      BY <2>2 DEF StateLabel
    <2>11. Roles'
      BY DEF Roles, UserLabels, ReaperLabels
    <2>12. BuildTargets'
      BY DEF BuildTargets, LinkTypes, CreateLabels
    <2>13. WaitTargets'
      BY DEF WaitTargets
    <2>14. ReapTargets'
      BY <2>3 DEF ReapTargets, ReaperLabels
    <2>15. BklOwner'
      BY DEF BklOwner, HoldsBkl
    <2>16. OpenCurrent'
      BY DEF OpenCurrent, Open
    <2>17. OpenSuspended'
      BY DEF OpenSuspended, Open
    <2>18. SavedFlags'
      BY <2>1, <2>2, <2>3 DEF SavedFlags, FlagTypes, StackExclusive, BklOwner,
            FromOpen, CreateLabels, HoldsBkl
    <2> QED BY <2>4, <2>5, <2>6, <2>7, <2>8, <2>9, <2>10, <2>11, <2>12, <2>13,
               <2>14, <2>15, <2>16, <2>17, <2>18 DEF IInv, TypeOK
  <1>2. CASE CreateFail(c)
    <2> USE <1>2 DEF CreateFail, KmainAt, NextBoot
    <2>1. phase[c] = "exec" /\ current[c] \in Slots /\ stack[c] = current[c]
      BY DEF LockPhase
    <2>2. c = 0 /\ current[c] = 0 /\ boot # "done" /\ state[0] = "RUNNING"
      BY DEF CreateLabels, Pinned, FixedSlots, Roles, CurrentState, Admits,
            UserLabels, ReaperLabels, CreateLabels
    <2>3. \A s \in Slots : state[s] \notin {"BLOCKED_ON_CHILD", "ZOMBIE",
            "DEAD"}
      BY <2>2, UserFacts
    <2>4. tgt[0] \in Slots /\ state[tgt[0]] = "BLOCKED"
      BY DEF LinkTypes, BuildTargets
    <2>5. CpuTypes' /\ FlagTypes' /\ Pinned' /\ StackExclusive' /\ LockPhase'
         /\ Ids'
      BY DEF FlagTypes, Pinned, Admits, StackExclusive, LockPhase, Ids
    <2>6. SlotTypes'
      BY DEF Labels, States
    <2>7. LinkTypes'
      BY DEF LinkTypes
    <2>8. GlobalTypes'
      BY DEF GlobalTypes
    <2>9. FixedSlots'
      BY <2>4 DEF FixedSlots
    <2>10. CurrentState'
      BY <2>4 DEF CurrentState, StackExclusive
    <2>11. StackState'
      BY <2>4 DEF StackState
    <2>12. StateLabel'
      BY <2>4 DEF StateLabel, AwakeLabels
    <2>13. Roles'
      BY DEF Roles, UserLabels, ReaperLabels, CreateLabels
    <2>14. BuildTargets'
      BY DEF BuildTargets, Roles, UserLabels, CreateLabels
    <2>15. WaitTargets'
      BY <2>4 DEF WaitTargets, LinkTypes, Ids
    <2>16. ReapTargets'
      BY <2>4 DEF ReapTargets, LinkTypes, ReaperLabels
    <2>17. BklOwner'
      BY DEF BklOwner, Roles, HoldsBkl, UserLabels, ReaperLabels, CreateLabels
    <2>18. OpenCurrent'
      BY DEF OpenCurrent, GlobalTypes, Roles, Open, CreateLabels, UserLabels,
            ReaperLabels
    <2>19. OpenSuspended'
      BY DEF OpenSuspended, Open
    <2>20. SavedFlags'
      BY <2>1, <2>2, <2>3, <2>4 DEF SavedFlags, FlagTypes, StackExclusive,
            BklOwner, GlobalTypes, Roles, FromOpen, CreateLabels, HoldsBkl,
            UserLabels, ReaperLabels
    <2> QED BY <2>5, <2>6, <2>7, <2>8, <2>9, <2>10, <2>11, <2>12, <2>13, <2>14,
               <2>15, <2>16, <2>17, <2>18, <2>19, <2>20 DEF IInv, TypeOK
  <1>3. CASE CreateBuild(c)
    <2> USE <1>3 DEF CreateBuild, KmainAt
    <2>1. phase[c] = "exec" /\ current[c] \in Slots /\ stack[c] = current[c]
      BY DEF LockPhase
    <2>2. c = 0 /\ current[c] = 0 /\ boot # "done" /\ state[0] = "RUNNING"
      BY DEF CreateLabels, Pinned, FixedSlots, Roles, CurrentState, Admits,
            UserLabels, ReaperLabels, CreateLabels
    <2>3. \A s \in Slots : state[s] \notin {"BLOCKED_ON_CHILD", "ZOMBIE",
            "DEAD"}
      BY <2>2, UserFacts
    <2>4. tgt[0] \in Slots /\ state[tgt[0]] = "BLOCKED"
      BY DEF LinkTypes, BuildTargets
    <2>5. CpuTypes' /\ StackExclusive' /\ LockPhase'
      BY DEF StackExclusive, LockPhase
    <2>6. SlotTypes'
      BY <2>2 DEF GlobalTypes, Labels, States
    <2>7. LinkTypes'
      BY <2>4 DEF LinkTypes
    <2>8. FlagTypes'
      BY DEF FlagTypes
    <2>9. GlobalTypes'
      BY DEF GlobalTypes
    <2>10. FixedSlots'
      BY <2>4 DEF FixedSlots, GlobalTypes
    <2>11. Pinned'
      BY <2>4 DEF Pinned, FixedSlots, CurrentState, StackState, Admits
    <2>12. CurrentState'
      BY <2>4 DEF CurrentState, StackExclusive
    <2>13. StackState'
      BY <2>4 DEF StackState, CurrentState
    <2>14. StateLabel'
      BY <2>4 DEF StateLabel, AwakeLabels
    <2>15. Roles'
      BY <2>4 DEF Roles, UserLabels, ReaperLabels, CreateLabels
    <2>16. Ids'
      BY DEF Ids, GlobalTypes
    <2>17. BuildTargets'
      BY DEF BuildTargets, LinkTypes, CreateLabels
    <2>18. WaitTargets'
      BY <2>4 DEF WaitTargets, LinkTypes, Ids
    <2>19. ReapTargets'
      BY DEF ReapTargets, ReaperLabels
    <2>20. BklOwner'
      BY <2>4 DEF BklOwner, StackExclusive, CurrentState, StateLabel, HoldsBkl,
            AwakeLabels
    <2>21. OpenCurrent'
      BY DEF OpenCurrent, Open, CreateLabels
    <2>22. OpenSuspended'
      BY DEF OpenSuspended, FlagTypes, Open, CreateLabels
    <2>23. SavedFlags'
      BY <2>1, <2>2, <2>3, <2>4 DEF SavedFlags, FlagTypes, StackExclusive,
            BklOwner, FromOpen, CreateLabels, HoldsBkl
    <2> QED BY <2>5, <2>6, <2>7, <2>8, <2>9, <2>10, <2>11, <2>12, <2>13, <2>14,
               <2>15, <2>16, <2>17, <2>18, <2>19, <2>20, <2>21, <2>22, <2>23
               DEF IInv, TypeOK
  <1>4. CASE CreateReady(c)
    <2> USE <1>4 DEF CreateReady, KmainAt, NextBoot
    <2>1. phase[c] = "exec" /\ current[c] \in Slots /\ stack[c] = current[c]
      BY DEF LockPhase
    <2>2. c = 0 /\ current[c] = 0 /\ boot # "done" /\ state[0] = "RUNNING"
      BY DEF CreateLabels, Pinned, FixedSlots, Roles, CurrentState, Admits,
            UserLabels, ReaperLabels, CreateLabels
    <2>3. \A s \in Slots : state[s] \notin {"BLOCKED_ON_CHILD", "ZOMBIE",
            "DEAD"}
      BY <2>2, UserFacts
    <2>4. tgt[0] \in Slots /\ state[tgt[0]] = "BLOCKED"
      BY DEF LinkTypes, BuildTargets
    <2>5. CpuTypes' /\ FlagTypes' /\ Pinned' /\ StackExclusive' /\ LockPhase'
         /\ Ids'
      BY DEF FlagTypes, Pinned, Admits, StackExclusive, LockPhase, Ids
    <2>6. SlotTypes'
      BY DEF Labels, States
    <2>7. LinkTypes'
      BY DEF LinkTypes
    <2>8. GlobalTypes'
      BY <2>4 DEF GlobalTypes
    <2>9. FixedSlots'
      BY <2>4 DEF FixedSlots
    <2>10. CurrentState'
      BY <2>4 DEF CurrentState, StackExclusive
    <2>11. StackState'
      BY DEF StackState
    <2>12. StateLabel'
      BY DEF StateLabel, AwakeLabels
    <2>13. Roles'
      BY DEF Roles, BuildTargets, UserLabels, ReaperLabels, CreateLabels
    <2>14. BuildTargets'
      BY DEF BuildTargets, Roles, UserLabels, CreateLabels
    <2>15. WaitTargets'
      BY <2>4 DEF WaitTargets, LinkTypes, Ids
    <2>16. ReapTargets'
      BY <2>4 DEF ReapTargets, LinkTypes, ReaperLabels
    <2>17. BklOwner'
      BY DEF BklOwner, Roles, HoldsBkl, UserLabels, ReaperLabels, CreateLabels
    <2>18. OpenCurrent'
      BY DEF OpenCurrent, GlobalTypes, Roles, Open, CreateLabels, UserLabels,
            ReaperLabels
    <2>19. OpenSuspended'
      BY DEF OpenSuspended, BuildTargets, Open, CreateLabels, UserLabels,
            ReaperLabels
    <2>20. SavedFlags'
      BY <2>1, <2>2, <2>3, <2>4 DEF SavedFlags, FlagTypes, StackExclusive,
            BklOwner, GlobalTypes, Roles, FromOpen, CreateLabels, HoldsBkl,
            UserLabels, ReaperLabels
    <2> QED BY <2>5, <2>6, <2>7, <2>8, <2>9, <2>10, <2>11, <2>12, <2>13, <2>14,
               <2>15, <2>16, <2>17, <2>18, <2>19, <2>20 DEF IInv, TypeOK
  <1>5. CASE BootDone(c)
    <2> USE <1>5 DEF BootDone, Executes, bkl_unlock
    <2>1. phase[c] = "exec" /\ current[c] \in Slots /\ stack[c] = current[c]
      BY DEF LockPhase
    <2>2. LinkTypes' /\ GlobalTypes' /\ Pinned' /\ StackExclusive' /\ Ids'
      BY DEF LinkTypes, GlobalTypes, Pinned, Admits, StackExclusive, Ids
    <2>3. SlotTypes'
      BY DEF Labels
    <2>4. CpuTypes'
      OBVIOUS
    <2>5. FlagTypes'
      BY DEF FlagTypes
    <2>6. FixedSlots'
      BY DEF FixedSlots
    <2>7. LockPhase'
      BY DEF LockPhase
    <2>8. CurrentState'
      BY DEF CurrentState
    <2>9. StackState'
      BY DEF StackState
    <2>10. StateLabel'
      BY DEF StateLabel, AwakeLabels
    <2>11. Roles'
      BY DEF Roles, UserLabels, ReaperLabels, CreateLabels
    <2>12. BuildTargets'
      BY DEF BuildTargets, CreateLabels
    <2>13. WaitTargets'
      BY DEF WaitTargets
    <2>14. ReapTargets'
      BY DEF ReapTargets, ReaperLabels
    <2>15. BklOwner'
      BY DEF BklOwner, HoldsBkl
    <2>16. OpenCurrent'
      BY DEF OpenCurrent, FlagTypes, StackExclusive, SavedFlags, Open,
            CreateLabels, FromOpen
    <2>17. OpenSuspended'
      BY DEF OpenSuspended, Open
    <2>18. SavedFlags'
      BY <2>1 DEF SavedFlags, FlagTypes, StackExclusive, BklOwner, FromOpen,
            CreateLabels, HoldsBkl
    <2> QED BY <2>2, <2>3, <2>4, <2>5, <2>6, <2>7, <2>8, <2>9, <2>10, <2>11,
               <2>12, <2>13, <2>14, <2>15, <2>16, <2>17, <2>18 DEF IInv, TypeOK
  <1> QED BY <1>1, <1>2, <1>3, <1>4, <1>5 DEF Kmain

\* The syscalls that yield, sleep, fork and exit preserve the invariant.
LEMMA SyscallStep ==
    ASSUME IInv, NEW c \in CPUs, SyscallReturn(c) \/ Yield(c) \/ Sleep(c) \/
           ForkBuild(c) \/ ForkSplice(c) \/ Exit(c)
    PROVE  IInv'
  <1> USE Sizes DEF IInv, TypeOK, SlotTypes, CpuTypes, Idle, slotVars,
                    codeVars, cpuVars, lockVars, globVars
  <1>1. CASE SyscallReturn(c)
    <2> USE <1>1 DEF SyscallReturn, InSyscall
    <2>1. phase[c] = "exec" /\ current[c] \in Slots /\ stack[c] = current[c]
      BY DEF LockPhase
    <2>2. kind[current[c]] = "user" /\ c = 0 /\ current[c] # 0 /\ current[c]
            \notin CPUs
      BY DEF Pinned, FixedSlots, Admits, ReaperLabels, CreateLabels
    <2>3. state[current[c]] = "RUNNING" /\ boot = "done"
      BY DEF CurrentState, Roles
    <2>4. LinkTypes' /\ GlobalTypes' /\ Pinned' /\ StackExclusive' /\ Ids'
      BY DEF LinkTypes, GlobalTypes, Pinned, Admits, StackExclusive, Ids
    <2>5. SlotTypes'
      BY DEF Labels
    <2>6. CpuTypes'
      OBVIOUS
    <2>7. FlagTypes'
      BY DEF FlagTypes
    <2>8. FixedSlots'
      BY DEF FixedSlots
    <2>9. LockPhase'
      BY DEF LockPhase
    <2>10. CurrentState'
      BY DEF CurrentState
    <2>11. StackState'
      BY DEF StackState
    <2>12. StateLabel'
      BY DEF StateLabel, AwakeLabels
    <2>13. Roles'
      BY DEF Roles, UserLabels, ReaperLabels, CreateLabels
    <2>14. BuildTargets'
      BY DEF BuildTargets, CreateLabels
    <2>15. WaitTargets'
      BY DEF WaitTargets
    <2>16. ReapTargets'
      BY DEF ReapTargets, ReaperLabels
    <2>17. BklOwner'
      BY DEF BklOwner, HoldsBkl
    <2>18. OpenCurrent'
      BY DEF OpenCurrent, FlagTypes, StackExclusive, Open
    <2>19. OpenSuspended'
      BY DEF OpenSuspended, Open
    <2>20. SavedFlags'
      BY <2>1, <2>2, <2>3 DEF SavedFlags, FlagTypes, StackExclusive, BklOwner,
            FromOpen, CreateLabels, HoldsBkl
    <2> QED BY <2>4, <2>5, <2>6, <2>7, <2>8, <2>9, <2>10, <2>11, <2>12, <2>13,
               <2>14, <2>15, <2>16, <2>17, <2>18, <2>19, <2>20 DEF IInv, TypeOK
  <1>2. CASE Yield(c)
    <2> USE <1>2 DEF Yield, InSyscall, bkl_unlock
    <2>1. phase[c] = "exec" /\ current[c] \in Slots /\ stack[c] = current[c]
      BY DEF LockPhase
    <2>2. kind[current[c]] = "user" /\ c = 0 /\ current[c] # 0 /\ current[c]
            \notin CPUs
      BY DEF Pinned, FixedSlots, Admits, ReaperLabels, CreateLabels
    <2>3. state[current[c]] = "RUNNING" /\ boot = "done"
      BY DEF CurrentState, Roles
    <2>4. LinkTypes' /\ GlobalTypes' /\ Pinned' /\ StackExclusive' /\ Ids'
      BY DEF LinkTypes, GlobalTypes, Pinned, Admits, StackExclusive, Ids
    <2>5. SlotTypes'
      BY DEF Labels
    <2>6. CpuTypes'
      OBVIOUS
    <2>7. FlagTypes'
      BY DEF FlagTypes
    <2>8. FixedSlots'
      BY DEF FixedSlots
    <2>9. LockPhase'
      BY DEF LockPhase
    <2>10. CurrentState'
      BY DEF CurrentState
    <2>11. StackState'
      BY DEF StackState
    <2>12. StateLabel'
      BY DEF StateLabel, AwakeLabels
    <2>13. Roles'
      BY <2>3 DEF Roles, ReaperLabels, CreateLabels
    <2>14. BuildTargets'
      BY DEF BuildTargets, CreateLabels
    <2>15. WaitTargets'
      BY DEF WaitTargets
    <2>16. ReapTargets'
      BY DEF ReapTargets, ReaperLabels
    <2>17. BklOwner'
      BY DEF BklOwner, HoldsBkl
    <2>18. OpenCurrent'
      BY DEF OpenCurrent, Open, CreateLabels
    <2>19. OpenSuspended'
      BY DEF OpenSuspended, Open
    <2>20. SavedFlags'
      BY <2>1, <2>2, <2>3 DEF SavedFlags, FlagTypes, StackExclusive, BklOwner,
            FromOpen, CreateLabels, HoldsBkl
    <2> QED BY <2>4, <2>5, <2>6, <2>7, <2>8, <2>9, <2>10, <2>11, <2>12, <2>13,
               <2>14, <2>15, <2>16, <2>17, <2>18, <2>19, <2>20 DEF IInv, TypeOK
  <1>3. CASE Sleep(c)
    <2> USE <1>3 DEF Sleep, Executes, bkl_unlock
    <2>1. phase[c] = "exec" /\ current[c] \in Slots /\ stack[c] = current[c]
      BY DEF LockPhase
    <2>2. kind[current[c]] = "user" /\ c = 0 /\ current[c] # 0 /\ current[c]
            \notin CPUs
      BY DEF Pinned, FixedSlots, Admits, ReaperLabels, CreateLabels
    <2>3. state[current[c]] = "RUNNING" /\ boot = "done"
      BY DEF CurrentState, Roles
    <2>4. LinkTypes' /\ GlobalTypes' /\ Pinned' /\ StackExclusive' /\ Ids'
      BY DEF LinkTypes, GlobalTypes, Pinned, Admits, StackExclusive, Ids
    <2>5. SlotTypes'
      BY DEF Labels
    <2>6. CpuTypes'
      OBVIOUS
    <2>7. FlagTypes'
      BY DEF FlagTypes
    <2>8. FixedSlots'
      BY DEF FixedSlots
    <2>9. LockPhase'
      BY DEF LockPhase
    <2>10. CurrentState'
      BY DEF CurrentState
    <2>11. StackState'
      BY DEF StackState
    <2>12. StateLabel'
      BY DEF StateLabel, AwakeLabels
    <2>13. Roles'
      BY <2>3 DEF Roles, ReaperLabels, CreateLabels
    <2>14. BuildTargets'
      BY DEF BuildTargets, CreateLabels
    <2>15. WaitTargets'
      BY DEF WaitTargets
    <2>16. ReapTargets'
      BY DEF ReapTargets, ReaperLabels
    <2>17. BklOwner'
      BY DEF BklOwner, HoldsBkl
    <2>18. OpenCurrent'
      BY DEF OpenCurrent, FlagTypes, StackExclusive, SavedFlags, Open,
            CreateLabels, FromOpen
    <2>19. OpenSuspended'
      BY DEF OpenSuspended, Open
    <2>20. SavedFlags'
      BY <2>1, <2>2, <2>3 DEF SavedFlags, FlagTypes, StackExclusive, BklOwner,
            FromOpen, CreateLabels, HoldsBkl
    <2> QED BY <2>4, <2>5, <2>6, <2>7, <2>8, <2>9, <2>10, <2>11, <2>12, <2>13,
               <2>14, <2>15, <2>16, <2>17, <2>18, <2>19, <2>20 DEF IInv, TypeOK
  <1>4. CASE ForkBuild(c)
    <2>1. phase[c] = "exec" /\ current[c] \in Slots /\ stack[c] = current[c]
      BY <1>4 DEF ForkBuild, Executes, LockPhase
    <2>2. kind[current[c]] = "user" /\ c = 0 /\ current[c] # 0 /\ current[c]
            \notin CPUs
      BY <1>4 DEF ForkBuild, Pinned, FixedSlots, Roles, Admits, UserLabels,
            ReaperLabels, CreateLabels
    <2>3. state[current[c]] = "RUNNING" /\ boot = "done"
      BY <1>4 DEF ForkBuild, Executes, CurrentState, Roles, UserLabels,
            ReaperLabels, CreateLabels
    <2>4. PICK i \in FreeSlots : state' = [state EXCEPT ![i] = "BLOCKED"] /\
            next' = [next EXCEPT ![i] = None] /\ id' = [id EXCEPT ![i] =
            nextId] /\ parent' = [parent EXCEPT ![i] = id[current[c]]] /\ kind'
            = [kind EXCEPT ![i] = "user"] /\ tcb' = [tcb EXCEPT ![i] = TRUE] /\
            at' = [at EXCEPT ![i] = "new", ![current[c]] = "f_splice"] /\
            inIrq' = [inIrq EXCEPT ![i] = FALSE] /\ tgt' = [tgt EXCEPT
            ![current[c]] = i]
      BY <1>4 DEF ForkBuild
    <2>5. at[current[c]] = "held" /\ nextId' = nextId + 1 /\ UNCHANGED
            <<current, stack, phase, intr, fl, sched, schedIF, bkl, bklIF,
            initPid, boot>>
      BY <1>4 DEF ForkBuild, Executes
    <2>6. i \in Slots /\ i # 0 /\ state[i] \in {"UNUSED", "DEAD"} /\ i \notin
            CPUs
      BY DEF FreeSlots, FixedSlots
    <2>7. \A d \in CPUs : current[d] # i /\ stack[d] # i
      BY <1>4, <2>1, <2>5, <2>6, UserFacts DEF ForkBuild, Executes, FreeSlots,
            CurrentState, StackState
    <2>8. at[i] \in {"new", "run", "dying"}
      BY DEF FreeSlots, Labels, StateLabel, AwakeLabels
    <2>9. CpuTypes' /\ StackExclusive' /\ LockPhase'
      BY <2>5, <2>6, <2>7, <2>8 DEF StackExclusive, LockPhase
    <2>10. SlotTypes'
      BY <2>4, <2>6, <2>7, <2>8, UserFacts DEF GlobalTypes, Labels, States
    <2>11. LinkTypes'
      BY <2>4, <2>6, <2>7, <2>8, UserFacts DEF LinkTypes
    <2>12. FlagTypes'
      BY <2>4, <2>5, <2>6, <2>7, <2>8, UserFacts DEF FlagTypes
    <2>13. GlobalTypes'
      <3>1. reused' \in BOOLEAN
        BY <1>4 DEF ForkBuild
      <3> QED BY <2>5, <2>6, <3>1, UserFacts DEF GlobalTypes
    <2>14. FixedSlots'
      BY <2>4, <2>5, <2>6, <2>7, <2>8, UserFacts DEF FixedSlots
    <2>15. Pinned'
      BY <2>4, <2>5, <2>6, <2>7, <2>8, UserFacts DEF Pinned, FixedSlots, Admits
    <2>16. CurrentState'
      BY <2>4, <2>5, <2>6, <2>7, <2>8, UserFacts DEF CurrentState,
            StackExclusive
    <2>17. StackState'
      BY <2>4, <2>5, <2>6, <2>7, <2>8, UserFacts DEF StackState
    <2>18. StateLabel'
      BY <2>4, <2>5, <2>6, <2>7, <2>8, UserFacts DEF StateLabel, AwakeLabels
    <2>19. Roles'
      BY <2>2, <2>3, <2>4, <2>5, <2>6, <2>7, <2>8, UserFacts DEF Roles,
            UserLabels, ReaperLabels, CreateLabels
    <2>20. Ids'
      BY <2>4, <2>5, <2>6, <2>7, <2>8, UserFacts DEF Ids, GlobalTypes
    <2>21. BuildTargets'
      BY <2>4, <2>5, <2>6, <2>7, <2>8, UserFacts DEF BuildTargets, LinkTypes,
            Roles, UserLabels, ReaperLabels, CreateLabels
    <2>22. WaitTargets'
      BY <2>4, <2>6, <2>7, <2>8, UserFacts DEF WaitTargets, LinkTypes, Ids
    <2>23. ReapTargets'
      BY <2>4, <2>5, <2>6, <2>7, <2>8, UserFacts DEF ReapTargets, LinkTypes,
            BklOwner, ReaperLabels, HoldsBkl
    <2>24. BklOwner'
      BY <2>4, <2>5, <2>6, <2>7, <2>8, UserFacts DEF BklOwner, StackExclusive,
            HoldsBkl
    <2>25. OpenCurrent'
      BY <2>4, <2>5, <2>6, <2>7, <2>8, UserFacts DEF OpenCurrent, FlagTypes,
            StackExclusive, Open, CreateLabels
    <2>26. OpenSuspended'
      BY <2>4, <2>5, <2>6, <2>7, <2>8, UserFacts DEF OpenSuspended, FlagTypes,
            Open, CreateLabels
    <2>27. SavedFlags'
      BY <2>1, <2>2, <2>3, <2>4, <2>5, <2>6, <2>7, <2>8, UserFacts DEF
            SavedFlags, FlagTypes, StackExclusive, BklOwner, FromOpen,
            CreateLabels, HoldsBkl
    <2> QED BY <2>9, <2>10, <2>11, <2>12, <2>13, <2>14, <2>15, <2>16, <2>17,
               <2>18, <2>19, <2>20, <2>21, <2>22, <2>23, <2>24, <2>25, <2>26,
               <2>27 DEF IInv, TypeOK
  <1>5. CASE ForkSplice(c)
    <2> USE <1>5 DEF ForkSplice, Executes
    <2>1. phase[c] = "exec" /\ current[c] \in Slots /\ stack[c] = current[c]
      BY DEF LockPhase
    <2>2. kind[current[c]] = "user" /\ c = 0 /\ current[c] # 0 /\ current[c]
            \notin CPUs
      BY DEF Pinned, FixedSlots, Roles, Admits, UserLabels, ReaperLabels,
            CreateLabels
    <2>3. state[current[c]] = "RUNNING" /\ boot = "done"
      BY DEF CurrentState, Roles, UserLabels
    <2>4. state[tgt[current[c]]] = "BLOCKED" /\ at[tgt[current[c]]] = "new" /\
            tgt[current[c]] \in Slots
      BY DEF BuildTargets, LinkTypes
    <2>5. CpuTypes' /\ FlagTypes' /\ GlobalTypes' /\ Pinned' /\ StackExclusive'
         /\ LockPhase' /\ Ids'
      BY DEF FlagTypes, GlobalTypes, Pinned, Admits, StackExclusive, LockPhase,
            Ids
    <2>6. SlotTypes'
      BY DEF Labels, States
    <2>7. LinkTypes'
      BY DEF LinkTypes
    <2>8. FixedSlots'
      BY <2>4 DEF FixedSlots
    <2>9. CurrentState'
      BY <2>4 DEF CurrentState, StackExclusive
    <2>10. StackState'
      BY DEF StackState
    <2>11. StateLabel'
      BY DEF StateLabel, AwakeLabels
    <2>12. Roles'
      BY DEF Roles, UserLabels, ReaperLabels, CreateLabels
    <2>13. BuildTargets'
      BY DEF BuildTargets, Roles, BklOwner, UserLabels, ReaperLabels,
            CreateLabels, HoldsBkl
    <2>14. WaitTargets'
      BY <2>4 DEF WaitTargets, LinkTypes, Ids
    <2>15. ReapTargets'
      BY <2>4 DEF ReapTargets, LinkTypes, ReaperLabels
    <2>16. BklOwner'
      BY DEF BklOwner, HoldsBkl
    <2>17. OpenCurrent'
      BY DEF OpenCurrent, Open, CreateLabels
    <2>18. OpenSuspended'
      BY <2>4 DEF OpenSuspended, FlagTypes, Open, CreateLabels
    <2>19. SavedFlags'
      BY <2>1, <2>2, <2>3, <2>4 DEF SavedFlags, FlagTypes, StackExclusive,
            BklOwner, FromOpen, CreateLabels, HoldsBkl
    <2> QED BY <2>5, <2>6, <2>7, <2>8, <2>9, <2>10, <2>11, <2>12, <2>13, <2>14,
               <2>15, <2>16, <2>17, <2>18, <2>19 DEF IInv, TypeOK
  <1>6. CASE Exit(c)
    <2>1. phase[c] = "exec" /\ current[c] \in Slots /\ stack[c] = current[c]
      BY <1>6 DEF Exit, InSyscall, LockPhase
    <2>2. kind[current[c]] = "user" /\ c = 0 /\ current[c] # 0 /\ current[c]
            \notin CPUs
      BY <1>6 DEF Exit, InSyscall, Pinned, FixedSlots, Roles, Admits,
            UserLabels, ReaperLabels, CreateLabels
    <2>3. state[current[c]] = "RUNNING" /\ boot = "done"
      BY <1>6 DEF Exit, InSyscall, CurrentState, Roles, UserLabels,
            ReaperLabels, CreateLabels
    <2>4. state' \in [Slots -> States] /\ parent' \in [Slots -> Nat]
      BY <1>6 DEF Exit, States, GlobalTypes
    <2>5. state'[current[c]] \in {"ZOMBIE", "DEAD"}
      BY <1>6, <2>3 DEF Exit, InSyscall, bkl_unlock, States
    <2>6. \A i \in Slots : i # current[c] => state'[i] = state[i] \/ (state[i]
            = "BLOCKED_ON_CHILD" /\ state'[i] = "READY")
      BY <1>6 DEF Exit
    <2>7. \A i \in Slots : parent[i] # id[current[c]] => parent'[i] = parent[i]
      BY <1>6 DEF Exit
    <2>8. at[current[c]] \in {"held", "y_held"} /\ at' = [at EXCEPT
            ![current[c]] = "dying"]
      BY <1>6 DEF Exit, InSyscall
    <2>9. bkl' = None /\ bklIF' = FALSE /\ intr' = [intr EXCEPT ![c] = bklIF]
      BY <1>6 DEF Exit, bkl_unlock
    <2>10. UNCHANGED <<next, id, kind, tcb, inIrq, tgt, current, stack, phase,
            fl, nextId, initPid, boot, reused, sched, schedIF>>
      BY <1>6 DEF Exit, bkl_unlock
    <2>11. LinkTypes' /\ GlobalTypes' /\ Pinned' /\ StackExclusive' /\ Ids'
      BY <2>6, <2>7, <2>8, <2>9, <2>10 DEF LinkTypes, GlobalTypes, Pinned,
            Admits, StackExclusive, Ids
    <2>12. SlotTypes'
      BY <2>4, <2>6, <2>7, <2>8, <2>9, <2>10, UserFacts DEF Labels, States
    <2>13. CpuTypes'
      BY <2>6, <2>7, <2>8, <2>9, <2>10, UserFacts
    <2>14. FlagTypes'
      BY <2>6, <2>7, <2>8, <2>9, <2>10, UserFacts DEF FlagTypes
    <2>15. FixedSlots'
      BY <2>2, <2>6, <2>7, <2>8, <2>9, <2>10, UserFacts DEF FixedSlots
    <2>16. LockPhase'
      BY <2>1, <2>6, <2>7, <2>8, <2>9, <2>10, UserFacts DEF LockPhase,
            FlagTypes
    <2>17. CurrentState'
      BY <2>1, <2>2, <2>5, <2>6, <2>7, <2>8, <2>9, <2>10, UserFacts DEF
            CurrentState, StackExclusive
    <2>18. StackState'
      BY <2>5, <2>6, <2>7, <2>8, <2>9, <2>10, UserFacts DEF StackState
    <2>19. StateLabel'
      BY <2>5, <2>6, <2>7, <2>8, <2>9, <2>10, UserFacts DEF StateLabel,
            AwakeLabels
    <2>20. Roles'
      BY <2>2, <2>3, <2>6, <2>7, <2>8, <2>9, <2>10, UserFacts DEF Roles,
            UserLabels, ReaperLabels, CreateLabels
    <2>21. BuildTargets'
      BY <2>3, <2>6, <2>7, <2>8, <2>9, <2>10, UserFacts DEF BuildTargets,
            LinkTypes, Roles, UserLabels, ReaperLabels, CreateLabels
    <2>22. WaitTargets'
      BY <2>1, <2>2, <2>3, <2>6, <2>7, <2>8, <2>9, <2>10, UserFacts DEF
            WaitTargets, LinkTypes, Ids
    <2>23. ReapTargets'
      BY <2>6, <2>7, <2>8, <2>9, <2>10, UserFacts DEF ReapTargets, LinkTypes,
            ReaperLabels
    <2>24. BklOwner'
      BY <2>6, <2>7, <2>8, <2>9, <2>10, UserFacts DEF BklOwner, StackExclusive,
            HoldsBkl
    <2>25. OpenCurrent'
      BY <2>6, <2>7, <2>8, <2>9, <2>10, UserFacts DEF OpenCurrent, FlagTypes,
            StackExclusive, Open, CreateLabels
    <2>26. OpenSuspended'
      BY <2>2, <2>6, <2>7, <2>8, <2>9, <2>10, UserFacts DEF OpenSuspended,
            FlagTypes, StateLabel, Open, CreateLabels, AwakeLabels
    <2>27. SavedFlags'
      BY <2>1, <2>2, <2>3, <2>4, <2>5, <2>6, <2>7, <2>8, <2>9, <2>10, UserFacts
            DEF SavedFlags, FlagTypes, StackExclusive, BklOwner, FromOpen,
            CreateLabels, HoldsBkl
    <2> QED BY <2>11, <2>12, <2>13, <2>14, <2>15, <2>16, <2>17, <2>18, <2>19,
               <2>20, <2>21, <2>22, <2>23, <2>24, <2>25, <2>26, <2>27 DEF IInv,
               TypeOK
  <1> QED BY <1>1, <1>2, <1>3, <1>4, <1>5, <1>6

\* SYS_WAIT and SYS_WAIT_NB preserve the invariant.
LEMMA WaitStep ==
    ASSUME IInv, NEW c \in CPUs, WaitEnter(c) \/ WaitUnsplice(c) \/ WaitNone(c)
           \/ WaitSleep(c) \/ WaitFree(c) \/ WaitWipe(c) \/ WaitNb(c)
    PROVE  IInv'
  <1> USE Sizes DEF IInv, TypeOK, SlotTypes, CpuTypes, Idle, slotVars,
                    codeVars, cpuVars, lockVars, globVars
  <1>1. CASE WaitEnter(c)
    <2> USE <1>1 DEF WaitEnter, Executes, bkl_unlock
    <2>1. phase[c] = "exec" /\ current[c] \in Slots /\ stack[c] = current[c]
      BY DEF LockPhase
    <2>2. kind[current[c]] = "user" /\ c = 0 /\ current[c] # 0 /\ current[c]
            \notin CPUs
      BY DEF Pinned, FixedSlots, Admits, ReaperLabels, CreateLabels
    <2>3. state[current[c]] = "RUNNING" /\ boot = "done"
      BY DEF CurrentState, Roles
    <2>4. LinkTypes' /\ GlobalTypes' /\ Pinned' /\ StackExclusive' /\ Ids'
      BY DEF LinkTypes, GlobalTypes, Pinned, Admits, StackExclusive, Ids
    <2>5. SlotTypes'
      BY DEF Labels
    <2>6. CpuTypes'
      OBVIOUS
    <2>7. FlagTypes'
      BY DEF FlagTypes
    <2>8. FixedSlots'
      BY DEF FixedSlots
    <2>9. LockPhase'
      BY DEF LockPhase
    <2>10. CurrentState'
      BY DEF CurrentState
    <2>11. StackState'
      BY DEF StackState
    <2>12. StateLabel'
      BY DEF StateLabel, AwakeLabels
    <2>13. Roles'
      BY <2>3 DEF Roles, ReaperLabels, CreateLabels
    <2>14. BuildTargets'
      BY DEF BuildTargets, CreateLabels
    <2>15. WaitTargets'
      BY DEF WaitTargets
    <2>16. ReapTargets'
      BY DEF ReapTargets, ReaperLabels
    <2>17. BklOwner'
      BY DEF BklOwner, HoldsBkl
    <2>18. OpenCurrent'
      BY DEF OpenCurrent, Open, CreateLabels
    <2>19. OpenSuspended'
      BY DEF OpenSuspended, Open
    <2>20. SavedFlags'
      BY <2>1, <2>2, <2>3 DEF SavedFlags, FlagTypes, StackExclusive, BklOwner,
            FromOpen, CreateLabels, HoldsBkl
    <2> QED BY <2>4, <2>5, <2>6, <2>7, <2>8, <2>9, <2>10, <2>11, <2>12, <2>13,
               <2>14, <2>15, <2>16, <2>17, <2>18, <2>19, <2>20 DEF IInv, TypeOK
  <1>2. CASE WaitUnsplice(c)
    <2> USE <1>2 DEF WaitUnsplice, Executes, ZombiesOf
    <2>1. phase[c] = "exec" /\ current[c] \in Slots /\ stack[c] = current[c]
      BY DEF LockPhase
    <2>2. kind[current[c]] = "user" /\ c = 0 /\ current[c] # 0 /\ current[c]
            \notin CPUs
      BY DEF Pinned, FixedSlots, Roles, Admits, UserLabels, ReaperLabels,
            CreateLabels
    <2>3. state[current[c]] = "RUNNING" /\ boot = "done"
      BY DEF CurrentState, Roles, UserLabels
    <2>4. \A s \in Slots : Unspliced(s) \in [Slots -> Slots \cup {None}]
      BY UnsplicedType
    <2>5. CpuTypes' /\ FlagTypes' /\ GlobalTypes' /\ Pinned' /\ StackExclusive'
         /\ LockPhase' /\ Ids'
      BY DEF FlagTypes, GlobalTypes, Pinned, Admits, StackExclusive, LockPhase,
            Ids
    <2>6. SlotTypes'
      BY DEF Labels
    <2>7. LinkTypes'
      BY <2>4 DEF LinkTypes
    <2>8. FixedSlots'
      BY DEF FixedSlots
    <2>9. CurrentState'
      BY DEF CurrentState
    <2>10. StackState'
      BY DEF StackState
    <2>11. StateLabel'
      BY <2>3 DEF StateLabel, AwakeLabels
    <2>12. Roles'
      BY DEF Roles, UserLabels, ReaperLabels, CreateLabels
    <2>13. BuildTargets'
      BY DEF BuildTargets, CreateLabels
    <2>14. WaitTargets'
      BY DEF WaitTargets, LinkTypes
    <2>15. ReapTargets'
      BY DEF ReapTargets, ReaperLabels
    <2>16. BklOwner'
      BY DEF BklOwner, HoldsBkl
    <2>17. OpenCurrent'
      BY DEF OpenCurrent, Open, CreateLabels
    <2>18. OpenSuspended'
      BY DEF OpenSuspended, Open
    <2>19. SavedFlags'
      BY <2>1, <2>2, <2>3, <2>4 DEF SavedFlags, FlagTypes, StackExclusive,
            BklOwner, FromOpen, CreateLabels, HoldsBkl
    <2> QED BY <2>5, <2>6, <2>7, <2>8, <2>9, <2>10, <2>11, <2>12, <2>13, <2>14,
               <2>15, <2>16, <2>17, <2>18, <2>19 DEF IInv, TypeOK
  <1>3. CASE WaitNone(c)
    <2> USE <1>3 DEF WaitNone, Executes
    <2>1. phase[c] = "exec" /\ current[c] \in Slots /\ stack[c] = current[c]
      BY DEF LockPhase
    <2>2. kind[current[c]] = "user" /\ c = 0 /\ current[c] # 0 /\ current[c]
            \notin CPUs
      BY DEF Pinned, FixedSlots, Roles, Admits, UserLabels, ReaperLabels,
            CreateLabels
    <2>3. state[current[c]] = "RUNNING" /\ boot = "done"
      BY DEF CurrentState, Roles, UserLabels
    <2>4. LinkTypes' /\ CpuTypes' /\ FlagTypes' /\ GlobalTypes' /\ Pinned' /\
         StackExclusive' /\ LockPhase' /\ Ids'
      BY DEF LinkTypes, FlagTypes, GlobalTypes, Pinned, Admits, StackExclusive,
            LockPhase, Ids
    <2>5. SlotTypes'
      BY DEF Labels
    <2>6. FixedSlots'
      BY DEF FixedSlots
    <2>7. CurrentState'
      BY DEF CurrentState
    <2>8. StackState'
      BY DEF StackState
    <2>9. StateLabel'
      BY <2>3 DEF StateLabel
    <2>10. Roles'
      BY DEF Roles, UserLabels, ReaperLabels, CreateLabels
    <2>11. BuildTargets'
      BY DEF BuildTargets, CreateLabels
    <2>12. WaitTargets'
      BY DEF WaitTargets
    <2>13. ReapTargets'
      BY DEF ReapTargets, ReaperLabels
    <2>14. BklOwner'
      BY DEF BklOwner, HoldsBkl
    <2>15. OpenCurrent'
      BY DEF OpenCurrent, Open, CreateLabels
    <2>16. OpenSuspended'
      BY DEF OpenSuspended, Open
    <2>17. SavedFlags'
      BY <2>1, <2>2, <2>3 DEF SavedFlags, FlagTypes, StackExclusive, BklOwner,
            FromOpen, CreateLabels, HoldsBkl
    <2> QED BY <2>4, <2>5, <2>6, <2>7, <2>8, <2>9, <2>10, <2>11, <2>12, <2>13,
               <2>14, <2>15, <2>16, <2>17 DEF IInv, TypeOK
  <1>4. CASE WaitSleep(c)
    <2> USE <1>4 DEF WaitSleep, Executes
    <2>1. phase[c] = "exec" /\ current[c] \in Slots /\ stack[c] = current[c]
      BY DEF LockPhase
    <2>2. kind[current[c]] = "user" /\ c = 0 /\ current[c] # 0 /\ current[c]
            \notin CPUs
      BY DEF Pinned, FixedSlots, Roles, Admits, UserLabels, ReaperLabels,
            CreateLabels
    <2>3. state[current[c]] = "RUNNING" /\ boot = "done"
      BY DEF CurrentState, Roles, UserLabels
    <2>4. LinkTypes' /\ CpuTypes' /\ FlagTypes' /\ GlobalTypes' /\ Pinned' /\
         StackExclusive' /\ LockPhase' /\ Ids'
      BY DEF LinkTypes, FlagTypes, GlobalTypes, Pinned, Admits, StackExclusive,
            LockPhase, Ids
    <2>5. SlotTypes'
      BY DEF Labels, States
    <2>6. FixedSlots'
      BY <2>2 DEF FixedSlots
    <2>7. CurrentState'
      BY DEF CurrentState, StackExclusive
    <2>8. StackState'
      BY DEF StackState
    <2>9. StateLabel'
      BY DEF StateLabel, AwakeLabels
    <2>10. Roles'
      BY DEF Roles, UserLabels, ReaperLabels, CreateLabels
    <2>11. BuildTargets'
      BY DEF BuildTargets, Roles, UserLabels, CreateLabels
    <2>12. WaitTargets'
      BY <2>3 DEF WaitTargets, Ids
    <2>13. ReapTargets'
      BY DEF ReapTargets, ReaperLabels
    <2>14. BklOwner'
      BY DEF BklOwner, HoldsBkl
    <2>15. OpenCurrent'
      BY DEF OpenCurrent, Open, CreateLabels
    <2>16. OpenSuspended'
      BY DEF OpenSuspended, Open
    <2>17. SavedFlags'
      BY <2>1, <2>2, <2>3 DEF SavedFlags, FlagTypes, StackExclusive, BklOwner,
            FromOpen, CreateLabels, HoldsBkl
    <2> QED BY <2>4, <2>5, <2>6, <2>7, <2>8, <2>9, <2>10, <2>11, <2>12, <2>13,
               <2>14, <2>15, <2>16, <2>17 DEF IInv, TypeOK
  <1>5. CASE WaitFree(c)
    <2> USE <1>5 DEF WaitFree, Executes
    <2>1. phase[c] = "exec" /\ current[c] \in Slots /\ stack[c] = current[c]
      BY DEF LockPhase
    <2>2. kind[current[c]] = "user" /\ c = 0 /\ current[c] # 0 /\ current[c]
            \notin CPUs
      BY DEF Pinned, FixedSlots, Roles, Admits, UserLabels, ReaperLabels,
            CreateLabels
    <2>3. state[current[c]] = "RUNNING" /\ boot = "done"
      BY DEF CurrentState, Roles, UserLabels
    <2>4. state[tgt[current[c]]] = "ZOMBIE" /\ tgt[current[c]] \in Slots
      BY DEF WaitTargets, LinkTypes
    <2>5. LinkTypes' /\ CpuTypes' /\ FlagTypes' /\ GlobalTypes' /\ Pinned' /\
         StackExclusive' /\ LockPhase' /\ Ids'
      BY DEF LinkTypes, FlagTypes, GlobalTypes, Pinned, Admits, StackExclusive,
            LockPhase, Ids
    <2>6. SlotTypes'
      BY DEF Labels, States
    <2>7. FixedSlots'
      BY <2>4 DEF FixedSlots
    <2>8. CurrentState'
      BY <2>2, <2>4, UserFacts DEF CurrentState, StackExclusive
    <2>9. StackState'
      BY <2>1, <2>2, <2>3, <2>4, UserFacts DEF StackState
    <2>10. StateLabel'
      BY <2>4 DEF StateLabel, AwakeLabels
    <2>11. Roles'
      BY DEF Roles, UserLabels, ReaperLabels, CreateLabels
    <2>12. BuildTargets'
      BY <2>4 DEF BuildTargets, LinkTypes, Roles, UserLabels, ReaperLabels,
            CreateLabels
    <2>13. WaitTargets'
      BY <2>2 DEF WaitTargets, LinkTypes, Ids
    <2>14. ReapTargets'
      BY <2>4 DEF ReapTargets, LinkTypes, ReaperLabels
    <2>15. BklOwner'
      BY DEF BklOwner, HoldsBkl
    <2>16. OpenCurrent'
      BY DEF OpenCurrent, Open, CreateLabels
    <2>17. OpenSuspended'
      BY DEF OpenSuspended, Open
    <2>18. SavedFlags'
      BY <2>1, <2>2, <2>3, <2>4, UserFacts DEF SavedFlags, FlagTypes,
            StackExclusive, BklOwner, FromOpen, CreateLabels, HoldsBkl
    <2> QED BY <2>5, <2>6, <2>7, <2>8, <2>9, <2>10, <2>11, <2>12, <2>13, <2>14,
               <2>15, <2>16, <2>17, <2>18 DEF IInv, TypeOK
  <1>6. CASE WaitWipe(c)
    <2> USE <1>6 DEF WaitWipe, Executes
    <2>1. phase[c] = "exec" /\ current[c] \in Slots /\ stack[c] = current[c]
      BY DEF LockPhase
    <2>2. kind[current[c]] = "user" /\ c = 0 /\ current[c] # 0 /\ current[c]
            \notin CPUs
      BY DEF Pinned, FixedSlots, Roles, Admits, UserLabels, ReaperLabels,
            CreateLabels
    <2>3. state[current[c]] = "RUNNING" /\ boot = "done"
      BY DEF CurrentState, Roles, UserLabels
    <2>4. tgt[current[c]] \in Slots
      BY DEF LinkTypes
    <2>5. CpuTypes' /\ GlobalTypes' /\ Pinned' /\ StackExclusive' /\ LockPhase'
         /\ Ids'
      BY DEF GlobalTypes, Pinned, Admits, StackExclusive, LockPhase, Ids
    <2>6. SlotTypes'
      BY DEF Labels
    <2>7. LinkTypes'
      BY DEF LinkTypes
    <2>8. FlagTypes'
      BY DEF FlagTypes
    <2>9. FixedSlots'
      BY DEF FixedSlots
    <2>10. CurrentState'
      BY DEF CurrentState
    <2>11. StackState'
      BY DEF StackState
    <2>12. StateLabel'
      BY DEF StateLabel, AwakeLabels
    <2>13. Roles'
      BY DEF Roles, UserLabels, ReaperLabels, CreateLabels
    <2>14. BuildTargets'
      BY DEF BuildTargets, CreateLabels
    <2>15. WaitTargets'
      BY DEF WaitTargets
    <2>16. ReapTargets'
      BY DEF ReapTargets, ReaperLabels
    <2>17. BklOwner'
      BY DEF BklOwner, HoldsBkl
    <2>18. OpenCurrent'
      BY DEF OpenCurrent, Open, CreateLabels
    <2>19. OpenSuspended'
      BY DEF OpenSuspended, Open
    <2>20. SavedFlags'
      BY <2>1, <2>2, <2>3, <2>4 DEF SavedFlags, FlagTypes, StackExclusive,
            BklOwner, FromOpen, CreateLabels, HoldsBkl
    <2> QED BY <2>5, <2>6, <2>7, <2>8, <2>9, <2>10, <2>11, <2>12, <2>13, <2>14,
               <2>15, <2>16, <2>17, <2>18, <2>19, <2>20 DEF IInv, TypeOK
  <1>7. CASE WaitNb(c)
    <2> USE <1>7 DEF WaitNb, Executes, ZombiesOf
    <2>1. phase[c] = "exec" /\ current[c] \in Slots /\ stack[c] = current[c]
      BY DEF LockPhase
    <2>2. kind[current[c]] = "user" /\ c = 0 /\ current[c] # 0 /\ current[c]
            \notin CPUs
      BY DEF Pinned, FixedSlots, Admits, ReaperLabels, CreateLabels
    <2>3. state[current[c]] = "RUNNING" /\ boot = "done"
      BY DEF CurrentState, Roles
    <2>4. \A s \in Slots : Unspliced(s) \in [Slots -> Slots \cup {None}]
      BY UnsplicedType
    <2>5. CpuTypes' /\ GlobalTypes' /\ Pinned' /\ StackExclusive' /\ LockPhase'
         /\ Ids'
      BY DEF GlobalTypes, Pinned, Admits, StackExclusive, LockPhase, Ids
    <2>6. SlotTypes'
      BY DEF Labels, States
    <2>7. LinkTypes'
      BY <2>4 DEF LinkTypes
    <2>8. FlagTypes'
      BY DEF FlagTypes
    <2>9. FixedSlots'
      BY DEF FixedSlots
    <2>10. CurrentState'
      BY UserFacts DEF CurrentState, StackExclusive
    <2>11. StackState'
      BY <2>1, <2>3, UserFacts DEF StackState
    <2>12. StateLabel'
      BY DEF StateLabel, AwakeLabels
    <2>13. Roles'
      BY UserFacts DEF Roles, UserLabels, ReaperLabels, CreateLabels
    <2>14. BuildTargets'
      BY DEF BuildTargets, CreateLabels
    <2>15. WaitTargets'
      BY DEF WaitTargets, Ids
    <2>16. ReapTargets'
      BY DEF ReapTargets, ReaperLabels
    <2>17. BklOwner'
      BY DEF BklOwner, HoldsBkl
    <2>18. OpenCurrent'
      BY DEF OpenCurrent, Open, CreateLabels
    <2>19. OpenSuspended'
      BY DEF OpenSuspended, Open
    <2>20. SavedFlags'
      BY <2>1, <2>2, <2>3, <2>4, UserFacts DEF SavedFlags, FlagTypes,
            StackExclusive, BklOwner, FromOpen, CreateLabels, HoldsBkl
    <2> QED BY <2>5, <2>6, <2>7, <2>8, <2>9, <2>10, <2>11, <2>12, <2>13, <2>14,
               <2>15, <2>16, <2>17, <2>18, <2>19, <2>20 DEF IInv, TypeOK
  <1> QED BY <1>1, <1>2, <1>3, <1>4, <1>5, <1>6, <1>7

\* The reaper preserves the invariant.
LEMMA ReaperStep ==
    ASSUME IInv, NEW c \in CPUs, Reaper(c)
    PROVE  IInv'
  <1> USE Sizes DEF IInv, TypeOK, SlotTypes, CpuTypes, Idle, slotVars,
                    codeVars, cpuVars, lockVars, globVars
  <1>1. CASE ReaperCheck(c)
    <2> USE <1>1 DEF ReaperCheck, Executes, Reapable
    <2>1. phase[c] = "exec" /\ current[c] \in Slots /\ stack[c] = current[c]
      BY DEF LockPhase
    <2>2. state[current[c]] = "RUNNING"
      BY DEF CurrentState
    <2>3. CpuTypes' /\ FlagTypes' /\ GlobalTypes' /\ Pinned' /\ StackExclusive'
         /\ LockPhase' /\ Ids'
      BY DEF FlagTypes, GlobalTypes, Pinned, Admits, StackExclusive, LockPhase,
            Ids
    <2>4. SlotTypes'
      BY DEF Labels
    <2>5. LinkTypes'
      BY DEF LinkTypes
    <2>6. FixedSlots'
      BY DEF FixedSlots
    <2>7. CurrentState'
      BY DEF CurrentState
    <2>8. StackState'
      BY DEF StackState
    <2>9. StateLabel'
      BY DEF StateLabel, AwakeLabels
    <2>10. Roles'
      BY UserFacts DEF Roles, UserLabels, ReaperLabels, CreateLabels
    <2>11. BuildTargets'
      BY DEF BuildTargets, CreateLabels
    <2>12. WaitTargets'
      BY DEF WaitTargets
    <2>13. ReapTargets'
      BY DEF ReapTargets, LinkTypes
    <2>14. BklOwner'
      BY DEF BklOwner, HoldsBkl
    <2>15. OpenCurrent'
      BY DEF OpenCurrent, Open, CreateLabels
    <2>16. OpenSuspended'
      BY DEF OpenSuspended, Open
    <2>17. SavedFlags'
      BY <2>1, <2>2, UserFacts DEF SavedFlags, FlagTypes, StackExclusive,
            BklOwner, FromOpen, CreateLabels, HoldsBkl
    <2> QED BY <2>3, <2>4, <2>5, <2>6, <2>7, <2>8, <2>9, <2>10, <2>11, <2>12,
               <2>13, <2>14, <2>15, <2>16, <2>17 DEF IInv, TypeOK
  <1>2. CASE ReaperUnsplice(c)
    <2> USE <1>2 DEF ReaperUnsplice, Executes
    <2>1. phase[c] = "exec" /\ current[c] \in Slots /\ stack[c] = current[c]
      BY DEF LockPhase
    <2>2. state[current[c]] = "RUNNING"
      BY DEF CurrentState
    <2>3. \A s \in Slots : Unspliced(s) \in [Slots -> Slots \cup {None}]
      BY UnsplicedType
    <2>4. tgt[current[c]] \in Slots /\ state[tgt[current[c]]] = "DEAD"
      BY DEF LinkTypes, ReapTargets, ReaperLabels
    <2>5. CpuTypes' /\ FlagTypes' /\ GlobalTypes' /\ Pinned' /\ StackExclusive'
         /\ LockPhase' /\ Ids'
      BY DEF FlagTypes, GlobalTypes, Pinned, Admits, StackExclusive, LockPhase,
            Ids
    <2>6. SlotTypes'
      BY DEF Labels
    <2>7. LinkTypes'
      BY <2>3 DEF LinkTypes
    <2>8. FixedSlots'
      BY DEF FixedSlots
    <2>9. CurrentState'
      BY DEF CurrentState
    <2>10. StackState'
      BY DEF StackState
    <2>11. StateLabel'
      BY DEF StateLabel, AwakeLabels
    <2>12. Roles'
      BY DEF Roles, UserLabels, ReaperLabels, CreateLabels
    <2>13. BuildTargets'
      BY DEF BuildTargets, CreateLabels
    <2>14. WaitTargets'
      BY DEF WaitTargets
    <2>15. ReapTargets'
      BY DEF ReapTargets, LockPhase, ReaperLabels, HoldsBkl
    <2>16. BklOwner'
      BY DEF BklOwner, HoldsBkl
    <2>17. OpenCurrent'
      BY DEF OpenCurrent, Open, CreateLabels
    <2>18. OpenSuspended'
      BY DEF OpenSuspended, Open
    <2>19. SavedFlags'
      BY <2>1, <2>2, <2>3, <2>4 DEF SavedFlags, FlagTypes, StackExclusive,
            BklOwner, FromOpen, CreateLabels, HoldsBkl
    <2> QED BY <2>5, <2>6, <2>7, <2>8, <2>9, <2>10, <2>11, <2>12, <2>13, <2>14,
               <2>15, <2>16, <2>17, <2>18, <2>19 DEF IInv, TypeOK
  <1>3. CASE ReaperFree(c)
    <2> USE <1>3 DEF ReaperFree, Executes
    <2>1. phase[c] = "exec" /\ current[c] \in Slots /\ stack[c] = current[c]
      BY DEF LockPhase
    <2>2. state[current[c]] = "RUNNING"
      BY DEF CurrentState
    <2>3. tgt[current[c]] \in Slots /\ state[tgt[current[c]]] = "DEAD"
      BY DEF LinkTypes, ReapTargets, ReaperLabels
    <2>4. CpuTypes' /\ GlobalTypes' /\ Pinned' /\ StackExclusive' /\ LockPhase'
         /\ Ids'
      BY DEF GlobalTypes, Pinned, Admits, StackExclusive, LockPhase, Ids
    <2>5. SlotTypes'
      BY DEF Labels, States
    <2>6. LinkTypes'
      BY DEF LinkTypes
    <2>7. FlagTypes'
      BY DEF FlagTypes
    <2>8. FixedSlots'
      BY <2>3 DEF FixedSlots
    <2>9. CurrentState'
      BY DEF CurrentState, ReapTargets, ReaperLabels
    <2>10. StackState'
      BY DEF StackState, ReapTargets
    <2>11. StateLabel'
      BY <2>3 DEF StateLabel, AwakeLabels
    <2>12. Roles'
      BY DEF Roles, UserLabels, ReaperLabels, CreateLabels
    <2>13. BuildTargets'
      BY <2>3 DEF BuildTargets, Roles, UserLabels, ReaperLabels, CreateLabels
    <2>14. WaitTargets'
      BY <2>3 DEF WaitTargets, Ids
    <2>15. ReapTargets'
      BY DEF ReapTargets, BklOwner, ReaperLabels, HoldsBkl
    <2>16. BklOwner'
      BY DEF BklOwner, HoldsBkl
    <2>17. OpenCurrent'
      BY DEF OpenCurrent, Open, CreateLabels
    <2>18. OpenSuspended'
      BY DEF OpenSuspended, Open
    <2>19. SavedFlags'
      BY <2>1, <2>2, <2>3 DEF SavedFlags, FlagTypes, StackExclusive, BklOwner,
            FromOpen, CreateLabels, HoldsBkl
    <2> QED BY <2>4, <2>5, <2>6, <2>7, <2>8, <2>9, <2>10, <2>11, <2>12, <2>13,
               <2>14, <2>15, <2>16, <2>17, <2>18, <2>19 DEF IInv, TypeOK
  <1>4. CASE ReaperDone(c)
    <2> USE <1>4 DEF ReaperDone, Executes, bkl_unlock
    <2>1. phase[c] = "exec" /\ current[c] \in Slots /\ stack[c] = current[c]
      BY DEF LockPhase
    <2>2. state[current[c]] = "RUNNING"
      BY DEF CurrentState
    <2>3. GlobalTypes' /\ Pinned' /\ StackExclusive' /\ Ids'
      BY DEF GlobalTypes, Pinned, Admits, StackExclusive, Ids
    <2>4. SlotTypes'
      BY DEF Labels
    <2>5. LinkTypes'
      BY DEF LinkTypes
    <2>6. CpuTypes'
      OBVIOUS
    <2>7. FlagTypes'
      BY DEF FlagTypes
    <2>8. FixedSlots'
      BY DEF FixedSlots
    <2>9. LockPhase'
      BY DEF LockPhase
    <2>10. CurrentState'
      BY DEF CurrentState
    <2>11. StackState'
      BY DEF StackState
    <2>12. StateLabel'
      BY DEF StateLabel, AwakeLabels
    <2>13. Roles'
      BY DEF Roles, UserLabels, ReaperLabels, CreateLabels
    <2>14. BuildTargets'
      BY DEF BuildTargets, CreateLabels
    <2>15. WaitTargets'
      BY DEF WaitTargets
    <2>16. ReapTargets'
      BY DEF ReapTargets, ReaperLabels
    <2>17. BklOwner'
      BY DEF BklOwner, HoldsBkl
    <2>18. OpenCurrent'
      BY DEF OpenCurrent, FlagTypes, StackExclusive, SavedFlags, Open,
            CreateLabels, FromOpen
    <2>19. OpenSuspended'
      BY DEF OpenSuspended, Open
    <2>20. SavedFlags'
      BY <2>1, <2>2 DEF SavedFlags, FlagTypes, StackExclusive, BklOwner,
            FromOpen, CreateLabels, HoldsBkl
    <2> QED BY <2>3, <2>4, <2>5, <2>6, <2>7, <2>8, <2>9, <2>10, <2>11, <2>12,
               <2>13, <2>14, <2>15, <2>16, <2>17, <2>18, <2>19, <2>20 DEF IInv,
               TypeOK
  <1> QED BY <1>1, <1>2, <1>3, <1>4 DEF Reaper

\* Every step, stuttering included, preserves the invariant.
LEMMA NextStep == IInv /\ [Next]_vars => IInv'
  <1> SUFFICES ASSUME IInv, [Next]_vars PROVE IInv'
    OBVIOUS
  <1>1. CASE Next
    <2>1. PICK c \in CPUs : Tick(c) \/ Schedule(c) \/ Bkl(c) \/ Kmain(c)
                              \/ Syscall(c) \/ Reaper(c)
      BY <1>1 DEF Next
    <2> QED
      BY <2>1, ScheduleStep, BklStep, KmainStep, SyscallStep, WaitStep,
            ReaperStep DEF Syscall
  <1>2. CASE UNCHANGED vars
    BY <1>2 DEF IInv, TypeOK, SlotTypes, LinkTypes, CpuTypes, FlagTypes,
          GlobalTypes, FixedSlots, Pinned, Admits, StackExclusive, LockPhase,
          CurrentState, StackState, StateLabel, Roles, Ids, BuildTargets,
          WaitTargets, ReapTargets, BklOwner, HoldsBkl, OpenCurrent,
          OpenSuspended, SavedFlags, Open, FromOpen, vars, slotVars, codeVars,
          cpuVars, lockVars, globVars
  <1> QED BY <1>1, <1>2

\* The invariant holds in every reachable state.
THEOREM Invariance == Spec => []IInv
  BY InitInv, NextStep, PTL DEF Spec

-----------------------------------------------------------------------------
(* What follows from it                                                    *)

\* Every field of the task table, the CPUs and the locks keeps its type.
THEOREM TypeCorrect == Spec => []TypeOK
  <1>1. IInv => TypeOK
    BY DEF IInv
  <1> QED BY <1>1, Invariance, PTL

\* Two CPUs never share a kernel stack or a current task: holding g_sched_lock
\* across task_switch is enough, on any number of CPUs.
THEOREM StacksExclusive == Spec => []StackExclusive
  <1>1. IInv => StackExclusive
    BY DEF IInv
  <1> QED BY <1>1, Invariance, PTL

\* No CPU stands on the stack of a slot that was freed or rebuilt under it:
\* neither the reaper nor a parent's wait frees the stack of a task that a CPU
\* has not left yet.
THEOREM StacksLive == Spec => []LiveStack
  <1>1. IInv => LiveStack
    BY DEF IInv, LiveStack, LockPhase, StackState
  <1> QED BY <1>1, Invariance, PTL

\* No CPU spins on the scheduler lock or the BKL while it holds it.
THEOREM NeverSelfDeadlocked == Spec => []NoSelfDeadlock
  <1>1. IInv => NoSelfDeadlock
    BY Sizes DEF IInv, TypeOK, SlotTypes, CpuTypes, NoSelfDeadlock, LockPhase,
          BklOwner, HoldsBkl
  <1> QED BY <1>1, Invariance, PTL

\* The BKL is owned by a CPU exactly while that CPU executes a task that stands
\* between bkl_lock and bkl_unlock.
THEOREM BklHeldByRunning == Spec => []BklHolderRuns
  <1>1. IInv => BklHolderRuns
    BY DEF IInv, TypeOK, CpuTypes, BklHolderRuns, BklOwner, StackExclusive
  <1> QED BY <1>1, Invariance, PTL

\* Whoever halts has interrupts enabled, although a task that called schedule()
\* comes back with the flags some other task saved.
THEOREM HaltedWake == Spec => []HltWakes
  <1>1. IInv => HltWakes
    BY DEF IInv, HltWakes, OpenCurrent, Open
  <1> QED BY <1>1, Invariance, PTL

\* No CPU dispatches a slot that task_create or task_fork is still filling in.
THEOREM HalfBuiltNotRun == Spec => []HalfBuiltHidden
  <1>1. IInv => HalfBuiltHidden
    BY DEF IInv, TypeOK, CpuTypes, HalfBuiltHidden, BuildTargets, CurrentState
  <1> QED BY <1>1, Invariance, PTL

-----------------------------------------------------------------------------
(* The ring: how a cycle of links behaves                                  *)

\* The slots of R form one cycle under the links nx: no two lead to the same
\* slot, and whoever follows the links from anywhere meets all of R.
Cycle(nx, R) ==
    /\ \A s \in R : nx[s] \in R
    /\ \A s, u \in R : nx[s] = nx[u] => s = u
    /\ \A X \in SUBSET R : X # {} /\ (\A s \in X : nx[s] \in X) => X = R

Links == [Slots -> Slots \cup {None}]

\* A set of naturals has a least element.
LEMMA LeastNat ==
    ASSUME NEW S \in SUBSET Nat, S # {}
    PROVE  \E x \in S : \A y \in S : x <= y
  <1> DEFINE R == OpToRel(<, Nat)
  <1>1. IsWellFoundedOn(R, Nat)
    BY NatLessThanWellFounded
  <1>2. \A x, y \in Nat : x < y => <<x, y>> \in R
    BY DEF OpToRel
  <1> HIDE DEF R
  <1>3. PICK x \in S : \A y \in S : ~(<<y, x>> \in R)
    BY <1>1, WFMin
  <1>4. \A y \in S : ~(y < x)
    BY <1>2, <1>3
  <1> QED BY <1>4

\* Linking a slot i in after t leaves a cycle: task_create and task_fork.
LEMMA CycleInsert ==
    ASSUME NEW nx \in Links, NEW R \in SUBSET Slots, Cycle(nx, R),
           NEW t \in R, NEW i \in Slots \ R
    PROVE  Cycle([nx EXCEPT ![i] = nx[t], ![t] = i], R \cup {i})
  <1> DEFINE ny == [nx EXCEPT ![i] = nx[t], ![t] = i]
  <1>1. /\ ny[i] = nx[t] /\ ny[t] = i /\ nx[t] \in R /\ t # i
        /\ \A s \in R : s # t => ny[s] = nx[s] /\ nx[s] \in R
    BY DEF Links, Cycle
  <1> HIDE DEF ny
  <1>2. \A s \in R \cup {i} : ny[s] \in R \cup {i}
    BY <1>1
  <1>3. \A s, u \in R \cup {i} : ny[s] = ny[u] => s = u
    BY <1>1 DEF Cycle
  <1>4. ASSUME NEW X \in SUBSET (R \cup {i}), X # {}, \A s \in X : ny[s] \in X
        PROVE  X = R \cup {i}
    <2> DEFINE Y == X \ {i}
    <2>1. Y \in SUBSET R
      OBVIOUS
    <2>2. \A s \in Y : nx[s] \in Y
      BY <1>1, <1>4, <2>1
    <2>3. Y # {}
      BY <1>1, <1>4
    <2>4. Y = R
      BY <2>1, <2>2, <2>3 DEF Cycle
    <2> QED BY <2>4, <1>1, <1>4
  <1>5. Cycle(ny, R \cup {i})
    BY <1>2, <1>3, <1>4 DEF Cycle
  <1> QED BY <1>5 DEF ny

\* Linking the predecessor p of z past it leaves a cycle: the two reapers.
LEMMA CycleRemove ==
    ASSUME NEW nx \in Links, NEW R \in SUBSET Slots, Cycle(nx, R),
           NEW z \in R, NEW p \in R, nx[p] = z, R # {z}
    PROVE  Cycle([nx EXCEPT ![p] = nx[z]], R \ {z})
  <1> DEFINE ny == [nx EXCEPT ![p] = nx[z]]
  <1>1. /\ ny[p] = nx[z] /\ nx[z] \in R
        /\ \A s \in R : s # p => ny[s] = nx[s] /\ nx[s] \in R /\ nx[s] # z
    BY DEF Links, Cycle
  <1>2. nx[z] # z
    <2> SUFFICES ASSUME nx[z] = z PROVE FALSE
      OBVIOUS
    <2> DEFINE X == {z}
    <2>1. X \in SUBSET R /\ X # {} /\ \A s \in X : nx[s] \in X
      OBVIOUS
    <2> HIDE DEF X
    <2>2. X = R
      BY <2>1 DEF Cycle
    <2> QED BY <2>2 DEF X
  <1> HIDE DEF ny
  <1>3. \A s \in R \ {z} : ny[s] \in R \ {z}
    BY <1>1, <1>2
  <1>4. \A s, u \in R \ {z} : ny[s] = ny[u] => s = u
    BY <1>1, <1>2 DEF Cycle
  <1>5. ASSUME NEW X \in SUBSET (R \ {z}), X # {}, \A s \in X : ny[s] \in X
        PROVE  X = R \ {z}
    <2>1. CASE p \in X
      <3> DEFINE Y == X \cup {z}
      <3>1. Y \in SUBSET R /\ Y # {}
        OBVIOUS
      <3>2. \A s \in Y : nx[s] \in Y
        BY <1>1, <1>5, <2>1
      <3>3. Y = R
        BY <3>1, <3>2 DEF Cycle
      <3> QED BY <3>3
    <2>2. CASE p \notin X
      <3>1. X \in SUBSET R
        OBVIOUS
      <3>2. \A s \in X : nx[s] \in X
        BY <1>1, <1>5, <2>2
      <3>3. X = R
        BY <1>5, <3>1, <3>2 DEF Cycle
      <3> QED BY <3>3
    <2> QED BY <2>1, <2>2
  <1>6. Cycle(ny, R \ {z})
    BY <1>3, <1>4, <1>5 DEF Cycle
  <1> QED BY <1>6 DEF ny

\* g takes n steps from a, each by F.
Walks(g, S, a, F, n) ==
    g \in [Nat -> S] /\ g[0] = a /\ \A k \in 1 .. n : g[k] = F[g[k - 1]]

\* However many steps are asked for, there is a walk that takes them.
LEMMA WalkExists ==
    ASSUME NEW S, NEW a \in S, NEW F \in [S -> S], NEW n \in Nat
    PROVE  \E g : Walks(g, S, a, F, n)
  <1> DEFINE Bad == {m \in Nat : \A g : ~Walks(g, S, a, F, m)}
  <1> SUFFICES ASSUME Bad # {} PROVE FALSE
    OBVIOUS
  <1>1. PICK m \in Bad : \A k \in Bad : m <= k
    <2>1. Bad \in SUBSET Nat
      OBVIOUS
    <2> HIDE DEF Bad
    <2> QED BY <2>1, LeastNat
  <1>2. m # 0
    <2>1. Walks([i \in Nat |-> a], S, a, F, 0)
      BY DEF Walks
    <2> QED BY <2>1, <1>1
  <1>3. m \in Nat /\ m - 1 \in Nat /\ m - 1 \notin Bad
    BY <1>1, <1>2
  <1>4. PICK g : Walks(g, S, a, F, m - 1)
    BY <1>3
  <1> DEFINE h == [g EXCEPT ![m] = F[g[m - 1]]]
  <1>5. g \in [Nat -> S] /\ F[g[m - 1]] \in S
    BY <1>3, <1>4 DEF Walks
  <1>6. h \in [Nat -> S] /\ h[m] = F[g[m - 1]] /\ \A i \in Nat : i # m => h[i] = g[i]
    BY <1>3, <1>5
  <1> HIDE DEF h
  <1>7. h[0] = a
    BY <1>2, <1>4, <1>6 DEF Walks
  <1>8. ASSUME NEW k \in 1 .. m PROVE h[k] = F[h[k - 1]]
    <2>1. k - 1 \in Nat /\ k - 1 # m /\ k \in Nat
      BY <1>3
    <2>2. CASE k = m
      BY <2>1, <2>2, <1>6
    <2>3. CASE k # m
      <3>1. k \in 1 .. (m - 1)
        BY <2>3, <1>3
      <3> QED BY <3>1, <2>1, <2>3, <1>4, <1>6 DEF Walks
    <2> QED BY <2>2, <2>3
  <1>9. Walks(h, S, a, F, m)
    BY <1>6, <1>7, <1>8 DEF Walks
  <1> QED BY <1>1, <1>9

\* w starts at s and takes one link at a time; a NULL link leads to z.
LinkSteps(w, s, z) ==
    /\ w = [k \in 0 .. TASK_MAX |-> w[k]]
    /\ w[0] = s
    /\ \A k \in 1 .. TASK_MAX :
          w[k] = IF w[k - 1] = None THEN None
                 ELSE IF next[w[k - 1]] = None THEN z ELSE next[w[k - 1]]

\* w starts at s and goes along the links nx of the slots R.
RingWalk(w, s, nx, R) ==
    /\ w \in [0 .. TASK_MAX -> R]
    /\ w[0] = s
    /\ \A k \in 1 .. TASK_MAX : w[k] = nx[w[k - 1]]

\* What Follow computes.
LEMMA FollowSteps ==
    ASSUME next \in Links, NEW s \in Slots \cup {None}, NEW z \in Slots \cup {None}
    PROVE  LinkSteps(Follow(s, z), s, z)
  <1> DEFINE S == Slots \cup {None}
             F == [p \in S |-> IF p = None THEN None
                               ELSE IF next[p] = None THEN z ELSE next[p]]
             Def(w) == [k \in 0 .. TASK_MAX |->
                          IF k = 0 THEN s
                          ELSE IF w[k - 1] = None THEN None
                          ELSE IF next[w[k - 1]] = None THEN z ELSE next[w[k - 1]]]
             f == CHOOSE w : w = Def(w)
  <1>1. F \in [S -> S]
    BY DEF Links
  <1>2. TASK_MAX \in Nat
    BY SizeAssumption
  <1>3. PICK g : Walks(g, S, s, F, TASK_MAX)
    <2> HIDE DEF F, S
    <2>1. s \in S
      BY DEF S
    <2> QED BY <2>1, <1>1, <1>2, WalkExists
  <1> DEFINE w == [k \in 0 .. TASK_MAX |-> g[k]]
  <1>4. ASSUME NEW k \in 0 .. TASK_MAX
        PROVE  w[k] = IF k = 0 THEN s
                      ELSE IF w[k - 1] = None THEN None
                      ELSE IF next[w[k - 1]] = None THEN z ELSE next[w[k - 1]]
    <2>1. CASE k = 0
      BY <2>1, <1>2, <1>3 DEF Walks
    <2>2. CASE k # 0
      <3>1. k \in 1 .. TASK_MAX /\ k - 1 \in 0 .. TASK_MAX /\ k - 1 \in Nat
        BY <2>2, <1>2
      <3>2. g[k] = F[g[k - 1]] /\ g[k - 1] \in S
        BY <3>1, <1>3 DEF Walks
      <3>3. w[k] = g[k] /\ w[k - 1] = g[k - 1]
        BY <3>1
      <3> QED BY <3>2, <3>3, <2>2
    <2> QED BY <2>1, <2>2
  <1>5. w = Def(w)
    BY <1>4
  <1>6. f = Def(f)
    <2> HIDE DEF Def, w
    <2>1. \E x : x = Def(x)
      BY <1>5
    <2> QED BY <2>1
  <1>7. Follow(s, z) = f
    BY DEF Follow
  <1> HIDE DEF f
  <1>8. /\ f = [k \in 0 .. TASK_MAX |-> f[k]]
        /\ \A k \in 0 .. TASK_MAX : f[k] = Def(f)[k]
    <2>1. Def(f) = [k \in 0 .. TASK_MAX |-> Def(f)[k]]
      OBVIOUS
    <2> HIDE DEF Def
    <2> QED BY <1>6, <2>1
  <1>9. LinkSteps(f, s, z)
    <2>1. 0 \in 0 .. TASK_MAX /\ \A k \in 1 .. TASK_MAX : k \in 0 .. TASK_MAX /\ k # 0
      BY <1>2
    <2>2. f[0] = s
      BY <2>1, <1>8
    <2>3. ASSUME NEW k \in 1 .. TASK_MAX
          PROVE  f[k] = IF f[k - 1] = None THEN None
                        ELSE IF next[f[k - 1]] = None THEN z ELSE next[f[k - 1]]
      BY <2>1, <1>8
    <2> QED BY <2>2, <2>3, <1>8 DEF LinkSteps
  <1> QED BY <1>7, <1>9

\* On the ring Follow never leaves it, and never meets a NULL link.
LEMMA FollowRing ==
    ASSUME next \in Links, NEW R, R \in SUBSET Slots, Cycle(next, R),
           NEW s, s \in R, NEW z, z \in Slots \cup {None}
    PROVE  RingWalk(Follow(s, z), s, next, R)
  <1> DEFINE w == Follow(s, z)
             Bad == {k \in 0 .. TASK_MAX : w[k] \notin R}
  <1>1. /\ w = [k \in 0 .. TASK_MAX |-> w[k]] /\ w[0] = s
        /\ \A k \in 1 .. TASK_MAX :
              w[k] = IF w[k - 1] = None THEN None
                     ELSE IF next[w[k - 1]] = None THEN z ELSE next[w[k - 1]]
    BY FollowSteps, Sizes DEF LinkSteps
  <1>2. /\ TASK_MAX \in Nat
        /\ \A p \in R : p # None /\ next[p] \in R /\ next[p] # None
    BY SizeAssumption, Sizes DEF Cycle
  <1> HIDE DEF w
  <1>3. Bad = {}
    <2> SUFFICES ASSUME Bad # {} PROVE FALSE
      OBVIOUS
    <2>1. PICK k \in Bad : \A j \in Bad : k <= j
      <3>1. Bad \in SUBSET Nat
        BY <1>2
      <3> HIDE DEF Bad
      <3> QED BY <3>1, LeastNat
    <2>2. k \in 1 .. TASK_MAX /\ k - 1 \in 0 .. TASK_MAX /\ k - 1 \notin Bad
      <3>1. k \in 0 .. TASK_MAX /\ k # 0
        BY <1>1, <2>1
      <3>2. k - 1 \in 0 .. TASK_MAX /\ ~(k <= k - 1)
        BY <3>1, <1>2
      <3> HIDE DEF Bad
      <3> QED BY <3>1, <3>2, <1>2, <2>1
    <2> QED BY <1>1, <1>2, <2>1, <2>2
  <1>4. \A k \in 0 .. TASK_MAX : w[k] \in R
    BY <1>3
  <1>5. w \in [0 .. TASK_MAX -> R]
    BY <1>1, <1>4
  <1>6. ASSUME NEW k \in 1 .. TASK_MAX PROVE w[k] = next[w[k - 1]]
    <2>1. k - 1 \in 0 .. TASK_MAX
      BY <1>2
    <2> QED BY <2>1, <1>1, <1>2, <1>4
  <1> QED BY <1>1, <1>5, <1>6 DEF w, RingWalk

\* There are more steps in a walk than slots.
LEMMA WalkRepeats ==
    ASSUME NEW w \in [0 .. TASK_MAX -> Slots]
    PROVE  \E x, y \in 0 .. TASK_MAX : x < y /\ w[x] = w[y]
  <1>1. TASK_MAX \in Nat
    BY SizeAssumption
  <1> DEFINE K == 0 .. TASK_MAX
  <1>2. /\ IsFiniteSet(K) /\ Cardinality(K) = TASK_MAX + 1
        /\ IsFiniteSet(Slots) /\ Cardinality(Slots) = TASK_MAX
    BY <1>1, FS_Interval DEF Slots
  <1>3. w \in [K -> Slots] /\ Cardinality(Slots) < Cardinality(K)
    BY <1>1, <1>2
  <1> HIDE DEF K
  <1>4. \E x, y \in K : x # y /\ w[x] = w[y]
    BY <1>2, <1>3, FS_PigeonHole
  <1> QED BY <1>1, <1>4 DEF K

\* TASK_MAX links are enough to go round: some slot repeats, and what lies
\* between is closed under the links, hence the whole ring.
LEMMA GoesRound ==
    ASSUME NEW nx, NEW R, R \in SUBSET Slots, Cycle(nx, R), NEW w, NEW s,
           RingWalk(w, s, nx, R)
    PROVE  /\ \A r \in R : \E k \in Slots : w[k] = r
           /\ \E k \in 1 .. TASK_MAX : w[k] = s
  <1> USE DEF RingWalk
  <1>1. TASK_MAX \in Nat
    BY SizeAssumption
  <1>2. w \in [0 .. TASK_MAX -> Slots]
    OBVIOUS
  <1>3. PICK x, y \in 0 .. TASK_MAX : x < y /\ w[x] = w[y]
    BY <1>1, <1>2, WalkRepeats
  <1> DEFINE X == {w[k] : k \in x .. (y - 1)}
  <1>4. \A k \in x .. (y - 1) : k \in Slots /\ k \in 0 .. TASK_MAX /\ k + 1 \in 1 .. TASK_MAX
    BY <1>1, <1>3 DEF Slots
  <1>5. X \in SUBSET R /\ X # {}
    <2>1. x \in x .. (y - 1)
      BY <1>1, <1>3
    <2> QED BY <1>4, <2>1
  <1>6. ASSUME NEW k \in x .. (y - 1) PROVE nx[w[k]] \in X
    <2>1. w[k + 1] = nx[w[k]]
      BY <1>1, <1>3, <1>4
    <2>2. CASE k + 1 = y
      <3>1. x \in x .. (y - 1)
        BY <1>1, <1>3
      <3> QED BY <3>1, <2>1, <2>2, <1>3
    <2>3. CASE k + 1 # y
      <3>1. k + 1 \in x .. (y - 1)
        BY <2>3, <1>1, <1>3
      <3> QED BY <3>1, <2>1
    <2> QED BY <2>2, <2>3
  <1>7. X = R
    <2>1. \A p \in X : nx[p] \in X
      BY <1>6
    <2> HIDE DEF X
    <2> QED BY <1>5, <2>1 DEF Cycle
  <1>8. ASSUME NEW r \in R PROVE \E k \in x .. (y - 1) : w[k] = r
    BY <1>7
  <1>9. ASSUME NEW r \in R PROVE \E k \in Slots : w[k] = r
    BY <1>4, <1>8
  <1>10. \E k \in 1 .. TASK_MAX : w[k] = s
    <2>1. PICK k \in x .. (y - 1) : w[k] = w[0]
      BY <1>1, <1>8
    <2>2. CASE k = 0
      BY <2>1, <2>2, <1>1, <1>3
    <2>3. CASE k # 0
      BY <2>1, <2>3, <1>1, <1>3
    <2> QED BY <2>2, <2>3
  <1> QED BY <1>9, <1>10

\* The walk of unsplice_from_ring finds the predecessor.
LEMMA UnsplicedIs ==
    ASSUME next \in Links, NEW R, R \in SUBSET Slots, Cycle(next, R), NEW z, z \in R
    PROVE  \E p \in R : next[p] = z /\ Unspliced(z) = [next EXCEPT ![p] = next[z]]
  <1>1. TASK_MAX \in Nat /\ None \notin R /\ None \in Slots \cup {None}
    BY SizeAssumption, Sizes
  <1>2. PICK p \in R : next[p] = z
    <2> DEFINE w == Follow(z, None)
    <2>1. RingWalk(w, z, next, R)
      BY <1>1, FollowRing
    <2> HIDE DEF w
    <2>2. PICK k \in 1 .. TASK_MAX : w[k] = z
      BY <2>1, GoesRound
    <2>3. k - 1 \in 0 .. TASK_MAX
      BY <1>1
    <2> QED BY <2>1, <2>2, <2>3 DEF RingWalk
  <1>3. next[z] \in R
    BY DEF Cycle
  <1> DEFINE w == Follow(next[z], None)
             Hits == {k \in DOMAIN w : w[k] # None /\ next[w[k]] = z}
             h == CHOOSE k \in Hits : \A j \in Hits : k <= j
  <1>4. RingWalk(w, next[z], next, R)
    BY <1>1, <1>3, FollowRing
  <1>5. Unspliced(z) = IF Hits # {} THEN [next EXCEPT ![w[h]] = next[z]] ELSE next
    BY DEF Unspliced
  <1> HIDE DEF w
  <1>6. \A k \in 0 .. TASK_MAX : k \in Hits <=> w[k] = p
    BY <1>1, <1>2, <1>4 DEF Cycle, RingWalk
  <1>7. Hits # {}
    <2>1. PICK k \in Slots : w[k] = p
      BY <1>2, <1>4, GoesRound
    <2>2. k \in 0 .. TASK_MAX
      BY <1>1 DEF Slots
    <2> QED BY <2>1, <2>2, <1>6
  <1>8. h \in Hits
    <2>1. Hits \in SUBSET Nat
      BY <1>1, <1>4 DEF RingWalk
    <2> HIDE DEF Hits
    <2>2. \E k \in Hits : \A j \in Hits : k <= j
      BY <2>1, <1>7, LeastNat
    <2> QED BY <2>2
  <1>9. w[h] = p
    BY <1>4, <1>6, <1>8 DEF RingWalk
  <1> QED BY <1>2, <1>5, <1>7, <1>9

-----------------------------------------------------------------------------
(* The ring: the inductive invariant                                       *)

\* A fork only takes a slot whose last owner's fields have been cleared.
FreshFork ==
    \A t \in Slots : at[t] # "f_splice" /\ at'[t] = "f_splice" => ~tcb[tgt'[t]]

\* Labels of a task that works on a slot which is not on the ring.
OffLabels == {"c_build", "f_splice", "w_free", "w_wipe", "r_free"}

\* A create or fork has taken s and not linked it in yet, or a wait or the
\* reaper has taken it off the ring and not freed it yet.
Unlinked(s) ==
    \E t \in Slots : at[t] \in OffLabels \ {"w_wipe"} /\ tgt[t] = s

OnRing == {s \in Slots : state[s] # "UNUSED" /\ kind[s] # "idle" /\ ~Unlinked(s)}

RingCycle == Cycle(next, OnRing)

\* Off the ring a link is NULL, or left over from before the unsplice.
OffRing ==
    \A s \in Slots \ OnRing :
        next[s] = None \/ \E t \in Slots : /\ at[t] \in {"w_free", "w_wipe", "r_free"}
                                           /\ tgt[t] = s

\* A slot keeps its resources from its creation to the end of the wait or the
\* sweep that frees it.
Resources ==
    /\ \A s \in OnRing : tcb[s]
    /\ \A t \in Slots : at[t] \in {"f_splice", "w_free", "w_wipe"} => tcb[tgt[t]]
    /\ \A t \in Slots : at[t] = "c_build" => ~tcb[tgt[t]]
    /\ boot # "done" => \A s \in Slots : state[s] = "UNUSED" => ~tcb[s]

\* The slot a wait is clearing is already marked UNUSED, and no other wait
\* clears it.
WipeTargets ==
    /\ \A t \in Slots : at[t] = "w_wipe" => state[tgt[t]] = "UNUSED"
    /\ \A t, u \in Slots :
          at[t] = "w_wipe" /\ at[u] = "w_wipe" /\ tgt[t] = tgt[u] => t = u

\* No CPU runs the zombie that a wait has taken off the ring.
ZombieLeft ==
    \A t \in Slots : at[t] = "w_free" => \A c \in CPUs : current[c] # tgt[t]

RInv == RingCycle /\ OffRing /\ Resources /\ WipeTargets /\ ZombieLeft

\* What the proofs use of the types.
LEMMA TypeFacts ==
    ASSUME IInv
    PROVE  /\ next \in Links /\ tgt \in [Slots -> Slots] /\ tcb \in [Slots -> BOOLEAN]
           /\ current \in [CPUs -> Slots] /\ at \in [Slots -> Labels]
           /\ state \in [Slots -> States] /\ kind \in [Slots -> {"kmain", "idle", "kernel", "user"}]
           /\ OnRing \in SUBSET Slots
  BY DEF IInv, TypeOK, SlotTypes, LinkTypes, CpuTypes, FlagTypes, Links, OnRing

\* Whoever works on a slot off the ring, and which slots that may be.
LEMMA OffTargets ==
    ASSUME IInv, NEW t \in Slots, at[t] \in OffLabels
    PROVE  /\ at[t] \in {"c_build", "f_splice"} => state[tgt[t]] = "BLOCKED"
           /\ at[t] = "w_free" => state[tgt[t]] = "ZOMBIE" /\ parent[tgt[t]] = id[t]
           /\ at[t] = "r_free" => state[tgt[t]] = "DEAD"
           /\ at[t] = "c_build" => t = 0 /\ boot # "done"
           /\ at[t] # "c_build" => boot = "done"
           /\ at[t] \in {"f_splice", "w_free", "w_wipe"} => kind[t] = "user"
           /\ state[t] \in {"READY", "RUNNING"}
  BY DEF IInv, BuildTargets, WaitTargets, ReapTargets, Roles, StateLabel, AwakeLabels,
        UserLabels, ReaperLabels, CreateLabels, OffLabels

\* Every task that runs, can run or sleeps in wait is on the ring.
LEMMA RunnersOnRing ==
    ASSUME IInv, NEW s \in Slots, kind[s] # "idle",
           state[s] \in {"READY", "RUNNING", "BLOCKED_ON_CHILD"}
    PROVE  s \in OnRing
  <1>1. ASSUME NEW t \in Slots, at[t] \in OffLabels \ {"w_wipe"}, tgt[t] = s
        PROVE  FALSE
    BY <1>1, OffTargets DEF OffLabels
  <1> QED BY <1>1 DEF OnRing, Unlinked

\* kmain is always on the ring.
LEMMA KmainOnRing ==
    ASSUME IInv
    PROVE  0 \in OnRing
  <1>1. 0 \in Slots /\ kind[0] # "idle" /\ state[0] \in {"READY", "RUNNING"}
    BY Sizes DEF IInv, FixedSlots
  <1> QED BY <1>1, RunnersOnRing

\* Two tasks are never both between bkl_lock and bkl_unlock.
LEMMA OneBkl ==
    ASSUME IInv, NEW t \in Slots, NEW u \in Slots, HoldsBkl(t), HoldsBkl(u)
    PROVE  t = u
  BY DEF IInv, BklOwner

\* A zombie that its parent has not taken yet is on the ring.
LEMMA ZombieOnRing ==
    ASSUME IInv, NEW t \in Slots, kind[t] = "user", at[t] # "w_free",
           NEW z \in ZombiesOf(t)
    PROVE  z \in OnRing /\ z # 0 /\ z \in Slots /\ state[z] = "ZOMBIE"
             /\ (\A u \in Slots : at[u] \in OffLabels /\ tgt[u] = z => at[u] = "w_wipe")
  <1>1. z \in Slots /\ state[z] = "ZOMBIE" /\ parent[z] = id[t]
    BY DEF ZombiesOf
  <1>2. z # 0 /\ kind[z] # "idle"
    BY <1>1 DEF IInv, FixedSlots
  <1>3. ASSUME NEW u \in Slots, at[u] \in OffLabels, tgt[u] = z, at[u] # "w_wipe"
        PROVE  FALSE
    <2>1. at[u] = "w_free" /\ parent[z] = id[u]
      BY <1>1, <1>3, OffTargets DEF OffLabels
    <2>2. u = t
      BY <1>1, <2>1 DEF IInv, Ids
    <2> QED BY <2>1, <2>2
  <1>4. z \in OnRing
    BY <1>1, <1>2, <1>3 DEF OnRing, Unlinked
  <1> QED BY <1>1, <1>2, <1>3, <1>4

\* Links of slots that are not on the ring do not matter to it.
LEMMA CycleSame ==
    ASSUME NEW nx, NEW ny, NEW R, Cycle(nx, R), \A s \in R : ny[s] = nx[s]
    PROVE  Cycle(ny, R)
  BY DEF Cycle

\* The boot state: kmain alone on the ring.
LEMMA InitRing == Init => RInv
  <1> SUFFICES ASSUME Init PROVE RInv
    OBVIOUS
  <1>1. 0 \in Slots /\ 0 \in CPUs
    BY Sizes
  <1>2. /\ \A s \in Slots : state[s] = IF s \in CPUs THEN "RUNNING" ELSE "UNUSED"
        /\ \A s \in Slots : s \in CPUs /\ s # 0 => kind[s] = "idle"
        /\ kind[0] = "kmain" /\ \A t \in Slots : at[t] = "run"
        /\ next[0] = 0 /\ \A s \in Slots : s # 0 => next[s] = None
    BY <1>1 DEF Init
  <1>3. tcb = [s \in Slots |-> s \in CPUs]
    BY DEF Init
  <1>4. \A s \in Slots : tcb[s] <=> s \in CPUs
    BY <1>3
  <1>5. OnRing = {0}
    BY <1>1, <1>2 DEF OnRing, Unlinked, OffLabels
  <1>6. RingCycle
    <2>1. \A X \in SUBSET {0} : X # {} => X = {0}
      OBVIOUS
    <2>2. Cycle(next, {0})
      BY <1>2, <2>1 DEF Cycle
    <2> QED BY <1>5, <2>2 DEF RingCycle
  <1>7. OffRing /\ WipeTargets /\ ZombieLeft
    BY <1>2, <1>5 DEF OffRing, WipeTargets, ZombieLeft
  <1>8. Resources
    BY <1>1, <1>2, <1>4, <1>5 DEF Resources
  <1> QED BY <1>6, <1>7, <1>8 DEF RInv

\* A step that links and frees nothing leaves the ring alone.
LEMMA QuietStep ==
    ASSUME IInv, RInv, next' = next, tcb' = tcb,
           \A s \in Slots : state'[s] = "UNUSED" <=> state[s] = "UNUSED",
           \A s \in Slots : kind'[s] = "idle" <=> kind[s] = "idle",
           \A t \in Slots : at[t] \in OffLabels \/ at'[t] \in OffLabels
                               => at'[t] = at[t] /\ tgt'[t] = tgt[t],
           boot' # "done" => boot # "done",
           \A c \in CPUs : current'[c] = current[c] \/ state[current'[c]] # "ZOMBIE"
    PROVE  RInv'
  <1>1. \A s \in Slots : Unlinked(s)' <=> Unlinked(s)
    BY DEF Unlinked
  <1>2. OnRing' = OnRing
    BY <1>1 DEF OnRing
  <1>3. RingCycle'
    BY <1>2 DEF RingCycle, RInv
  <1>4. OffRing'
    BY <1>2 DEF OffRing, RInv, OffLabels
  <1>5. WipeTargets'
    <2>1. \A t \in Slots : at'[t] = "w_wipe" => at[t] = "w_wipe" /\ tgt'[t] = tgt[t]
                                                  /\ tgt[t] \in Slots
      BY TypeFacts DEF OffLabels
    <2> QED BY <2>1 DEF WipeTargets, RInv
  <1>6. ZombieLeft'
    <2>1. \A t \in Slots : at'[t] = "w_free" => at[t] = "w_free" /\ tgt'[t] = tgt[t]
                                                  /\ state[tgt[t]] = "ZOMBIE"
      BY OffTargets DEF OffLabels
    <2> QED BY <2>1 DEF ZombieLeft, RInv
  <1>7. Resources'
    <2>1. \A s \in OnRing' : tcb'[s]
      BY <1>2 DEF Resources, RInv
    <2>2. \A t \in Slots : at'[t] \in {"f_splice", "w_free", "w_wipe"} => tcb'[tgt'[t]]
      BY DEF Resources, RInv, OffLabels
    <2>3. \A t \in Slots : at'[t] = "c_build" => ~tcb'[tgt'[t]]
      BY DEF Resources, RInv, OffLabels
    <2>4. boot' # "done" => \A s \in Slots : state'[s] = "UNUSED" => ~tcb'[s]
      BY DEF Resources, RInv
    <2> QED BY <2>1, <2>2, <2>3, <2>4 DEF Resources
  <1> QED BY <1>3, <1>4, <1>5, <1>6, <1>7 DEF RInv

\* Preemption, schedule(), the BKL and the system calls that only change where a
\* task stands leave the ring alone.
LEMMA QuietActions ==
    ASSUME IInv, RInv, NEW c \in CPUs,
           \/ Tick(c) \/ Schedule(c) \/ Bkl(c) \/ SyscallReturn(c) \/ Yield(c)
           \/ Sleep(c) \/ Exit(c) \/ WaitEnter(c) \/ WaitNone(c) \/ WaitSleep(c)
           \/ CreateReady(c) \/ BootDone(c) \/ ReaperCheck(c) \/ ReaperDone(c)
    PROVE  RInv'
  <1> USE TypeFacts, Sizes DEF slotVars, codeVars, cpuVars, lockVars, globVars, OffLabels
  <1>1. CASE Tick(c)
    BY <1>1, QuietStep DEF Tick
  <1>2. CASE Keep(c)
    <2>1. state[current[c]] # "UNUSED"
      BY DEF IInv, CurrentState
    <2> QED BY <1>2, <2>1, QuietStep DEF Keep
  <1>3. CASE Commit(c)
    <2>1. PICK n \in Chosen(c) \ {current[c]} :
             /\ state'   = [Demoted(c) EXCEPT ![n] = "RUNNING"]
             /\ current' = [current EXCEPT ![c] = n]
      BY <1>3 DEF Commit
    <2>2. n \in Slots /\ (n = c \/ Demoted(c)[n] = "READY")
      BY <2>1, ChosenFacts
    <2>3. /\ Demoted(c) \in [Slots -> States]
          /\ \A s \in Slots : Demoted(c)[s] = state[s]
                \/ (Demoted(c)[s] = "READY" /\ state[s] = "RUNNING")
      BY DEF Demoted, States
    <2>4. state[n] \in {"READY", "RUNNING"}
      BY <2>2, <2>3 DEF IInv, FixedSlots
    <2>5. \A s \in Slots : state'[s] = "UNUSED" <=> state[s] = "UNUSED"
      BY <2>1, <2>2, <2>3, <2>4
    <2> QED BY <1>3, <2>1, <2>2, <2>4, <2>5, QuietStep DEF Commit
  <1>4. CASE Switch(c)
    BY <1>4, QuietStep DEF Switch
  <1>5. CASE Finish(c)
    BY <1>5, QuietStep DEF Finish
  <1>6. CASE CallSchedule(c)
    BY <1>6, QuietStep DEF CallSchedule, EnterSchedule
  <1>7. CASE Bkl(c)
    BY <1>7, QuietStep DEF Bkl, SpinBkl, AcquireBkl
  <1>8. CASE SyscallReturn(c) \/ Yield(c) \/ Sleep(c) \/ WaitEnter(c)
    BY <1>8, QuietStep DEF SyscallReturn, Yield, Sleep, WaitEnter, InSyscall,
          Executes, bkl_unlock
  <1>9. CASE Exit(c)
    <2>1. \A s \in Slots : state'[s] = "UNUSED" <=> state[s] = "UNUSED"
      BY <1>9 DEF Exit, InSyscall, IInv, CurrentState
    <2> QED BY <1>9, <2>1, QuietStep DEF Exit, InSyscall, bkl_unlock
  <1>10. CASE WaitNone(c)
    BY <1>10, QuietStep DEF WaitNone, Executes
  <1>11. CASE WaitSleep(c)
    <2>1. state[current[c]] # "UNUSED"
      BY DEF IInv, CurrentState
    <2> QED BY <1>11, <2>1, QuietStep DEF WaitSleep, Executes
  <1>12. CASE CreateReady(c)
    <2>1. state[tgt[0]] = "BLOCKED"
      BY <1>12 DEF CreateReady, KmainAt, IInv, BuildTargets
    <2> QED BY <1>12, <2>1, QuietStep DEF CreateReady, KmainAt, NextBoot
  <1>13. CASE BootDone(c)
    BY <1>13, QuietStep DEF BootDone, Executes, bkl_unlock
  <1>14. CASE ReaperCheck(c) \/ ReaperDone(c)
    BY <1>14, QuietStep DEF ReaperCheck, ReaperDone, Executes, bkl_unlock
  <1> QED BY <1>1, <1>2, <1>3, <1>4, <1>5, <1>6, <1>7, <1>8, <1>9, <1>10, <1>11,
             <1>12, <1>13, <1>14 DEF Schedule

\* task_create: the slot is taken from those that were never used, and linked in
\* after kmain.
LEMMA CreateRing ==
    ASSUME IInv, RInv, NEW c \in CPUs, CreateClaim(c) \/ CreateFail(c) \/ CreateBuild(c)
    PROVE  RInv'
  <1> USE TypeFacts, Sizes DEF slotVars, codeVars, cpuVars, lockVars, globVars
  <1>1. CASE CreateClaim(c)
    <2>1. boot # "done" /\ at[0] \in {"run", "held"}
      BY <1>1 DEF CreateClaim, KmainAt
    <2>2. PICK i \in FreeSlots : /\ state' = [state EXCEPT ![i] = "BLOCKED"]
                                 /\ next'  = [next EXCEPT ![i] = None]
                                 /\ tgt'   = [tgt EXCEPT ![0] = i]
      BY <1>1 DEF CreateClaim
    <2>3. /\ at' = [at EXCEPT ![0] = "c_build"]
          /\ kind' = kind /\ tcb' = tcb /\ current' = current /\ boot' = boot
      BY <1>1 DEF CreateClaim
    <2>4. i \in Slots /\ i # 0 /\ state[i] = "UNUSED"
      BY <2>1, UserFacts DEF FreeSlots
    <2>5. \A t \in Slots : at[t] \notin OffLabels
      BY <2>1, OffTargets DEF OffLabels
    <2>6. \A t \in Slots : at'[t] \in OffLabels => t = 0 /\ at'[t] = "c_build" /\ tgt'[t] = i
      BY <2>2, <2>3, <2>5
    <2>7. 0 \in Slots /\ at'[0] = "c_build" /\ tgt'[0] = i
      BY <2>2, <2>3
    <2>8. i \notin OnRing /\ OnRing' = OnRing
      BY <2>2, <2>3, <2>4, <2>5, <2>6, <2>7 DEF OnRing, Unlinked, OffLabels
    <2>9. RingCycle'
      <3>1. \A s \in OnRing : next'[s] = next[s]
        BY <2>2, <2>8
      <3> QED BY <3>1, <2>8, CycleSame DEF RingCycle, RInv
    <2>10. OffRing'
      BY <2>2, <2>4, <2>5, <2>8 DEF OffRing, RInv, OffLabels, Links
    <2>11. ~tcb[i]
      BY <2>1, <2>4 DEF Resources, RInv
    <2>12. Resources'
      <3>1. \A s \in OnRing' : tcb'[s]
        BY <2>3, <2>8 DEF Resources, RInv
      <3>2. \A t \in Slots : at'[t] = "c_build" => ~tcb'[tgt'[t]]
        BY <2>3, <2>6, <2>11 DEF OffLabels
      <3>3. \A s \in Slots : state'[s] = "UNUSED" => ~tcb'[s]
        BY <2>1, <2>2, <2>3, <2>4 DEF Resources, RInv
      <3> QED BY <3>1, <3>2, <3>3, <2>6 DEF Resources, OffLabels
    <2>13. WipeTargets' /\ ZombieLeft'
      BY <2>6 DEF WipeTargets, ZombieLeft, OffLabels
    <2> QED BY <2>9, <2>10, <2>12, <2>13 DEF RInv
  <1>2. CASE CreateFail(c)
    <2> DEFINE i == tgt[0]
    <2>1. at[0] = "c_build" /\ boot # "done" /\ state[i] = "BLOCKED" /\ i \in Slots
      BY <1>2, OffTargets DEF CreateFail, KmainAt, OffLabels
    <2>2. /\ state' = [state EXCEPT ![i] = "UNUSED"]
          /\ at'[0] \in {"held", "run"}
          /\ \A t \in Slots : t # 0 => at'[t] = at[t] /\ tgt'[t] = tgt[t]
          /\ next' = next /\ kind' = kind /\ tcb' = tcb
      BY <1>2 DEF CreateFail
    <2>3. \A t \in Slots : at[t] \in OffLabels => t = 0
      BY <2>1, OffTargets
    <2>4. \A t \in Slots : at'[t] \notin OffLabels
      BY <2>2, <2>3 DEF OffLabels
    <2>5. Unlinked(i) /\ \A s \in Slots : Unlinked(s) => s = i
      BY <2>1, <2>3 DEF Unlinked, OffLabels
    <2> HIDE DEF i
    <2>6. i \notin OnRing /\ OnRing' = OnRing
      <3>1. \A s \in Slots : ~Unlinked(s)'
        BY <2>4 DEF Unlinked, OffLabels
      <3> QED BY <3>1, <2>1, <2>2, <2>5 DEF OnRing
    <2>7. RingCycle'
      BY <2>2, <2>6 DEF RingCycle, RInv
    <2>8. OffRing'
      <3>1. \A t \in Slots : at[t] \notin {"w_free", "w_wipe", "r_free"}
        BY <2>1, <2>3 DEF OffLabels
      <3> QED BY <3>1, <2>2, <2>6 DEF OffRing, RInv
    <2>9. ~tcb[i]
      BY <2>1 DEF Resources, RInv, i
    <2>10. Resources'
      <3>1. \A s \in OnRing' : tcb'[s]
        BY <2>2, <2>6 DEF Resources, RInv
      <3>2. \A s \in Slots : state'[s] = "UNUSED" => ~tcb'[s]
        BY <2>1, <2>2, <2>9 DEF Resources, RInv
      <3> QED BY <3>1, <3>2, <2>4 DEF Resources, OffLabels
    <2>11. WipeTargets' /\ ZombieLeft'
      BY <2>4 DEF WipeTargets, ZombieLeft, OffLabels
    <2> QED BY <2>7, <2>8, <2>10, <2>11 DEF RInv
  <1>3. CASE CreateBuild(c)
    <2> DEFINE i == tgt[0]
    <2>1. at[0] = "c_build" /\ boot # "done" /\ state[i] = "BLOCKED" /\ i \in Slots
      BY <1>3, OffTargets DEF CreateBuild, KmainAt, OffLabels
    <2>2. 0 \in OnRing
      BY KmainOnRing
    <2>3. next[0] \in OnRing /\ next[0] # None
      BY <2>2 DEF RInv, RingCycle, Cycle
    <2>4. i # 0 /\ kind[i] # "idle"
      BY <2>1 DEF IInv, FixedSlots
    <2>5. /\ next' = [next EXCEPT ![i] = next[0], ![0] = i]
          /\ kind' = [kind EXCEPT ![i] = boot]
          /\ tcb'  = [tcb EXCEPT ![i] = TRUE]
          /\ at'   = [at EXCEPT ![i] = "new", ![0] = "c_ready"]
          /\ tgt' = tgt /\ state' = state /\ boot' = boot /\ current' = current
      BY <1>3, <2>3 DEF CreateBuild
    <2>6. \A t \in Slots : at[t] \in OffLabels => t = 0
      BY <2>1, OffTargets
    <2>7. \A t \in Slots : at'[t] \notin OffLabels
      BY <2>5, <2>6 DEF OffLabels
    <2>8. Unlinked(i) /\ \A s \in Slots : Unlinked(s) => s = i
      BY <2>1, <2>6 DEF Unlinked, OffLabels
    <2> HIDE DEF i
    <2>9. boot \in {"kernel", "user"}
      BY <2>1 DEF IInv, TypeOK, GlobalTypes
    <2>10. i \notin OnRing /\ OnRing' = OnRing \cup {i}
      <3>1. \A s \in Slots : ~Unlinked(s)'
        BY <2>7 DEF Unlinked, OffLabels
      <3>2. kind'[i] # "idle" /\ \A s \in Slots : s # i => kind'[s] = kind[s]
        BY <2>1, <2>5, <2>9
      <3> QED BY <3>1, <3>2, <2>1, <2>5, <2>8 DEF OnRing
    <2>11. RingCycle'
      BY <2>1, <2>2, <2>5, <2>10, CycleInsert DEF RingCycle, RInv
    <2>12. OffRing'
      <3>1. \A t \in Slots : at[t] \notin {"w_free", "w_wipe", "r_free"}
        BY <2>1, <2>6 DEF OffLabels
      <3>2. \A s \in Slots : s # 0 /\ s # i => next'[s] = next[s]
        BY <2>5 DEF Links
      <3>3. \A s \in Slots \ OnRing : next[s] = None
        BY <3>1 DEF OffRing, RInv
      <3> QED BY <3>2, <3>3, <2>2, <2>10 DEF OffRing
    <2>13. Resources'
      <3>1. tcb'[i] /\ \A s \in Slots : s # i => tcb'[s] = tcb[s]
        BY <2>1, <2>5
      <3>2. \A s \in OnRing' : tcb'[s]
        BY <3>1, <2>10 DEF Resources, RInv
      <3>3. \A s \in Slots : state'[s] = "UNUSED" => ~tcb'[s]
        BY <3>1, <2>1, <2>5 DEF Resources, RInv
      <3> QED BY <3>2, <3>3, <2>7 DEF Resources, OffLabels
    <2>14. WipeTargets' /\ ZombieLeft'
      BY <2>7 DEF WipeTargets, ZombieLeft, OffLabels
    <2> QED BY <2>11, <2>12, <2>13, <2>14 DEF RInv
  <1> QED BY <1>1, <1>2, <1>3

\* task_fork: the slot is a cleared one, and is linked in after the parent.
LEMMA ForkRing ==
    ASSUME IInv, RInv, NEW c \in CPUs, ForkBuild(c) \/ ForkSplice(c), FreshFork
    PROVE  RInv'
  <1> USE TypeFacts, Sizes DEF slotVars, codeVars, cpuVars, lockVars, globVars
  <1> DEFINE t == current[c]
  <1>1. t \in Slots
    OBVIOUS
  <1>2. CASE ForkBuild(c)
    <2>1. PICK i \in FreeSlots :
              /\ state'  = [state EXCEPT ![i] = "BLOCKED"]
              /\ next'   = [next EXCEPT ![i] = None]
              /\ kind'   = [kind EXCEPT ![i] = "user"]
              /\ tcb'    = [tcb EXCEPT ![i] = TRUE]
              /\ at'     = [at EXCEPT ![i] = "new", ![t] = "f_splice"]
              /\ tgt'    = [tgt EXCEPT ![t] = i]
      BY <1>2 DEF ForkBuild
    <2>2. /\ at[t] = "held" /\ kind[t] = "user"
          /\ current' = current /\ boot' = boot
      BY <1>2 DEF ForkBuild, Executes
    <2>3. state[t] = "RUNNING" /\ boot = "done"
      <3>1. state[t] = "RUNNING"
        BY <1>2, <2>2 DEF ForkBuild, Executes, IInv, CurrentState
      <3> QED BY <3>1, <1>1, <2>2 DEF IInv, Roles
    <2>4. i \in Slots /\ i # t /\ state[i] \in {"UNUSED", "DEAD"}
      BY <2>3 DEF FreeSlots
    <2>5. ~tcb[i]
      <3>1. at'[t] = "f_splice" /\ tgt'[t] = i
        BY <1>1, <2>1
      <3> QED BY <3>1, <1>1, <2>2 DEF FreshFork
    <2>6. i \notin OnRing
      BY <2>5 DEF Resources, RInv
    <2>7. ASSUME NEW u \in Slots, at[u] \in OffLabels PROVE tgt[u] # i /\ u # i /\ u # t
      <3>1. at[u] # "r_free"
        <4>1. HoldsBkl(t)
          BY <2>2 DEF HoldsBkl
        <4>2. at[u] = "r_free" => HoldsBkl(u)
          BY DEF HoldsBkl
        <4> QED BY <4>1, <4>2, <1>1, <2>2, OneBkl
      <3>2. CASE at[u] \in {"f_splice", "w_free", "w_wipe"}
        BY <3>2, <2>2, <2>4, <2>5, <2>7, OffTargets DEF Resources, RInv, OffLabels
      <3>3. CASE at[u] = "c_build"
        BY <3>3, <2>3, <2>7, OffTargets
      <3> QED BY <3>1, <3>2, <3>3, <2>7 DEF OffLabels
    <2>8. /\ at'[t] = "f_splice" /\ tgt'[t] = i
          /\ \A u \in Slots : u # t /\ at'[u] \in OffLabels
                => at[u] = at'[u] /\ tgt'[u] = tgt[u] /\ tgt[u] # i
          /\ \A u \in Slots : at[u] \in OffLabels => at'[u] = at[u] /\ tgt'[u] = tgt[u]
      <3>1. at'[t] = "f_splice" /\ tgt'[t] = i /\ at'[i] = "new"
        BY <1>1, <2>1, <2>4
      <3>2. \A u \in Slots : u # t /\ u # i => at'[u] = at[u] /\ tgt'[u] = tgt[u]
        BY <1>1, <2>1, <2>4
      <3> QED BY <3>1, <3>2, <2>7 DEF OffLabels
    <2>9. OnRing' = OnRing
      <3>1. Unlinked(i)'
        BY <1>1, <2>8 DEF Unlinked, OffLabels
      <3>2. \A s \in Slots : s # i => (Unlinked(s)' <=> Unlinked(s))
        BY <1>1, <2>8 DEF Unlinked, OffLabels
      <3>3. \A s \in Slots : s # i => state'[s] = state[s] /\ kind'[s] = kind[s]
        BY <2>1, <2>4
      <3> QED BY <3>1, <3>2, <3>3, <2>6 DEF OnRing
    <2>10. RingCycle'
      <3>1. \A s \in OnRing : next'[s] = next[s]
        BY <2>1, <2>6
      <3> QED BY <3>1, <2>9, CycleSame DEF RingCycle, RInv
    <2>11. OffRing'
      <3>1. next'[i] = None /\ \A s \in Slots : s # i => next'[s] = next[s]
        BY <2>1, <2>4 DEF Links
      <3>2. ASSUME NEW s \in Slots, s \notin OnRing, s # i, next[s] # None
            PROVE  \E u \in Slots : at'[u] \in {"w_free", "w_wipe", "r_free"} /\ tgt'[u] = s
        <4>1. PICK u \in Slots : at[u] \in {"w_free", "w_wipe", "r_free"} /\ tgt[u] = s
          BY <3>2 DEF OffRing, RInv
        <4> QED BY <4>1, <2>8 DEF OffLabels
      <3> QED BY <3>1, <3>2, <2>9 DEF OffRing
    <2>12. Resources'
      <3>1. tcb'[i] /\ \A s \in Slots : s # i => tcb'[s] = tcb[s]
        BY <2>1, <2>4
      <3>2. \A s \in OnRing' : tcb'[s]
        BY <3>1, <2>6, <2>9 DEF Resources, RInv
      <3>3. \A u \in Slots : at'[u] \in {"f_splice", "w_free", "w_wipe"} => tcb'[tgt'[u]]
        BY <3>1, <2>8 DEF Resources, RInv, OffLabels
      <3>4. \A u \in Slots : at'[u] # "c_build"
        BY <2>3, <2>8, OffTargets DEF OffLabels
      <3> QED BY <3>2, <3>3, <3>4, <2>2, <2>3 DEF Resources
    <2>13. WipeTargets'
      BY <2>1, <2>4, <2>8 DEF WipeTargets, RInv, OffLabels
    <2>14. ZombieLeft'
      BY <2>2, <2>8 DEF ZombieLeft, RInv, OffLabels
    <2> QED BY <2>10, <2>11, <2>12, <2>13, <2>14 DEF RInv
  <1>3. CASE ForkSplice(c)
    <2>0. PICK i \in Slots : i = tgt[t]
      BY <1>1
    <2>1. /\ at[t] = "f_splice" /\ state[i] = "BLOCKED" /\ i \in Slots
          /\ kind[t] = "user" /\ boot = "done" /\ tcb[i] /\ state[t] \in {"READY", "RUNNING"}
      BY <1>1, <1>3, <2>0, OffTargets DEF ForkSplice, Executes, OffLabels, Resources, RInv
    <2>2. /\ next'  = [next EXCEPT ![i] = next[t], ![t] = i]
          /\ state' = [state EXCEPT ![i] = "READY"]
          /\ at'    = [at EXCEPT ![t] = "y_held"]
          /\ tgt'   = [tgt EXCEPT ![t] = 0]
          /\ kind' = kind /\ tcb' = tcb /\ current' = current /\ boot' = boot
      BY <1>3, <2>0 DEF ForkSplice
    <2>3. t \in OnRing
      BY <1>1, <2>1, RunnersOnRing
    <2>4. kind[i] # "idle"
      BY <2>1 DEF IInv, FixedSlots
    <2>5. ASSUME NEW u \in Slots, at[u] \in OffLabels, u # t, tgt[u] = i
          PROVE  at[u] = "w_wipe"
      <3>1. at[u] # "f_splice"
        <4>1. HoldsBkl(t)
          BY <2>1 DEF HoldsBkl
        <4>2. at[u] = "f_splice" => HoldsBkl(u)
          BY DEF HoldsBkl
        <4> QED BY <4>1, <4>2, <1>1, <2>5, OneBkl
      <3> QED BY <3>1, <2>1, <2>5, OffTargets DEF OffLabels
    <2>6. /\ at'[t] = "y_held"
          /\ \A u \in Slots : u # t => at'[u] = at[u] /\ tgt'[u] = tgt[u]
      BY <1>1, <2>2
    <2>7. Unlinked(i)
      BY <1>1, <2>0, <2>1 DEF Unlinked, OffLabels
    <2>8. i \notin OnRing /\ OnRing' = OnRing \cup {i}
      <3>1. ~Unlinked(i)'
        BY <2>5, <2>6 DEF Unlinked, OffLabels
      <3>2. \A s \in Slots : s # i => (Unlinked(s)' <=> Unlinked(s))
        BY <2>0, <2>6 DEF Unlinked, OffLabels
      <3> QED BY <3>1, <3>2, <2>1, <2>2, <2>4, <2>7 DEF OnRing
    <2>9. RingCycle'
      BY <2>1, <2>2, <2>3, <2>8, CycleInsert DEF RingCycle, RInv
    <2>10. OffRing'
      <3>1. \A s \in Slots : s # t /\ s # i => next'[s] = next[s]
        BY <2>2 DEF Links
      <3>2. ASSUME NEW s \in Slots, s \notin OnRing, next[s] # None
            PROVE  \E u \in Slots : at'[u] \in {"w_free", "w_wipe", "r_free"} /\ tgt'[u] = s
        <4>1. PICK u \in Slots : at[u] \in {"w_free", "w_wipe", "r_free"} /\ tgt[u] = s
          BY <3>2 DEF OffRing, RInv
        <4> QED BY <4>1, <2>1, <2>6
      <3> QED BY <3>1, <3>2, <2>3, <2>8 DEF OffRing
    <2>11. Resources'
      <3>1. \A s \in OnRing' : tcb'[s]
        BY <2>1, <2>2, <2>8 DEF Resources, RInv
      <3>2. \A u \in Slots : at'[u] \in {"f_splice", "w_free", "w_wipe"} => tcb'[tgt'[u]]
        BY <2>2, <2>6 DEF Resources, RInv
      <3>3. \A u \in Slots : at'[u] = "c_build" => ~tcb'[tgt'[u]]
        BY <2>2, <2>6 DEF Resources, RInv
      <3> QED BY <3>1, <3>2, <3>3, <2>1, <2>2 DEF Resources
    <2>12. WipeTargets'
      BY <2>1, <2>2, <2>6 DEF WipeTargets, RInv
    <2>13. ZombieLeft'
      BY <2>2, <2>6 DEF ZombieLeft, RInv
    <2> QED BY <2>9, <2>10, <2>11, <2>12, <2>13 DEF RInv
  <1> QED BY <1>2, <1>3

\* Taking a slot off the ring leaves the ring of the others, and every link
\* outside it.
LEMMA UnsplicedRing ==
    ASSUME IInv, RInv, NEW z, z \in OnRing, z # 0
    PROVE  /\ Unspliced(z) \in Links
           /\ Cycle(Unspliced(z), OnRing \ {z})
           /\ \A s \in Slots \ OnRing : Unspliced(z)[s] = next[s]
  <1>1. /\ next \in Links /\ OnRing \in SUBSET Slots /\ Cycle(next, OnRing)
        /\ 0 \in OnRing /\ z \in Slots
    BY TypeFacts, KmainOnRing DEF RInv, RingCycle
  <1>2. PICK p \in OnRing : next[p] = z /\ Unspliced(z) = [next EXCEPT ![p] = next[z]]
    BY <1>1, UnsplicedIs
  <1>3. OnRing # {z}
    BY <1>1
  <1>4. Cycle([next EXCEPT ![p] = next[z]], OnRing \ {z})
    BY <1>1, <1>2, <1>3, CycleRemove
  <1>5. [next EXCEPT ![p] = next[z]] \in Links
    BY <1>1 DEF Links
  <1>6. \A s \in Slots \ OnRing : [next EXCEPT ![p] = next[z]][s] = next[s]
    BY <1>1, <1>2 DEF Links
  <1> QED BY <1>2, <1>4, <1>5, <1>6

\* task_wait_current and SYS_WAIT_NB: the zombie leaves the ring before it is
\* freed, and is cleared by the wait that freed it.
LEMMA WaitRing ==
    ASSUME IInv, RInv, NEW c \in CPUs,
           WaitUnsplice(c) \/ WaitFree(c) \/ WaitWipe(c) \/ WaitNb(c)
    PROVE  RInv'
  <1> USE TypeFacts, Sizes DEF slotVars, codeVars, cpuVars, lockVars, globVars
  <1> DEFINE t == current[c]
  <1>1. t \in Slots
    OBVIOUS
  <1>2. CASE WaitUnsplice(c)
    <2>1. PICK z \in ZombiesOf(t) : next' = Unspliced(z) /\ tgt' = [tgt EXCEPT ![t] = z]
      BY <1>2 DEF WaitUnsplice
    <2>2. /\ at[t] = "w_scan" /\ at' = [at EXCEPT ![t] = "w_free"]
          /\ state' = state /\ kind' = kind /\ tcb' = tcb /\ current' = current
          /\ boot' = boot
      BY <1>2 DEF WaitUnsplice, Executes
    <2>3. kind[t] = "user" /\ boot = "done" /\ state[t] = "RUNNING" /\ c = 0
      <3>1. kind[t] = "user" /\ boot = "done"
        BY <1>1, <2>2 DEF IInv, Roles, UserLabels
      <3>2. state[t] = "RUNNING"
        BY <1>2, <2>2 DEF WaitUnsplice, Executes, IInv, CurrentState
      <3> QED BY <3>1, <3>2, UserFacts
    <2>4. /\ z \in OnRing /\ z # 0 /\ z \in Slots /\ state[z] = "ZOMBIE"
          /\ \A u \in Slots : at[u] \in OffLabels /\ tgt[u] = z => at[u] = "w_wipe"
      BY <1>1, <2>1, <2>2, <2>3, ZombieOnRing
    <2>5. /\ next' \in Links /\ Cycle(next', OnRing \ {z})
          /\ \A s \in Slots \ OnRing : next'[s] = next[s]
      BY <2>1, <2>4, UnsplicedRing
    <2>6. /\ at'[t] = "w_free" /\ tgt'[t] = z
          /\ \A u \in Slots : u # t => at'[u] = at[u] /\ tgt'[u] = tgt[u]
      BY <1>1, <2>1, <2>2
    <2>7. OnRing' = OnRing \ {z}
      <3>1. Unlinked(z)'
        BY <1>1, <2>6 DEF Unlinked, OffLabels
      <3>2. \A s \in Slots : s # z => (Unlinked(s)' <=> Unlinked(s))
        BY <2>2, <2>6 DEF Unlinked, OffLabels
      <3> QED BY <3>1, <3>2, <2>2 DEF OnRing
    <2>8. RingCycle'
      BY <2>5, <2>7 DEF RingCycle
    <2>9. OffRing'
      <3>1. ASSUME NEW s \in Slots, s \notin OnRing, next[s] # None
            PROVE  \E u \in Slots : at'[u] \in {"w_free", "w_wipe", "r_free"} /\ tgt'[u] = s
        <4>1. PICK u \in Slots : at[u] \in {"w_free", "w_wipe", "r_free"} /\ tgt[u] = s
          BY <3>1 DEF OffRing, RInv
        <4> QED BY <4>1, <2>2, <2>6
      <3> QED BY <3>1, <1>1, <2>5, <2>6, <2>7 DEF OffRing
    <2>10. Resources'
      <3>1. \A s \in OnRing' : tcb'[s]
        BY <2>2, <2>7 DEF Resources, RInv
      <3>2. tcb[z]
        BY <2>4 DEF Resources, RInv
      <3>3. \A u \in Slots : at'[u] \in {"f_splice", "w_free", "w_wipe"} => tcb'[tgt'[u]]
        BY <3>2, <2>2, <2>6 DEF Resources, RInv
      <3>4. \A u \in Slots : at'[u] = "c_build" => ~tcb'[tgt'[u]]
        BY <2>2, <2>6 DEF Resources, RInv
      <3> QED BY <3>1, <3>3, <3>4, <2>2, <2>3 DEF Resources
    <2>11. WipeTargets'
      BY <2>2, <2>6 DEF WipeTargets, RInv
    <2>12. ZombieLeft'
      <3>1. \A d \in CPUs : current[d] # z
        <4>1. kind[z] = "user"
          BY <2>4, UserFacts
        <4>2. current[0] # z
          BY <2>3, <2>4
        <4> QED BY <4>1, <4>2, UserFacts
      <3> QED BY <3>1, <2>2, <2>6 DEF ZombieLeft, RInv
    <2> QED BY <2>8, <2>9, <2>10, <2>11, <2>12 DEF RInv
  <1>3. CASE WaitFree(c)
    <2>1. PICK z \in Slots : z = tgt[t]
      BY <1>1
    <2>2. /\ at[t] = "w_free" /\ at' = [at EXCEPT ![t] = "w_wipe"]
          /\ state' = [state EXCEPT ![z] = "UNUSED"]
          /\ next' = next /\ kind' = kind /\ tcb' = tcb /\ current' = current
          /\ boot' = boot /\ tgt' = tgt
      BY <1>3, <2>1 DEF WaitFree, Executes
    <2>3. state[z] = "ZOMBIE" /\ boot = "done" /\ tcb[z]
      BY <1>1, <2>1, <2>2, OffTargets DEF OffLabels, Resources, RInv
    <2>4. /\ at'[t] = "w_wipe" /\ \A u \in Slots : u # t => at'[u] = at[u]
      BY <1>1, <2>2
    <2>5. Unlinked(z)
      BY <1>1, <2>1, <2>2 DEF Unlinked, OffLabels
    <2>6. OnRing' = OnRing
      <3>1. \A s \in Slots : s # z => (Unlinked(s)' <=> Unlinked(s))
        BY <2>1, <2>2, <2>4 DEF Unlinked, OffLabels
      <3>2. state'[z] = "UNUSED" /\ \A s \in Slots : s # z => state'[s] = state[s]
        BY <2>2
      <3> QED BY <3>1, <3>2, <2>2, <2>5 DEF OnRing
    <2>7. RingCycle'
      BY <2>2, <2>6 DEF RingCycle, RInv
    <2>8. OffRing'
      <3>1. ASSUME NEW s \in Slots, s \notin OnRing, next[s] # None
            PROVE  \E u \in Slots : at'[u] \in {"w_free", "w_wipe", "r_free"} /\ tgt'[u] = s
        <4>1. PICK u \in Slots : at[u] \in {"w_free", "w_wipe", "r_free"} /\ tgt[u] = s
          BY <3>1 DEF OffRing, RInv
        <4> QED BY <4>1, <2>2, <2>4
      <3> QED BY <3>1, <2>2, <2>6 DEF OffRing
    <2>9. Resources'
      <3>1. \A s \in OnRing' : tcb'[s]
        BY <2>2, <2>6 DEF Resources, RInv
      <3>2. \A u \in Slots : at'[u] \in {"f_splice", "w_free", "w_wipe"} => tcb'[tgt'[u]]
        BY <2>1, <2>2, <2>3, <2>4 DEF Resources, RInv
      <3>3. \A u \in Slots : at'[u] = "c_build" => ~tcb'[tgt'[u]]
        BY <2>2, <2>4 DEF Resources, RInv
      <3> QED BY <3>1, <3>2, <3>3, <2>2, <2>3 DEF Resources
    <2>10. WipeTargets'
      <3>1. \A u \in Slots : u # t /\ at'[u] = "w_wipe" =>
               at[u] = "w_wipe" /\ state[tgt[u]] = "UNUSED" /\ tgt[u] # z
        BY <2>3, <2>4 DEF WipeTargets, RInv
      <3>2. \A u \in Slots : at'[u] = "w_wipe" => state'[tgt'[u]] = "UNUSED"
        BY <3>1, <2>1, <2>2
      <3>3. \A u, v \in Slots :
               at'[u] = "w_wipe" /\ at'[v] = "w_wipe" /\ tgt'[u] = tgt'[v] => u = v
        BY <3>1, <2>1, <2>2 DEF WipeTargets, RInv
      <3> QED BY <3>2, <3>3 DEF WipeTargets
    <2>11. ZombieLeft'
      BY <2>2, <2>4 DEF ZombieLeft, RInv
    <2> QED BY <2>7, <2>8, <2>9, <2>10, <2>11 DEF RInv
  <1>4. CASE WaitWipe(c)
    <2>1. PICK z \in Slots : z = tgt[t]
      BY <1>1
    <2>2. /\ at[t] = "w_wipe" /\ at' = [at EXCEPT ![t] = "w_done"]
          /\ next' = [next EXCEPT ![z] = None]
          /\ tcb'  = [tcb EXCEPT ![z] = FALSE]
          /\ tgt'  = [tgt EXCEPT ![t] = 0]
          /\ state' = state /\ kind' = kind /\ current' = current /\ boot' = boot
      BY <1>4, <2>1 DEF WaitWipe, Executes
    <2>3. state[z] = "UNUSED" /\ boot = "done"
      BY <1>1, <2>1, <2>2, OffTargets DEF OffLabels, WipeTargets, RInv
    <2>4. /\ at'[t] = "w_done"
          /\ \A u \in Slots : u # t => at'[u] = at[u] /\ tgt'[u] = tgt[u]
      BY <1>1, <2>2
    <2>5. z \notin OnRing /\ OnRing' = OnRing
      <3>1. \A s \in Slots : Unlinked(s)' <=> Unlinked(s)
        BY <2>2, <2>4 DEF Unlinked, OffLabels
      <3> QED BY <3>1, <2>2, <2>3 DEF OnRing
    <2>6. \A u \in Slots : u # t /\ at[u] \in OffLabels => tgt[u] # z
      BY <1>1, <2>1, <2>2, <2>3, OffTargets DEF OffLabels, WipeTargets, RInv
    <2>7. /\ next'[z] = None /\ ~tcb'[z]
          /\ \A s \in Slots : s # z => next'[s] = next[s] /\ tcb'[s] = tcb[s]
      BY <2>2 DEF Links
    <2>8. RingCycle'
      <3>1. \A s \in OnRing : next'[s] = next[s]
        BY <2>5, <2>7
      <3> QED BY <3>1, <2>5, CycleSame DEF RingCycle, RInv
    <2>9. OffRing'
      <3>1. ASSUME NEW s \in Slots, s \notin OnRing, next[s] # None, s # z
            PROVE  \E u \in Slots : at'[u] \in {"w_free", "w_wipe", "r_free"} /\ tgt'[u] = s
        <4>1. PICK u \in Slots : at[u] \in {"w_free", "w_wipe", "r_free"} /\ tgt[u] = s
          BY <3>1 DEF OffRing, RInv
        <4> QED BY <4>1, <3>1, <2>1, <2>4
      <3> QED BY <3>1, <2>5, <2>7 DEF OffRing
    <2>10. Resources'
      <3>1. \A s \in OnRing' : tcb'[s]
        BY <2>5, <2>7 DEF Resources, RInv
      <3>2. \A u \in Slots : at'[u] \in {"f_splice", "w_free", "w_wipe"} => tcb'[tgt'[u]]
        BY <2>4, <2>6, <2>7 DEF Resources, RInv, OffLabels
      <3>3. \A u \in Slots : at'[u] # "c_build"
        BY <2>3, <2>4, OffTargets DEF OffLabels
      <3> QED BY <3>1, <3>2, <3>3, <2>2, <2>3 DEF Resources
    <2>11. WipeTargets'
      BY <2>2, <2>4 DEF WipeTargets, RInv
    <2>12. ZombieLeft'
      BY <2>2, <2>4 DEF ZombieLeft, RInv
    <2> QED BY <2>8, <2>9, <2>10, <2>11, <2>12 DEF RInv
  <1>5. CASE WaitNb(c)
    <2>1. PICK z \in ZombiesOf(t) : /\ next'  = [Unspliced(z) EXCEPT ![z] = None]
                                    /\ state' = [state EXCEPT ![z] = "UNUSED"]
                                    /\ tcb'   = [tcb EXCEPT ![z] = FALSE]
      BY <1>5 DEF WaitNb
    <2>2. /\ at[t] = "held" /\ kind[t] = "user" /\ at' = [at EXCEPT ![t] = "y_held"]
          /\ tgt' = tgt /\ kind' = kind /\ current' = current /\ boot' = boot
      BY <1>5 DEF WaitNb, Executes
    <2>3. boot = "done"
      <3>1. state[t] = "RUNNING"
        BY <1>5, <2>2 DEF WaitNb, Executes, IInv, CurrentState
      <3> QED BY <3>1, <1>1, <2>2 DEF IInv, Roles
    <2>4. /\ z \in OnRing /\ z # 0 /\ z \in Slots /\ state[z] = "ZOMBIE"
          /\ \A u \in Slots : at[u] \in OffLabels /\ tgt[u] = z => at[u] = "w_wipe"
      BY <1>1, <2>1, <2>2, ZombieOnRing
    <2>5. \A u \in Slots : at[u] \in OffLabels => tgt[u] # z
      BY <2>4 DEF WipeTargets, RInv
    <2>6. /\ Unspliced(z) \in Links /\ Cycle(Unspliced(z), OnRing \ {z})
          /\ \A s \in Slots \ OnRing : Unspliced(z)[s] = next[s]
      BY <2>4, UnsplicedRing
    <2>7. /\ next'[z] = None /\ \A s \in Slots : s # z => next'[s] = Unspliced(z)[s]
          /\ ~tcb'[z] /\ \A s \in Slots : s # z => tcb'[s] = tcb[s]
          /\ state'[z] = "UNUSED" /\ \A s \in Slots : s # z => state'[s] = state[s]
      BY <2>1, <2>4, <2>6 DEF Links
    <2>8. \A u \in Slots : /\ at'[u] \in OffLabels <=> at[u] \in OffLabels
                           /\ at[u] \in OffLabels => at'[u] = at[u]
      BY <1>1, <2>2 DEF OffLabels
    <2>9. OnRing' = OnRing \ {z}
      <3>1. \A s \in Slots : Unlinked(s)' <=> Unlinked(s)
        BY <2>2, <2>8 DEF Unlinked
      <3> QED BY <3>1, <2>2, <2>7 DEF OnRing
    <2>10. RingCycle'
      <3>1. \A s \in OnRing \ {z} : next'[s] = Unspliced(z)[s]
        BY <2>7
      <3> QED BY <3>1, <2>6, <2>9, CycleSame DEF RingCycle
    <2>11. OffRing'
      <3>1. ASSUME NEW s \in Slots, s \notin OnRing, next[s] # None
            PROVE  \E u \in Slots : at'[u] \in {"w_free", "w_wipe", "r_free"} /\ tgt'[u] = s
        <4>1. PICK u \in Slots : at[u] \in {"w_free", "w_wipe", "r_free"} /\ tgt[u] = s
          BY <3>1 DEF OffRing, RInv
        <4> QED BY <4>1, <2>2, <2>8 DEF OffLabels
      <3> QED BY <3>1, <2>6, <2>7, <2>9 DEF OffRing
    <2>12. Resources'
      <3>1. \A s \in OnRing' : tcb'[s]
        BY <2>7, <2>9 DEF Resources, RInv
      <3>2. \A u \in Slots : at'[u] \in {"f_splice", "w_free", "w_wipe"} => tcb'[tgt'[u]]
        BY <2>2, <2>5, <2>7, <2>8 DEF Resources, RInv, OffLabels
      <3>3. \A u \in Slots : at'[u] # "c_build"
        BY <2>3, <2>8, OffTargets DEF OffLabels
      <3> QED BY <3>1, <3>2, <3>3, <2>2, <2>3 DEF Resources
    <2>13. WipeTargets'
      BY <2>2, <2>5, <2>7, <2>8 DEF WipeTargets, RInv, OffLabels
    <2>14. ZombieLeft'
      BY <2>2, <2>8 DEF ZombieLeft, RInv, OffLabels
    <2> QED BY <2>10, <2>11, <2>12, <2>13, <2>14 DEF RInv
  <1> QED BY <1>2, <1>3, <1>4, <1>5

\* task_reaper: the DEAD slot leaves the ring before it is freed.
LEMMA ReaperRing ==
    ASSUME IInv, RInv, NEW c \in CPUs, ReaperUnsplice(c) \/ ReaperFree(c)
    PROVE  RInv'
  <1> USE TypeFacts, Sizes DEF slotVars, codeVars, cpuVars, lockVars, globVars
  <1> DEFINE t == current[c]
  <1>1. t \in Slots
    OBVIOUS
  <1>2. PICK z \in Slots : z = tgt[t]
    BY <1>1
  <1>3. ASSUME at[t] \in {"r_unsplice", "r_free"}
        PROVE  /\ state[z] = "DEAD" /\ boot = "done" /\ kind[z] = "user"
               /\ \A u \in Slots : u # t => at[u] # "r_free"
    <2>1. state[z] = "DEAD" /\ boot = "done"
      BY <1>1, <1>2, <1>3 DEF IInv, ReapTargets, Roles, ReaperLabels
    <2>2. HoldsBkl(t) /\ \A u \in Slots : at[u] = "r_free" => HoldsBkl(u)
      BY <1>3 DEF HoldsBkl
    <2> QED BY <1>1, <2>1, <2>2, OneBkl, UserFacts
  <1>4. CASE ReaperUnsplice(c)
    <2>1. /\ at[t] = "r_unsplice" /\ at' = [at EXCEPT ![t] = "r_free"]
          /\ next' = Unspliced(z)
          /\ state' = state /\ kind' = kind /\ tcb' = tcb /\ current' = current
          /\ boot' = boot /\ tgt' = tgt
      BY <1>2, <1>4 DEF ReaperUnsplice, Executes
    <2>2. /\ state[z] = "DEAD" /\ boot = "done" /\ kind[z] = "user"
          /\ \A u \in Slots : at[u] # "r_free"
      BY <1>3, <2>1
    <2>3. z \in OnRing /\ z # 0
      <3>1. ASSUME NEW u \in Slots, at[u] \in OffLabels \ {"w_wipe"}, tgt[u] = z
            PROVE  FALSE
        BY <3>1, <2>2, OffTargets DEF OffLabels
      <3> QED BY <3>1, <2>2 DEF OnRing, Unlinked, IInv, FixedSlots
    <2>4. /\ next' \in Links /\ Cycle(next', OnRing \ {z})
          /\ \A s \in Slots \ OnRing : next'[s] = next[s]
      BY <2>1, <2>3, UnsplicedRing
    <2>5. at'[t] = "r_free" /\ \A u \in Slots : u # t => at'[u] = at[u]
      BY <1>1, <2>1
    <2>6. OnRing' = OnRing \ {z}
      <3>1. Unlinked(z)'
        BY <1>1, <1>2, <2>1, <2>5 DEF Unlinked, OffLabels
      <3>2. \A s \in Slots : s # z => (Unlinked(s)' <=> Unlinked(s))
        BY <1>2, <2>1, <2>5 DEF Unlinked, OffLabels
      <3> QED BY <3>1, <3>2, <2>1 DEF OnRing
    <2>7. RingCycle'
      BY <2>4, <2>6 DEF RingCycle
    <2>8. OffRing'
      <3>1. ASSUME NEW s \in Slots, s \notin OnRing, next[s] # None
            PROVE  \E u \in Slots : at'[u] \in {"w_free", "w_wipe", "r_free"} /\ tgt'[u] = s
        <4>1. PICK u \in Slots : at[u] \in {"w_free", "w_wipe", "r_free"} /\ tgt[u] = s
          BY <3>1 DEF OffRing, RInv
        <4> QED BY <4>1, <2>1, <2>5
      <3> QED BY <3>1, <1>1, <1>2, <2>1, <2>4, <2>5, <2>6 DEF OffRing
    <2>9. Resources'
      <3>1. \A s \in OnRing' : tcb'[s]
        BY <2>1, <2>6 DEF Resources, RInv
      <3>2. \A u \in Slots : at'[u] \in {"f_splice", "w_free", "w_wipe"} => tcb'[tgt'[u]]
        BY <2>1, <2>5 DEF Resources, RInv
      <3>3. \A u \in Slots : at'[u] = "c_build" => ~tcb'[tgt'[u]]
        BY <2>1, <2>5 DEF Resources, RInv
      <3> QED BY <3>1, <3>2, <3>3, <2>1, <2>2 DEF Resources
    <2>10. WipeTargets' /\ ZombieLeft'
      BY <2>1, <2>5 DEF WipeTargets, ZombieLeft, RInv
    <2> QED BY <2>7, <2>8, <2>9, <2>10 DEF RInv
  <1>5. CASE ReaperFree(c)
    <2>1. /\ at[t] = "r_free" /\ at' = [at EXCEPT ![t] = "held"]
          /\ state' = [state EXCEPT ![z] = "UNUSED"]
          /\ next'  = [next EXCEPT ![z] = None]
          /\ tcb'   = [tcb EXCEPT ![z] = FALSE]
          /\ kind' = kind /\ current' = current /\ boot' = boot /\ tgt' = tgt
      BY <1>2, <1>5 DEF ReaperFree, Executes
    <2>2. /\ state[z] = "DEAD" /\ boot = "done"
          /\ \A u \in Slots : u # t => at[u] # "r_free"
      BY <1>3, <2>1
    <2>3. at'[t] = "held" /\ \A u \in Slots : u # t => at'[u] = at[u]
      BY <1>1, <2>1
    <2>4. Unlinked(z)
      BY <1>1, <1>2, <2>1 DEF Unlinked, OffLabels
    <2>5. /\ next'[z] = None /\ ~tcb'[z] /\ state'[z] = "UNUSED"
          /\ \A s \in Slots : s # z =>
                next'[s] = next[s] /\ tcb'[s] = tcb[s] /\ state'[s] = state[s]
      BY <2>1 DEF Links
    <2>6. z \notin OnRing /\ OnRing' = OnRing
      <3>1. \A s \in Slots : s # z => (Unlinked(s)' <=> Unlinked(s))
        BY <1>2, <2>1, <2>3 DEF Unlinked, OffLabels
      <3> QED BY <3>1, <2>1, <2>4, <2>5 DEF OnRing
    <2>7. \A u \in Slots : at'[u] \in OffLabels =>
             u # t /\ at[u] = at'[u] /\ tgt[u] # z
      BY <2>2, <2>3, OffTargets DEF OffLabels, WipeTargets, RInv
    <2>8. RingCycle'
      <3>1. \A s \in OnRing : next'[s] = next[s]
        BY <2>5, <2>6
      <3> QED BY <3>1, <2>6, CycleSame DEF RingCycle, RInv
    <2>9. OffRing'
      <3>1. ASSUME NEW s \in Slots, s \notin OnRing, next[s] # None, s # z
            PROVE  \E u \in Slots : at'[u] \in {"w_free", "w_wipe", "r_free"} /\ tgt'[u] = s
        <4>1. PICK u \in Slots : at[u] \in {"w_free", "w_wipe", "r_free"} /\ tgt[u] = s
          BY <3>1 DEF OffRing, RInv
        <4> QED BY <4>1, <3>1, <1>2, <2>1, <2>3
      <3> QED BY <3>1, <2>5, <2>6 DEF OffRing
    <2>10. Resources'
      <3>1. \A s \in OnRing' : tcb'[s]
        BY <2>5, <2>6 DEF Resources, RInv
      <3>2. \A u \in Slots : at'[u] \in {"f_splice", "w_free", "w_wipe"} => tcb'[tgt'[u]]
        BY <2>1, <2>5, <2>7 DEF Resources, RInv, OffLabels
      <3>3. \A u \in Slots : at'[u] # "c_build"
        BY <2>2, <2>7, OffTargets DEF OffLabels
      <3> QED BY <3>1, <3>2, <3>3, <2>1, <2>2 DEF Resources
    <2>11. WipeTargets'
      BY <2>1, <2>5, <2>7 DEF WipeTargets, RInv, OffLabels
    <2>12. ZombieLeft'
      BY <2>1, <2>7 DEF ZombieLeft, RInv, OffLabels
    <2> QED BY <2>8, <2>9, <2>10, <2>11, <2>12 DEF RInv
  <1> QED BY <1>4, <1>5

\* Every step in which a fork takes a cleared slot preserves the ring.
LEMMA NextRing ==
    IInv /\ RInv /\ [Next]_vars /\ [FreshFork]_vars => RInv'
  <1> SUFFICES ASSUME IInv, RInv, [Next]_vars, [FreshFork]_vars PROVE RInv'
    OBVIOUS
  <1>1. CASE UNCHANGED vars
    BY <1>1, QuietStep DEF vars, slotVars, codeVars, cpuVars, lockVars, globVars
  <1>2. CASE Next /\ FreshFork
    <2>1. PICK c \in CPUs : Tick(c) \/ Schedule(c) \/ Bkl(c) \/ Kmain(c)
                              \/ Syscall(c) \/ Reaper(c)
      BY <1>2 DEF Next
    <2> QED
      BY <1>2, <2>1, QuietActions, CreateRing, ForkRing, WaitRing, ReaperRing
        DEF Kmain, Syscall, Reaper
  <1> QED BY <1>1, <1>2

\* Only task_fork begins a splice.
LEMMA ForkBegins ==
    ASSUME IInv, NEW c \in CPUs,
           Tick(c) \/ Schedule(c) \/ Bkl(c) \/ Kmain(c) \/ Syscall(c) \/ Reaper(c),
           ~ForkBuild(c), NEW t \in Slots, at'[t] = "f_splice"
    PROVE  at[t] = "f_splice"
  <1> USE TypeFacts, Sizes DEF slotVars, codeVars, cpuVars, lockVars, globVars
  <1>1. CASE Tick(c) \/ Schedule(c) \/ Bkl(c)
    BY <1>1 DEF Tick, Schedule, Keep, Commit, Switch, Finish, CallSchedule, Bkl, SpinBkl,
          AcquireBkl
  <1>2. CASE Kmain(c) \/ Reaper(c)
    BY <1>2 DEF Kmain, CreateClaim, CreateFail, CreateBuild, CreateReady, BootDone,
          Reaper, ReaperCheck, ReaperUnsplice, ReaperFree, ReaperDone
  <1>3. CASE Syscall(c)
    BY <1>3 DEF Syscall, SyscallReturn, Yield, Sleep, ForkSplice, Exit, WaitEnter,
          WaitUnsplice, WaitNone, WaitSleep, WaitFree, WaitWipe, WaitNb
  <1> QED BY <1>1, <1>2, <1>3

\* The history only grows, and it records every fork that takes a slot which was
\* not cleared.
LEMMA ReuseRecorded ==
    ASSUME IInv, Next, ~reused'
    PROVE  ~reused /\ FreshFork
  <1> USE TypeFacts, Sizes DEF slotVars, codeVars, cpuVars, lockVars, globVars
  <1>1. PICK c \in CPUs : Tick(c) \/ Schedule(c) \/ Bkl(c) \/ Kmain(c)
                            \/ Syscall(c) \/ Reaper(c)
    BY DEF Next
  <1>2. CASE ForkBuild(c)
    <2>1. PICK i \in FreeSlots : /\ at'  = [at EXCEPT ![i] = "new", ![current[c]] = "f_splice"]
                                 /\ tgt' = [tgt EXCEPT ![current[c]] = i]
                                 /\ reused' = (reused \/ tcb[i])
      BY <1>2 DEF ForkBuild
    <2>2. ~reused /\ ~tcb[i]
      BY <2>1
    <2>3. ASSUME NEW t \in Slots, at[t] # "f_splice", at'[t] = "f_splice"
          PROVE  ~tcb[tgt'[t]]
      <3>1. t = current[c] /\ tgt'[t] = i
        BY <2>1, <2>3 DEF FreeSlots
      <3> QED BY <2>2, <3>1
    <2> QED BY <2>2, <2>3 DEF FreshFork
  <1>3. CASE ~ForkBuild(c)
    <2>1. FreshFork
      BY <1>1, <1>3, ForkBegins DEF FreshFork
    <2>2. reused' = reused
      <3>1. CASE Tick(c) \/ Schedule(c) \/ Bkl(c)
        BY <3>1 DEF Tick, Schedule, Keep, Commit, Switch, Finish, CallSchedule, Bkl, SpinBkl,
              AcquireBkl
      <3>2. CASE Kmain(c) \/ Reaper(c)
        BY <3>2 DEF Kmain, CreateClaim, CreateFail, CreateBuild, CreateReady, BootDone,
              Reaper, ReaperCheck, ReaperUnsplice, ReaperFree, ReaperDone
      <3>3. CASE Syscall(c)
        BY <1>3, <3>3 DEF Syscall, SyscallReturn, Yield, Sleep, ForkSplice, Exit, WaitEnter,
              WaitUnsplice, WaitNone, WaitSleep, WaitFree, WaitWipe, WaitNb
      <3> QED BY <1>1, <3>1, <3>2, <3>3
    <2> QED BY <2>1, <2>2
  <1> QED BY <1>2, <1>3

\* The ring is sound for as long as the history is clear.
LEMMA NextRingUnlessReused ==
    IInv /\ (reused \/ RInv) /\ [Next]_vars => (reused \/ RInv)'
  <1> SUFFICES ASSUME IInv, reused \/ RInv, [Next]_vars, ~reused' PROVE RInv'
    OBVIOUS
  <1>1. ~reused /\ [FreshFork]_vars
    BY ReuseRecorded DEF vars, globVars
  <1> QED BY <1>1, NextRing

\* Following next from kmain meets the ring, the whole ring and nothing else.
LEMMA RingGivesIntact == IInv /\ RInv => RingIntact
  <1> SUFFICES ASSUME IInv, RInv PROVE RingIntact
    OBVIOUS
  <1> DEFINE w == Follow(0, None)
             Ring == {w[k] : k \in DOMAIN w}
  <1>1. /\ next \in Links /\ OnRing \in SUBSET Slots /\ Cycle(next, OnRing)
        /\ 0 \in OnRing /\ None \in Slots \cup {None} /\ TASK_MAX \in Nat
    BY TypeFacts, KmainOnRing, SizeAssumption DEF RInv, RingCycle
  <1>2. RingWalk(w, 0, next, OnRing)
    BY <1>1, FollowRing
  <1> HIDE DEF w
  <1>3. /\ \A r \in OnRing : \E k \in Slots : w[k] = r
        /\ \E k \in 1 .. TASK_MAX : w[k] = 0
    BY <1>1, <1>2, GoesRound
  <1>4. DOMAIN w = 0 .. TASK_MAX /\ \A k \in 0 .. TASK_MAX : w[k] \in OnRing
    BY <1>2 DEF RingWalk
  <1>5. \E k \in DOMAIN w \ {0} : w[k] = 0
    BY <1>1, <1>3, <1>4
  <1>6. Ring = OnRing
    <2>1. \A k \in Slots : k \in 0 .. TASK_MAX
      BY <1>1 DEF Slots
    <2> QED BY <2>1, <1>3, <1>4
  <1>7. \A s \in Ring : state[s] # "UNUSED"
    BY <1>6 DEF OnRing
  <1>8. ASSUME NEW s \in Slots, kind[s] # "idle",
               state[s] \in {"READY", "RUNNING", "BLOCKED_ON_CHILD"}
        PROVE  s \in Ring
    BY <1>6, <1>8, RunnersOnRing
  <1> QED BY <1>5, <1>7, <1>8 DEF RingIntact, w

\* The ring stays intact, whoever forks and on any number of CPUs, until a fork
\* takes a slot that is still in use: a DEAD one that is still on the ring, or
\* one that a wait is still clearing.
THEOREM RingStaysIntact == Spec => []RingIntact
  <1>1. Init => IInv /\ (reused \/ RInv)
    BY InitInv, InitRing
  <1>2. IInv /\ (reused \/ RInv) => RingIntact
    BY RingGivesIntact DEF RingIntact
  <1> QED BY <1>1, <1>2, NextStep, NextRingUnlessReused, PTL DEF Spec

-----------------------------------------------------------------------------
(* schedule() overlooks no task                                            *)

\* The task a CPU leaves is on the ring, or is an idle task, which has no link.
LEMMA AnchorOnRing ==
    ASSUME IInv, RInv, NEW c \in CPUs
    PROVE  current[c] \in OnRing \/ next[current[c]] = None
  <1> USE TypeFacts
  <1>1. ASSUME NEW t \in Slots, at[t] \in OffLabels, tgt[t] = current[c]
        PROVE  FALSE
    <2>1. state[current[c]] \notin {"UNUSED", "BLOCKED"}
      BY DEF IInv, CurrentState
    <2>2. at[t] \in {"w_free", "r_free"}
      BY <1>1, <2>1, OffTargets DEF OffLabels, RInv, WipeTargets
    <2> QED BY <1>1, <2>2 DEF IInv, ReapTargets, ReaperLabels, RInv, ZombieLeft
  <1>2. ASSUME current[c] \notin OnRing PROVE next[current[c]] = None
    BY <1>1, <1>2 DEF RInv, OffRing, OffLabels
  <1> QED BY <1>2

\* A task that may be chosen is on the ring: an idle task is never READY.
LEMMA PickableOnRing ==
    ASSUME IInv, NEW c \in CPUs, NEW s \in Slots, pickable_by(Demoted(c), s, c)
    PROVE  s \in OnRing
  <1>1. Demoted(c)[s] = "READY"
          => \/ state[s] = "READY"
             \/ state[s] = "RUNNING" /\ s = current[c] /\ kind[s] # "idle"
    BY TypeFacts DEF Demoted
  <1>2. state[s] \in {"READY", "RUNNING"} /\ kind[s] # "idle"
    BY <1>1 DEF pickable_by, IInv, FixedSlots
  <1> QED BY <1>2, RunnersOnRing

\* The walk goes round the whole ring, so it meets every task that may run.
LEMMA RingGivesWork == IInv /\ RInv => WorkConserving
  <1> SUFFICES ASSUME IInv, RInv, NEW c \in CPUs, NEW s \in Slots,
                      pickable_by(Demoted(c), s, c), NEW n \in Chosen(c)
               PROVE  pickable_by(Demoted(c), n, c)
    BY DEF WorkConserving
  <1> DEFINE from    == current[c]
             ring    == Follow(next[from], next[from])
             Seen(k) == IF next[from] = None THEN k ELSE ring[k]
             Hits    == {k \in Slots : pickable_by(Demoted(c), Seen(k), c)}
  <1>1. \E k \in Slots : Seen(k) = s
    <2>1. CASE next[from] = None
      BY <2>1
    <2>2. CASE next[from] # None
      <3>1. from \in OnRing /\ s \in OnRing
        BY <2>2, AnchorOnRing, PickableOnRing
      <3>2. /\ next \in Links /\ OnRing \in SUBSET Slots /\ Cycle(next, OnRing)
            /\ next[from] \in OnRing /\ next[from] \in Slots \cup {None}
        BY <3>1, TypeFacts DEF RInv, RingCycle, Cycle
      <3>3. RingWalk(ring, next[from], next, OnRing)
        <4>1. PICK f \in OnRing : f = next[from]
          BY <3>2
        <4>2. RingWalk(Follow(f, f), f, next, OnRing)
          BY <3>2, <4>1, FollowRing
        <4> QED BY <4>1, <4>2
      <3> HIDE DEF ring
      <3>4. \E k \in Slots : ring[k] = s
        BY <3>1, <3>2, <3>3, GoesRound
      <3> QED BY <2>2, <3>4
    <2> QED BY <2>1, <2>2
  <1>2. Hits # {} /\ Hits \in SUBSET Nat
    BY <1>1 DEF Slots
  <1>3. PICK h \in Hits : \A j \in Hits : h <= j
    <2> HIDE DEF Hits
    <2> QED BY <1>2, LeastNat
  <1>4. pick_next_ready(Demoted(c), from, c)
          = {Seen(k) : k \in {m \in Hits : \A j \in Hits : m <= j}}
    BY DEF pick_next_ready
  <1>5. \A m \in Hits : pickable_by(Demoted(c), Seen(m), c)
    OBVIOUS
  <1> HIDE DEF Seen, Hits
  <1>6. pick_next_ready(Demoted(c), from, c) # {}
    BY <1>3, <1>4
  <1>7. n \in pick_next_ready(Demoted(c), from, c)
    BY <1>6 DEF Chosen
  <1> QED BY <1>4, <1>5, <1>7

\* No CPU goes idle, or keeps a task that cannot run, while another task is READY
\* and may run on it, until a fork takes a slot that was not cleared.
THEOREM ScheduleFindsWork == Spec => []WorkConserving
  <1>1. Init => IInv /\ (reused \/ RInv)
    BY InitInv, InitRing
  <1>2. IInv /\ (reused \/ RInv) => WorkConserving
    BY RingGivesWork DEF WorkConserving
  <1> QED BY <1>1, <1>2, NextStep, NextRingUnlessReused, PTL DEF Spec

=============================================================================
