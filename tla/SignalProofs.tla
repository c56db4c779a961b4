---------------------------- MODULE SignalProofs ----------------------------
(***************************************************************************)
(* Machine-checked proofs about signals and job control (kernel/signal.c,  *)
(* kernel/ptrace.c) and about the pseudo-terminals that send signals       *)
(* (kernel/pty.c), for any number of processes, any signals and any        *)
(* workload.                                                               *)
(***************************************************************************)
EXTENDS Pty, SequenceTheorems, WellFoundedInduction, TLAPS

-----------------------------------------------------------------------------
(* What holds of one task                                                  *)

Held(f) == {f[i] : i \in DOMAIN f}

\* t may be stopped, and may have a stop pending, only if the last of CONT and
\* the stops sent to it was a stop.
JobGood(t, last) ==
    /\ ~(SIGCONT \in t.pending /\ t.pending \cap Stops # {})
    /\ t.pending \cap Stops # {} => last = TRUE
    /\ t.state = "STOPPED" /\ ~t.traced => last = TRUE

\* The mask of t, of which the set k was there at the last exec.
MaskGood(t, k) ==
    /\ t.mask = k \cup Held(t.frames)
    /\ k \cap Held(t.frames) = {}
    /\ \A i, j \in DOMAIN t.frames : t.frames[i] = t.frames[j] => i = j
    /\ t.mask \cap {SIGKILL, SIGSTOP} = {}
    /\ \A s \in {SIGKILL, SIGSTOP} : t.handler[s] = "DFL"

Good(t, k, last) == t \in Fields /\ JobGood(t, last) /\ MaskGood(t, k)

AllGood(T, K, J) == DOMAIN T = Procs /\ \A p \in Procs : Good(T[p], K[p], J[p])

-----------------------------------------------------------------------------
(* Changes of one task                                                     *)

LEMMA FieldsExcept ==
    ASSUME NEW t \in Fields
    PROVE  /\ t.state \in TaskStates /\ t.pending \subseteq Sigs /\ t.mask \subseteq Sigs
           /\ t.handler \in [Sigs -> {"DFL", "IGN", "user"}] /\ t.frames \in Seq(Sigs)
           /\ t.tracer \in Procs \cup {Nobody} /\ t.parent \in Procs \cup {Nobody}
           /\ t.ends \subseteq {"master", "slave"} /\ t.traced \in BOOLEAN
           /\ \A x \in TaskStates : [t EXCEPT !.state = x] \in Fields
           /\ \A P \in SUBSET Sigs : [t EXCEPT !.pending = P] \in Fields
           /\ \A P \in SUBSET Sigs, x \in TaskStates : [t EXCEPT !.pending = P, !.state = x] \in Fields
           /\ \A f \in Seq(Sigs), M \in SUBSET Sigs : [t EXCEPT !.frames = f, !.mask = M] \in Fields
           /\ \A E \in SUBSET {"master", "slave"} : [t EXCEPT !.ends = E] \in Fields
           /\ \A q \in Procs \cup {Nobody} : /\ [t EXCEPT !.parent = q] \in Fields
                                             /\ [t EXCEPT !.tracer = q] \in Fields
           /\ \A g \in Nat : [t EXCEPT !.pgid = g] \in Fields
    BY DEF Fields

\* The task t after signal_send of s.
Sent(t, s) == [t EXCEPT !.pending = Pended(@, s),
                        !.state = IF s = SIGCONT /\ @ = "STOPPED" THEN "READY" ELSE @]

\* A set of naturals has a least element.
LEMMA LeastExists ==
    ASSUME NEW S \in SUBSET Nat, S # {}
    PROVE  \E x \in S : \A y \in S : x <= y
  <1> DEFINE R == OpToRel(<, Nat)
  <1>1. IsWellFoundedOn(R, Nat)
    BY NatLessThanWellFounded
  <1>2. \A x, y \in Nat : x < y => <<x, y>> \in R
    BY DEF OpToRel
  <1> HIDE DEF R
  <1>3. \E x \in S : \A y \in S : ~ (<<y, x>> \in R)
    BY <1>1, WFMin
  <1>4. PICK x \in S : \A y \in S : ~ (<<y, x>> \in R)
    BY <1>3
  <1>5. \A y \in S : ~ (y < x)
    BY <1>2, <1>4
  <1> QED
    BY <1>5

\* signal_send keeps a task good, if the history notes a stop or a CONT.
LEMMA SendOne ==
    ASSUME NEW t, NEW k, NEW last, NEW next, NEW s \in Sigs, Good(t, k, last),
           s \in Stops => next = TRUE, s \notin Stops \cup {SIGCONT} => next = last
    PROVE  Good(Sent(t, s), k, next)
  <1> DEFINE P == Pended(t.pending, s)
             x == IF s = SIGCONT /\ t.state = "STOPPED" THEN "READY" ELSE t.state
             u == [t EXCEPT !.pending = P, !.state = x]
  <1>1. t \in Fields
    BY DEF Good
  <1>2. P \in SUBSET Sigs /\ x \in TaskStates
    BY <1>1, FieldsExcept DEF Pended, TaskStates
  <1>3. u \in Fields
    BY <1>1, <1>2, FieldsExcept
  <1>4. /\ u.pending = P /\ u.state = x /\ u.traced = t.traced /\ u.mask = t.mask
        /\ u.frames = t.frames /\ u.handler = t.handler
    BY <1>1 DEF Fields
  <1>5. JobGood(u, next)
    <2>1. ~(SIGCONT \in P /\ P \cap Stops # {})
      BY DEF Good, JobGood, Pended, Stops, SIGCONT, SIGSTOP, SIGTSTP
    <2>2. P \cap Stops # {} => next = TRUE
      BY DEF Good, JobGood, Pended, Stops, SIGCONT, SIGSTOP, SIGTSTP
    <2>3. x = "STOPPED" /\ ~t.traced => next = TRUE
      BY DEF Good, JobGood, Stops, SIGCONT, SIGSTOP, SIGTSTP
    <2> QED
      BY <2>1, <2>2, <2>3, <1>4 DEF JobGood
  <1>6. MaskGood(u, k)
    BY <1>4 DEF Good, MaskGood, Held
  <1> QED
    BY <1>3, <1>5, <1>6 DEF Good, Sent

LEMMA SendAll ==
    ASSUME NEW T, NEW K, NEW J \in [Procs -> BOOLEAN], NEW L \in [Procs -> BOOLEAN],
           NEW Q, NEW s \in Sigs, AllGood(T, K, J),
           \A p \in Procs : L[p] = IF p \in Q /\ s \in Stops \cup {SIGCONT} THEN s # SIGCONT ELSE J[p]
    PROVE  AllGood(Send(T, Q, s), K, L)
  <1>1. ASSUME NEW p \in Procs PROVE Good(Send(T, Q, s)[p], K[p], L[p])
    <2>1. Good(T[p], K[p], J[p])
      BY DEF AllGood
    <2>2. CASE p \notin Q
      BY <2>1, <2>2 DEF Send
    <2>3. CASE p \in Q
      <3> DEFINE t == T[p]
                 u == Sent(t, s)
                 l == L[p]
                 j == J[p]
                 k == K[p]
      <3>2. Send(T, Q, s)[p] = u
        BY <2>3 DEF Send, Sent
      <3>4. Good(u, k, l)
        <4>1. s \in Stops => l = TRUE
          BY <2>3 DEF Stops, SIGCONT, SIGSTOP, SIGTSTP
        <4>3. s \notin Stops \cup {SIGCONT} => l = j
          BY <2>3
        <4>2. Good(t, k, j)
          BY <2>1
        <4> HIDE DEF l, j, k, t
        <4> QED
          BY <4>1, <4>2, <4>3, SendOne
      <3> QED
        BY <3>2, <3>4
    <2> QED
      BY <2>2, <2>3
  <1> QED
    BY <1>1 DEF AllGood, Send

\* A signal that is neither CONT nor a stop leaves the history alone.
LEMMA SendPlain ==
    ASSUME NEW T, NEW K, NEW J \in [Procs -> BOOLEAN], NEW Q, NEW s \in Sigs \ (Stops \cup {SIGCONT}),
           AllGood(T, K, J)
    PROVE  AllGood(Send(T, Q, s), K, J)
  BY SendAll

\* What neither touches the signal fields nor stops the task.
LEMMA Unaffected ==
    ASSUME NEW t, NEW u \in Fields, NEW k, NEW last, Good(t, k, last),
           u.pending = t.pending, u.mask = t.mask, u.frames = t.frames,
           \A s \in {SIGKILL, SIGSTOP} : u.handler[s] = t.handler[s],
           u.traced = t.traced \/ u.state # "STOPPED", u.state = t.state \/ u.state # "STOPPED"
    PROVE  Good(u, k, last)
  BY DEF Good, JobGood, MaskGood, Held

\* Replacing one task by a good one.
LEMMA ReplaceOne ==
    ASSUME NEW T, NEW K, NEW J, NEW p \in Procs, NEW u, AllGood(T, K, J), Good(u, K[p], J[p])
    PROVE  AllGood([T EXCEPT ![p] = u], K, J)
  BY DEF AllGood

-----------------------------------------------------------------------------
(* Exit and delivery                                                       *)

LEMMA CloseEndsGood ==
    ASSUME NEW T, NEW K, NEW J \in [Procs -> BOOLEAN], NEW p \in Procs, NEW E,
           AllGood(T, K, J), fg # 0 => SIGHUP \in Sigs
    PROVE  AllGood(CloseEnds(T, p, E), K, J)
  <1> DEFINE t == T[p]
             F == t.ends \ E
             u == [t EXCEPT !.ends = F]
             U == [T EXCEPT ![p].ends = @ \ E]
  <1>1. Good(t, K[p], J[p]) /\ t \in Fields
    BY DEF AllGood, Good
  <1>2. u \in Fields
    <2>1. F \in SUBSET {"master", "slave"}
      BY <1>1, FieldsExcept
    <2> QED
      BY <1>1, <2>1, FieldsExcept
  <1>3. /\ u.pending = t.pending /\ u.mask = t.mask /\ u.frames = t.frames
        /\ u.handler = t.handler /\ u.traced = t.traced /\ u.state = t.state
    BY <1>1 DEF Fields
  <1>4. Good(u, K[p], J[p])
    BY <1>1, <1>2, <1>3, Unaffected
  <1>5. U = [T EXCEPT ![p] = u]
    BY DEF AllGood
  <1>6. AllGood(U, K, J)
    BY <1>4, <1>5, ReplaceOne
  <1>7. ASSUME fg # 0 PROVE AllGood(Send(U, Members(U, fg), SIGHUP), K, J)
    <2>1. SIGHUP \in Sigs \ (Stops \cup {SIGCONT})
      BY <1>7 DEF SIGHUP, Stops, SIGSTOP, SIGTSTP, SIGCONT
    <2> HIDE DEF U
    <2> QED
      BY <2>1, <1>6, SendPlain
  <1> QED
    BY <1>6, <1>7 DEF CloseEnds

LEMMA ExitedGood ==
    ASSUME NEW T, NEW K, NEW J \in [Procs -> BOOLEAN], NEW p \in Procs,
           AllGood(T, K, J), fg # 0 => SIGHUP \in Sigs
    PROVE  AllGood(Exited(T, p), K, J)
  <1> DEFINE E == T[p].ends
             U == CloseEnds(T, p, E)
  <1>1. AllGood(U, K, J)
    BY CloseEndsGood
  <1>2. 1 \in Procs
    BY SignalAssumption
  <1> HIDE DEF U
  <1>3. ASSUME NEW q \in Procs PROVE Good(Exited(T, p)[q], K[q], J[q])
    <2> DEFINE t == U[q]
    <2>1. Good(t, K[q], J[q]) /\ t \in Fields
      BY <1>1 DEF AllGood, Good
    <2>2. CASE q = p
      <3> DEFINE u == [t EXCEPT !.state = "ZOMBIE"]
      <3>1. u \in Fields
        BY <2>1, FieldsExcept DEF TaskStates
      <3>2. /\ u.pending = t.pending /\ u.mask = t.mask /\ u.frames = t.frames
            /\ u.handler = t.handler /\ u.state = "ZOMBIE"
        BY <2>1 DEF Fields
      <3>3. Good(u, K[q], J[q])
        BY <2>1, <3>1, <3>2, Unaffected
      <3> QED
        BY <3>3, <2>2 DEF Exited, U
    <2>3. CASE q # p
      <3> DEFINE x == IF t.parent = p /\ p # 1 THEN 1 ELSE t.parent
                 u == [t EXCEPT !.parent = x]
      <3>1. x \in Procs \cup {Nobody}
        BY <2>1, <1>2, FieldsExcept
      <3>2. u \in Fields
        BY <2>1, <3>1, FieldsExcept
      <3>3. /\ u.pending = t.pending /\ u.mask = t.mask /\ u.frames = t.frames
            /\ u.handler = t.handler /\ u.traced = t.traced /\ u.state = t.state
        BY <2>1 DEF Fields
      <3>4. Good(u, K[q], J[q])
        BY <2>1, <3>2, <3>3, Unaffected
      <3>5. Exited(T, p)[q] = u
        BY <2>3 DEF Exited, U
      <3> QED
        BY <3>4, <3>5
    <2> QED
      BY <2>2, <2>3
  <1> QED
    BY <1>3 DEF AllGood, Exited

\* A handler starts with its own signal masked.
LEMMA EnterHandlerGood ==
    ASSUME NEW t, NEW k, NEW last, NEW s \in Sigs \ t.mask, Good(t, k, last), t.handler[s] = "user"
    PROVE  Good(EnterHandler(t, s), k, last)
  <1> DEFINE f == Append(t.frames, s)
             M == t.mask \cup {s}
             u == [t EXCEPT !.frames = f, !.mask = M]
  <1>1. t \in Fields /\ t.frames \in Seq(Sigs) /\ t.mask \subseteq Sigs
    BY FieldsExcept DEF Good
  <1>2. u \in Fields
    <2>1. f \in Seq(Sigs) /\ M \in SUBSET Sigs
      BY <1>1
    <2> HIDE DEF f, M
    <2> QED
      BY <1>1, <2>1, FieldsExcept
  <1>3. /\ u.pending = t.pending /\ u.mask = M /\ u.frames = f
        /\ u.handler = t.handler /\ u.traced = t.traced /\ u.state = t.state
    BY <1>1 DEF Fields
  <1>4. Held(f) = Held(t.frames) \cup {s}
    BY <1>1 DEF Held
  <1>5. MaskGood(u, k)
    <2>1. s \notin {SIGKILL, SIGSTOP}
      BY DEF Good, MaskGood
    <2>2. s \notin Held(t.frames) /\ s \notin k
      BY DEF Good, MaskGood
    <2>3. \A i, j \in DOMAIN f : f[i] = f[j] => i = j
      BY <1>1, <2>2 DEF Good, MaskGood, Held
    <2>4. M = k \cup Held(f) /\ k \cap Held(f) = {} /\ M \cap {SIGKILL, SIGSTOP} = {}
      BY <1>4, <2>1, <2>2 DEF Good, MaskGood
    <2> HIDE DEF f, M, u
    <2> QED
      BY <2>3, <2>4, <1>3 DEF Good, MaskGood
  <1>6. JobGood(u, last)
    BY <1>3 DEF Good, JobGood
  <1> QED
    BY <1>2, <1>5, <1>6 DEF Good, EnterHandler

LEMMA ActedGood ==
    ASSUME NEW T, NEW K, NEW J \in [Procs -> BOOLEAN], NEW p \in Procs, NEW s \in Sigs \ T[p].mask,
           AllGood(T, K, J), fg # 0 => SIGHUP \in Sigs, s \in Stops => J[p] = TRUE
    PROVE  AllGood(Acted(T, p, s), K, J)
  <1>1. Good(T[p], K[p], J[p]) /\ T[p] \in Fields
    BY DEF AllGood, Good
  <1>2. CASE T[p].handler[s] = "user"
    <2>1. Good(EnterHandler(T[p], s), K[p], J[p])
      BY <1>1, <1>2, EnterHandlerGood
    <2>2. AllGood([T EXCEPT ![p] = EnterHandler(T[p], s)], K, J)
      BY <2>1, ReplaceOne
    <2> QED
      BY <1>2, <2>2 DEF Acted
  <1>3. CASE T[p].handler[s] = "DFL" /\ s \in Stops
    <2> DEFINE t == T[p]
               u == [t EXCEPT !.state = "STOPPED"]
    <2>1. u \in Fields
      BY <1>1, FieldsExcept DEF TaskStates
    <2>2. /\ u.pending = t.pending /\ u.mask = t.mask /\ u.frames = t.frames
          /\ u.handler = t.handler /\ u.traced = t.traced
      BY <1>1 DEF Fields
    <2>3. Good(u, K[p], J[p])
      BY <1>1, <1>3, <2>1, <2>2 DEF Good, JobGood, MaskGood, Held
    <2>4. AllGood([T EXCEPT ![p] = u], K, J)
      BY <2>3, ReplaceOne
    <2>5. [T EXCEPT ![p].state = "STOPPED"] = [T EXCEPT ![p] = u]
      BY DEF AllGood
    <2> HIDE DEF u
    <2> QED
      BY <1>3, <2>4, <2>5 DEF Acted
  <1>4. CASE T[p].handler[s] = "DFL" /\ s \notin Stops \cup Ignored
    BY <1>4, ExitedGood DEF Acted
  <1>5. CASE ~(T[p].handler[s] = "user") /\ ~(T[p].handler[s] = "DFL" /\ s \in Stops)
             /\ ~(T[p].handler[s] = "DFL" /\ s \notin Stops \cup Ignored)
    BY <1>5 DEF Acted
  <1> QED
    BY <1>2, <1>3, <1>4, <1>5

\* signal_check_and_deliver: whatever is delivered, and however it ends.
LEMMA AtReturnGood ==
    ASSUME NEW T, NEW K, NEW J \in [Procs -> BOOLEAN], NEW p \in Procs,
           AllGood(T, K, J), fg # 0 => SIGHUP \in Sigs
    PROVE  AllGood(AtReturn(T, p), K, J)
  <1>1. CASE Deliverable(T[p]) = {}
    BY <1>1 DEF AtReturn
  <1>2. CASE Deliverable(T[p]) # {}
    <2> DEFINE t == T[p]
               s == Lowest(Deliverable(t))
               P == t.pending \ {s}
               u == [t EXCEPT !.pending = P]
               U == [T EXCEPT ![p].pending = @ \ {s}]
    <2>1. Good(t, K[p], J[p]) /\ t \in Fields /\ t.pending \subseteq Sigs
      BY FieldsExcept DEF AllGood, Good
    <2>2. s \in Deliverable(t)
      <3>0. Sigs \subseteq Nat
        BY SignalAssumption DEF NSIG
      <3>1. Deliverable(t) \in SUBSET Nat
        BY <2>1, <3>0 DEF Deliverable
      <3>2. \E r \in Deliverable(t) : \A x \in Deliverable(t) : r <= x
        BY <3>1, <1>2, LeastExists
      <3> QED
        BY <3>2 DEF Lowest
    <2> HIDE DEF s
    <2>3. s \in Sigs \ t.mask /\ s \in t.pending
      BY <2>1, <2>2 DEF Deliverable
    <2>4. u \in Fields
      <3>1. P \in SUBSET Sigs
        BY <2>1
      <3> QED
        BY <2>1, <3>1, FieldsExcept
    <2>5. /\ u.pending = P /\ u.mask = t.mask /\ u.frames = t.frames
          /\ u.handler = t.handler /\ u.traced = t.traced /\ u.state = t.state
      BY <2>1 DEF Fields
    <2>6. Good(u, K[p], J[p])
      BY <2>1, <2>4, <2>5 DEF Good, JobGood, MaskGood, Held
    <2>7. U = [T EXCEPT ![p] = u]
      BY DEF AllGood
    <2>8. AllGood(U, K, J)
      BY <2>6, <2>7, ReplaceOne
    <2>9. s \in Sigs \ U[p].mask /\ (s \in Stops => J[p] = TRUE)
      <3>1. U[p] = u
        BY <2>7 DEF AllGood
      <3>2. s \in Stops => J[p] = TRUE
        BY <2>1, <2>3 DEF Good, JobGood
      <3> QED
        BY <3>1, <3>2, <2>3, <2>5
    <2>10. AllGood(Acted(U, p, s), K, J)
      <3> HIDE DEF U
      <3> QED
        BY <2>8, <2>9, ActedGood
    <2> QED
      BY <1>2, <2>10 DEF AtReturn, s
  <1> QED
    BY <1>1, <1>2

-----------------------------------------------------------------------------
(* The inductive invariant                                                 *)

\* Who waits inside a call was not preempted in user mode, so the return from the
\* call finds no delivery that is still due.
CallsInv ==
    /\ call \in [Procs -> Calls]
    /\ \A p \in Procs : call[p] # "user" => due[p] = FALSE

\* The terminal has a foreground group only where there is a SIGHUP to send to it.
FgInv == fg \in Nat /\ (fg # 0 => SIGHUP \in Sigs)

SigInv ==
    /\ AllGood(task, kept, lastJob)
    /\ lastJob \in [Procs -> BOOLEAN] /\ kept \in [Procs -> SUBSET Sigs]
    /\ target \in [Procs -> Procs \cup {Nobody}]
    /\ cur \in Procs \cup {Nobody} /\ due \in [Procs -> BOOLEAN]
    /\ cur # Nobody => task[cur].state = "READY" /\ call[cur] = "user" /\ due[cur] = FALSE
    /\ CallsInv /\ FgInv
    /\ sends \in 0 .. MaxSends

LEMMA NobodyIsNone == Nobody \notin Procs
  BY SignalAssumption DEF Nobody

\* The invariant implies what the runs check.
LEMMA SigInvType == SigInv => SigTypeOK
  BY DEF SigInv, SigTypeOK, AllGood, Good, CallsInv, FgInv

LEMMA SigInvJob == SigInv => JobControlOrder
  BY DEF SigInv, JobControlOrder, AllGood, Good, JobGood

LEMMA SigInvMask == SigInv => MaskIsFrames
  BY DEF SigInv, MaskIsFrames, AllGood, Good, MaskGood, Held

LEMMA SigInitInv == SigInit => SigInv
  <1> SUFFICES ASSUME SigInit PROVE SigInv
    OBVIOUS
  <1>1. 1 \in Procs /\ {SIGKILL, SIGSTOP} \subseteq Sigs /\ MaxSends \in Nat
    BY SignalAssumption
  <1>2. Fresh \in Fields
    <2>1. /\ [s \in Sigs |-> "DFL"] \in [Sigs -> {"DFL", "IGN", "user"}]
          /\ <<>> \in Seq(Sigs)
      OBVIOUS
    <2> QED
      BY <2>1 DEF Fresh, Fields, TaskStates
  <1>3. Good(Fresh, {}, FALSE)
    <2>1. JobGood(Fresh, FALSE)
      BY DEF Fresh, JobGood
    <2>2. MaskGood(Fresh, {})
      BY <1>1 DEF Fresh, MaskGood, Held
    <2> QED
      BY <1>2, <2>1, <2>2 DEF Good
  <1> DEFINE f == [Fresh EXCEPT !.state = "READY"]
  <1>4. f \in Fields
    BY <1>2, FieldsExcept DEF TaskStates
  <1>5. /\ f.pending = Fresh.pending /\ f.mask = Fresh.mask /\ f.frames = Fresh.frames
        /\ f.handler = Fresh.handler /\ f.traced = Fresh.traced /\ f.state = "READY"
    BY <1>2 DEF Fields
  <1>6. Good(f, {}, FALSE)
    BY <1>3, <1>4, <1>5, Unaffected
  <1>7. AllGood(task, kept, lastJob)
    BY <1>3, <1>6 DEF SigInit, AllGood
  <1>8. task[1].state = "READY"
    BY <1>1, <1>5 DEF SigInit
  <1>9. CallsInv /\ FgInv
    BY DEF SigInit, CallsInv, FgInv, Calls
  <1> QED
    BY <1>1, <1>7, <1>8, <1>9 DEF SigInit, SigInv

-----------------------------------------------------------------------------
(* The steps                                                               *)

\* A step that changes the tasks and the histories, and leaves the CPU of who
\* stopped or ended.
LEMMA BecomeKeeps ==
    ASSUME NEW T, SigInv, Become(T), AllGood(T, kept', lastJob'),
           lastJob' \in [Procs -> BOOLEAN], kept' \in [Procs -> SUBSET Sigs],
           sends' \in 0 .. MaxSends, UNCHANGED <<call, target, fg>>
    PROVE  SigInv'
  BY DEF SigInv, Become, CallsInv, FgInv

LEMMA OnlyKeeps ==
    ASSUME NEW T, SigInv, Only(T), AllGood(T, kept, lastJob)
    PROVE  SigInv'
  <1>1. AllGood(T, kept', lastJob')
    BY DEF Only
  <1> QED
    BY <1>1, BecomeKeeps DEF SigInv, Only

\* The tasks that a call or an interrupt made, and the delivery on the way out.
LEMMA OnlyReturnKeeps ==
    ASSUME NEW T, NEW p \in Procs, SigInv, Only(AtReturn(T, p)), AllGood(T, kept, lastJob)
    PROVE  SigInv'
  <1>1. AllGood(AtReturn(T, p), kept, lastJob)
    BY AtReturnGood DEF SigInv, FgInv
  <1> QED
    BY <1>1, OnlyKeeps

\* What is known of a task of the invariant.
LEMMA TaskGood ==
    ASSUME NEW p \in Procs, SigInv
    PROVE  task[p] \in Fields /\ Good(task[p], kept[p], lastJob[p])
  BY DEF SigInv, AllGood, Good

LEMMA ChargedGood ==
    ASSUME NEW p \in Procs, SigInv, NEW T \in Charged(p)
    PROVE  AllGood(T, kept, lastJob)
  <1>1. CASE T = task
    BY <1>1 DEF SigInv
  <1>2. CASE T = [task EXCEPT ![p] = Overrun(p, task[p])]
    <2> DEFINE t == task[p]
               P == t.pending \cup {SIGKILL}
               u == [t EXCEPT !.pending = P]
    <2>1. t \in Fields /\ Good(t, kept[p], lastJob[p])
      BY TaskGood
    <2>2. u \in Fields
      <3>1. P \in SUBSET Sigs
        BY <2>1, FieldsExcept, SignalAssumption
      <3> QED
        BY <2>1, <3>1, FieldsExcept
    <2>3. /\ u.pending = P /\ u.mask = t.mask /\ u.frames = t.frames
          /\ u.handler = t.handler /\ u.traced = t.traced /\ u.state = t.state
      BY <2>1 DEF Fields
    <2>4. JobGood(u, lastJob[p])
      BY <2>1, <2>3 DEF Good, JobGood, SIGKILL, SIGCONT, Stops, SIGSTOP, SIGTSTP
    <2>5. Good(u, kept[p], lastJob[p])
      BY <2>1, <2>2, <2>3, <2>4 DEF Good, MaskGood, Held
    <2> QED
      BY <1>2, <2>5, ReplaceOne DEF Overrun, SigInv
  <1> QED
    BY <1>1, <1>2 DEF Charged

LEMMA TickKeeps ==
    ASSUME NEW p \in Procs, SigInv, Tick(p)
    PROVE  SigInv'
  BY ChargedGood, OnlyReturnKeeps DEF Tick

LEMMA PreemptKeeps ==
    ASSUME NEW p \in Procs, SigInv, Preempt(p)
    PROVE  SigInv'
  <1>1. AllGood(task', kept', lastJob')
    BY ChargedGood DEF Preempt
  <1>2. CallsInv'
    BY NobodyIsNone DEF Preempt, Runs, SigInv, CallsInv
  <1> QED
    BY <1>1, <1>2 DEF Preempt, SigInv, FgInv

LEMMA DispatchKeeps ==
    ASSUME NEW p \in Procs, SigInv, Dispatch(p)
    PROVE  SigInv'
  <1>1. AllGood(AtReturn(task, p), kept, lastJob)
    BY AtReturnGood DEF SigInv, FgInv
  <1>2. AllGood(task', kept', lastJob')
    BY <1>1 DEF Dispatch, SigInv
  <1>3. CallsInv'
    BY DEF Dispatch, SigInv, CallsInv
  <1> QED
    BY <1>2, <1>3 DEF Dispatch, SigInv, FgInv

\* JobNote is the history that SendAll asks for.
LEMMA JobNoteIs ==
    ASSUME NEW Q, NEW s, lastJob \in [Procs -> BOOLEAN]
    PROVE  /\ JobNote(Q, s) \in [Procs -> BOOLEAN]
           /\ \A p \in Procs : JobNote(Q, s)[p] =
                  IF p \in Q /\ s \in Stops \cup {SIGCONT} THEN s # SIGCONT ELSE lastJob[p]
  BY DEF JobNote

LEMMA SendToKeeps ==
    ASSUME NEW p \in Procs, NEW Q, NEW s \in Sigs, SigInv, SendTo(p, Q, s)
    PROVE  SigInv'
  <1>1. lastJob' = JobNote(Q, s) /\ lastJob' \in [Procs -> BOOLEAN]
    BY JobNoteIs DEF SendTo, SigInv
  <1>2. AllGood(Send(task, Q, s), kept, lastJob')
    BY <1>1, JobNoteIs, SendAll DEF SigInv
  <1>3. AllGood(AtReturn(Send(task, Q, s), p), kept', lastJob')
    BY <1>1, <1>2, AtReturnGood DEF SigInv, FgInv, SendTo
  <1>4. sends' \in 0 .. MaxSends
    BY SignalAssumption DEF SigInv, SendTo
  <1> QED
    BY <1>1, <1>3, <1>4, BecomeKeeps DEF SendTo, SigInv

LEMMA SigActionKeeps ==
    ASSUME NEW p \in Procs, NEW s \in Sigs, NEW h \in {"IGN", "user"}, SigInv, SigAction(p, s, h)
    PROVE  SigInv'
  <1> DEFINE t == task[p]
             H == [t.handler EXCEPT ![s] = h]
             u == [t EXCEPT !.handler = H, !.tramp = TRUE]
             T == [task EXCEPT ![p].handler[s] = h, ![p].tramp = TRUE]
  <1>1. t \in Fields /\ Good(t, kept[p], lastJob[p])
    BY TaskGood
  <1>2. t.handler \in [Sigs -> {"DFL", "IGN", "user"}]
    BY <1>1, FieldsExcept
  <1>3. u \in Fields
    <2>1. H \in [Sigs -> {"DFL", "IGN", "user"}]
      BY <1>2
    <2> HIDE DEF H
    <2> QED
      BY <1>1, <2>1 DEF Fields
  <1>4. /\ u.pending = t.pending /\ u.mask = t.mask /\ u.frames = t.frames
        /\ u.handler = H /\ u.traced = t.traced /\ u.state = t.state
    BY <1>1 DEF Fields
  <1>5. \A r \in {SIGKILL, SIGSTOP} : u.handler[r] = t.handler[r]
    BY <1>2, <1>4, SignalAssumption DEF SigAction, Catchable
  <1>6. Good(u, kept[p], lastJob[p])
    <2> HIDE DEF u, H
    <2> QED
      BY <1>1, <1>3, <1>4, <1>5, Unaffected
  <1>7. T = [task EXCEPT ![p] = u]
    BY <1>1 DEF SigInv, AllGood, Fields
  <1>8. AllGood(T, kept, lastJob)
    <2> HIDE DEF u
    <2> QED
      BY <1>6, <1>7, ReplaceOne DEF SigInv
  <1>9. Only(AtReturn(T, p))
    BY DEF SigAction
  <1> HIDE DEF T
  <1> QED
    BY <1>8, <1>9, OnlyReturnKeeps

\* sigreturn unmasks the innermost handler's signal, which no outer one has.
LEMMA SigReturnKeeps ==
    ASSUME NEW p \in Procs, SigInv, SigReturn(p)
    PROVE  SigInv'
  <1> DEFINE t == task[p]
             n == Len(t.frames)
             f == SubSeq(t.frames, 1, n - 1)
             M == t.mask \ {t.frames[n]}
             u == [t EXCEPT !.frames = f, !.mask = M]
             T == [task EXCEPT ![p].frames = SubSeq(@, 1, n - 1), ![p].mask = @ \ {t.frames[n]}]
  <1>1. t \in Fields /\ Good(t, kept[p], lastJob[p])
    BY TaskGood
  <1>2. t.frames \in Seq(Sigs) /\ t.mask \subseteq Sigs
    BY <1>1, FieldsExcept
  <1>3. n \in Nat \ {0} /\ DOMAIN t.frames = 1 .. n
    BY <1>2 DEF SigReturn
  <1>4. f \in Seq(Sigs) /\ DOMAIN f = 1 .. (n - 1) /\ \A i \in 1 .. (n - 1) : f[i] = t.frames[i]
    BY <1>2, <1>3
  <1>5. u \in Fields
    <2>1. M \in SUBSET Sigs
      BY <1>2
    <2> HIDE DEF f, M
    <2> QED
      BY <1>1, <1>4, <2>1, FieldsExcept
  <1>6. /\ u.pending = t.pending /\ u.mask = M /\ u.frames = f
        /\ u.handler = t.handler /\ u.traced = t.traced /\ u.state = t.state
    BY <1>1 DEF Fields
  <1>7. Held(t.frames) = Held(f) \cup {t.frames[n]}
    BY <1>3, <1>4 DEF Held
  <1>8. t.frames[n] \notin Held(f)
    <2>1. \A i, j \in 1 .. n : t.frames[i] = t.frames[j] => i = j
      BY <1>1, <1>3 DEF Good, MaskGood
    <2>2. \A i \in 1 .. (n - 1) : t.frames[i] # t.frames[n]
      BY <1>3, <2>1
    <2> HIDE DEF f, n
    <2> QED
      BY <1>4, <2>2 DEF Held
  <1>9. MaskGood(u, kept[p])
    <2>1. M = kept[p] \cup Held(f) /\ kept[p] \cap Held(f) = {}
      BY <1>1, <1>7, <1>8 DEF Good, MaskGood
    <2>2. \A i, j \in DOMAIN f : f[i] = f[j] => i = j
      BY <1>1, <1>3, <1>4 DEF Good, MaskGood
    <2>3. M \cap {SIGKILL, SIGSTOP} = {}
      BY <1>1 DEF Good, MaskGood
    <2> HIDE DEF f, M, u
    <2> QED
      BY <1>1, <1>6, <2>1, <2>2, <2>3 DEF Good, MaskGood
  <1>10. Good(u, kept[p], lastJob[p])
    <2> HIDE DEF f, M, u
    <2> QED
      BY <1>1, <1>5, <1>6, <1>9 DEF Good, JobGood
  <1>11. T = [task EXCEPT ![p] = u]
    <2> HIDE DEF n
    <2> QED
      BY <1>1 DEF SigInv, AllGood, Fields
  <1>12. AllGood(T, kept, lastJob)
    <2> HIDE DEF u
    <2> QED
      BY <1>10, <1>11, ReplaceOne DEF SigInv
  <1>13. Only(T)
    BY DEF SigReturn
  <1> HIDE DEF T
  <1> QED
    BY <1>12, <1>13, OnlyKeeps

LEMMA SetPgidKeeps ==
    ASSUME NEW p \in Procs, NEW q \in Procs, NEW g \in Groups, SigInv, SetPgid(p, q, g)
    PROVE  SigInv'
  <1> DEFINE t == task[q]
             u == [t EXCEPT !.pgid = g]
             T == [task EXCEPT ![q].pgid = g]
  <1>1. t \in Fields /\ Good(t, kept[q], lastJob[q])
    BY TaskGood
  <1>2. u \in Fields
    BY <1>1, FieldsExcept, SignalAssumption
  <1>3. /\ u.pending = t.pending /\ u.mask = t.mask /\ u.frames = t.frames
        /\ u.handler = t.handler /\ u.traced = t.traced /\ u.state = t.state
    BY <1>1 DEF Fields
  <1>4. Good(u, kept[q], lastJob[q])
    BY <1>1, <1>2, <1>3, Unaffected
  <1>5. T = [task EXCEPT ![q] = u]
    BY DEF SigInv, AllGood
  <1>6. AllGood(T, kept, lastJob)
    BY <1>4, <1>5, ReplaceOne DEF SigInv
  <1>7. Only(AtReturn(T, p))
    BY DEF SetPgid
  <1> HIDE DEF T
  <1> QED
    BY <1>6, <1>7, OnlyReturnKeeps

\* Replacing a task together with the mask its last exec left.
LEMMA ReplaceKept ==
    ASSUME NEW T, NEW K \in [Procs -> SUBSET Sigs], NEW J, NEW p \in Procs, NEW u, NEW k,
           AllGood(T, K, J), Good(u, k, J[p])
    PROVE  AllGood([T EXCEPT ![p] = u], [K EXCEPT ![p] = k], J)
  BY DEF AllGood

LEMMA ForkKeeps ==
    ASSUME NEW p \in Procs, NEW q \in Procs, SigInv, Fork(p, q)
    PROVE  SigInv'
  <1> DEFINE t == task[p]
             u == [t EXCEPT !.pending = {}, !.parent = p, !.tracer = Nobody, !.traced = FALSE]
             T == [task EXCEPT ![q] = u]
             K == [kept EXCEPT ![q] = kept[p]]
  <1>1. t \in Fields /\ Good(t, kept[p], lastJob[p])
    BY TaskGood
  <1>2. u \in Fields
    BY <1>1 DEF Fields
  <1>3. /\ u.pending = {} /\ u.mask = t.mask /\ u.frames = t.frames
        /\ u.handler = t.handler /\ u.state = "READY"
    BY <1>1, NobodyIsNone DEF Fields, Fork, Runs, SigInv
  <1>4. Good(u, kept[p], lastJob[q])
    <2> HIDE DEF u
    <2> QED
      BY <1>1, <1>2, <1>3 DEF Good, JobGood, MaskGood, Held
  <1>5. K \in [Procs -> SUBSET Sigs] /\ kept' = K /\ lastJob' = lastJob
    BY DEF SigInv, Fork
  <1>6. AllGood(T, K, lastJob)
    <2> HIDE DEF u
    <2> QED
      BY <1>4, ReplaceKept DEF SigInv
  <1>7. Become(AtReturn(T, p))
    BY DEF Fork
  <1>8. AllGood(AtReturn(T, p), kept', lastJob')
    <2> HIDE DEF T, K
    <2> QED
      BY <1>5, <1>6, AtReturnGood DEF SigInv, FgInv
  <1> HIDE DEF T, K
  <1> QED
    BY <1>5, <1>7, <1>8, BecomeKeeps DEF SigInv, Fork

LEMMA ExecKeeps ==
    ASSUME NEW p \in Procs, SigInv, Exec(p)
    PROVE  SigInv'
  <1> DEFINE t == task[p]
             H == [s \in Sigs |-> IF t.handler[s] = "IGN" THEN "IGN" ELSE "DFL"]
             u == [t EXCEPT !.handler = H, !.tramp = FALSE, !.frames = <<>>]
             T == [task EXCEPT
                      ![p].handler = [s \in Sigs |-> IF @[s] = "IGN" THEN "IGN" ELSE "DFL"],
                      ![p].tramp = FALSE, ![p].frames = <<>>]
             K == [kept EXCEPT ![p] = t.mask]
  <1>1. t \in Fields /\ Good(t, kept[p], lastJob[p])
    BY TaskGood
  <1>2. u \in Fields
    <2>1. H \in [Sigs -> {"DFL", "IGN", "user"}] /\ <<>> \in Seq(Sigs)
      OBVIOUS
    <2> HIDE DEF H
    <2> QED
      BY <1>1, <2>1 DEF Fields
  <1>3. /\ u.pending = t.pending /\ u.mask = t.mask /\ u.frames = <<>>
        /\ u.handler = H /\ u.traced = t.traced /\ u.state = t.state
    BY <1>1 DEF Fields
  <1>4. MaskGood(u, t.mask)
    <2>1. \A s \in {SIGKILL, SIGSTOP} : H[s] = "DFL"
      BY <1>1, SignalAssumption DEF Good, MaskGood
    <2> HIDE DEF H, u
    <2> QED
      BY <1>1, <1>3, <2>1 DEF Good, MaskGood, Held
  <1>5. Good(u, t.mask, lastJob[p])
    <2> HIDE DEF H, u
    <2> QED
      BY <1>1, <1>2, <1>3, <1>4 DEF Good, JobGood
  <1>6. T = [task EXCEPT ![p] = u]
    BY <1>1 DEF SigInv, AllGood, Fields
  <1>7. K \in [Procs -> SUBSET Sigs] /\ kept' = K /\ lastJob' = lastJob
    BY <1>1, FieldsExcept DEF SigInv, Exec
  <1>8. AllGood(T, K, lastJob)
    <2> HIDE DEF u
    <2> QED
      BY <1>5, <1>6, ReplaceKept DEF SigInv
  <1>9. Become(AtReturn(T, p))
    BY DEF Exec
  <1>10. AllGood(AtReturn(T, p), kept', lastJob')
    <2> HIDE DEF T, K
    <2> QED
      BY <1>7, <1>8, AtReturnGood DEF SigInv, FgInv
  <1> HIDE DEF T, K
  <1> QED
    BY <1>7, <1>9, <1>10, BecomeKeeps DEF SigInv, Exec

LEMMA ExitKeeps ==
    ASSUME NEW p \in Procs, SigInv, Exit(p)
    PROVE  SigInv'
  BY ExitedGood, OnlyKeeps DEF SigInv, FgInv, Exit

LEMMA ReapedKeeps ==
    ASSUME NEW p \in Procs, SigInv, Reaped(p)
    PROVE  SigInv'
  <1> DEFINE t == task[p]
             u == [t EXCEPT !.state = "DEAD"]
             T == [task EXCEPT ![p].state = "DEAD"]
  <1>1. t \in Fields /\ Good(t, kept[p], lastJob[p])
    BY TaskGood
  <1>2. u \in Fields
    BY <1>1, FieldsExcept DEF TaskStates
  <1>3. /\ u.pending = t.pending /\ u.mask = t.mask /\ u.frames = t.frames
        /\ u.handler = t.handler /\ u.state = "DEAD"
    BY <1>1 DEF Fields
  <1>4. Good(u, kept[p], lastJob[p])
    BY <1>1, <1>2, <1>3, Unaffected
  <1>5. T = [task EXCEPT ![p] = u]
    BY DEF SigInv, AllGood
  <1>6. AllGood(T, kept, lastJob)
    BY <1>4, <1>5, ReplaceOne DEF SigInv
  <1>7. Only(T)
    BY DEF Reaped
  <1> HIDE DEF T
  <1> QED
    BY <1>6, <1>7, OnlyKeeps

LEMMA TraceMeKeeps ==
    ASSUME NEW p \in Procs, SigInv, TraceMe(p)
    PROVE  SigInv'
  <1> DEFINE t == task[p]
             u == [t EXCEPT !.tracer = t.parent]
             T == [task EXCEPT ![p].tracer = t.parent]
  <1>1. t \in Fields /\ Good(t, kept[p], lastJob[p])
    BY TaskGood
  <1>2. u \in Fields
    BY <1>1, FieldsExcept
  <1>3. /\ u.pending = t.pending /\ u.mask = t.mask /\ u.frames = t.frames
        /\ u.handler = t.handler /\ u.traced = t.traced /\ u.state = t.state
    BY <1>1 DEF Fields
  <1>4. Good(u, kept[p], lastJob[p])
    BY <1>1, <1>2, <1>3, Unaffected
  <1>5. T = [task EXCEPT ![p] = u]
    BY DEF SigInv, AllGood
  <1>6. AllGood(T, kept, lastJob)
    BY <1>4, <1>5, ReplaceOne DEF SigInv
  <1>7. Only(AtReturn(T, p))
    BY DEF TraceMe
  <1> HIDE DEF T
  <1> QED
    BY <1>6, <1>7, OnlyReturnKeeps

LEMMA AttachKeeps ==
    ASSUME NEW p \in Procs, NEW q \in Procs, SigInv, Attach(p, q)
    PROVE  SigInv'
  <1> DEFINE t == task[q]
             u == [t EXCEPT !.tracer = p]
             T == [task EXCEPT ![q].tracer = p]
             S == Send(T, {q}, SIGSTOP)
  <1>1. t \in Fields /\ Good(t, kept[q], lastJob[q])
    BY TaskGood
  <1>2. u \in Fields
    BY <1>1, FieldsExcept
  <1>3. /\ u.pending = t.pending /\ u.mask = t.mask /\ u.frames = t.frames
        /\ u.handler = t.handler /\ u.traced = t.traced /\ u.state = t.state
    BY <1>1 DEF Fields
  <1>4. Good(u, kept[q], lastJob[q])
    BY <1>1, <1>2, <1>3, Unaffected
  <1>5. T = [task EXCEPT ![q] = u]
    BY DEF SigInv, AllGood
  <1>6. AllGood(T, kept, lastJob)
    BY <1>4, <1>5, ReplaceOne DEF SigInv
  <1>7. lastJob' = JobNote({q}, SIGSTOP) /\ lastJob' \in [Procs -> BOOLEAN]
    BY JobNoteIs DEF Attach, SigInv
  <1>8. SIGSTOP \in Sigs
    BY SignalAssumption
  <1>9. AllGood(S, kept, lastJob')
    <2> HIDE DEF T
    <2> QED
      BY <1>6, <1>7, <1>8, JobNoteIs, SendAll DEF SigInv
  <1>10. Become(AtReturn(S, p)) /\ kept' = kept
    BY DEF Attach
  <1> HIDE DEF S
  <1>11. AllGood(AtReturn(S, p), kept', lastJob')
    BY <1>7, <1>9, <1>10, AtReturnGood DEF SigInv, FgInv
  <1>12. sends' \in 0 .. MaxSends
    BY SignalAssumption DEF SigInv, Attach
  <1> QED
    BY <1>7, <1>10, <1>11, <1>12, BecomeKeeps DEF Attach, SigInv

\* A resumed task is not stopped, and only gives up its trace stop.
LEMMA ResumedGood ==
    ASSUME NEW t, NEW k, NEW last, Good(t, k, last)
    PROVE  /\ Good(Resumed(t), k, last)
           /\ Good([Resumed(t) EXCEPT !.tracer = Nobody], k, last)
  <1> DEFINE x == IF t.state = "STOPPED" THEN "READY" ELSE t.state
             u == [t EXCEPT !.traced = FALSE, !.state = x]
             v == [u EXCEPT !.tracer = Nobody]
  <1>1. t \in Fields
    BY DEF Good
  <1>2. u \in Fields
    <2>1. x \in TaskStates
      BY <1>1, FieldsExcept DEF TaskStates
    <2> HIDE DEF x
    <2> QED
      BY <1>1, <2>1 DEF Fields
  <1>3. /\ u.pending = t.pending /\ u.mask = t.mask /\ u.frames = t.frames
        /\ u.handler = t.handler /\ u.state # "STOPPED"
    BY <1>1 DEF Fields
  <1>4. v \in Fields
    <2> HIDE DEF u
    <2> QED
      BY <1>2, FieldsExcept
  <1>5. /\ v.pending = t.pending /\ v.mask = t.mask /\ v.frames = t.frames
        /\ v.handler = t.handler /\ v.state # "STOPPED"
    <2>1. /\ v.pending = u.pending /\ v.mask = u.mask /\ v.frames = u.frames
          /\ v.handler = u.handler /\ v.state = u.state
      <3> HIDE DEF u
      <3> QED
        BY <1>2 DEF Fields
    <2> HIDE DEF u, v
    <2> QED
      BY <1>3, <2>1
  <1>6. Good(u, k, last) /\ Good(v, k, last)
    <2> HIDE DEF u, v
    <2> QED
      BY <1>2, <1>3, <1>4, <1>5, Unaffected
  <1> QED
    BY <1>6 DEF Resumed

LEMMA DetachKeeps ==
    ASSUME NEW p \in Procs, NEW q \in Procs, SigInv, Detach(p, q)
    PROVE  SigInv'
  <1> DEFINE u == [Resumed(task[q]) EXCEPT !.tracer = Nobody]
             T == [task EXCEPT ![q] = u]
  <1>1. Good(u, kept[q], lastJob[q])
    BY TaskGood, ResumedGood
  <1>2. AllGood(T, kept, lastJob)
    <2> HIDE DEF u
    <2> QED
      BY <1>1, ReplaceOne DEF SigInv
  <1>3. Only(AtReturn(T, p))
    BY DEF Detach
  <1> HIDE DEF T
  <1> QED
    BY <1>2, <1>3, OnlyReturnKeeps

LEMMA ContKeeps ==
    ASSUME NEW p \in Procs, NEW q \in Procs, SigInv, Cont(p, q)
    PROVE  SigInv'
  <1> DEFINE u == Resumed(task[q])
             T == [task EXCEPT ![q] = u]
  <1>1. Good(u, kept[q], lastJob[q])
    BY TaskGood, ResumedGood
  <1>2. AllGood(T, kept, lastJob)
    BY <1>1, ReplaceOne DEF SigInv
  <1>3. Only(AtReturn(T, p))
    BY DEF Cont
  <1> HIDE DEF T
  <1> QED
    BY <1>2, <1>3, OnlyReturnKeeps

LEMMA TrapKeeps ==
    ASSUME NEW p \in Procs, SigInv, Trap(p)
    PROVE  SigInv'
  <1> DEFINE t == task[p]
             u == [t EXCEPT !.traced = TRUE, !.state = "STOPPED"]
             T == [task EXCEPT ![p].traced = TRUE, ![p].state = "STOPPED"]
             S == Send(T, WithPid(task[p].tracer), SIGCHLD)
  <1>1. t \in Fields /\ Good(t, kept[p], lastJob[p])
    BY TaskGood
  <1>2. u \in Fields
    BY <1>1 DEF Fields, TaskStates
  <1>3. /\ u.pending = t.pending /\ u.mask = t.mask /\ u.frames = t.frames
        /\ u.handler = t.handler /\ u.traced = TRUE
    BY <1>1 DEF Fields
  <1>4. Good(u, kept[p], lastJob[p])
    <2> HIDE DEF u
    <2> QED
      BY <1>1, <1>2, <1>3 DEF Good, JobGood, MaskGood, Held
  <1>5. T = [task EXCEPT ![p] = u]
    BY <1>1 DEF SigInv, AllGood, Fields
  <1>6. AllGood(T, kept, lastJob)
    BY <1>4, <1>5, ReplaceOne DEF SigInv
  <1>7. SIGCHLD \in Sigs \ (Stops \cup {SIGCONT})
    BY SignalAssumption DEF SIGCHLD, SIGCONT, Stops, SIGSTOP, SIGTSTP
  <1>8. AllGood(S, kept, lastJob)
    <2> HIDE DEF T
    <2> QED
      BY <1>6, <1>7, SendPlain DEF SigInv
  <1>9. Only(S)
    BY DEF Trap
  <1> HIDE DEF S
  <1> QED
    BY <1>8, <1>9, OnlyKeeps

LEMMA WaitKeeps ==
    ASSUME NEW p \in Procs, NEW q \in Procs, SigInv, Wait(p, q)
    PROVE  SigInv'
  <1>1. CASE Answered(q)
    <2>1. Only(AtReturn(task, p))
      BY <1>1 DEF Wait
    <2> QED
      BY <2>1, OnlyReturnKeeps DEF SigInv
  <1>2. CASE ~Answered(q)
    <2>1. CallsInv'
      BY <1>2, NobodyIsNone DEF Wait, Runs, SigInv, CallsInv, Calls
    <2> QED
      BY <1>2, <2>1 DEF Wait, SigInv, FgInv
  <1> QED
    BY <1>1, <1>2

LEMMA WaitResumeKeeps ==
    ASSUME NEW p \in Procs, SigInv, WaitResume(p)
    PROVE  SigInv'
  <1>1. AllGood(task', kept', lastJob')
    BY AtReturnGood DEF SigInv, FgInv, WaitResume
  <1>2. CallsInv' /\ due[p] = FALSE
    BY DEF WaitResume, SigInv, CallsInv, Calls
  <1> QED
    BY <1>1, <1>2 DEF WaitResume, SigInv, FgInv, CallsInv

-----------------------------------------------------------------------------
(* Signals and job control                                                 *)

LEMMA SigStep == SigInv /\ [SigNext]_sigVars => SigInv'
  <1> SUFFICES ASSUME SigInv, [SigNext]_sigVars PROVE SigInv'
    OBVIOUS
  <1>1. CASE UNCHANGED sigVars
    BY <1>1 DEF sigVars, SigInv, AllGood, CallsInv, FgInv
  <1>2. CASE SigNext
    <2> PICK p \in Procs :
            \/ Tick(p) \/ Preempt(p) \/ Dispatch(p) \/ SigReturn(p) \/ Exec(p) \/ Exit(p) \/ Reaped(p)
            \/ TraceMe(p) \/ Trap(p) \/ WaitResume(p)
            \/ \E s \in Sigs, q \in Procs : Kill(p, q, s)
            \/ \E s \in Sigs, g \in Groups : KillPg(p, g, s)
            \/ \E s \in Sigs, h \in {"IGN", "user"} : <<p, s>> \in Hooked /\ SigAction(p, s, h)
            \/ \E q \in Procs, g \in Groups : SetPgid(p, q, g)
            \/ \E q \in Procs : Fork(p, q) \/ Attach(p, q) \/ Detach(p, q) \/ Cont(p, q)
                                \/ Wait(p, q)
      BY <1>2 DEF SigNext
    <2>1. CASE Tick(p) \/ Preempt(p) \/ Dispatch(p) \/ Exec(p) \/ Exit(p) \/ Reaped(p)
      BY <2>1, TickKeeps, PreemptKeeps, DispatchKeeps, ExecKeeps, ExitKeeps, ReapedKeeps
    <2>2. CASE SigReturn(p)
      BY <2>2, SigReturnKeeps
    <2>3. CASE \/ \E s \in Sigs, q \in Procs : Kill(p, q, s)
               \/ \E s \in Sigs, g \in Groups : KillPg(p, g, s)
      BY <2>3, SendToKeeps DEF Kill, KillPg
    <2>4. CASE \E s \in Sigs, h \in {"IGN", "user"} : <<p, s>> \in Hooked /\ SigAction(p, s, h)
      BY <2>4, SigActionKeeps
    <2>5. CASE \E q \in Procs, g \in Groups : SetPgid(p, q, g)
      BY <2>5, SetPgidKeeps
    <2>6. CASE \E q \in Procs : Fork(p, q)
      BY <2>6, ForkKeeps
    <2>7. CASE TraceMe(p) \/ Trap(p) \/ WaitResume(p)
      BY <2>7, TraceMeKeeps, TrapKeeps, WaitResumeKeeps
    <2>8. CASE \E q \in Procs : Attach(p, q) \/ Detach(p, q) \/ Cont(p, q) \/ Wait(p, q)
      BY <2>8, AttachKeeps, DetachKeeps, ContKeeps, WaitKeeps
    <2> QED
      BY <2>1, <2>2, <2>3, <2>4, <2>5, <2>6, <2>7, <2>8
  <1> QED
    BY <1>1, <1>2

\* SigInv, the conjunction of what holds of every task with who may be running and
\* who may be waiting, holds in every state that kill, delivery, handlers,
\* fork, exec, exit and ptrace reach.
THEOREM SigInvariance == SigSpec => []SigInv
  BY SigInitInv, SigStep, PTL DEF SigSpec

\* The signal state is well formed, and who runs in user mode is READY, in no call
\* and owed no delivery.
THEOREM SigTypeCorrect == SigSpec => []SigTypeOK
  BY SigInvariance, SigInvType, PTL

\* CONT and the stops cancel each other in every order of kill, killpg and attach
\* with deliveries, forks, execs and trace stops: signal_send never leaves both
\* pending, and a task is stopped outside of a trace stop only after a stop.
THEOREM StopsAndContsCancel == SigSpec => []JobControlOrder
  BY SigInvariance, SigInvJob, PTL

\* The mask is what the handlers under way and the last exec make of it, with
\* handlers nested to any depth, so sigreturn unmasks the right signal and KILL
\* and STOP are never blocked.
THEOREM MaskFollowsHandlers == SigSpec => []MaskIsFrames
  BY SigInvariance, SigInvMask, PTL

-----------------------------------------------------------------------------
(* Pseudo-terminals                                                        *)

\* The keystroke of a waiting write is one that was typed: what waited for room
\* before there was a foreground group may become a signal afterwards.
LeftInv ==
    /\ left \in [Procs -> Nat]
    /\ \A p \in Procs : call[p] = "mwrite" => left[p] \in Keys

PtyInv ==
    /\ SigInv /\ LeftInv
    /\ m_to_s \in 0 .. (PTY_BUF_SZ - 1) /\ s_to_m \in 0 .. (PTY_BUF_SZ - 1)

LEMMA PtyInvType == PtyInv => TypeOK
  BY SigInvType DEF PtyInv, TypeOK, SigInv, CallsInv, LeftInv

LEMMA PtyInitInv == Init => PtyInv
  <1> SUFFICES ASSUME Init PROVE PtyInv
    OBVIOUS
  <1>1. SigInv
    BY SigInitInv DEF Init
  <1>2. LeftInv
    BY DEF Init, SigInit, LeftInv
  <1>3. 0 \in 0 .. (PTY_BUF_SZ - 1)
    BY PtyAssumption
  <1> QED
    BY <1>1, <1>2, <1>3 DEF Init, PtyInv

\* p runs, or has been picked inside a call.
Active(p) == cur = p \/ (cur = Nobody /\ call[p] # "user")

LEMMA AtActive ==
    ASSUME NEW p \in Procs, NEW c, c # "user", At(p, c)
    PROVE  Active(p)
  BY DEF At, Active

LEMMA ActiveNotDue ==
    ASSUME NEW p \in Procs, SigInv, Active(p)
    PROVE  due[p] = FALSE
  BY NobodyIsNone DEF SigInv, CallsInv, Active

LEMMA LeaveKeeps ==
    ASSUME NEW p \in Procs, NEW T, PtyInv, Active(p), Leave(p, T), AllGood(T, kept, lastJob'),
           lastJob' \in [Procs -> BOOLEAN], FgInv'
    PROVE  SigInv' /\ LeftInv'
  <1>1. AllGood(task', kept', lastJob')
    BY AtReturnGood DEF PtyInv, SigInv, FgInv, Leave
  <1>2. CallsInv'
    BY DEF PtyInv, SigInv, CallsInv, Calls, Leave
  <1>3. due'[p] = FALSE /\ call'[p] = "user"
    BY ActiveNotDue DEF PtyInv, SigInv, CallsInv, Leave
  <1>4. SigInv'
    BY <1>1, <1>2, <1>3 DEF PtyInv, SigInv, Leave
  <1>5. LeftInv'
    BY DEF PtyInv, SigInv, CallsInv, LeftInv, Leave
  <1> QED
    BY <1>4, <1>5

LEMMA YieldKeeps ==
    ASSUME NEW p \in Procs, NEW c \in Calls, NEW n \in Nat, PtyInv, Active(p), Yield(p, c, n),
           c = "mwrite" => n \in Keys, UNCHANGED <<task, fg, lastJob>>
    PROVE  SigInv' /\ LeftInv'
  <1>1. CallsInv'
    BY ActiveNotDue DEF PtyInv, SigInv, CallsInv, Calls, Yield
  <1>2. SigInv'
    BY <1>1 DEF PtyInv, SigInv, FgInv, Yield
  <1>3. LeftInv'
    BY DEF PtyInv, SigInv, CallsInv, LeftInv, Yield
  <1> QED
    BY <1>2, <1>3

LEMMA OpenPtyKeeps ==
    ASSUME NEW p \in Procs, PtyInv, OpenPty(p)
    PROVE  PtyInv'
  <1> DEFINE t == task[p]
             u == [t EXCEPT !.ends = {"master", "slave"}]
             T == [task EXCEPT ![p].ends = {"master", "slave"}]
  <1>1. t \in Fields /\ Good(t, kept[p], lastJob[p])
    BY TaskGood DEF PtyInv
  <1>2. u \in Fields
    BY <1>1, FieldsExcept
  <1>3. /\ u.pending = t.pending /\ u.mask = t.mask /\ u.frames = t.frames
        /\ u.handler = t.handler /\ u.traced = t.traced /\ u.state = t.state
    BY <1>1 DEF Fields
  <1>4. Good(u, kept[p], lastJob[p])
    BY <1>1, <1>2, <1>3, Unaffected
  <1>5. T = [task EXCEPT ![p] = u]
    BY DEF PtyInv, SigInv, AllGood
  <1>6. AllGood(T, kept, lastJob)
    BY <1>4, <1>5, ReplaceOne DEF PtyInv, SigInv
  <1>7. Leave(p, T) /\ Active(p) /\ lastJob' = lastJob /\ fg' = 0
    BY DEF OpenPty, Runs, Active
  <1>8. FgInv'
    BY <1>7 DEF FgInv
  <1>9. SigInv' /\ LeftInv'
    <2> HIDE DEF T
    <2> QED
      BY <1>6, <1>7, <1>8, LeaveKeeps DEF PtyInv, SigInv
  <1>10. 0 \in 0 .. (PTY_BUF_SZ - 1)
    BY PtyAssumption
  <1> QED
    BY <1>9, <1>10 DEF OpenPty, PtyInv

LEMMA CloseKeeps ==
    ASSUME NEW p \in Procs, NEW e, PtyInv, Close(p, e)
    PROVE  PtyInv'
  <1>1. AllGood(CloseEnds(task, p, {e}), kept, lastJob)
    BY CloseEndsGood DEF PtyInv, SigInv, FgInv
  <1>2. /\ Leave(p, CloseEnds(task, p, {e})) /\ Active(p)
        /\ lastJob' = lastJob /\ fg' = fg /\ m_to_s' = m_to_s /\ s_to_m' = s_to_m
    BY DEF Close, Runs, Active
  <1>3. FgInv'
    BY <1>2 DEF FgInv, PtyInv, SigInv
  <1>4. SigInv' /\ LeftInv'
    BY <1>1, <1>2, <1>3, LeaveKeeps DEF PtyInv, SigInv
  <1> QED
    BY <1>2, <1>4 DEF PtyInv

\* Leaving a call that changed no task.
LEMMA LeavePlain ==
    ASSUME NEW p \in Procs, PtyInv, Active(p), Leave(p, task), lastJob' = lastJob, FgInv'
    PROVE  SigInv' /\ LeftInv'
  BY LeaveKeeps DEF PtyInv, SigInv

LEMMA SlaveReadKeeps ==
    ASSUME NEW p \in Procs, PtyInv, SlaveRead(p)
    PROVE  PtyInv'
  <1>1. Active(p) /\ lastJob' = lastJob /\ fg' = fg /\ s_to_m' = s_to_m
    BY AtActive DEF SlaveRead
  <1>2. FgInv'
    BY <1>1 DEF FgInv, PtyInv, SigInv
  <1>3. m_to_s' \in 0 .. (PTY_BUF_SZ - 1)
    BY PtyAssumption DEF SlaveRead, PtyInv
  <1>4. CASE Leave(p, task)
    BY <1>1, <1>2, <1>3, <1>4, LeavePlain DEF PtyInv
  <1>5. CASE Yield(p, "sread", 0) /\ UNCHANGED task
    <2>1. SigInv' /\ LeftInv'
      BY <1>1, <1>5, YieldKeeps DEF Calls
    <2> QED
      BY <1>1, <1>3, <2>1 DEF PtyInv
  <1> QED
    BY <1>4, <1>5 DEF SlaveRead

LEMMA MasterReadKeeps ==
    ASSUME NEW p \in Procs, PtyInv, MasterRead(p)
    PROVE  PtyInv'
  <1>1. Active(p) /\ lastJob' = lastJob /\ fg' = fg /\ m_to_s' = m_to_s
    BY AtActive DEF MasterRead
  <1>2. FgInv'
    BY <1>1 DEF FgInv, PtyInv, SigInv
  <1>3. s_to_m' \in 0 .. (PTY_BUF_SZ - 1)
    BY PtyAssumption DEF MasterRead, PtyInv
  <1>4. CASE Leave(p, task)
    BY <1>1, <1>2, <1>3, <1>4, LeavePlain DEF PtyInv
  <1>5. CASE Yield(p, "mread", 0) /\ UNCHANGED task
    <2>1. SigInv' /\ LeftInv'
      BY <1>1, <1>5, YieldKeeps DEF Calls
    <2> QED
      BY <1>1, <1>3, <2>1 DEF PtyInv
  <1> QED
    BY <1>4, <1>5 DEF MasterRead

\* A write puts no more than fits, and waits with the rest.
LEMMA SlaveWriteKeeps ==
    ASSUME NEW p \in Procs, NEW n \in Nat, PtyInv, SlaveWrite(p, n)
    PROVE  PtyInv'
  <1> DEFINE k == IF Masters = {} THEN 0 ELSE Smaller(n, Room - s_to_m)
  <1>1. Active(p) /\ lastJob' = lastJob /\ fg' = fg /\ m_to_s' = m_to_s /\ s_to_m' = s_to_m + k
    BY AtActive DEF SlaveWrite
  <1>2. FgInv'
    BY <1>1 DEF FgInv, PtyInv, SigInv
  <1>3. k \in Nat /\ k <= n /\ s_to_m + k \in 0 .. (PTY_BUF_SZ - 1)
    BY PtyAssumption DEF Smaller, Room, PtyInv
  <1>4. CASE Leave(p, task)
    BY <1>1, <1>2, <1>3, <1>4, LeavePlain DEF PtyInv
  <1>5. CASE Yield(p, "swrite", n - k) /\ UNCHANGED task
    <2>1. SigInv' /\ LeftInv'
      <3>1. n - k \in Nat /\ "swrite" \in Calls
        BY <1>3 DEF Calls
      <3> HIDE DEF k
      <3> QED
        BY <1>1, <1>5, <3>1, YieldKeeps
    <2> QED
      BY <1>1, <1>3, <2>1 DEF PtyInv
  <1> QED
    BY <1>4, <1>5 DEF SlaveWrite

LEMMA MasterWriteKeeps ==
    ASSUME NEW p \in Procs, NEW k \in Keys, PtyInv, MasterWrite(p, k)
    PROVE  PtyInv'
  <1>1. Active(p) /\ fg' = fg /\ s_to_m' = s_to_m
    BY AtActive DEF MasterWrite
  <1>2. FgInv'
    BY <1>1 DEF FgInv, PtyInv, SigInv
  <1>3. m_to_s' \in 0 .. (PTY_BUF_SZ - 1)
    BY PtyAssumption DEF MasterWrite, PtyInv, Room
  <1>4. CASE Leave(p, task) /\ lastJob' = lastJob
    BY <1>1, <1>2, <1>3, <1>4, LeavePlain DEF PtyInv
  <1>5. CASE Yield(p, "mwrite", k) /\ UNCHANGED <<task, lastJob>>
    <2>1. k \in Nat /\ "mwrite" \in Calls
      BY PtyAssumption DEF Calls, SIGINT, SIGTSTP
    <2>2. SigInv' /\ LeftInv'
      BY <1>1, <1>5, <2>1, YieldKeeps
    <2> QED
      BY <1>1, <1>3, <2>2 DEF PtyInv
  <1>6. CASE /\ KeySignals(k)
             /\ Leave(p, Send(task, Members(task, fg), k))
             /\ lastJob' = JobNote(Members(task, fg), k)
    <2> DEFINE Q == Members(task, fg)
    <2>1. k \in Sigs
      BY <1>6, PtyAssumption DEF KeySignals
    <2>2. lastJob' = JobNote(Q, k) /\ lastJob' \in [Procs -> BOOLEAN]
      BY <1>6, JobNoteIs DEF PtyInv, SigInv
    <2>3. AllGood(Send(task, Q, k), kept, lastJob')
      BY <2>1, <2>2, JobNoteIs, SendAll DEF PtyInv, SigInv
    <2>4. SigInv' /\ LeftInv'
      BY <1>1, <1>2, <1>6, <2>2, <2>3, LeaveKeeps
    <2> QED
      BY <1>1, <1>3, <2>4 DEF PtyInv
  <1> QED
    BY <1>4, <1>5, <1>6 DEF MasterWrite

LEMMA TcSetPgrpKeeps ==
    ASSUME NEW p \in Procs, NEW g \in Groups, PtyInv, TcSetPgrp(p, g)
    PROVE  PtyInv'
  <1>1. /\ Leave(p, task) /\ Active(p) /\ lastJob' = lastJob /\ fg' = g
        /\ m_to_s' = m_to_s /\ s_to_m' = s_to_m
    BY DEF TcSetPgrp, Runs, Active
  <1>2. FgInv'
    BY <1>1, SignalAssumption, PtyAssumption DEF FgInv
  <1> QED
    BY <1>1, <1>2, LeavePlain DEF PtyInv

\* Preempt, dispatch, fork, exit and kill leave the terminal alone; no process
\* enters a write by one of them.
LEMMA SignalStepKeeps ==
    ASSUME NEW p \in Procs, PtyInv, SignalStep(p), UNCHANGED ptyVars
    PROVE  PtyInv'
  <1>1. SigInv
    BY DEF PtyInv
  <1>2. {SIGKILL, SIGCONT} \subseteq Sigs
    BY SignalAssumption
  <1>3. SigInv' /\ call' = call
    <2>1. CASE Tick(p) \/ Exit(p) \/ Reaped(p)
      BY <1>1, <2>1, TickKeeps, ExitKeeps, ReapedKeeps DEF Tick, Exit, Reaped, Only
    <2>2. CASE Preempt(p) \/ Dispatch(p)
      BY <1>1, <2>2, PreemptKeeps, DispatchKeeps DEF Preempt, Dispatch
    <2>3. CASE \E q \in Procs : Fork(p, q)
      BY <1>1, <2>3, ForkKeeps DEF Fork
    <2>4. CASE \E q \in Procs, s \in {SIGKILL, SIGCONT} : Kill(p, q, s)
      BY <1>1, <1>2, <2>4, SendToKeeps DEF Kill, SendTo
    <2>5. CASE \E g \in Groups : SetPgid(p, p, g)
      BY <1>1, <2>5, SetPgidKeeps DEF SetPgid, Only
    <2> QED
      BY <2>1, <2>2, <2>3, <2>4, <2>5 DEF SignalStep
  <1> QED
    BY <1>3 DEF PtyInv, LeftInv, ptyVars

LEMMA PtyStep == PtyInv /\ [Next]_vars => PtyInv'
  <1> SUFFICES ASSUME PtyInv, [Next]_vars PROVE PtyInv'
    OBVIOUS
  <1>1. CASE UNCHANGED vars
    BY <1>1 DEF vars, sigVars, ptyVars, PtyInv, SigInv, AllGood, CallsInv, FgInv, LeftInv
  <1>2. CASE Next
    <2> PICK p \in Procs :
            \/ SignalStep(p) /\ UNCHANGED ptyVars
            \/ OpenPty(p)
            \/ \E e \in {"master", "slave"} : Close(p, e)
            \/ SlaveRead(p) \/ MasterRead(p)
            \/ \E n \in IF cur = p THEN Outputs ELSE {left[p]} : SlaveWrite(p, n)
            \/ \E k \in IF cur = p THEN Keys ELSE {left[p]} : MasterWrite(p, k)
            \/ \E g \in Groups : TcSetPgrp(p, g)
      BY <1>2 DEF Next
    <2>1. CASE SignalStep(p) /\ UNCHANGED ptyVars
      BY <2>1, SignalStepKeeps
    <2>2. CASE OpenPty(p) \/ \E e \in {"master", "slave"} : Close(p, e)
      BY <2>2, OpenPtyKeeps, CloseKeeps
    <2>3. CASE SlaveRead(p) \/ MasterRead(p)
      BY <2>3, SlaveReadKeeps, MasterReadKeeps
    <2>4. CASE \E n \in IF cur = p THEN Outputs ELSE {left[p]} : SlaveWrite(p, n)
      <3>1. PICK n \in IF cur = p THEN Outputs ELSE {left[p]} : SlaveWrite(p, n)
        BY <2>4
      <3>2. n \in Nat
        BY PtyAssumption DEF PtyInv, LeftInv
      <3> QED
        BY <3>1, <3>2, SlaveWriteKeeps
    <2>5. CASE \E k \in IF cur = p THEN Keys ELSE {left[p]} : MasterWrite(p, k)
      <3>1. PICK k \in IF cur = p THEN Keys ELSE {left[p]} : MasterWrite(p, k)
        BY <2>5
      <3>2. k \in Keys
        BY <3>1 DEF MasterWrite, At, PtyInv, LeftInv
      <3> QED
        BY <3>1, <3>2, MasterWriteKeeps
    <2>6. CASE \E g \in Groups : TcSetPgrp(p, g)
      BY <2>6, TcSetPgrpKeeps
    <2> QED
      BY <2>1, <2>2, <2>3, <2>4, <2>5, <2>6
  <1> QED
    BY <1>1, <1>2

\* PtyInv holds in every state of a terminal and the processes on both sides of it.
THEOREM PtyInvariance == Spec => []PtyInv
  BY PtyInitInv, PtyStep, PTL DEF Spec

\* The two rings of a terminal never hold more than fits, whoever writes and waits
\* on either side, and the processes around it are well formed.
THEOREM PtyTypeCorrect == Spec => []TypeOK
  BY PtyInvariance, PtyInvType, PTL

\* Job control by a terminal: also with stops that come from keystrokes, typed
\* before or after there was a foreground group, and with hangups, a process is
\* stopped only if the last of CONT and the stops sent to it was a stop.
THEOREM TerminalJobControl == Spec => []JobControlOrder
  BY PtyInvariance, SigInvJob, PTL DEF PtyInv

=============================================================================
