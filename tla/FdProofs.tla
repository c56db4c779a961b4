------------------------------ MODULE FdProofs ------------------------------
(***************************************************************************)
(* Machine-checked proofs about descriptors and the reference counts of    *)
(* what they refer to (kernel/syscall.c, kernel/task.c), for any number of *)
(* processes, descriptors and objects and for any limit.                   *)
(***************************************************************************)
EXTENDS Fd, FunctionTheorems, FiniteSetTheorems, TLAPS

-----------------------------------------------------------------------------
(* Kinds and entries                                                       *)

LEMMA KindsAre ==
    /\ Kinds = {"pipe_r", "pipe_w", "pty_m", "pty_s", "tmpfs", "sock", "inode"}
    /\ Classes = {"pipe", "pty", "tmpfs", "sock", "9p"}
    /\ Class["pipe_r"] = "pipe" /\ Class["pipe_w"] = "pipe"
    /\ Class["pty_m"] = "pty" /\ Class["pty_s"] = "pty"
    /\ Class["tmpfs"] = "tmpfs" /\ Class["sock"] = "sock" /\ Class["inode"] = "9p"
  <1>1. Kinds = {"pipe_r", "pipe_w", "pty_m", "pty_s", "tmpfs", "sock", "inode"}
    BY DEF Kinds, Class
  <1>2. /\ Class["pipe_r"] = "pipe" /\ Class["pipe_w"] = "pipe"
        /\ Class["pty_m"] = "pty" /\ Class["pty_s"] = "pty"
        /\ Class["tmpfs"] = "tmpfs" /\ Class["sock"] = "sock" /\ Class["inode"] = "9p"
    BY DEF Class
  <1>3. Classes = {"pipe", "pty", "tmpfs", "sock", "9p"}
    BY <1>1, <1>2 DEF Classes
  <1> QED
    BY <1>1, <1>2, <1>3

LEMMA EndsAre ==
    /\ Ends["pipe"][1] = "pipe_r" /\ Ends["pipe"][2] = "pipe_w"
    /\ Ends["pty"][1] = "pty_m" /\ Ends["pty"][2] = "pty_s"
  BY DEF Ends

LEMMA EntriesDiffer ==
    /\ \A k, l, o, u : Ref(k, o) = Ref(l, u) <=> k = l /\ o = u
    /\ \A k \in Kinds : \A o : Ref(k, o) # Free /\ Ref(k, o) # Std
  BY KindsAre DEF Ref, Free, Std

Entries == [kind : Kinds \cup {"free", "std"}, obj : Objs]

LEMMA EntryTypes ==
    /\ Free \in Entries /\ Std \in Entries
    /\ \A k \in Kinds, o \in Objs : Ref(k, o) \in Entries
    /\ \A e \in Entries : /\ e.kind \in Kinds \cup {"free", "std"} /\ e.obj \in Objs
                          /\ e = Ref(e.kind, e.obj)
  BY FdAssumption DEF Free, Std, Ref, Entries, Objs

-----------------------------------------------------------------------------
(* Counting                                                                *)

\* The descriptors of the processes L, in the tables F, that are <<k, o>>.
Descs(L, F, k, o) == {d \in L \X Fds : F[d[1]][d[2]] = Ref(k, o)}
Num(L, F, k, o) == Cardinality(Descs(L, F, k, o))

Tables == [Procs -> [Fds -> Entries]]

LEMMA FdsFinite == IsFiniteSet(Fds)
  BY FS_Interval, FdAssumption DEF Fds

LEMMA DescsFinite ==
    ASSUME NEW L \in SUBSET Procs, NEW F, NEW k, NEW o
    PROVE  IsFiniteSet(Descs(L, F, k, o)) /\ Num(L, F, k, o) \in Nat
  <1>1. IsFiniteSet(L)
    BY FS_Subset, FdAssumption
  <1>2. IsFiniteSet(L \X Fds)
    BY <1>1, FdsFinite, FS_Product
  <1>3. Descs(L, F, k, o) \in SUBSET (L \X Fds)
    BY DEF Descs
  <1>4. IsFiniteSet(Descs(L, F, k, o))
    BY <1>2, <1>3, FS_Subset
  <1> QED
    BY <1>4, FS_CardinalityType DEF Num

\* One descriptor is overwritten.
Put(F, p, f, e) == [F EXCEPT ![p][f] = e]

LEMMA NumReplace ==
    ASSUME NEW L \in SUBSET Procs, NEW F \in Tables, NEW p \in L, NEW f \in Fds, NEW e, NEW k, NEW o
    PROVE  LET n == Num(L, Put(F, p, f, e), k, o)
           IN  /\ (F[p][f] = Ref(k, o) <=> e = Ref(k, o)) => n = Num(L, F, k, o)
               /\ F[p][f] = Ref(k, o) /\ e # Ref(k, o) => n = Num(L, F, k, o) - 1
               /\ F[p][f] # Ref(k, o) /\ e = Ref(k, o) => n = Num(L, F, k, o) + 1
  <1> DEFINE G == Put(F, p, f, e)
             S == Descs(L, F, k, o)
             d == <<p, f>>
  <1>1. IsFiniteSet(S) /\ Cardinality(S) \in Nat
    BY DescsFinite DEF Num
  <1>2. d \in S <=> F[p][f] = Ref(k, o)
    BY DEF Descs
  <1>3. \A q \in L, g \in Fds : G[q][g] = IF q = p /\ g = f THEN e ELSE F[q][g]
    BY DEF Tables, Put
  <1>4. CASE e = Ref(k, o)
    <2>1. Descs(L, G, k, o) = S \cup {d}
      BY <1>3, <1>4 DEF Descs
    <2>2. Cardinality(S \cup {d}) = IF d \in S THEN Cardinality(S) ELSE Cardinality(S) + 1
      BY <1>1, FS_AddElement
    <2> HIDE DEF G, S, d
    <2>3. Num(L, G, k, o) = Cardinality(S \cup {d}) /\ Num(L, F, k, o) = Cardinality(S)
      BY <2>1 DEF Num, S
    <2> QED
      BY <2>2, <2>3, <1>1, <1>2, <1>4 DEF G
  <1>5. CASE e # Ref(k, o)
    <2>1. Descs(L, G, k, o) = S \ {d}
      BY <1>3, <1>5 DEF Descs
    <2>2. Cardinality(S \ {d}) = IF d \in S THEN Cardinality(S) - 1 ELSE Cardinality(S)
      BY <1>1, FS_RemoveElement
    <2> HIDE DEF G, S, d
    <2>3. Num(L, G, k, o) = Cardinality(S \ {d}) /\ Num(L, F, k, o) = Cardinality(S)
      BY <2>1 DEF Num, S
    <2> QED
      BY <2>2, <2>3, <1>1, <1>2, <1>5 DEF G
  <1> QED
    BY <1>4, <1>5

\* The descriptors of one process, and what happens to them at its exit and when
\* they are copied by fork.
Own(F, p, k, o) == {d \in {<<p, f>> : f \in Fds} : F[d[1]][d[2]] = Ref(k, o)}

Replaced(F, p, T) == [F EXCEPT ![p] = T]
Minus(L, p) == L \ {p}
Plus(L, c) == L \cup {c}

LEMMA NumExit ==
    ASSUME NEW L \in SUBSET Procs, NEW F \in Tables, NEW p \in L, NEW T, NEW k, NEW o
    PROVE  /\ Cardinality(Own(F, p, k, o)) \in Nat
           /\ Cardinality(Own(F, p, k, o)) <= Num(L, F, k, o)
           /\ Num(Minus(L, p), Replaced(F, p, T), k, o)
                = Num(L, F, k, o) - Cardinality(Own(F, p, k, o))
  <1> DEFINE S == Descs(L, F, k, o)
             O == Own(F, p, k, o)
             R == Descs(Minus(L, p), Replaced(F, p, T), k, o)
  <1>1. IsFiniteSet(S) /\ Cardinality(S) \in Nat
    BY DescsFinite DEF Num
  <1>2. O \in SUBSET S
    BY DEF Own, Descs
  <1>3. R \in SUBSET S /\ R \cup O = S /\ R \cap O = {}
    BY DEF Own, Descs, Tables, Replaced, Minus
  <1> HIDE DEF S, O, R
  <1>4. /\ IsFiniteSet(O) /\ Cardinality(O) \in Nat /\ Cardinality(O) <= Cardinality(S)
        /\ IsFiniteSet(R) /\ Cardinality(R) \in Nat
    BY <1>1, <1>2, <1>3, FS_Subset, FS_CardinalityType
  <1>5. Cardinality(S) = Cardinality(R) + Cardinality(O)
    BY <1>3, <1>4, FS_Union, FS_EmptySet
  <1> QED
    BY <1>1, <1>4, <1>5 DEF Num, S, O, R

LEMMA NumFork ==
    ASSUME NEW L \in SUBSET Procs, NEW F \in Tables, NEW p \in L, NEW c \in Procs \ L, NEW k, NEW o
    PROVE  /\ Cardinality(Own(F, p, k, o)) \in Nat
           /\ Cardinality(Own(F, p, k, o)) <= Num(L, F, k, o)
           /\ Num(Plus(L, c), Replaced(F, c, F[p]), k, o)
                = Num(L, F, k, o) + Cardinality(Own(F, p, k, o))
  <1> DEFINE S == Descs(L, F, k, o)
             O == Own(F, p, k, o)
             C == {d \in {<<c, f>> : f \in Fds} : F[p][d[2]] = Ref(k, o)}
             R == Descs(Plus(L, c), Replaced(F, c, F[p]), k, o)
             b == [d \in O |-> <<c, d[2]>>]
  <1>1. IsFiniteSet(S) /\ Cardinality(S) \in Nat
    BY DescsFinite DEF Num
  <1>2. O \in SUBSET S
    BY DEF Own, Descs
  <1>3. R = S \cup C /\ S \cap C = {}
    BY DEF Descs, Tables, Replaced, Plus
  <1>4. IsFiniteSet(O) /\ Cardinality(O) \in Nat /\ Cardinality(O) <= Cardinality(S)
    BY <1>1, <1>2, FS_Subset, FS_CardinalityType
  <1>5. ExistsBijection(O, C)
    <2>1. b \in [O -> C]
      BY DEF Own
    <2>2. \A d, e \in O : b[d] = b[e] => d = e
      BY DEF Own
    <2>3. \A x \in C : \E d \in O : b[d] = x
      <3> SUFFICES ASSUME NEW x \in C PROVE \E d \in O : b[d] = x
        OBVIOUS
      <3>1. PICK f \in Fds : x = <<c, f>> /\ F[p][f] = Ref(k, o)
        OBVIOUS
      <3>2. <<p, f>> \in O
        BY <3>1 DEF Own
      <3> QED
        BY <3>1, <3>2
    <2> HIDE DEF O, C, b
    <2>4. b \in Bijection(O, C)
      BY <2>1, <2>2, <2>3, Fun_IsBij
    <2> QED
      BY <2>4 DEF ExistsBijection
  <1> HIDE DEF S, O, C, R, b
  <1>6. IsFiniteSet(C) /\ Cardinality(C) = Cardinality(O)
    BY <1>4, <1>5, FS_Bijection
  <1>7. Cardinality(R) = Cardinality(S) + Cardinality(O)
    <2>1. Cardinality(S \cup C) = Cardinality(S) + Cardinality(C) - Cardinality(S \cap C)
      BY <1>1, <1>6, FS_Union
    <2> QED
      BY <2>1, <1>1, <1>3, <1>4, <1>6, FS_EmptySet
  <1> QED
    BY <1>4, <1>7 DEF Num, S, O, R

-----------------------------------------------------------------------------
(* The inductive invariant, of the processes L, the tables F, the counters *)
(* R and the flags U                                                       *)

Counted == {"pipe_r", "pipe_w", "pty_m", "pty_s", "tmpfs"}

Typed(L, F, R, U) ==
    /\ L \in SUBSET Procs /\ F \in Tables
    /\ R \in [Kinds -> [Objs -> Nat]] /\ U \in [Classes -> [Objs -> BOOLEAN]]

CountsGood(L, F, R, U) ==
    \A k \in Counted, o \in Objs :
        /\ U[Class[k]][o] => Num(L, F, k, o) = R[k][o]
        /\ ~U[Class[k]][o] => Num(L, F, k, o) = 0

\* A pipe or a pty that is in use has a descriptor.
PairsGood(L, F, U) ==
    \A o \in Objs :
        /\ U["pipe"][o] => Num(L, F, "pipe_r", o) > 0 \/ Num(L, F, "pipe_w", o) > 0
        /\ U["pty"][o] => Num(L, F, "pty_m", o) > 0 \/ Num(L, F, "pty_s", o) > 0

\* dup2 does not count sockets, so a count may be too small, but it is never too
\* large, and it is not zero as long as the socket is in use.
SocksGood(L, F, R, U) ==
    \A o \in Objs : U["sock"][o] => R["sock"][o] > 0 /\ R["sock"][o] <= Num(L, F, "sock", o)

Sound(L, F, R, U) ==
    Typed(L, F, R, U) /\ CountsGood(L, F, R, U) /\ PairsGood(L, F, U) /\ SocksGood(L, F, R, U)

IInv ==
    /\ Sound(live, fds, refs, used)
    /\ max_fds \in [Procs -> {0} \cup Limits] /\ opens \in Workloads

LEMMA CountedKinds ==
    /\ Counted \subseteq Kinds /\ Kinds \ {"sock", "inode"} = Counted
    /\ \A k \in Kinds : Class[k] \in Classes
  BY KindsAre DEF Counted

LEMMA CountIsNum ==
    ASSUME NEW k, NEW o
    PROVE  Count(AllFds, k, o) = Num(live, fds, k, o)
  BY DEF Count, AllFds, Num, Descs

LEMMA IInvType == IInv => TypeOK
  BY DEF IInv, Sound, Typed, TypeOK, Tables, Entries

LEMMA IInvRefs == IInv => RefsExact
  BY CountedKinds, CountIsNum DEF IInv, Sound, CountsGood, RefsExact

LEMMA NumPositive ==
    ASSUME NEW L \in SUBSET Procs, NEW F, NEW k, NEW o
    PROVE  Num(L, F, k, o) > 0 <=> \E d \in L \X Fds : F[d[1]][d[2]] = Ref(k, o)
  <1>1. IsFiniteSet(Descs(L, F, k, o)) /\ Num(L, F, k, o) \in Nat
    BY DescsFinite
  <1>2. Num(L, F, k, o) = 0 <=> Descs(L, F, k, o) = {}
    BY <1>1, FS_EmptySet DEF Num
  <1> QED
    BY <1>1, <1>2 DEF Descs

LEMMA IInvPairs == IInv => PairLifetime
  <1> SUFFICES ASSUME IInv, NEW c \in {"pipe", "pty"}, NEW o \in Objs
               PROVE  used[c][o] <=> \E d \in AllFds : LET e == fds[d[1]][d[2]]
                                     IN  e \in {Ref(Ends[c][1], o), Ref(Ends[c][2], o)}
    BY DEF PairLifetime
  <1> DEFINE r == Ends[c][1]
             w == Ends[c][2]
  <1>1. live \in SUBSET Procs
    BY DEF IInv, Sound, Typed
  <1>2. r \in Counted /\ w \in Counted /\ Class[r] = c /\ Class[w] = c
    BY EndsAre, KindsAre DEF Counted
  <1>3. used[c][o] => Num(live, fds, r, o) > 0 \/ Num(live, fds, w, o) > 0
    BY EndsAre DEF IInv, Sound, PairsGood
  <1> HIDE DEF r, w
  <1>4. ~used[c][o] => Num(live, fds, r, o) = 0 /\ Num(live, fds, w, o) = 0
    BY <1>2 DEF IInv, Sound, CountsGood
  <1>5. \A k \in {r, w} : Num(live, fds, k, o) > 0 <=> \E d \in live \X Fds : fds[d[1]][d[2]] = Ref(k, o)
    BY <1>1, NumPositive
  <1>6. used[c][o] <=> \E d \in live \X Fds : fds[d[1]][d[2]] = Ref(r, o) \/ fds[d[1]][d[2]] = Ref(w, o)
    BY <1>3, <1>4, <1>5
  <1> QED
    BY <1>6 DEF AllFds, r, w

LEMMA IInvSocks == IInv => SockNotLeaked
  <1> SUFFICES ASSUME IInv, NEW o \in Objs, used["sock"][o] PROVE Count(AllFds, "sock", o) > 0
    BY DEF SockNotLeaked
  <1>1. refs["sock"][o] > 0 /\ refs["sock"][o] <= Num(live, fds, "sock", o)
    BY DEF IInv, Sound, SocksGood
  <1>2. refs["sock"][o] \in Nat /\ Num(live, fds, "sock", o) \in Nat
    BY DescsFinite, KindsAre DEF IInv, Sound, Typed
  <1> QED
    BY <1>1, <1>2, CountIsNum

-----------------------------------------------------------------------------
(* Releasing descriptors                                                   *)

\* Close and exit, and the first half of dup2: the descriptors D of kinds in K, of
\* which there are n[k][o], go, and the tables become F and the processes L.
LEMMA ReleaseSound ==
    ASSUME NEW D, NEW K \in SUBSET Kinds, Kinds \ {"inode"} \subseteq K,
           NEW L, NEW F, Typed(L, F, refs, used), IInv,
           \A k \in Kinds, o \in Objs :
               /\ Count(D, k, o) \in Nat /\ Count(D, k, o) <= Num(live, fds, k, o)
               /\ Num(L, F, k, o) = Num(live, fds, k, o) - Count(D, k, o)
    PROVE  Sound(L, F, RefsWithout(D, K), UsedWithout(D, K))
  <1> DEFINE R == RefsWithout(D, K)
             U == UsedWithout(D, K)
  <1>1. Typed(live, fds, refs, used) /\ L \in SUBSET Procs
    BY DEF IInv, Sound, Typed
  <1>2. R \in [Kinds -> [Objs -> Nat]]
    BY <1>1 DEF RefsWithout, Typed
  <1>3. U \in [Classes -> [Objs -> BOOLEAN]]
    BY <1>1 DEF UsedWithout, Typed
  <1>4. Typed(L, F, R, U)
    BY <1>2, <1>3 DEF Typed
  <1>5. \A k \in Counted \cup {"sock"}, o \in Objs : used[Class[k]][o] =>
            R[k][o] = IF Count(D, k, o) <= refs[k][o] THEN refs[k][o] - Count(D, k, o) ELSE 0
    BY KindsAre DEF RefsWithout, Counted
  <1>6. \A k \in Counted, o \in Objs : used[Class[k]][o] => R[k][o] = Num(L, F, k, o)
    BY <1>1, <1>5, CountedKinds DEF IInv, Sound, CountsGood, Typed
  <1>7. \A c \in Classes, o \in Objs :
            U[c][o] <=> /\ used[c][o]
                        /\ \/ c = "tmpfs"
                           \/ \E k \in Kinds : Class[k] = c /\ R[k][o] > 0
                           \/ ~\E k \in K : Class[k] = c /\ Count(D, k, o) > 0
    BY <1>1 DEF UsedWithout, Typed
  <1> HIDE DEF R, U
  <1>8. \A k \in Kinds, o \in Objs : Num(live, fds, k, o) \in Nat /\ Num(L, F, k, o) \in Nat
    BY <1>1, DescsFinite DEF Typed
  <1>9. CountsGood(L, F, R, U)
    <2> SUFFICES ASSUME NEW k \in Counted, NEW o \in Objs
                 PROVE  /\ U[Class[k]][o] => Num(L, F, k, o) = R[k][o]
                        /\ ~U[Class[k]][o] => Num(L, F, k, o) = 0
      BY DEF CountsGood
    <2>1. k \in Kinds /\ Class[k] \in Classes
      BY CountedKinds
    <2>2. CASE ~used[Class[k]][o]
      <3>1. Num(live, fds, k, o) = 0
        BY <2>2 DEF IInv, Sound, CountsGood
      <3> QED
        BY <3>1, <2>1, <2>2, <1>7, <1>8
    <2>3. CASE used[Class[k]][o]
      <3>1. R[k][o] = Num(L, F, k, o)
        BY <2>3, <1>6
      <3>2. ~U[Class[k]][o] => ~(R[k][o] > 0)
        BY <2>1, <2>3, <1>7
      <3> QED
        BY <3>1, <3>2, <2>1, <1>8
    <2> QED
      BY <2>2, <2>3
  <1>10. PairsGood(L, F, U)
    <2> SUFFICES ASSUME NEW c \in {"pipe", "pty"}, NEW r \in Counted, NEW w \in Counted, NEW o \in Objs,
                        \A k \in Kinds : Class[k] = c <=> k \in {r, w},
                        U[c][o], used[c][o] => Num(live, fds, r, o) > 0 \/ Num(live, fds, w, o) > 0
                 PROVE  Num(L, F, r, o) > 0 \/ Num(L, F, w, o) > 0
      BY KindsAre DEF PairsGood, Counted, IInv, Sound
    <2>1. used[c][o] /\ r \in Kinds /\ w \in Kinds /\ r \in K /\ w \in K /\ Class[r] = c /\ Class[w] = c
      BY <1>7, KindsAre DEF Counted
    <2>2. CASE \E k \in Kinds : Class[k] = c /\ R[k][o] > 0
      BY <2>1, <2>2, <1>6
    <2>3. CASE ~\E k \in K : Class[k] = c /\ Count(D, k, o) > 0
      <3>1. Count(D, r, o) = 0 /\ Count(D, w, o) = 0
        BY <2>1, <2>3
      <3> QED
        BY <2>1, <3>1, <1>8
    <2> QED
      BY <1>7, <2>2, <2>3, KindsAre
  <1>11. SocksGood(L, F, R, U)
    <2> SUFFICES ASSUME NEW o \in Objs, U["sock"][o]
                 PROVE  R["sock"][o] > 0 /\ R["sock"][o] <= Num(L, F, "sock", o)
      BY DEF SocksGood
    <2>1. "sock" \in Kinds /\ "sock" \in K /\ "sock" \in Classes /\ Class["sock"] = "sock"
          /\ \A k \in Kinds : Class[k] = "sock" => k = "sock"
      BY KindsAre
    <2>2. used["sock"][o] /\ (R["sock"][o] > 0 \/ ~(Count(D, "sock", o) > 0))
      BY <2>1, <1>7
    <2>3. refs["sock"][o] > 0 /\ refs["sock"][o] <= Num(live, fds, "sock", o) /\ refs["sock"][o] \in Nat
      BY <2>1, <2>2, <1>1 DEF IInv, Sound, SocksGood, Typed
    <2>4. R["sock"][o] = IF Count(D, "sock", o) <= refs["sock"][o]
                         THEN refs["sock"][o] - Count(D, "sock", o) ELSE 0
      BY <2>1, <2>2, <1>5
    <2> QED
      BY <2>1, <2>2, <2>3, <2>4, <1>8
  <1> QED
    BY <1>4, <1>9, <1>10, <1>11 DEF Sound, R, U

\* The count of a single descriptor.
LEMMA CountOne ==
    ASSUME NEW p, NEW f, NEW k, NEW o
    PROVE  Count({<<p, f>>}, k, o) = IF fds[p][f] = Ref(k, o) THEN 1 ELSE 0
  <1> DEFINE S == {d \in {<<p, f>>} : fds[d[1]][d[2]] = Ref(k, o)}
  <1>1. CASE fds[p][f] = Ref(k, o)
    <2>1. S = {<<p, f>>}
      BY <1>1
    <2> QED
      BY <1>1, <2>1, FS_Singleton DEF Count
  <1>2. CASE fds[p][f] # Ref(k, o)
    <2>1. S = {}
      BY <1>2
    <2> QED
      BY <1>2, <2>1, FS_EmptySet DEF Count
  <1> QED
    BY <1>1, <1>2

\* One descriptor is released.
LEMMA ReleaseOne ==
    ASSUME NEW p \in live, NEW f \in Fds, IInv
    PROVE  Sound(live, Put(fds, p, f, Free), RefsWithout({<<p, f>>}, ReleaseKinds),
                 UsedWithout({<<p, f>>}, ReleaseKinds))
  <1> DEFINE F == Put(fds, p, f, Free)
             D == {<<p, f>>}
  <1>1. Typed(live, fds, refs, used) /\ live \in SUBSET Procs /\ fds \in Tables
    BY DEF IInv, Sound, Typed
  <1>2. Typed(live, F, refs, used)
    BY <1>1, EntryTypes DEF Typed, Tables, Put
  <1>3. ASSUME NEW k \in Kinds, NEW o \in Objs
        PROVE  /\ Count(D, k, o) \in Nat /\ Count(D, k, o) <= Num(live, fds, k, o)
               /\ Num(live, F, k, o) = Num(live, fds, k, o) - Count(D, k, o)
    <2>1. Count(D, k, o) = IF fds[p][f] = Ref(k, o) THEN 1 ELSE 0
      BY CountOne
    <2>3. Free # Ref(k, o)
      BY EntriesDiffer
    <2>2. /\ fds[p][f] = Ref(k, o) => Num(live, F, k, o) = Num(live, fds, k, o) - 1
          /\ fds[p][f] # Ref(k, o) => Num(live, F, k, o) = Num(live, fds, k, o)
      BY <1>1, <2>3, NumReplace
    <2>4. Num(live, fds, k, o) \in Nat
      BY <1>1, DescsFinite
    <2>5. fds[p][f] = Ref(k, o) => Num(live, fds, k, o) > 0
      <3>1. <<p, f>> \in live \X Fds /\ <<p, f>>[1] = p /\ <<p, f>>[2] = f
        OBVIOUS
      <3> QED
        BY <1>1, <3>1, NumPositive
    <2> HIDE DEF D, F
    <2> QED
      BY <2>1, <2>2, <2>3, <2>4, <2>5
  <1> HIDE DEF F, D
  <1> QED
    BY <1>2, <1>3, ReleaseSound DEF ReleaseKinds, F, D

\* A free descriptor comes to refer to what somebody else refers to as well: the
\* object is counted if its kind is one that dup2 counts.
LEMMA CopySound ==
    ASSUME NEW L, NEW F, NEW R, NEW U, NEW p \in L, NEW f \in Fds, NEW e \in Entries,
           Sound(L, F, R, U), F[p][f] = Free, e.kind \in Counted => U[Class[e.kind]][e.obj]
    PROVE  Sound(L, Put(F, p, f, e),
                 IF e.kind \in Counted THEN [R EXCEPT ![e.kind][e.obj] = @ + 1] ELSE R, U)
  <1> DEFINE G == Put(F, p, f, e)
             S == IF e.kind \in Counted THEN [R EXCEPT ![e.kind][e.obj] = @ + 1] ELSE R
  <1>1. Typed(L, F, R, U) /\ L \in SUBSET Procs /\ F \in Tables
    BY DEF Sound, Typed
  <1>2. e.kind \in Kinds \cup {"free", "std"} /\ e.obj \in Objs /\ e = Ref(e.kind, e.obj)
    BY EntryTypes
  <1>3. Typed(L, G, S, U)
    BY <1>1, <1>2, CountedKinds DEF Typed, Tables, Put
  <1>4. ASSUME NEW k \in Kinds, NEW o \in Objs
        PROVE  /\ Num(L, F, k, o) \in Nat
               /\ Num(L, G, k, o) = IF k = e.kind /\ o = e.obj THEN Num(L, F, k, o) + 1
                                    ELSE Num(L, F, k, o)
    <2>2. Free # Ref(k, o) /\ (e = Ref(k, o) <=> k = e.kind /\ o = e.obj)
      BY <1>2, EntriesDiffer
    <2>1. /\ e = Ref(k, o) => Num(L, G, k, o) = Num(L, F, k, o) + 1
          /\ e # Ref(k, o) => Num(L, G, k, o) = Num(L, F, k, o)
      BY <1>1, <2>2, NumReplace
    <2>3. Num(L, F, k, o) \in Nat
      BY <1>1, DescsFinite
    <2> HIDE DEF G
    <2> QED
      BY <2>1, <2>2, <2>3
  <1>5. \A k \in Kinds, o \in Objs :
            S[k][o] = IF k \in Counted /\ k = e.kind /\ o = e.obj THEN R[k][o] + 1 ELSE R[k][o]
    BY <1>1, <1>2 DEF Typed
  <1> HIDE DEF G, S
  <1>6. CountsGood(L, G, S, U)
    <2> SUFFICES ASSUME NEW k \in Counted, NEW o \in Objs
                 PROVE  /\ U[Class[k]][o] => Num(L, G, k, o) = S[k][o]
                        /\ ~U[Class[k]][o] => Num(L, G, k, o) = 0
      BY DEF CountsGood
    <2>1. k \in Kinds
      BY CountedKinds
    <2>2. /\ U[Class[k]][o] => Num(L, F, k, o) = R[k][o]
          /\ ~U[Class[k]][o] => Num(L, F, k, o) = 0
      BY DEF Sound, CountsGood
    <2>3. ~U[Class[k]][o] => ~(k = e.kind /\ o = e.obj)
      OBVIOUS
    <2> QED
      BY <2>1, <2>2, <2>3, <1>4, <1>5
  <1>7. PairsGood(L, G, U)
    BY <1>4, KindsAre DEF PairsGood, Sound
  <1>8. SocksGood(L, G, S, U)
    <2> SUFFICES ASSUME NEW o \in Objs, U["sock"][o]
                 PROVE  S["sock"][o] > 0 /\ S["sock"][o] <= Num(L, G, "sock", o)
      BY DEF SocksGood
    <2>1. "sock" \in Kinds /\ "sock" \notin Counted
      BY KindsAre DEF Counted
    <2>2. R["sock"][o] \in Nat /\ R["sock"][o] > 0 /\ R["sock"][o] <= Num(L, F, "sock", o)
      BY <2>1, <1>1 DEF Sound, SocksGood, Typed
    <2> QED
      BY <2>1, <2>2, <1>4, <1>5
  <1> QED
    BY <1>3, <1>6, <1>7, <1>8 DEF Sound, G, S

\* A free descriptor comes to refer to an object that was not in use.
LEMMA OpenSound ==
    ASSUME NEW L, NEW F, NEW R, NEW U, NEW p \in L, NEW f \in Fds, NEW k \in {"tmpfs", "sock"},
           NEW o \in Objs, Sound(L, F, R, U), F[p][f] = Free, ~U[Class[k]][o]
    PROVE  Sound(L, Put(F, p, f, Ref(k, o)), [R EXCEPT ![k][o] = 1],
                 [U EXCEPT ![Class[k]][o] = TRUE])
  <1> DEFINE G == Put(F, p, f, Ref(k, o))
             S == [R EXCEPT ![k][o] = 1]
             V == [U EXCEPT ![Class[k]][o] = TRUE]
  <1>1. Typed(L, F, R, U) /\ L \in SUBSET Procs /\ F \in Tables
    BY DEF Sound, Typed
  <1>2. k \in Kinds /\ Class[k] = k /\ k \in Classes /\ \A l \in Kinds : Class[l] = k => l = k
    BY KindsAre
  <1>3. Typed(L, G, S, V)
    BY <1>1, <1>2, EntryTypes DEF Typed, Tables, Put
  <1>4. ASSUME NEW l \in Kinds, NEW u \in Objs
        PROVE  /\ Num(L, F, l, u) \in Nat
               /\ Num(L, G, l, u) = IF l = k /\ u = o THEN Num(L, F, l, u) + 1 ELSE Num(L, F, l, u)
    <2>2. Free # Ref(l, u) /\ (Ref(k, o) = Ref(l, u) <=> l = k /\ u = o)
      BY EntriesDiffer
    <2>1. /\ Ref(k, o) = Ref(l, u) => Num(L, G, l, u) = Num(L, F, l, u) + 1
          /\ Ref(k, o) # Ref(l, u) => Num(L, G, l, u) = Num(L, F, l, u)
      BY <1>1, <2>2, NumReplace
    <2>3. Num(L, F, l, u) \in Nat
      BY <1>1, DescsFinite
    <2> HIDE DEF G
    <2> QED
      BY <2>1, <2>2, <2>3
  <1>5. \A l \in Kinds, u \in Objs : S[l][u] = IF l = k /\ u = o THEN 1 ELSE R[l][u]
    BY <1>1, <1>2 DEF Typed
  <1>6. \A c \in Classes, u \in Objs : V[c][u] <=> (c = k /\ u = o) \/ U[c][u]
    BY <1>1, <1>2 DEF Typed
  <1> HIDE DEF G, S, V
  <1>7. CountsGood(L, G, S, V)
    <2> SUFFICES ASSUME NEW l \in Counted, NEW u \in Objs
                 PROVE  /\ V[Class[l]][u] => Num(L, G, l, u) = S[l][u]
                        /\ ~V[Class[l]][u] => Num(L, G, l, u) = 0
      BY DEF CountsGood
    <2>1. l \in Kinds /\ Class[l] \in Classes /\ (Class[l] = k <=> l = k)
      BY CountedKinds, <1>2
    <2>2. /\ U[Class[l]][u] => Num(L, F, l, u) = R[l][u]
          /\ ~U[Class[l]][u] => Num(L, F, l, u) = 0
      BY DEF Sound, CountsGood
    <2>3. CASE l = k /\ u = o
      <3>1. V[Class[l]][u] /\ Num(L, F, l, u) = 0
        BY <2>1, <2>2, <2>3, <1>2, <1>6
      <3> QED
        BY <2>1, <2>3, <3>1, <1>4, <1>5
    <2>4. CASE ~(l = k /\ u = o)
      <3>1. V[Class[l]][u] <=> U[Class[l]][u]
        BY <2>1, <2>4, <1>6
      <3> QED
        BY <2>1, <2>2, <2>4, <3>1, <1>4, <1>5
    <2> QED
      BY <2>3, <2>4
  <1>8. PairsGood(L, G, V)
    BY <1>2, <1>4, <1>6, KindsAre DEF PairsGood, Sound
  <1>9. SocksGood(L, G, S, V)
    <2> SUFFICES ASSUME NEW u \in Objs, V["sock"][u]
                 PROVE  S["sock"][u] > 0 /\ S["sock"][u] <= Num(L, G, "sock", u)
      BY DEF SocksGood
    <2>1. "sock" \in Kinds /\ "sock" \in Classes
      BY KindsAre
    <2>2. U["sock"][u] => R["sock"][u] \in Nat /\ R["sock"][u] > 0 /\ R["sock"][u] <= Num(L, F, "sock", u)
      BY <2>1, <1>1 DEF Sound, SocksGood, Typed
    <2> QED
      BY <2>1, <2>2, <1>4, <1>5, <1>6
  <1> QED
    BY <1>3, <1>7, <1>8, <1>9 DEF Sound, G, S, V

\* A pair of descriptors for the two ends of an object that was not in use.
LEMMA OpenPairSound ==
    ASSUME NEW L, NEW F, NEW R, NEW U, NEW p \in L, NEW f \in Fds, NEW g \in Fds \ {f},
           NEW c \in {"pipe", "pty"}, NEW o \in Objs, Sound(L, F, R, U),
           F[p][f] = Free, F[p][g] = Free, ~U[c][o]
    PROVE  Sound(L, Put(Put(F, p, f, Ref(Ends[c][1], o)), p, g, Ref(Ends[c][2], o)),
                 [R EXCEPT ![Ends[c][1]][o] = 1, ![Ends[c][2]][o] = 1], [U EXCEPT ![c][o] = TRUE])
  <1> DEFINE r == Ends[c][1]
             w == Ends[c][2]
             H == Put(F, p, f, Ref(r, o))
             G == Put(H, p, g, Ref(w, o))
             S == [R EXCEPT ![r][o] = 1, ![w][o] = 1]
             V == [U EXCEPT ![c][o] = TRUE]
  <1>1. Typed(L, F, R, U) /\ L \in SUBSET Procs /\ F \in Tables
    BY DEF Sound, Typed
  <1>2. /\ r \in Counted /\ w \in Counted /\ r \in Kinds /\ w \in Kinds /\ r # w /\ c \in Classes
        /\ \A l \in Kinds : Class[l] = c <=> l = r \/ l = w
    BY EndsAre, KindsAre DEF Counted
  <1>3. /\ c = "pipe" => r = "pipe_r" /\ w = "pipe_w"
        /\ c = "pty" => r = "pty_m" /\ w = "pty_s"
    BY EndsAre
  <1> HIDE DEF r, w
  <1>4. H \in Tables /\ H[p][g] = Free
    BY <1>1, <1>2, EntryTypes DEF Tables, Put
  <1>5. Typed(L, G, S, V)
    <2>1. G \in Tables
      BY <1>2, <1>4, EntryTypes DEF Tables, Put
    <2>2. S \in [Kinds -> [Objs -> Nat]] /\ V \in [Classes -> [Objs -> BOOLEAN]]
      BY <1>1, <1>2 DEF Typed
    <2> QED
      BY <1>1, <2>1, <2>2 DEF Typed
  <1>6. ASSUME NEW l \in Kinds, NEW u \in Objs
        PROVE  /\ Num(L, F, l, u) \in Nat
               /\ Num(L, G, l, u) = IF l \in {r, w} /\ u = o THEN Num(L, F, l, u) + 1 ELSE Num(L, F, l, u)
    <2>1. /\ Free # Ref(l, u)
          /\ Ref(r, o) = Ref(l, u) <=> l = r /\ u = o
          /\ Ref(w, o) = Ref(l, u) <=> l = w /\ u = o
      BY EntriesDiffer
    <2>2. /\ Ref(r, o) = Ref(l, u) => Num(L, H, l, u) = Num(L, F, l, u) + 1
          /\ Ref(r, o) # Ref(l, u) => Num(L, H, l, u) = Num(L, F, l, u)
      BY <1>1, <2>1, NumReplace
    <2>3. /\ Ref(w, o) = Ref(l, u) => Num(L, G, l, u) = Num(L, H, l, u) + 1
          /\ Ref(w, o) # Ref(l, u) => Num(L, G, l, u) = Num(L, H, l, u)
      <3> HIDE DEF H
      <3> QED
        BY <1>1, <1>4, <2>1, NumReplace
    <2>4. Num(L, F, l, u) \in Nat
      BY <1>1, DescsFinite
    <2> HIDE DEF G, H
    <2> QED
      BY <1>2, <2>1, <2>2, <2>3, <2>4
  <1>7. \A l \in Kinds, u \in Objs : S[l][u] = IF l \in {r, w} /\ u = o THEN 1 ELSE R[l][u]
    BY <1>1, <1>2 DEF Typed
  <1>8. \A x \in Classes, u \in Objs : V[x][u] <=> (x = c /\ u = o) \/ U[x][u]
    BY <1>1, <1>2 DEF Typed
  <1> HIDE DEF G, H, S, V
  <1>9. CountsGood(L, G, S, V)
    <2> SUFFICES ASSUME NEW l \in Counted, NEW u \in Objs
                 PROVE  /\ V[Class[l]][u] => Num(L, G, l, u) = S[l][u]
                        /\ ~V[Class[l]][u] => Num(L, G, l, u) = 0
      BY DEF CountsGood
    <2>1. l \in Kinds /\ Class[l] \in Classes /\ (Class[l] = c <=> l \in {r, w})
      BY CountedKinds, <1>2
    <2>2. /\ U[Class[l]][u] => Num(L, F, l, u) = R[l][u]
          /\ ~U[Class[l]][u] => Num(L, F, l, u) = 0
      BY DEF Sound, CountsGood
    <2>3. CASE l \in {r, w} /\ u = o
      <3>1. V[Class[l]][u] /\ Num(L, F, l, u) = 0
        BY <2>1, <2>2, <2>3, <1>8
      <3> QED
        BY <2>1, <2>3, <3>1, <1>6, <1>7
    <2>4. CASE ~(l \in {r, w} /\ u = o)
      <3>1. V[Class[l]][u] <=> U[Class[l]][u]
        BY <2>1, <2>4, <1>8
      <3> QED
        BY <2>1, <2>2, <2>4, <3>1, <1>6, <1>7
    <2> QED
      BY <2>3, <2>4
  <1>10. PairsGood(L, G, V)
    <2> SUFFICES ASSUME NEW u \in Objs
                 PROVE  /\ V["pipe"][u] => Num(L, G, "pipe_r", u) > 0 \/ Num(L, G, "pipe_w", u) > 0
                        /\ V["pty"][u] => Num(L, G, "pty_m", u) > 0 \/ Num(L, G, "pty_s", u) > 0
      BY DEF PairsGood
    <2>1. /\ U["pipe"][u] => Num(L, F, "pipe_r", u) > 0 \/ Num(L, F, "pipe_w", u) > 0
          /\ U["pty"][u] => Num(L, F, "pty_m", u) > 0 \/ Num(L, F, "pty_s", u) > 0
      BY DEF Sound, PairsGood
    <2>2. \A l \in Kinds : /\ Num(L, F, l, u) \in Nat /\ Num(L, G, l, u) >= Num(L, F, l, u)
                           /\ Num(L, G, l, u) \in Nat
                           /\ l \in {r, w} /\ u = o => Num(L, G, l, u) > 0
      BY <1>6
    <2>3. {"pipe_r", "pipe_w", "pty_m", "pty_s"} \subseteq Kinds /\ {"pipe", "pty"} \subseteq Classes
      BY KindsAre
    <2>4. CASE u = o /\ V[c][u]
      BY <1>3, <1>8, <2>1, <2>2, <2>3, <2>4
    <2>5. CASE ~(u = o /\ V[c][u])
      BY <1>8, <2>1, <2>2, <2>3, <2>5
    <2> QED
      BY <2>4, <2>5
  <1>11. SocksGood(L, G, S, V)
    <2> SUFFICES ASSUME NEW u \in Objs, V["sock"][u]
                 PROVE  S["sock"][u] > 0 /\ S["sock"][u] <= Num(L, G, "sock", u)
      BY DEF SocksGood
    <2>1. "sock" \in Kinds /\ "sock" \in Classes /\ "sock" \notin {r, w} /\ "sock" # c
      BY KindsAre, <1>3
    <2>2. U["sock"][u] => R["sock"][u] \in Nat /\ R["sock"][u] > 0 /\ R["sock"][u] <= Num(L, F, "sock", u)
      BY <2>1, <1>1 DEF Sound, SocksGood, Typed
    <2> QED
      BY <2>1, <2>2, <1>6, <1>7, <1>8
  <1> QED
    BY <1>5, <1>9, <1>10, <1>11 DEF Sound, G, H, S, V, r, w

-----------------------------------------------------------------------------
(* The steps                                                               *)

LEMMA InitInv == Init => IInv
  <1> SUFFICES ASSUME Init PROVE IInv
    OBVIOUS
  <1>1. live \in SUBSET Procs
    BY DEF Init
  <1>2. fds \in Tables
    BY EntryTypes DEF Init, Tables
  <1>3. Typed(live, fds, refs, used)
    BY <1>1, <1>2 DEF Init, Typed
  <1>4. ASSUME NEW k \in Kinds, NEW o \in Objs PROVE Num(live, fds, k, o) = 0
    <2>1. Descs(live, fds, k, o) = {}
      BY <1>1, EntriesDiffer DEF Init, Descs
    <2> QED
      BY <2>1, FS_EmptySet DEF Num
  <1>5. CountsGood(live, fds, refs, used)
    BY <1>4, CountedKinds DEF Init, CountsGood
  <1>6. PairsGood(live, fds, used) /\ SocksGood(live, fds, refs, used)
    BY KindsAre DEF Init, PairsGood, SocksGood
  <1> QED
    BY <1>3, <1>5, <1>6 DEF Init, IInv, Sound

LEMMA FreeFdsAre ==
    ASSUME NEW p, NEW n, NEW f \in FreeFds(p, n)
    PROVE  f \in Fds /\ fds[p][f] = Free
  BY DEF FreeFds

LEMMA OpenPairKeeps ==
    ASSUME NEW p \in live, NEW c \in {"pipe", "pty"}, IInv, OpenPair(p, c)
    PROVE  Sound(live, fds, refs, used)'
  <1>1. PICK f \in FreeFds(p, 2), g \in FreeFds(p, 2), o \in FreeObjs(c) :
            /\ Least(g, FreeFds(p, 2) \ {f})
            /\ fds'  = [fds EXCEPT ![p][f] = Ref(Ends[c][1], o), ![p][g] = Ref(Ends[c][2], o)]
            /\ refs' = [refs EXCEPT ![Ends[c][1]][o] = 1, ![Ends[c][2]][o] = 1]
            /\ used' = [used EXCEPT ![c][o] = TRUE]
    BY DEF OpenPair
  <1>2. f \in Fds /\ g \in Fds \ {f} /\ fds[p][f] = Free /\ fds[p][g] = Free
    BY <1>1, FreeFdsAre DEF Least
  <1>3. o \in Objs /\ ~used[c][o]
    BY DEF FreeObjs
  <1>4. fds' = Put(Put(fds, p, f, Ref(Ends[c][1], o)), p, g, Ref(Ends[c][2], o))
    BY <1>1 DEF Put
  <1>5. live' = live
    BY DEF OpenPair
  <1>6. Sound(live, Put(Put(fds, p, f, Ref(Ends[c][1], o)), p, g, Ref(Ends[c][2], o)),
              [refs EXCEPT ![Ends[c][1]][o] = 1, ![Ends[c][2]][o] = 1], [used EXCEPT ![c][o] = TRUE])
    BY <1>2, <1>3, OpenPairSound DEF IInv
  <1> QED
    BY <1>1, <1>4, <1>5, <1>6

LEMMA OpenCountedKeeps ==
    ASSUME NEW p \in live, NEW k \in {"tmpfs", "sock"}, IInv, OpenCounted(p, k)
    PROVE  Sound(live, fds, refs, used)'
  <1>1. PICK f \in FreeFds(p, 1), o \in Objs :
            /\ Least(o, FreeObjs(Class[k])) \/ (k = "tmpfs" /\ used["tmpfs"][o])
            /\ fds'  = [fds EXCEPT ![p][f] = Ref(k, o)]
            /\ refs' = [refs EXCEPT ![k][o] = IF used[Class[k]][o] THEN @ + 1 ELSE 1]
            /\ used' = [used EXCEPT ![Class[k]][o] = TRUE]
    BY DEF OpenCounted
  <1>2. f \in Fds /\ fds[p][f] = Free /\ live' = live
    BY FreeFdsAre DEF OpenCounted
  <1>3. fds' = Put(fds, p, f, Ref(k, o))
    BY <1>1 DEF Put
  <1>4. Class[k] = k /\ k \in Kinds /\ k \in Classes
    BY KindsAre
  <1>5. CASE ~used[Class[k]][o]
    <2>1. Sound(live, Put(fds, p, f, Ref(k, o)), [refs EXCEPT ![k][o] = 1],
                [used EXCEPT ![Class[k]][o] = TRUE])
      BY <1>2, <1>5, OpenSound DEF IInv
    <2>2. refs' = [refs EXCEPT ![k][o] = 1]
      BY <1>1, <1>5
    <2> QED
      BY <1>1, <1>2, <1>3, <2>1, <2>2
  <1>6. CASE used[Class[k]][o]
    <2> DEFINE e == Ref(k, o)
    <2>1. k = "tmpfs"
      BY <1>1, <1>6 DEF Least, FreeObjs
    <2>2. e \in Entries /\ e.kind = k /\ e.obj = o /\ k \in Counted
      BY <1>4, <2>1, EntryTypes DEF Counted, Ref
    <2>3. used' = used
      BY <1>1, <1>4, <1>6 DEF IInv, Sound, Typed
    <2>4. refs' = [refs EXCEPT ![k][o] = @ + 1]
      BY <1>1, <1>6
    <2> HIDE DEF e
    <2>5. Sound(live, Put(fds, p, f, e), IF e.kind \in Counted THEN [refs EXCEPT ![e.kind][e.obj] = @ + 1] ELSE refs, used)
      BY <1>2, <1>6, <2>2, CopySound DEF IInv
    <2> QED
      BY <1>2, <1>3, <2>2, <2>3, <2>4, <2>5 DEF e
  <1> QED
    BY <1>5, <1>6

LEMMA OpenHostKeeps ==
    ASSUME NEW p \in live, IInv, OpenHost(p)
    PROVE  Sound(live, fds, refs, used)'
  <1>1. PICK f \in FreeFds(p, 1), o \in FreeObjs("9p") :
            /\ fds'  = [fds EXCEPT ![p][f] = Ref("inode", o)]
            /\ used' = [used EXCEPT !["9p"][o] = TRUE]
            /\ live' = live /\ refs' = refs
    BY DEF OpenHost
  <1> DEFINE x == Ref("inode", o)
  <1>2. f \in Fds /\ fds[p][f] = Free /\ o \in Objs
    BY FreeFdsAre DEF FreeObjs
  <1>3. x \in Entries /\ x.kind \notin Counted
    BY <1>2, KindsAre, EntryTypes DEF Counted, Ref
  <1>4. fds' = Put(fds, p, f, x)
    BY <1>1 DEF Put
  <1> HIDE DEF x
  <1>5. Sound(live, Put(fds, p, f, x), IF x.kind \in Counted THEN [refs EXCEPT ![x.kind][x.obj] = @ + 1] ELSE refs, used)
    BY <1>2, <1>3, CopySound DEF IInv
  <1>6. Sound(live', fds', refs', used)
    BY <1>1, <1>3, <1>4, <1>5
  <1>7. used' \in [Classes -> [Objs -> BOOLEAN]]
        /\ \A c \in {"pipe", "pty", "tmpfs", "sock"} : used'[c] = used[c]
    BY <1>1, <1>2, KindsAre DEF IInv, Sound, Typed
  <1>8. \A k \in Counted : Class[k] \in {"pipe", "pty", "tmpfs", "sock"}
    BY KindsAre DEF Counted
  <1> QED
    BY <1>6, <1>7, <1>8 DEF Sound, Typed, CountsGood, PairsGood, SocksGood

LEMMA OpenNoMemKeeps ==
    ASSUME NEW p \in live, IInv, OpenNoMem(p)
    PROVE  Sound(live, fds, refs, used)'
  <1>1. PICK o \in FreeObjs("tmpfs") : refs' = [refs EXCEPT !["tmpfs"][o] = 1]
    BY DEF OpenNoMem
  <1>2. live' = live /\ fds' = fds /\ used' = used
    BY DEF OpenNoMem
  <1>3. o \in Objs /\ ~used["tmpfs"][o] /\ "tmpfs" \in Kinds /\ Class["tmpfs"] = "tmpfs"
    BY KindsAre DEF FreeObjs
  <1>4. Typed(live, fds, refs', used)
    BY <1>1, <1>3 DEF IInv, Sound, Typed
  <1>5. \A k \in Kinds, u \in Objs : ~(k = "tmpfs" /\ u = o) => refs'[k][u] = refs[k][u]
    BY <1>1, <1>3 DEF IInv, Sound, Typed
  <1>6. CountsGood(live, fds, refs', used)
    BY <1>3, <1>5, CountedKinds DEF IInv, Sound, CountsGood
  <1>7. SocksGood(live, fds, refs', used)
    BY <1>5, KindsAre DEF IInv, Sound, SocksGood
  <1> QED
    BY <1>2, <1>4, <1>6, <1>7 DEF IInv, Sound

LEMMA CloseKeeps ==
    ASSUME NEW p \in live, NEW f \in Fds, IInv, Close(p, f)
    PROVE  Sound(live, fds, refs, used)'
  BY ReleaseOne DEF Close, Put

\* dup2: newfd is released first; what oldfd refers to then still has a descriptor,
\* so it is in use and is counted.
LEMMA Dup2Keeps ==
    ASSUME NEW p \in live, NEW old \in Fds, NEW new \in Fds, IInv, Dup2(p, old, new)
    PROVE  Sound(live, fds, refs, used)'
  <1> DEFINE e == fds[p][old]
             F == Put(fds, p, new, Free)
             R == RefsWithout({<<p, new>>}, ReleaseKinds)
             U == UsedWithout({<<p, new>>}, ReleaseKinds)
  <1>1. /\ old # new /\ live' = live /\ used' = U
        /\ refs' = IF e.kind \in DupKinds /\ U[Class[e.kind]][e.obj]
                   THEN [R EXCEPT ![e.kind][e.obj] = @ + 1] ELSE R
        /\ fds' = [fds EXCEPT ![p][new] = e]
    BY DEF Dup2
  <1>2. live \in SUBSET Procs /\ fds \in Tables /\ e \in Entries
    BY DEF IInv, Sound, Typed, Tables
  <1>3. Sound(live, F, R, U)
    BY ReleaseOne
  <1>4. F[p][new] = Free /\ F[p][old] = e /\ fds' = Put(F, p, new, e)
    BY <1>1, <1>2 DEF Put, Tables
  <1>5. e.kind \in Counted => U[Class[e.kind]][e.obj]
    <2>1. e = Ref(e.kind, e.obj) /\ e.obj \in Objs
      BY <1>2, EntryTypes
    <2>2. <<p, old>> \in live \X Fds /\ F[<<p, old>>[1]][<<p, old>>[2]] = Ref(e.kind, e.obj)
      BY <1>4, <2>1
    <2> HIDE DEF e, F, R, U
    <2>3. Num(live, F, e.kind, e.obj) > 0
      BY <1>2, <2>2, NumPositive
    <2> QED
      BY <1>3, <2>1, <2>3 DEF Sound, CountsGood
  <1>6. refs' = IF e.kind \in Counted THEN [R EXCEPT ![e.kind][e.obj] = @ + 1] ELSE R
    BY <1>1, <1>5 DEF DupKinds, Counted
  <1> HIDE DEF e, F, R, U
  <1>7. Sound(live, Put(F, p, new, e), IF e.kind \in Counted THEN [R EXCEPT ![e.kind][e.obj] = @ + 1] ELSE R, U)
    BY <1>2, <1>3, <1>4, <1>5, CopySound
  <1> QED
    BY <1>1, <1>4, <1>6, <1>7

LEMMA CountIsOwn ==
    ASSUME NEW p, NEW k, NEW o
    PROVE  Count({<<p, f>> : f \in Fds}, k, o) = Cardinality(Own(fds, p, k, o))
  BY DEF Count, Own

LEMMA ForkKeeps ==
    ASSUME NEW p \in live, NEW c \in Procs, IInv, Fork(p, c), opens' = opens
    PROVE  IInv'
  <1> DEFINE N(k, o) == Cardinality(Own(fds, p, k, o))
  <1>1. /\ c \in Procs \ live /\ live' = Plus(live, c) /\ used' = used
        /\ fds' = Replaced(fds, c, fds[p])
        /\ max_fds' = [max_fds EXCEPT ![c] = max_fds[p]]
    BY DEF Fork, Replaced, Plus
  <1>2. live \in SUBSET Procs /\ fds \in Tables /\ Typed(live, fds, refs, used)
    BY DEF IInv, Sound, Typed
  <1>3. ASSUME NEW k \in Kinds, NEW o \in Objs
        PROVE  /\ N(k, o) \in Nat /\ N(k, o) <= Num(live, fds, k, o)
               /\ Num(live, fds, k, o) \in Nat
               /\ Num(live', fds', k, o) = Num(live, fds, k, o) + N(k, o)
    <2>1. c \in Procs \ live
      BY <1>1
    <2>2. /\ Cardinality(Own(fds, p, k, o)) \in Nat
          /\ Cardinality(Own(fds, p, k, o)) <= Num(live, fds, k, o)
          /\ Num(Plus(live, c), Replaced(fds, c, fds[p]), k, o)
               = Num(live, fds, k, o) + Cardinality(Own(fds, p, k, o))
      BY <1>2, <2>1, NumFork
    <2>3. Num(live, fds, k, o) \in Nat
      BY <1>2, DescsFinite
    <2> QED
      BY <1>1, <2>2, <2>3
  <1>4. \A k \in Kinds, o \in Objs :
            refs'[k][o] = IF k \in ForkKinds /\ used[Class[k]][o] THEN refs[k][o] + N(k, o) ELSE refs[k][o]
    BY CountIsOwn DEF Fork
  <1>5. refs' \in [Kinds -> [Objs -> Nat]]
    <2>1. refs' = [k \in Kinds |-> [o \in Objs |->
                      IF k \in ForkKinds /\ used[Class[k]][o] THEN refs[k][o] + N(k, o) ELSE refs[k][o]]]
      BY CountIsOwn DEF Fork
    <2> HIDE DEF N
    <2> QED
      BY <2>1, <1>2, <1>3 DEF Typed
  <1>6. Typed(live', fds', refs', used')
    BY <1>1, <1>2, <1>5 DEF Typed, Tables, Replaced, Plus
  <1> HIDE DEF N
  <1>7. CountsGood(live', fds', refs', used')
    <2> SUFFICES ASSUME NEW k \in Counted, NEW o \in Objs
                 PROVE  /\ used[Class[k]][o] => Num(live', fds', k, o) = refs'[k][o]
                        /\ ~used[Class[k]][o] => Num(live', fds', k, o) = 0
      BY <1>1 DEF CountsGood
    <2>1. k \in Kinds /\ k \in ForkKinds
      BY CountedKinds DEF Counted, ForkKinds
    <2>2. /\ used[Class[k]][o] => Num(live, fds, k, o) = refs[k][o]
          /\ ~used[Class[k]][o] => Num(live, fds, k, o) = 0
      BY DEF IInv, Sound, CountsGood
    <2> QED
      BY <2>1, <2>2, <1>3, <1>4
  <1>8. PairsGood(live', fds', used')
    <2>1. \A k \in Kinds, o \in Objs : Num(live, fds, k, o) > 0 => Num(live', fds', k, o) > 0
      BY <1>3
    <2>2. PairsGood(live, fds, used) /\ {"pipe_r", "pipe_w", "pty_m", "pty_s"} \subseteq Kinds
      BY KindsAre DEF IInv, Sound
    <2> QED
      BY <1>1, <2>1, <2>2 DEF PairsGood
  <1>9. SocksGood(live', fds', refs', used')
    <2> SUFFICES ASSUME NEW o \in Objs, used["sock"][o]
                 PROVE  refs'["sock"][o] > 0 /\ refs'["sock"][o] <= Num(live', fds', "sock", o)
      BY <1>1 DEF SocksGood
    <2>1. "sock" \in Kinds /\ "sock" \in ForkKinds /\ Class["sock"] = "sock"
      BY KindsAre DEF ForkKinds
    <2>2. refs["sock"][o] \in Nat /\ refs["sock"][o] > 0 /\ refs["sock"][o] <= Num(live, fds, "sock", o)
      BY <2>1, <1>2 DEF IInv, Sound, SocksGood, Typed
    <2> QED
      BY <2>1, <2>2, <1>3, <1>4
  <1>10. max_fds' \in [Procs -> {0} \cup Limits]
    BY <1>1, <1>2 DEF IInv
  <1>11. Sound(live', fds', refs', used')
    BY <1>6, <1>7, <1>8, <1>9 DEF Sound
  <1> QED
    BY <1>10, <1>11 DEF IInv

LEMMA ExitKeeps ==
    ASSUME NEW p \in live, IInv, Exit(p)
    PROVE  Sound(live, fds, refs, used)'
  <1> DEFINE D == {<<p, f>> : f \in Fds}
             L == Minus(live, p)
             F == Replaced(fds, p, [f \in Fds |-> Free])
  <1>1. live \in SUBSET Procs /\ fds \in Tables /\ Typed(live, fds, refs, used)
    BY DEF IInv, Sound, Typed
  <1>2. Typed(L, F, refs, used)
    BY <1>1, EntryTypes DEF Typed, Tables, Replaced, Minus
  <1>3. ASSUME NEW k \in Kinds, NEW o \in Objs
        PROVE  /\ Count(D, k, o) \in Nat /\ Count(D, k, o) <= Num(live, fds, k, o)
               /\ Num(L, F, k, o) = Num(live, fds, k, o) - Count(D, k, o)
    <2>1. Count(D, k, o) = Cardinality(Own(fds, p, k, o))
      BY CountIsOwn
    <2>2. /\ Cardinality(Own(fds, p, k, o)) \in Nat
          /\ Cardinality(Own(fds, p, k, o)) <= Num(live, fds, k, o)
          /\ Num(L, F, k, o) = Num(live, fds, k, o) - Cardinality(Own(fds, p, k, o))
      BY <1>1, NumExit
    <2> HIDE DEF D, L, F
    <2> QED
      BY <2>1, <2>2
  <1>4. ExitKinds \in SUBSET Kinds /\ Kinds \ {"inode"} \subseteq ExitKinds
    BY DEF ExitKinds
  <1>5. live' = L /\ fds' = F /\ refs' = RefsWithout(D, ExitKinds) /\ used' = UsedWithout(D, ExitKinds)
    BY DEF Exit, Replaced, Minus
  <1> HIDE DEF D, L, F
  <1>6. Sound(L, F, RefsWithout(D, ExitKinds), UsedWithout(D, ExitKinds))
    BY <1>2, <1>3, <1>4, ReleaseSound
  <1> QED
    BY <1>5, <1>6

LEMMA Step == IInv /\ [Next]_vars => IInv'
  <1> SUFFICES ASSUME IInv, [Next]_vars PROVE IInv'
    OBVIOUS
  <1>1. CASE UNCHANGED vars
    BY <1>1 DEF vars, IInv, Sound, Typed, CountsGood, PairsGood, SocksGood
  <1>2. CASE Next
    <2>1. opens' = opens
      BY <1>2 DEF Next
    <2> PICK p \in live :
            \/ \E c \in opens \cap {"pipe", "pty"} : OpenPair(p, c)
            \/ \E k \in opens \cap {"tmpfs", "sock"} : OpenCounted(p, k)
            \/ "9p" \in opens /\ OpenHost(p)
            \/ "tmpfs" \in opens /\ OpenNoMem(p)
            \/ \E f \in Fds : Close(p, f)
            \/ \E f, g \in Fds : Dup2(p, f, g)
            \/ \E q \in Procs : Fork(p, q)
            \/ Exit(p)
            \/ \E n \in Limits : SetLimit(p, n)
      BY <1>2 DEF Next
    <2>2. CASE \E c \in opens \cap {"pipe", "pty"} : OpenPair(p, c)
      <3>1. Sound(live', fds', refs', used')
        BY <2>2, OpenPairKeeps
      <3>2. max_fds' = max_fds
        BY <2>2 DEF OpenPair
      <3> QED
        BY <2>1, <3>1, <3>2 DEF IInv
    <2>3. CASE \E k \in opens \cap {"tmpfs", "sock"} : OpenCounted(p, k)
      <3>1. Sound(live', fds', refs', used')
        BY <2>3, OpenCountedKeeps
      <3>2. max_fds' = max_fds
        BY <2>3 DEF OpenCounted
      <3> QED
        BY <2>1, <3>1, <3>2 DEF IInv
    <2>4. CASE OpenHost(p) \/ OpenNoMem(p)
      <3>1. Sound(live', fds', refs', used')
        BY <2>4, OpenHostKeeps, OpenNoMemKeeps
      <3>2. max_fds' = max_fds
        BY <2>4 DEF OpenHost, OpenNoMem
      <3> QED
        BY <2>1, <3>1, <3>2 DEF IInv
    <2>5. CASE (\E f \in Fds : Close(p, f)) \/ (\E f, g \in Fds : Dup2(p, f, g))
      <3>1. Sound(live', fds', refs', used')
        BY <2>5, CloseKeeps, Dup2Keeps
      <3>2. max_fds' = max_fds
        BY <2>5 DEF Close, Dup2
      <3> QED
        BY <2>1, <3>1, <3>2 DEF IInv
    <2>6. CASE \E q \in Procs : Fork(p, q)
      BY <2>1, <2>6, ForkKeeps
    <2>7. CASE Exit(p)
      <3>1. Sound(live', fds', refs', used')
        BY <2>7, ExitKeeps
      <3>2. max_fds' \in [Procs -> {0} \cup Limits]
        BY <2>7 DEF Exit, IInv
      <3> QED
        BY <2>1, <3>1, <3>2 DEF IInv
    <2>8. CASE \E n \in Limits : SetLimit(p, n)
      <3>1. max_fds' \in [Procs -> {0} \cup Limits]
        BY <2>8 DEF SetLimit, IInv
      <3>2. live' = live /\ fds' = fds /\ refs' = refs /\ used' = used
        BY <2>8 DEF SetLimit
      <3> QED
        BY <2>1, <3>1, <3>2 DEF IInv
    <2> QED
      BY <2>2, <2>3, <2>4, <2>5, <2>6, <2>7, <2>8
  <1> QED
    BY <1>1, <1>2

-----------------------------------------------------------------------------
(* Theorems                                                                *)

\* IInv: the counters and the flags follow the descriptor tables of the processes
\* that live, with sockets counted too low rather than too high.
THEOREM Invariance == Spec => []IInv
  BY InitInv, Step, PTL DEF Spec

\* Descriptor tables, counters and limits are well formed: no counter goes below
\* zero, and no descriptor names an object outside of its table.
THEOREM TypeCorrect == Spec => []TypeOK
  BY Invariance, IInvType, PTL

\* The counters of pipes, ptys and tmpfs files are the numbers of descriptors that
\* refer to them, after any sequence of open, close, dup2, fork and exit.
THEOREM CountersExact == Spec => []RefsExact
  BY Invariance, IInvRefs, PTL

\* A pipe or a pty is in use exactly as long as some descriptor refers to it.
THEOREM PairsLiveAsLongAsUsed == Spec => []PairLifetime
  BY Invariance, IInvPairs, PTL

\* Although dup2 does not count sockets, a socket in use has a descriptor.
THEOREM SocketsNotLeaked == Spec => []SockNotLeaked
  BY Invariance, IInvSocks, PTL

=============================================================================
